-------------------------- MODULE GraphReviewProofs --------------------------
(***************************************************************************)
(* Review of the causal graph, for any rows, changes, outcomes and bounds, *)
(* and for any number of requests that overlap at every await.             *)
(*                                                                         *)
(* Core is inductive.  Rejected rows stay inactive through an undo only if *)
(* what the log recorded before the operation was consistent too; the log  *)
(* accounts for a row only if no operation names a row that is not there   *)
(* yet; and what a request holds across its awaits is about rows and       *)
(* operations that are still there when it commits.  Revisions and Rested  *)
(* are preserved given Core.                                               *)
(***************************************************************************)
EXTENDS GraphReview, SequenceTheorems, WellFoundedInduction, TLAPS

Op == [target : Nat, before : Review \cup {None}, after : Review \cup {None},
       from : Nat, to : Nat, undone : BOOLEAN, undoes : Nat]

TheorySet == [basis : SUBSET (Nat \X (Overrides \cup {None})), size : Nat,
              stale : BOOLEAN, current : BOOLEAN, outrun : BOOLEAN]

Types ==
    /\ rows \in Seq(Row) /\ Len(rows) <= MaxRows
    /\ log \in Seq(Op) /\ Len(log) <= MaxRevision
    /\ revision \in 1..MaxRevision
    /\ anchor \subseteq Outcomes
    /\ theories \in Seq(TheorySet) /\ Len(theories) <= MaxTheories
    /\ crossed \subseteq 1..Len(rows)

\* The fields of an edit's request, and of one that asks a model for links.
EditShape(r) ==
    r = [op |-> r.op, rev |-> r.rev, seen |-> r.seen, undoes |-> r.undoes,
         undone |-> r.undone, target |-> r.target, was |-> r.was, link |-> r.link]

AskShape(r) ==
    r = [op |-> r.op, rev |-> r.rev, new |-> r.new, known |-> r.known, changed |-> r.changed,
         answered |-> r.answered, pairs |-> r.pairs, seen |-> r.seen]

\* An edit's reads: of the operation it undoes, of its element, of its link.
HoldsEdit(r) ==
    /\ EditShape(r)
    /\ r.undoes \in 0..Len(log) /\ r.undone = FALSE
    /\ r.target # 0 =>
        /\ r.target \in 1..Len(rows) /\ r.was \in Review
        /\ r.undoes # 0 => r.target = log[r.undoes].target
    /\ r.link # <<0, 0>> => r.link[1] \in Claims(rows) /\ r.link[2] \in Claims(rows)

\* What a generation read of the graph is about rows that were there.
Within(g, basis, size) == size <= Len(g) /\ \A e \in basis : e[1] \in 1..size

\* What a session keeps across its awaits.
Holds(r) ==
    /\ r.op \in {"edit", "infer", "sync", "link"} => r.rev \in 1..MaxRevision
    /\ r.op = "edit" => HoldsEdit(r)
    /\ r.op \in {"infer", "link"} => AskShape(r) /\ r.known \subseteq Claims(rows)
    /\ r.op = "sync" => r.wanted \subseteq Outcomes
    /\ r.op = "generate" =>
        /\ r.basis \in SUBSET (Nat \X (Overrides \cup {None})) /\ r.size \in Nat
        /\ Within(rows, r.basis, r.size)

Requests ==
    /\ request = [s \in Sessions |-> request[s]]
    /\ \A s \in Sessions : Holds(request[s])

\* Every link joins two claims; every operation is about a row that is there.
References ==
    /\ \A e \in Edges(rows) : {rows[e].from, rows[e].to} \subseteq Claims(rows)
    /\ \A n \in 1..Len(log) : log[n].target \in 1..Len(rows) /\ log[n].undoes < n

\* What an undo could put back is not both rejected and active.
LogExcludes ==
    \A n \in 1..Len(log) :
        log[n].target \notin crossed /\ rows[log[n].target].kind # "outcome"
        /\ log[n].before # None /\ log[n].before.status = "rejected" => ~log[n].before.active

\* Each element on which no requests crossed is as its last operation left it,
\* which found it as the one before left it.
Accounted ==
    \A t \in (1..Len(rows)) \ crossed : rows[t].kind # "outcome" =>
        /\ rows[t].review = Left(Touching(t))
        /\ \A n \in Touching(t) : log[n].before # None =>
            log[n].before = Left({m \in Touching(t) : m < n})

\* No two operations share a revision, and none has one still to come.
Revisions ==
    ~overtaken => \A n \in 1..Len(log) :
        /\ log[n].to <= revision
        /\ n > 1 => log[n - 1].to <= log[n].from

\* What the graph g holds of claims and the links between them.
PlainIn(g, i) ==
    LET nodes == {n \in 1..Len(g) : g[n].kind = "outcome"}
    IN IF g[i].kind = "edge" THEN {g[i].from, g[i].to} \cap nodes = {} ELSE i \notin nodes

Now(g) == {e \in Effective(g) : PlainIn(g, e[1])}

\* What was read of the graph is what stands of it, but for what a model grew.
Matches(g, basis, size) ==
    /\ Within(g, basis, size)
    /\ {e \in Now(g) : e[1] <= size} = {e \in basis : PlainIn(g, e[1])}
    /\ \A e \in Now(g) : e[1] > size => g[e[1]].via = "grown"

Rested ==
    \A k \in Current : ~theories[k].stale /\ ~theories[k].outrun =>
        Matches(rows, theories[k].basis, theories[k].size)

Core == /\ Types /\ Requests /\ References /\ LogExcludes
        /\ ExcludedIsInactive /\ InferenceRepeatsNothing
        /\ Accounted /\ UndoIsExact

-----------------------------------------------------------------------------
(* What the writers share. *)

LEMMA LeastExists ==
    ASSUME NEW T, T \subseteq Nat, T # {}
    PROVE  \E m \in T : \A k \in T : m <= k
  <1>1. PICK m \in T : \A k \in T : ~(<<k, m>> \in OpToRel(<, Nat))
    BY NatLessThanWellFounded, WFMin
  <1>2. ASSUME NEW k \in T PROVE m <= k
    <2>1. m \in Nat /\ k \in Nat
      BY <1>1, <1>2
    <2>2. ~(k < m)
      BY <1>1, <2>1 DEF OpToRel
    <2>3. QED
      BY <2>1, <2>2
  <1>3. QED
    BY <1>2

\* A non-empty set of operations of a log has a newest one.
LEMMA NewestExists ==
    ASSUME NEW n \in Nat, NEW ops, ops \subseteq 1..n, ops # {}
    PROVE  Newest(ops) \in ops /\ \A m \in ops : m <= Newest(ops)
  <1> DEFINE T == {x \in Nat : \E k \in ops : x + k = n}
  <1>1. T \subseteq Nat /\ T # {}
    <2>1. PICK k \in ops : TRUE
      OBVIOUS
    <2>2. n - k \in T
      BY <2>1
    <2>3. QED
      BY <2>2
  <1>2. PICK x \in T : \A y \in T : x <= y
    <2> HIDE DEF T
    <2>1. QED
      BY <1>1, LeastExists
  <1>3. PICK m \in ops : x + m = n
    BY <1>2
  <1>4. ASSUME NEW k \in ops PROVE k <= m
    <2>1. n - k \in T
      OBVIOUS
    <2>2. QED
      BY <1>2, <1>3, <2>1
  <1>5. QED
    BY <1>3, <1>4 DEF Newest

\* No row goes away or becomes another one: a step changes reviews and adds rows.
\* Where requests crossed, they have.
Kept ==
    /\ crossed \subseteq crossed'
    /\ rows' \in Seq(Row) /\ Len(rows) <= Len(rows') /\ Len(rows') <= MaxRows
    /\ \A i \in 1..Len(rows) :
        /\ rows'[i].kind = rows[i].kind /\ rows'[i].via = rows[i].via
        /\ rows'[i].from = rows[i].from /\ rows'[i].to = rows[i].to

LEMMA KeptFacts ==
    ASSUME Types, Kept
    PROVE  /\ Len(rows) \in Nat /\ Len(rows') \in Nat
           /\ \A i \in 1..Len(rows) : i \in 1..Len(rows')
           /\ Claims(rows) \subseteq Claims(rows)'
           /\ Edges(rows) \subseteq Edges(rows)'
           /\ \A e \in Edges(rows)' : e <= Len(rows) => e \in Edges(rows)
  BY DEF Types, Kept, Claims, Edges

\* No operation goes away, or is about another row.
LogKept ==
    /\ Len(log') \in Nat /\ Len(log) <= Len(log')
    /\ \A n \in 1..Len(log) : log'[n].target = log[n].target

LEMMA LogStays == ASSUME Types, log' = log PROVE LogKept
  BY DEF Types, LogKept

\* What was held across an await is held still.
LEMMA HeldOn ==
    ASSUME Types, Kept, LogKept, NEW r, Holds(r)
    PROVE  Holds(r)'
  <1>1. /\ Len(rows) \in Nat /\ Len(rows') \in Nat /\ Len(rows) <= Len(rows')
        /\ Claims(rows) \subseteq Claims(rows)' /\ Len(log) \in Nat
    BY KeptFacts DEF Types, Kept
  <1>2. r.op = "edit" => HoldsEdit(r)'
    <2> SUFFICES ASSUME r.op = "edit" PROVE HoldsEdit(r)'
      OBVIOUS
    <2>1. HoldsEdit(r)
      BY DEF Holds
    <2>6. EditShape(r)'
      BY <2>1 DEF HoldsEdit, EditShape
    <2>2. r.undoes \in 0..Len(log') /\ r.undone = FALSE
      BY <1>1, <2>1 DEF HoldsEdit, LogKept
    <2>3. r.link # <<0, 0>> => r.link[1] \in Claims(rows)' /\ r.link[2] \in Claims(rows)'
      BY <1>1, <2>1 DEF HoldsEdit
    <2>4. ASSUME r.target # 0
          PROVE  /\ r.target \in 1..Len(rows') /\ r.was \in Review
                 /\ r.undoes # 0 => r.target = log'[r.undoes].target
      <3>1. /\ r.target \in 1..Len(rows) /\ r.was \in Review
            /\ r.undoes # 0 => r.target = log[r.undoes].target
        BY <2>1, <2>4 DEF HoldsEdit
      <3>2. r.undoes # 0 => r.undoes \in 1..Len(log)
        BY <1>1, <2>1 DEF HoldsEdit
      <3>3. QED
        BY <1>1, <3>1, <3>2 DEF LogKept
    <2>5. QED
      BY <2>2, <2>3, <2>4, <2>6 DEF HoldsEdit
  <1>5. r.op \in {"infer", "link"} => AskShape(r)'
    BY DEF Holds, AskShape
  <1>3. r.op = "generate" => Within(rows, r.basis, r.size)'
    BY <1>1 DEF Holds, Within
  <1>4. QED
    BY <1>1, <1>2, <1>3, <1>5 DEF Holds

\* One session moves on, to a request that holds of the rows there are then.
LEMMA RequestMoves ==
    ASSUME Types, Requests, Kept, LogKept, NEW s \in Sessions, NEW r,
           request' = [request EXCEPT ![s] = r], Holds(r)'
    PROVE  Requests' /\ request'[s] = r /\ \A q \in Sessions \ {s} : request'[q] = request[q]
  <1>1. /\ request' = [q \in Sessions |-> request'[q]]
        /\ request'[s] = r /\ \A q \in Sessions \ {s} : request'[q] = request[q]
    BY DEF Requests
  <1>2. ASSUME NEW q \in Sessions \ {s} PROVE Holds(request[q])'
    <2>1. PICK p : p = request[q] /\ p = request'[q]
      BY <1>1
    <2>2. Holds(p)
      BY <2>1 DEF Requests
    <2>3. Holds(p)'
      BY <2>2, HeldOn
    <2>4. QED
      BY <2>1, <2>3 DEF Holds, HoldsEdit, EditShape, AskShape, Within
  <1>3. Holds(request[s])'
    BY <1>1 DEF Holds, HoldsEdit, EditShape, AskShape, Within
  <1>4. \A q \in Sessions : Holds(request[q])'
    BY <1>2, <1>3
  <1>5. QED
    BY <1>1, <1>4 DEF Requests

\* An operation of the audit log, and the mark on the one it undoes.
Logged(s, target, before, after, undoes) ==
    /\ log' \in Seq(Op) /\ Len(log) \in Nat
    /\ Len(log') = Len(log) + 1 /\ Len(log') <= MaxRevision
    /\ \A n \in 1..Len(log) :
         /\ log'[n].target = log[n].target /\ log'[n].undoes = log[n].undoes
         /\ log'[n].before = log[n].before /\ log'[n].after = log[n].after
         /\ log'[n].from = log[n].from /\ log'[n].to = log[n].to
         /\ log'[n].undone <=> (log[n].undone \/ n = undoes)
    /\ log'[Len(log) + 1] =
         [target |-> target, before |-> before, after |-> after,
          from |-> request[s].rev, to |-> request[s].rev + 1,
          undone |-> FALSE, undoes |-> undoes]

LEMMA RecordFacts ==
    ASSUME Types, NEW s \in Sessions, request[s].rev \in Nat,
           NEW target \in Nat, NEW before \in Review \cup {None},
           NEW after \in Review \cup {None}, NEW undoes \in Nat,
           Record(s, target, before, after, undoes)
    PROVE  Logged(s, target, before, after, undoes)
  <1> DEFINE told == [n \in 1..Len(log) |->
                        IF n = undoes THEN [log[n] EXCEPT !.undone = TRUE] ELSE log[n]]
             op == [target |-> target, before |-> before, after |-> after,
                    from |-> request[s].rev, to |-> request[s].rev + 1,
                    undone |-> FALSE, undoes |-> undoes]
  <1>1. Len(log) \in Nat /\ \A n \in 1..Len(log) : log[n] \in Op
    BY ElementOfSeq DEF Types
  <1>2. op \in Op
    BY DEF Op
  <1>3. \A n \in 1..Len(log) : told[n] \in Op
    BY <1>1 DEF Op
  <1>4. told \in Seq(Op) /\ Len(told) = Len(log)
    BY <1>1, <1>3
  <1>5. log' = Append(told, op) /\ Len(log) < MaxRevision
    BY DEF Record
  <1>6. /\ log' \in Seq(Op) /\ Len(log') = Len(log) + 1
        /\ \A n \in 1..Len(log) : log'[n] = told[n]
        /\ log'[Len(log) + 1] = op
    <2> HIDE DEF told, op
    <2>1. QED
      BY <1>2, <1>4, <1>5, AppendProperties
  <1>7. ASSUME NEW n \in 1..Len(log)
        PROVE  /\ log'[n].target = log[n].target /\ log'[n].undoes = log[n].undoes
               /\ log'[n].before = log[n].before /\ log'[n].after = log[n].after
               /\ log'[n].from = log[n].from /\ log'[n].to = log[n].to
               /\ log'[n].undone <=> (log[n].undone \/ n = undoes)
    <2>1. log'[n] = IF n = undoes THEN [log[n] EXCEPT !.undone = TRUE] ELSE log[n]
      BY <1>6
    <2>2. QED
      BY <1>1, <2>1 DEF Op
  <1>8. Len(log') <= MaxRevision
    BY <1>1, <1>5, <1>6, BoundsAreNumbers
  <1>9. log'[Len(log) + 1] = op
    BY <1>6
  <1> HIDE DEF told
  <1>10. QED
    BY <1>1, <1>6, <1>7, <1>8, <1>9 DEF Logged

-----------------------------------------------------------------------------
(* The rows: what is appended, and what a review or a sync leaves alone. *)

\* Rows are appended that are accepted, that join claims, and that repeat no
\* link if they were inferred.
LEMMA AppendRows ==
    ASSUME Types, References, RejectedStaysOut, NEW new \in Seq(Row),
           rows' = rows \o new, Len(rows) + Len(new) <= MaxRows, crossed \subseteq crossed',
           \A k \in 1..Len(new) : new[k].review = Accepted,
           \A k \in 1..Len(new) : new[k].kind = "edge" =>
              {new[k].from, new[k].to} \subseteq Claims(rows)',
           \A k \in 1..Len(new) :
              new[k].kind = "edge" /\ new[k].via = "inferred" /\ Len(rows) + k \notin crossed' =>
              /\ Pair(new[k]) \notin Present
              /\ \A l \in 1..Len(new) : l < k => Pair(new[l]) # Pair(new[k])
    PROVE  /\ Kept /\ RejectedStaysOut'
           /\ \A e \in Edges(rows)' : {rows'[e].from, rows'[e].to} \subseteq Claims(rows)'
           /\ Len(rows') = Len(rows) + Len(new)
           /\ \A i \in 1..Len(rows) : rows'[i] = rows[i]
           /\ \A k \in 1..Len(new) : rows'[Len(rows) + k] = new[k]
           /\ \A i \in 1..Len(rows') : i > Len(rows) => rows'[i].review = Accepted
  <1>1. /\ rows' \in Seq(Row) /\ Len(rows) \in Nat /\ Len(new) \in Nat
        /\ Len(rows') = Len(rows) + Len(new)
        /\ \A i \in 1..Len(rows) + Len(new) :
             rows'[i] = IF i <= Len(rows) THEN rows[i] ELSE new[i - Len(rows)]
    BY ConcatProperties, LenProperties DEF Types
  <1>2. \A i \in 1..Len(rows) : rows'[i] = rows[i]
    BY <1>1
  <1>3. ASSUME NEW k \in 1..Len(new) PROVE rows'[Len(rows) + k] = new[k]
    <2>1. /\ Len(rows) + k \in 1..Len(rows) + Len(new) /\ ~(Len(rows) + k <= Len(rows))
          /\ Len(rows) + k - Len(rows) = k
      BY <1>1
    <2>2. QED
      BY <1>1, <2>1
  <1>4. ASSUME NEW i \in 1..Len(rows'), i > Len(rows)
        PROVE  i - Len(rows) \in 1..Len(new) /\ rows'[i] = new[i - Len(rows)]
    BY <1>1, <1>4
  <1>5. Kept
    BY <1>1, <1>2 DEF Kept
  <1>6. \A e \in Edges(rows)' : {rows'[e].from, rows'[e].to} \subseteq Claims(rows)'
    <2> SUFFICES ASSUME NEW e \in Edges(rows)'
                 PROVE  {rows'[e].from, rows'[e].to} \subseteq Claims(rows)'
      OBVIOUS
    <2>1. CASE e <= Len(rows)
      BY <1>1, <1>2, <1>5, <2>1, KeptFacts DEF References, Edges
    <2>2. CASE e > Len(rows)
      BY <1>1, <1>4, <2>2 DEF Edges
    <2>3. QED
      BY <1>1, <2>1, <2>2 DEF Edges
  <1>7. ExcludedIsInactive'
    <2> SUFFICES ASSUME NEW i \in (1..Len(rows')) \ crossed', rows'[i].kind # "outcome",
                        rows'[i].review.status = "rejected"
                 PROVE  ~rows'[i].review.active
      BY DEF ExcludedIsInactive
    <2>1. CASE i <= Len(rows)
      BY <1>1, <1>2, <2>1 DEF RejectedStaysOut, ExcludedIsInactive
    <2>2. CASE i > Len(rows)
      BY <1>4, <2>2 DEF Accepted
    <2>3. QED
      BY <1>1, <2>1, <2>2
  <1>8. InferenceRepeatsNothing'
    <2> SUFFICES ASSUME NEW e \in Edges(rows)' \ crossed', rows'[e].via = "inferred",
                        NEW f \in Edges(rows)', f < e
                 PROVE  Pair(rows'[f]) # Pair(rows'[e])
      BY DEF InferenceRepeatsNothing
    <2>1. e \in 1..Len(rows') /\ f \in 1..Len(rows') /\ rows'[e].kind = "edge" /\ rows'[f].kind = "edge"
      BY DEF Edges
    <2>2. CASE e <= Len(rows)
      <3>1. e \in Edges(rows) /\ f \in Edges(rows)
        BY <1>1, <1>5, <2>1, <2>2, KeptFacts
      <3>2. rows'[e] = rows[e] /\ rows'[f] = rows[f]
        BY <1>1, <1>2, <2>1, <2>2
      <3>3. QED
        BY <3>1, <3>2 DEF RejectedStaysOut, InferenceRepeatsNothing
    <2>3. CASE e > Len(rows) /\ f <= Len(rows)
      <3>1. f \in Edges(rows) /\ rows'[f] = rows[f]
        BY <1>1, <1>2, <1>5, <2>1, <2>3, KeptFacts
      <3>2. Pair(rows[f]) \in Present
        BY <3>1 DEF Present
      <3>3. Pair(rows'[e]) \notin Present
        <4>1. /\ e - Len(rows) \in 1..Len(new) /\ rows'[e] = new[e - Len(rows)]
              /\ Len(rows) + (e - Len(rows)) = e
          BY <1>1, <1>4, <2>1, <2>3
        <4>2. QED
          BY <2>1, <4>1
      <3>4. QED
        BY <3>1, <3>2, <3>3
    <2>4. CASE e > Len(rows) /\ f > Len(rows)
      <3>1. /\ rows'[e] = new[e - Len(rows)] /\ rows'[f] = new[f - Len(rows)]
            /\ e - Len(rows) \in 1..Len(new) /\ f - Len(rows) \in 1..Len(new)
            /\ f - Len(rows) < e - Len(rows) /\ Len(rows) + (e - Len(rows)) = e
        BY <1>1, <1>4, <2>1, <2>4
      <3>2. QED
        BY <2>1, <3>1
    <2>5. QED
      BY <1>1, <2>1, <2>2, <2>3, <2>4
  <1>9. \A i \in 1..Len(rows') : i > Len(rows) => rows'[i].review = Accepted
    BY <1>4
  <1>10. QED
    BY <1>1, <1>2, <1>3, <1>5, <1>6, <1>7, <1>8, <1>9 DEF RejectedStaysOut

\* A review changes one element, which is not left both rejected and active.
LEMMA ReviewRow ==
    ASSUME Types, References, RejectedStaysOut, NEW t \in 1..Len(rows), NEW now \in Review,
           rows' = [rows EXCEPT ![t].review = now], crossed \subseteq crossed',
           t \notin crossed' /\ rows[t].kind # "outcome" /\ now.status = "rejected" => ~now.active
    PROVE  /\ Kept /\ RejectedStaysOut'
           /\ \A e \in Edges(rows)' : {rows'[e].from, rows'[e].to} \subseteq Claims(rows)'
           /\ Len(rows') = Len(rows)
           /\ rows'[t].review = now
           /\ \A i \in 1..Len(rows) : i # t => rows'[i] = rows[i]
  <1>1. /\ \A i \in 1..Len(rows) : rows[i] \in Row
        /\ Len(rows) \in Nat
    BY DEF Types
  <1>2. /\ rows' \in Seq(Row) /\ Len(rows') = Len(rows)
        /\ rows'[t] = [rows[t] EXCEPT !.review = now]
        /\ \A i \in 1..Len(rows) : i # t => rows'[i] = rows[i]
    <2>1. [rows[t] EXCEPT !.review = now] \in Row
      BY <1>1 DEF Row
    <2>2. rows' = [rows EXCEPT ![t] = [rows[t] EXCEPT !.review = now]]
      OBVIOUS
    <2>3. QED
      BY <2>1, <2>2, ExceptSeq DEF Types
  <1>3. /\ rows'[t].review = now /\ rows'[t].kind = rows[t].kind /\ rows'[t].via = rows[t].via
        /\ rows'[t].from = rows[t].from /\ rows'[t].to = rows[t].to
    BY <1>1, <1>2 DEF Row
  <1>4. Kept
    BY <1>1, <1>2, <1>3 DEF Kept, Types
  <1>5. Claims(rows)' = Claims(rows) /\ Edges(rows)' = Edges(rows)
    BY <1>2, <1>4 DEF Kept, Claims, Edges
  <1>6. \A e \in Edges(rows)' : {rows'[e].from, rows'[e].to} \subseteq Claims(rows)'
    BY <1>4, <1>5 DEF Kept, References, Edges
  <1>7. ExcludedIsInactive'
    <2> SUFFICES ASSUME NEW i \in (1..Len(rows)) \ crossed', rows'[i].kind # "outcome",
                        rows'[i].review.status = "rejected"
                 PROVE  ~rows'[i].review.active
      BY <1>2 DEF ExcludedIsInactive
    <2>1. CASE i = t
      BY <1>3, <2>1
    <2>2. CASE i # t
      BY <1>2, <2>2 DEF RejectedStaysOut, ExcludedIsInactive
    <2>3. QED
      BY <2>1, <2>2
  <1>8. InferenceRepeatsNothing'
    <2>1. \A e \in Edges(rows) : Pair(rows'[e]) = Pair(rows[e]) /\ rows'[e].via = rows[e].via
      BY <1>4 DEF Kept, Edges, Pair
    <2>2. QED
      BY <1>5, <2>1 DEF RejectedStaysOut, InferenceRepeatsNothing
  <1>9. QED
    BY <1>2, <1>3, <1>4, <1>6, <1>7, <1>8 DEF RejectedStaysOut

\* The log accounts for the rows still, when no operation is added and only
\* outcome nodes were changed.
LEMMA LogSame ==
    ASSUME Types, References, LogExcludes, Accounted, UndoIsExact, Kept, log' = log,
           \A i \in 1..Len(rows) : rows[i].kind # "outcome" => rows'[i].review = rows[i].review,
           \A i \in 1..Len(rows') :
              i > Len(rows) /\ rows'[i].kind # "outcome" => rows'[i].review = Accepted
    PROVE  /\ LogExcludes' /\ Accounted' /\ UndoIsExact'
           /\ \A n \in 1..Len(log') : log'[n].target \in 1..Len(rows') /\ log'[n].undoes < n
  <1>0. crossed \subseteq crossed'
    BY DEF Kept
  <1>1. \A n \in 1..Len(log) :
           /\ log[n].target \in 1..Len(rows) /\ log[n].target \in 1..Len(rows')
           /\ rows'[log[n].target].kind = rows[log[n].target].kind
    BY KeptFacts DEF References, Kept
  <1>2. \A t : Touching(t)' = Touching(t)
    BY DEF Touching
  <1>3. \A ops : Left(ops)' = Left(ops)
    BY DEF Left, Newest
  <1>4. LogExcludes'
    BY <1>0, <1>1 DEF LogExcludes
  <1>5. UndoIsExact'
    BY <1>0 DEF UndoIsExact
  <1>6. Accounted'
    <2> SUFFICES ASSUME NEW t \in (1..Len(rows')) \ crossed', rows'[t].kind # "outcome"
                 PROVE  /\ rows'[t].review = Left(Touching(t))
                        /\ \A n \in Touching(t) : log[n].before # None =>
                             log[n].before = Left({m \in Touching(t) : m < n})
      BY <1>2, <1>3 DEF Accounted
    <2>1. CASE t <= Len(rows)
      <3>1. t \in (1..Len(rows)) \ crossed
        BY <1>0, <2>1, KeptFacts
      <3>2. rows[t].kind # "outcome" /\ rows'[t].review = rows[t].review
        BY <3>1 DEF Kept
      <3>3. QED
        BY <3>1, <3>2 DEF Accounted
    <2>2. CASE t > Len(rows)
      <3>1. Touching(t) = {}
        BY <1>1, <2>2, KeptFacts DEF Touching
      <3>2. QED
        BY <2>2, <3>1 DEF Left
    <2>3. t <= Len(rows) \/ t > Len(rows)
      BY KeptFacts
    <2>4. QED
      BY <2>1, <2>2, <2>3
  <1>7. QED
    BY <1>1, <1>4, <1>5, <1>6 DEF References

\* What an operation may be: about a row that is there, with the state it leaves
\* and, unless requests crossed on the row, the state it found; or the undo of an
\* operation on the same row.
Apt(target, before, after, undoes) ==
    /\ target \in 1..Len(rows') /\ undoes \in 0..Len(log)
    /\ before \in Review \cup {None} /\ after \in Review \cup {None}
    /\ target \notin crossed' =>
        /\ rows'[target].kind # "outcome" =>
             rows'[target].review = IF after = None THEN Accepted ELSE after
        /\ before # None => target <= Len(rows) /\ before = rows[target].review
        /\ undoes # 0 => ~log[undoes].undone
    /\ undoes # 0 =>
         /\ log[undoes].target = target
         /\ log[undoes].before # None => after = log[undoes].before

\* The log accounts for the rows still, when an operation is added that is apt.
LEMMA LogAppended ==
    ASSUME Types, References, LogExcludes, Accounted, UndoIsExact, ExcludedIsInactive, Kept,
           NEW s \in Sessions, request[s].rev \in Nat,
           NEW target, NEW before, NEW after, NEW undoes, Apt(target, before, after, undoes),
           Record(s, target, before, after, undoes),
           \A i \in 1..Len(rows) : i # target => rows'[i].review = rows[i].review,
           \A i \in 1..Len(rows') :
              i > Len(rows) /\ i # target /\ rows'[i].kind # "outcome" => rows'[i].review = Accepted
    PROVE  /\ LogExcludes' /\ Accounted' /\ UndoIsExact'
           /\ \A n \in 1..Len(log') : log'[n].target \in 1..Len(rows') /\ log'[n].undoes < n
           /\ log' \in Seq(Op) /\ Len(log') <= MaxRevision /\ LogKept
  <1>0. PICK N \in Nat : N = Len(log)
    BY DEF Types
  <1>00. crossed \subseteq crossed'
    BY DEF Kept
  <1>1. /\ log' \in Seq(Op) /\ Len(log') = N + 1 /\ Len(log') <= MaxRevision
        /\ \A n \in 1..N :
             /\ log'[n].target = log[n].target /\ log'[n].undoes = log[n].undoes
             /\ log'[n].before = log[n].before /\ log'[n].after = log[n].after
             /\ log'[n].undone <=> (log[n].undone \/ n = undoes)
        /\ log'[N + 1].target = target /\ log'[N + 1].undoes = undoes
        /\ log'[N + 1].before = before /\ log'[N + 1].after = after
        /\ ~log'[N + 1].undone
    <2>1. /\ target \in Nat /\ undoes \in Nat
          /\ before \in Review \cup {None} /\ after \in Review \cup {None}
      BY <1>0, KeptFacts DEF Apt
    <2>2. Logged(s, target, before, after, undoes)
      BY <2>1, RecordFacts
    <2>3. QED
      BY <1>0, <2>2 DEF Logged
  <1>2. /\ \A n \in 1..N :
             /\ log[n].target \in 1..Len(rows) /\ log[n].target \in 1..Len(rows')
             /\ log[n].undoes < n /\ log[n].undoes \in Nat
             /\ rows'[log[n].target].kind = rows[log[n].target].kind
        /\ target \in 1..Len(rows') /\ undoes \in 0..N
    <2>1. \A n \in 1..N : log[n].undoes \in Nat
      <3>1. \A n \in 1..N : log[n] \in Op
        BY <1>0, ElementOfSeq DEF Types
      <3>2. QED
        BY <3>1 DEF Op
    <2>2. \A n \in 1..N : log[n].target \in 1..Len(rows) /\ log[n].undoes < n
      BY <1>0 DEF References
    <2>3. \A i \in 1..Len(rows) : i \in 1..Len(rows') /\ rows'[i].kind = rows[i].kind
      BY KeptFacts DEF Kept
    <2>4. target \in 1..Len(rows') /\ undoes \in 0..N
      BY <1>0 DEF Apt
    <2>5. QED
      BY <2>1, <2>2, <2>3, <2>4
  <1>3. \A n \in 1..N + 1 : log'[n].target \in 1..Len(rows') /\ log'[n].undoes < n
    <2>1. \A n \in 1..N : log'[n].target \in 1..Len(rows') /\ log'[n].undoes < n
      BY <1>0, <1>1, <1>2
    <2>2. log'[N + 1].target \in 1..Len(rows') /\ log'[N + 1].undoes < N + 1
      BY <1>0, <1>1, <1>2
    <2>3. QED
      BY <1>0, <1>1, <2>1, <2>2
  <1>4. LogExcludes'
    <2> SUFFICES ASSUME NEW n \in 1..N + 1, rows'[log'[n].target].kind # "outcome",
                        log'[n].target \notin crossed',
                        log'[n].before # None, log'[n].before.status = "rejected"
                 PROVE  ~log'[n].before.active
      BY <1>0, <1>1 DEF LogExcludes
    <2>1. CASE n \in 1..N
      <3>1. /\ n \in 1..Len(log) /\ rows[log[n].target].kind # "outcome"
            /\ log[n].before = log'[n].before /\ log[n].target \notin crossed
        BY <1>0, <1>00, <1>1, <1>2, <2>1
      <3>2. QED
        BY <3>1 DEF LogExcludes
    <2>2. CASE n = N + 1
      <3>1. target \in (1..Len(rows)) \ crossed /\ before = rows[target].review
        BY <1>0, <1>00, <1>1, <1>2, <2>2, KeptFacts DEF Apt
      <3>2. QED
        BY <1>0, <1>1, <2>2, <3>1 DEF ExcludedIsInactive, Kept
    <2>3. QED
      BY <1>0, <1>1, <2>1, <2>2
  <1>5. \A t : Touching(t)' = Touching(t) \cup {n \in {N + 1} : t = target}
    BY <1>0, <1>1 DEF Touching
  <1>6. ASSUME NEW ops, ops \subseteq 1..N PROVE Left(ops)' = Left(ops)
    <2>1. ops # {} => Newest(ops) \in 1..N
      BY <1>0, <1>1, <1>6, NewestExists
    <2>2. QED
      BY <1>0, <1>1, <2>1 DEF Left, Newest
  <1>7. Accounted'
    <2> SUFFICES ASSUME NEW t \in (1..Len(rows')) \ crossed', rows'[t].kind # "outcome"
                 PROVE  /\ rows'[t].review = Left(Touching(t))'
                        /\ \A n \in Touching(t)' : log'[n].before # None =>
                             log'[n].before = Left({m \in Touching(t) : m < n})'
      BY DEF Accounted
    <2>1. Touching(t) \subseteq 1..N
      BY <1>0 DEF Touching
    <2>2. t \notin 1..Len(rows) => Touching(t) = {}
      BY <1>0, <1>2 DEF Touching
    <2>3. ASSUME NEW n \in Touching(t), log'[n].before # None
          PROVE  log'[n].before = Left({m \in Touching(t) : m < n})'
      <3>1. t \in (1..Len(rows)) \ crossed /\ rows[t].kind # "outcome"
        BY <1>00, <2>2, <2>3 DEF Kept
      <3>2. n \in 1..N /\ log[n].before = log'[n].before
        BY <1>0, <1>1, <2>1
      <3>3. log[n].before = Left({m \in Touching(t) : m < n})
        BY <2>3, <3>1, <3>2 DEF Accounted
      <3>4. {m \in Touching(t)' : m < n} = {m \in Touching(t) : m < n}
        BY <1>0, <1>1, <1>5, <3>2
      <3>5. {m \in Touching(t) : m < n} \subseteq 1..N
        BY <1>0, <2>1
      <3>6. QED
        BY <1>0, <1>6, <3>2, <3>3, <3>4, <3>5
    <2>4. CASE t # target
      <3>1. Touching(t)' = Touching(t)
        BY <1>0, <1>5, <2>4
      <3>2. rows'[t].review = Left(Touching(t))
        <4>1. CASE t \in 1..Len(rows)
          BY <1>00, <2>4, <4>1 DEF Accounted, Kept
        <4>2. CASE t \notin 1..Len(rows)
          BY <2>2, <2>4, <4>2, KeptFacts DEF Left
        <4>3. QED
          BY <1>0, <4>1, <4>2
      <3>3. rows'[t].review = Left(Touching(t))'
        BY <1>0, <1>6, <2>1, <3>1, <3>2
      <3>4. QED
        BY <2>3, <2>1, <3>1, <3>3
    <2>5. CASE t = target
      <3>1. Touching(t)' = Touching(t) \cup {N + 1}
        BY <1>0, <1>5, <2>5
      <3>2. Newest(Touching(t))' = N + 1
        BY <1>0, <1>1, <2>1, <3>1 DEF Newest
      <3>3. rows'[t].review = Left(Touching(t))'
        BY <1>0, <1>1, <2>5, <3>1, <3>2 DEF Left, Apt
      <3>4. ASSUME log'[N + 1].before # None
            PROVE  log'[N + 1].before = Left({m \in Touching(t) : m < N + 1})'
        <4>1. t \in (1..Len(rows)) \ crossed /\ before = rows[t].review
          BY <1>0, <1>00, <1>1, <1>2, <2>5, <3>4, KeptFacts DEF Apt
        <4>2. rows[t].review = Left(Touching(t))
          BY <4>1 DEF Accounted, Kept
        <4>3. {m \in Touching(t)' : m < N + 1} = Touching(t)
          BY <1>0, <1>1, <2>1, <3>1
        <4>4. PICK ops \in SUBSET (1..N) : ops = Touching(t)
          BY <2>1
        <4>5. Left(ops)' = Left(ops)
          BY <1>6
        <4>6. Left({m \in Touching(t) : m < N + 1})' = Left(ops)
          BY <4>3, <4>4, <4>5
        <4>7. QED
          BY <1>1, <4>1, <4>2, <4>4, <4>6
      <3>5. QED
        BY <2>3, <3>1, <3>3, <3>4
    <2>6. QED
      BY <2>4, <2>5
  <1>8. UndoIsExact'
    <2>1. ASSUME NEW n \in 1..N + 1, log'[n].undoes # 0
          PROVE  /\ log'[log'[n].undoes].undone /\ log'[log'[n].undoes].target = log'[n].target
                 /\ log'[n].target \notin crossed' =>
                      \A m \in 1..N + 1 : log'[m].undoes = log'[n].undoes => m = n
                 /\ log'[log'[n].undoes].before # None
                      => log'[n].after = log'[log'[n].undoes].before
      <3>1. CASE n \in 1..N
        <4>0. log[n].undoes \in 1..N /\ log'[n].undoes = log[n].undoes
          <5>1. log'[n].undoes = log[n].undoes
            BY <1>1, <3>1
          <5>2. log[n].undoes \in Nat /\ log[n].undoes < n /\ log[n].undoes # 0
            BY <1>2, <2>1, <3>1, <5>1
          <5>3. QED
            BY <1>0, <3>1, <5>1, <5>2
        <4>1. PICK u \in 1..N : u = log[n].undoes /\ u = log'[n].undoes
          BY <4>0
        <4>2. /\ log[u].undone /\ log[u].target = log[n].target
              /\ log[u].before # None => log[n].after = log[u].before
          BY <2>1, <3>1, <4>1, <1>0 DEF UndoIsExact
        <4>3. ASSUME log'[n].target \notin crossed', NEW m \in 1..N + 1, log'[m].undoes = u
              PROVE  m = n
          <5>0. log[n].target \notin crossed
            BY <1>00, <1>1, <3>1, <4>3
          <5>1. CASE m \in 1..N
            BY <1>0, <1>1, <2>1, <3>1, <4>1, <4>3, <5>0, <5>1 DEF UndoIsExact
          <5>2. CASE m = N + 1
            <6>1. undoes = u /\ undoes # 0
              BY <1>0, <1>1, <4>1, <4>3, <5>2
            <6>2. target \notin crossed'
              BY <1>1, <3>1, <4>2, <4>3, <6>1 DEF Apt
            <6>3. QED
              BY <4>2, <6>1, <6>2 DEF Apt
          <5>3. m \in 1..N \/ m = N + 1
            BY <1>0
          <5>4. QED
            BY <5>1, <5>2, <5>3
        <4>5. log'[u].undone /\ log'[u].target = log'[n].target
          BY <1>1, <3>1, <4>2
        <4>6. log'[u].before = log[u].before /\ log'[n].after = log[n].after
          BY <1>1, <3>1
        <4>7. QED
          BY <4>1, <4>2, <4>3, <4>5, <4>6
      <3>2. CASE n = N + 1
        <4>1. undoes \in 1..N /\ log'[n].undoes = undoes /\ log'[n].target = target
          BY <1>0, <1>1, <1>2, <2>1, <3>2
        <4>2. /\ target \notin crossed' => ~log[undoes].undone
              /\ log[undoes].target = target
              /\ log[undoes].before # None => after = log[undoes].before
          BY <4>1 DEF Apt
        <4>3. ASSUME target \notin crossed', NEW m \in 1..N + 1, log'[m].undoes = undoes
              PROVE  m = n
          <5>1. m \in 1..N => log[m].undoes # undoes
            BY <4>1, <4>2, <4>3, <1>0 DEF UndoIsExact
          <5>2. QED
            BY <1>0, <1>1, <3>2, <4>3, <5>1
        <4>4. QED
          BY <1>0, <1>1, <3>2, <4>1, <4>2, <4>3
      <3>3. QED
        BY <1>0, <1>1, <3>1, <3>2
    <2>2. ASSUME NEW n \in 1..N + 1, log'[n].undone
          PROVE  \E m \in 1..N + 1 : log'[m].undoes = n
      <3>1. CASE n \in 1..N /\ log[n].undone
        <4>1. PICK m \in 1..N : log[m].undoes = n
          BY <3>1, <1>0 DEF UndoIsExact
        <4>2. QED
          BY <1>0, <1>1, <4>1
      <3>2. CASE n \in 1..N /\ n = undoes
        <4>1. N + 1 \in 1..N + 1 /\ log'[N + 1].undoes = n
          BY <1>0, <1>1, <3>2
        <4>2. QED
          BY <4>1
      <3>3. n = N + 1 \/ n \in 1..N
        BY <1>0
      <3>4. n # N + 1 /\ (n \in 1..N => log[n].undone \/ n = undoes)
        BY <1>1, <2>2
      <3>5. QED
        BY <3>1, <3>2, <3>3, <3>4
    <2>3. QED
      BY <1>0, <1>1, <2>1, <2>2 DEF UndoIsExact
  <1>9. \A n \in 1..Len(log') : log'[n].target \in 1..Len(rows') /\ log'[n].undoes < n
    BY <1>0, <1>1, <1>3
  <1>10. LogKept
    BY <1>0, <1>1 DEF LogKept
  <1>11. QED
    BY <1>0, <1>1, <1>4, <1>7, <1>8, <1>9, <1>10

-----------------------------------------------------------------------------
(* Theory sets, and a review of a row. *)

\* A current set that a statement found is stale, one it missed is outrun.
LEMMA StaledFacts ==
    ASSUME Types, NEW m
    PROVE  /\ Staled(theories, m) \in Seq(TheorySet)
           /\ Len(Staled(theories, m)) = Len(theories)
           /\ \A k \in 1..Len(theories) : Staled(theories, m)[k].current =>
                Staled(theories, m)[k].stale \/ Staled(theories, m)[k].outrun
  <1>1. Len(theories) \in Nat /\ \A k \in 1..Len(theories) : theories[k] \in TheorySet
    BY ElementOfSeq DEF Types
  <1>2. /\ Forgotten \in TheorySet /\ Forgotten.stale
        /\ Outrun \in TheorySet /\ Outrun.outrun
    BY DEF Forgotten, Outrun, TheorySet
  <1>3. PICK sets : sets = Staled(theories, m)
    OBVIOUS
  <1>4. /\ sets = [k \in 1..Len(theories) |-> sets[k]]
        /\ \A k \in 1..Len(theories) :
             sets[k] = IF ~theories[k].current \/ theories[k].stale THEN theories[k]
                       ELSE IF k <= m THEN Forgotten ELSE Outrun
    BY <1>3 DEF Staled
  <1>5. \A k \in 1..Len(theories) : sets[k] \in TheorySet
    BY <1>1, <1>2, <1>4
  <1>6. sets \in [1..Len(theories) -> TheorySet]
    BY <1>4, <1>5
  <1>7. sets \in Seq(TheorySet) /\ Len(sets) = Len(theories)
    BY <1>1, <1>6
  <1>8. \A k \in 1..Len(theories) : sets[k].current => sets[k].stale \/ sets[k].outrun
    BY <1>2, <1>4
  <1>9. QED
    BY <1>3, <1>7, <1>8

\* The marks a session makes leave no current set that is fresh.
Marked ==
    /\ theories' \in Seq(TheorySet) /\ Len(theories') <= MaxTheories
    /\ \A k \in Current' : theories'[k].stale \/ theories'[k].outrun

LEMMA MarkFacts ==
    ASSUME Types, NEW m, theories' = Staled(theories, m)
    PROVE  Marked
  BY StaledFacts DEF Types, Marked, Current

LEMMA RetiredFacts ==
    ASSUME Types, NEW ks
    PROVE  /\ Retired(theories, ks) \in Seq(TheorySet)
           /\ Len(Retired(theories, ks)) = Len(theories)
           /\ \A k \in 1..Len(theories) :
                Retired(theories, ks)[k] = theories[k] \/ ~Retired(theories, ks)[k].current
  <1>1. Len(theories) \in Nat /\ \A k \in 1..Len(theories) : theories[k] \in TheorySet
    BY ElementOfSeq DEF Types
  <1>2. [Forgotten EXCEPT !.current = FALSE] \in TheorySet
        /\ ~[Forgotten EXCEPT !.current = FALSE].current
    BY DEF Forgotten, TheorySet
  <1>3. \A k \in 1..Len(theories) :
          (IF k \in ks THEN [Forgotten EXCEPT !.current = FALSE] ELSE theories[k]) \in TheorySet
    BY <1>1, <1>2
  <1>4. /\ Retired(theories, ks) \in Seq(TheorySet)
        /\ Len(Retired(theories, ks)) = Len(theories)
    <2>1. Retired(theories, ks) \in [1..Len(theories) -> TheorySet]
      BY <1>1, <1>3 DEF Retired
    <2>2. \A n \in Nat : \A f \in [1..n -> TheorySet] : f \in Seq(TheorySet) /\ Len(f) = n
      OBVIOUS
    <2>3. QED
      BY <1>1, <2>1, <2>2
  <1>5. \A k \in 1..Len(theories) :
          Retired(theories, ks)[k] = theories[k] \/ ~Retired(theories, ks)[k].current
    BY <1>2 DEF Retired
  <1>6. QED
    BY <1>4, <1>5

\* Whatever a change asks for, it leaves no element both rejected and active.
LEMMA ReviewedFacts ==
    ASSUME NEW was \in Review, NEW c \in Changes
    PROVE  /\ Reviewed(was, c) \in Review
           /\ (was.status = "rejected" => ~was.active)
              => (Reviewed(was, c).status = "rejected" => ~Reviewed(was, c).active)
  <1>1. c \in Change
    BY ChangesAreChanges
  <1>2. QED
    BY <1>1, NoneIsApart DEF Change, Review, Statuses, Reviewed

LEMMA InitCore == Init => Core
  <1> SUFFICES ASSUME Init PROVE Core
    OBVIOUS
  <1> USE DEF Init
  <1>1. /\ \A i \in 1..Len(Seed) : Seed[i] \in Row
        /\ Len(Seed) \in Nat
    BY ElementOfSeq, SeedIsRows
  <1>2. Types
    <2>1. anchor \subseteq Outcomes
      BY <1>1, SeedIsRows DEF Row
    <2>2. log \in Seq(Op) /\ Len(log) = 0 /\ theories \in Seq(TheorySet) /\ Len(theories) = 0
      OBVIOUS
    <2>3. 0 <= MaxRevision /\ 0 <= MaxTheories /\ 1 \in 1..MaxRevision
      BY BoundsAreNumbers
    <2>4. QED
      BY <2>1, <2>2, <2>3, SeedIsRows DEF Types
  <1>3. Requests
    BY DEF Requests, Holds, Idle
  <1>4. 1..Len(log) = {}
    OBVIOUS
  <1>5. References
    BY <1>4, SeedIsRows DEF References
  <1>6. LogExcludes /\ UndoIsExact
    BY <1>4 DEF LogExcludes, UndoIsExact
  <1>7. ExcludedIsInactive /\ InferenceRepeatsNothing
    BY SeedIsRows DEF ExcludedIsInactive, InferenceRepeatsNothing, Accepted, Edges
  <1>8. Accounted
    <2>1. \A t : Touching(t) = {}
      BY <1>4 DEF Touching
    <2>2. QED
      BY <2>1, SeedIsRows DEF Accounted, Left
  <1>9. QED
    BY <1>2, <1>3, <1>5, <1>6, <1>7, <1>8 DEF Core

\* Nothing is said of rows and log that a step leaves as they are.
LEMMA SameGraph ==
    ASSUME Core, rows' = rows, log' = log, crossed' = crossed
    PROVE  /\ Kept /\ LogKept /\ References' /\ LogExcludes' /\ ExcludedIsInactive'
           /\ InferenceRepeatsNothing' /\ Accounted' /\ UndoIsExact'
  <1>1. Kept /\ LogKept
    BY LogStays DEF Core, Types, Kept
  <1>2. Claims(rows)' = Claims(rows) /\ Edges(rows)' = Edges(rows)
    BY DEF Claims, Edges
  <1>3. References' /\ LogExcludes' /\ ExcludedIsInactive' /\ InferenceRepeatsNothing'
    BY <1>2 DEF Core, References, LogExcludes, ExcludedIsInactive, InferenceRepeatsNothing
  <1>4. \A t : Touching(t)' = Touching(t)
    BY DEF Touching
  <1>5. \A ops : Left(ops)' = Left(ops)
    BY DEF Left, Newest
  <1>6. Accounted' /\ UndoIsExact'
    BY <1>4, <1>5 DEF Core, Accounted, UndoIsExact
  <1>7. QED
    BY <1>1, <1>3, <1>6

-----------------------------------------------------------------------------
(* The operations, for any number of sessions. *)

Quiet(s) ==
    \/ Open(s) \/ \E n \in 1..Len(log) : CheckUndone(s, n)
    \/ \E t \in 1..Len(rows) : ReadTarget(s, t)
    \/ \E i, j \in Claims(rows) : CheckLink(s, i, j)
    \/ \E i \in Claims(rows) : OpenInfer(s, i)
    \/ ReadPairs(s)
    \/ OpenGrow(s) \/ \E wanted \in SUBSET Outcomes : OpenAnchor(s, wanted)
    \/ Rescore(s) \/ OpenGenerate(s) \/ CommitTheories(s) \/ Abandon(s)

LEMMA QuietFacts ==
    ASSUME NEW s \in Sessions, Quiet(s)
    PROVE  /\ rows' = rows /\ log' = log /\ revision' = revision
           /\ crossed' = crossed /\ overtaken' = overtaken
           /\ theories' = theories \/ Rescore(s) \/ CommitTheories(s)
  BY DEF Quiet, Open, CheckUndone, ReadTarget, CheckLink, ReadPairs, OpenInfer, OpenGrow,
         OpenAnchor, Rescore, OpenGenerate, CommitTheories, Abandon, Start, Read

LEMMA LogOps ==
    ASSUME Types PROVE Len(log) \in Nat /\ \A n \in 1..Len(log) : log[n] \in Op
  BY ElementOfSeq DEF Types

LEMMA RowTyped == ASSUME Types, NEW t \in 1..Len(rows) PROVE rows[t] \in Row
  BY ElementOfSeq DEF Types

LEMMA EditFields ==
    ASSUME NEW r, NEW a, NEW b, NEW c, NEW d, NEW e, NEW f, NEW g, NEW h,
           r = [op |-> a, rev |-> b, seen |-> c, undoes |-> d,
                undone |-> e, target |-> f, was |-> g, link |-> h]
    PROVE  /\ EditShape(r) /\ r.op = a /\ r.rev = b /\ r.undoes = d /\ r.undone = e
           /\ r.target = f /\ r.was = g /\ r.link = h
  BY DEF EditShape

LEMMA AskFields ==
    ASSUME NEW r, NEW a, NEW b, NEW c, NEW d, NEW e, NEW f, NEW g, NEW h,
           r = [op |-> a, rev |-> b, new |-> c, known |-> d, changed |-> e,
                answered |-> f, pairs |-> g, seen |-> h]
    PROVE  AskShape(r) /\ r.op = a /\ r.rev = b /\ r.known = d
  BY DEF AskShape

\* What an edit reads at each of its awaits.
LEMMA EditReads ==
    ASSUME Core, NEW s \in Sessions, NEW r, Kept, LogKept,
           \/ \E n \in 1..Len(log) : /\ request[s].undoes = 0 /\ ~log[n].undone
                                     /\ request[s].target = 0
                                     /\ r = [request[s] EXCEPT !.undoes = n, !.undone = log[n].undone]
           \/ \E t \in 1..Len(rows) :
                 /\ request[s].undoes # 0 => t = log[request[s].undoes].target
                 /\ r = [request[s] EXCEPT !.target = t, !.was = rows[t].review, !.seen = Len(theories)]
           \/ \E i, j \in Claims(rows) :
                 r = [request[s] EXCEPT !.link = <<i, j>>, !.seen = Len(theories)],
           request[s].op = "edit"
    PROVE  Holds(r)'
  <1>1. PICK q : q = request[s]
    OBVIOUS
  <1>2. /\ q.rev \in 1..MaxRevision /\ HoldsEdit(q) /\ EditShape(q) /\ q.op = "edit"
    BY <1>1 DEF Core, Requests, Holds, HoldsEdit
  <1>3. Len(log) \in Nat /\ \A n \in 1..Len(log) : log[n] \in Op
    BY LogOps DEF Core
  <1>4. \A t \in 1..Len(rows) : rows[t].review \in Review
    <2>1. \A t \in 1..Len(rows) : rows[t] \in Row
      BY RowTyped DEF Core
    <2>2. QED
      BY <2>1 DEF Row
  <1>5. CASE \E n \in 1..Len(log) : /\ q.undoes = 0 /\ ~log[n].undone /\ q.target = 0
                                    /\ r = [q EXCEPT !.undoes = n, !.undone = log[n].undone]
    <2>1. PICK n \in 1..Len(log) : /\ ~log[n].undone /\ q.target = 0
                                   /\ r = [q EXCEPT !.undoes = n, !.undone = log[n].undone]
      BY <1>5
    <2>2. log[n].undone = FALSE
      BY <1>3, <2>1 DEF Op
    <2>3. PICK b : b = log[n].undone
      OBVIOUS
    <2>4. r = [op |-> q.op, rev |-> q.rev, seen |-> q.seen, undoes |-> n, undone |-> b,
               target |-> q.target, was |-> q.was, link |-> q.link]
      BY <1>2, <2>1, <2>3 DEF EditShape
    <2>5. /\ r.op = "edit" /\ r.rev = q.rev /\ r.undoes = n /\ r.undone = b
          /\ r.target = q.target /\ r.link = q.link /\ EditShape(r)
      BY ONLY <1>2, <2>4, EditFields
    <2>9. q.target = 0
      BY <2>1
    <2>6. n \in 0..Len(log)
      BY ONLY <1>3
    <2>7. Holds(r)
      BY ONLY <1>2, <2>2, <2>3, <2>5, <2>6, <2>9 DEF Holds, HoldsEdit
    <2>8. QED
      BY <2>7, HeldOn DEF Core
  <1>6. CASE \E t \in 1..Len(rows) :
                /\ q.undoes # 0 => t = log[q.undoes].target
                /\ r = [q EXCEPT !.target = t, !.was = rows[t].review, !.seen = Len(theories)]
    <2>0. PICK m : m = Len(theories)
      OBVIOUS
    <2>1. PICK t \in 1..Len(rows), was \in Review :
                /\ q.undoes # 0 => t = log[q.undoes].target
                /\ r = [q EXCEPT !.target = t, !.was = was, !.seen = m]
      BY <1>4, <1>6, <2>0
    <2>4. r = [op |-> q.op, rev |-> q.rev, seen |-> m, undoes |-> q.undoes, undone |-> q.undone,
               target |-> t, was |-> was, link |-> q.link]
      BY <1>2, <2>1 DEF EditShape
    <2>5. /\ r.op = "edit" /\ r.rev = q.rev /\ r.undoes = q.undoes /\ r.undone = q.undone
          /\ r.target = t /\ r.was = was /\ r.link = q.link /\ EditShape(r)
      BY ONLY <1>2, <2>4, EditFields
    <2>7. Holds(r)
      BY ONLY <1>2, <2>1, <2>5 DEF Holds, HoldsEdit
    <2>8. QED
      BY <2>7, HeldOn DEF Core
  <1>7. CASE \E i, j \in Claims(rows) : r = [q EXCEPT !.link = <<i, j>>, !.seen = Len(theories)]
    <2>0. PICK m : m = Len(theories)
      OBVIOUS
    <2>1. PICK i \in Claims(rows), j \in Claims(rows) :
                r = [q EXCEPT !.link = <<i, j>>, !.seen = m]
      BY <1>7, <2>0
    <2>4. r = [op |-> q.op, rev |-> q.rev, seen |-> m, undoes |-> q.undoes, undone |-> q.undone,
               target |-> q.target, was |-> q.was, link |-> <<i, j>>]
      BY <1>2, <2>1 DEF EditShape
    <2>5. /\ r.op = "edit" /\ r.rev = q.rev /\ r.undoes = q.undoes /\ r.undone = q.undone
          /\ r.target = q.target /\ r.was = q.was /\ r.link[1] = i /\ r.link[2] = j
          /\ EditShape(r)
      BY ONLY <1>2, <2>4, EditFields
    <2>7. Holds(r)
      BY ONLY <1>2, <2>1, <2>5 DEF Holds, HoldsEdit
    <2>8. QED
      BY <2>7, HeldOn DEF Core
  <1>8. QED
    BY <1>1, <1>5, <1>6, <1>7

\* What a session that asked for links reads when the model answered.
LEMMA PairsRead ==
    ASSUME Core, NEW s \in Sessions, NEW r, Kept, LogKept, request[s].op \in {"infer", "link"},
           NEW pairs, NEW m,
           r = [request[s] EXCEPT !.answered = TRUE, !.pairs = pairs, !.seen = m]
    PROVE  Holds(r)'
  <1>1. PICK q : q = request[s]
    OBVIOUS
  <1>2. /\ q.rev \in 1..MaxRevision /\ AskShape(q) /\ q.known \subseteq Claims(rows)
        /\ q.op \in {"infer", "link"}
    BY <1>1 DEF Core, Requests, Holds
  <1>3. r = [op |-> q.op, rev |-> q.rev, new |-> q.new, known |-> q.known,
             changed |-> q.changed, answered |-> TRUE, pairs |-> pairs, seen |-> m]
    BY <1>1, <1>2 DEF AskShape
  <1>4. r.op = q.op /\ r.rev = q.rev /\ r.known = q.known /\ AskShape(r)
    BY ONLY <1>3, AskFields
  <1>6. Holds(r)
    BY <1>2, <1>4 DEF Holds
  <1>7. QED
    BY <1>6, HeldOn DEF Core

\* What the graph holds of an element is a number and an override.
LEMMA EffectiveTyped ==
    ASSUME Types
    PROVE  Effective(rows) \in SUBSET (Nat \X (Overrides \cup {None}))
  <1>1. Len(rows) \in Nat /\ \A i \in 1..Len(rows) : rows[i] \in Row
    BY ElementOfSeq DEF Types
  <1>2. \A i \in EffectiveClaims(rows) \cup EffectiveEdges(rows) : i \in 1..Len(rows)
    BY DEF EffectiveClaims, EffectiveEdges, Claims, Edges
  <1>3. \A i \in 1..Len(rows) : rows[i].review.override \in Overrides \cup {None}
    BY <1>1 DEF Row, Review
  <1>4. QED
    BY <1>1, <1>2, <1>3 DEF Effective

\* Opening a request, its reads, giving it up, and what it does to theories only.
LEMMA QuietStep ==
    ASSUME Core, NEW s \in Sessions, Quiet(s)
    PROVE  Core' /\ Kept
  <1>0. revision \in 1..MaxRevision
    BY DEF Core, Types
  <1>1. /\ rows' = rows /\ log' = log /\ revision' = revision /\ crossed' = crossed
        /\ theories' = theories \/ Rescore(s) \/ CommitTheories(s)
    BY QuietFacts
  <1>2. /\ Kept /\ LogKept /\ References' /\ LogExcludes' /\ ExcludedIsInactive'
        /\ InferenceRepeatsNothing' /\ Accounted' /\ UndoIsExact'
    BY <1>1, SameGraph
  <1>3. anchor' \subseteq Outcomes
    BY DEF Core, Types, Quiet, Open, CheckUndone, ReadTarget, CheckLink, ReadPairs, OpenInfer,
           OpenGrow, OpenAnchor, Rescore, OpenGenerate, CommitTheories, Abandon, Start, Read
  <1>4. theories' \in Seq(TheorySet) /\ Len(theories') <= MaxTheories
    <2>1. CASE theories' = theories
      BY <2>1 DEF Core, Types
    <2>2. CASE Rescore(s)
      <3>1. theories' = theories \/ theories' = Staled(theories, Len(theories))
        BY <2>2 DEF Rescore
      <3>2. QED
        BY <2>1, <3>1, MarkFacts DEF Core, Marked
    <2>3. CASE CommitTheories(s)
      <3>1. Generated(request[s]) \in TheorySet
        BY <2>3 DEF Core, Requests, Holds, Generated, CommitTheories, TheorySet, Outrun, Forgotten
      <3>2. /\ Retired(theories, request[s].previous) \in Seq(TheorySet)
            /\ Len(Retired(theories, request[s].previous)) = Len(theories)
        BY RetiredFacts DEF Core
      <3>3. QED
        BY <2>3, <3>1, <3>2, AppendProperties, BoundsAreNumbers DEF CommitTheories, Core, Types
    <2>4. QED
      BY <1>1, <2>1, <2>2, <2>3
  <1>5. Types'
    BY <1>1, <1>3, <1>4 DEF Core, Types
  <1>6. Requests'
    <2> SUFFICES \E r : request' = [request EXCEPT ![s] = r] /\ Holds(r)'
      BY <1>2, RequestMoves DEF Core
    <2>1. CASE Open(s)
      <3>1. PICK m : m = Len(theories)
        OBVIOUS
      <3>2. PICK r : r = [op |-> "edit", rev |-> revision, seen |-> m, undoes |-> 0,
                          undone |-> FALSE, target |-> 0, was |-> None, link |-> <<0, 0>>]
        OBVIOUS
      <3>3. /\ r.op = "edit" /\ r.rev = revision /\ r.undoes = 0 /\ r.undone = FALSE
            /\ r.target = 0 /\ r.link = <<0, 0>>
        BY <3>2
      <3>4. EditShape(r)'
        BY <3>2 DEF EditShape
      <3>5. Len(log') \in Nat
        BY <1>2 DEF LogKept
      <3>6. Holds(r)'
        BY <1>0, <3>3, <3>4, <3>5 DEF Holds, HoldsEdit
      <3>7. QED
        BY <3>1, <3>2, <3>6, <2>1 DEF Open, Start
    <2>2. CASE \E i \in Claims(rows) : OpenInfer(s, i)
      <3>1. PICK i \in Claims(rows) : OpenInfer(s, i)
        BY <2>2
      <3>2. ActiveClaims \subseteq Claims(rows)'
        BY <1>2, KeptFacts DEF ActiveClaims, Core
      <3>3. PICK r : r = Asking("infer", revision, {i}, ActiveClaims, FALSE)
        OBVIOUS
      <3>4. r.op = "infer" /\ r.rev = revision /\ r.known = ActiveClaims /\ AskShape(r)'
        BY <3>3 DEF AskShape, Asking
      <3>5. Holds(r)'
        BY <1>0, <3>2, <3>4 DEF Holds
      <3>6. QED
        BY <3>3, <3>5, <3>1 DEF OpenInfer, Start
    <2>3. CASE OpenGrow(s)
      <3>1. PICK r : r = [op |-> "grow"]
        OBVIOUS
      <3>2. Holds(r)'
        BY <3>1 DEF Holds
      <3>3. QED
        BY <3>1, <3>2, <2>3 DEF OpenGrow, Start
    <2>4. CASE \E wanted \in SUBSET Outcomes : OpenAnchor(s, wanted)
      <3>0. PICK wanted \in SUBSET Outcomes : OpenAnchor(s, wanted)
        BY <2>4
      <3>1. PICK r : r = [op |-> "sync", rev |-> revision, wanted |-> wanted, changed |-> wanted # anchor]
        OBVIOUS
      <3>2. Holds(r)'
        BY <1>0, <3>1 DEF Holds
      <3>3. QED
        BY <3>1, <3>2, <3>0 DEF OpenAnchor
    <2>5. CASE OpenGenerate(s)
      <3>1. PICK size \in Nat, basis \in SUBSET (Nat \X (Overrides \cup {None})) :
              size = Len(rows) /\ basis = Effective(rows)
        BY EffectiveTyped DEF Core, Types
      <3>2. PICK r : r = [op |-> "generate", basis |-> basis, size |-> size, previous |-> Current]
        OBVIOUS
      <3>3. Within(rows', basis, size)
        <4>1. \A i \in EffectiveClaims(rows) \cup EffectiveEdges(rows) : i \in 1..Len(rows)
          BY DEF EffectiveClaims, EffectiveEdges, Claims, Edges
        <4>2. \A e \in Effective(rows) : e[1] \in 1..Len(rows)
          BY <4>1 DEF Effective
        <4>3. QED
          BY <1>1, <3>1, <4>2 DEF Within
      <3>4. Holds(r)'
        BY <3>1, <3>2, <3>3 DEF Holds
      <3>5. QED
        BY <3>1, <3>2, <3>4, <2>5 DEF OpenGenerate, Start
    <2>6. CASE Rescore(s) \/ CommitTheories(s) \/ Abandon(s)
      BY <2>6 DEF Rescore, CommitTheories, Abandon, Finish, Idle, Holds
    <2>7. CASE \/ \E n \in 1..Len(log) : CheckUndone(s, n)
               \/ \E t \in 1..Len(rows) : ReadTarget(s, t)
               \/ \E i, j \in Claims(rows) : CheckLink(s, i, j)
      <3>1. request[s].op = "edit"
        BY <2>7 DEF CheckUndone, ReadTarget, CheckLink, Asked
      <3>2. CASE \E n \in 1..Len(log) : CheckUndone(s, n)
        <4>1. PICK n \in 1..Len(log) : CheckUndone(s, n)
          BY <3>2
        <4>2. PICK r : r = [request[s] EXCEPT !.undoes = n, !.undone = log[n].undone]
          OBVIOUS
        <4>3. /\ request[s].undoes = 0 /\ ~log[n].undone /\ request[s].target = 0
              /\ request' = [request EXCEPT ![s] = r]
          BY <4>1, <4>2 DEF CheckUndone, Asked, Read
        <4>4. Holds(r)'
          BY <1>2, <3>1, <4>2, <4>3, EditReads
        <4>5. QED
          BY <4>3, <4>4
      <3>3. CASE \E t \in 1..Len(rows) : ReadTarget(s, t)
        <4>1. PICK t \in 1..Len(rows) : ReadTarget(s, t)
          BY <3>3
        <4>2. PICK r : r = [request[s] EXCEPT !.target = t, !.was = rows[t].review,
                                              !.seen = Len(theories)]
          OBVIOUS
        <4>3. /\ request[s].undoes # 0 => t = log[request[s].undoes].target
              /\ request' = [request EXCEPT ![s] = r]
          BY <4>1, <4>2 DEF ReadTarget, Asked, Read
        <4>4. Holds(r)'
          BY <1>2, <3>1, <4>2, <4>3, EditReads
        <4>5. QED
          BY <4>3, <4>4
      <3>4. CASE \E i, j \in Claims(rows) : CheckLink(s, i, j)
        <4>1. PICK i \in Claims(rows), j \in Claims(rows) : CheckLink(s, i, j)
          BY <3>4
        <4>2. PICK r : r = [request[s] EXCEPT !.link = <<i, j>>, !.seen = Len(theories)]
          OBVIOUS
        <4>3. request' = [request EXCEPT ![s] = r]
          BY <4>1, <4>2 DEF CheckLink, Asked, Read
        <4>4. Holds(r)'
          BY <1>2, <3>1, <4>2, EditReads
        <4>5. QED
          BY <4>3, <4>4
      <3>5. QED
        BY <2>7, <3>2, <3>3, <3>4
    <2>8. CASE ReadPairs(s)
      <3>1. PICK pairs, m : pairs = Present /\ m = Len(theories)
        OBVIOUS
      <3>2. PICK r : r = [request[s] EXCEPT !.answered = TRUE, !.pairs = pairs, !.seen = m]
        OBVIOUS
      <3>3. request[s].op \in {"infer", "link"} /\ request' = [request EXCEPT ![s] = r]
        BY <2>8, <3>1, <3>2 DEF ReadPairs, Read
      <3>4. Holds(r)'
        BY <1>2, <3>2, <3>3, PairsRead
      <3>5. QED
        BY <3>3, <3>4
    <2>9. QED
      BY <2>1, <2>2, <2>3, <2>4, <2>5, <2>6, <2>7, <2>8 DEF Quiet
  <1>7. QED
    BY <1>2, <1>5, <1>6 DEF Core

\* A session that is done holds nothing.
LEMMA FinishStep ==
    ASSUME Types, Requests, Kept, LogKept, NEW s \in Sessions, Finish(s)
    PROVE  Requests' /\ request'[s] = Idle
  <1>1. PICK r : r = Idle
    OBVIOUS
  <1>2. Holds(r)'
    BY <1>1 DEF Holds, Idle
  <1>3. request' = [request EXCEPT ![s] = r]
    BY <1>1 DEF Finish
  <1>4. QED
    BY <1>1, <1>2, <1>3, RequestMoves

\* A session that may write the revision it read, plus one.
LEMMA BumpStep ==
    ASSUME Types, Requests, NEW s \in Sessions, request[s].op \in {"edit", "infer", "sync", "link"},
           Bump(s)
    PROVE  request[s].rev \in Nat /\ revision' = request[s].rev + 1 /\ revision' \in 1..MaxRevision
  <1>1. request[s].rev \in 1..MaxRevision
    BY DEF Requests, Holds
  <1>2. QED
    BY <1>1, BoundsAreNumbers DEF Bump

\* What is written is the state that was meant, if the element is as it was read.
LEMMA WrittenFacts ==
    ASSUME NEW review \in Review, NEW was \in Review, NEW now \in Review
    PROVE  Written(review, was, now) \in Review /\ (review = was => Written(review, was, now) = now)
  <1>1. Written(review, was, now) \in Review
    BY DEF Written, Review
  <1>2. ASSUME review = was PROVE Written(review, was, now) = now
    <2>1. Written(review, was, now) =
            [status |-> now.status, active |-> now.active, override |-> now.override]
      BY <1>2 DEF Written
    <2>2. QED
      BY <2>1 DEF Review
  <1>3. QED
    BY <1>1, <1>2

\* One element is given another state, by a review or by an undo.
LEMMA RewriteStep ==
    ASSUME Core, NEW s \in Sessions, request[s].op = "edit", request[s].target # 0,
           NEW now \in Review, Rewrite(s, now, request[s].was),
           rows[request[s].target].review = request[s].was =>
              (request[s].target \notin crossed /\ rows[request[s].target].kind # "outcome"
               /\ now.status = "rejected" => ~now.active),
           request[s].undoes # 0 /\ log[request[s].undoes].before # None =>
              now = log[request[s].undoes].before
    PROVE  Core' /\ Kept
  <1>0. PICK t, was, undoes :
          t = request[s].target /\ was = request[s].was /\ undoes = request[s].undoes
    OBVIOUS
  <1>1. /\ t \in 1..Len(rows) /\ was \in Review /\ undoes \in 0..Len(log)
        /\ request[s].undone = FALSE
        /\ undoes # 0 => t = log[undoes].target
    BY <1>0 DEF Core, Requests, Holds, HoldsEdit
  <1>2. PICK new : new = Written(rows[t].review, was, now)
    OBVIOUS
  <1>3. rows[t].review \in Review /\ Len(rows) \in Nat /\ Len(log) \in Nat
    BY <1>1, RowTyped DEF Core, Types, Row
  <1>4. new \in Review /\ (rows[t].review = was => new = now)
    BY <1>1, <1>2, <1>3, WrittenFacts
  <1>5. /\ rows' = [rows EXCEPT ![t].review = new]
        /\ Record(s, t, was, now, undoes) /\ Bump(s) /\ Mark(s) /\ Finish(s) /\ anchor' = anchor
        /\ crossed' = IF Outdated(s) THEN crossed \cup {t} ELSE crossed
    BY <1>0, <1>2 DEF Rewrite
  <1>6. crossed \subseteq crossed' /\ crossed' \subseteq 1..Len(rows)
    BY <1>1, <1>5 DEF Core, Types
  <1>7. t \notin crossed' =>
          /\ t \notin crossed /\ rows[t].review = was /\ new = now
          /\ undoes # 0 => ~log[undoes].undone
    BY <1>0, <1>1, <1>4, <1>5 DEF Outdated
  <1>8. t \notin crossed' /\ rows[t].kind # "outcome" /\ new.status = "rejected" => ~new.active
    BY <1>0, <1>7
  <1>9. /\ Kept /\ RejectedStaysOut'
        /\ \A e \in Edges(rows)' : {rows'[e].from, rows'[e].to} \subseteq Claims(rows)'
        /\ Len(rows') = Len(rows)
        /\ rows'[t].review = new
        /\ \A i \in 1..Len(rows) : i # t => rows'[i] = rows[i]
    BY <1>1, <1>4, <1>5, <1>6, <1>8, ReviewRow DEF Core, RejectedStaysOut
  <1>10. request[s].rev \in Nat /\ revision' \in 1..MaxRevision
    BY <1>5, BumpStep DEF Core
  <1>11. Apt(t, was, now, undoes)
    <2>1. undoes # 0 => log[undoes].target = t /\ (log[undoes].before # None => now = log[undoes].before)
      BY <1>0, <1>1
    <2>2. t \in 1..Len(rows') /\ t <= Len(rows) /\ now # None
      BY <1>1, <1>3, <1>9, NoneIsApart
    <2>3. QED
      BY <1>1, <1>7, <1>9, <2>1, <2>2 DEF Apt
  <1>12. /\ LogExcludes' /\ Accounted' /\ UndoIsExact'
         /\ \A n \in 1..Len(log') : log'[n].target \in 1..Len(rows') /\ log'[n].undoes < n
         /\ log' \in Seq(Op) /\ Len(log') <= MaxRevision /\ LogKept
    <2>1. \A i \in 1..Len(rows) : i # t => rows'[i].review = rows[i].review
      BY <1>9
    <2>2. \A i \in 1..Len(rows') :
            i > Len(rows) /\ i # t /\ rows'[i].kind # "outcome" => rows'[i].review = Accepted
      BY <1>3, <1>9
    <2>3. QED
      BY <1>5, <1>9, <1>10, <1>11, <2>1, <2>2, LogAppended DEF Core
  <1>13. theories' \in Seq(TheorySet) /\ Len(theories') <= MaxTheories
    BY <1>5, MarkFacts DEF Core, Mark, Marked
  <1>14. Types'
    BY <1>5, <1>6, <1>9, <1>10, <1>12, <1>13 DEF Core, Types, Kept
  <1>15. Requests'
    BY <1>5, <1>9, <1>12, FinishStep DEF Core
  <1>16. QED
    BY <1>9, <1>12, <1>14, <1>15 DEF Core, References, RejectedStaysOut

\* An edit that holds its element.
LEMMA EditHolds ==
    ASSUME Core, NEW s \in Sessions, request[s].op = "edit", request[s].target # 0
    PROVE  /\ request[s].target \in 1..Len(rows) /\ request[s].was \in Review
           /\ request[s].undoes \in 0..Len(log)
           /\ request[s].undoes # 0 => request[s].target = log[request[s].undoes].target
  BY DEF Core, Requests, Holds, HoldsEdit

LEMMA ApplyReviewStep ==
    ASSUME Core, NEW s \in Sessions, NEW c \in Changes, ApplyReview(s, c)
    PROVE  Core' /\ Kept
  <1>1. request[s].op = "edit" /\ request[s].target # 0 /\ request[s].undoes = 0
    BY DEF ApplyReview, ReadTo
  <1>2. PICK was \in Review, t \in 1..Len(rows) : was = request[s].was /\ t = request[s].target
    BY <1>1, EditHolds
  <1>3. PICK now : now = Reviewed(was, c)
    OBVIOUS
  <1>4. /\ now \in Review
        /\ (was.status = "rejected" => ~was.active) => (now.status = "rejected" => ~now.active)
    BY <1>3, ReviewedFacts
  <1>5. rows[t].review = was =>
           (t \notin crossed /\ rows[t].kind # "outcome" /\ now.status = "rejected" => ~now.active)
    BY <1>4 DEF Core, ExcludedIsInactive
  <1>6. Rewrite(s, now, request[s].was)
    BY <1>2, <1>3 DEF ApplyReview
  <1>7. QED
    BY <1>1, <1>2, <1>4, <1>5, <1>6, RewriteStep

LEMMA UndoStep ==
    ASSUME Core, NEW s \in Sessions, UndoOperation(s)
    PROVE  Core' /\ Kept
  <1>1. request[s].op = "edit" /\ request[s].target # 0 /\ request[s].undoes # 0
    BY DEF UndoOperation, ReadTo
  <1>2. PICK was \in Review, t \in 1..Len(rows), n \in 1..Len(log) :
          was = request[s].was /\ t = request[s].target /\ n = request[s].undoes /\ t = log[n].target
    <2>1. Len(log) \in Nat
      BY DEF Core, Types
    <2>2. QED
      BY <1>1, <2>1, EditHolds
  <1>3. PICK now : now = Replayed(log[n], was)
    OBVIOUS
  <1>4. log[n] \in Op
    BY ElementOfSeq DEF Core, Types
  <1>5. /\ now \in Review
        /\ rows[t].review = was =>
             (t \notin crossed /\ rows[t].kind # "outcome" /\ now.status = "rejected" => ~now.active)
        /\ log[n].before # None => now = log[n].before
    <2>1. CASE log[n].before = None
      BY <1>3, <2>1 DEF Replayed, Core, ExcludedIsInactive
    <2>2. CASE log[n].before # None
      BY <1>2, <1>3, <1>4, <2>2 DEF Replayed, Op, Core, LogExcludes
    <2>3. QED
      BY <2>1, <2>2
  <1>6. Rewrite(s, now, request[s].was)
    BY <1>2, <1>3 DEF UndoOperation
  <1>7. QED
    BY <1>1, <1>2, <1>5, <1>6, RewriteStep

\* Appended rows that are accepted and tell no operation of their own.
LEMMA AppendStep ==
    ASSUME Core, NEW new \in Seq(Row),
           rows' = rows \o new, Len(rows) + Len(new) <= MaxRows, crossed \subseteq crossed',
           \A k \in 1..Len(new) : new[k].review = Accepted,
           \A k \in 1..Len(new) : new[k].kind = "edge" =>
              {new[k].from, new[k].to} \subseteq Claims(rows)',
           \A k \in 1..Len(new) :
              new[k].kind = "edge" /\ new[k].via = "inferred" /\ Len(rows) + k \notin crossed' =>
              /\ Pair(new[k]) \notin Present
              /\ \A l \in 1..Len(new) : l < k => Pair(new[l]) # Pair(new[k]),
           log' = log
    PROVE  /\ Kept /\ LogKept /\ References' /\ LogExcludes' /\ ExcludedIsInactive'
           /\ InferenceRepeatsNothing' /\ Accounted' /\ UndoIsExact'
           /\ Len(rows') = Len(rows) + Len(new)
           /\ \A i \in 1..Len(rows) : rows'[i] = rows[i]
           /\ \A k \in 1..Len(new) : rows'[Len(rows) + k] = new[k]
  <1>1. /\ Kept /\ RejectedStaysOut'
        /\ \A e \in Edges(rows)' : {rows'[e].from, rows'[e].to} \subseteq Claims(rows)'
        /\ Len(rows') = Len(rows) + Len(new)
        /\ \A i \in 1..Len(rows) : rows'[i] = rows[i]
        /\ \A k \in 1..Len(new) : rows'[Len(rows) + k] = new[k]
        /\ \A i \in 1..Len(rows') : i > Len(rows) => rows'[i].review = Accepted
    BY AppendRows DEF Core, RejectedStaysOut
  <1>2. /\ LogExcludes' /\ Accounted' /\ UndoIsExact'
        /\ \A n \in 1..Len(log') : log'[n].target \in 1..Len(rows') /\ log'[n].undoes < n
    BY <1>1, LogSame DEF Core
  <1>3. QED
    BY <1>1, <1>2, LogStays DEF Core, References, RejectedStaysOut

\* A row added by hand, with the operation that tells of it.
LEMMA AddRowStep ==
    ASSUME Core, NEW s \in Sessions, request[s].op = "edit", NEW row \in Row, AddRow(s, row),
           row.review = Accepted, row.kind # "outcome", row.via # "inferred",
           row.kind = "edge" => {row.from, row.to} \subseteq Claims(rows)
    PROVE  Core' /\ Kept
  <1>1. /\ rows' = Append(rows, row) /\ Len(rows) < MaxRows
        /\ Record(s, Len(rows) + 1, None, None, 0) /\ Bump(s) /\ Mark(s) /\ Finish(s)
        /\ anchor' = anchor /\ crossed' = crossed
    BY DEF AddRow
  <1>2. PICK new \in Seq(Row) : new = <<row>>
    <2>1. <<row>> \in Seq(Row)
      OBVIOUS
    <2>2. QED
      BY <2>1
  <1>3. Len(new) = 1 /\ new[1] = row /\ \A k \in 1..Len(new) : k = 1
    BY <1>2
  <1>4. rows' = rows \o new /\ Len(rows) + Len(new) <= MaxRows
    <2>1. rows \in Seq(Row) /\ Len(rows) \in Nat
      BY DEF Core, Types
    <2>2. QED
      BY <1>1, <1>2, <1>3, <2>1, BoundsAreNumbers
  <1>5. Claims(rows) \subseteq Claims(rows)'
    <2>1. /\ Len(rows) \in Nat /\ Len(rows') = Len(rows) + 1
          /\ \A i \in 1..Len(rows) : rows'[i] = rows[i]
      BY <1>1, AppendProperties DEF Core, Types
    <2>2. QED
      BY <2>1 DEF Claims
  <1>6. /\ Kept /\ RejectedStaysOut'
        /\ \A e \in Edges(rows)' : {rows'[e].from, rows'[e].to} \subseteq Claims(rows)'
        /\ Len(rows') = Len(rows) + 1
        /\ \A i \in 1..Len(rows) : rows'[i] = rows[i]
        /\ rows'[Len(rows) + 1] = row
        /\ \A i \in 1..Len(rows') : i > Len(rows) => rows'[i].review = Accepted
    <2>1. /\ \A k \in 1..Len(new) : new[k].review = Accepted
          /\ \A k \in 1..Len(new) : new[k].kind = "edge" =>
               {new[k].from, new[k].to} \subseteq Claims(rows)'
          /\ \A k \in 1..Len(new) : new[k].via # "inferred"
      BY <1>3, <1>5
    <2>2. /\ Kept /\ RejectedStaysOut'
          /\ \A e \in Edges(rows)' : {rows'[e].from, rows'[e].to} \subseteq Claims(rows)'
          /\ Len(rows') = Len(rows) + Len(new)
          /\ \A i \in 1..Len(rows) : rows'[i] = rows[i]
          /\ \A k \in 1..Len(new) : rows'[Len(rows) + k] = new[k]
          /\ \A i \in 1..Len(rows') : i > Len(rows) => rows'[i].review = Accepted
      BY <1>1, <1>4, <2>1, AppendRows DEF Core, RejectedStaysOut
    <2>3. rows'[Len(rows) + 1] = row
      BY <1>3, <2>2
    <2>4. QED
      BY <1>3, <2>2, <2>3
  <1>7. request[s].rev \in Nat /\ revision' \in 1..MaxRevision
    BY <1>1, BumpStep DEF Core
  <1>8. Apt(Len(rows) + 1, None, None, 0)
    <2>1. Len(rows) + 1 \in 1..Len(rows') /\ 0 \in 0..Len(log)
      BY <1>6 DEF Core, Types
    <2>2. QED
      BY <1>3, <1>6, <2>1 DEF Apt
  <1>9. /\ LogExcludes' /\ Accounted' /\ UndoIsExact'
        /\ \A n \in 1..Len(log') : log'[n].target \in 1..Len(rows') /\ log'[n].undoes < n
        /\ log' \in Seq(Op) /\ Len(log') <= MaxRevision /\ LogKept
    <2>1. PICK t : t = Len(rows) + 1
      OBVIOUS
    <2>2. Record(s, t, None, None, 0) /\ Apt(t, None, None, 0)
      BY <1>1, <1>8, <2>1
    <2>3. \A i \in 1..Len(rows) : i # t => rows'[i].review = rows[i].review
      BY <1>6
    <2>4. \A i \in 1..Len(rows') :
            i > Len(rows) /\ i # t /\ rows'[i].kind # "outcome" => rows'[i].review = Accepted
      BY <1>6
    <2>5. QED
      BY <1>6, <1>7, <2>2, <2>3, <2>4, LogAppended DEF Core
  <1>10. theories' \in Seq(TheorySet) /\ Len(theories') <= MaxTheories
    BY <1>1, MarkFacts DEF Core, Mark, Marked
  <1>11. Types'
    <2>1. crossed' \subseteq 1..Len(rows')
      BY <1>1, <1>6 DEF Core, Types
    <2>2. QED
      BY <1>1, <1>6, <1>7, <1>9, <1>10, <2>1 DEF Core, Types, Kept
  <1>12. Requests'
    BY <1>1, <1>6, <1>9, FinishStep DEF Core
  <1>13. QED
    BY <1>6, <1>9, <1>11, <1>12 DEF Core, References, RejectedStaysOut

LEMMA NewRowsTyped ==
    ASSUME NEW via \in {"pipeline", "user", "inferred", "grown", "frame"}
    PROVE  /\ NewClaim(via) \in Row
           /\ \A i, j \in Nat : NewEdge(i, j, via) \in Row
           /\ \A key \in Outcomes : NewNode(key) \in Row
  <1>1. Accepted \in Review
    BY DEF Accepted, Review, Statuses
  <1>2. QED
    BY <1>1 DEF NewClaim, NewEdge, NewNode, Row

LEMMA AddStep ==
    ASSUME Core, NEW s \in Sessions, AddClaim(s) \/ AddEdge(s)
    PROVE  Core' /\ Kept
  <1>1. CASE AddClaim(s)
    <2>1. PICK row \in Row : row = NewClaim("user")
      BY NewRowsTyped
    <2>2. /\ AddRow(s, row) /\ row.review = Accepted /\ row.kind = "claim"
          /\ row.via # "inferred" /\ request[s].op = "edit"
      BY <1>1, <2>1 DEF AddClaim, NewClaim, Asked
    <2>3. QED
      BY <2>2, AddRowStep
  <1>2. CASE AddEdge(s)
    <2>1. PICK i \in Claims(rows), j \in Claims(rows) :
            i = request[s].link[1] /\ j = request[s].link[2]
      BY <1>2 DEF AddEdge, Core, Requests, Holds, HoldsEdit
    <2>2. i \in Nat /\ j \in Nat
      BY DEF Claims
    <2>3. PICK row \in Row : row = NewEdge(i, j, "user")
      BY <2>2, NewRowsTyped
    <2>4. /\ AddRow(s, row) /\ row.review = Accepted /\ row.kind = "edge"
          /\ row.via # "inferred" /\ {row.from, row.to} \subseteq Claims(rows)
          /\ request[s].op = "edit"
      BY <1>2, <2>1, <2>3 DEF AddEdge, NewEdge
    <2>5. QED
      BY <2>4, AddRowStep
  <1>3. QED
    BY <1>1, <1>2

\* The links a judgement confirms join claims it was shown, none of them twice
\* and none that was there.
LEMMA CreatedFacts ==
    ASSUME NEW r, NEW created \in Creatable(r)
    PROVE  /\ created \in Seq(r.known \X r.known)
           /\ \A k \in 1..Len(created) : created[k] \notin r.pairs
           /\ \A k, l \in 1..Len(created) : k # l => created[k] # created[l]
  <1>0. PICK known, fresh : known = r.known /\ fresh = r.new
    OBVIOUS
  <1>1. /\ created \in Judgements(known, fresh)
        /\ \A k \in DOMAIN created : created[k] \notin r.pairs
    BY <1>0 DEF Creatable
  <1>2. PICK n \in 0..MaxLinks : created \in [1..n -> Candidates(known, fresh)]
    BY <1>1 DEF Judgements
  <1>3. n \in Nat
    BY <1>2, BoundsAreNumbers
  <1>4. \A k \in 1..n : created[k] \in known \X known
    BY <1>2 DEF Candidates
  <1>5. created \in [1..n -> known \X known]
    BY <1>2, <1>4
  <1>6. created \in Seq(known \X known) /\ Len(created) = n /\ DOMAIN created = 1..n
    BY <1>3, <1>5
  <1>7. \A k, l \in DOMAIN created : k # l =>
          {created[k][1], created[k][2]} # {created[l][1], created[l][2]}
    BY <1>1 DEF Judgements
  <1>8. QED
    BY <1>0, <1>1, <1>6, <1>7

\* Confirmed links are saved, with the revision and the stale marks that go with
\* them, or there are none.
LEMMA SaveLinksStep ==
    ASSUME Core, NEW s \in Sessions, request[s].op \in {"infer", "link"},
           NEW created \in Creatable(request[s]),
           SaveLinks(s, created), log' = log, anchor' = anchor
    PROVE  /\ Kept /\ LogKept /\ Types' /\ References' /\ LogExcludes' /\ ExcludedIsInactive'
           /\ InferenceRepeatsNothing' /\ Accounted' /\ UndoIsExact'
           /\ \/ rows' = rows /\ revision' = revision /\ theories' = theories
                 /\ overtaken' = overtaken
              \/ Bump(s) /\ Marked
  <1>1. /\ Len(rows) + Len(created) <= MaxRows
        /\ rows' = rows \o [k \in 1..Len(created) |->
                              NewEdge(created[k][1], created[k][2], "inferred")]
        /\ crossed' = IF Present # request[s].pairs
                      THEN crossed \cup (Len(rows) + 1..Len(rows) + Len(created)) ELSE crossed
        /\ \/ created = <<>> /\ revision' = revision /\ theories' = theories
              /\ overtaken' = overtaken
           \/ Bump(s) /\ Mark(s)
    BY DEF SaveLinks
  <1>2. request[s].known \subseteq Claims(rows)
    BY DEF Core, Requests, Holds
  <1>3. /\ created \in Seq(request[s].known \X request[s].known) /\ Len(created) \in Nat
        /\ \A k \in 1..Len(created) : created[k] \notin request[s].pairs
        /\ \A k, l \in 1..Len(created) : k # l => created[k] # created[l]
    <2>1. PICK r : r = request[s]
      OBVIOUS
    <2>2. created \in Creatable(r)
      BY <2>1
    <2>3. /\ created \in Seq(r.known \X r.known)
          /\ \A k \in 1..Len(created) : created[k] \notin r.pairs
          /\ \A k, l \in 1..Len(created) : k # l => created[k] # created[l]
      BY <2>2, CreatedFacts
    <2>4. QED
      BY <2>1, <2>3
  <1>20. \A k \in 1..Len(created) : Len(rows) + k \notin crossed' => created[k] \notin Present
    <2>1. Len(rows) \in Nat
      BY DEF Core, Types
    <2>2. \A k \in 1..Len(created) : Len(rows) + k \in Len(rows) + 1..Len(rows) + Len(created)
      BY <1>3, <2>1
    <2>3. QED
      BY <1>1, <1>3, <2>2
  <1>4. ASSUME NEW k \in 1..Len(created)
        PROVE  /\ created[k][1] \in Claims(rows) /\ created[k][2] \in Claims(rows)
               /\ created[k][1] \in Nat /\ created[k][2] \in Nat
               /\ created[k] = <<created[k][1], created[k][2]>>
    <2>1. created[k] \in request[s].known \X request[s].known
      BY <1>3, ElementOfSeq
    <2>2. QED
      BY <1>2, <2>1 DEF Claims
  <1>5. PICK new : new = [k \in 1..Len(created) |->
                            NewEdge(created[k][1], created[k][2], "inferred")]
    OBVIOUS
  <1>6. \A k \in 1..Len(created) :
          /\ new[k] = NewEdge(created[k][1], created[k][2], "inferred") /\ new[k] \in Row
          /\ new[k].review = Accepted /\ new[k].kind = "edge"
          /\ new[k].from = created[k][1] /\ new[k].to = created[k][2]
    <2>1. \A i, j \in Nat : NewEdge(i, j, "inferred") \in Row
      BY NewRowsTyped
    <2>2. QED
      BY <1>4, <1>5, <2>1 DEF NewEdge
  <1>7. new \in Seq(Row) /\ Len(new) = Len(created)
    <2>1. new \in [1..Len(created) -> Row]
      BY <1>5, <1>6
    <2>2. \A n \in Nat : \A f \in [1..n -> Row] : f \in Seq(Row) /\ Len(f) = n
      OBVIOUS
    <2>3. QED
      BY <1>3, <2>1, <2>2
  <1>8. \A k \in 1..Len(created) : Pair(new[k]) = created[k]
    BY <1>4, <1>6 DEF Pair
  <1>9. rows' = rows \o new /\ Len(rows) + Len(new) <= MaxRows
    BY <1>1, <1>5, <1>7
  <1>10. Claims(rows) \subseteq Claims(rows)'
    <2>1. /\ Len(rows) \in Nat /\ Len(rows') = Len(rows) + Len(new)
          /\ \A i \in 1..Len(rows) : rows'[i] = rows[i]
      <3>1. rows \in Seq(Row) /\ Len(rows) \in Nat /\ Len(new) \in Nat
        BY <1>7 DEF Core, Types
      <3>2. /\ Len(rows') = Len(rows) + Len(new)
            /\ \A i \in 1..Len(rows) + Len(new) :
                 rows'[i] = IF i <= Len(rows) THEN rows[i] ELSE new[i - Len(rows)]
        <4>1. new \in Seq(Row)
          BY <1>7
        <4>2. rows' = rows \o new
          BY <1>9
        <4>3. QED
          BY <3>1, <4>1, <4>2, ConcatProperties, Zenon
      <3>3. QED
        BY <3>1, <3>2
    <2>2. QED
      BY <1>7, <1>3, <2>1 DEF Claims
  <1>11. /\ Kept /\ LogKept /\ References' /\ LogExcludes' /\ ExcludedIsInactive'
         /\ InferenceRepeatsNothing' /\ Accounted' /\ UndoIsExact'
         /\ Len(rows') = Len(rows) + Len(new)
    <2>1. \A k \in 1..Len(new) : new[k].review = Accepted
      BY <1>6, <1>7
    <2>2. \A k \in 1..Len(new) : new[k].kind = "edge" =>
             {new[k].from, new[k].to} \subseteq Claims(rows)'
      BY <1>4, <1>6, <1>7, <1>10
    <2>3. \A k \in 1..Len(new) :
             new[k].kind = "edge" /\ new[k].via = "inferred" /\ Len(rows) + k \notin crossed' =>
             /\ Pair(new[k]) \notin Present
             /\ \A l \in 1..Len(new) : l < k => Pair(new[l]) # Pair(new[k])
      BY <1>3, <1>7, <1>8, <1>20
    <2>4. crossed \subseteq crossed'
      BY <1>1
    <2>5. QED
      BY <1>7, <1>9, <2>1, <2>2, <2>3, <2>4, AppendStep
  <1>12. \/ rows' = rows /\ revision' = revision /\ theories' = theories /\ overtaken' = overtaken
         \/ Bump(s) /\ Marked
    <2>1. created = <<>> => rows' = rows
      <3>1. created = <<>> => new = <<>>
        BY <1>7
      <3>2. rows \in Seq(Row)
        BY DEF Core, Types
      <3>3. QED
        BY <1>9, <3>1, <3>2
    <2>2. QED
      BY <1>1, <2>1, MarkFacts DEF Core, Mark
  <1>13. Types'
    <2>1. revision' \in 1..MaxRevision
      BY <1>1, BumpStep DEF Core, Types
    <2>2. theories' \in Seq(TheorySet) /\ Len(theories') <= MaxTheories
      BY <1>12 DEF Core, Types, Marked
    <2>3. crossed' \subseteq 1..Len(rows')
      <3>1. Len(rows) \in Nat /\ crossed \subseteq 1..Len(rows) /\ Len(rows') = Len(rows) + Len(created)
        BY <1>7, <1>11 DEF Core, Types
      <3>2. Len(rows) + 1..Len(rows) + Len(created) \subseteq 1..Len(rows')
        BY <1>3, <3>1
      <3>3. 1..Len(rows) \subseteq 1..Len(rows')
        BY <1>3, <3>1
      <3>4. QED
        BY <1>1, <3>1, <3>2, <3>3
    <2>4. QED
      BY <1>11, <2>1, <2>2, <2>3 DEF Core, Types, Kept
  <1>14. QED
    BY <1>11, <1>12, <1>13

LEMMA LinksStep ==
    ASSUME Core, NEW s \in Sessions, InferLinks(s) \/ LinkOutcomes(s)
    PROVE  Core' /\ Kept
  <1>1. /\ request[s].op \in {"infer", "link"} /\ log' = log /\ anchor' = anchor
        /\ \E created \in Creatable(request[s]) : SaveLinks(s, created)
    BY DEF InferLinks, LinkOutcomes, Judged
  <1>2. /\ Kept /\ LogKept /\ Types' /\ References' /\ LogExcludes' /\ ExcludedIsInactive'
        /\ InferenceRepeatsNothing' /\ Accounted' /\ UndoIsExact'
    BY <1>1, SaveLinksStep
  <1>3. Requests'
    <2>1. CASE InferLinks(s)
      BY <1>2, <2>1, FinishStep DEF Core, InferLinks
    <2>2. CASE LinkOutcomes(s)
      <3>1. PICK r : r = [op |-> "rescore", changed |-> request[s].changed]
        OBVIOUS
      <3>2. request' = [request EXCEPT ![s] = r] /\ Holds(r)'
        BY <2>2, <3>1 DEF LinkOutcomes, Holds
      <3>3. QED
        BY <1>2, <3>2, RequestMoves DEF Core
    <2>3. QED
      BY <2>1, <2>2
  <1>4. QED
    BY <1>2, <1>3 DEF Core

\* What a model grows is a claim and its link, a link, or nothing.
LEMMA GrownRows ==
    ASSUME Core, NEW i \in Claims(rows), NEW outward \in BOOLEAN,
           GrowNew(i, outward) \/ Converge(i, outward)
    PROVE  \E new \in Seq(Row) :
             /\ rows' = rows \o new /\ Len(rows) + Len(new) <= MaxRows
             /\ \A k \in 1..Len(new) : new[k].review = Accepted /\ new[k].via = "grown"
             /\ \A k \in 1..Len(new) : new[k].kind = "edge" =>
                  {new[k].from, new[k].to} \subseteq Claims(rows)'
  <1>1. /\ rows \in Seq(Row) /\ Len(rows) \in Nat /\ Len(rows) <= MaxRows
        /\ i \in 1..Len(rows) /\ i \in Nat
    BY DEF Core, Types, Claims
  <1>2. NewClaim("grown") \in Row /\ \A p, q \in Nat : NewEdge(p, q, "grown") \in Row
    BY NewRowsTyped
  <1>3. CASE GrowNew(i, outward)
    <2>1. PICK e \in Row : /\ rows' = rows \o <<NewClaim("grown"), e>> /\ Len(rows) + 2 <= MaxRows
                           /\ e.review = Accepted /\ e.via = "grown"
                           /\ {e.from, e.to} = {i, Len(rows) + 1}
      <3>1. PICK p \in Nat, q \in Nat :
              /\ rows' = rows \o <<NewClaim("grown"), NewEdge(p, q, "grown")>>
              /\ Len(rows) + 2 <= MaxRows /\ {p, q} = {i, Len(rows) + 1}
        <4>1. CASE outward
          <5>1. Ends(outward, i, Len(rows) + 1) = <<i, Len(rows) + 1>>
            BY <4>1 DEF Ends
          <5>2. /\ rows' = rows \o <<NewClaim("grown"), NewEdge(i, Len(rows) + 1, "grown")>>
                /\ Len(rows) + 2 <= MaxRows
            BY <1>3, <5>1 DEF GrowNew
          <5>3. Len(rows) + 1 \in Nat
            BY <1>1
          <5>4. QED
            BY <1>1, <5>2, <5>3
        <4>2. CASE ~outward
          <5>1. Ends(outward, i, Len(rows) + 1) = <<Len(rows) + 1, i>>
            BY <4>2 DEF Ends
          <5>2. /\ rows' = rows \o <<NewClaim("grown"), NewEdge(Len(rows) + 1, i, "grown")>>
                /\ Len(rows) + 2 <= MaxRows
            BY <1>3, <5>1 DEF GrowNew
          <5>3. Len(rows) + 1 \in Nat
            BY <1>1
          <5>4. QED
            BY <1>1, <5>2, <5>3
        <4>3. QED
          BY <4>1, <4>2
      <3>2. PICK e \in Row : e = NewEdge(p, q, "grown")
        BY <1>2
      <3>3. QED
        BY <3>1, <3>2 DEF NewEdge
    <2>2. PICK c \in Row : c = NewClaim("grown")
      BY <1>2
    <2>3. c.review = Accepted /\ c.via = "grown" /\ c.kind = "claim"
      BY <2>2 DEF NewClaim
    <2>4. <<c, e>> \in Seq(Row) /\ Len(<<c, e>>) = 2
      OBVIOUS
    <2>5. PICK new \in Seq(Row) : new = <<c, e>>
      BY <2>4
    <2>6. Len(new) = 2 /\ new[1] = c /\ new[2] = e
      BY <2>5
    <2>7. rows' = rows \o new
      BY <2>1, <2>2, <2>5
    <2>8. /\ Len(rows') = Len(rows) + 2
          /\ \A k \in 1..Len(rows) + 2 :
               rows'[k] = IF k <= Len(rows) THEN rows[k] ELSE new[k - Len(rows)]
      <3>1. /\ Len(rows') = Len(rows) + Len(new)
            /\ \A k \in 1..Len(rows) + Len(new) :
                 rows'[k] = IF k <= Len(rows) THEN rows[k] ELSE new[k - Len(rows)]
        BY <1>1, <2>7, ConcatProperties
      <3>2. QED
        BY <2>6, <3>1
    <2>9. rows'[i] = rows[i] /\ rows'[Len(rows) + 1] = c
      BY <1>1, <2>6, <2>8
    <2>10. {i, Len(rows) + 1} \subseteq Claims(rows)'
      BY <1>1, <2>3, <2>8, <2>9 DEF Claims
    <2>11. \A k \in 1..Len(new) : k = 1 \/ k = 2
      BY <2>6
    <2>12. QED
      BY <2>1, <2>3, <2>6, <2>7, <2>10, <2>11
  <1>4. CASE Converge(i, outward)
    <2>1. PICK other \in Claims(rows) :
            LET p == Ends(outward, i, other)
            IN IF WouldCycle(p[1], p[2])
               THEN UNCHANGED rows
               ELSE Len(rows) < MaxRows /\ rows' = Append(rows, NewEdge(p[1], p[2], "grown"))
      BY <1>4 DEF Converge, Embedded
    <2>2. other \in Nat
      BY DEF Claims
    <2>3. CASE rows' = rows
      <3>0. <<>> \in Seq(Row)
        OBVIOUS
      <3>1. PICK new \in Seq(Row) : new = <<>> /\ Len(new) = 0
        BY <3>0
      <3>2. rows' = rows \o new /\ Len(rows) + Len(new) <= MaxRows /\ 1..Len(new) = {}
        BY <1>1, <2>3, <3>1
      <3>3. QED
        BY <3>2
    <2>4. CASE rows' # rows
      <3>1. PICK p \in Nat, q \in Nat :
              /\ rows' = Append(rows, NewEdge(p, q, "grown"))
              /\ Len(rows) < MaxRows /\ {p, q} = {i, other}
        <4>1. CASE outward
          BY <1>1, <2>1, <2>2, <2>4, <4>1 DEF Ends
        <4>2. CASE ~outward
          BY <1>1, <2>1, <2>2, <2>4, <4>2 DEF Ends
        <4>3. QED
          BY <4>1, <4>2
      <3>2. PICK e \in Row : e = NewEdge(p, q, "grown")
        BY <1>2
      <3>3. e.review = Accepted /\ e.via = "grown" /\ {e.from, e.to} = {i, other}
        BY <3>1, <3>2 DEF NewEdge
      <3>4. <<e>> \in Seq(Row) /\ Len(<<e>>) = 1
        OBVIOUS
      <3>5. PICK new \in Seq(Row) : new = <<e>> /\ Len(new) = 1 /\ new[1] = e
        BY <3>4
      <3>6. rows' = rows \o new /\ Len(rows) + Len(new) <= MaxRows
        BY <1>1, <3>1, <3>2, <3>5, BoundsAreNumbers
      <3>7. Claims(rows) \subseteq Claims(rows)'
        <4>1. /\ Len(rows') = Len(rows) + 1
              /\ \A k \in 1..Len(rows) : rows'[k] = rows[k]
          BY <1>1, <1>2, <3>1, AppendProperties
        <4>2. QED
          BY <1>1, <4>1 DEF Claims
      <3>8. \A k \in 1..Len(new) : k = 1
        BY <3>5
      <3>9. QED
        <4>1. {i, other} \subseteq Claims(rows)'
          BY <2>1, <3>7
        <4>2. {e.from, e.to} \subseteq Claims(rows)'
          BY <3>3, <4>1
        <4>3. \A k \in 1..Len(new) : new[k] = e
          BY <3>5, <3>8
        <4>4. /\ \A k \in 1..Len(new) : new[k].review = Accepted /\ new[k].via = "grown"
              /\ \A k \in 1..Len(new) : {new[k].from, new[k].to} \subseteq Claims(rows)'
          BY <3>3, <4>2, <4>3
        <4>5. QED
          BY <3>6, <4>4
    <2>5. QED
      BY <2>3, <2>4
  <1>5. QED
    BY <1>3, <1>4

\* What a model grows comes after what is there, and nothing else changes.
LEMMA GrowStep ==
    ASSUME Core, NEW s \in Sessions, NEW i \in Claims(rows), NEW outward \in BOOLEAN,
           Grow(s, i, outward)
    PROVE  /\ Core' /\ Kept
           /\ \A k \in 1..Len(rows) : rows'[k] = rows[k]
           /\ \A k \in 1..Len(rows') : k > Len(rows) => rows'[k].via = "grown"
  <1>1. /\ GrowNew(i, outward) \/ Converge(i, outward)
        /\ Finish(s) /\ log' = log /\ revision' = revision /\ anchor' = anchor
        /\ theories' = theories /\ crossed' = crossed
    BY DEF Grow
  <1>2. PICK new \in Seq(Row) :
          /\ rows' = rows \o new /\ Len(rows) + Len(new) <= MaxRows
          /\ \A k \in 1..Len(new) : new[k].review = Accepted /\ new[k].via = "grown"
          /\ \A k \in 1..Len(new) : new[k].kind = "edge" =>
               {new[k].from, new[k].to} \subseteq Claims(rows)'
    BY <1>1, GrownRows
  <1>3. /\ Kept /\ LogKept /\ References' /\ LogExcludes' /\ ExcludedIsInactive'
        /\ InferenceRepeatsNothing' /\ Accounted' /\ UndoIsExact'
        /\ Len(rows') = Len(rows) + Len(new)
        /\ \A k \in 1..Len(rows) : rows'[k] = rows[k]
        /\ \A k \in 1..Len(new) : rows'[Len(rows) + k] = new[k]
    <2>1. /\ \A k \in 1..Len(new) : new[k].review = Accepted
          /\ \A k \in 1..Len(new) : new[k].via # "inferred"
      BY <1>2
    <2>2. QED
      BY <1>1, <1>2, <2>1, AppendStep
  <1>4. ASSUME NEW k \in 1..Len(rows'), k > Len(rows)
        PROVE  rows'[k].via = "grown"
    <2>1. Len(rows) \in Nat /\ Len(new) \in Nat
      BY DEF Core, Types
    <2>2. k - Len(rows) \in 1..Len(new) /\ Len(rows) + (k - Len(rows)) = k
      BY <1>3, <1>4, <2>1
    <2>3. QED
      BY <1>2, <1>3, <2>2
  <1>5. Types'
    <2>1. crossed' \subseteq 1..Len(rows')
      BY <1>1, <1>3 DEF Core, Types
    <2>2. QED
      BY <1>1, <1>3, <2>1 DEF Core, Types, Kept
  <1>6. Requests'
    BY <1>1, <1>3, FinishStep DEF Core
  <1>7. QED
    BY <1>3, <1>4, <1>5, <1>6 DEF Core

\* A node that is switched on or off is the node it was.
LEMMA Switched ==
    ASSUME NEW row \in Row, NEW wanted
    PROVE  /\ [row EXCEPT !.review.active = row.key \in wanted] \in Row
           /\ [row EXCEPT !.review.active = row.key \in wanted].kind = row.kind
           /\ [row EXCEPT !.review.active = row.key \in wanted].via = row.via
           /\ [row EXCEPT !.review.active = row.key \in wanted].from = row.from
           /\ [row EXCEPT !.review.active = row.key \in wanted].to = row.to
  <1>1. [row.review EXCEPT !.active = row.key \in wanted] \in Review
    <2>1. \A on \in BOOLEAN : [row.review EXCEPT !.active = on] \in Review
      BY DEF Row, Review
    <2>2. (row.key \in wanted) \in BOOLEAN
      OBVIOUS
    <2>3. QED
      BY <2>1, <2>2, Zenon
  <1>2. PICK now \in Review : now = [row.review EXCEPT !.active = row.key \in wanted]
    BY <1>1
  <1>3. [row EXCEPT !.review.active = row.key \in wanted] = [row EXCEPT !.review = now]
    BY <1>2
  <1>4. QED
    BY <1>3 DEF Row

\* Saving an anchor moves outcome nodes, adds those that are missing, and leaves
\* claims and links as they are.
LEMMA SyncRows ==
    ASSUME Core, NEW s \in Sessions, SyncOutcomes(s)
    PROVE  /\ Kept /\ LogKept /\ References' /\ LogExcludes' /\ ExcludedIsInactive'
           /\ InferenceRepeatsNothing' /\ Accounted' /\ UndoIsExact'
           /\ \A i \in 1..Len(rows) : rows[i].kind # "outcome" => rows'[i] = rows[i]
           /\ \A i \in 1..Len(rows') : i > Len(rows) => rows'[i].kind = "outcome"
  <1>0. log' = log /\ crossed' = crossed
    BY DEF SyncOutcomes
  <1>1. /\ Len(rows) \in Nat
        /\ \A i \in 1..Len(rows) : rows[i] \in Row
    BY RowTyped DEF Core, Types
  <1>2. PICK wanted \in SUBSET Outcomes : \E known : \E missing \in Orders(wanted \ known) :
          /\ rows' = Synced(wanted) \o [k \in 1..Len(missing) |-> NewNode(missing[k])]
          /\ Len(rows) + Len(missing) <= MaxRows
    <2>1. request[s].op = "sync" /\ request[s].wanted \in SUBSET Outcomes
      BY DEF SyncOutcomes, Core, Requests, Holds
    <2>2. \E missing \in Orders(request[s].wanted \ {rows[i].key : i \in Nodes}) :
            /\ rows' = Synced(request[s].wanted) \o
                 [k \in 1..Len(missing) |-> NewNode(missing[k])]
            /\ Len(rows) + Len(missing) <= MaxRows
      BY DEF SyncOutcomes
    <2>3. QED
      BY <2>1, <2>2
  <1>20. PICK known, missing :
          /\ missing \in Orders(wanted \ known)
          /\ rows' = Synced(wanted) \o [k \in 1..Len(missing) |-> NewNode(missing[k])]
          /\ Len(rows) + Len(missing) <= MaxRows
    BY <1>2
  <1>3. /\ Len(missing) \in Nat
        /\ \A k \in 1..Len(missing) : missing[k] \in Outcomes
    <2>1. PICK n \in 0..MaxRows : missing \in [1..n -> wanted \ known]
      BY <1>20 DEF Orders
    <2>2. n \in Nat
      BY <2>1, BoundsAreNumbers
    <2>3. Len(missing) = n
      BY <2>1, <2>2
    <2>4. QED
      BY <1>2, <1>20, <2>1, <2>2, <2>3
  <1>4. PICK kept : kept = Synced(wanted)
    OBVIOUS
  <1>5. PICK new : new = [k \in 1..Len(missing) |-> NewNode(missing[k])]
    OBVIOUS
  <1>6. /\ kept \in Seq(Row) /\ Len(kept) = Len(rows)
        /\ \A i \in 1..Len(rows) :
             IF rows[i].kind = "outcome"
             THEN kept[i] = [rows[i] EXCEPT !.review.active = rows[i].key \in wanted]
             ELSE kept[i] = rows[i]
    <2>1. \A i \in 1..Len(rows) :
            kept[i] = IF rows[i].kind = "outcome"
                      THEN [rows[i] EXCEPT !.review.active = rows[i].key \in wanted]
                      ELSE rows[i]
      BY <1>4 DEF Synced, Nodes
    <2>2. \A i \in 1..Len(rows) :
            [rows[i] EXCEPT !.review.active = rows[i].key \in wanted] \in Row
      <3> SUFFICES ASSUME NEW i \in 1..Len(rows)
                   PROVE  [rows[i] EXCEPT !.review.active = rows[i].key \in wanted] \in Row
        OBVIOUS
      <3>1. PICK row \in Row : row = rows[i]
        BY <1>1
      <3>2. [row EXCEPT !.review.active = row.key \in wanted] \in Row
        BY Switched
      <3>3. QED
        BY <3>1, <3>2
    <2>3. kept \in [1..Len(rows) -> Row]
      BY <1>1, <1>4, <2>1, <2>2 DEF Synced
    <2>4. \A n \in Nat : \A f \in [1..n -> Row] : f \in Seq(Row) /\ Len(f) = n
      OBVIOUS
    <2>5. QED
      BY <1>1, <2>1, <2>3, <2>4
  <1>7. /\ new \in Seq(Row) /\ Len(new) = Len(missing)
        /\ \A k \in 1..Len(missing) : new[k].kind = "outcome"
    <2>1. \A k \in 1..Len(missing) : new[k] = NewNode(missing[k]) /\ new[k] \in Row
      BY <1>3, <1>5, NewRowsTyped
    <2>2. new \in [1..Len(missing) -> Row]
      BY <1>5, <2>1
    <2>3. \A n \in Nat : \A f \in [1..n -> Row] : f \in Seq(Row) /\ Len(f) = n
      OBVIOUS
    <2>4. QED
      BY <1>3, <2>1, <2>2, <2>3 DEF NewNode
  <1>8. /\ rows' \in Seq(Row) /\ Len(rows') = Len(rows) + Len(missing)
        /\ \A i \in 1..Len(rows) + Len(missing) :
             rows'[i] = IF i <= Len(rows) THEN kept[i] ELSE new[i - Len(rows)]
    <2>1. rows' = kept \o new
      BY <1>20, <1>4, <1>5
    <2>2. /\ rows' \in Seq(Row) /\ Len(rows') = Len(kept) + Len(new)
          /\ \A i \in 1..Len(kept) + Len(new) :
               rows'[i] = IF i <= Len(kept) THEN kept[i] ELSE new[i - Len(kept)]
      <3>1. kept \in Seq(Row) /\ new \in Seq(Row)
        BY <1>6, <1>7
      <3>2. QED
        BY <2>1, <3>1, ConcatProperties
    <2>3. QED
      BY <1>6, <1>7, <2>2
  <1>9. \A i \in 1..Len(rows) : rows'[i] = kept[i]
    BY <1>1, <1>3, <1>8
  <1>10. ASSUME NEW i \in 1..Len(rows), rows[i].kind # "outcome" PROVE rows'[i] = rows[i]
    BY <1>6, <1>9, <1>10
  <1>11. ASSUME NEW i \in 1..Len(rows'), i > Len(rows) PROVE rows'[i].kind = "outcome"
    <2>1. i - Len(rows) \in 1..Len(missing) /\ rows'[i] = new[i - Len(rows)]
      BY <1>1, <1>3, <1>8, <1>11
    <2>2. QED
      BY <1>7, <2>1
  <1>12. Kept
    <2>1. ASSUME NEW i \in 1..Len(rows)
          PROVE  /\ rows'[i].kind = rows[i].kind /\ rows'[i].via = rows[i].via
                 /\ rows'[i].from = rows[i].from /\ rows'[i].to = rows[i].to
      <3>1. CASE rows[i].kind # "outcome"
        BY <1>10, <3>1
      <3>2. CASE rows[i].kind = "outcome"
        <4>1. PICK row \in Row : row = rows[i]
          BY <1>1
        <4>2. rows'[i] = [row EXCEPT !.review.active = row.key \in wanted]
          BY <1>6, <1>9, <3>2, <4>1
        <4>3. QED
          BY <4>1, <4>2, Switched
      <3>3. QED
        BY <3>1, <3>2
    <2>2. Len(rows) <= Len(rows') /\ Len(rows') <= MaxRows
      BY <1>1, <1>20, <1>3, <1>8
    <2>3. QED
      BY <1>0, <1>8, <2>1, <2>2 DEF Kept
  <1>13. Edges(rows)' = Edges(rows) /\ Claims(rows) \subseteq Claims(rows)'
    <2>1. \A e \in Edges(rows)' : e <= Len(rows)
      BY <1>1, <1>8, <1>11 DEF Edges
    <2>2. QED
      BY <1>12, <2>1, KeptFacts DEF Core
  <1>14. \A e \in Edges(rows) : rows'[e] = rows[e]
    BY <1>10 DEF Edges
  <1>15. /\ LogExcludes' /\ Accounted' /\ UndoIsExact'
         /\ \A n \in 1..Len(log') : log'[n].target \in 1..Len(rows') /\ log'[n].undoes < n
    BY <1>0, <1>10, <1>11, <1>12, LogSame DEF Core
  <1>16. References'
    BY <1>13, <1>14, <1>15 DEF Core, References
  <1>17. InferenceRepeatsNothing'
    BY <1>0, <1>13, <1>14 DEF Core, InferenceRepeatsNothing
  <1>18. ExcludedIsInactive'
    <2>1. ASSUME NEW i \in (1..Len(rows')) \ crossed', rows'[i].kind # "outcome",
                 rows'[i].review.status = "rejected"
          PROVE  ~rows'[i].review.active
      <3>1. i \in (1..Len(rows)) \ crossed
        BY <1>0, <1>1, <1>8, <1>11, <2>1
      <3>2. rows[i].kind # "outcome" /\ rows'[i] = rows[i]
        BY <1>10, <1>12, <2>1, <3>1 DEF Kept
      <3>3. QED
        BY <2>1, <3>1, <3>2 DEF Core, ExcludedIsInactive
    <2>2. QED
      BY <2>1 DEF ExcludedIsInactive
  <1>19. QED
    BY <1>0, <1>10, <1>11, <1>12, <1>15, <1>16, <1>17, <1>18, LogStays DEF Core

\* A sync moves the revision if it moved rows, and goes on to a request for links
\* or to the rescoring.
LEMMA SyncMoves ==
    ASSUME Core, NEW s \in Sessions, SyncOutcomes(s)
    PROVE  /\ UNCHANGED <<revision, overtaken>> \/ Bump(s)
           /\ \E r : /\ request' = [request EXCEPT ![s] = r]
                     /\ r.op \in {"rescore", "link"}
                     /\ r.op = "link" => /\ AskShape(r) /\ r.rev \in 1..MaxRevision
                                         /\ r.known \subseteq Claims(rows)'
  <1>1. request[s].rev \in 1..MaxRevision
    BY DEF SyncOutcomes, Core, Requests, Holds
  <1>2. PICK known : known = {i \in 1..Len(rows') : rows'[i].kind # "edge" /\ rows'[i].review.active}
    OBVIOUS
  <1>3. PICK moved : moved = (rows' # rows)
    OBVIOUS
  <1>4. PICK rev : rev = IF moved THEN request[s].rev + 1 ELSE request[s].rev
    OBVIOUS
  <1>5. PICK missing :
          LET new == Len(rows) + 1..Len(rows) + Len(missing)
          IN /\ request[s].rev < MaxRevision
             /\ IF moved THEN Bump(s) ELSE UNCHANGED <<revision, overtaken>>
             /\ request' = [request EXCEPT ![s] =
                    IF new = {}
                    THEN [op |-> "rescore", changed |-> @.changed]
                    ELSE Asking("link", rev, new, known, @.changed)]
    BY <1>2, <1>3, <1>4 DEF SyncOutcomes
  <1>6. PICK new : new = Len(rows) + 1..Len(rows) + Len(missing)
    OBVIOUS
  <1>7. PICK r : r = IF new = {} THEN [op |-> "rescore", changed |-> request[s].changed]
                     ELSE Asking("link", rev, new, known, request[s].changed)
    OBVIOUS
  <1>8. request' = [request EXCEPT ![s] = r]
    BY <1>5, <1>6, <1>7
  <1>9. rev \in 1..MaxRevision
    BY <1>1, <1>4, <1>5, BoundsAreNumbers
  <1>10. r.op \in {"rescore", "link"}
    BY <1>7 DEF Asking
  <1>11. ASSUME r.op = "link" PROVE AskShape(r) /\ r.rev = rev /\ r.known = known
    <2>1. new # {}
      BY <1>7, <1>11
    <2>2. r = Asking("link", rev, new, known, request[s].changed)
      BY <1>7, <2>1
    <2>3. QED
      BY <2>2 DEF Asking, AskShape
  <1>12. known \subseteq Claims(rows)'
    BY <1>2 DEF Claims
  <1>13. UNCHANGED <<revision, overtaken>> \/ Bump(s)
    BY <1>5
  <1>14. QED
    BY <1>8, <1>9, <1>10, <1>11, <1>12, <1>13

LEMMA SyncStep ==
    ASSUME Core, NEW s \in Sessions, SyncOutcomes(s)
    PROVE  Core' /\ Kept
  <1>1. /\ Kept /\ LogKept /\ References' /\ LogExcludes' /\ ExcludedIsInactive'
        /\ InferenceRepeatsNothing' /\ Accounted' /\ UndoIsExact'
    BY SyncRows
  <1>2. /\ request[s].op = "sync" /\ log' = log /\ anchor' = anchor /\ theories' = theories
        /\ crossed' = crossed
    BY DEF SyncOutcomes
  <1>3. Types'
    <2>1. revision' \in 1..MaxRevision
      BY <1>2, SyncMoves, BumpStep DEF Core, Types
    <2>2. crossed' \subseteq 1..Len(rows')
      BY <1>1, <1>2, KeptFacts DEF Core, Types
    <2>3. QED
      BY <1>1, <1>2, <2>1, <2>2 DEF Core, Types, Kept
  <1>4. Requests'
    <2>1. PICK r : /\ request' = [request EXCEPT ![s] = r]
                   /\ r.op \in {"rescore", "link"}
                   /\ r.op = "link" => /\ AskShape(r) /\ r.rev \in 1..MaxRevision
                                       /\ r.known \subseteq Claims(rows)'
      BY SyncMoves
    <2>2. AskShape(r)' <=> AskShape(r)
      BY DEF AskShape
    <2>3. Holds(r)'
      BY <2>1, <2>2 DEF Holds
    <2>4. QED
      BY <1>1, <2>1, <2>3, RequestMoves DEF Core
  <1>5. QED
    BY <1>1, <1>3, <1>4 DEF Core

LEMMA CoreStep ==
    ASSUME Core, NEW s \in Sessions, Serve(s)
    PROVE  Core' /\ Kept
  <1>1. CASE Quiet(s)
    BY <1>1, QuietStep
  <1>2. CASE \E c \in Changes : ApplyReview(s, c)
    BY <1>2, ApplyReviewStep
  <1>3. CASE UndoOperation(s)
    BY <1>3, UndoStep
  <1>4. CASE AddClaim(s) \/ AddEdge(s)
    BY <1>4, AddStep
  <1>5. CASE InferLinks(s) \/ LinkOutcomes(s)
    BY <1>5, LinksStep
  <1>6. CASE \E i \in Claims(rows), outward \in BOOLEAN : Grow(s, i, outward)
    BY <1>6, GrowStep
  <1>7. CASE SyncOutcomes(s)
    BY <1>7, SyncStep
  <1>8. QED
    BY <1>1, <1>2, <1>3, <1>4, <1>5, <1>6, <1>7 DEF Serve, Quiet

LEMMA CoreInvariant == Spec => []Core
  <1>1. Core /\ [Next]_vars => Core'
    <2> SUFFICES ASSUME Core, [Next]_vars PROVE Core'
      OBVIOUS
    <2>1. CASE Next
      BY <2>1, CoreStep DEF Next
    <2>2. CASE UNCHANGED vars
      <3>1. rows' = rows /\ log' = log /\ crossed' = crossed
        BY <2>2 DEF vars
      <3>2. Types' /\ Requests'
        <4>1. Types'
          BY <2>2 DEF vars, Core, Types
        <4>2. Kept /\ LogKept
          BY <3>1, SameGraph
        <4>3. ASSUME NEW q \in Sessions PROVE Holds(request[q])'
          <5>1. PICK p : p = request[q] /\ p = request'[q]
            BY <2>2 DEF vars
          <5>2. Holds(p)
            BY <5>1 DEF Core, Requests
          <5>3. Holds(p)'
            BY <4>2, <5>2, HeldOn DEF Core
          <5>4. QED
            BY <5>1, <5>3 DEF Holds, HoldsEdit, EditShape, AskShape, Within
        <4>4. request' = [q \in Sessions |-> request'[q]]
          BY <2>2 DEF vars, Core, Requests
        <4>5. QED
          BY <4>1, <4>3, <4>4 DEF Requests
      <3>3. QED
        BY <3>1, <3>2, SameGraph DEF Core
    <2>3. QED
      BY <2>1, <2>2
  <1>2. QED
    BY InitCore, <1>1, PTL DEF Spec

\* Every variable has its type, in every reachable state, for any number of
\* overlapping requests.
THEOREM TypeCorrect == Spec => []TypeOK
  <1>1. Core => TypeOK
    <2> SUFFICES ASSUME Core PROVE TypeOK
      OBVIOUS
    <2>1. revision \in Nat \ {0}
      BY BoundsAreNumbers DEF Core, Types
    <2>2. \A n \in 1..Len(log) :
            /\ log[n].target \in 1..Len(rows)
            /\ {log[n].before, log[n].after} \subseteq Review \cup {None}
            /\ log[n].undoes \in 0..n - 1
      <3>1. \A n \in 1..Len(log) : log[n] \in Op
        BY ElementOfSeq DEF Core, Types
      <3>2. \A n \in 1..Len(log) : log[n].target \in 1..Len(rows) /\ log[n].undoes < n
        BY DEF Core, References
      <3>3. Len(log) \in Nat
        BY DEF Core, Types
      <3>4. QED
        BY <3>1, <3>2, <3>3 DEF Op
    <2>3. \A s \in Sessions : request[s].op \in {"edit", "infer", "link"} =>
            request[s].rev \in 1..MaxRevision
      BY DEF Core, Requests, Holds
    <2>4. QED
      BY <2>1, <2>2, <2>3 DEF Core, Types, TypeOK
  <1>2. QED
    BY <1>1, CoreInvariant, PTL

\* What a user has taken out stays out, through any order of reviews, restores,
\* undos and inferences of any number of requests that overlap between each read
\* and the commit (apply_review, undo_operation, infer_links_for_new_claims).
THEOREM WhatIsOutStaysOut == Spec => []RejectedStaysOut
  <1>1. Core => RejectedStaysOut
    BY DEF Core, RejectedStaysOut
  <1>2. QED
    BY <1>1, CoreInvariant, PTL

-----------------------------------------------------------------------------
(* Revisions. *)

LEMMA LogTyped ==
    ASSUME Types
    PROVE  \A n \in 1..Len(log) : log[n].to \in Nat /\ log[n].from \in Nat
  <1>1. \A n \in 1..Len(log) : log[n] \in Op
    BY ElementOfSeq DEF Types
  <1>2. QED
    BY <1>1 DEF Op

\* A revision that stays, or moves on without an operation.
LEMMA RevisionsKept ==
    ASSUME Core, Revisions, NEW s \in Sessions, log' = log,
           UNCHANGED <<revision, overtaken>> \/ Bump(s)
    PROVE  Revisions'
  <1>1. \A n \in 1..Len(log) : log[n].to \in Nat
    BY LogTyped DEF Core
  <1>2. revision \in Nat
    BY DEF Core, Types
  <1>3. ~overtaken' => ~overtaken /\ (revision' = revision \/ revision' = revision + 1)
    BY DEF Bump
  <1>4. QED
    BY <1>1, <1>2, <1>3 DEF Revisions

\* An operation has the revision it found and the one it leaves.
LEMMA RevisionsRecorded ==
    ASSUME Core, Revisions, NEW s \in Sessions, request[s].op = "edit",
           NEW target \in Nat, NEW before \in Review \cup {None},
           NEW after \in Review \cup {None}, NEW undoes \in Nat,
           Record(s, target, before, after, undoes), Bump(s)
    PROVE  Revisions'
  <1>0. SUFFICES ASSUME ~overtaken' PROVE Revisions'
    BY DEF Revisions
  <1>1. /\ request[s].rev = revision /\ revision \in Nat /\ revision' = revision + 1
        /\ ~overtaken
    <2>1. /\ overtaken' = (overtaken \/ revision # request[s].rev)
          /\ revision' = request[s].rev + 1
      BY DEF Bump
    <2>2. ~overtaken /\ request[s].rev = revision
      BY <1>0, <2>1, Zenon
    <2>3. revision \in Nat
      BY DEF Core, Types
    <2>4. QED
      BY <2>1, <2>2, <2>3
  <1>2. PICK N \in Nat : N = Len(log)
    BY DEF Core, Types
  <1>3. /\ Len(log') = N + 1
        /\ \A n \in 1..N : log'[n].from = log[n].from /\ log'[n].to = log[n].to
        /\ log'[N + 1].from = revision /\ log'[N + 1].to = revision + 1
    <2>1. Types /\ request[s].rev \in Nat
      BY <1>1 DEF Core
    <2>2. Logged(s, target, before, after, undoes)
      BY <2>1, RecordFacts
    <2>3. QED
      BY <1>1, <1>2, <2>2 DEF Logged
  <1>4. \A n \in 1..N : /\ log[n].to \in Nat /\ log[n].to <= revision
                        /\ n > 1 => log[n - 1].to <= log[n].from
    BY <1>1, <1>2, LogTyped DEF Revisions, Core
  <1>5. ASSUME NEW n \in 1..N + 1
        PROVE  /\ log'[n].to <= revision'
               /\ n > 1 => log'[n - 1].to <= log'[n].from
    <2>1. CASE n \in 1..N
      <3>1. log'[n].to <= revision'
        BY <1>1, <1>3, <1>4, <2>1
      <3>2. ASSUME n > 1 PROVE log'[n - 1].to <= log'[n].from
        <4>1. n - 1 \in 1..N
          BY <1>2, <2>1, <3>2
        <4>2. QED
          BY <1>3, <1>4, <2>1, <3>2, <4>1
      <3>3. QED
        BY <3>1, <3>2
    <2>2. CASE n = N + 1
      <3>1. log'[n].to <= revision'
        BY <1>1, <1>3, <2>2
      <3>2. ASSUME n > 1 PROVE log'[n - 1].to <= log'[n].from
        <4>1. n - 1 = N /\ N \in 1..N
          BY <1>2, <2>2, <3>2
        <4>2. QED
          BY <1>3, <1>4, <2>2, <4>1
      <3>3. QED
        BY <3>1, <3>2
    <2>3. QED
      BY <1>2, <2>1, <2>2
  <1>6. QED
    BY <1>2, <1>3, <1>5 DEF Revisions

LEMMA RevisionsStep ==
    ASSUME Core, Revisions, NEW s \in Sessions, Serve(s)
    PROVE  Revisions'
  <1>1. CASE Quiet(s)
    BY <1>1, QuietFacts, RevisionsKept
  <1>2. ASSUME NEW now \in Review, request[s].op = "edit", request[s].target # 0,
               Rewrite(s, now, request[s].was)
        PROVE  Revisions'
    <2>1. PICK was \in Review, t \in Nat, undoes \in Nat :
            was = request[s].was /\ t = request[s].target /\ undoes = request[s].undoes
      BY <1>2, EditHolds
    <2>2. Record(s, t, was, now, undoes) /\ Bump(s)
      BY <1>2, <2>1 DEF Rewrite
    <2>3. QED
      BY <1>2, <2>2, RevisionsRecorded
  <1>3. CASE \E c \in Changes : ApplyReview(s, c)
    <2>1. PICK c \in Changes : ApplyReview(s, c)
      BY <1>3
    <2>2. request[s].op = "edit" /\ request[s].target # 0
      BY <2>1 DEF ApplyReview, ReadTo
    <2>3. PICK was \in Review : was = request[s].was
      BY <2>2, EditHolds
    <2>4. PICK now : now = Reviewed(was, c)
      OBVIOUS
    <2>5. now \in Review
      BY <2>4, ReviewedFacts
    <2>6. Rewrite(s, now, request[s].was)
      BY <2>1, <2>3, <2>4 DEF ApplyReview
    <2>7. QED
      BY <1>2, <2>2, <2>5, <2>6
  <1>4. CASE UndoOperation(s)
    <2>1. request[s].op = "edit" /\ request[s].target # 0 /\ request[s].undoes # 0
      BY <1>4 DEF UndoOperation, ReadTo
    <2>2. PICK was \in Review, n \in 1..Len(log) : was = request[s].was /\ n = request[s].undoes
      <3>1. Len(log) \in Nat
        BY DEF Core, Types
      <3>2. QED
        BY <2>1, <3>1, EditHolds
    <2>3. PICK now : now = Replayed(log[n], was)
      OBVIOUS
    <2>4. log[n] \in Op
      BY ElementOfSeq DEF Core, Types
    <2>5. now \in Review
      BY <2>3, <2>4 DEF Replayed, Op
    <2>6. Rewrite(s, now, request[s].was)
      BY <1>4, <2>2, <2>3 DEF UndoOperation
    <2>7. QED
      BY <1>2, <2>1, <2>5, <2>6
  <1>5. CASE AddClaim(s) \/ AddEdge(s)
    <2>1. PICK row : AddRow(s, row)
      BY <1>5 DEF AddClaim, AddEdge
    <2>2. PICK t \in Nat : t = Len(rows) + 1
      BY DEF Core, Types
    <2>3. Record(s, t, None, None, 0) /\ Bump(s)
      BY <2>1, <2>2 DEF AddRow
    <2>4. request[s].op = "edit"
      BY <1>5 DEF AddClaim, AddEdge, Asked
    <2>5. QED
      BY <2>3, <2>4, RevisionsRecorded
  <1>6. CASE InferLinks(s) \/ LinkOutcomes(s)
    <2>1. /\ log' = log
          /\ \E created \in Creatable(request[s]) : SaveLinks(s, created)
      BY <1>6 DEF InferLinks, LinkOutcomes, Judged
    <2>2. UNCHANGED <<revision, overtaken>> \/ Bump(s)
      BY <2>1 DEF SaveLinks
    <2>3. QED
      BY <2>1, <2>2, RevisionsKept
  <1>7. CASE \E i \in Claims(rows), outward \in BOOLEAN : Grow(s, i, outward)
    BY <1>7, RevisionsKept DEF Grow
  <1>8. CASE SyncOutcomes(s)
    <2>1. log' = log
      BY <1>8 DEF SyncOutcomes
    <2>2. QED
      BY <1>8, <2>1, SyncMoves, RevisionsKept
  <1>9. QED
    BY <1>1, <1>3, <1>4, <1>5, <1>6, <1>7, <1>8 DEF Serve, Quiet

\* However requests overlap, the audit log tells what happened to each element on
\* which no two of them crossed: each operation found what the one before it on
\* the element left, and the element is as the last one left it.  No two
\* operations share a revision, until one takes its own from a revision that had
\* passed.  An undo records what the operation it names found, and no operation
\* on such an element is undone twice (apply_review, undo_operation).
THEOREM AuditLogAccounts == Spec => []AuditLogIsExact
  <1>1. Init => Revisions
    BY DEF Init, Revisions
  <1>2. Core /\ Revisions /\ [Next]_vars => Revisions'
    <2> SUFFICES ASSUME Core, Revisions, [Next]_vars PROVE Revisions'
      OBVIOUS
    <2>1. CASE Next
      BY <2>1, RevisionsStep DEF Next
    <2>2. CASE UNCHANGED vars
      BY <2>2 DEF vars, Revisions
    <2>3. QED
      BY <2>1, <2>2
  <1>3. Core /\ Revisions => AuditLogIsExact
    BY DEF Core, Revisions, Accounted, AuditLogIsExact, HistoryExplainsRows
  <1>4. QED
    BY <1>1, <1>2, <1>3, CoreInvariant, PTL DEF Spec

-----------------------------------------------------------------------------
(* Theories that are current and fresh. *)

\* Elements of the effective graph.
LEMMA InNow ==
    ASSUME NEW g, NEW e
    PROVE  e \in Now(g) <=>
             \E i \in EffectiveClaims(g) \cup EffectiveEdges(g) :
                e = <<i, g[i].review.override>> /\ PlainIn(g, i)
  BY DEF Now, Effective

\* Claims and links that a step leaves alone match what was read as they did;
\* what it adds is grown, or an outcome node.
LEMMA MatchesKept ==
    ASSUME NEW g \in Seq(Row), NEW h \in Seq(Row), Len(g) <= Len(h),
           \A i \in 1..Len(g) : h[i].kind = g[i].kind,
           \A i \in 1..Len(g) : g[i].kind # "outcome" => h[i] = g[i],
           \A i \in 1..Len(h) : i > Len(g) => h[i].kind = "outcome" \/ h[i].via = "grown",
           \A e \in Edges(g) : {g[e].from, g[e].to} \subseteq Claims(g),
           NEW basis, NEW size \in Nat, Matches(g, basis, size)
    PROVE  Matches(h, basis, size)
  <1>0. Len(g) \in Nat /\ Len(h) \in Nat /\ \A i \in 1..Len(g) : i \in 1..Len(h)
    OBVIOUS
  <1>1. ASSUME NEW i \in 1..Len(g) PROVE PlainIn(h, i) <=> PlainIn(g, i)
    <2>1. CASE g[i].kind = "edge"
      <3>1. i \in Edges(g) /\ h[i] = g[i] /\ {g[i].from, g[i].to} \subseteq 1..Len(g)
        BY <2>1 DEF Edges, Claims
      <3>2. \A n \in 1..Len(g) : n \in 1..Len(h) /\ h[n].kind = g[n].kind
        BY <1>0
      <3>3. QED
        BY <2>1, <3>1, <3>2 DEF PlainIn
    <2>2. CASE g[i].kind # "edge"
      BY <1>0, <2>2 DEF PlainIn
    <2>3. QED
      BY <2>1, <2>2
  <1>2. ASSUME NEW i \in 1..Len(g), g[i].kind # "outcome"
        PROVE  i \in EffectiveClaims(h) <=> i \in EffectiveClaims(g)
    BY <1>0, <1>2 DEF EffectiveClaims, Claims
  <1>3. ASSUME NEW i \in 1..Len(g), PlainIn(g, i)
        PROVE  /\ g[i].kind # "outcome"
               /\ i \in EffectiveClaims(h) \cup EffectiveEdges(h)
                  <=> i \in EffectiveClaims(g) \cup EffectiveEdges(g)
    <2>1. CASE g[i].kind = "edge"
      <3>1. i \in Edges(g) /\ i \in Edges(h) /\ h[i] = g[i]
        BY <1>0, <2>1 DEF Edges
      <3>2. {g[i].from, g[i].to} \subseteq 1..Len(g)
        BY <3>1 DEF Claims
      <3>3. g[g[i].from].kind # "outcome" /\ g[g[i].to].kind # "outcome"
        BY <1>3, <2>1, <3>2 DEF PlainIn
      <3>4. {g[i].from, g[i].to} \subseteq EffectiveClaims(h)
            <=> {g[i].from, g[i].to} \subseteq EffectiveClaims(g)
        BY <1>2, <3>2, <3>3
      <3>5. i \notin EffectiveClaims(g) /\ i \notin EffectiveClaims(h)
        BY <2>1, <3>1 DEF EffectiveClaims, Claims
      <3>6. i \in EffectiveEdges(h) <=> i \in EffectiveEdges(g)
        BY <3>1, <3>4 DEF EffectiveEdges
      <3>7. QED
        BY <2>1, <3>5, <3>6
    <2>2. CASE g[i].kind # "edge"
      <3>1. g[i].kind # "outcome"
        BY <1>3, <2>2 DEF PlainIn
      <3>2. i \notin EffectiveEdges(g) /\ i \notin EffectiveEdges(h)
        BY <2>2 DEF EffectiveEdges, Edges
      <3>3. QED
        BY <1>2, <3>1, <3>2
    <2>3. QED
      BY <2>1, <2>2
  <1>4. /\ \A i \in EffectiveClaims(g) \cup EffectiveEdges(g) : i \in 1..Len(g)
        /\ \A i \in EffectiveClaims(h) \cup EffectiveEdges(h) : i \in 1..Len(h)
    BY DEF EffectiveClaims, EffectiveEdges, Claims, Edges
  <1>5. ASSUME NEW e PROVE (e \in Now(h) /\ e[1] <= Len(g)) <=> e \in Now(g)
    <2>1. ASSUME e \in Now(h), e[1] <= Len(g) PROVE e \in Now(g)
      <3>1. PICK i \in EffectiveClaims(h) \cup EffectiveEdges(h) :
              e = <<i, h[i].review.override>> /\ PlainIn(h, i)
        BY <2>1, InNow
      <3>2. i \in 1..Len(g)
        BY <1>0, <1>4, <2>1, <3>1
      <3>3. /\ PlainIn(g, i) /\ g[i].kind # "outcome"
            /\ i \in EffectiveClaims(g) \cup EffectiveEdges(g)
        BY <1>1, <1>3, <3>1, <3>2
      <3>4. h[i] = g[i]
        BY <3>2, <3>3
      <3>5. QED
        BY <3>1, <3>3, <3>4, InNow
    <2>2. ASSUME e \in Now(g) PROVE e \in Now(h) /\ e[1] <= Len(g)
      <3>1. PICK i \in EffectiveClaims(g) \cup EffectiveEdges(g) :
              e = <<i, g[i].review.override>> /\ PlainIn(g, i)
        BY <2>2, InNow
      <3>2. i \in 1..Len(g)
        BY <1>4, <3>1
      <3>3. /\ PlainIn(h, i) /\ g[i].kind # "outcome"
            /\ i \in EffectiveClaims(h) \cup EffectiveEdges(h)
        BY <1>1, <1>3, <3>1, <3>2
      <3>4. h[i] = g[i]
        BY <3>2, <3>3
      <3>5. e \in Now(h)
        BY <3>1, <3>3, <3>4, InNow
      <3>6. QED
        BY <1>0, <3>1, <3>2, <3>5
    <2>3. QED
      BY <2>1, <2>2
  <1>6. ASSUME NEW e \in Now(h), e[1] > Len(g) PROVE h[e[1]].via = "grown"
    <2>1. PICK i \in EffectiveClaims(h) \cup EffectiveEdges(h) :
            e = <<i, h[i].review.override>> /\ PlainIn(h, i)
      BY <1>6, InNow
    <2>2. i \in 1..Len(h) /\ i > Len(g)
      BY <1>4, <1>6, <2>1
    <2>3. h[i].kind # "outcome"
      BY <2>1, <2>2 DEF PlainIn
    <2>4. QED
      BY <2>1, <2>2, <2>3
  <1>7. \A e \in Now(h) : e[1] \in Nat
    BY <1>4, InNow
  <1>8. size <= Len(h) /\ \A e \in basis : e[1] \in 1..size /\ e[1] \in 1..Len(g)
    BY <1>0 DEF Matches, Within
  <1>9. {e \in Now(h) : e[1] <= size} = {e \in basis : PlainIn(h, e[1])}
    <2>1. {e \in Now(h) : e[1] <= size} = {e \in Now(g) : e[1] <= size}
      <3>1. size <= Len(g)
        BY DEF Matches, Within
      <3>2. \A e \in Now(h) : e[1] <= size => e[1] <= Len(g)
        BY <1>0, <1>7, <3>1
      <3>3. QED
        BY <1>5, <3>2
    <2>2. {e \in basis : PlainIn(h, e[1])} = {e \in basis : PlainIn(g, e[1])}
      BY <1>1, <1>8
    <2>3. QED
      BY <2>1, <2>2 DEF Matches
  <1>10. ASSUME NEW e \in Now(h), e[1] > size PROVE h[e[1]].via = "grown"
    <2>1. CASE e[1] > Len(g)
      BY <1>6, <2>1
    <2>2. CASE e[1] <= Len(g)
      <3>1. e \in Now(g) /\ g[e[1]].via = "grown"
        BY <1>5, <1>10, <2>2 DEF Matches
      <3>2. PICK i \in EffectiveClaims(g) \cup EffectiveEdges(g) :
              e = <<i, g[i].review.override>> /\ PlainIn(g, i)
        BY <3>1, InNow
      <3>3. i \in 1..Len(g) /\ g[i].kind # "outcome" /\ e[1] = i
        BY <1>3, <1>4, <3>2
      <3>4. QED
        BY <3>1, <3>3
    <2>3. QED
      BY <1>0, <1>7, <2>1, <2>2
  <1>11. QED
    BY <1>8, <1>9, <1>10 DEF Matches, Within

\* What the model compares is what is proved of.
LEMMA RestsMatches ==
    ASSUME NEW basis, NEW size
    PROVE  /\ {e \in Effective(rows) : Plain(e[1])} = Now(rows)
           /\ {e \in basis : Plain(e[1])} = {e \in basis : PlainIn(rows, e[1])}
           /\ Matches(rows, basis, size) <=> Within(rows, basis, size) /\ RestsOn(basis, size)
  <1>1. \A i : Plain(i) <=> PlainIn(rows, i)
    BY DEF Plain, PlainIn, Nodes
  <1>2. {e \in Effective(rows) : Plain(e[1])} = Now(rows)
    BY <1>1 DEF Now
  <1>3. {e \in basis : Plain(e[1])} = {e \in basis : PlainIn(rows, e[1])}
    BY <1>1
  <1>4. RestsOn(basis, size) <=>
          /\ {e \in Now(rows) : e[1] <= size} = {e \in basis : PlainIn(rows, e[1])}
          /\ \A e \in Now(rows) : e[1] > size => rows[e[1]].via = "grown"
    BY <1>2, <1>3 DEF RestsOn
  <1>5. QED
    BY <1>2, <1>3, <1>4 DEF Matches

\* No current set is fresh.
LEMMA RestedMarked == ASSUME Marked PROVE Rested'
  BY DEF Marked, Rested

\* Nothing changed that a theory set rests on.
LEMMA RestedKept ==
    ASSUME Core, Kept, Rested, theories' = theories,
           \A i \in 1..Len(rows) : rows[i].kind # "outcome" => rows'[i] = rows[i],
           \A i \in 1..Len(rows') :
              i > Len(rows) => rows'[i].kind = "outcome" \/ rows'[i].via = "grown"
    PROVE  Rested'
  <1>1. ASSUME NEW k \in Current', ~theories'[k].stale, ~theories'[k].outrun
        PROVE  Matches(rows', theories'[k].basis, theories'[k].size)
    <2>1. k \in Current /\ k \in 1..Len(theories)
      BY DEF Current
    <2>2. theories[k] \in TheorySet
      BY <2>1, ElementOfSeq DEF Core, Types
    <2>3. PICK size \in Nat : size = theories[k].size
      BY <2>2 DEF TheorySet
    <2>4. PICK basis : basis = theories[k].basis
      OBVIOUS
    <2>5. Matches(rows, basis, size)
      BY <1>1, <2>1, <2>3, <2>4 DEF Rested
    <2>6. PICK g \in Seq(Row), h \in Seq(Row) : g = rows /\ h = rows'
      BY DEF Kept, Core, Types
    <2>7. /\ Len(g) <= Len(h)
          /\ \A i \in 1..Len(g) : h[i].kind = g[i].kind
          /\ \A i \in 1..Len(g) : g[i].kind # "outcome" => h[i] = g[i]
          /\ \A i \in 1..Len(h) : i > Len(g) => h[i].kind = "outcome" \/ h[i].via = "grown"
          /\ \A e \in Edges(g) : {g[e].from, g[e].to} \subseteq Claims(g)
      BY <2>6 DEF Kept, Core, References
    <2>8. Matches(g, basis, size)
      BY <2>5, <2>6
    <2>9. Matches(h, basis, size)
      BY <2>7, <2>8, MatchesKept
    <2>10. QED
      BY <2>3, <2>4, <2>6, <2>9
  <1>2. QED
    BY <1>1 DEF Rested

\* Nothing but a set of theories is there that was not.
LEMMA RestedSame ==
    ASSUME Core, Rested, rows' = rows, theories' = theories
    PROVE  Rested'
  BY DEF Rested, Current

\* What is committed as fresh matches the graph that is there then, or is outrun.
LEMMA RestedCommit ==
    ASSUME Core, Rested, NEW s \in Sessions, CommitTheories(s)
    PROVE  Rested'
  <1>1. PICK ks, new : /\ ks = request[s].previous /\ new = Generated(request[s])
                       /\ theories' = Append(Retired(theories, ks), new)
    BY DEF CommitTheories
  <1>2. rows' = rows /\ request[s].op = "generate"
    BY DEF CommitTheories
  <1>3. PICK basis, size : basis = request[s].basis /\ size = request[s].size
    OBVIOUS
  <1>4. /\ basis \in SUBSET (Nat \X (Overrides \cup {None})) /\ size \in Nat
        /\ Within(rows, basis, size)
    BY <1>2, <1>3 DEF Core, Requests, Holds
  <1>5. new = IF RestsOn(basis, size)
              THEN [basis |-> basis, size |-> size, stale |-> FALSE, current |-> TRUE, outrun |-> FALSE]
              ELSE Outrun
    BY <1>1, <1>3 DEF Generated
  <1>6. new \in TheorySet /\ (~new.outrun => Matches(rows, new.basis, new.size))
    <2>1. CASE RestsOn(basis, size)
      <3>1. Matches(rows, basis, size)
        BY <1>4, <2>1, RestsMatches
      <3>2. new \in TheorySet /\ new.basis = basis /\ new.size = size
        BY <1>4, <1>5, <2>1 DEF TheorySet
      <3>3. QED
        BY <3>1, <3>2
    <2>2. CASE ~RestsOn(basis, size)
      BY <1>5, <2>2 DEF Outrun, Forgotten, TheorySet
    <2>3. QED
      BY <2>1, <2>2
  <1>7. /\ Len(theories') = Len(theories) + 1 /\ Len(theories) \in Nat
        /\ \A k \in 1..Len(theories) : theories'[k] = theories[k] \/ ~theories'[k].current
        /\ theories'[Len(theories) + 1] = new
    <2>1. PICK old \in Seq(TheorySet) : /\ old = Retired(theories, ks)
            /\ Len(old) = Len(theories)
            /\ \A k \in 1..Len(theories) : old[k] = theories[k] \/ ~old[k].current
      BY RetiredFacts DEF Core
    <2>2. theories' = Append(old, new) /\ Len(theories) \in Nat
      BY <1>1, <2>1 DEF Core, Types
    <2>3. QED
      BY <1>6, <2>1, <2>2, AppendProperties
  <1>8. ASSUME NEW k \in Current', ~theories'[k].stale, ~theories'[k].outrun
        PROVE  Matches(rows', theories'[k].basis, theories'[k].size)
    <2>1. k \in 1..Len(theories) + 1 /\ theories'[k].current
      BY <1>7 DEF Current
    <2>2. CASE k = Len(theories) + 1
      BY <1>2, <1>6, <1>7, <1>8, <2>2
    <2>3. CASE k \in 1..Len(theories)
      <3>1. theories'[k] = theories[k] /\ k \in Current
        BY <1>7, <2>1, <2>3 DEF Current
      <3>2. QED
        BY <1>2, <1>8, <3>1 DEF Rested
    <2>4. QED
      BY <1>7, <2>1, <2>2, <2>3
  <1>9. QED
    BY <1>8 DEF Rested

LEMMA RestedStep ==
    ASSUME Core, Rested, NEW s \in Sessions, Serve(s)
    PROVE  Rested'
  <1>0. Kept /\ Types
    BY CoreStep DEF Core
  <1>1. CASE Quiet(s)
    <2>1. rows' = rows /\ (theories' = theories \/ Rescore(s) \/ CommitTheories(s))
      BY <1>1, QuietFacts
    <2>2. CASE Rescore(s)
      <3>1. theories' = theories \/ theories' = Staled(theories, Len(theories))
        BY <2>2 DEF Rescore
      <3>2. QED
        BY <1>0, <2>1, <3>1, MarkFacts, RestedMarked, RestedSame
    <2>3. QED
      BY <2>1, <2>2, RestedCommit, RestedSame
  <1>2. CASE \/ \E c \in Changes : ApplyReview(s, c)
             \/ UndoOperation(s) \/ AddClaim(s) \/ AddEdge(s)
    <2>1. Mark(s)
      BY <1>2 DEF ApplyReview, UndoOperation, AddClaim, AddEdge, Rewrite, AddRow
    <2>2. QED
      BY <1>0, <2>1, MarkFacts, RestedMarked DEF Mark
  <1>3. CASE InferLinks(s) \/ LinkOutcomes(s)
    <2>1. /\ request[s].op \in {"infer", "link"} /\ log' = log /\ anchor' = anchor
          /\ \E created \in Creatable(request[s]) : SaveLinks(s, created)
      BY <1>3 DEF InferLinks, LinkOutcomes, Judged
    <2>2. UNCHANGED <<rows, theories>> \/ Marked
      BY <2>1, SaveLinksStep
    <2>3. QED
      BY <2>2, RestedMarked, RestedSame
  <1>4. CASE \E i \in Claims(rows), outward \in BOOLEAN : Grow(s, i, outward)
    <2>1. PICK i \in Claims(rows), outward \in BOOLEAN : Grow(s, i, outward)
      BY <1>4
    <2>2. theories' = theories
      BY <2>1 DEF Grow
    <2>3. /\ \A k \in 1..Len(rows) : rows'[k] = rows[k]
          /\ \A k \in 1..Len(rows') : k > Len(rows) => rows'[k].via = "grown"
      BY <2>1, GrowStep
    <2>4. QED
      BY <1>0, <2>2, <2>3, RestedKept
  <1>5. CASE SyncOutcomes(s)
    <2>1. theories' = theories
      BY <1>5 DEF SyncOutcomes
    <2>2. /\ \A i \in 1..Len(rows) : rows[i].kind # "outcome" => rows'[i] = rows[i]
          /\ \A i \in 1..Len(rows') : i > Len(rows) => rows'[i].kind = "outcome"
      BY <1>5, SyncRows
    <2>3. QED
      BY <1>0, <2>1, <2>2, RestedKept
  <1>6. QED
    BY <1>1, <1>2, <1>3, <1>4, <1>5 DEF Serve, Quiet

\* However requests overlap, theories that are current and not marked stale rest
\* on the graph as it is: on exactly the claims and links review left standing,
\* and only a model asked to grow the graph has added to them; but for a set that
\* the graph moved away from while the model was asked, or that a mark already
\* made could not reach (generate_theories, mark_theories_stale).
THEOREM TheoriesRestOnReview == Spec => []FreshTheoriesMatchReview
  <1>1. Init => Rested
    BY DEF Init, Rested, Current
  <1>2. Core /\ Rested /\ [Next]_vars => Rested'
    <2> SUFFICES ASSUME Core, Rested, [Next]_vars PROVE Rested'
      OBVIOUS
    <2>1. CASE Next
      BY <2>1, RestedStep DEF Next
    <2>2. CASE UNCHANGED vars
      BY <2>2 DEF vars, Rested, Current
    <2>3. QED
      BY <2>1, <2>2
  <1>3. Rested => FreshTheoriesMatchReview
    <2> SUFFICES ASSUME Rested, NEW k \in Current, ~theories[k].stale, ~theories[k].outrun
                 PROVE  RestsOn(theories[k].basis, theories[k].size)
      BY DEF FreshTheoriesMatchReview
    <2>1. PICK basis, size : basis = theories[k].basis /\ size = theories[k].size
      OBVIOUS
    <2>2. Matches(rows, basis, size)
      BY <2>1 DEF Rested
    <2>3. QED
      BY <2>1, <2>2, RestsMatches
  <1>4. QED
    BY <1>1, <1>2, <1>3, CoreInvariant, PTL DEF Spec
=============================================================================
