---------------------------- MODULE FanOutProofs ----------------------------
(***************************************************************************)
(* What the cache answers, while every answer that is stored is embedded,  *)
(* and what a stage returns and reports, for any number of edges, tasks    *)
(* and entries, whichever calls fail.                                      *)
(*                                                                         *)
(* That an answer fits is not inductive: it needs that a row is of the     *)
(* entry at its index, that an entry holds the answer to its own prompt,   *)
(* and that what is about to be stored is the answer to the prompt of its  *)
(* call.  That a stage is exact needs to know where a task is when its     *)
(* edge was told, and what each stage leaves in the place of a task.       *)
(***************************************************************************)
EXTENDS FanOut, IndicesProofs

Entry == [prompt : Prompts, answer : Prompts, at : Nat]
CallRecord == [stage : {"idle", "embedding", "asked", "storing", "answered", "failed"},
               prompt : Prompts \cup {None}, tries : Nat, sent : SUBSET Params,
               again : BOOLEAN, answer : Prompts \cup {None}]

\* A call has a prompt from its start, and what it is about to store is the
\* answer to that prompt.
SoundCall(call) ==
    /\ call \in CallRecord
    /\ call.stage \in {"embedding", "asked", "storing", "answered"} => call.prompt \in Prompts
    /\ call.stage \in {"storing", "answered"} => call.answer \in Prompts
    /\ call.stage = "storing" => call.answer = call.prompt

CallTypes ==
    /\ calls = [c \in Callers |-> calls[c]]
    /\ \A c \in Callers : SoundCall(calls[c])
    /\ entries \in Seq(Entry)
    /\ rows \in Seq(Prompts)
    /\ Len(rows) <= Len(entries)
    /\ clock \in Nat

\* While every answer that is stored is embedded.
Aligned ==
    /\ CacheHolds
    /\ \A i \in 1..Len(entries) : entries[i].answer = entries[i].prompt

Claims == UNION {ToSet(ClaimsIn[p]) : p \in Prompts}
Outcome == [of : Edges, evidences : {0, 1}]
Report == [count : Nat, edge : Edges]

\* Where a task of a stage may be, and what it left.
Sound(stage, t, where, left) ==
    /\ where \in {"queued", "asking", "searching", "scoring", "reporting", "done", "failed"}
    /\ where \in {"searching", "scoring", "reporting"} => stage = "ground"
    /\ where = "asking" => stage # "ground"
    /\ stage = "audit" => where # "failed" /\ (where = "done" => left.of = t)
    /\ stage = "rescore" /\ left # None => \A i \in DOMAIN left : left[i].at = i
    /\ stage = "ground" => \/ left = None
                           \/ left \in Outcome /\ left.of = t
    /\ stage = "discover" => where # "failed" /\ (where = "done" => left \in Seq(Claims))

StageTypes ==
    /\ job \in Jobs
    /\ DOMAIN pc = Tasks /\ DOMAIN found = Tasks
    /\ lock \in Tasks \cup {None}
    /\ completed \in Nat
    /\ told \in Seq(Report)
    /\ \A t \in Tasks : Sound(job, t, pc[t], found[t])

\* While the stage runs, exactly the edges that were told of are told of, by
\* number, and one whose report is awaited holds the lock.
Telling ==
    /\ Len(told) = completed
    /\ \A i \in 1..Len(told) :
        /\ told[i].count = i
        /\ told[i].edge \in Tasks
        /\ \/ lock = told[i].edge /\ pc[told[i].edge] = "reporting"
           \/ pc[told[i].edge] \in {"done", "failed"}
    /\ \A i, j \in 1..Len(told) : told[i].edge = told[j].edge => i = j
    /\ lock # None => \E i \in 1..Len(told) : told[i].edge = lock
    /\ job = "ground" => \A t \in Tasks : pc[t] = "done" => \E i \in 1..Len(told) : told[i].edge = t
    /\ job # "ground" => told = <<>>

Stage == StageTypes /\ (results = None => Telling) /\ StageIsExact

-----------------------------------------------------------------------------
(* What is computed along sequences *)

\* Sequences one after the other are a sequence.
LEMMA FlattenFacts ==
    ASSUME NEW S, NEW seqs \in Seq(Seq(S))
    PROVE  FlattenSeq(seqs) \in Seq(S)
  <1>1. CASE Len(seqs) = 0
    <2>1. seqs = <<>>
      BY <1>1
    <2>2. FlattenSeq(seqs) = seqs
      BY <1>1 DEF FlattenSeq
    <2>3. <<>> \in Seq(S)
      OBVIOUS
    <2>4. QED
      BY <2>1, <2>2, <2>3
  <1>2. CASE Len(seqs) # 0
    <2> DEFINE N == Len(seqs)
               Rec(f) == f = [i \in 1..N |-> IF i = 1 THEN seqs[i] ELSE f[i - 1] \o seqs[i]]
               step == [k \in 1..N |-> [a \in Seq(S) |-> IF k = 1 THEN seqs[k] ELSE a \o seqs[k]]]
    <2>1. N \in Nat /\ 1 \in 1..N /\ <<>> \in Seq(S) /\ \A k \in 1..N : seqs[k] \in Seq(S)
      BY <1>2
    <2>2. step \in [1..N -> [Seq(S) -> Seq(S)]]
      BY <2>1, ConcatProperties
    <2>3. PICK f \in [0..N -> Seq(S)] : f[0] = <<>> /\ \A k \in 1..N : f[k] = step[k][f[k - 1]]
      <3> DEFINE T == Seq(S)
      <3>1. <<>> \in T /\ step \in [1..N -> [T -> T]]
        BY <2>1, <2>2
      <3>2. PICK f : Values(f, T, <<>>, N, step)
        <4> HIDE DEF step, N, T
        <4>1. QED
          BY <2>1, <3>1, Recursion
      <3>3. f \in [0..N -> T] /\ f[0] = <<>> /\ \A k \in 1..N : f[k] = step[k][f[k - 1]]
        <4> HIDE DEF step, N, T
        <4>1. QED
          BY <3>2 DEF Values
      <3>4. QED
        BY <3>3
    <2>4. \E g : Rec(g)
      <3> DEFINE g == [i \in 1..N |-> f[i]]
      <3>1. ASSUME NEW i \in 1..N
            PROVE  g[i] = IF i = 1 THEN seqs[i] ELSE g[i - 1] \o seqs[i]
        <4>0. i - 1 \in 0..N
          BY <2>1
        <4>1. f[i - 1] \in Seq(S) /\ f[i] = IF i = 1 THEN seqs[i] ELSE f[i - 1] \o seqs[i]
          BY <2>3, <4>0
        <4>2. CASE i = 1
          BY <4>1, <4>2
        <4>3. CASE i # 1
          <5>1. i - 1 \in 1..N /\ g[i] = f[i]
            BY <2>1, <4>3
          <5>2. g[i - 1] = f[i - 1]
            BY <5>1
          <5>3. QED
            BY <4>1, <4>3, <5>1, <5>2
        <4>4. QED
          BY <4>2, <4>3
      <3>2. Rec(g)
        BY <3>1
      <3>3. QED
        BY <3>2
    <2>5. PICK g : Rec(g) /\ g = CHOOSE f_1 : Rec(f_1)
      BY <2>4
    <2>6. FlattenSeq(seqs) = g[N]
      BY <1>2, <2>5 DEF FlattenSeq
    <2> HIDE DEF step
    <2> DEFINE good == {m \in 0..N : m = 0 \/ g[m] \in Seq(S)}
    <2>7. ASSUME NEW m \in good, m # N PROVE m + 1 \in good
      <3>1. m + 1 \in 1..N /\ m + 1 \in 0..N
        BY <2>1, <2>7
      <3>2. g[m + 1] = IF m + 1 = 1 THEN seqs[m + 1] ELSE g[m + 1 - 1] \o seqs[m + 1]
        <4> DEFINE v(i) == IF i = 1 THEN seqs[i] ELSE g[i - 1] \o seqs[i]
        <4>1. g = [i \in 1..N |-> v(i)]
          BY <2>5
        <4> HIDE DEF v
        <4>2. g[m + 1] = v(m + 1)
          BY <3>1, <4>1
        <4>3. QED
          BY <4>2 DEF v
      <3>3. m + 1 - 1 = m /\ (m + 1 # 1 => m # 0)
        BY <2>1
      <3>4. g[m + 1] \in Seq(S)
        <4>1. CASE m + 1 = 1
          BY <2>1, <3>1, <3>2, <4>1
        <4>2. CASE m + 1 # 1
          <5>1. g[m] \in Seq(S) /\ seqs[m + 1] \in Seq(S)
            BY <2>1, <3>1, <3>3, <4>2
          <5>2. g[m + 1] = g[m] \o seqs[m + 1]
            BY <3>2, <3>3, <4>2
          <5>3. QED
            BY <5>1, <5>2, ConcatProperties
        <4>3. QED
          BY <4>1, <4>2
      <3>5. QED
        BY <3>1, <3>4
    <2>8. good \subseteq 0..N /\ 0 \in good
      BY <2>1
    <2>9. good = 0..N
      <3> HIDE DEF good, N
      <3>1. QED
        BY <2>1, <2>7, <2>8, Stepwise
    <2>10. N \in good /\ N # 0
      <3>1. N \in 0..N /\ N # 0
        BY <1>2, <2>1
      <3>2. QED
        BY <2>9, <3>1
    <2>11. QED
      BY <2>6, <2>10
  <1>3. QED
    BY <1>1, <1>2


\* Of claims none says what an earlier one or a known one says.
Unlike(claims) ==
    /\ \A i \in DOMAIN claims : ~SaysTheSame(claims[i], Known)
    /\ \A i, j \in DOMAIN claims : i # j => ~SaysTheSame(claims[i], {claims[j]})

LEMMA UnlikeFurther ==
    ASSUME NEW S, NEW a \in Seq(S), Unlike(a), NEW c \in S, ~SaysTheSame(c, Known \cup ToSet(a))
    PROVE  Unlike(Append(a, c))
  <1> DEFINE b == Append(a, c)
             n == Len(a)
  <1>1. n \in Nat /\ DOMAIN a = 1..n /\ DOMAIN b = 1..(n + 1)
    OBVIOUS
  <1>2. b[n + 1] = c /\ \A i \in 1..n : b[i] = a[i]
    OBVIOUS
  <1>3. \A i \in 1..(n + 1) : i # n + 1 => i \in 1..n
    BY <1>1
  <1> HIDE DEF b, n
  <1>4. \A i \in 1..n : ~SaysTheSame(c, {a[i]}) /\ ~SaysTheSame(a[i], {c})
    BY <1>1 DEF SaysTheSame, ToSet
  <1>5. ~SaysTheSame(c, Known)
    BY DEF SaysTheSame
  <1>6. \A i \in 1..(n + 1) : ~SaysTheSame(b[i], Known)
    BY <1>1, <1>2, <1>3, <1>5 DEF Unlike
  <1>7. \A i, j \in 1..(n + 1) : i # j => ~SaysTheSame(b[i], {b[j]})
    BY <1>1, <1>2, <1>3, <1>4 DEF Unlike
  <1>8. Unlike(b)
    BY <1>1, <1>6, <1>7 DEF Unlike
  <1>9. QED
    BY <1>8 DEF b

\* What is accepted are claims of those given, none of which says the same.
LEMMA NewAmongFacts ==
    ASSUME NEW S, NEW claims \in Seq(S)
    PROVE  NewAmong(claims) \in Seq(ToSet(claims)) /\ Unlike(NewAmong(claims))
  <1> DEFINE N == Len(claims)
             C == ToSet(claims)
             Rec(f) == f = [n \in 0..N |->
                              IF n = 0 THEN <<>>
                              ELSE IF SaysTheSame(claims[n], Known \cup ToSet(f[n - 1])) THEN f[n - 1]
                              ELSE Append(f[n - 1], claims[n])]
             step == [n \in 1..N |-> [a \in Seq(C) |->
                              IF SaysTheSame(claims[n], Known \cup ToSet(a)) THEN a
                              ELSE Append(a, claims[n])]]
  <1>1. N \in Nat /\ <<>> \in Seq(C) /\ \A n \in 1..N : claims[n] \in C
    BY DEF ToSet
  <1>2. step \in [1..N -> [Seq(C) -> Seq(C)]]
    BY <1>1, AppendProperties
  <1>3. PICK f \in [0..N -> Seq(C)] : f[0] = <<>> /\ \A k \in 1..N : f[k] = step[k][f[k - 1]]
    <2> DEFINE T == Seq(C)
    <2>1. <<>> \in T /\ step \in [1..N -> [T -> T]]
      BY <1>1, <1>2
    <2>2. PICK f : Values(f, T, <<>>, N, step)
      <3> HIDE DEF step, N, T
      <3>1. QED
        BY <1>1, <2>1, Recursion
    <2>3. f \in [0..N -> T] /\ f[0] = <<>> /\ \A k \in 1..N : f[k] = step[k][f[k - 1]]
      <3> HIDE DEF step, N, T
      <3>1. QED
        BY <2>2 DEF Values
    <2>4. QED
      BY <2>3
  <1>4. ASSUME NEW n \in 1..N
        PROVE  /\ n - 1 \in 0..N /\ n \in 0..N /\ f[n - 1] \in Seq(C) /\ n # 0
               /\ f[n] = IF SaysTheSame(claims[n], Known \cup ToSet(f[n - 1])) THEN f[n - 1]
                         ELSE Append(f[n - 1], claims[n])
    <2>1. n - 1 \in 0..N /\ n \in 0..N /\ n # 0
      BY <1>1
    <2>2. f[n - 1] \in Seq(C)
      BY <1>3, <2>1
    <2>3. QED
      BY <1>3, <2>1, <2>2
  <1>5. Rec(f)
    <2>1. ASSUME NEW n \in 0..N
          PROVE  f[n] = IF n = 0 THEN <<>>
                        ELSE IF SaysTheSame(claims[n], Known \cup ToSet(f[n - 1])) THEN f[n - 1]
                        ELSE Append(f[n - 1], claims[n])
      <3>1. CASE n = 0
        BY <1>3, <3>1
      <3>2. CASE n # 0
        <4>1. n \in 1..N
          BY <3>2
        <4>2. QED
          BY <1>4, <3>2, <4>1
      <3>3. QED
        BY <3>1, <3>2
    <2>2. QED
      BY <1>3, <2>1
  <1>6. PICK g : Rec(g) /\ g = CHOOSE h : Rec(h)
    BY <1>5
  <1>7. NewAmong(claims) = g[N]
    BY <1>6 DEF NewAmong
  <1>8. /\ g[0] = <<>>
        /\ \A n \in 1..N, k \in 0..N : n - 1 = k =>
            /\ SaysTheSame(claims[n], Known \cup ToSet(g[k])) => g[n] = g[k]
            /\ ~SaysTheSame(claims[n], Known \cup ToSet(g[k])) => g[n] = Append(g[k], claims[n])
    <2>1. 0 \in 0..N /\ \A n \in 1..N : n \in 0..N /\ n # 0
      BY <1>1
    <2>2. QED
      BY <1>6, <2>1
  <1> HIDE DEF step, Rec
  <1> DEFINE good == {m \in 0..N : g[m] \in Seq(C) /\ Unlike(g[m])}
  <1>9. 0 \in good
    <2>1. Unlike(<<>>)
      BY DEF Unlike
    <2>2. 0 \in 0..N
      BY <1>1
    <2>3. QED
      BY <1>1, <1>8, <2>1, <2>2
  <1>10. ASSUME NEW m \in good, m # N PROVE m + 1 \in good
    <2>1. m + 1 \in 1..N /\ m + 1 \in 0..N /\ m + 1 - 1 = m /\ m \in 0..N
      BY <1>1, <1>10
    <2>2. g[m] \in Seq(C) /\ Unlike(g[m]) /\ claims[m + 1] \in C
      BY <1>1, <1>10, <2>1
    <2>3. /\ SaysTheSame(claims[m + 1], Known \cup ToSet(g[m])) => g[m + 1] = g[m]
          /\ ~SaysTheSame(claims[m + 1], Known \cup ToSet(g[m])) =>
                g[m + 1] = Append(g[m], claims[m + 1])
      <3> HIDE DEF good, N, C
      <3> DEFINE P(n, k) == /\ SaysTheSame(claims[n], Known \cup ToSet(g[k])) => g[n] = g[k]
                            /\ ~SaysTheSame(claims[n], Known \cup ToSet(g[k])) =>
                                  g[n] = Append(g[k], claims[n])
      <3>1. \A n \in 1..N, k \in 0..N : n - 1 = k => P(n, k)
        BY <1>8
      <3>2. P(m + 1, m)
        <4> HIDE DEF P
        <4>1. QED
          BY <2>1, <3>1
      <3>3. QED
        BY <3>2
    <2>4. CASE SaysTheSame(claims[m + 1], Known \cup ToSet(g[m]))
      BY <2>1, <2>2, <2>3, <2>4
    <2>5. CASE ~SaysTheSame(claims[m + 1], Known \cup ToSet(g[m]))
      <3> HIDE DEF C
      <3>1. g[m + 1] = Append(g[m], claims[m + 1]) /\ Append(g[m], claims[m + 1]) \in Seq(C)
        BY <2>2, <2>3, <2>5, AppendProperties
      <3>2. Unlike(g[m + 1])
        BY <2>2, <2>5, <3>1, UnlikeFurther
      <3>3. QED
        BY <2>1, <3>1, <3>2
    <2>6. QED
      BY <2>4, <2>5
  <1>11. good \subseteq 0..N /\ N \in 0..N
    BY <1>1
  <1>12. good = 0..N
    <2> HIDE DEF good, N
    <2>1. QED
      BY <1>1, <1>9, <1>10, <1>11, Stepwise
  <1>13. g[N] \in Seq(C) /\ Unlike(g[N])
    BY <1>11, <1>12
  <1>14. QED
    BY <1>7, <1>13

-----------------------------------------------------------------------------
(* The cache *)

LEMMA SubSeqFacts ==
    ASSUME NEW S, NEW s \in Seq(S), NEW a \in Int, NEW b \in Int, 1 <= a, b <= Len(s),
           NEW n \in Nat, n = b - a + 1
    PROVE  /\ SubSeq(s, a, b) \in Seq(S)
           /\ Len(SubSeq(s, a, b)) = n
           /\ \A k \in 1..n : SubSeq(s, a, b)[k] = s[a + k - 1]
  <1>1. \A k \in a..b : s[k] \in S
    OBVIOUS
  <1>2. /\ SubSeq(s, a, b) \in Seq(S)
        /\ Len(SubSeq(s, a, b)) = IF a <= b THEN b - a + 1 ELSE 0
        /\ \A k \in 1..(b - a + 1) : SubSeq(s, a, b)[k] = s[a + k - 1]
    BY <1>1, SubSeqProperties
  <1>3. a <= b \/ n = 0
    OBVIOUS
  <1>4. QED
    BY <1>2, <1>3

\* What a sequence is without one of its elements.
LEMMA RemoveFacts ==
    ASSUME NEW S, NEW s \in Seq(S), NEW i \in 1..Len(s)
    PROVE  /\ RemoveAt(s, i) \in Seq(S)
           /\ Len(RemoveAt(s, i)) = Len(s) - 1
           /\ \A k \in 1..(Len(s) - 1) : RemoveAt(s, i)[k] = IF k < i THEN s[k] ELSE s[k + 1]
  <1> DEFINE n == Len(s)
             a == SubSeq(s, 1, i - 1)
             b == SubSeq(s, i + 1, n)
  <1>1. n \in Nat /\ i \in Int /\ 1 <= i /\ i <= n /\ DOMAIN s = 1..n
    OBVIOUS
  <1>2. a \in Seq(S) /\ Len(a) = i - 1 /\ \A k \in 1..(i - 1) : a[k] = s[k]
    <2>1. i - 1 \in Int /\ i - 1 <= n /\ i - 1 \in Nat /\ i - 1 = (i - 1) - 1 + 1
      BY <1>1
    <2>2. a \in Seq(S) /\ Len(a) = i - 1 /\ \A k \in 1..(i - 1) : a[k] = s[1 + k - 1]
      BY <2>1, SubSeqFacts
    <2>3. QED
      BY <1>1, <2>2
  <1>3. b \in Seq(S) /\ Len(b) = n - i /\ \A k \in 1..(n - i) : b[k] = s[i + k]
    <2>1. PICK j \in Int : j = i + 1 /\ 1 <= j
      BY <1>1
    <2>2. PICK m \in Nat : m = n - i /\ m = n - j + 1
      <3>1. n - i \in Nat /\ n - i = n - j + 1
        BY <1>1, <2>1
      <3>2. QED
        BY <3>1
    <2>3. n \in Int /\ n <= Len(s) /\ b = SubSeq(s, j, n)
      BY <1>1, <2>1
    <2> HIDE DEF b, n
    <2>4. b \in Seq(S) /\ Len(b) = m /\ \A k \in 1..m : b[k] = s[j + k - 1]
      BY <2>1, <2>2, <2>3, SubSeqFacts
    <2>5. \A k \in 1..m : j + k - 1 = i + k
      BY <1>1, <2>1, <2>2
    <2>6. QED
      BY <2>2, <2>4, <2>5
  <1>4. RemoveAt(s, i) = a \o b
    BY DEF RemoveAt
  <1> HIDE DEF a, b, n
  <1>5. a \o b \in Seq(S) /\ Len(a \o b) = n - 1
    <2>1. a \o b \in Seq(S) /\ Len(a \o b) = Len(a) + Len(b)
      BY <1>2, <1>3, ConcatProperties
    <2>2. (i - 1) + (n - i) = n - 1
      BY <1>1
    <2>3. QED
      BY <1>2, <1>3, <2>1, <2>2
  <1>6. ASSUME NEW k \in 1..(n - 1) PROVE (a \o b)[k] = IF k < i THEN s[k] ELSE s[k + 1]
    <2>1. CASE k < i
      BY <1>1, <1>2, <1>3, <2>1, ConcatProperties
    <2>2. CASE ~(k < i)
      <3>1. k - (i - 1) \in 1..(n - i) /\ i + (k - (i - 1)) = k + 1
        BY <1>1, <2>2
      <3>2. (a \o b)[k] = b[k - (i - 1)]
        BY <1>1, <1>2, <1>3, <2>2, ConcatProperties
      <3>3. QED
        BY <1>3, <2>2, <3>1, <3>2
    <2>3. QED
      BY <2>1, <2>2
  <1>7. QED
    BY <1>4, <1>5, <1>6 DEF n

\* Nothing is removed by the index behind the last.
LEMMA RemoveBehind ==
    ASSUME NEW S, NEW s \in Seq(S)
    PROVE  RemoveAt(s, Len(s) + 1) \in Seq(S) /\ Len(RemoveAt(s, Len(s) + 1)) = Len(s)
  <1> DEFINE n == Len(s)
  <1>1. n \in Nat /\ n + 1 - 1 = n
    OBVIOUS
  <1>2. SubSeq(s, 1, n) \in Seq(S) /\ Len(SubSeq(s, 1, n)) = n
    BY <1>1, SubSeqFacts
  <1> DEFINE b == SubSeq(s, n + 1 + 1, n)
  <1>3. b = <<>>
    BY <1>1, SubSeqEmpty
  <1>4. RemoveAt(s, n + 1) = SubSeq(s, 1, n) \o b
    <2>1. PICK k \in Nat : k = n + 1 /\ k - 1 = n
      BY <1>1
    <2>2. RemoveAt(s, k) = SubSeq(s, 1, k - 1) \o SubSeq(s, k + 1, n)
      BY DEF RemoveAt
    <2>3. QED
      BY <2>1, <2>2
  <1> HIDE DEF b, n
  <1>5. RemoveAt(s, n + 1) = SubSeq(s, 1, n) \o <<>>
    BY <1>1, <1>3, <1>4
  <1>6. RemoveAt(s, n + 1) = SubSeq(s, 1, n)
    BY <1>2, <1>5, ConcatEmptySeq
  <1>7. QED
    BY <1>2, <1>6 DEF n

Oldest(all) == CHOOSE i \in DOMAIN all : \A j \in DOMAIN all : all[i].at <= all[j].at

LEMMA OldestFacts ==
    ASSUME NEW all \in Seq(Entry), all # <<>>
    PROVE  Oldest(all) \in 1..Len(all)
  <1> DEFINE T == {all[i].at : i \in 1..Len(all)}
  <1>1. \A i \in 1..Len(all) : all[i].at \in Nat
    <2>1. \A i \in 1..Len(all) : all[i] \in Entry
      OBVIOUS
    <2>2. QED
      BY <2>1 DEF Entry
  <1>2. T \subseteq Nat /\ T # {}
    <2>1. 1 \in 1..Len(all)
      OBVIOUS
    <2>2. QED
      BY <1>1, <2>1
  <1>3. PICK m \in T : \A k \in T : m <= k
    <2> HIDE DEF T
    <2>1. QED
      BY <1>2, LeastExists
  <1>4. PICK i \in 1..Len(all) : all[i].at = m
    BY <1>3
  <1>5. i \in DOMAIN all /\ \A j \in DOMAIN all : all[i].at <= all[j].at
    BY <1>3, <1>4
  <1>6. Oldest(all) \in DOMAIN all
    BY <1>5 DEF Oldest
  <1>7. QED
    BY <1>6

\* What is left of entries and rows after an eviction: what was there, in its
\* order, and a row at the index of its entry if that was so.
Left(left, all, matrix) ==
    /\ left.entries \in Seq(Entry)
    /\ left.rows \in Seq(Prompts)
    /\ Len(left.rows) <= Len(left.entries)
    /\ Len(matrix) = Len(all) =>
        /\ Len(left.rows) = Len(left.entries)
        /\ \A i \in 1..Len(left.entries) : \E j \in 1..Len(all) :
             left.entries[i] = all[j] /\ left.rows[i] = matrix[j]

LEMMA EvictFacts ==
    ASSUME NEW all \in Seq(Entry), NEW matrix \in Seq(Prompts), Len(matrix) <= Len(all)
    PROVE  Left(Evict(all, matrix), all, matrix)
  <1> DEFINE n == Len(all)
             m == Len(matrix)
             o == Oldest(all)
             keep == DOMAIN all \ {o}
             broken == matrix # <<>> /\ ~(keep \subseteq DOMAIN matrix)
  <1>1. n \in Nat /\ m \in Nat /\ DOMAIN all = 1..n /\ DOMAIN matrix = 1..m
    OBVIOUS
  <1>2. CASE n <= MaxEntries
    <2>1. Evict(all, matrix) = [entries |-> all, rows |-> matrix, broken |-> FALSE]
      BY <1>2 DEF Evict
    <2>2. \A i \in 1..n : m = n => all[i] = all[i] /\ matrix[i] = matrix[i]
      OBVIOUS
    <2> DEFINE left == Evict(all, matrix)
    <2>3. left.entries = all /\ left.rows = matrix
      BY <2>1
    <2> HIDE DEF left
    <2>4. Left(left, all, matrix)
      BY <2>3 DEF Left
    <2>5. QED
      BY <2>4 DEF left
  <1>3. CASE ~(n <= MaxEntries)
    <2>1. all # <<>>
      BY <1>3, ModelCallsAssumption
    <2>2. o \in 1..n
      BY <2>1, OldestFacts
    <2>3. Evict(all, matrix) =
            [entries |-> RemoveAt(all, o), broken |-> broken,
             rows |-> IF broken \/ matrix = <<>> THEN matrix ELSE RemoveAt(matrix, o)]
      BY <1>3 DEF Evict, Oldest
    <2> DEFINE left == Evict(all, matrix)
    <2>4. /\ left.entries = RemoveAt(all, o)
          /\ left.entries \in Seq(Entry) /\ Len(left.entries) = n - 1
          /\ \A k \in 1..(n - 1) : left.entries[k] = IF k < o THEN all[k] ELSE all[k + 1]
      <3> HIDE DEF o
      <3>1. QED
        BY <2>2, <2>3, RemoveFacts
    <2>5. left.rows = IF broken \/ matrix = <<>> THEN matrix ELSE RemoveAt(matrix, o)
      BY <2>3
    <2> HIDE DEF left, o
    <2>6. CASE m = n
      <3>1. ~broken /\ matrix # <<>> /\ left.rows = RemoveAt(matrix, o)
        BY <1>1, <2>1, <2>5, <2>6
      <3>2. /\ left.rows \in Seq(Prompts) /\ Len(left.rows) = n - 1
            /\ \A k \in 1..(n - 1) : left.rows[k] = IF k < o THEN matrix[k] ELSE matrix[k + 1]
        <4>1. o \in 1..m
          BY <2>2, <2>6
        <4>2. /\ RemoveAt(matrix, o) \in Seq(Prompts) /\ Len(RemoveAt(matrix, o)) = m - 1
              /\ \A k \in 1..(m - 1) : RemoveAt(matrix, o)[k] = IF k < o THEN matrix[k] ELSE matrix[k + 1]
          BY <4>1, RemoveFacts
        <4>3. QED
          BY <2>6, <3>1, <4>2
      <3>3. ASSUME NEW k \in 1..(n - 1)
            PROVE  \E j \in 1..n : left.entries[k] = all[j] /\ left.rows[k] = matrix[j]
        <4>1. CASE k < o
          <5>1. k \in 1..n
            BY <1>1
          <5>2. QED
            BY <2>4, <3>2, <4>1, <5>1
        <4>2. CASE ~(k < o)
          <5>1. k + 1 \in 1..n
            BY <1>1
          <5>2. QED
            BY <2>4, <3>2, <4>2, <5>1
        <4>3. QED
          BY <4>1, <4>2
      <3>4. Left(left, all, matrix)
        <4>1. Len(left.rows) = Len(left.entries) /\ Len(left.entries) = n - 1
          BY <2>4, <3>2
        <4>2. \A i \in 1..Len(left.entries) : \E j \in 1..Len(all) :
                left.entries[i] = all[j] /\ left.rows[i] = matrix[j]
          BY <3>3, <4>1
        <4>3. QED
          BY <2>4, <3>2, <4>1, <4>2 DEF Left
      <3>5. QED
        BY <3>4 DEF left
    <2>7. CASE m # n
      <3>1. m <= n - 1
        <4>1. m <= n
          OBVIOUS
        <4> HIDE DEF n, m
        <4>2. QED
          BY <1>1, <2>7, <4>1
      <3>2. left.rows \in Seq(Prompts) /\ Len(left.rows) <= n - 1
        <4>1. CASE broken \/ matrix = <<>>
          BY <2>5, <3>1, <4>1
        <4>2. CASE ~broken /\ matrix # <<>>
          <5>1. \A k \in 1..n : k # o => k \in 1..m
            BY <1>1, <4>2
          <5>2. m = n - 1 /\ o = m + 1
            <6> HIDE DEF n, m
            <6>1. n \in 1..n /\ n \notin 1..m
              BY <1>1, <2>2, <3>1
            <6>2. o = n
              BY <5>1, <6>1
            <6>3. CASE n = 1
              <7>1. m # 0
                BY <4>2 DEF m
              <7>2. QED
                BY <1>1, <3>1, <6>3, <7>1
            <6>4. CASE n # 1
              <7>1. n - 1 \in 1..n /\ n - 1 # n
                BY <1>1, <6>1, <6>4
              <7>2. n - 1 \in 1..m
                BY <5>1, <6>2, <7>1
              <7>3. QED
                BY <1>1, <3>1, <6>2, <7>2
            <6>5. QED
              BY <6>3, <6>4
          <5>3. left.rows = RemoveAt(matrix, m + 1)
            BY <2>5, <4>2, <5>2
          <5>4. RemoveAt(matrix, m + 1) \in Seq(Prompts) /\ Len(RemoveAt(matrix, m + 1)) = m
            BY RemoveBehind
          <5>5. QED
            BY <3>1, <5>3, <5>4
        <4>3. QED
          BY <4>1, <4>2
      <3>3. Left(left, all, matrix)
        BY <2>4, <2>7, <3>2 DEF Left
      <3>4. QED
        BY <3>3 DEF left
    <2>8. QED
      BY <2>6, <2>7
  <1>4. QED
    BY <1>2, <1>3

\* The row that is most similar is there.
LEMMA NearestFacts ==
    ASSUME NEW p, rows \in Seq(Prompts), rows # <<>>
    PROVE  Nearest(p) \in 1..Len(rows)
  <1> DEFINE n == Len(rows)
             sim(i) == Similarity(p, rows[i])
             At(v) == {i \in 1..n : sim(i) = v}
  <1>1. n \in Nat /\ 1 \in 1..n /\ DOMAIN rows = 1..n
    OBVIOUS
  <1>2. \A i \in 1..n : sim(i) \in {0, 1, 2}
    BY DEF Similarity
  <1>3. ASSUME NEW v \in {0, 1, 2}, At(v) # {}, \A i \in 1..n : sim(i) <= v
        PROVE  \E i \in 1..n : \A j \in 1..n : sim(j) < sim(i) \/ (sim(j) = sim(i) /\ i <= j)
    <2>1. At(v) \subseteq Nat
      BY <1>1
    <2> HIDE DEF At
    <2>2. PICK i \in At(v) : \A k \in At(v) : i <= k
      BY <1>3, <2>1, LeastExists
    <2>3. i \in 1..n /\ sim(i) = v
      BY <2>2 DEF At
    <2>4. ASSUME NEW j \in 1..n PROVE sim(j) < sim(i) \/ (sim(j) = sim(i) /\ i <= j)
      <3>1. CASE sim(j) = v
        <4>1. j \in At(v)
          BY <3>1 DEF At
        <4>2. QED
          BY <2>2, <2>3, <3>1, <4>1
      <3>2. CASE sim(j) # v
        <4>1. sim(j) \in {0, 1, 2} /\ sim(j) <= v
          BY <1>2, <1>3
        <4> HIDE DEF sim
        <4>2. QED
          BY <2>3, <3>2, <4>1
      <3>3. QED
        BY <3>1, <3>2
    <2>5. QED
      BY <2>3, <2>4
  <1>4. \E v \in {0, 1, 2} : At(v) # {} /\ \A i \in 1..n : sim(i) <= v
    <2> HIDE DEF sim
    <2>1. CASE At(2) # {}
      BY <1>2, <2>1
    <2>2. CASE At(2) = {} /\ At(1) # {}
      <3>1. \A i \in 1..n : sim(i) <= 1
        BY <1>2, <2>2
      <3>2. QED
        BY <2>2, <3>1
    <2>3. CASE At(2) = {} /\ At(1) = {}
      <3>1. \A i \in 1..n : sim(i) = 0
        BY <1>2, <2>3
      <3>2. 1 \in At(0) /\ \A i \in 1..n : sim(i) <= 0
        BY <1>1, <3>1
      <3>3. QED
        BY <3>2
    <2>4. QED
      BY <2>1, <2>2, <2>3
  <1>5. \E i \in DOMAIN rows : \A j \in DOMAIN rows :
          sim(j) < sim(i) \/ (sim(j) = sim(i) /\ i <= j)
    BY <1>1, <1>3, <1>4
  <1>6. Nearest(p) \in DOMAIN rows
    BY <1>5 DEF Nearest
  <1>7. QED
    BY <1>1, <1>6

Fits(call) == call.stage = "answered" => Similarity(call.prompt, call.answer) > 0

\* Only the call of c changes.
OnlyCall(c) ==
    /\ calls' = [d \in Callers |-> calls'[d]]
    /\ \A d \in Callers : d # c => calls'[d] = calls[d]

\* A step of a call that leaves the cache alone.
LEMMA CallFacts ==
    ASSUME CallTypes, NEW c \in Callers, OnlyCall(c), SoundCall(calls'[c]), UNCHANGED cache
    PROVE  CallTypes' /\ (Aligned /\ Fits(calls'[c]) => Aligned')
  <1>1. UNCHANGED <<entries, rows, clock>>
    BY DEF cache
  <1>2. \A d \in Callers : SoundCall(calls'[d])
    BY DEF CallTypes, OnlyCall
  <1>3. CallTypes'
    BY <1>1, <1>2 DEF CallTypes, OnlyCall
  <1>4. ASSUME Aligned, Fits(calls'[c]) PROVE Aligned'
    <2>1. \A d \in Callers : Fits(calls'[d])
      BY <1>4 DEF OnlyCall, Aligned, CacheHolds, AnswersFit, Fits
    <2>2. AnswersFit'
      BY <2>1 DEF AnswersFit, Fits, Similarity
    <2>3. RowsAreOfEntries'
      BY <1>1, <1>4 DEF Aligned, CacheHolds, RowsAreOfEntries
    <2>4. QED
      BY <1>1, <1>4, <2>2, <2>3 DEF Aligned, CacheHolds
  <1>5. QED
    BY <1>3, <1>4

LEMMA AskedFacts ==
    ASSUME NEW call \in CallRecord, call.prompt \in Prompts
    PROVE  SoundCall(Asked(call)) /\ Fits(Asked(call))
  <1>1. Params \ blocked \subseteq Params
    OBVIOUS
  <1>2. QED
    BY <1>1 DEF Asked, SoundCall, CallRecord, Fits

\* An entry that answers is touched, and answers with what it holds.
LEMMA HitFacts ==
    ASSUME CallTypes, NEW c \in Callers, NEW p \in Prompts, NEW i \in 1..Len(entries), Hit(c, p, i)
    PROVE  CallTypes' /\ (Aligned /\ Similarity(p, entries[i].answer) > 0 => Aligned')
  <1>1. /\ calls = [d \in Callers |-> calls[d]] /\ entries \in Seq(Entry)
        /\ rows \in Seq(Prompts) /\ Len(rows) <= Len(entries) /\ clock \in Nat
    BY DEF CallTypes
  <1>2. entries[i] \in Entry /\ entries[i].answer \in Prompts
    <2>1. entries[i] \in Entry
      BY <1>1
    <2>2. QED
      BY <2>1 DEF Entry
  <1>3. /\ calls'[c] = [stage |-> "answered", prompt |-> p, tries |-> 0, sent |-> {},
                        again |-> FALSE, answer |-> entries[i].answer]
        /\ OnlyCall(c)
    BY <1>1 DEF Hit, NoCall, OnlyCall
  <1>4. SoundCall(calls'[c])
    BY <1>2, <1>3 DEF SoundCall, CallRecord
  <1>5. /\ entries' \in Seq(Entry) /\ Len(entries') = Len(entries)
        /\ \A j \in 1..Len(entries) : /\ entries'[j].prompt = entries[j].prompt
                                      /\ entries'[j].answer = entries[j].answer
    <2>1. [entries[i] EXCEPT !.at = clock + 1] \in Entry
      <3>1. \A e \in Entry, n \in Nat : [e EXCEPT !.at = n] \in Entry
        BY DEF Entry
      <3>2. clock + 1 \in Nat
        BY <1>1
      <3>3. QED
        BY <1>2, <3>1, <3>2
    <2>2. entries' = [entries EXCEPT ![i] = [entries[i] EXCEPT !.at = clock + 1]]
      BY DEF Hit
    <2>3. entries' \in Seq(Entry) /\ Len(entries') = Len(entries)
      BY <1>1, <2>1, <2>2, ExceptSeq
    <2>4. ASSUME NEW j \in 1..Len(entries)
          PROVE  entries'[j].prompt = entries[j].prompt /\ entries'[j].answer = entries[j].answer
      <3>1. entries[j] \in Entry /\ j \in DOMAIN entries
        BY <1>1
      <3>2. CASE j = i
        BY <1>2, <2>2, <3>1, <3>2 DEF Entry
      <3>3. CASE j # i
        BY <2>2, <3>1, <3>3
      <3>4. QED
        BY <3>2, <3>3
    <2>5. QED
      BY <2>3, <2>4
  <1>6. rows' = rows /\ clock' \in Nat
    BY <1>1 DEF Hit
  <1>7. CallTypes'
    <2>1. \A d \in Callers : SoundCall(calls'[d])
      BY <1>3, <1>4 DEF CallTypes, OnlyCall
    <2>2. QED
      BY <1>1, <1>3, <1>5, <1>6, <2>1 DEF CallTypes, OnlyCall
  <1>8. ASSUME Aligned, Similarity(p, entries[i].answer) > 0 PROVE Aligned'
    <2>1. \A d \in Callers : Fits(calls'[d])
      BY <1>3, <1>8 DEF OnlyCall, Aligned, CacheHolds, AnswersFit, Fits
    <2>2. AnswersFit'
      BY <2>1 DEF AnswersFit, Fits, Similarity
    <2>3. RowsAreOfEntries'
      BY <1>1, <1>5, <1>6, <1>8 DEF Aligned, CacheHolds, RowsAreOfEntries
    <2>4. \A j \in 1..Len(entries') : entries'[j].answer = entries'[j].prompt
      BY <1>5, <1>8 DEF Aligned
    <2>5. QED
      BY <2>2, <2>3, <2>4 DEF Aligned, CacheHolds
  <1>9. QED
    BY <1>7, <1>8

LEMMA LookupFacts ==
    ASSUME CallTypes, NEW c \in Callers, NEW p \in Prompts, Lookup(c, p)
    PROVE  CallTypes' /\ (Aligned => Aligned')
  <1> DEFINE same == {i \in DOMAIN entries : entries[i].prompt = p /\ Fresh(i)}
             call == [NoCall EXCEPT !.prompt = p]
  <1>1. CASE \E i \in same : Hit(c, p, i)
    <2>1. PICK i \in same : Hit(c, p, i)
      BY <1>1
    <2>2. i \in 1..Len(entries) /\ entries[i].prompt = p
      BY <2>1 DEF CallTypes
    <2>3. CallTypes' /\ (Aligned /\ Similarity(p, entries[i].answer) > 0 => Aligned')
      BY <2>1, <2>2, HitFacts
    <2>4. Aligned => Similarity(p, entries[i].answer) > 0
      BY <2>2 DEF Aligned, Similarity
    <2>5. QED
      BY <2>3, <2>4
  <1>2. CASE /\ calls' = [calls EXCEPT ![c] = IF entries = <<>> THEN Asked(call)
                                               ELSE [call EXCEPT !.stage = "embedding"]]
             /\ UNCHANGED cache
    <2>1. call \in CallRecord /\ call.prompt \in Prompts
      BY DEF NoCall, CallRecord
    <2>2. /\ SoundCall([call EXCEPT !.stage = "embedding"])
          /\ Fits([call EXCEPT !.stage = "embedding"])
      BY <2>1 DEF SoundCall, CallRecord, Fits
    <2>3. SoundCall(Asked(call)) /\ Fits(Asked(call))
      BY <2>1, AskedFacts
    <2> HIDE DEF call
    <2>4. OnlyCall(c) /\ SoundCall(calls'[c]) /\ Fits(calls'[c])
      <3>1. /\ calls'[c] = Asked(call) \/ calls'[c] = [call EXCEPT !.stage = "embedding"]
            /\ OnlyCall(c)
        BY <1>2 DEF CallTypes, OnlyCall
      <3>2. QED
        BY <2>2, <2>3, <3>1
    <2>5. QED
      BY <1>2, <2>4, CallFacts
  <1>3. QED
    BY <1>1, <1>2 DEF Lookup

LEMMA EmbeddedFacts ==
    ASSUME CallTypes, NEW c \in Callers, Embedded(c)
    PROVE  CallTypes' /\ (Aligned => Aligned')
  <1> DEFINE p == calls[c].prompt
  <1>1. calls[c] \in CallRecord /\ p \in Prompts
    BY DEF CallTypes, SoundCall, Embedded
  <1>2. CASE calls' = [calls EXCEPT ![c] = Asked(@)] /\ UNCHANGED cache
    <2>1. SoundCall(Asked(calls[c])) /\ Fits(Asked(calls[c]))
      BY <1>1, AskedFacts
    <2>2. calls'[c] = Asked(calls[c]) /\ OnlyCall(c)
      BY <1>2 DEF CallTypes, OnlyCall
    <2>3. QED
      BY <1>2, <2>1, <2>2, CallFacts
  <1>3. CASE rows # <<>> /\ Similarity(p, rows[Nearest(p)]) > 0 /\ Hit(c, p, Nearest(p))
    <2> DEFINE i == Nearest(p)
    <2>1. i \in 1..Len(rows)
      BY <1>3, NearestFacts DEF CallTypes
    <2>2. i \in 1..Len(entries) /\ i \in DOMAIN rows
      BY <2>1 DEF CallTypes
    <2> HIDE DEF i
    <2>3. Aligned => rows[i] = entries[i].answer
      BY <2>2 DEF Aligned, CacheHolds, RowsAreOfEntries
    <2>4. Hit(c, p, i) /\ Similarity(p, rows[i]) > 0
      BY <1>3 DEF i
    <2>5. CallTypes' /\ (Aligned /\ Similarity(p, entries[i].answer) > 0 => Aligned')
      BY <1>1, <2>2, <2>4, HitFacts
    <2>6. QED
      BY <2>3, <2>4, <2>5
  <1>4. QED
    BY <1>2, <1>3 DEF Embedded

LEMMA StoreFacts ==
    ASSUME CallTypes, NEW c \in Callers, Store(c)
    PROVE  CallTypes' /\ (Aligned /\ "put" \notin EmbeddingFails => Aligned')
  <1> DEFINE p == calls[c].prompt
             e == [prompt |-> p, answer |-> calls[c].answer, at |-> clock']
             all == Append(entries, e)
  <1>1. /\ calls[c] \in CallRecord /\ p \in Prompts /\ calls[c].answer = p
        /\ clock' = clock + 1 /\ clock' \in Nat
        /\ calls = [d \in Callers |-> calls[d]] /\ entries \in Seq(Entry)
        /\ rows \in Seq(Prompts) /\ Len(rows) <= Len(entries)
    BY DEF CallTypes, SoundCall, Store
  <1>2. PICK embedded \in {TRUE} \cup {x \in {FALSE} : "put" \in EmbeddingFails} :
          LET left == Evict(all, IF embedded THEN Append(rows, p) ELSE rows)
          IN  /\ entries' = left.entries
              /\ rows' = left.rows
              /\ calls' = [calls EXCEPT ![c].stage = IF left.broken THEN "failed" ELSE "answered"]
    BY DEF Store
  <1> DEFINE matrix == IF embedded THEN Append(rows, p) ELSE rows
             left == Evict(all, matrix)
  <1>3. e \in Entry /\ e.answer = e.prompt /\ e.prompt = p
    BY <1>1 DEF Entry
  <1> HIDE DEF e
  <1>4. /\ all \in Seq(Entry) /\ Len(all) = Len(entries) + 1
        /\ all[Len(entries) + 1] = e /\ \A i \in 1..Len(entries) : all[i] = entries[i]
    BY <1>1, <1>3, AppendProperties
  <1>5. /\ Append(rows, p) \in Seq(Prompts) /\ Len(Append(rows, p)) = Len(rows) + 1
        /\ Append(rows, p)[Len(rows) + 1] = p /\ \A i \in 1..Len(rows) : Append(rows, p)[i] = rows[i]
    BY <1>1, AppendProperties
  <1>6. matrix \in Seq(Prompts) /\ Len(matrix) <= Len(all)
    BY <1>1, <1>2, <1>4, <1>5
  <1>7. Left(left, all, matrix)
    <2> HIDE DEF all, matrix
    <2>1. QED
      BY <1>4, <1>6, EvictFacts
  <1>8. entries' = left.entries /\ rows' = left.rows
    BY <1>2
  <1>9. /\ OnlyCall(c) /\ calls'[c].stage \in {"failed", "answered"}
        /\ calls'[c] = [calls[c] EXCEPT !.stage = calls'[c].stage]
    BY <1>1, <1>2 DEF OnlyCall, CallRecord
  <1>10. SoundCall(calls'[c]) /\ calls'[c].prompt = p /\ calls'[c].answer = p
    BY <1>1, <1>9 DEF SoundCall, CallRecord
  <1> HIDE DEF all, matrix, left, p
  <1>11. CallTypes'
    <2>1. \A d \in Callers : SoundCall(calls'[d])
      BY <1>9, <1>10 DEF CallTypes, OnlyCall
    <2>2. QED
      BY <1>1, <1>7, <1>8, <1>9, <2>1 DEF CallTypes, OnlyCall, Left
  <1>12. ASSUME Aligned, "put" \notin EmbeddingFails PROVE Aligned'
    <2>1. matrix = Append(rows, p) /\ Len(rows) = Len(entries)
      BY <1>2, <1>12 DEF matrix, Aligned, CacheHolds, RowsAreOfEntries
    <2>2. Len(matrix) = Len(all)
      BY <1>1, <1>4, <1>5, <2>1
    <2>3. ASSUME NEW j \in 1..Len(all)
          PROVE  matrix[j] = all[j].prompt /\ all[j].answer = all[j].prompt
      <3>1. CASE j = Len(entries) + 1
        BY <1>3, <1>4, <1>5, <2>1, <3>1
      <3>2. CASE j # Len(entries) + 1
        <4>1. j \in 1..Len(entries) /\ j \in DOMAIN rows
          BY <1>1, <1>4, <2>1, <3>2
        <4>2. rows[j] = entries[j].prompt /\ entries[j].answer = entries[j].prompt
          BY <1>12, <4>1 DEF Aligned, CacheHolds, RowsAreOfEntries
        <4>3. matrix[j] = rows[j] /\ all[j] = entries[j]
          BY <1>4, <1>5, <2>1, <4>1
        <4>4. QED
          BY <4>2, <4>3
      <3>3. QED
        BY <3>1, <3>2
    <2>4. /\ Len(rows') = Len(entries')
          /\ \A i \in 1..Len(entries') : \E j \in 1..Len(all) :
               entries'[i] = all[j] /\ rows'[i] = matrix[j]
      BY <1>7, <1>8, <2>2 DEF Left
    <2>5. \A i \in 1..Len(entries') : rows'[i] = entries'[i].prompt /\ entries'[i].answer = entries'[i].prompt
      BY <2>3, <2>4
    <2>6. RowsAreOfEntries'
      <3>1. DOMAIN rows' = 1..Len(entries')
        BY <1>11, <2>4 DEF CallTypes
      <3>2. QED
        BY <2>4, <2>5, <3>1 DEF RowsAreOfEntries
    <2>7. \A d \in Callers : Fits(calls'[d])
      <3>1. Fits(calls'[c])
        BY <1>10 DEF Fits, Similarity
      <3>2. QED
        BY <1>9, <1>12, <3>1 DEF OnlyCall, Aligned, CacheHolds, AnswersFit, Fits
    <2>8. AnswersFit'
      BY <2>7 DEF AnswersFit, Fits, Similarity
    <2>9. QED
      BY <2>5, <2>6, <2>8 DEF Aligned, CacheHolds
  <1>13. QED
    BY <1>11, <1>12

\* What the model says, or that it says nothing, leaves the cache alone.
LEMMA ProviderFacts ==
    ASSUME CallTypes, NEW c \in Callers, Respond(c) \/ Refuse(c) \/ Unreachable(c)
    PROVE  CallTypes' /\ (Aligned => Aligned')
  <1>1. /\ calls[c] \in CallRecord /\ calls[c].prompt \in Prompts /\ calls[c].stage = "asked"
        /\ calls = [d \in Callers |-> calls[d]]
    BY DEF CallTypes, SoundCall, Respond, Refuse, Unreachable
  <1>2. /\ SoundCall([calls[c] EXCEPT !.stage = "failed"])
        /\ Fits([calls[c] EXCEPT !.stage = "failed"])
    BY <1>1 DEF SoundCall, CallRecord, Fits
  <1>3. UNCHANGED cache
    BY DEF Respond, Refuse, Unreachable
  <1>4. OnlyCall(c) /\ SoundCall(calls'[c]) /\ Fits(calls'[c])
    <2>1. CASE Respond(c)
      <3>1. CASE calls' = [calls EXCEPT ![c].stage = "failed"]
        BY <1>1, <1>2, <3>1 DEF OnlyCall
      <3>2. CASE calls' = [calls EXCEPT ![c].stage = "storing", ![c].answer = calls[c].prompt]
        <4>1. OnlyCall(c) /\ calls'[c] = [calls[c] EXCEPT !.stage = "storing", !.answer = calls[c].prompt]
          BY <1>1, <3>2 DEF OnlyCall, CallRecord
        <4>2. QED
          BY <1>1, <4>1 DEF SoundCall, CallRecord, Fits
      <3>3. QED
        BY <2>1, <3>1, <3>2 DEF Respond
    <2>2. CASE Refuse(c)
      <3>1. CASE calls' = [calls EXCEPT ![c].stage = "failed"]
        BY <1>1, <1>2, <3>1 DEF OnlyCall
      <3>2. CASE \E param : calls' = [calls EXCEPT ![c].sent = @ \ {param}, ![c].again = TRUE]
        <4>1. PICK param : calls' = [calls EXCEPT ![c].sent = @ \ {param}, ![c].again = TRUE]
          BY <3>2
        <4>2. OnlyCall(c) /\ calls'[c] = [calls[c] EXCEPT !.sent = calls[c].sent \ {param}, !.again = TRUE]
          BY <1>1, <4>1 DEF OnlyCall, CallRecord
        <4>3. QED
          BY <1>1, <4>2 DEF SoundCall, CallRecord, Fits
      <3>3. QED
        BY <2>2, <3>1, <3>2 DEF Refuse
    <2>3. CASE Unreachable(c)
      <3>1. OnlyCall(c) /\ calls'[c] = Retried(calls[c])
        BY <1>1, <2>3 DEF Unreachable, OnlyCall
      <3>2. CASE Retried(calls[c]) = [calls[c] EXCEPT !.stage = "failed"]
        BY <1>2, <3>1, <3>2
      <3>3. CASE Retried(calls[c]) = Asked([calls[c] EXCEPT !.tries = @ + 1])
        <4>1. [calls[c] EXCEPT !.tries = @ + 1] \in CallRecord
              /\ [calls[c] EXCEPT !.tries = @ + 1].prompt \in Prompts
          BY <1>1 DEF CallRecord
        <4>2. QED
          BY <3>1, <3>3, <4>1, AskedFacts
      <3>4. QED
        BY <3>2, <3>3 DEF Retried
    <2>4. QED
      BY <2>1, <2>2, <2>3
  <1>5. QED
    BY <1>3, <1>4, CallFacts

\* A step of a call keeps the cache what it is.
LEMMA CallStepFacts ==
    ASSUME CallTypes, NEW c \in Callers, CallStep(c)
    PROVE  CallTypes' /\ (Aligned /\ "put" \notin EmbeddingFails => Aligned')
  <1>1. CASE Embedded(c)
    BY <1>1, EmbeddedFacts
  <1>2. CASE Store(c)
    BY <1>2, StoreFacts
  <1>3. CASE Respond(c) \/ Refuse(c) \/ Unreachable(c)
    BY <1>3, ProviderFacts
  <1>4. QED
    BY <1>1, <1>2, <1>3 DEF CallStep

LEMMA UnchangedCalls ==
    ASSUME CallTypes, UNCHANGED <<calls, entries, rows, clock>>
    PROVE  CallTypes' /\ (Aligned => Aligned')
  <1>1. CallTypes'
    BY DEF CallTypes
  <1>2. ASSUME Aligned PROVE Aligned'
    BY <1>2 DEF Aligned, CacheHolds, AnswersFit, RowsAreOfEntries, Similarity
  <1>3. QED
    BY <1>1, <1>2

LEMMA TasksAreCallers ==
    ASSUME job \in Jobs, NEW t \in Tasks
    PROVE  t \in Callers /\ (job # "ground" => PromptOf[job][t] \in Prompts)
  BY FanOutAssumption DEF Tasks

\* Every step of a stage keeps the types of the cache, and, while what is stored
\* is embedded, what the cache holds.
LEMMA NextKeepsCache ==
    ASSUME CallTypes, job \in Jobs, [Next]_vars
    PROVE  CallTypes' /\ job' \in Jobs /\ (Aligned /\ "put" \notin EmbeddingFails => Aligned')
  <1>1. CASE UNCHANGED vars
    BY <1>1, UnchangedCalls DEF vars, callVars
  <1>2. CASE \E t \in Tasks : Task(t)
    <2>1. PICK t \in Tasks : Task(t)
      BY <1>2
    <2>2. t \in Callers /\ (job # "ground" => PromptOf[job][t] \in Prompts)
      BY <2>1, TasksAreCallers
    <2>3. CASE Enter(t)
      <3>1. CASE job = "ground"
        BY <2>3, <3>1, UnchangedCalls DEF Enter, callVars
      <3>2. CASE job # "ground"
        <4>1. Lookup(t, PromptOf[job][t]) /\ job' = job
          BY <2>3, <3>2 DEF Enter
        <4>2. QED
          BY <2>2, <3>2, <4>1, LookupFacts
      <3>3. QED
        BY <3>1, <3>2
    <2>4. CASE Call(t)
      BY <2>2, <2>4, CallStepFacts DEF Call
    <2>5. CASE Leave(t) \/ Search(t) \/ Score(t) \/ BeginReport(t) \/ EndReport(t)
      <3>1. UNCHANGED <<calls, entries, rows, clock, job>>
        BY <2>5 DEF Leave, Search, Score, BeginReport, EndReport, callVars
      <3>2. QED
        BY <3>1, UnchangedCalls
    <2>6. QED
      BY <2>1, <2>3, <2>4, <2>5 DEF Task
  <1>3. CASE Gather \/ Discover \/ TimeOut \/ Tick
    <2>1. UNCHANGED <<calls, entries, rows, clock, job>>
      BY <1>3 DEF Gather, Discover, TimeOut, Tick, Expire, callVars
    <2>2. QED
      BY <2>1, UnchangedCalls
  <1>4. QED
    BY <1>1, <1>2, <1>3 DEF Next

LEMMA InitHolds ==
    ASSUME Init
    PROVE  CallTypes /\ job \in Jobs /\ Aligned
  <1>1. /\ calls = [c \in Callers |-> NoCall] /\ rows = Earlier /\ clock = Len(Earlier)
        /\ entries = [i \in DOMAIN Earlier |->
                        [prompt |-> Earlier[i], answer |-> Earlier[i], at |-> i]]
        /\ Earlier \in Seq(Prompts)
    BY ModelCallsAssumption DEF Init, CallsInit
  <1>2. \A n \in Nat : \A f \in [1..n -> Entry] : f \in Seq(Entry) /\ Len(f) = n
    OBVIOUS
  <1>3. entries \in Seq(Entry) /\ Len(entries) = Len(Earlier)
    <2>1. Len(Earlier) \in Nat /\ entries \in [1..Len(Earlier) -> Entry]
      BY <1>1 DEF Entry
    <2>2. QED
      BY <1>2, <2>1
  <1>4. \A c \in Callers : SoundCall(calls[c]) /\ calls[c].stage = "idle"
    BY <1>1 DEF SoundCall, CallRecord, NoCall
  <1>5. CallTypes
    BY <1>1, <1>3, <1>4 DEF CallTypes
  <1>6. \A i \in 1..Len(Earlier) : rows[i] = entries[i].prompt /\ entries[i].answer = entries[i].prompt
    BY <1>1
  <1>7. Aligned
    BY <1>1, <1>3, <1>4, <1>6 DEF Aligned, CacheHolds, AnswersFit, RowsAreOfEntries
  <1>8. QED
    BY <1>5, <1>7 DEF Init

\* While every answer that is stored can be embedded, a call is answered with
\* what was said to its own prompt or a similar one, and the rows of the matrix
\* stay those of the entries (cache.py:61-195), for any number of callers and any
\* room in the cache.
THEOREM CacheAnswers ==
    ASSUME "put" \notin EmbeddingFails
    PROVE  Spec => []CacheHolds
  <1>1. Init => CallTypes /\ job \in Jobs /\ Aligned
    BY InitHolds
  <1>2. (CallTypes /\ job \in Jobs /\ Aligned) /\ [Next]_vars =>
           (CallTypes /\ job \in Jobs /\ Aligned)'
    BY NextKeepsCache
  <1>3. CallTypes /\ job \in Jobs /\ Aligned => CacheHolds
    BY DEF Aligned
  <1>4. QED
    BY <1>1, <1>2, <1>3, PTL DEF Spec

-----------------------------------------------------------------------------
(* The stages *)

NumberedOnce(s) ==
    /\ \A i \in DOMAIN s : s[i].count = i
    /\ IsInjective([i \in DOMAIN s |-> s[i].edge])

LEMMA NumberedFacts ==
    ASSUME NEW s \in Seq(Report),
           \A i \in 1..Len(s) : s[i].count = i,
           \A i, j \in 1..Len(s) : s[i].edge = s[j].edge => i = j
    PROVE  NumberedOnce(s)
  BY DEF NumberedOnce, IsInjective

\* While a stage runs, nothing is asked of what it returns.
LEMMA Running ==
    ASSUME StageTypes', Telling', results' = None
    PROVE  Stage'
  <1>1. NumberedOnce(told')
    BY NumberedFacts DEF StageTypes, Telling
  <1>2. ProgressCounts'
    BY <1>1 DEF ProgressCounts, NumberedOnce
  <1>3. ResultsAreOwn' /\ AdditionsAreNew'
    BY DEF ResultsAreOwn, AdditionsAreNew
  <1>4. QED
    BY <1>2, <1>3 DEF Stage, StageIsExact

\* A task that moves, and leaves something, while nothing is reported.
LEMMA Moving ==
    ASSUME StageTypes, Telling, NEW t \in Tasks, UNCHANGED <<job, lock, completed, told>>,
           DOMAIN pc' = Tasks, DOMAIN found' = Tasks,
           \A u \in Tasks : u # t => pc'[u] = pc[u] /\ found'[u] = found[u],
           Sound(job, t, pc'[t], found'[t]),
           pc[t] \notin {"reporting", "done", "failed"},
           job = "ground" => pc'[t] # "done"
    PROVE  StageTypes' /\ Telling'
  <1>1. Tasks' = Tasks
    BY DEF Tasks
  <1>2. StageTypes'
    BY <1>1 DEF StageTypes
  <1>3. \A i \in 1..Len(told) : told[i].edge # t
    BY DEF Telling
  <1>4. Telling'
    <2>1. ASSUME NEW i \in 1..Len(told)
          PROVE  \/ lock = told[i].edge /\ pc'[told[i].edge] = "reporting"
                 \/ pc'[told[i].edge] \in {"done", "failed"}
      BY <1>3 DEF Telling
    <2>2. job = "ground" => \A u \in Tasks : pc'[u] = "done" => \E i \in 1..Len(told) : told[i].edge = u
      BY DEF Telling
    <2>3. QED
      BY <1>1, <2>1, <2>2 DEF Telling
  <1>5. QED
    BY <1>2, <1>4

LEMMA EnterFacts ==
    ASSUME StageTypes, Telling, NEW t \in Tasks, Enter(t)
    PROVE  StageTypes' /\ Telling'
  <1>1. Sound(job, t, pc[t], found[t]) /\ pc[t] = "queued" /\ DOMAIN pc = Tasks /\ DOMAIN found = Tasks
    BY DEF StageTypes, Enter
  <1>2. /\ pc' = [pc EXCEPT ![t] = IF job = "ground" THEN "searching" ELSE "asking"]
        /\ UNCHANGED <<job, lock, completed, told, found>>
    BY DEF Enter, reports
  <1>3. Sound(job, t, pc'[t], found'[t])
    BY <1>1, <1>2 DEF Sound
  <1>4. QED
    BY <1>1, <1>2, <1>3, Moving

LEMMA SearchFacts ==
    ASSUME StageTypes, Telling, NEW t \in Tasks, Search(t)
    PROVE  StageTypes' /\ Telling'
  <1>1. /\ Sound(job, t, pc[t], found[t]) /\ pc[t] = "searching" /\ job = "ground"
        /\ DOMAIN pc = Tasks /\ DOMAIN found = Tasks
    BY DEF StageTypes, Search, Sound
  <1>2. PICK next \in {"scoring", "failed"} :
          pc' = [pc EXCEPT ![t] = next] /\ UNCHANGED <<job, lock, completed, told, found>>
    BY DEF Search, reports
  <1>3. Sound(job, t, pc'[t], found'[t])
    BY <1>1, <1>2 DEF Sound
  <1>4. QED
    BY <1>1, <1>2, <1>3, Moving

LEMMA ScoreFacts ==
    ASSUME StageTypes, Telling, NEW t \in Tasks, Score(t)
    PROVE  StageTypes' /\ Telling'
  <1>1. /\ Sound(job, t, pc[t], found[t]) /\ pc[t] = "scoring" /\ job = "ground"
        /\ DOMAIN pc = Tasks /\ DOMAIN found = Tasks /\ t \in Edges
    BY DEF StageTypes, Score, Sound, Tasks, TasksOf
  <1>2. PICK evidences \in 0..1 :
          /\ found' = [found EXCEPT ![t] = [of |-> t, evidences |-> evidences]]
          /\ pc' = [pc EXCEPT ![t] = "reporting"]
          /\ UNCHANGED <<job, lock, completed, told>>
    BY DEF Score, reports
  <1>3. found'[t] = [of |-> t, evidences |-> evidences] /\ found'[t] \in Outcome /\ found'[t].of = t
    BY <1>1, <1>2 DEF Outcome
  <1>4. Sound(job, t, pc'[t], found'[t])
    BY <1>1, <1>2, <1>3 DEF Sound
  <1>5. QED
    BY <1>1, <1>2, <1>4, Moving

\* What a call leaves in the place of its task.
LEMMA LeaveFacts ==
    ASSUME CallTypes, StageTypes, Telling, NEW t \in Tasks, Leave(t)
    PROVE  StageTypes' /\ Telling'
  <1>1. /\ Sound(job, t, pc[t], found[t]) /\ pc[t] = "asking" /\ job # "ground"
        /\ DOMAIN pc = Tasks /\ DOMAIN found = Tasks /\ UNCHANGED <<job, lock, completed, told>>
    BY DEF StageTypes, Leave, Audited, Rated, Discovered, Sound, reports
  <1>2. calls[t].stage \in {"answered", "failed"} /\ SoundCall(calls[t])
    BY TasksAreCallers DEF Leave, CallTypes, StageTypes
  <1>3. /\ Sound(job, t, pc'[t], found'[t])
        /\ DOMAIN pc' = Tasks /\ DOMAIN found' = Tasks
        /\ \A u \in Tasks : u # t => pc'[u] = pc[u] /\ found'[u] = found[u]
    <2>1. CASE Audited(t)
      <3>1. PICK strength : found' = [found EXCEPT ![t] =
                               [of |-> t, from |-> calls[t].answer, strength |-> strength]]
        BY <2>1 DEF Audited
      <3>2. pc' = [pc EXCEPT ![t] = "done"] /\ job = "audit"
        BY <2>1 DEF Audited
      <3>3. found'[t].of = t /\ pc'[t] = "done"
        BY <1>1, <3>1, <3>2
      <3>4. QED
        BY <1>1, <3>1, <3>2, <3>3 DEF Sound
    <2>2. CASE Rated(t)
      <3>1. CASE pc' = [pc EXCEPT ![t] = "failed"] /\ UNCHANGED found
        <4>1. pc'[t] = "failed" /\ job = "rescore"
          BY <1>1, <2>2, <3>1 DEF Rated
        <4>2. QED
          BY <1>1, <3>1, <4>1 DEF Sound
      <3>2. CASE /\ pc' = [pc EXCEPT ![t] = "done"]
                 /\ \E positions \in SUBSET DOMAIN Batches[t] :
                      found' = [found EXCEPT ![t] =
                        [i \in positions |-> [at |-> i, from |-> calls[t].answer]]]
        <4>1. PICK positions \in SUBSET DOMAIN Batches[t] :
                found' = [found EXCEPT ![t] =
                  [i \in positions |-> [at |-> i, from |-> calls[t].answer]]]
          BY <3>2
        <4>2. found'[t] = [i \in positions |-> [at |-> i, from |-> calls[t].answer]]
          BY <1>1, <4>1
        <4>3. \A i \in DOMAIN found'[t] : found'[t][i].at = i
          BY <4>2
        <4>4. pc'[t] = "done" /\ job = "rescore"
          BY <1>1, <2>2, <3>2 DEF Rated
        <4>5. Sound(job, t, pc'[t], found'[t])
          BY <4>3, <4>4 DEF Sound
        <4>6. QED
          BY <1>1, <3>2, <4>1, <4>5
      <3>3. QED
        BY <2>2, <3>1, <3>2 DEF Rated
    <2>3. CASE Discovered(t)
      <3>1. /\ job = "discover" /\ pc' = [pc EXCEPT ![t] = "done"]
            /\ found' = [found EXCEPT ![t] = IF calls[t].stage = "failed" THEN <<>>
                                             ELSE ClaimsIn[calls[t].answer]]
        BY <2>3 DEF Discovered
      <3>2. found'[t] \in Seq(Claims)
        <4>1. CASE calls[t].stage = "failed"
          BY <1>1, <3>1, <4>1
        <4>2. CASE calls[t].stage # "failed"
          <5>1. calls[t].answer \in Prompts
            BY <1>2, <4>2 DEF SoundCall
          <5>2. PICK p \in Prompts : p = calls[t].answer
            BY <5>1
          <5>3. ClaimsIn[p] \in Seq(ToSet(ClaimsIn[p])) /\ ToSet(ClaimsIn[p]) \subseteq Claims
            BY <5>2, FanOutAssumption DEF Claims
          <5>4. ClaimsIn[p] \in Seq(Claims)
            BY <5>3, SeqMonotonic
          <5>5. QED
            BY <1>1, <3>1, <4>2, <5>2, <5>4
        <4>3. QED
          BY <4>1, <4>2
      <3>3. pc'[t] = "done"
        BY <1>1, <3>1
      <3>4. QED
        BY <1>1, <3>1, <3>2, <3>3 DEF Sound
    <2>4. QED
      BY <2>1, <2>2, <2>3 DEF Leave
  <1>4. QED
    BY <1>1, <1>3, Moving

\* A task that begins its report is told of for the first time.
LEMMA BeginFacts ==
    ASSUME StageTypes, Telling, NEW t \in Tasks, BeginReport(t)
    PROVE  StageTypes' /\ Telling'
  <1> DEFINE e == [count |-> completed + 1, edge |-> t]
             n == Len(told)
  <1>1. /\ job = "ground" /\ pc[t] = "reporting" /\ lock = None /\ lock' = t
        /\ completed' = completed + 1 /\ told' = Append(told, e)
        /\ UNCHANGED <<job, pc, found>> /\ Tasks' = Tasks
    BY DEF BeginReport, Tell, StageTypes, Sound, Tasks
  <1>2. t \in Edges /\ t # None
    BY <1>1, FanOutAssumption DEF Tasks, TasksOf
  <1>3. /\ n \in Nat /\ completed = n /\ told \in Seq(Report)
        /\ e \in Report
    BY <1>2 DEF StageTypes, Telling, Report
  <1> HIDE DEF e
  <1>4. /\ told' \in Seq(Report) /\ Len(told') = n + 1
        /\ told'[n + 1] = e /\ \A i \in 1..n : told'[i] = told[i]
    BY <1>1, <1>3, AppendProperties
  <1>5. e.count = n + 1 /\ e.edge = t
    BY <1>3 DEF e, Report
  <1>6. StageTypes'
    BY <1>1, <1>3, <1>4 DEF StageTypes
  <1>7. \A i \in 1..(n + 1) : i # n + 1 => i \in 1..n
    BY <1>3
  <1>8. \A i \in 1..n : told[i].edge # t
    BY <1>1, <1>2 DEF Telling
  <1>9. Telling'
    <2>1. ASSUME NEW i \in 1..(n + 1)
          PROVE  /\ told'[i].count = i /\ told'[i].edge \in Tasks
                 /\ \/ lock' = told'[i].edge /\ pc[told'[i].edge] = "reporting"
                    \/ pc[told'[i].edge] \in {"done", "failed"}
      <3>1. CASE i = n + 1
        BY <1>1, <1>4, <1>5, <3>1
      <3>2. CASE i # n + 1
        <4>1. i \in 1..n /\ told'[i] = told[i]
          BY <1>4, <1>7, <3>2
        <4>2. told[i].edge \in Tasks /\ told[i].edge # None
          BY <1>1, <4>1, FanOutAssumption DEF Telling, Tasks, TasksOf
        <4>3. QED
          BY <1>1, <4>1, <4>2 DEF Telling
      <3>3. QED
        BY <3>1, <3>2
    <2>2. ASSUME NEW i \in 1..(n + 1), NEW j \in 1..(n + 1), told'[i].edge = told'[j].edge
          PROVE  i = j
      <3>1. CASE i \in 1..n /\ j \in 1..n
        BY <1>4, <2>2, <3>1 DEF Telling
      <3>2. CASE i = n + 1 /\ j \in 1..n
        BY <1>4, <1>5, <1>8, <2>2, <3>2
      <3>3. CASE i \in 1..n /\ j = n + 1
        BY <1>4, <1>5, <1>8, <2>2, <3>3
      <3>4. QED
        BY <1>7, <3>1, <3>2, <3>3
    <2>3. n + 1 \in 1..(n + 1) /\ told'[n + 1].edge = t /\ \A i \in 1..n : i \in 1..(n + 1)
      BY <1>3, <1>4, <1>5
    <2>4. ASSUME NEW u \in Tasks, pc[u] = "done"
          PROVE  \E i \in 1..(n + 1) : told'[i].edge = u
      <3>1. PICK i \in 1..n : told[i].edge = u
        BY <1>1, <2>4 DEF Telling
      <3>2. QED
        BY <1>4, <2>3, <3>1
    <2>5. QED
      BY <1>1, <1>3, <1>4, <2>1, <2>2, <2>3, <2>4 DEF Telling
  <1>10. QED
    BY <1>6, <1>9

\* A report that ends, well or not, leaves its edge told of.
LEMMA EndFacts ==
    ASSUME StageTypes, Telling, NEW t \in Tasks, EndReport(t)
    PROVE  StageTypes' /\ Telling'
  <1>1. /\ lock = t /\ pc[t] = "reporting" /\ lock' = None /\ job = "ground"
        /\ UNCHANGED <<job, completed, told>> /\ Tasks' = Tasks
        /\ Sound(job, t, pc[t], found[t]) /\ DOMAIN pc = Tasks /\ DOMAIN found = Tasks
    BY DEF EndReport, StageTypes, Sound, Tasks
  <1>2. t # None
    BY <1>1, FanOutAssumption DEF Tasks, TasksOf
  <1>3. /\ pc'[t] \in {"done", "failed"} /\ DOMAIN pc' = Tasks /\ DOMAIN found' = Tasks
        /\ \A u \in Tasks : u # t => pc'[u] = pc[u] /\ found'[u] = found[u]
        /\ found'[t] = None \/ found'[t] = found[t]
    <2>1. CASE pc' = [pc EXCEPT ![t] = "done"] /\ UNCHANGED found
      BY <1>1, <2>1
    <2>2. CASE pc' = [pc EXCEPT ![t] = "failed"] /\ found' = [found EXCEPT ![t] = None]
      BY <1>1, <2>2
    <2>3. QED
      BY <2>1, <2>2 DEF EndReport
  <1>4. Sound(job, t, pc'[t], found'[t])
    BY <1>1, <1>3 DEF Sound
  <1>5. StageTypes'
    BY <1>1, <1>3, <1>4 DEF StageTypes
  <1>6. PICK k \in 1..Len(told) : told[k].edge = t
    BY <1>1, <1>2 DEF Telling
  <1>7. Telling'
    <2>1. ASSUME NEW i \in 1..Len(told) PROVE pc'[told[i].edge] \in {"done", "failed"}
      <3>1. CASE told[i].edge = t
        BY <1>3, <3>1
      <3>2. CASE told[i].edge # t
        BY <1>1, <1>3, <3>2 DEF Telling
      <3>3. QED
        BY <3>1, <3>2
    <2>2. \A u \in Tasks : pc'[u] = "done" => \E i \in 1..Len(told) : told[i].edge = u
      BY <1>1, <1>3, <1>6 DEF Telling
    <2>3. QED
      BY <1>1, <2>1, <2>2 DEF Telling
  <1>8. QED
    BY <1>5, <1>7

LEMMA TellingIsNumbered ==
    ASSUME StageTypes, Telling
    PROVE  NumberedOnce(told)
  BY NumberedFacts DEF StageTypes, Telling

LEMMA TimeOutFacts ==
    ASSUME StageTypes, Telling, TimeOut
    PROVE  Stage'
  <1>1. /\ job = "ground" /\ lock' = None /\ UNCHANGED <<job, pc, completed, told, found>>
        /\ results' = [e \in Edges |-> [of |-> e, evidences |-> None]] /\ Tasks' = Tasks
    BY DEF TimeOut, Tasks
  <1>2. results' \in [Edges -> [of : Edges, evidences : {0, 1, None}]]
    BY <1>1
  <1>3. results' # None
    BY <1>2, FanOutAssumption
  <1>4. StageTypes'
    BY <1>1 DEF StageTypes
  <1>5. ProgressCounts'
    BY <1>1, TellingIsNumbered DEF ProgressCounts, NumberedOnce
  <1>6. ResultsAreOwn' /\ AdditionsAreNew'
    BY <1>1 DEF ResultsAreOwn, AdditionsAreNew
  <1>7. QED
    BY <1>3, <1>4, <1>5, <1>6 DEF Stage, StageIsExact

\* A stage that asks ends without a report.
LEMMA AskedStageFacts ==
    ASSUME StageTypes, Telling, job \in {"audit", "rescore"}, Gather
    PROVE  Stage'
  <1>1. /\ UNCHANGED <<job, pc, lock, completed, told, found>> /\ Tasks' = Tasks
        /\ \A t \in Tasks : Ended(t)
        /\ told = <<>>
        /\ results' = IF job = "audit" THEN [e \in Edges |-> found[e]] ELSE Rescored
    BY DEF Gather, Tasks, Telling
  <1>2. StageTypes' /\ Telling'
    BY <1>1 DEF StageTypes, Telling
  <1>3. ProgressCounts' /\ AdditionsAreNew'
    BY <1>1, TellingIsNumbered DEF ProgressCounts, NumberedOnce, AdditionsAreNew
  <1>4. ResultsAreOwn'
    <2>1. CASE job = "audit"
      <3>1. ASSUME NEW e \in Edges PROVE results'[e].of = e
        <4>1. e \in Tasks /\ pc[e] \in {"done", "failed"} /\ results'[e] = found[e]
          BY <1>1, <2>1 DEF Tasks, TasksOf, Ended
        <4>2. Sound(job, e, pc[e], found[e])
          BY <4>1 DEF StageTypes
        <4>3. QED
          BY <2>1, <4>1, <4>2 DEF Sound
      <3>2. QED
        BY <1>1, <2>1, <3>1 DEF ResultsAreOwn
    <2>2. CASE job = "rescore"
      <3>1. ASSUME NEW e \in Edges, results'[e] # None
            PROVE  Batches[results'[e].batch][results'[e].at] = e
        <4> DEFINE rated == {r \in (DOMAIN Batches) \X Edges :
                              /\ r[2] \in DOMAIN Batches[r[1]] /\ Batches[r[1]][r[2]] = e
                              /\ found[r[1]] # None /\ r[2] \in DOMAIN found[r[1]]}
                   r == CHOOSE r \in rated : TRUE
        <4>1. results'[e] = IF rated = {} THEN None
                            ELSE [batch |-> r[1], at |-> found[r[1]][r[2]].at, from |-> found[r[1]][r[2]].from]
          BY <1>1, <2>2 DEF Rescored
        <4>2. rated # {}
          BY <3>1, <4>1
        <4> HIDE DEF rated
        <4>3. r \in rated
          BY <4>2
        <4> DEFINE out == [batch |-> r[1], at |-> found[r[1]][r[2]].at, from |-> found[r[1]][r[2]].from]
        <4>4. results'[e] = out
          BY <4>1, <4>2
        <4> HIDE DEF r
        <4>6. out.batch = r[1] /\ out.at = found[r[1]][r[2]].at
          OBVIOUS
        <4> HIDE DEF out
        <4>7. results'[e].batch = r[1] /\ results'[e].at = found[r[1]][r[2]].at
          BY <4>4, <4>6
        <4>8. /\ r[1] \in DOMAIN Batches /\ Batches[r[1]][r[2]] = e
              /\ found[r[1]] # None /\ r[2] \in DOMAIN found[r[1]]
          BY <4>3 DEF rated
        <4>9. r[1] \in Tasks
          BY <2>2, <4>8 DEF Tasks, TasksOf
        <4>5. found[r[1]][r[2]].at = r[2]
          BY <2>2, <4>8, <4>9 DEF StageTypes, Sound
        <4>10. QED
          BY <4>5, <4>7, <4>8
      <3>2. QED
        BY <1>1, <2>2, <3>1 DEF ResultsAreOwn
    <2>3. QED
      BY <2>1, <2>2
  <1>5. QED
    BY <1>2, <1>3, <1>4 DEF Stage, StageIsExact

\* A grounding ends with a result for each edge, and tells of the weak ones.
LEMMA GroundedFacts ==
    ASSUME StageTypes, Telling, job = "ground", Gather
    PROVE  Stage'
  <1> DEFINE s == InOrder(Weak)
             k == Cardinality(Weak)
             n == Len(told)
             more == [i \in DOMAIN s |-> [count |-> completed + i, edge |-> s[i]]]
  <1>1. /\ UNCHANGED <<job, pc, lock, found>> /\ Tasks' = Tasks /\ Tasks = Edges \ Weak
        /\ \A t \in Tasks : Ended(t)
        /\ results' = Grounded
        /\ completed' = completed + Len(s) /\ told' = told \o more
    BY DEF Gather, Tasks, TasksOf
  <1>2. /\ k \in Nat /\ s \in [1..k -> Weak] /\ \A i, j \in 1..k : i < j => s[i] < s[j]
        /\ \A e \in Weak : \E i \in 1..k : s[i] = e
    <2>1. Cardinality(Edges) \in Nat /\ Weak \subseteq 1..Cardinality(Edges)
      BY FanOutAssumption, FS_CardinalityType
    <2>2. k \in Nat /\ Lists(s, k, Weak)
      BY <2>1, InOrderFacts
    <2>3. QED
      BY <2>2 DEF Lists
  <1>3. /\ n \in Nat /\ completed = n /\ told \in Seq(Report)
        /\ Weak \subseteq Edges /\ Weak \cap Tasks = {} /\ \A e \in Edges : e \in Int
    <2>1. Edges = 1..Cardinality(Edges) /\ Cardinality(Edges) \in Nat
      BY FanOutAssumption, FS_CardinalityType
    <2>2. \A e \in Edges : e \in Int
      BY <2>1
    <2>3. QED
      BY <1>1, <2>2, FanOutAssumption DEF StageTypes, Telling
  <1> HIDE DEF s, k, n
  <1>4. DOMAIN s = 1..k
    BY <1>2
  <1>5. /\ more \in Seq(Report) /\ Len(more) = k
        /\ \A i \in 1..k : more[i].count = n + i /\ more[i].edge = s[i]
    <2>1. \A i \in 1..k : [count |-> completed + i, edge |-> s[i]] \in Report
      <3>1. \A i \in 1..k : completed + i \in Nat /\ s[i] \in Edges
        BY <1>2, <1>3
      <3>2. QED
        BY <3>1 DEF Report
    <2>2. more \in [1..k -> Report]
      BY <1>4, <2>1
    <2>3. \A i \in 1..k : more[i] = [count |-> completed + i, edge |-> s[i]]
      BY <1>4
    <2> HIDE DEF more
    <2>4. more \in Seq(Report) /\ Len(more) = k
      BY <1>2, <2>2, FunctionsAreSequences
    <2>5. QED
      BY <1>3, <2>3, <2>4
  <1> HIDE DEF more
  <1>6. Len(s) \in Nat
    BY <1>2, <1>4
  <1>7. /\ told' \in Seq(Report) /\ Len(told') = n + k
        /\ \A i \in 1..n : told'[i] = told[i]
        /\ \A i \in 1..k : told'[n + i] = more[i]
    <2>1. /\ told' \in Seq(Report) /\ Len(told') = n + k
          /\ \A i \in 1..(n + k) : told'[i] = IF i <= n THEN told[i] ELSE more[i - n]
      BY <1>1, <1>3, <1>5, ConcatProperties DEF n
    <2>2. \A i \in 1..n : i \in 1..(n + k) /\ i <= n
      BY <1>2, <1>3
    <2>3. ASSUME NEW i \in 1..k PROVE told'[n + i] = more[i]
      <3>1. n + i \in 1..(n + k) /\ ~(n + i <= n) /\ (n + i) - n = i
        BY <1>2, <1>3
      <3>2. QED
        BY <2>1, <3>1
    <2>4. QED
      BY <2>1, <2>2, <2>3
  <1>8. ASSUME NEW i \in 1..(n + k)
        PROVE  i \in 1..n \/ \E j \in 1..k : i = n + j
    <2>1. CASE i <= n
      BY <1>3, <2>1
    <2>2. CASE ~(i <= n)
      <3>1. i - n \in 1..k /\ i = n + (i - n)
        BY <1>2, <1>3, <2>2
      <3>2. QED
        BY <3>1
    <2>3. QED
      BY <2>1, <2>2
  <1>9. ASSUME NEW i \in 1..(n + k)
        PROVE  told'[i].count = i
    <2>1. CASE i \in 1..n
      <3>1. told'[i] = told[i] /\ told[i].count = i
        BY <1>7, <2>1 DEF Telling, n
      <3>2. QED
        BY <3>1
    <2>2. CASE \E j \in 1..k : i = n + j
      <3>1. PICK j \in 1..k : i = n + j
        BY <2>2
      <3>2. told'[n + j] = more[j] /\ more[j].count = n + j
        BY <1>5, <1>7, <3>1
      <3>3. QED
        BY <3>1, <3>2
    <2>3. QED
      BY <1>8, <2>1, <2>2
  <1>10. ASSUME NEW i \in 1..(n + k), NEW j \in 1..(n + k), told'[i].edge = told'[j].edge
         PROVE  i = j
    <2>1. \A x \in 1..n : told'[x].edge \in Tasks
      BY <1>7 DEF Telling, n
    <2>2. \A y \in 1..k : told'[n + y].edge = s[y] /\ s[y] \in Weak
      BY <1>2, <1>5, <1>7
    <2>3. CASE i \in 1..n /\ j \in 1..n
      BY <1>7, <1>10, <2>3 DEF Telling, n
    <2>4. CASE (i \in 1..n /\ \E y \in 1..k : j = n + y) \/ (j \in 1..n /\ \E y \in 1..k : i = n + y)
      <3>1. told'[i].edge \in Weak \cap Tasks
        BY <1>10, <2>1, <2>2, <2>4
      <3>2. QED
        BY <1>3, <3>1
    <2>5. CASE (\E x \in 1..k : i = n + x) /\ (\E y \in 1..k : j = n + y)
      <3>1. PICK x \in 1..k : i = n + x
        BY <2>5
      <3>2. PICK y \in 1..k : j = n + y
        BY <2>5
      <3>3. s[x] = s[y] /\ s[x] \in Int /\ s[y] \in Int
        BY <1>2, <1>3, <1>10, <2>2, <3>1, <3>2
      <3>4. ~(x < y) /\ ~(y < x)
        BY <1>2, <3>3
      <3>5. x = y
        BY <1>2, <3>4
      <3>6. QED
        BY <3>1, <3>2, <3>5
    <2>6. QED
      BY <1>8, <2>3, <2>4, <2>5
  <1>11. NumberedOnce(told')
    BY <1>7, <1>9, <1>10, NumberedFacts
  <1>12. StageTypes'
    BY <1>1, <1>3, <1>6, <1>7 DEF StageTypes
  <1>13. results' \in [Edges -> Outcome] /\ \A e \in Edges : results'[e].of = e
    <2>1. \A e \in Edges : [of |-> e, evidences |-> 0] \in Outcome
      BY DEF Outcome
    <2>2. \A e \in Edges : e \notin Weak /\ found[e] # None => found[e] \in Outcome /\ found[e].of = e
      BY <1>1 DEF StageTypes, Sound
    <2>3. QED
      BY <1>1, <2>1, <2>2 DEF Grounded
  <1>14. results' # None
    <2>1. Outcome \subseteq [of : Edges, evidences : {0, 1, None}]
      BY DEF Outcome
    <2>2. results' \in [Edges -> [of : Edges, evidences : {0, 1, None}]]
      BY <1>13, <2>1
    <2>3. QED
      BY <2>2, FanOutAssumption
  <1>15. ASSUME NEW e \in Edges
         PROVE  \/ e \in Tasks /\ pc[e] = "failed"
                \/ \E i \in 1..(n + k) : told'[i].edge = e
    <2>1. CASE e \in Weak
      <3>1. PICK i \in 1..k : s[i] = e
        BY <1>2, <2>1
      <3>2. told'[n + i] = more[i] /\ more[i].edge = s[i]
        BY <1>5, <1>7, <3>1
      <3>3. PICK j \in 1..(n + k) : j = n + i
        BY <1>2, <1>3, <3>1
      <3>4. told'[j].edge = e
        BY <3>1, <3>2, <3>3
      <3>5. QED
        BY <3>4
    <2>2. CASE e \in Tasks
      <3>1. pc[e] = "failed" \/ \E i \in 1..n : told[i].edge = e
        BY <1>1, <2>2 DEF Ended, Telling, n
      <3>2. \A i \in 1..n : i \in 1..(n + k) /\ told'[i] = told[i]
        BY <1>2, <1>3, <1>7
      <3>3. QED
        BY <2>2, <3>1, <3>2
    <2>3. QED
      BY <1>1, <2>1, <2>2
  <1>16. ProgressCounts'
    <2>1. DOMAIN told' = 1..(n + k)
      BY <1>7
    <2>2. ASSUME NEW e \in Edges
          PROVE  \/ results'[e].evidences = None
                 \/ e \in Tasks' /\ pc'[e] = "failed"
                 \/ \E i \in DOMAIN told' : told'[i].edge = e
      BY <1>1, <1>15, <2>1
    <2>3. QED
      BY <1>11, <2>2 DEF ProgressCounts, NumberedOnce
  <1>17. ResultsAreOwn' /\ AdditionsAreNew'
    BY <1>1, <1>13 DEF ResultsAreOwn, AdditionsAreNew
  <1>18. QED
    BY <1>12, <1>14, <1>16, <1>17 DEF Stage, StageIsExact

Apart(left, claims) ==
    /\ ToSet(left) \subseteq ToSet(claims)
    /\ \A i \in DOMAIN left :
         ~SaysTheSame(left[i], Known \cup {left[j] : j \in DOMAIN left \ {i}})

\* What is left of claims none of which says the same is in the order of the
\* claims, and none of it says the same.
LEMMA KeptFacts ==
    ASSUME NEW S, NEW claims \in Seq(S), Unlike(claims), NEW unknown
    PROVE  Apart(Picked(claims, {i \in DOMAIN claims : claims[i] \notin unknown}), claims)
  <1> DEFINE idx == {i \in DOMAIN claims : claims[i] \notin unknown}
             left == Picked(claims, idx)
             m == Cardinality(idx)
  <1>1. /\ Len(claims) \in Nat /\ idx \subseteq 1..Len(claims)
        /\ \A x \in idx : x \in DOMAIN claims /\ x \in Int
    OBVIOUS
  <1>2. idx \subseteq DOMAIN claims
    OBVIOUS
  <1> HIDE DEF idx
  <1>3. /\ left \in Seq(S) /\ Len(left) = m
        /\ \E kept : Lists(kept, m, idx) /\ \A n \in 1..m : left[n] = claims[kept[n]]
    BY <1>2, PickedFacts
  <1>4. PICK kept : Lists(kept, m, idx) /\ \A n \in 1..m : left[n] = claims[kept[n]]
    BY <1>3
  <1>5. m \in Nat
    BY <1>1, InOrderFacts
  <1> HIDE DEF m, left
  <1>6. DOMAIN left = 1..m
    BY <1>3
  <1>7. \A i \in 1..m : kept[i] \in DOMAIN claims /\ kept[i] \in Int
    BY <1>1, <1>4 DEF Lists
  <1>8. ASSUME NEW i \in 1..m, NEW j \in 1..m, i # j
        PROVE  kept[i] # kept[j]
    <2>1. kept[i] \in Int /\ kept[j] \in Int
      BY <1>7
    <2>2. i < j \/ j < i
      BY <1>5, <1>8
    <2>3. kept[i] < kept[j] \/ kept[j] < kept[i]
      BY <1>4, <2>2 DEF Lists
    <2>4. QED
      BY <2>1, <2>3
  <1>9. ASSUME NEW i \in 1..m
        PROVE  ~SaysTheSame(left[i], Known \cup {left[j] : j \in (1..m) \ {i}})
    <2>1. ~SaysTheSame(left[i], Known)
      BY <1>4, <1>7 DEF Unlike
    <2>2. \A j \in (1..m) \ {i} : ~SaysTheSame(left[i], {left[j]})
      BY <1>4, <1>7, <1>8 DEF Unlike
    <2>3. SUFFICES ASSUME NEW k \in Known \cup {left[j] : j \in (1..m) \ {i}},
                          left[i] = k \/ {<<left[i], k>>, <<k, left[i]>>} \cap Alike # {}
                   PROVE  FALSE
      BY DEF SaysTheSame
    <2>4. CASE k \in Known
      BY <2>1, <2>3, <2>4 DEF SaysTheSame
    <2>5. CASE \E j \in (1..m) \ {i} : k = left[j]
      <3>1. PICK j \in (1..m) \ {i} : k = left[j]
        BY <2>5
      <3>2. k \in {left[j]}
        BY <3>1
      <3>3. QED
        BY <2>2, <2>3, <3>2 DEF SaysTheSame
    <2>6. QED
      BY <2>4, <2>5
  <1>10. ToSet(left) \subseteq ToSet(claims)
    BY <1>4, <1>6, <1>7 DEF ToSet
  <1>11. Apart(left, claims)
    BY <1>6, <1>9, <1>10 DEF Apart
  <1>12. QED
    BY <1>11 DEF left, idx

LEMMA DiscoverFacts ==
    ASSUME StageTypes, Telling, Discover
    PROVE  Stage'
  <1>1. /\ job = "discover" /\ UNCHANGED <<job, pc, lock, completed, told, found>> /\ Tasks' = Tasks
        /\ Raw' = Raw
    BY DEF Discover, reports, Tasks, Raw
  <1>2. StageTypes' /\ Telling'
    BY <1>1 DEF StageTypes, Telling
  <1>3. ProgressCounts' /\ ResultsAreOwn'
    BY <1>1, TellingIsNumbered DEF ProgressCounts, NumberedOnce, ResultsAreOwn
  <1>4. Raw \in Seq(Claims)
    <2> DEFINE batches == (Cardinality(Edges \ Weak) + PerBatch - 1) \div PerBatch
               seqs == [t \in Tasks |-> found[t]]
    <2>1. \A t \in Tasks : found[t] \in Seq(Claims)
      BY <1>1 DEF Discover, Ended, StageTypes, Sound
    <2>2. Tasks = 1..batches
      BY <1>1 DEF Tasks, TasksOf
    <2>3. batches \in Int
      <3>1. IsFiniteSet(Edges \ Weak)
        BY FanOutAssumption, FS_Difference
      <3>2. Cardinality(Edges \ Weak) \in Nat /\ PerBatch \in Nat /\ PerBatch > 0
        BY <3>1, FanOutAssumption, FS_CardinalityType
      <3>3. QED
        BY <3>2
    <2>4. PICK n \in Nat : Tasks = 1..n
      <3> HIDE DEF batches
      <3>1. CASE batches \in Nat
        BY <2>2, <3>1
      <3>2. CASE batches \notin Nat
        <4>1. 1..batches = 1..0
          BY <2>3, <3>2
        <4>2. QED
          BY <2>2, <4>1
      <3>3. QED
        BY <3>1, <3>2
    <2>6. seqs \in [1..n -> Seq(Claims)]
      BY <2>1, <2>4
    <2>7. seqs \in Seq(Seq(Claims))
      <3> HIDE DEF seqs
      <3>1. QED
        BY <2>6, FunctionsAreSequences
    <2>8. Raw = FlattenSeq(seqs)
      BY DEF Raw
    <2>9. QED
      BY <2>7, <2>8, FlattenFacts
  <1>5. PICK claims \in {<<>>, NewAmong(Raw)}, unknown \in SUBSET ToSet(Raw) :
          results' = Picked(claims, {i \in DOMAIN claims : claims[i] \notin unknown})
    BY DEF Discover
  <1>6. claims \in Seq(ToSet(Raw)) /\ Unlike(claims)
    <2>1. CASE claims = <<>>
      BY <2>1 DEF Unlike
    <2>2. CASE claims = NewAmong(Raw)
      BY <1>4, <2>2, NewAmongFacts
    <2>3. QED
      BY <1>5, <2>1, <2>2
  <1>7. Apart(results', claims)
    BY <1>5, <1>6, KeptFacts
  <1>8. ToSet(claims) \subseteq ToSet(Raw)
    BY <1>6 DEF ToSet
  <1>9. AdditionsAreNew'
    <2>1. ToSet(results)' = ToSet(results') /\ ToSet(Raw)' = ToSet(Raw)
      BY <1>1 DEF ToSet
    <2>2. QED
      BY <1>7, <1>8, <2>1 DEF AdditionsAreNew, Apart, SaysTheSame
  <1>10. QED
    BY <1>2, <1>3, <1>9 DEF Stage, StageIsExact

LEMMA StageStarts ==
    ASSUME Init
    PROVE  Stage
  <1>1. /\ job \in Jobs /\ lock = None /\ completed = 0 /\ told = <<>> /\ results = None
        /\ pc = [t \in Tasks |-> "queued"] /\ found = [t \in Tasks |-> None]
    BY DEF Init
  <1>2. \A t \in Tasks : Sound(job, t, pc[t], found[t])
    <2>1. ASSUME NEW t \in Tasks PROVE Sound(job, t, pc[t], found[t])
      <3>1. pc[t] = "queued" /\ found[t] = None
        BY <1>1
      <3>2. QED
        BY <1>1, <3>1 DEF Sound
    <2>2. QED
      BY <2>1
  <1>3. StageTypes
    BY <1>1, <1>2 DEF StageTypes
  <1>4. Telling
    BY <1>1 DEF Telling
  <1>5. StageIsExact
    BY <1>1 DEF StageIsExact, ProgressCounts, ResultsAreOwn, AdditionsAreNew, IsInjective
  <1>6. QED
    BY <1>3, <1>4, <1>5 DEF Stage

LEMMA UnchangedStage ==
    ASSUME Stage, UNCHANGED <<job, pc, reports, found, results>>
    PROVE  Stage'
  <1>1. Tasks' = Tasks /\ Raw' = Raw
    BY DEF Tasks, Raw
  <1>2. StageTypes' /\ (results' = None => Telling')
    BY <1>1 DEF Stage, StageTypes, Telling, reports
  <1>3. ProgressCounts'
    BY <1>1 DEF Stage, StageIsExact, ProgressCounts, reports
  <1>4. ResultsAreOwn' /\ AdditionsAreNew'
    BY <1>1 DEF Stage, StageIsExact, ResultsAreOwn, AdditionsAreNew, ToSet
  <1>5. QED
    BY <1>2, <1>3, <1>4 DEF Stage, StageIsExact

\* Every step of a stage keeps it exact.
LEMMA NextKeepsStage ==
    ASSUME CallTypes, Stage, [Next]_vars
    PROVE  Stage'
  <1>1. CASE UNCHANGED vars
    BY <1>1, UnchangedStage DEF vars, reports
  <1>2. CASE \E t \in Tasks : Task(t)
    <2>1. PICK t \in Tasks : Task(t)
      BY <1>2
    <2>2. StageTypes
      BY DEF Stage
    <2>3. CASE Call(t)
      BY <2>3, UnchangedStage DEF Call
    <2>4. CASE Enter(t) \/ Leave(t) \/ Search(t) \/ Score(t) \/ BeginReport(t) \/ EndReport(t)
      <3>1. results = None /\ results' = None
        BY <2>4 DEF Enter, Leave, Search, Score, BeginReport, EndReport
      <3>2. Telling
        BY <3>1 DEF Stage
      <3>3. StageTypes' /\ Telling'
        BY <2>2, <2>4, <3>2, EnterFacts, LeaveFacts, SearchFacts, ScoreFacts, BeginFacts, EndFacts
      <3>4. QED
        BY <3>1, <3>3, Running
    <2>5. QED
      BY <2>1, <2>3, <2>4 DEF Task
  <1>3. CASE Tick
    BY <1>3, UnchangedStage DEF Tick
  <1>4. CASE TimeOut
    BY <1>4, TimeOutFacts DEF Stage, TimeOut
  <1>5. CASE Discover
    BY <1>5, DiscoverFacts DEF Stage, Discover
  <1>6. CASE Gather
    <2>1. job \in {"audit", "rescore", "ground"} /\ StageTypes /\ Telling
      BY <1>6, FanOutAssumption DEF Stage, StageTypes, Gather
    <2>2. QED
      BY <1>6, <2>1, AskedStageFacts, GroundedFacts
  <1>7. QED
    BY <1>1, <1>2, <1>3, <1>4, <1>5, <1>6 DEF Next

\* A stage tells of every edge once, numbering them without a gap, returns for
\* each edge what was found or judged for that edge, and adds only claims that
\* some answer contained and no other claim repeats, in whatever order its tasks
\* end and whichever fail (evidence_grounder.py:118-162, bias_auditor.py:62-73,
\* blind_rescorer.py:88-104, discovery.py:104-168), for any number of edges, any
\* room under the semaphore and any batches.
THEOREM StageReturns == Spec => []StageIsExact
  <1>1. Init => CallTypes /\ job \in Jobs /\ Stage
    BY InitHolds, StageStarts
  <1>2. (CallTypes /\ job \in Jobs /\ Stage) /\ [Next]_vars => (CallTypes /\ job \in Jobs /\ Stage)'
    BY NextKeepsCache, NextKeepsStage
  <1>3. CallTypes /\ job \in Jobs /\ Stage => StageIsExact
    BY DEF Stage
  <1>4. QED
    BY <1>1, <1>2, <1>3, PTL DEF Spec

=============================================================================
