--------------------------- MODULE ClaimRowsProofs --------------------------
(***************************************************************************)
(* For any facts, any likeness of them and any number of claims: the types *)
(* of claims and rows, that the merges are exact, that rows and memory     *)
(* stay in step, and that a resumed run reads what the first one had.      *)
(*                                                                         *)
(* The first parts say what the model's operators give: an order that is   *)
(* followed (ArrangedFacts), what is kept when each is compared with what  *)
(* was kept before it (FirstsFacts), and, from these, the two merges       *)
(* (MergedFacts).  The last is about the run.  That the update finds the   *)
(* row of a claim at the claim's index needs that rows were saved in order *)
(* (Fresh), with an index that is their place (Saved), and that a merge    *)
(* changes neither the text nor the index of what it keeps (Placed).  That *)
(* a resume reads them alike needs that ids grow with the claims (InTurn). *)
(***************************************************************************)
EXTENDS ClaimRows, IndicesProofs

-----------------------------------------------------------------------------
(* Putting a list in an order *)

\* A strict order of the first n numbers.
Strict(n, before) ==
    /\ \A i, j \in 1..n : i # j => <<i, j>> \in before \/ <<j, i>> \in before
    /\ \A i, j \in 1..n : <<i, j>> \in before => <<j, i>> \notin before
    /\ \A i, j, k \in 1..n : <<i, j>> \in before /\ <<j, k>> \in before => <<i, k>> \in before

Orders(s, m, before) ==
    /\ s \in [1..m -> 1..m]
    /\ \A e \in 1..m : \E i \in 1..m : s[i] = e
    /\ \A i, j \in 1..m : i < j => s[i] # s[j] /\ <<s[j], s[i]>> \notin before

Orderable(m, before) == \E s : Orders(s, m, before)

\* Where a further number goes: after those that come before it.
LEMMA PlaceOfNext ==
    ASSUME NEW n \in Nat, NEW before, Strict(n, before), NEW m \in Nat, m < n,
           NEW s, Orders(s, m, before)
    PROVE  \E k \in 0..m : /\ \A i \in 1..m : i <= k => <<m + 1, s[i]>> \notin before
                           /\ \A i \in 1..m : i > k => <<s[i], m + 1>> \notin before
  <1> DEFINE low == {i \in 1..m : <<s[i], m + 1>> \in before}
  <1>1. \A i \in 1..m : s[i] \in 1..m /\ s[i] \in 1..n /\ s[i] # m + 1
    BY DEF Orders
  <1>2. m + 1 \in 1..n
    OBVIOUS
  <1>3. CASE low = {}
    <2>1. \A i \in 1..m : <<s[i], m + 1>> \notin before
      BY <1>3
    <2>2. 0 \in 0..m /\ \A i \in 1..m : ~(i <= 0)
      OBVIOUS
    <2>3. QED
      BY <2>1, <2>2
  <1>4. CASE low # {}
    <2>1. low \subseteq Nat /\ \A i \in low : i <= m
      OBVIOUS
    <2>2. PICK k \in low : \A i \in low : i <= k
      <3> HIDE DEF low
      <3>1. Max(low) \in low /\ \A i \in low : i <= Max(low)
        BY <1>4, <2>1, MaxFacts
      <3>2. QED
        BY <3>1
    <2>3. k \in 1..m /\ k \in 0..m /\ <<s[k], m + 1>> \in before
      BY <2>2
    <2>4. ASSUME NEW i \in 1..m, i <= k PROVE <<m + 1, s[i]>> \notin before
      <3>1. CASE i = k
        BY <1>1, <1>2, <2>3, <3>1 DEF Strict
      <3>2. CASE i # k
        <4>1. s[i] # s[k] /\ <<s[k], s[i]>> \notin before
          BY <2>3, <2>4, <3>2 DEF Orders
        <4>2. <<s[i], s[k]>> \in before
          BY <1>1, <2>3, <4>1 DEF Strict
        <4>3. <<s[i], m + 1>> \in before
          BY <1>1, <1>2, <2>3, <4>2 DEF Strict
        <4>4. QED
          BY <1>1, <1>2, <4>3 DEF Strict
      <3>3. QED
        BY <3>1, <3>2
    <2>5. ASSUME NEW i \in 1..m, i > k PROVE <<s[i], m + 1>> \notin before
      <3>1. ~(i <= k)
        BY <2>3, <2>5
      <3>2. QED
        BY <2>2, <3>1
    <2>6. QED
      BY <2>3, <2>4, <2>5
  <1>5. QED
    BY <1>3, <1>4

\* What is in order stays in order with a further number in its place.
LEMMA OrdersFurther ==
    ASSUME NEW n \in Nat, NEW before, Strict(n, before), NEW m \in Nat, m < n,
           NEW s, Orders(s, m, before)
    PROVE  Orderable(m + 1, before)
  <1>1. PICK k \in 0..m : /\ \A i \in 1..m : i <= k => <<m + 1, s[i]>> \notin before
                          /\ \A i \in 1..m : i > k => <<s[i], m + 1>> \notin before
    BY PlaceOfNext
  <1> DEFINE back(i) == IF i <= k THEN i ELSE i - 1
             t == [i \in 1..(m + 1) |-> IF i = k + 1 THEN m + 1 ELSE s[back(i)]]
  <1>2. /\ s \in [1..m -> 1..m]
        /\ \A e \in 1..m : \E i \in 1..m : s[i] = e
        /\ \A i, j \in 1..m : i < j => s[i] # s[j] /\ <<s[j], s[i]>> \notin before
    BY DEF Orders
  <1>3. k \in Nat /\ k <= m /\ k + 1 \in 1..(m + 1)
    OBVIOUS
  <1>4. \A i \in 1..(m + 1) : i # k + 1 => back(i) \in 1..m
    BY <1>3
  <1>5. \A i, j \in 1..(m + 1) : i # k + 1 /\ j # k + 1 /\ i < j => back(i) < back(j)
    BY <1>3
  <1>6. \A i \in 1..(m + 1) : /\ i < k + 1 => back(i) <= k
                              /\ i > k + 1 => back(i) > k
    BY <1>3
  <1>7. \A e \in 1..m : \E i \in 1..(m + 1) : i # k + 1 /\ back(i) = e
    <2>1. ASSUME NEW e \in 1..m PROVE \E i \in 1..(m + 1) : i # k + 1 /\ back(i) = e
      <3>1. CASE e <= k
        <4>1. e \in 1..(m + 1) /\ e # k + 1 /\ back(e) = e
          BY <1>3, <3>1
        <4>2. QED
          BY <4>1
      <3>2. CASE ~(e <= k)
        <4>1. e + 1 \in 1..(m + 1) /\ e + 1 # k + 1 /\ back(e + 1) = e
          BY <1>3, <3>2
        <4>2. QED
          BY <4>1
      <3>3. QED
        BY <3>1, <3>2
    <2>2. QED
      BY <2>1
  <1> HIDE DEF back
  <1>8. t[k + 1] = m + 1 /\ \A i \in 1..(m + 1) : i # k + 1 => t[i] = s[back(i)] /\ t[i] \in 1..m
    BY <1>2, <1>3, <1>4
  <1>9. t \in [1..(m + 1) -> 1..(m + 1)]
    <2>1. \A i \in 1..(m + 1) : t[i] \in 1..(m + 1)
      BY <1>8
    <2>2. DOMAIN t = 1..(m + 1) /\ t = [i \in 1..(m + 1) |-> t[i]]
      OBVIOUS
    <2> HIDE DEF t
    <2>3. QED
      BY <2>1, <2>2
  <1> HIDE DEF t
  <1>10. ASSUME NEW e \in 1..(m + 1) PROVE \E i \in 1..(m + 1) : t[i] = e
    <2>1. CASE e = m + 1
      BY <1>3, <1>8, <2>1
    <2>2. CASE e # m + 1
      <3>1. PICK j \in 1..m : s[j] = e
        BY <1>2, <2>2
      <3>2. PICK i \in 1..(m + 1) : i # k + 1 /\ back(i) = j
        BY <1>7
      <3>3. QED
        BY <1>8, <3>1, <3>2
    <2>3. QED
      BY <2>1, <2>2
  <1>11. ASSUME NEW i \in 1..(m + 1), NEW j \in 1..(m + 1), i < j
         PROVE  t[i] # t[j] /\ <<t[j], t[i]>> \notin before
    <2>1. CASE i = k + 1
      <3>1. j # k + 1 /\ j > k + 1
        BY <1>3, <1>11, <2>1
      <3>2. t[j] \in 1..m /\ t[j] = s[back(j)] /\ back(j) \in 1..m /\ back(j) > k /\ t[i] = m + 1
        BY <1>4, <1>6, <1>8, <2>1, <3>1
      <3>3. QED
        BY <1>1, <3>2
    <2>2. CASE j = k + 1
      <3>1. i # k + 1 /\ i < k + 1
        BY <1>3, <1>11, <2>2
      <3>2. t[i] \in 1..m /\ t[i] = s[back(i)] /\ back(i) \in 1..m /\ back(i) <= k /\ t[j] = m + 1
        BY <1>4, <1>6, <1>8, <2>2, <3>1
      <3>3. QED
        BY <1>1, <3>2
    <2>3. CASE i # k + 1 /\ j # k + 1
      <3>1. back(i) \in 1..m /\ back(j) \in 1..m /\ back(i) < back(j)
        BY <1>4, <1>5, <1>11, <2>3
      <3>2. s[back(i)] # s[back(j)] /\ <<s[back(j)], s[back(i)]>> \notin before
        BY <1>2, <3>1
      <3>3. t[i] = s[back(i)] /\ t[j] = s[back(j)]
        BY <1>8, <2>3
      <3>4. QED
        BY <3>2, <3>3
    <2>4. QED
      BY <2>1, <2>2, <2>3
  <1>12. Orders(t, m + 1, before)
    BY <1>9, <1>10, <1>11 DEF Orders
  <1>13. QED
    BY <1>12 DEF Orderable

\* A strict order can be followed.
LEMMA ArrangementFacts ==
    ASSUME NEW n \in Nat, NEW before, Strict(n, before)
    PROVE  Orders(Arrangement(n, before), n, before)
  <1> DEFINE good == {m \in 0..n : Orderable(m, before)}
  <1>1. 0 \in good
    <2>1. Orders([i \in 1..0 |-> i], 0, before)
      BY DEF Orders
    <2>2. QED
      BY <2>1 DEF Orderable
  <1>2. ASSUME NEW m \in good, m # n PROVE m + 1 \in good
    <2>1. m \in Nat /\ m < n /\ m + 1 \in 0..n
      BY <1>2
    <2>2. PICK s : Orders(s, m, before)
      BY DEF Orderable
    <2>3. Orderable(m + 1, before)
      BY <2>1, <2>2, OrdersFurther
    <2>4. QED
      BY <2>1, <2>3
  <1>3. good \subseteq 0..n /\ n \in 0..n
    OBVIOUS
  <1>4. n \in good
    <2> HIDE DEF good
    <2>1. QED
      BY <1>1, <1>2, <1>3, Stepwise
  <1>5. PICK s : Orders(s, n, before)
    BY <1>4 DEF Orderable
  <1>6. \E p \in [1..n -> 1..n] :
          /\ ToSet(p) = 1..n
          /\ \A i, j \in 1..n : i < j => p[i] # p[j] /\ <<p[j], p[i]>> \notin before
    <2>1. s \in [1..n -> 1..n] /\ ToSet(s) = 1..n
      <3>1. /\ s \in [1..n -> 1..n] /\ DOMAIN s = 1..n
            /\ \A e \in 1..n : \E i \in 1..n : s[i] = e
        BY <1>5 DEF Orders
      <3>2. ToSet(s) = {s[i] : i \in 1..n}
        BY <3>1 DEF ToSet
      <3>3. QED
        BY <3>1, <3>2
    <2>2. QED
      BY <1>5, <2>1 DEF Orders
  <1> DEFINE p == Arrangement(n, before)
  <1>7. /\ p \in [1..n -> 1..n]
        /\ ToSet(p) = 1..n
        /\ \A i, j \in 1..n : i < j => p[i] # p[j] /\ <<p[j], p[i]>> \notin before
    BY <1>6 DEF Arrangement
  <1> HIDE DEF p
  <1>8. \A e \in 1..n : \E i \in 1..n : p[i] = e
    BY <1>7 DEF ToSet
  <1>9. Orders(p, n, before)
    BY <1>7, <1>8 DEF Orders
  <1>10. QED
    BY <1>9 DEF p

\* A list that is ordered: the same elements, each in its place.
LEMMA ArrangedFacts ==
    ASSUME NEW S, NEW list \in Seq(S), NEW before, Strict(Len(list), before)
    PROVE  /\ Arranged(list, before) \in Seq(S)
           /\ Len(Arranged(list, before)) = Len(list)
           /\ \E s : /\ Orders(s, Len(list), before)
                     /\ \A k \in 1..Len(list) : Arranged(list, before)[k] = list[s[k]]
  <1> DEFINE n == Len(list)
             s == Arrangement(n, before)
             a == Arranged(list, before)
  <1>1. n \in Nat /\ DOMAIN list = 1..n /\ list \in [1..n -> S]
    OBVIOUS
  <1>2. Orders(s, n, before)
    BY <1>1, ArrangementFacts
  <1>3. a = [k \in 1..n |-> list[s[k]]]
    BY <1>1 DEF Arranged
  <1> HIDE DEF s, a, n
  <1>4. \A k \in 1..n : list[s[k]] \in S
    BY <1>1, <1>2 DEF Orders
  <1>5. a \in [1..n -> S] /\ \A k \in 1..n : a[k] = list[s[k]]
    BY <1>3, <1>4
  <1>6. a \in Seq(S) /\ Len(a) = n
    BY <1>1, <1>5, FunctionsAreSequences
  <1>7. QED
    BY <1>2, <1>5, <1>6 DEF n, a

-----------------------------------------------------------------------------
(* What is picked, numbered and listed *)

\* What is picked of a list at these indices, in their order.
Picks(out, list, indices) ==
    \E kept :
      /\ \A k \in 1..Len(out) : kept[k] \in indices /\ out[k] = list[kept[k]]
      /\ \A k, l \in 1..Len(out) : k < l => kept[k] < kept[l]
      /\ \A i \in indices : \E k \in 1..Len(out) : kept[k] = i

\* The elements of a list that are picked, in the order of the list.
LEMMA PickedInOrder ==
    ASSUME NEW S, NEW list \in Seq(S), NEW indices \in SUBSET (1..Len(list))
    PROVE  Picked(list, indices) \in Seq(S) /\ Picks(Picked(list, indices), list, indices)
  <1>1. indices \subseteq DOMAIN list
    OBVIOUS
  <1>2. PICK kept : /\ Lists(kept, Cardinality(indices), indices)
                    /\ \A n \in 1..Cardinality(indices) : Picked(list, indices)[n] = list[kept[n]]
    BY <1>1, PickedFacts
  <1>3. Picked(list, indices) \in Seq(S) /\ Len(Picked(list, indices)) = Cardinality(indices)
    BY <1>1, PickedFacts
  <1>4. \A k \in 1..Cardinality(indices) : kept[k] \in indices
    BY <1>2 DEF Lists
  <1>5. /\ \A k \in 1..Len(Picked(list, indices)) :
             kept[k] \in indices /\ Picked(list, indices)[k] = list[kept[k]]
        /\ \A k, l \in 1..Len(Picked(list, indices)) : k < l => kept[k] < kept[l]
        /\ \A i \in indices : \E k \in 1..Len(Picked(list, indices)) : kept[k] = i
    BY <1>2, <1>3, <1>4 DEF Lists
  <1>6. QED
    BY <1>3, <1>5 DEF Picks

\* Numbers from 1 on, none left out.
Prefix(indices) == \A j \in indices : \A i \in 1..j : i \in indices

\* Numbers from 1 on, listed in order, are where they are listed.
LEMMA PrefixListed ==
    ASSUME NEW n \in Nat, NEW indices \in SUBSET (1..n), NEW k \in Nat, NEW s, Lists(s, k, indices),
           Prefix(indices)
    PROVE  \A i \in 1..k : s[i] = i
  <1>1. \E d \in Nat : indices = 1..d
    <2>1. CASE indices = {}
      <3>1. indices = 1..0
        BY <2>1
      <3>2. QED
        BY <3>1
    <2>2. CASE indices # {}
      <3>1. indices \subseteq Nat /\ \A i \in indices : i <= n
        OBVIOUS
      <3>2. Max(indices) \in indices /\ \A i \in indices : i <= Max(indices)
        BY <2>2, <3>1, MaxFacts
      <3>3. PICK d \in indices : \A i \in indices : i <= d
        BY <3>2
      <3>4. d \in Nat /\ \A i \in 1..d : i \in indices
        BY <3>1, <3>3 DEF Prefix
      <3>6. \A i \in indices : i \in 1..d
        BY <3>1, <3>3
      <3>7. indices = 1..d
        BY <3>4, <3>6
      <3>8. QED
        BY <3>4, <3>7
    <2>3. QED
      BY <2>1, <2>2
  <1>2. PICK d \in Nat : indices = 1..d
    BY <1>1
  <1> DEFINE t == [i \in 1..d |-> i]
  <1>3. Lists(t, d, indices)
    BY <1>2 DEF Lists
  <1>4. \A i \in 1..d : t[i] = i
    OBVIOUS
  <1> HIDE DEF t
  <1>7. indices \in SUBSET Nat
    OBVIOUS
  <1>8. d \in Nat
    BY <1>2
  <1>5. k <= d /\ \A i \in 1..k : s[i] = t[i]
    BY <1>3, <1>7, <1>8, ListsAgree
  <1>6. QED
    BY <1>4, <1>5, <1>8

-----------------------------------------------------------------------------
(* The claims *)

RawClaim == [fact : Facts, prior : Priors, interest : Interests]
Claim == [fact : Nodes, prior : 0..100, interest : Interests, index : Nat,
          vector : Nodes \cup {None}, merged : Nat]

InTextOrder(seq) == \A k, l \in 1..Len(seq) : k < l => seq[k].index < seq[l].index
OnePerIndex(seq) == \A k, l \in 1..Len(seq) : k # l => seq[k].index # seq[l].index

\* Each claim of a list is one of another's, as far as its place in the text goes.
Stems(out, seq) ==
    \A k \in 1..Len(out) : \E i \in 1..Len(seq) :
      out[k].fact = seq[i].fact /\ out[k].index = seq[i].index

Vectored(seq) == \A k \in 1..Len(seq) : seq[k].vector = seq[k].fact

\* What the model returned, numbered, without the metadata.
LEMMA NumberedFacts ==
    ASSUME NEW raw \in Seq(RawClaim)
    PROVE  /\ Numbered(raw) \in Seq(Claim)
           /\ InTextOrder(Numbered(raw))
           /\ \A k \in 1..Len(Numbered(raw)) : \E i \in 1..Len(raw) :
                Numbered(raw)[k].fact = raw[i].fact /\ raw[i].fact \notin Metadata
           /\ \A i \in 1..Len(raw) : raw[i].fact \notin Metadata =>
                \E k \in 1..Len(Numbered(raw)) : Numbered(raw)[k].fact = raw[i].fact
           /\ (\A i, j \in 1..Len(raw) : i < j /\ raw[i].fact \in Metadata => raw[j].fact \in Metadata)
                => \A k \in 1..Len(Numbered(raw)) : Numbered(raw)[k].index = k - 1
  <1> DEFINE n == Len(raw)
             list == [i \in DOMAIN raw |->
                        [fact |-> raw[i].fact, prior |-> raw[i].prior,
                         interest |-> raw[i].interest, index |-> i - 1,
                         vector |-> None, merged |-> 0]]
             indices == {i \in DOMAIN raw : raw[i].fact \notin Metadata}
             out == Numbered(raw)
  <1>1. n \in Nat /\ DOMAIN raw = 1..n /\ \A i \in 1..n : raw[i] \in RawClaim
    OBVIOUS
  <1>2. \A i \in 1..n : list[i] \in Claim
    <2>1. ASSUME NEW i \in 1..n PROVE list[i] \in Claim
      <3>1. raw[i].fact \in Nodes /\ raw[i].prior \in 0..100 /\ raw[i].interest \in Interests
        BY <1>1, FactsAssumption DEF RawClaim, Nodes
      <3>2. i - 1 \in Nat
        BY <1>1
      <3>3. list[i] = [fact |-> raw[i].fact, prior |-> raw[i].prior,
                       interest |-> raw[i].interest, index |-> i - 1,
                       vector |-> None, merged |-> 0]
        BY <1>1
      <3>4. QED
        BY <3>1, <3>2, <3>3 DEF Claim
    <2>2. QED
      BY <2>1
  <1>3. list \in Seq(Claim) /\ Len(list) = n
    <2>1. list = [i \in 1..n |-> list[i]]
      BY <1>1
    <2>2. list \in [1..n -> Claim]
      <3> HIDE DEF list
      <3>1. QED
        BY <1>2, <2>1
    <2> HIDE DEF list
    <2>3. QED
      BY <1>1, <2>2, FunctionsAreSequences
  <1>4. \A i \in 1..n : list[i].fact = raw[i].fact /\ list[i].index = i - 1
    BY <1>1
  <1>5. indices \subseteq 1..n /\ \A i \in 1..n : i \in indices <=> raw[i].fact \notin Metadata
    BY <1>1
  <1>6. out = Picked(list, indices)
    BY DEF Numbered
  <1> HIDE DEF list, indices, out, n
  <1>7. out \in Seq(Claim) /\ Picks(out, list, indices)
    <2>1. list \in Seq(Claim)
      BY <1>3
    <2>2. indices \in SUBSET (1..Len(list))
      BY <1>3, <1>5
    <2>3. QED
      BY <1>6, <2>1, <2>2, PickedInOrder
  <1>8. PICK kept : /\ \A k \in 1..Len(out) : kept[k] \in indices /\ out[k] = list[kept[k]]
                    /\ \A k, l \in 1..Len(out) : k < l => kept[k] < kept[l]
                    /\ \A i \in indices : \E k \in 1..Len(out) : kept[k] = i
    BY <1>7 DEF Picks
  <1>9. \A k \in 1..Len(out) : /\ kept[k] \in 1..n /\ raw[kept[k]].fact \notin Metadata
                               /\ out[k].fact = raw[kept[k]].fact /\ out[k].index = kept[k] - 1
    BY <1>4, <1>5, <1>8
  <1>10. InTextOrder(out)
    <2>1. \A k, l \in 1..Len(out) : k < l => kept[k] - 1 < kept[l] - 1
      BY <1>1, <1>8, <1>9
    <2>2. QED
      BY <1>9, <2>1 DEF InTextOrder
  <1>11. \A k \in 1..Len(out) : \E i \in 1..n : out[k].fact = raw[i].fact /\ raw[i].fact \notin Metadata
    BY <1>9
  <1>12. ASSUME NEW i \in 1..n, raw[i].fact \notin Metadata
         PROVE  \E k \in 1..Len(out) : out[k].fact = raw[i].fact
    <2>1. PICK k \in 1..Len(out) : kept[k] = i
      BY <1>5, <1>8, <1>12
    <2>2. QED
      BY <1>9, <2>1
  <1>13. ASSUME \A i, j \in 1..n : i < j /\ raw[i].fact \in Metadata => raw[j].fact \in Metadata
         PROVE  \A k \in 1..Len(out) : out[k].index = k - 1
    <2> DEFINE s == [k \in 1..Len(out) |-> kept[k]]
    <2>1. Len(out) \in Nat
      BY <1>7
    <2>2. Lists(s, Len(out), indices)
      BY <1>8 DEF Lists
    <2>3. ASSUME NEW j \in indices, NEW i \in 1..j PROVE i \in indices
      <3>1. j \in 1..n /\ raw[j].fact \notin Metadata /\ i \in 1..n
        BY <1>1, <1>5
      <3>2. i < j \/ i = j
        BY <3>1
      <3>3. raw[i].fact \notin Metadata
        BY <1>13, <3>1, <3>2
      <3>4. QED
        BY <1>5, <3>1, <3>3
    <2>4. \A k \in 1..Len(out) : s[k] = kept[k]
      OBVIOUS
    <2> HIDE DEF s
    <2>7. Prefix(indices)
      BY <2>3 DEF Prefix
    <2>8. n \in Nat
      BY <1>1
    <2>9. indices \in SUBSET (1..n)
      BY <1>5
    <2>5. \A k \in 1..Len(out) : s[k] = k
      BY <2>1, <2>2, <2>7, <2>8, <2>9, PrefixListed
    <2>6. QED
      BY <1>9, <2>4, <2>5
  <1>14. QED
    BY <1>7, <1>10, <1>11, <1>12, <1>13 DEF out, n

-----------------------------------------------------------------------------
(* The merges *)

\* A list made of another, place by place.
LEMMA Mapped ==
    ASSUME NEW S, NEW n \in Nat, NEW f, DOMAIN f = 1..n, f = [i \in 1..n |-> f[i]],
           \A i \in 1..n : f[i] \in S
    PROVE  f \in Seq(S) /\ Len(f) = n
  <1>1. f \in [1..n -> S]
    OBVIOUS
  <1>2. QED
    BY <1>1, FunctionsAreSequences

\* A claim with its embedding.
LEMMA VectoredClaim ==
    ASSUME NEW c \in Claim
    PROVE  /\ [c EXCEPT !.vector = c.fact] \in Claim
           /\ [c EXCEPT !.vector = c.fact].fact = c.fact
           /\ [c EXCEPT !.vector = c.fact].index = c.index
           /\ [c EXCEPT !.vector = c.fact].vector = c.fact
  BY DEF Claim

\* What is embedded: claims of the list in the order of the text, and of each
\* claim one that is the same.
LEMMA EmbeddedFacts ==
    ASSUME NEW seq \in Seq(Claim), InTextOrder(seq)
    PROVE  /\ Embedded(seq) \in Seq(Claim)
           /\ InTextOrder(Embedded(seq)) /\ Stems(Embedded(seq), seq) /\ Vectored(Embedded(seq))
           /\ \A i \in 1..Len(seq) : \E k \in 1..Len(Embedded(seq)) : Same(seq[i].fact, Embedded(seq)[k].fact)
  <1> DEFINE n == Len(seq)
             list == [i \in DOMAIN seq |-> [seq[i] EXCEPT !.vector = seq[i].fact]]
             close == {p \in PlacesOf(seq) : Same(seq[p[1]].fact, seq[p[2]].fact)}
             indices == Firsts(n, close)
             out == Embedded(seq)
  <1>1. n \in Nat /\ DOMAIN seq = 1..n /\ \A i \in 1..n : seq[i] \in Claim
    OBVIOUS
  <1>2. \A i, j \in 1..n : <<i, j>> \in close <=> Same(seq[i].fact, seq[j].fact)
    BY DEF PlacesOf
  <1>3. \A i \in 1..n : /\ list[i] \in Claim
                        /\ list[i].fact = seq[i].fact /\ list[i].index = seq[i].index
                        /\ list[i].vector = seq[i].fact
    <2>1. ASSUME NEW i \in 1..n
          PROVE  /\ list[i] \in Claim
                 /\ list[i].fact = seq[i].fact /\ list[i].index = seq[i].index
                 /\ list[i].vector = seq[i].fact
      <3>1. list[i] = [seq[i] EXCEPT !.vector = seq[i].fact] /\ seq[i] \in Claim
        BY <1>1
      <3> HIDE DEF list
      <3>2. QED
        BY <3>1, VectoredClaim
    <2>2. QED
      BY <2>1
  <1>4. list \in Seq(Claim) /\ Len(list) = n
    <2>1. DOMAIN list = 1..n /\ list = [i \in 1..n |-> list[i]]
      BY <1>1
    <2> HIDE DEF list
    <2>2. QED
      BY <1>1, <1>3, <2>1, Mapped
  <1>5. Sifted(indices, n, close)
    <2> HIDE DEF close
    <2>1. QED
      BY <1>1, FirstsFacts
  <1>6. out = Picked(list, indices)
    BY DEF Embedded
  <1> HIDE DEF list, indices, out, n, close
  <1>7. out \in Seq(Claim) /\ Picks(out, list, indices)
    <2>1. list \in Seq(Claim)
      BY <1>4
    <2>2. indices \in SUBSET (1..Len(list))
      BY <1>4, <1>5 DEF Sifted
    <2>3. QED
      BY <1>6, <2>1, <2>2, PickedInOrder
  <1>8. PICK kept : /\ \A k \in 1..Len(out) : kept[k] \in indices /\ out[k] = list[kept[k]]
                    /\ \A k, l \in 1..Len(out) : k < l => kept[k] < kept[l]
                    /\ \A i \in indices : \E k \in 1..Len(out) : kept[k] = i
    BY <1>7 DEF Picks
  <1>9. \A k \in 1..Len(out) : /\ kept[k] \in 1..n /\ out[k].fact = seq[kept[k]].fact
                               /\ out[k].index = seq[kept[k]].index /\ out[k].vector = out[k].fact
    <2>1. \A i \in indices : i \in 1..n
      BY <1>5 DEF Sifted
    <2>2. QED
      BY <1>3, <1>8, <2>1
  <1>10. InTextOrder(out) /\ Stems(out, seq) /\ Vectored(out)
    <2>1. Stems(out, seq) /\ Vectored(out)
      BY <1>9 DEF Stems, Vectored, n
    <2>2. \A k, l \in 1..Len(out) : k < l => seq[kept[k]].index < seq[kept[l]].index
      BY <1>8, <1>9 DEF InTextOrder, n
    <2>3. QED
      BY <1>9, <2>1, <2>2 DEF InTextOrder
  <1>11. ASSUME NEW i \in 1..n PROVE \E k \in 1..Len(out) : Same(seq[i].fact, out[k].fact)
    <2>1. PICK j \in indices : j \in 1..n /\ Same(seq[i].fact, seq[j].fact)
      <3>1. CASE i \in indices
        BY <3>1 DEF Same
      <3>2. CASE i \notin indices
        <4>1. PICK j \in indices : j < i /\ <<j, i>> \in close
          BY <1>5, <3>2 DEF Sifted
        <4>2. j \in 1..n
          BY <1>5 DEF Sifted
        <4>3. Same(seq[j].fact, seq[i].fact)
          BY <1>2, <4>1, <4>2
        <4>4. {seq[j].fact, seq[i].fact} = {seq[i].fact, seq[j].fact}
          OBVIOUS
        <4>5. Same(seq[i].fact, seq[j].fact)
          BY <4>3, <4>4 DEF Same
        <4>6. QED
          BY <4>2, <4>5
      <3>3. QED
        BY <3>1, <3>2
    <2>2. PICK k \in 1..Len(out) : kept[k] = j
      BY <1>8
    <2>3. out[k].fact = seq[j].fact
      BY <1>9, <2>2
    <2>4. QED
      BY <2>1, <2>3
  <1>12. QED
    BY <1>7, <1>10, <1>11 DEF out, n

\* What the stake of who is speaking does to a claim.
LEMMA AdjustedFacts ==
    ASSUME NEW c \in Claim
    PROVE  /\ Adjusted(c) \in Claim
           /\ Adjusted(c).fact = c.fact /\ Adjusted(c).index = c.index /\ Adjusted(c).vector = c.vector
  <1>1. c.prior \in 0..100 /\ c.interest \in Interests
    BY DEF Claim
  <1>2. Greater(5, Lesser(95, c.prior + 15)) \in 0..100 /\ Greater(5, Lesser(95, c.prior - 10)) \in 0..100
    BY <1>1 DEF Greater, Lesser
  <1>3. CASE c.interest = "against_interest"
    <2>1. Adjusted(c) = [c EXCEPT !.prior = Greater(5, Lesser(95, c.prior + 15))]
      BY <1>3 DEF Adjusted
    <2>2. QED
      BY <1>2, <2>1 DEF Claim
  <1>4. CASE c.interest = "interested"
    <2>1. Adjusted(c) = [c EXCEPT !.prior = Greater(5, Lesser(95, c.prior - 10))]
      BY <1>4 DEF Adjusted
    <2>2. QED
      BY <1>2, <2>1 DEF Claim
  <1>5. CASE c.interest \notin {"against_interest", "interested"}
    <2>1. Adjusted(c) = c
      BY <1>5 DEF Adjusted
    <2>2. QED
      BY <2>1
  <1>6. QED
    BY <1>3, <1>4, <1>5

\* Claims that are adjusted keep their places.
LEMMA AllAdjusted ==
    ASSUME NEW seq \in Seq(Claim), InTextOrder(seq), Vectored(seq),
           NEW out, out = [i \in 1..Len(seq) |-> Adjusted(seq[i])]
    PROVE  /\ out \in Seq(Claim) /\ Len(out) = Len(seq)
           /\ InTextOrder(out) /\ Vectored(out)
           /\ \A i \in 1..Len(seq) : out[i].fact = seq[i].fact /\ out[i].index = seq[i].index
  <1>1. Len(seq) \in Nat /\ \A i \in 1..Len(seq) : seq[i] \in Claim
    OBVIOUS
  <1>2. \A i \in 1..Len(seq) : out[i] = Adjusted(seq[i])
    OBVIOUS
  <1>3. \A i \in 1..Len(seq) :
           /\ out[i] \in Claim
           /\ out[i].fact = seq[i].fact /\ out[i].index = seq[i].index /\ out[i].vector = seq[i].vector
    BY <1>1, <1>2, AdjustedFacts
  <1>4. out \in Seq(Claim) /\ Len(out) = Len(seq)
    <2>1. DOMAIN out = 1..Len(seq) /\ out = [i \in 1..Len(seq) |-> out[i]]
      BY <1>2
    <2>2. QED
      BY <1>1, <1>3, <2>1, Mapped
  <1>5. QED
    BY <1>3, <1>4 DEF InTextOrder, Vectored

\* The same claims in another order.
Reordered(out, seq) ==
    /\ out \in Seq(Claim) /\ Len(out) = Len(seq)
    /\ \A k \in 1..Len(out) : \E i \in 1..Len(seq) : out[k] = seq[i]
    /\ \A i \in 1..Len(seq) : \E k \in 1..Len(out) : out[k] = seq[i]

\* No claim comes before another that it is to come after.
Follows(out, seq, before) ==
    \A k, l \in 1..Len(seq) : k < l =>
      \E i, j \in 1..Len(seq) : out[k] = seq[i] /\ out[l] = seq[j] /\ i # j /\ <<j, i>> \notin before

\* Claims that are ordered are the same claims, each once.
LEMMA ArrangedClaims ==
    ASSUME NEW seq \in Seq(Claim), OnePerIndex(seq), NEW before, Strict(Len(seq), before)
    PROVE  /\ Reordered(Arranged(seq, before), seq)
           /\ OnePerIndex(Arranged(seq, before))
           /\ Follows(Arranged(seq, before), seq, before)
  <1> DEFINE n == Len(seq)
             out == Arranged(seq, before)
  <1>1. /\ out \in Seq(Claim) /\ Len(out) = n
        /\ \E s : Orders(s, n, before) /\ \A k \in 1..n : out[k] = seq[s[k]]
    BY ArrangedFacts
  <1>2. n \in Nat
    OBVIOUS
  <1> HIDE DEF out, n
  <1>3. PICK s : Orders(s, n, before) /\ \A k \in 1..n : out[k] = seq[s[k]]
    BY <1>1
  <1>4. /\ \A k \in 1..n : s[k] \in 1..n
        /\ \A e \in 1..n : \E i \in 1..n : s[i] = e
        /\ \A i, j \in 1..n : i < j => s[i] # s[j] /\ <<s[j], s[i]>> \notin before
    BY <1>3 DEF Orders
  <1>5. Reordered(out, seq)
    <2>1. \A k \in 1..n : \E i \in 1..n : out[k] = seq[i]
      BY <1>3, <1>4
    <2>2. ASSUME NEW i \in 1..n PROVE \E k \in 1..n : out[k] = seq[i]
      <3>1. PICK k \in 1..n : s[k] = i
        BY <1>4
      <3>2. out[k] = seq[i]
        BY <1>3, <3>1
      <3>3. QED
        BY <3>2
    <2>3. QED
      BY <1>1, <2>1, <2>2 DEF Reordered, n
  <1>6. ASSUME NEW k \in 1..n, NEW l \in 1..n, k # l PROVE out[k].index # out[l].index
    <2>1. k < l \/ l < k
      BY <1>2, <1>6
    <2>2. s[k] # s[l]
      BY <1>4, <2>1
    <2>3. s[k] \in 1..n /\ s[l] \in 1..n /\ out[k] = seq[s[k]] /\ out[l] = seq[s[l]]
      BY <1>3, <1>4
    <2>4. seq[s[k]].index # seq[s[l]].index
      BY <2>2, <2>3 DEF OnePerIndex, n
    <2>5. QED
      BY <2>3, <2>4
  <1>7. ASSUME NEW k \in 1..n, NEW l \in 1..n, k < l
        PROVE  \E i, j \in 1..n : out[k] = seq[i] /\ out[l] = seq[j] /\ i # j /\ <<j, i>> \notin before
    <2>1. /\ s[k] \in 1..n /\ s[l] \in 1..n /\ s[k] # s[l] /\ <<s[l], s[k]>> \notin before
          /\ out[k] = seq[s[k]] /\ out[l] = seq[s[l]]
      BY <1>3, <1>4, <1>7
    <2>2. QED
      BY <2>1
  <1>8. OnePerIndex(out)
    BY <1>1, <1>6 DEF OnePerIndex
  <1>9. Follows(out, seq, before)
    BY <1>7 DEF Follows, n
  <1>10. QED
    BY <1>5, <1>8, <1>9 DEF out

\* What is needed of the claims of a list to put them in an order.
LEMMA ClaimNumbers ==
    ASSUME NEW seq \in Seq(Claim)
    PROVE  /\ Len(seq) \in Nat
           /\ \A i \in 1..Len(seq) : seq[i] \in Claim /\ seq[i].index \in Nat /\ seq[i].prior \in Int
  <1>1. Len(seq) \in Nat /\ \A i \in 1..Len(seq) : seq[i] \in Claim
    OBVIOUS
  <1>2. ASSUME NEW c \in Claim PROVE c.index \in Nat /\ c.prior \in Int
    <2>1. c.index \in Nat /\ c.prior \in 0..100
      BY DEF Claim
    <2>2. \A x \in 0..100 : x \in Int
      OBVIOUS
    <2>3. QED
      BY <2>1, <2>2
  <1>3. QED
    BY <1>1, <1>2

\* The strongest first.
LEMMA StrongestFirstFacts ==
    ASSUME NEW seq \in Seq(Claim), OnePerIndex(seq)
    PROVE  Reordered(StrongestFirst(seq), seq) /\ OnePerIndex(StrongestFirst(seq))
  <1> DEFINE n == Len(seq)
             before == {p \in PlacesOf(seq) :
                          \/ seq[p[1]].prior > seq[p[2]].prior
                          \/ seq[p[1]].prior = seq[p[2]].prior /\ seq[p[1]].index < seq[p[2]].index}
  <1>1. n \in Nat /\ \A i \in 1..n : seq[i].index \in Nat /\ seq[i].prior \in Int
    BY ClaimNumbers
  <1>2. \A i, j \in 1..n : <<i, j>> \in before <=>
           \/ seq[i].prior > seq[j].prior
           \/ seq[i].prior = seq[j].prior /\ seq[i].index < seq[j].index
    BY DEF PlacesOf
  <1>3. StrongestFirst(seq) = Arranged(seq, before)
    BY DEF StrongestFirst
  <1> HIDE DEF before, n
  <1>4. \A i, j \in 1..n : i # j => <<i, j>> \in before \/ <<j, i>> \in before
    <2>1. \A i, j \in 1..n : i # j => seq[i].index # seq[j].index
      BY DEF OnePerIndex, n
    <2>2. QED
      BY <1>1, <1>2, <2>1
  <1>5. \A i, j \in 1..n : <<i, j>> \in before => <<j, i>> \notin before
    BY <1>1, <1>2
  <1>6. ASSUME NEW i \in 1..n, NEW j \in 1..n, NEW k \in 1..n, <<i, j>> \in before, <<j, k>> \in before
        PROVE  <<i, k>> \in before
    <2>1. seq[i].prior > seq[j].prior \/ (seq[i].prior = seq[j].prior /\ seq[i].index < seq[j].index)
      BY <1>2, <1>6
    <2>2. seq[j].prior > seq[k].prior \/ (seq[j].prior = seq[k].prior /\ seq[j].index < seq[k].index)
      BY <1>2, <1>6
    <2>3. /\ seq[i].index \in Nat /\ seq[j].index \in Nat /\ seq[k].index \in Nat
          /\ seq[i].prior \in Int /\ seq[j].prior \in Int /\ seq[k].prior \in Int
      BY <1>1
    <2>4. seq[i].prior > seq[k].prior \/ (seq[i].prior = seq[k].prior /\ seq[i].index < seq[k].index)
      BY <2>1, <2>2, <2>3
    <2>5. QED
      BY <1>2, <2>4
  <1>7. Strict(Len(seq), before)
    BY <1>4, <1>5, <1>6 DEF Strict, n
  <1>8. QED
    BY <1>3, <1>7, ArrangedClaims

\* Back in the order of the text.
LEMMA ByIndexFacts ==
    ASSUME NEW seq \in Seq(Claim), OnePerIndex(seq)
    PROVE  Reordered(ByIndex(seq), seq) /\ OnePerIndex(ByIndex(seq)) /\ InTextOrder(ByIndex(seq))
  <1> DEFINE n == Len(seq)
             before == {p \in PlacesOf(seq) : seq[p[1]].index < seq[p[2]].index}
  <1>1. n \in Nat /\ \A i \in 1..n : seq[i].index \in Nat
    BY ClaimNumbers
  <1>2. \A i, j \in 1..n : <<i, j>> \in before <=> seq[i].index < seq[j].index
    BY DEF PlacesOf
  <1>3. ByIndex(seq) = Arranged(seq, before)
    BY DEF ByIndex
  <1> HIDE DEF before, n
  <1>4. \A i, j \in 1..n : i # j => <<i, j>> \in before \/ <<j, i>> \in before
    <2>1. \A i, j \in 1..n : i # j => seq[i].index # seq[j].index
      BY DEF OnePerIndex, n
    <2>2. QED
      BY <1>1, <1>2, <2>1
  <1>5. \A i, j \in 1..n : <<i, j>> \in before => <<j, i>> \notin before
    BY <1>1, <1>2
  <1>6. ASSUME NEW i \in 1..n, NEW j \in 1..n, NEW k \in 1..n, <<i, j>> \in before, <<j, k>> \in before
        PROVE  <<i, k>> \in before
    BY <1>1, <1>2, <1>6
  <1>7. Strict(Len(seq), before)
    BY <1>4, <1>5, <1>6 DEF Strict, n
  <1> DEFINE out == Arranged(seq, before)
  <1>8. Reordered(out, seq) /\ OnePerIndex(out) /\ Follows(out, seq, before)
    BY <1>7, ArrangedClaims
  <1> HIDE DEF out
  <1>9. ASSUME NEW k \in 1..n, NEW l \in 1..n, k < l PROVE out[k].index < out[l].index
    <2>1. PICK i \in 1..n, j \in 1..n : out[k] = seq[i] /\ out[l] = seq[j] /\ i # j /\ <<j, i>> \notin before
      BY <1>8, <1>9 DEF n, Follows
    <2>2. <<i, j>> \in before
      BY <1>4, <2>1
    <2>3. QED
      BY <1>2, <2>1, <2>2
  <1>10. InTextOrder(out)
    BY <1>8, <1>9 DEF InTextOrder, Reordered, n
  <1>11. QED
    BY <1>3, <1>8, <1>10 DEF out

\* A survivor keeps its place, and its prior is a probability.
LEMMA SurvivorFacts ==
    ASSUME NEW c \in Claim, NEW absorbed \in Nat
    PROVE  /\ Survivor(c, absorbed) \in Claim
           /\ Survivor(c, absorbed).fact = c.fact /\ Survivor(c, absorbed).index = c.index
           /\ Survivor(c, absorbed).vector = c.vector
  <1>1. CASE absorbed = 0
    BY <1>1 DEF Survivor
  <1>2. CASE absorbed # 0
    <2>1. c.prior \in 0..100
      BY DEF Claim
    <2>2. Lesser(99, c.prior + CorroborationLift(absorbed + 1)) \in 0..100
      <3>1. Lesser(15, 6 * (absorbed + 1 - 1)) \in 0..15
        BY <1>2 DEF Lesser
      <3>2. CorroborationLift(absorbed + 1) \in 0..15
        BY <3>1 DEF CorroborationLift
      <3>3. QED
        BY <2>1, <3>2 DEF Lesser
    <2>3. Survivor(c, absorbed) = [c EXCEPT !.prior = Lesser(99, c.prior + CorroborationLift(absorbed + 1)),
                                            !.merged = absorbed]
      BY <1>2 DEF Survivor
    <2>4. QED
      BY <2>2, <2>3 DEF Claim
  <1>3. QED
    BY <1>1, <1>2

\* No two claims are alike.
Unlike(seq) == \A k, l \in 1..Len(seq) : k # l => ~Alike(seq[k].fact, seq[l].fact)
\* Each claim of a list is alike to one that is left.
Covers(out, seq) == \A i \in 1..Len(seq) : \E k \in 1..Len(out) : Alike(seq[i].fact, out[k].fact)

\* Being alike has no direction.
LEMMA AlikeBothWays ==
    ASSUME NEW f, NEW g
    PROVE  Alike(f, g) <=> Alike(g, f)
  <1>1. {f, g} = {g, f}
    OBVIOUS
  <1>2. QED
    BY <1>1 DEF Alike

\* The survivors of what is ordered: claims of it, each once, no two alike, and
\* to each claim one that is alike.
LEMMA SurvivorsFacts ==
    ASSUME NEW seq \in Seq(Claim), OnePerIndex(seq), Vectored(seq)
    PROVE  /\ Survivors(seq) \in Seq(Claim)
           /\ OnePerIndex(Survivors(seq)) /\ Stems(Survivors(seq), seq) /\ Vectored(Survivors(seq))
           /\ Unlike(Survivors(seq)) /\ Covers(Survivors(seq), seq)
  <1> DEFINE n == Len(seq)
             list == [i \in DOMAIN seq |-> Survivor(seq[i], Cardinality(Members(seq, i)))]
             close == {p \in PlacesOf(seq) : Alike(seq[p[1]].fact, seq[p[2]].fact)}
             indices == Leads(seq)
             out == Survivors(seq)
  <1>1. n \in Nat /\ DOMAIN seq = 1..n /\ \A i \in 1..n : seq[i] \in Claim
    OBVIOUS
  <1>2. \A i, j \in 1..n : <<i, j>> \in close <=> Alike(seq[i].fact, seq[j].fact)
    BY DEF PlacesOf
  <1>3. \A i \in 1..n : Cardinality(Members(seq, i)) \in Nat
    <2>1. IsFiniteSet(1..n)
      BY <1>1, FS_Interval
    <2>2. \A i \in 1..n : Members(seq, i) \subseteq 1..n
      BY <1>1 DEF Members
    <2>3. QED
      BY <2>1, <2>2, FS_Subset, FS_CardinalityType
  <1>4. ASSUME NEW i \in 1..n
        PROVE  /\ list[i] \in Claim
               /\ list[i].fact = seq[i].fact /\ list[i].index = seq[i].index
               /\ list[i].vector = seq[i].fact
    <2>1. list[i] = Survivor(seq[i], Cardinality(Members(seq, i))) /\ seq[i] \in Claim
      BY <1>1
    <2>2. seq[i].vector = seq[i].fact
      BY DEF Vectored, n
    <2>3. PICK absorbed \in Nat : absorbed = Cardinality(Members(seq, i))
      BY <1>3
    <2> HIDE DEF list
    <2>4. list[i] = Survivor(seq[i], absorbed)
      BY <2>1, <2>3
    <2>5. PICK c \in Claim : c = seq[i]
      BY <2>1
    <2>6. c.vector = c.fact /\ list[i] = Survivor(c, absorbed)
      BY <2>2, <2>4, <2>5
    <2>7. /\ list[i] \in Claim
          /\ list[i].fact = c.fact /\ list[i].index = c.index /\ list[i].vector = c.fact
      BY <2>6, SurvivorFacts
    <2>8. QED
      BY <2>5, <2>7
  <1>5. list \in Seq(Claim) /\ Len(list) = n
    <2>1. DOMAIN list = 1..n /\ list = [i \in 1..n |-> list[i]]
      BY <1>1
    <2> HIDE DEF list
    <2>2. QED
      BY <1>1, <1>4, <2>1, Mapped
  <1>6. Sifted(indices, n, close)
    <2>1. indices = Firsts(n, close)
      BY DEF Leads
    <2> HIDE DEF close, indices
    <2>2. QED
      BY <1>1, <2>1, FirstsFacts
  <1>7. out = Picked(list, indices)
    BY DEF Survivors
  <1> HIDE DEF list, indices, out, n, close
  <1>8. out \in Seq(Claim) /\ Picks(out, list, indices)
    <2>1. list \in Seq(Claim)
      BY <1>5
    <2>2. indices \in SUBSET (1..Len(list))
      BY <1>5, <1>6 DEF Sifted
    <2>3. QED
      BY <1>7, <2>1, <2>2, PickedInOrder
  <1>9. PICK kept : /\ \A k \in 1..Len(out) : kept[k] \in indices /\ out[k] = list[kept[k]]
                    /\ \A k, l \in 1..Len(out) : k < l => kept[k] < kept[l]
                    /\ \A i \in indices : \E k \in 1..Len(out) : kept[k] = i
    BY <1>8 DEF Picks
  <1>10. \A i \in indices : i \in 1..n /\ i \in Nat
    BY <1>6 DEF Sifted
  <1>11. \A k \in 1..Len(out) : /\ kept[k] \in 1..n /\ out[k].fact = seq[kept[k]].fact
                                /\ out[k].index = seq[kept[k]].index /\ out[k].vector = out[k].fact
    BY <1>4, <1>9, <1>10
  <1>12. Len(out) \in Nat
    BY <1>8
  <1>13. ASSUME NEW k \in 1..Len(out), NEW l \in 1..Len(out), k # l
         PROVE  /\ kept[k] # kept[l]
                /\ kept[k] < kept[l] \/ kept[l] < kept[k]
    <2>1. k < l \/ l < k
      BY <1>12, <1>13
    <2>2. kept[k] \in Nat /\ kept[l] \in Nat
      BY <1>9, <1>10
    <2>3. QED
      BY <1>9, <2>1, <2>2
  <1>14. OnePerIndex(out)
    <2>1. ASSUME NEW k \in 1..Len(out), NEW l \in 1..Len(out), k # l PROVE out[k].index # out[l].index
      <3>1. seq[kept[k]].index # seq[kept[l]].index
        BY <1>11, <1>13, <2>1 DEF OnePerIndex, n
      <3>2. QED
        BY <1>11, <3>1
    <2>2. QED
      BY <2>1 DEF OnePerIndex
  <1>15. Stems(out, seq) /\ Vectored(out)
    BY <1>11 DEF Stems, Vectored, n
  <1>16. Unlike(out)
    <2>1. ASSUME NEW k \in 1..Len(out), NEW l \in 1..Len(out), k # l
          PROVE  ~Alike(out[k].fact, out[l].fact)
      <3>1. <<kept[k], kept[l]>> \notin close \/ <<kept[l], kept[k]>> \notin close
        BY <1>6, <1>9, <1>13, <2>1 DEF Sifted
      <3>2. ~Alike(seq[kept[k]].fact, seq[kept[l]].fact) \/ ~Alike(seq[kept[l]].fact, seq[kept[k]].fact)
        BY <1>2, <1>11, <3>1
      <3>3. QED
        BY <1>11, <3>2, AlikeBothWays
    <2>2. QED
      BY <2>1 DEF Unlike
  <1>17. Covers(out, seq)
    <2>1. ASSUME NEW i \in 1..n PROVE \E k \in 1..Len(out) : Alike(seq[i].fact, out[k].fact)
      <3>1. PICK j \in indices : Alike(seq[i].fact, seq[j].fact)
        <4>1. CASE i \in indices
          BY <4>1 DEF Alike
        <4>2. CASE i \notin indices
          <5>1. PICK j \in indices : <<j, i>> \in close
            BY <1>6, <4>2 DEF Sifted
          <5>2. Alike(seq[j].fact, seq[i].fact)
            BY <1>2, <1>10, <5>1
          <5>3. QED
            BY <5>2, AlikeBothWays
        <4>3. QED
          BY <4>1, <4>2
      <3>2. PICK k \in 1..Len(out) : kept[k] = j
        BY <1>9
      <3>3. QED
        BY <1>11, <3>1, <3>2
    <2>2. QED
      BY <2>1 DEF Covers, n
  <1>18. QED
    BY <1>8, <1>14, <1>15, <1>16, <1>17 DEF out

\* What dedup_claims returns.
LEMMA DedupedFacts ==
    ASSUME NEW seq \in Seq(Claim), InTextOrder(seq), Vectored(seq)
    PROVE  /\ Deduped(seq) \in Seq(Claim)
           /\ InTextOrder(Deduped(seq)) /\ Stems(Deduped(seq), seq) /\ Vectored(Deduped(seq))
           /\ Unlike(Deduped(seq)) /\ Covers(Deduped(seq), seq)
  <1> DEFINE strong == StrongestFirst(seq)
             left == Survivors(strong)
             out == ByIndex(left)
  <1>1. OnePerIndex(seq)
    BY ClaimNumbers DEF OnePerIndex, InTextOrder
  <1>2. Reordered(strong, seq) /\ OnePerIndex(strong)
    BY <1>1, StrongestFirstFacts
  <1>3. out = Deduped(seq)
    BY DEF Deduped
  <1> HIDE DEF strong
  <1>4. strong \in Seq(Claim) /\ Vectored(strong)
    BY <1>2 DEF Reordered, Vectored
  <1>5. /\ left \in Seq(Claim) /\ OnePerIndex(left) /\ Stems(left, strong) /\ Vectored(left)
        /\ Unlike(left) /\ Covers(left, strong)
    BY <1>2, <1>4, SurvivorsFacts
  <1> HIDE DEF left
  <1>6. Reordered(out, left) /\ OnePerIndex(out) /\ InTextOrder(out)
    BY <1>5, ByIndexFacts
  <1> HIDE DEF out
  <1>7. out \in Seq(Claim) /\ Vectored(out)
    <2>1. out \in Seq(Claim) /\ \A k \in 1..Len(out) : \E i \in 1..Len(left) : out[k] = left[i]
      BY <1>6 DEF Reordered
    <2>2. \A i \in 1..Len(left) : left[i].vector = left[i].fact
      BY <1>5 DEF Vectored
    <2>3. QED
      BY <2>1, <2>2 DEF Vectored
  <1>8. Stems(out, seq)
    <2>1. ASSUME NEW k \in 1..Len(out)
          PROVE  \E i \in 1..Len(seq) : out[k].fact = seq[i].fact /\ out[k].index = seq[i].index
      <3>1. PICK l \in 1..Len(left) : out[k] = left[l]
        BY <1>6 DEF Reordered
      <3>2. PICK j \in 1..Len(strong) : left[l].fact = strong[j].fact /\ left[l].index = strong[j].index
        BY <1>5 DEF Stems
      <3>3. PICK i \in 1..Len(seq) : strong[j] = seq[i]
        BY <1>2 DEF Reordered
      <3>4. QED
        BY <3>1, <3>2, <3>3
    <2>2. QED
      BY <2>1 DEF Stems
  <1>9. Unlike(out)
    <2>1. ASSUME NEW k \in 1..Len(out), NEW l \in 1..Len(out), k # l
          PROVE  ~Alike(out[k].fact, out[l].fact)
      <3>1. PICK i \in 1..Len(left) : out[k] = left[i]
        BY <1>6 DEF Reordered
      <3>2. PICK j \in 1..Len(left) : out[l] = left[j]
        BY <1>6 DEF Reordered
      <3>3. out[k].index # out[l].index
        BY <1>6, <2>1 DEF OnePerIndex
      <3>4. i # j
        BY <3>1, <3>2, <3>3
      <3>5. QED
        BY <1>5, <3>1, <3>2, <3>4 DEF Unlike
    <2>2. QED
      BY <2>1 DEF Unlike
  <1>10. Covers(out, seq)
    <2>1. ASSUME NEW i \in 1..Len(seq) PROVE \E k \in 1..Len(out) : Alike(seq[i].fact, out[k].fact)
      <3>1. PICK j \in 1..Len(strong) : strong[j] = seq[i]
        BY <1>2 DEF Reordered
      <3>2. PICK l \in 1..Len(left) : Alike(strong[j].fact, left[l].fact)
        BY <1>5 DEF Covers
      <3>3. PICK k \in 1..Len(out) : out[k] = left[l]
        BY <1>6 DEF Reordered
      <3>4. QED
        BY <3>1, <3>2, <3>3
    <2>2. QED
      BY <2>1 DEF Covers
  <1>11. QED
    BY <1>3, <1>6, <1>7, <1>8, <1>9, <1>10

\* The claims after both merges.
Merged(seq) == LET unique == Embedded(seq) IN Deduped([i \in 1..Len(unique) |-> Adjusted(unique[i])])

\* What the merges leave of the claims: each where it was, none alike to another,
\* and of each one that is alike to what is the same.
LEMMA MergedFacts ==
    ASSUME NEW seq \in Seq(Claim), InTextOrder(seq)
    PROVE  /\ Merged(seq) \in Seq(Claim)
           /\ InTextOrder(Merged(seq)) /\ Stems(Merged(seq), seq) /\ Vectored(Merged(seq))
           /\ Unlike(Merged(seq))
           /\ \A i \in 1..Len(seq) : \E j \in 1..Len(seq), k \in 1..Len(Merged(seq)) :
                Same(seq[i].fact, seq[j].fact) /\ Alike(seq[j].fact, Merged(seq)[k].fact)
  <1> DEFINE unique == Embedded(seq)
             list == [i \in 1..Len(unique) |-> Adjusted(unique[i])]
             out == Deduped(list)
  <1>1. out = Merged(seq)
    BY DEF Merged
  <1>2. /\ unique \in Seq(Claim) /\ InTextOrder(unique) /\ Stems(unique, seq) /\ Vectored(unique)
        /\ \A i \in 1..Len(seq) : \E k \in 1..Len(unique) : Same(seq[i].fact, unique[k].fact)
    BY EmbeddedFacts
  <1> HIDE DEF unique
  <1>3. list = [i \in 1..Len(unique) |-> Adjusted(unique[i])]
    OBVIOUS
  <1> HIDE DEF list
  <1>4. /\ list \in Seq(Claim) /\ Len(list) = Len(unique)
        /\ InTextOrder(list) /\ Vectored(list)
        /\ \A i \in 1..Len(unique) : list[i].fact = unique[i].fact /\ list[i].index = unique[i].index
    BY <1>2, <1>3, AllAdjusted
  <1>5. /\ out \in Seq(Claim) /\ InTextOrder(out) /\ Stems(out, list) /\ Vectored(out)
        /\ Unlike(out) /\ Covers(out, list)
    BY <1>4, DedupedFacts
  <1> HIDE DEF out
  <1>6. Stems(out, seq)
    <2>1. ASSUME NEW k \in 1..Len(out)
          PROVE  \E i \in 1..Len(seq) : out[k].fact = seq[i].fact /\ out[k].index = seq[i].index
      <3>1. PICK l \in 1..Len(list) : out[k].fact = list[l].fact /\ out[k].index = list[l].index
        BY <1>5 DEF Stems
      <3>2. PICK i \in 1..Len(seq) : unique[l].fact = seq[i].fact /\ unique[l].index = seq[i].index
        BY <1>2, <1>4 DEF Stems
      <3>3. QED
        BY <1>4, <3>1, <3>2
    <2>2. QED
      BY <2>1 DEF Stems
  <1>7. ASSUME NEW i \in 1..Len(seq)
        PROVE  \E j \in 1..Len(seq), k \in 1..Len(out) :
                 Same(seq[i].fact, seq[j].fact) /\ Alike(seq[j].fact, out[k].fact)
    <2>1. PICK l \in 1..Len(unique) : Same(seq[i].fact, unique[l].fact)
      BY <1>2
    <2>2. PICK j \in 1..Len(seq) : unique[l].fact = seq[j].fact
      BY <1>2 DEF Stems
    <2>3. PICK k \in 1..Len(out) : Alike(list[l].fact, out[k].fact)
      BY <1>4, <1>5 DEF Covers
    <2>4. Same(seq[i].fact, seq[j].fact) /\ Alike(seq[j].fact, out[k].fact)
      BY <1>4, <2>1, <2>2, <2>3
    <2>5. QED
      BY <2>4
  <1>8. QED
    BY <1>1, <1>5, <1>6, <1>7

-----------------------------------------------------------------------------
(* The run *)

Row == [fact : Nodes, prior : 0..100, index : Nat, vector : Nodes \cup {None}, live : BOOLEAN]

Types ==
    /\ pc \in {"start", "no_claims", "saved", "merged", "updated", "index_error",
               "seeded", "discovered"}
    /\ extracted \in Seq(RawClaim)
    /\ claims \in Seq(Claim)
    /\ rows \in Seq(Row)
    /\ ids \in Seq(1..Len(rows))

\* Until something is found, the claims are in the order of the text; once there
\* are any, some stay.
Ordered ==
    /\ pc # "discovered" => InTextOrder(claims)
    /\ pc = "start" => claims = <<>> /\ rows = <<>> /\ ids = <<>>
    /\ pc = "no_claims" => claims = <<>>
    /\ pc \notin {"start", "no_claims"} => claims # <<>>

\* Before the rows are updated there is one for each claim that was saved, and
\* it is at the place of its id.
Fresh ==
    pc \in {"saved", "merged", "index_error"} =>
      /\ Len(ids) = Len(rows)
      /\ \A i \in 1..Len(rows) : ids[i] = i /\ rows[i].live

\* The claims that were saved are those of the rows.
Saved ==
    pc = "saved" =>
      /\ Len(claims) = Len(rows)
      /\ \A k \in 1..Len(claims) : rows[k].fact = claims[k].fact /\ rows[k].index = claims[k].index
      /\ \A f \in Said : \E k \in 1..Len(claims) : claims[k].fact = f
      /\ \A k \in 1..Len(claims) : claims[k].fact \in Said
      /\ ~Shifted => \A k \in 1..Len(claims) : claims[k].index = k - 1

\* What is merged finds its row at its index.
Placed ==
    /\ pc \in {"merged", "updated", "seeded"} => Vectored(claims)
    /\ pc = "merged" /\ ~Shifted =>
         /\ \A i \in 1..Len(rows) : rows[i].index = i - 1
         /\ \A k \in 1..Len(claims) : /\ claims[k].index < Len(rows)
                                      /\ rows[claims[k].index + 1].fact = claims[k].fact
    /\ pc = "index_error" => Shifted

\* The ids of the claims in memory, and what is in their rows.
InStep ==
    pc \in {"updated", "seeded", "discovered"} =>
      /\ Len(ids) = Len(claims)
      /\ ~Shifted => RowsDescribe

InTurn ==
    pc \in {"updated", "seeded"} /\ ~Shifted =>
      /\ \A k, l \in 1..Len(ids) : k < l => ids[k] < ids[l]
      /\ \A k \in 1..Len(claims) : /\ rows[ids[k]].index = claims[k].index
                                   /\ claims[k].merged > 0 => rows[ids[k]].prior = claims[k].prior

Inv == Types /\ Ordered /\ Fresh /\ Saved /\ Placed /\ InStep /\ InTurn /\ MergeIsExact

\* One list after another.
Joined(a, b, S) ==
    /\ a \o b \in Seq(S) /\ Len(a \o b) = Len(a) + Len(b)
    /\ \A i \in 1..Len(a) : (a \o b)[i] = a[i]
    /\ \A i \in 1..Len(b) : (a \o b)[Len(a) + i] = b[i]

\* What every concatenation does.
LEMMA Appended ==
    ASSUME NEW S, NEW a \in Seq(S), NEW b \in Seq(S)
    PROVE  Joined(a, b, S)
  <1>1. Len(a) \in Nat /\ Len(b) \in Nat
    OBVIOUS
  <1>2. a \o b \in Seq(S) /\ Len(a \o b) = Len(a) + Len(b)
    OBVIOUS
  <1>3. \A i \in 1..Len(a) : (a \o b)[i] = a[i]
    OBVIOUS
  <1>4. \A i \in 1..Len(b) : (a \o b)[Len(a) + i] = b[i]
    OBVIOUS
  <1>5. QED
    BY <1>2, <1>3, <1>4 DEF Joined

\* The row of a claim.
RowOf(row, c) ==
    /\ row.fact = c.fact /\ row.prior = c.prior /\ row.index = c.index
    /\ row.vector = c.vector /\ row.live

\* What is saved comes after what is there, and its ids are its places.
LEMMA SavedFacts ==
    ASSUME rows \in Seq(Row), ids \in Seq(1..Len(rows)), NEW new \in Seq(Claim), SaveClaims(new)
    PROVE  /\ rows' \in Seq(Row) /\ Len(rows') = Len(rows) + Len(new)
           /\ \A i \in 1..Len(rows) : rows'[i] = rows[i]
           /\ \A i \in 1..Len(new) : RowOf(rows'[Len(rows) + i], new[i])
           /\ ids' \in Seq(1..Len(rows')) /\ Len(ids') = Len(ids) + Len(new)
           /\ \A i \in 1..Len(ids) : ids'[i] = ids[i]
           /\ \A i \in 1..Len(new) : ids'[Len(ids) + i] = Len(rows) + i
  <1> DEFINE n == Len(new)
             r == [i \in 1..n |->
                     [fact |-> new[i].fact, prior |-> new[i].prior, index |-> new[i].index,
                      vector |-> new[i].vector, live |-> TRUE]]
             p == [i \in 1..n |-> Len(rows) + i]
  <1>1. n \in Nat /\ Len(rows) \in Nat /\ \A i \in 1..n : new[i] \in Claim
    OBVIOUS
  <1>2. rows' = rows \o r /\ ids' = ids \o p
    BY DEF SaveClaims
  <1>3. \A i \in 1..n : r[i] \in Row /\ RowOf(r[i], new[i])
    <2>1. ASSUME NEW i \in 1..n PROVE r[i] \in Row /\ RowOf(r[i], new[i])
      <3>1. /\ new[i].fact \in Nodes /\ new[i].prior \in 0..100 /\ new[i].index \in Nat
            /\ new[i].vector \in Nodes \cup {None}
        BY <1>1 DEF Claim
      <3>2. r[i] = [fact |-> new[i].fact, prior |-> new[i].prior, index |-> new[i].index,
                    vector |-> new[i].vector, live |-> TRUE]
        OBVIOUS
      <3> HIDE DEF r
      <3>3. QED
        BY <3>1, <3>2 DEF Row, RowOf
    <2>2. QED
      BY <2>1
  <1>4. r \in Seq(Row) /\ Len(r) = n
    <2>1. r = [i \in 1..n |-> r[i]] /\ DOMAIN r = 1..n
      OBVIOUS
    <2> HIDE DEF r
    <2>2. QED
      BY <1>1, <1>3, <2>1, Mapped
  <1> DEFINE places == 1..(Len(rows) + n)
  <1>5. p \in Seq(places) /\ Len(p) = n /\ \A i \in 1..n : p[i] = Len(rows) + i
    <2>1. p = [i \in 1..n |-> p[i]] /\ DOMAIN p = 1..n /\ \A i \in 1..n : p[i] = Len(rows) + i
      OBVIOUS
    <2> HIDE DEF p
    <2>2. \A i \in 1..n : p[i] \in places
      BY <1>1, <2>1
    <2> HIDE DEF places
    <2>3. QED
      BY <1>1, <2>1, <2>2, Mapped
  <1>6. ids \in Seq(places)
    <2>1. \A i \in 1..Len(ids) : ids[i] \in 1..Len(rows)
      OBVIOUS
    <2>2. 1..Len(rows) \subseteq places
      BY <1>1
    <2>3. QED
      BY <2>2
  <1> HIDE DEF r, p, n, places
  <1>7. /\ rows \o r \in Seq(Row) /\ Len(rows \o r) = Len(rows) + n
        /\ \A i \in 1..Len(rows) : (rows \o r)[i] = rows[i]
        /\ \A i \in 1..n : (rows \o r)[Len(rows) + i] = r[i]
    <2>1. Joined(rows, r, Row)
      BY ONLY <1>4, rows \in Seq(Row), Appended
    <2>2. QED
      BY <1>4, <2>1 DEF Joined
  <1>8. /\ ids \o p \in Seq(places) /\ Len(ids \o p) = Len(ids) + n
        /\ \A i \in 1..Len(ids) : (ids \o p)[i] = ids[i]
        /\ \A i \in 1..n : (ids \o p)[Len(ids) + i] = p[i]
    <2>1. Joined(ids, p, places)
      BY ONLY <1>5, <1>6, Appended
    <2>2. QED
      BY <1>5, <2>1 DEF Joined
  <1>9. \A i \in 1..n : RowOf(rows'[Len(rows) + i], new[i])
    BY <1>2, <1>3, <1>7
  <1>10. ids' \in Seq(1..Len(rows'))
    BY <1>2, <1>7, <1>8 DEF places
  <1>11. \A i \in 1..n : ids'[Len(ids) + i] = Len(rows) + i
    BY <1>2, <1>5, <1>8
  <1>12. QED
    BY <1>2, <1>7, <1>8, <1>9, <1>10, <1>11 DEF n

\* What the model returned, numbered and saved.
LEMMA ExtractKeeps ==
    ASSUME Inv, Extract
    PROVE  Inv'
  <1> USE DEF Inv
  <1>1. PICK raw \in SeqOf(RawClaim, MaxClaims) : extracted' = raw /\ claims' = Numbered(raw)
    BY DEF Extract, RawClaim
  <1>2. raw \in Seq(RawClaim) /\ Len(raw) \in Nat
    <2>1. PICK m \in 0..MaxClaims : raw \in [1..m -> RawClaim]
      BY <1>1 DEF SeqOf
    <2>2. m \in Nat
      BY <2>1, FactsAssumption
    <2>3. raw \in Seq(RawClaim)
      BY <2>1, <2>2, FunctionsAreSequences
    <2>4. QED
      BY <2>3
  <1>3. rows = <<>> /\ ids = <<>> /\ pc = "start"
    BY DEF Extract, Ordered
  <1>4. /\ claims' \in Seq(Claim)
        /\ \A k, l \in 1..Len(claims') : k < l => claims'[k].index < claims'[l].index
        /\ \A k \in 1..Len(claims') : \E i \in 1..Len(raw) :
             claims'[k].fact = raw[i].fact /\ raw[i].fact \notin Metadata
        /\ \A i \in 1..Len(raw) : raw[i].fact \notin Metadata =>
             \E k \in 1..Len(claims') : claims'[k].fact = raw[i].fact
        /\ (\A i, j \in 1..Len(raw) : i < j /\ raw[i].fact \in Metadata => raw[j].fact \in Metadata)
             => \A k \in 1..Len(claims') : claims'[k].index = k - 1
    BY <1>1, <1>2, NumberedFacts DEF InTextOrder
  <1>5. InTextOrder(claims)'
    BY <1>4 DEF InTextOrder
  <1>6. CASE claims' = <<>>
    <2>1. pc' = "no_claims" /\ rows' = <<>> /\ ids' = <<>>
      BY <1>3, <1>6 DEF Extract
    <2>2. Types'
      <3>1. rows' \in Seq(Row) /\ ids' \in Seq(1..Len(rows'))
        BY <2>1
      <3>2. QED
        BY <1>1, <1>2, <1>4, <2>1, <3>1 DEF Types
    <2>3. Ordered'
      BY <1>5, <1>6, <2>1 DEF Ordered
    <2>4. MergeIsExact'
      <3>1. \A k \in 1..Len(claims') : FALSE
        BY <1>6
      <3>2. QED
        BY <2>1, <3>1 DEF MergeIsExact, NothingIsLost, NoRestatementIsLeft
    <2>5. Fresh' /\ Saved' /\ Placed' /\ InStep' /\ InTurn'
      BY <2>1 DEF Fresh, Saved, Placed, InStep, InTurn
    <2>6. QED
      BY <2>2, <2>3, <2>4, <2>5
  <1>7. CASE claims' # <<>>
    <2> DEFINE new == claims'
               n == Len(new)
    <2>1. pc' = "saved" /\ SaveClaims(new)
      BY <1>7 DEF Extract
    <2>2. rows \in Seq(Row) /\ ids \in Seq(1..Len(rows)) /\ Len(rows) = 0 /\ Len(ids) = 0 /\ new \in Seq(Claim)
      BY <1>3, <1>4
    <2> HIDE DEF new
    <2>3. /\ rows' \in Seq(Row) /\ Len(rows') = Len(rows) + Len(new)
          /\ \A i \in 1..Len(new) : RowOf(rows'[Len(rows) + i], new[i])
          /\ ids' \in Seq(1..Len(rows')) /\ Len(ids') = Len(ids) + Len(new)
          /\ \A i \in 1..Len(new) : ids'[Len(ids) + i] = Len(rows) + i
      BY <2>1, <2>2, SavedFacts
    <2>4. n \in Nat
      BY <2>2
    <2> HIDE DEF n
    <2>5. /\ Len(rows') = n /\ Len(ids') = n
          /\ \A i \in 1..n : RowOf(rows'[i], new[i]) /\ ids'[i] = i
      BY <2>2, <2>3, <2>4 DEF n
    <2>6. Types'
      BY <1>1, <1>2, <1>4, <2>1, <2>3 DEF Types
    <2>7. Ordered'
      BY <1>5, <1>7, <2>1 DEF Ordered
    <2>8. Fresh'
      BY <2>5 DEF Fresh, RowOf
    <2>9. \A f : f \in Said' <=> \E i \in 1..Len(raw) : raw[i].fact = f /\ f \notin Metadata
      BY <1>1 DEF Said
    <2>10. ASSUME NEW f \in Said' PROVE \E k \in 1..Len(claims') : claims'[k].fact = f
      <3>1. PICK i \in 1..Len(raw) : raw[i].fact = f /\ f \notin Metadata
        BY <2>9
      <3>2. QED
        BY <1>4, <3>1
    <2>11. Saved'
      <3>1. \A k \in 1..Len(claims') : claims'[k].fact \in Said'
        BY <1>4, <2>9
      <3>2. ASSUME ~Shifted' PROVE \A k \in 1..Len(claims') : claims'[k].index = k - 1
        <4>1. \A i, j \in 1..Len(raw) : i < j /\ raw[i].fact \in Metadata => raw[j].fact \in Metadata
          BY <1>1, <3>2 DEF Shifted
        <4>2. QED
          BY <1>4, <4>1
      <3>3. \A k \in 1..Len(claims') : rows'[k].fact = claims'[k].fact /\ rows'[k].index = claims'[k].index
        BY <2>5 DEF RowOf, n, new
      <3>4. Len(claims') = Len(rows')
        BY <2>5 DEF n, new
      <3>5. QED
        BY <2>10, <3>1, <3>2, <3>3, <3>4 DEF Saved
    <2>12. MergeIsExact'
      <3>1. ASSUME NEW f \in Said' PROVE \E g \in Said', h \in Kept' : Same(f, g) /\ Alike(g, h)
        <4>1. PICK k \in 1..Len(claims') : claims'[k].fact = f
          BY <2>10
        <4>2. f \in Kept'
          BY <4>1 DEF Kept
        <4>3. Same(f, f) /\ Alike(f, f)
          BY DEF Same, Alike
        <4>4. QED
          BY <4>2, <4>3
      <3>2. NothingIsLost'
        BY <3>1 DEF NothingIsLost
      <3>3. NoRestatementIsLeft'
        BY <2>1 DEF NoRestatementIsLeft
      <3>4. QED
        BY <3>2, <3>3 DEF MergeIsExact
    <2>13. Placed' /\ InStep' /\ InTurn'
      BY <2>1 DEF Placed, InStep, InTurn
    <2>14. QED
      BY <2>6, <2>7, <2>8, <2>11, <2>12, <2>13
  <1>8. QED
    BY <1>6, <1>7

\* The merges: each claim that is left keeps the index its row was saved with.
LEMMA MergeKeeps ==
    ASSUME Inv, Merge
    PROVE  Inv'
  <1> USE DEF Inv
  <1>1. /\ pc = "saved" /\ pc' = "merged" /\ claims' = Merged(claims)
        /\ extracted' = extracted /\ rows' = rows /\ ids' = ids
    BY DEF Merge, Merged
  <1>2. claims \in Seq(Claim) /\ InTextOrder(claims) /\ claims # <<>>
    BY <1>1 DEF Types, Ordered
  <1>3. /\ claims' \in Seq(Claim) /\ InTextOrder(claims') /\ Stems(claims', claims)
        /\ Vectored(claims') /\ Unlike(claims')
        /\ \A i \in 1..Len(claims) : \E j \in 1..Len(claims), k \in 1..Len(claims') :
             Same(claims[i].fact, claims[j].fact) /\ Alike(claims[j].fact, claims'[k].fact)
    BY <1>1, <1>2, MergedFacts
  <1>4. claims' # <<>>
    <2>1. 1 \in 1..Len(claims)
      BY <1>2
    <2>2. PICK k \in 1..Len(claims') : TRUE
      BY <1>3, <2>1
    <2>3. QED
      BY <2>2
  <1>5. Types' /\ Ordered' /\ Fresh'
    BY <1>1, <1>3, <1>4 DEF Types, Ordered, Fresh, InTextOrder
  <1>6. Said' = Said /\ Shifted' = Shifted
    BY <1>1 DEF Said, Shifted
  <1>7. Placed'
    <2>1. ASSUME ~Shifted'
          PROVE  /\ \A i \in 1..Len(rows) : rows[i].index = i - 1
                 /\ \A k \in 1..Len(claims') : /\ claims'[k].index < Len(rows)
                                               /\ rows[claims'[k].index + 1].fact = claims'[k].fact
      <3>1. /\ Len(claims) = Len(rows)
            /\ \A k \in 1..Len(claims) : /\ rows[k].fact = claims[k].fact
                                         /\ rows[k].index = claims[k].index /\ claims[k].index = k - 1
        BY <1>1, <1>6, <2>1 DEF Saved
      <3>2. ASSUME NEW k \in 1..Len(claims')
            PROVE  claims'[k].index < Len(rows) /\ rows[claims'[k].index + 1].fact = claims'[k].fact
        <4>1. PICK i \in 1..Len(claims) : claims'[k].fact = claims[i].fact /\ claims'[k].index = claims[i].index
          BY <1>3 DEF Stems
        <4>2. claims'[k].index = i - 1 /\ i \in 1..Len(rows)
          BY <3>1, <4>1
        <4>3. i - 1 + 1 = i /\ i - 1 < Len(rows)
          BY <4>2
        <4>4. QED
          BY <3>1, <4>1, <4>2, <4>3
      <3>3. QED
        BY <3>1, <3>2
    <2>2. QED
      BY <1>1, <1>3, <2>1 DEF Placed, Vectored
  <1>8. MergeIsExact'
    <2>1. ASSUME NEW f \in Said' PROVE \E g \in Said', h \in Kept' : Same(f, g) /\ Alike(g, h)
      <3>1. PICK i \in 1..Len(claims) : claims[i].fact = f
        BY <1>1, <1>6 DEF Saved
      <3>2. PICK j \in 1..Len(claims), k \in 1..Len(claims') :
               Same(claims[i].fact, claims[j].fact) /\ Alike(claims[j].fact, claims'[k].fact)
        BY <1>3
      <3>3. claims[j].fact \in Said'
        BY <1>1, <1>6 DEF Saved
      <3>4. claims'[k].fact \in Kept'
        BY DEF Kept
      <3>5. QED
        BY <3>1, <3>2, <3>3, <3>4
    <2>2. NothingIsLost'
      BY <2>1 DEF NothingIsLost
    <2>3. NoRestatementIsLeft'
      BY <1>3 DEF NoRestatementIsLeft, Unlike
    <2>4. QED
      BY <2>2, <2>3 DEF MergeIsExact
  <1>9. Saved' /\ InStep' /\ InTurn'
    BY <1>1 DEF Saved, InStep, InTurn
  <1>10. QED
    BY <1>5, <1>7, <1>8, <1>9

\* A row is missing only where the numbering has a gap.
LEMMA RowMissingKeeps ==
    ASSUME Inv, RowMissing
    PROVE  Inv'
  <1> USE DEF Inv
  <1>1. /\ pc = "merged" /\ pc' = "index_error"
        /\ extracted' = extracted /\ claims' = claims /\ rows' = rows /\ ids' = ids
    BY DEF RowMissing
  <1>2. Said' = Said /\ Kept' = Kept /\ Shifted' = Shifted
    BY <1>1 DEF Said, Kept, Shifted
  <1>3. Types' /\ Ordered' /\ Fresh' /\ Saved' /\ InStep' /\ InTurn'
    BY <1>1 DEF Types, Ordered, Fresh, Saved, InStep, InTurn, InTextOrder
  <1>4. Shifted
    <2>1. SUFFICES ASSUME ~Shifted PROVE FALSE
      OBVIOUS
    <2>2. PICK k \in 1..Len(claims) : claims[k].index >= Len(ids)
      BY DEF RowMissing
    <2>3. claims[k].index < Len(rows) /\ Len(ids) = Len(rows)
      BY <1>1, <2>1, <2>2 DEF Placed, Fresh
    <2>4. claims[k].index \in Nat /\ Len(ids) \in Nat
      BY ClaimNumbers, <2>2 DEF Types
    <2>5. QED
      BY <2>2, <2>3, <2>4
  <1>5. Placed'
    BY <1>1, <1>2, <1>4 DEF Placed
  <1>6. MergeIsExact'
    BY <1>1, <1>2 DEF MergeIsExact, NothingIsLost, NoRestatementIsLeft
  <1>7. QED
    BY <1>3, <1>5, <1>6

\* A row that is updated keeps its text and its index; what else is in it is from
\* the one claim of its index, or it is deleted.
LEMMA UpdatedFacts ==
    ASSUME Types, InTextOrder(claims), NEW i \in 1..Len(rows)
    PROVE  /\ Updated(i) \in Row
           /\ Updated(i).fact = rows[i].fact /\ Updated(i).index = rows[i].index
           /\ Updated(i).live => \E k \in 1..Len(claims) : claims[k].index = i - 1
           /\ \A k \in 1..Len(claims) : claims[k].index = i - 1 =>
                /\ Updated(i).live = rows[i].live
                /\ Updated(i).vector = claims[k].vector
                /\ claims[k].merged > 0 => Updated(i).prior = claims[k].prior
  <1>1. /\ claims \in Seq(Claim) /\ Len(claims) \in Nat
        /\ \A k \in 1..Len(claims) : claims[k] \in Claim /\ claims[k].index \in Nat
    BY ClaimNumbers DEF Types
  <1>2. rows[i] \in Row
    BY DEF Types
  <1>3. CASE Keeper(i) = {}
    <2>1. Updated(i) = [rows[i] EXCEPT !.live = FALSE]
      BY <1>3 DEF Updated
    <2>2. \A k \in 1..Len(claims) : claims[k].index # i - 1
      BY <1>3 DEF Keeper
    <2>3. QED
      BY <1>2, <2>1, <2>2 DEF Row
  <1>4. CASE Keeper(i) # {}
    <2> DEFINE k == CHOOSE k \in Keeper(i) : TRUE
               r == Updated(i)
    <2>1. k \in Keeper(i)
      BY <1>4
    <2>2. r = [rows[i] EXCEPT !.vector = claims[k].vector,
                              !.prior = IF claims[k].merged > 0 THEN claims[k].prior ELSE rows[i].prior]
      BY <1>4 DEF Updated
    <2> HIDE DEF k, r
    <2>3. k \in 1..Len(claims) /\ claims[k].index = i - 1
      BY <2>1 DEF Keeper
    <2>4. ASSUME NEW l \in 1..Len(claims), claims[l].index = i - 1 PROVE l = k
      <3>1. l < k \/ k < l \/ l = k
        BY <2>3, <1>1
      <3>2. l < k => claims[l].index < claims[k].index
        BY <2>3 DEF InTextOrder
      <3>3. k < l => claims[k].index < claims[l].index
        BY <2>3 DEF InTextOrder
      <3>4. claims[k].index \in Nat
        BY <1>1, <2>3
      <3>5. QED
        BY <2>3, <2>4, <3>1, <3>2, <3>3, <3>4
    <2>5. claims[k].vector \in Nodes \cup {None} /\ claims[k].prior \in 0..100
      BY <1>1, <2>3 DEF Claim
    <2>6. /\ r \in Row /\ r.fact = rows[i].fact /\ r.index = rows[i].index /\ r.live = rows[i].live
          /\ r.vector = claims[k].vector /\ (claims[k].merged > 0 => r.prior = claims[k].prior)
      BY <1>2, <2>2, <2>5 DEF Row
    <2>7. QED
      BY <2>3, <2>4, <2>6 DEF r
  <1>5. QED
    BY <1>3, <1>4

\* The rows of what was merged are deleted; the others are those of the claims.
LEMMA UpdateRowsKeeps ==
    ASSUME Inv, UpdateRows
    PROVE  Inv'
  <1> USE DEF Inv
  <1>1. /\ pc = "merged" /\ pc' = "updated" /\ extracted' = extracted /\ claims' = claims
        /\ \A k \in 1..Len(claims) : claims[k].index < Len(ids)
    BY DEF UpdateRows
  <1>2. /\ Len(ids) = Len(rows) /\ \A i \in 1..Len(rows) : ids[i] = i /\ rows[i].live
        /\ InTextOrder(claims) /\ Vectored(claims)
    BY <1>1 DEF Fresh, Ordered, Placed
  <1>3. /\ claims \in Seq(Claim) /\ Len(claims) \in Nat
        /\ \A k \in 1..Len(claims) : claims[k] \in Claim /\ claims[k].index \in Nat
    BY ClaimNumbers DEF Types
  <1>4. Len(rows) \in Nat
    BY DEF Types
  <1>5. rows' \in Seq(Row) /\ Len(rows') = Len(rows) /\ \A i \in 1..Len(rows) : rows'[i] = Updated(i)
    <2>1. rows' = [i \in 1..Len(rows) |-> Updated(i)]
      BY DEF UpdateRows
    <2>2. \A i \in 1..Len(rows) : Updated(i) \in Row
      BY <1>2, UpdatedFacts
    <2>3. /\ DOMAIN rows' = 1..Len(rows) /\ rows' = [i \in 1..Len(rows) |-> rows'[i]]
          /\ \A i \in 1..Len(rows) : rows'[i] = Updated(i)
      BY <2>1
    <2>4. \A i \in 1..Len(rows) : rows'[i] \in Row
      BY <2>2, <2>3
    <2>5. QED
      BY <1>4, <2>3, <2>4, Mapped
  <1>6. \A k \in 1..Len(claims) : claims[k].index + 1 \in 1..Len(rows)
    BY <1>1, <1>2, <1>3, <1>4
  <1>7. /\ ids' \in Seq(1..Len(rows)) /\ Len(ids') = Len(claims)
        /\ \A k \in 1..Len(claims) : ids'[k] = claims[k].index + 1
    <2>1. ids' = [k \in 1..Len(claims) |-> ids[claims[k].index + 1]]
      BY DEF UpdateRows
    <2>2. /\ DOMAIN ids' = 1..Len(claims) /\ ids' = [k \in 1..Len(claims) |-> ids'[k]]
          /\ \A k \in 1..Len(claims) : ids'[k] = ids[claims[k].index + 1]
      BY <2>1
    <2>3. \A k \in 1..Len(claims) : ids'[k] = claims[k].index + 1
      BY <1>2, <1>6, <2>2
    <2> DEFINE places == 1..Len(rows)
    <2>4. \A k \in 1..Len(claims) : ids'[k] \in places
      BY <1>6, <2>3
    <2> HIDE DEF places
    <2>5. ids' \in Seq(places) /\ Len(ids') = Len(claims)
      BY <1>3, <2>2, <2>4, Mapped
    <2>6. QED
      BY <2>3, <2>5 DEF places
  <1>8. Said' = Said /\ Kept' = Kept /\ Shifted' = Shifted
    BY <1>1 DEF Said, Kept, Shifted
  <1>9. Types'
    BY <1>1, <1>3, <1>5, <1>7 DEF Types
  <1>10. Ordered' /\ Fresh' /\ Saved' /\ Placed'
    BY <1>1 DEF Ordered, Fresh, Saved, Placed, InTextOrder
  <1>11. MergeIsExact'
    BY <1>1, <1>8 DEF MergeIsExact, NothingIsLost, NoRestatementIsLeft
  <1>12. ASSUME ~Shifted, NEW k \in 1..Len(claims)
         PROVE  LET row == rows'[ids'[k]]
                IN  /\ row.live /\ row.fact = claims[k].fact /\ row.vector = claims[k].fact
                    /\ row.index = claims[k].index
                    /\ claims[k].merged > 0 => row.prior = claims[k].prior
    <2> DEFINE i == claims[k].index + 1
    <2>1. i \in 1..Len(rows) /\ claims[k].index = i - 1 /\ ids'[k] = i /\ rows'[i] = Updated(i)
      BY <1>3, <1>5, <1>6, <1>7
    <2>2. rows[i].fact = claims[k].fact /\ rows[i].live /\ claims[k].vector = claims[k].fact
      BY <1>1, <1>2, <1>12, <2>1 DEF Placed, Vectored
    <2>3. rows[i].index = i - 1
      BY <1>1, <1>12, <2>1 DEF Placed
    <2> HIDE DEF i
    <2>4. /\ Updated(i).fact = rows[i].fact /\ Updated(i).index = rows[i].index
          /\ Updated(i).live = rows[i].live /\ Updated(i).vector = claims[k].vector
          /\ claims[k].merged > 0 => Updated(i).prior = claims[k].prior
      BY <1>2, <2>1, UpdatedFacts
    <2>5. QED
      BY <2>1, <2>2, <2>3, <2>4
  <1>13. ASSUME NEW i \in 1..Len(rows), rows'[i].live PROVE \E k \in 1..Len(ids') : ids'[k] = i
    <2>1. PICK k \in 1..Len(claims) : claims[k].index = i - 1
      BY <1>2, <1>5, <1>13, UpdatedFacts
    <2>2. ids'[k] = i
      BY <1>7, <2>1
    <2>3. QED
      BY <1>7, <2>2
  <1>14. InStep'
    <2>1. ~Shifted => RowsDescribe'
      BY <1>1, <1>5, <1>12, <1>13 DEF RowsDescribe
    <2>2. QED
      BY <1>1, <1>7, <1>8, <2>1 DEF InStep
  <1>15. InTurn'
    <2>1. \A k, l \in 1..Len(ids') : k < l => ids'[k] < ids'[l]
      <3>1. \A k, l \in 1..Len(claims) : k < l => claims[k].index < claims[l].index
        BY <1>2 DEF InTextOrder
      <3>2. ASSUME NEW k \in 1..Len(ids'), NEW l \in 1..Len(ids'), k < l PROVE ids'[k] < ids'[l]
        <4>1. k \in 1..Len(claims) /\ l \in 1..Len(claims)
          BY <1>7
        <4>2. /\ ids'[k] = claims[k].index + 1 /\ ids'[l] = claims[l].index + 1
              /\ claims[k].index < claims[l].index /\ claims[k].index \in Nat /\ claims[l].index \in Nat
          BY <1>3, <1>7, <3>1, <3>2, <4>1
        <4>3. QED
          BY <4>2
      <3>3. QED
        BY <3>2
    <2>2. QED
      BY <1>1, <1>8, <1>12, <2>1 DEF InTurn
  <1>16. QED
    BY <1>9, <1>10, <1>11, <1>14, <1>15

\* What is added to the claims in memory gets rows of its own, after the others.
LEMMA GrownFacts ==
    ASSUME Inv, pc \in {"updated", "seeded"}, extracted' = extracted,
           NEW new \in Seq(Claim), Vectored(new), claims' = claims \o new, SaveClaims(new)
    PROVE  /\ claims' \in Seq(Claim) /\ Len(claims') = Len(claims) + Len(new) /\ claims' # <<>>
           /\ rows' \in Seq(Row) /\ ids' \in Seq(1..Len(rows')) /\ Len(ids') = Len(claims')
           /\ \A k \in 1..Len(claims) : claims'[k] = claims[k] /\ ids'[k] = ids[k] /\ rows'[ids[k]] = rows[ids[k]]
           /\ \A i \in 1..Len(new) : /\ claims'[Len(claims) + i] = new[i]
                                     /\ ids'[Len(claims) + i] = Len(rows) + i
                                     /\ RowOf(rows'[Len(rows) + i], new[i])
           /\ \A k \in 1..Len(claims') : k \in 1..Len(claims) \/ \E i \in 1..Len(new) : k = Len(claims) + i
           /\ ~Shifted' => RowsDescribe'
           /\ NothingIsLost'
  <1> USE DEF Inv
  <1>1. /\ claims \in Seq(Claim) /\ claims # <<>> /\ Len(ids) = Len(claims)
        /\ rows \in Seq(Row) /\ ids \in Seq(1..Len(rows))
        /\ ~Shifted => RowsDescribe
    BY DEF Types, Ordered, InStep
  <1> DEFINE n == Len(claims)
             m == Len(rows)
             a == Len(new)
  <1>2. n \in Nat /\ m \in Nat /\ a \in Nat /\ n > 0
    BY <1>1
  <1>3. /\ claims' \in Seq(Claim) /\ Len(claims') = n + a
        /\ \A k \in 1..n : claims'[k] = claims[k]
        /\ \A i \in 1..a : claims'[n + i] = new[i]
    BY <1>1, Appended DEF Joined
  <1>4. /\ rows' \in Seq(Row) /\ Len(rows') = m + a
        /\ \A i \in 1..m : rows'[i] = rows[i]
        /\ \A i \in 1..a : RowOf(rows'[m + i], new[i])
        /\ ids' \in Seq(1..Len(rows')) /\ Len(ids') = n + a
        /\ \A k \in 1..n : ids'[k] = ids[k]
        /\ \A i \in 1..a : ids'[n + i] = m + i
    BY <1>1, SavedFacts
  <1>5. \A k \in 1..n : ids[k] \in 1..m
    BY <1>1
  <1>6. \A k \in 1..n : rows'[ids[k]] = rows[ids[k]]
    BY <1>4, <1>5
  <1>7. claims' # <<>>
    <2>1. Len(claims') > 0
      BY <1>2, <1>3
    <2>2. QED
      BY <2>1
  <1> HIDE DEF n, m, a
  <1>8. ASSUME NEW k \in 1..(n + a), k \notin 1..n PROVE \E i \in 1..a : k = n + i
    <2>1. k - n \in 1..a /\ k = n + (k - n)
      BY <1>2, <1>8
    <2>2. QED
      BY <2>1
  <1>9. ASSUME NEW k \in 1..(m + a), k \notin 1..m PROVE \E i \in 1..a : k = m + i
    <2>1. k - m \in 1..a /\ k = m + (k - m)
      BY <1>2, <1>9
    <2>2. QED
      BY <2>1
  <1>10. ASSUME ~Shifted' PROVE RowsDescribe'
    <2>1. ~Shifted
      BY <1>10 DEF Shifted
    <2>2. RowsDescribe
      BY <1>1, <2>1
    <2>3. ASSUME NEW k \in 1..Len(claims')
          PROVE  LET row == rows'[ids'[k]]
                 IN row.live /\ row.fact = claims'[k].fact /\ row.vector = claims'[k].fact
      <3>1. CASE k \in 1..n
        <4>1. rows'[ids'[k]] = rows[ids[k]] /\ claims'[k] = claims[k]
          BY <1>3, <1>4, <1>6, <3>1
        <4>2. QED
          BY <2>2, <3>1, <4>1 DEF RowsDescribe, n
      <3>2. CASE k \notin 1..n
        <4>1. PICK i \in 1..a : k = n + i
          BY <1>3, <1>8, <3>2
        <4>2. RowOf(rows'[ids'[k]], new[i]) /\ claims'[k] = new[i]
          BY <1>3, <1>4, <4>1
        <4>3. new[i].vector = new[i].fact
          BY DEF Vectored, a
        <4>4. QED
          BY <4>2, <4>3 DEF RowOf
      <3>3. QED
        BY <3>1, <3>2
    <2>4. ASSUME NEW i \in 1..Len(rows'), rows'[i].live PROVE \E k \in 1..Len(ids') : ids'[k] = i
      <3>1. CASE i \in 1..m
        <4>1. PICK k \in 1..n : ids[k] = i
          BY <1>1, <1>4, <2>2, <2>4, <3>1 DEF RowsDescribe, m, n
        <4>2. k \in 1..Len(ids') /\ ids'[k] = i
          BY <1>2, <1>4, <4>1
        <4>3. QED
          BY <4>2
      <3>2. CASE i \notin 1..m
        <4>1. PICK j \in 1..a : i = m + j
          BY <1>4, <1>9, <3>2
        <4>2. n + j \in 1..Len(ids') /\ ids'[n + j] = i
          BY <1>2, <1>4, <4>1
        <4>3. QED
          BY <4>2
      <3>3. QED
        BY <3>1, <3>2
    <2>5. QED
      BY <2>3, <2>4 DEF RowsDescribe
  <1>11. NothingIsLost'
    <2>1. Said' = Said
      BY DEF Said
    <2>2. ASSUME NEW h \in Kept PROVE h \in Kept'
      <3>1. PICK k \in 1..n : h = claims[k].fact
        BY DEF Kept, n
      <3>2. k \in 1..Len(claims') /\ h = claims'[k].fact
        BY <1>2, <1>3, <3>1
      <3>3. QED
        BY <3>2 DEF Kept
    <2>3. \A f \in Said : \E g \in Said, h \in Kept : Same(f, g) /\ Alike(g, h)
      BY DEF MergeIsExact, NothingIsLost
    <2>4. \A f \in Said' : \E g \in Said', h \in Kept' : Same(f, g) /\ Alike(g, h)
      BY <2>1, <2>2, <2>3
    <2>5. QED
      BY <2>4 DEF NothingIsLost
  <1>12. \A k \in 1..(n + a) : k \in 1..n \/ \E i \in 1..a : k = n + i
    BY <1>8
  <1>13. QED
    BY <1>3, <1>4, <1>6, <1>7, <1>10, <1>11, <1>12 DEF n, m, a

\* A node is a claim that is embedded.
LEMMA NodeFacts ==
    ASSUME NEW fact \in Nodes, NEW index \in Nat
    PROVE  /\ Node(fact, index) \in Claim /\ Node(fact, index).fact = fact
           /\ Node(fact, index).index = index /\ Node(fact, index).vector = fact
           /\ Node(fact, index).merged = 0
  <1>1. 50 \in 0..100 /\ "unknown" \in Interests
    BY DEF Interests
  <1>2. QED
    BY <1>1 DEF Node, Claim

\* The outcomes of the anchor are numbered past the last claim.
LEMMA OutcomeFacts ==
    ASSUME claims \in Seq(Claim), claims # <<>>, NEW n \in {0, Len(Outcomes)}
    PROVE  /\ OutcomeClaims(n) \in Seq(Claim) /\ Len(OutcomeClaims(n)) = n /\ Vectored(OutcomeClaims(n))
           /\ \A i \in 1..n : /\ OutcomeClaims(n)[i].index = claims[Len(claims)].index + i
                              /\ OutcomeClaims(n)[i].merged = 0
  <1>1. Outcomes \in Seq(ToSet(Outcomes)) /\ Len(Outcomes) \in Nat
    BY FactsAssumption
  <1>2. n \in Nat /\ \A i \in 1..n : i \in 1..Len(Outcomes) /\ Outcomes[i] \in Nodes
    BY <1>1 DEF Nodes
  <1>3. claims[Len(claims)].index \in Nat
    <2>1. Len(claims) \in 1..Len(claims)
      OBVIOUS
    <2>2. QED
      BY <2>1, ClaimNumbers
  <1> DEFINE base == claims[Len(claims)].index
             new == OutcomeClaims(n)
  <1>4. new = [i \in 1..n |-> Node(Outcomes[i], base + i)]
    BY DEF OutcomeClaims
  <1>5. \A i \in 1..n : base + i \in Nat
    BY <1>2, <1>3
  <1> HIDE DEF base, new
  <1>6. /\ DOMAIN new = 1..n /\ new = [i \in 1..n |-> new[i]]
        /\ \A i \in 1..n : new[i] = Node(Outcomes[i], base + i)
    BY <1>4
  <1>7. \A i \in 1..n : /\ new[i] \in Claim /\ new[i].fact = Outcomes[i] /\ new[i].index = base + i
                        /\ new[i].vector = Outcomes[i] /\ new[i].merged = 0
    BY <1>2, <1>5, <1>6, NodeFacts
  <1>8. new \in Seq(Claim) /\ Len(new) = n
    BY <1>2, <1>6, <1>7, Mapped
  <1>9. QED
    BY <1>7, <1>8 DEF Vectored, base, new

\* The outcomes of the anchor come after the claims, in memory and in the rows.
LEMMA AddOutcomesKeeps ==
    ASSUME Inv, AddOutcomes
    PROVE  Inv'
  <1> USE DEF Inv
  <1>1. PICK n \in {0, Len(Outcomes)} : claims' = claims \o OutcomeClaims(n) /\ SaveClaims(OutcomeClaims(n))
    BY DEF AddOutcomes
  <1>2. pc = "updated" /\ pc' = "seeded" /\ extracted' = extracted
    BY DEF AddOutcomes
  <1>3. /\ claims \in Seq(Claim) /\ claims # <<>> /\ Len(ids) = Len(claims)
        /\ ids \in Seq(1..Len(rows)) /\ InTextOrder(claims)
    BY <1>2 DEF Types, Ordered, InStep
  <1> DEFINE new == OutcomeClaims(n)
             N == Len(claims)
             m == Len(rows)
             top == claims[N].index
  <1>4. /\ new \in Seq(Claim) /\ Len(new) = n /\ Vectored(new)
        /\ \A i \in 1..n : new[i].index = top + i /\ new[i].merged = 0
    BY <1>3, OutcomeFacts
  <1>5. claims' = claims \o new /\ SaveClaims(new)
    BY <1>1
  <1> HIDE DEF new
  <1>6. /\ claims' \in Seq(Claim) /\ Len(claims') = N + n /\ claims' # <<>>
        /\ rows' \in Seq(Row) /\ ids' \in Seq(1..Len(rows')) /\ Len(ids') = Len(claims')
        /\ \A k \in 1..N : claims'[k] = claims[k] /\ ids'[k] = ids[k] /\ rows'[ids[k]] = rows[ids[k]]
        /\ \A i \in 1..n : /\ claims'[N + i] = new[i] /\ ids'[N + i] = m + i
                           /\ RowOf(rows'[m + i], new[i])
        /\ \A k \in 1..(N + n) : k \in 1..N \/ \E i \in 1..n : k = N + i
        /\ ~Shifted' => RowsDescribe'
        /\ NothingIsLost'
    <2> HIDE DEF N, m, top
    <2>1. Vectored(new) /\ new \in Seq(Claim)
      BY <1>4
    <2>2. /\ claims' \in Seq(Claim) /\ Len(claims') = Len(claims) + Len(new) /\ claims' # <<>>
          /\ rows' \in Seq(Row) /\ ids' \in Seq(1..Len(rows')) /\ Len(ids') = Len(claims')
          /\ \A k \in 1..Len(claims) : claims'[k] = claims[k] /\ ids'[k] = ids[k] /\ rows'[ids[k]] = rows[ids[k]]
          /\ \A i \in 1..Len(new) : /\ claims'[Len(claims) + i] = new[i]
                                    /\ ids'[Len(claims) + i] = Len(rows) + i
                                    /\ RowOf(rows'[Len(rows) + i], new[i])
          /\ \A k \in 1..Len(claims') : k \in 1..Len(claims) \/ \E i \in 1..Len(new) : k = Len(claims) + i
          /\ ~Shifted' => RowsDescribe'
          /\ NothingIsLost'
      BY <1>2, <1>5, <2>1, GrownFacts
    <2>3. QED
      BY <1>4, <2>2 DEF N, m
  <1>7. N \in Nat /\ m \in Nat /\ n \in Nat /\ N \in 1..N
    BY <1>3, <1>4 DEF Types
  <1>8. top \in Nat /\ \A k \in 1..N : claims[k].index \in Nat /\ claims[k].index <= top
    <2>1. \A k \in 1..N : claims[k].index \in Nat
      BY <1>3, ClaimNumbers
    <2>2. \A k \in 1..N : k < N => claims[k].index < claims[N].index
      BY <1>3, <1>7 DEF InTextOrder
    <2>3. \A k \in 1..N : k < N \/ k = N
      BY <1>7
    <2>4. QED
      BY <1>7, <2>1, <2>2, <2>3
  <1>9. \A k \in 1..N : ids[k] \in 1..m
    BY <1>3
  <1> HIDE DEF N, m, top
  <1>10. ASSUME NEW k \in 1..(N + n), NEW l \in 1..(N + n), k < l
         PROVE  claims'[k].index < claims'[l].index
    <2>1. CASE k \in 1..N /\ l \in 1..N
      <3>1. claims[k].index < claims[l].index
        BY <1>3, <1>10, <2>1 DEF InTextOrder, N
      <3>2. QED
        BY <1>6, <2>1, <3>1
    <2>2. CASE k \in 1..N /\ l \notin 1..N
      <3>1. PICK i \in 1..n : l = N + i
        BY <1>6, <2>2
      <3>2. claims'[k].index <= top /\ claims'[l].index = top + i /\ claims'[k].index \in Nat
        BY <1>4, <1>6, <1>8, <2>2, <3>1
      <3>3. QED
        BY <1>8, <3>1, <3>2
    <2>3. CASE k \notin 1..N
      <3>1. PICK i \in 1..n : k = N + i
        BY <1>6, <2>3
      <3>2. l \notin 1..N
        BY <1>7, <1>10, <2>3
      <3>3. PICK j \in 1..n : l = N + j
        BY <1>6, <3>2
      <3>4. claims'[k].index = top + i /\ claims'[l].index = top + j
        BY <1>4, <1>6, <3>1, <3>3
      <3>5. QED
        BY <1>7, <1>8, <1>10, <3>1, <3>3, <3>4
    <2>4. QED
      BY <2>1, <2>2, <2>3
  <1>11. InTextOrder(claims)'
    BY <1>6, <1>10 DEF InTextOrder, N
  <1>12. Types' /\ Ordered' /\ Fresh' /\ Saved' /\ Placed' /\ InStep'
    <2>1. Vectored(claims) /\ Vectored(new)
      BY <1>2, <1>4 DEF Placed
    <2>2. ASSUME NEW k \in 1..Len(claims') PROVE claims'[k].vector = claims'[k].fact
      <3>1. CASE k \in 1..N
        BY <1>6, <2>1, <3>1 DEF Vectored, N
      <3>2. CASE k \notin 1..N
        <4>1. PICK i \in 1..n : k = N + i
          BY <1>6, <3>2
        <4>2. QED
          BY <1>4, <1>6, <2>1, <4>1 DEF Vectored
      <3>3. QED
        BY <3>1, <3>2
    <2>3. Vectored(claims')
      BY <2>2 DEF Vectored
    <2>4. Placed'
      BY <1>2, <2>3 DEF Placed, Vectored
    <2>5. QED
      BY <1>2, <1>6, <1>11, <2>4 DEF Types, Ordered, Fresh, Saved, InStep
  <1>13. MergeIsExact'
    BY <1>2, <1>6 DEF MergeIsExact, NoRestatementIsLeft
  <1>14. ASSUME ~Shifted
         PROVE  /\ \A k, l \in 1..N : k < l => ids[k] < ids[l]
                /\ \A k \in 1..N : /\ rows[ids[k]].index = claims[k].index
                                   /\ claims[k].merged > 0 => rows[ids[k]].prior = claims[k].prior
    BY <1>2, <1>3, <1>14 DEF InTurn, N
  <1>15. ASSUME ~Shifted, NEW k \in 1..(N + n), NEW l \in 1..(N + n), k < l
         PROVE  ids'[k] < ids'[l]
    <2>1. CASE k \in 1..N /\ l \in 1..N
      BY <1>6, <1>14, <1>15, <2>1
    <2>2. CASE k \in 1..N /\ l \notin 1..N
      <3>1. PICK i \in 1..n : l = N + i
        BY <1>6, <2>2
      <3>2. ids'[k] \in 1..m /\ ids'[l] = m + i
        BY <1>6, <1>9, <2>2, <3>1
      <3>3. QED
        BY <1>7, <3>1, <3>2
    <2>3. CASE k \notin 1..N
      <3>1. PICK i \in 1..n : k = N + i
        BY <1>6, <2>3
      <3>2. l \notin 1..N
        BY <1>7, <1>15, <2>3
      <3>3. PICK j \in 1..n : l = N + j
        BY <1>6, <3>2
      <3>4. ids'[k] = m + i /\ ids'[l] = m + j
        BY <1>6, <3>1, <3>3
      <3>5. QED
        BY <1>7, <1>15, <3>1, <3>3, <3>4
    <2>4. QED
      BY <2>1, <2>2, <2>3
  <1>16. ASSUME ~Shifted, NEW k \in 1..(N + n)
         PROVE  /\ rows'[ids'[k]].index = claims'[k].index
                /\ claims'[k].merged > 0 => rows'[ids'[k]].prior = claims'[k].prior
    <2>1. CASE k \in 1..N
      BY <1>6, <1>14, <1>16, <2>1
    <2>2. CASE k \notin 1..N
      <3>1. PICK i \in 1..n : k = N + i
        BY <1>6, <2>2
      <3>2. RowOf(rows'[ids'[k]], new[i]) /\ claims'[k] = new[i]
        BY <1>6, <3>1
      <3>3. QED
        BY <3>2 DEF RowOf
    <2>3. QED
      BY <2>1, <2>2
  <1>17. InTurn'
    <2>1. Shifted' = Shifted
      BY <1>2 DEF Shifted
    <2>2. Len(ids') = N + n /\ Len(claims') = N + n
      BY <1>6
    <2>3. ASSUME ~Shifted'
          PROVE  /\ \A k, l \in 1..Len(ids') : k < l => ids'[k] < ids'[l]
                 /\ \A k \in 1..Len(claims') :
                      /\ rows'[ids'[k]].index = claims'[k].index
                      /\ claims'[k].merged > 0 => rows'[ids'[k]].prior = claims'[k].prior
      BY <1>15, <1>16, <2>1, <2>2, <2>3
    <2>4. QED
      BY <2>3 DEF InTurn
  <1>18. QED
    BY <1>12, <1>13, <1>17

\* What is discovered gets rows too.
LEMMA DiscoverKeeps ==
    ASSUME Inv, Discover
    PROVE  Inv'
  <1> USE DEF Inv
  <1> DEFINE New(n) == [i \in 1..n |-> Node(Found[i], Len(claims) + i - 1)]
  <1>1. PICK n \in 1..Len(Found) : claims' = claims \o New(n) /\ SaveClaims(New(n))
    BY DEF Discover
  <1>2. pc = "seeded" /\ pc' = "discovered" /\ extracted' = extracted
    BY DEF Discover
  <1>3. Found \in Seq(ToSet(Found)) /\ Len(Found) \in Nat /\ Len(claims) \in Nat
    BY FactsAssumption DEF Types
  <1>4. n \in Nat /\ \A i \in 1..n : Found[i] \in Nodes /\ Len(claims) + i - 1 \in Nat
    BY <1>3 DEF Nodes
  <1> DEFINE new == New(n)
  <1>5. /\ DOMAIN new = 1..n /\ new = [i \in 1..n |-> new[i]]
        /\ \A i \in 1..n : new[i] = Node(Found[i], Len(claims) + i - 1)
    OBVIOUS
  <1>6. claims' = claims \o new /\ SaveClaims(new)
    BY <1>1
  <1> HIDE DEF new, New
  <1>7. \A i \in 1..n : new[i] \in Claim /\ new[i].fact = Found[i] /\ new[i].vector = Found[i]
    BY <1>4, <1>5, NodeFacts
  <1>8. new \in Seq(Claim) /\ Len(new) = n
    BY <1>4, <1>5, <1>7, Mapped
  <1>9. Vectored(new)
    BY <1>7, <1>8 DEF Vectored
  <1>10. /\ claims' \in Seq(Claim) /\ claims' # <<>>
         /\ rows' \in Seq(Row) /\ ids' \in Seq(1..Len(rows')) /\ Len(ids') = Len(claims')
         /\ ~Shifted' => RowsDescribe'
         /\ NothingIsLost'
    BY <1>2, <1>6, <1>8, <1>9, GrownFacts
  <1>11. Types' /\ Ordered' /\ Fresh' /\ Saved' /\ Placed' /\ InStep' /\ InTurn'
    BY <1>2, <1>10 DEF Types, Ordered, Fresh, Saved, Placed, InStep, InTurn
  <1>12. MergeIsExact'
    BY <1>2, <1>10 DEF MergeIsExact, NoRestatementIsLeft
  <1>13. QED
    BY <1>11, <1>12

\* Nothing is there at the start.
LEMMA InitHolds ==
    ASSUME Init
    PROVE  Inv
  <1>1. pc = "start" /\ extracted = <<>> /\ claims = <<>> /\ rows = <<>> /\ ids = <<>>
    BY DEF Init
  <1>2. Len(claims) = 0 /\ \A k \in 1..Len(claims) : FALSE
    BY <1>1
  <1>3. /\ extracted \in Seq(RawClaim) /\ claims \in Seq(Claim) /\ rows \in Seq(Row)
        /\ ids \in Seq(1..Len(rows))
    BY <1>1
  <1>4. Types /\ Ordered
    BY <1>1, <1>2, <1>3 DEF Types, Ordered, InTextOrder
  <1>5. MergeIsExact
    BY <1>1, <1>2 DEF MergeIsExact, NothingIsLost, NoRestatementIsLeft
  <1>6. QED
    BY <1>1, <1>4, <1>5 DEF Inv, Fresh, Saved, Placed, InStep, InTurn

\* No step breaks the invariant.
LEMMA NextKeeps ==
    ASSUME Inv, [Next]_vars
    PROVE  Inv'
  <1>1. CASE UNCHANGED vars
    BY <1>1 DEF vars, Inv, Types, Ordered, Fresh, Saved, Placed, InStep, InTurn, InTextOrder, Vectored,
                Shifted, Said, Kept, RowsDescribe, MergeIsExact, NothingIsLost, NoRestatementIsLeft
  <1>2. CASE Extract
    BY <1>2, ExtractKeeps
  <1>3. CASE Merge
    BY <1>3, MergeKeeps
  <1>4. CASE UpdateRows
    BY <1>4, UpdateRowsKeeps
  <1>5. CASE RowMissing
    BY <1>5, RowMissingKeeps
  <1>6. CASE AddOutcomes
    BY <1>6, AddOutcomesKeeps
  <1>7. CASE Discover
    BY <1>7, DiscoverKeeps
  <1>8. QED
    BY <1>1, <1>2, <1>3, <1>4, <1>5, <1>6, <1>7 DEF Next

\* Every run keeps the invariant.
THEOREM InvHolds == Spec => []Inv
  <1>1. Init => Inv
    BY InitHolds
  <1>2. Inv /\ [Next]_vars => Inv'
    BY NextKeeps
  <1>3. QED
    BY <1>1, <1>2, PTL DEF Spec

\* Numbers that are listed in order come back in that order when they are put in
\* the order of something that grows along them.
LEMMA AlreadyArranged ==
    ASSUME NEW S, NEW list \in Seq(S), NEW before,
           \A i, j \in 1..Len(list) : <<i, j>> \in before <=> i < j
    PROVE  Arranged(list, before) = list
  <1> DEFINE n == Len(list)
             out == Arranged(list, before)
  <1>1. n \in Nat /\ \A i, j \in 1..n : <<i, j>> \in before <=> i < j
    OBVIOUS
  <1>2. Strict(Len(list), before)
    BY <1>1 DEF Strict
  <1>3. /\ out \in Seq(S) /\ Len(out) = Len(list)
        /\ \E s : /\ Orders(s, Len(list), before)
                  /\ \A k \in 1..Len(list) : out[k] = list[s[k]]
    BY <1>2, ArrangedFacts
  <1> HIDE DEF n, out
  <1>4. PICK s : Orders(s, Len(list), before) /\ \A k \in 1..Len(list) : out[k] = list[s[k]]
    BY <1>3
  <1>5. /\ s \in [1..n -> 1..n]
        /\ \A e \in 1..n : \E i \in 1..n : s[i] = e
        /\ \A i, j \in 1..n : i < j => s[i] # s[j] /\ <<s[j], s[i]>> \notin before
    BY <1>4 DEF Orders, n
  <1>6. ASSUME NEW i \in 1..n, NEW j \in 1..n, i < j PROVE s[i] < s[j]
    <2>1. s[i] \in 1..n /\ s[j] \in 1..n
      BY <1>5
    <2>4. s[i] # s[j] /\ <<s[j], s[i]>> \notin before
      BY <1>5, <1>6
    <2>5. ~(s[j] < s[i])
      BY <1>1, <2>1, <2>4
    <2>2. \A x, y \in 1..n : x # y /\ ~(y < x) => x < y
      BY <1>1
    <2>3. QED
      BY <2>1, <2>2, <2>4, <2>5
  <1> DEFINE places == 1..n
  <1>7. Lists(s, n, places)
    BY <1>5, <1>6 DEF Lists
  <1>8. places \in SUBSET Nat /\ n \in Nat
    BY <1>1
  <1> DEFINE t == [i \in 1..n |-> i]
  <1>9. Lists(t, n, places) /\ \A i \in 1..n : t[i] = i
    BY <1>1 DEF Lists
  <1> HIDE DEF places, t
  <1>14. \A i \in 1..n : s[i] = t[i]
    BY <1>7, <1>8, <1>9, ListsAgree
  <1>10. \A i \in 1..n : s[i] = i
    BY <1>9, <1>14
  <1>11. \A k \in 1..n : out[k] = list[k]
    BY <1>4, <1>10 DEF n
  <1>12. out = list
    BY <1>3, <1>11 DEF n
  <1>13. QED
    BY <1>12 DEF out

\* A list of numbers in order is what listing its set gives.
LEMMA ListedOnce ==
    ASSUME NEW n \in Nat, NEW indices \in SUBSET (1..n), NEW list \in Seq(1..n),
           Lists(list, Len(list), indices)
    PROVE  InOrder(indices) = list /\ InOrder(indices) \in Seq(1..n)
  <1> DEFINE k == Cardinality(indices)
             l == Len(list)
             s == InOrder(indices)
  <1>1. k \in Nat /\ Lists(s, k, indices)
    BY InOrderFacts
  <1>2. l \in Nat /\ Lists(list, l, indices) /\ indices \in SUBSET Nat
    OBVIOUS
  <1> HIDE DEF k, l, s
  <1>3. k <= l /\ \A i \in 1..k : s[i] = list[i]
    BY <1>1, <1>2, ListsAgree
  <1>4. l <= k
    BY <1>1, <1>2, ListsAgree
  <1>5. k = l
    BY <1>1, <1>2, <1>3, <1>4
  <1>6. s \in [1..l -> indices]
    BY <1>1, <1>5 DEF Lists
  <1>7. s \in [1..l -> 1..n] /\ s \in Seq(1..n) /\ list \in [1..l -> 1..n]
    <2>1. s \in [1..l -> 1..n]
      BY <1>6
    <2>2. s \in Seq(1..n)
      BY <1>2, <2>1, FunctionsAreSequences
    <2>3. list \in [1..l -> 1..n]
      BY DEF l
    <2>4. QED
      BY <2>1, <2>2, <2>3
  <1>8. \A i \in 1..l : s[i] = list[i]
    BY <1>3, <1>5
  <1>9. s = list
    <2>1. s = [i \in 1..l |-> s[i]] /\ list = [i \in 1..l |-> list[i]]
      BY <1>7
    <2>2. [i \in 1..l |-> s[i]] = [i \in 1..l |-> list[i]]
      BY <1>8
    <2>3. QED
      BY <2>1, <2>2
  <1>10. QED
    BY <1>7, <1>9 DEF s

\* A resumed run reads the claims as the first run went on with them.
LEMMA LoadedFacts ==
    ASSUME Inv, pc = "seeded", ~Shifted
    PROVE  Loaded = ids
  <1> USE DEF Inv
  <1> DEFINE present == {i \in DOMAIN rows : rows[i].live}
             n == Len(rows)
  <1>1. /\ ids \in Seq(1..Len(rows)) /\ Len(ids) = Len(claims) /\ rows \in Seq(Row) /\ claims \in Seq(Claim)
        /\ RowsDescribe /\ InTextOrder(claims)
        /\ \A k, l \in 1..Len(ids) : k < l => ids[k] < ids[l]
        /\ \A k \in 1..Len(claims) : rows[ids[k]].index = claims[k].index
    BY DEF Types, Ordered, InStep, InTurn
  <1>2. n \in Nat /\ DOMAIN rows = 1..n /\ Len(ids) \in Nat
    BY <1>1
  <1>3. present \in SUBSET (1..n) /\ \A i \in 1..n : i \in present <=> rows[i].live
    BY <1>2
  <1>4. ids \in Seq(1..n)
    BY <1>1
  <1>11. \A k \in 1..Len(ids) : ids[k] \in 1..n
    BY <1>1
  <1> HIDE DEF present, n
  <1>5. Lists(ids, Len(ids), present)
    <2>1. ASSUME NEW k \in 1..Len(ids) PROVE ids[k] \in present
      <3>1. ids[k] \in 1..n
        BY <1>11
      <3>2. k \in 1..Len(claims) /\ RowsDescribe
        BY <1>1
      <3>3. rows[ids[k]].live
        BY <3>2 DEF RowsDescribe
      <3>4. QED
        BY <1>3, <3>1, <3>3
    <2>2. ids \in [1..Len(ids) -> present]
      BY <1>4, <2>1
    <2>3. \A e \in present : \E k \in 1..Len(ids) : ids[k] = e
      BY <1>1, <1>3 DEF RowsDescribe, n
    <2>4. QED
      BY <1>1, <2>2, <2>3 DEF Lists
  <1>6. InOrder(present) = ids
    BY <1>2, <1>3, <1>4, <1>5, ListedOnce
  <1> DEFINE before == {p \in PlacesOf(ids) : rows[ids[p[1]]].index < rows[ids[p[2]]].index}
  <1>7. Loaded = Arranged(ids, before)
    BY <1>6 DEF Loaded, present
  <1>8. ASSUME NEW i \in 1..Len(ids), NEW j \in 1..Len(ids) PROVE <<i, j>> \in before <=> i < j
    <2>1. <<i, j>> \in before <=> rows[ids[i]].index < rows[ids[j]].index
      BY DEF PlacesOf
    <2> HIDE DEF before
    <2>2. rows[ids[i]].index = claims[i].index /\ rows[ids[j]].index = claims[j].index
      BY <1>1
    <2>3. claims[i].index \in Nat /\ claims[j].index \in Nat
      BY <1>1, ClaimNumbers
    <2>4. (i < j => claims[i].index < claims[j].index) /\ (j < i => claims[j].index < claims[i].index)
      BY <1>1 DEF InTextOrder
    <2>5. i < j \/ j < i \/ i = j
      BY <1>2
    <2>6. QED
      BY <1>2, <2>1, <2>2, <2>3, <2>4, <2>5
  <1> HIDE DEF before
  <1>9. Arranged(ids, before) = ids
    BY <1>4, <1>8, AlreadyArranged
  <1>10. QED
    BY <1>7, <1>9

\* The types of the claims in memory and of the rows, whatever the model returns:
\* priors stay probabilities (source_interest.py, claim_dedup.py).
THEOREM TypeCorrect == Spec => []TypeOK
  <1>1. Inv => TypeOK
    BY DEF Inv, Types, TypeOK, RawClaim, Claim, Row
  <1>2. QED
    BY <1>1, InvHolds, PTL

\* dedup_claims takes out what is said twice and nothing else: what a document
\* said is kept or alike to what is, and no two survivors are alike.
THEOREM MergeExact == Spec => []MergeIsExact
  <1>1. Inv => MergeIsExact
    BY DEF Inv
  <1>2. QED
    BY <1>1, InvHolds, PTL

\* However many claims are merged, each claim in memory has its own row, with its
\* text and its embedding, and no other row is left (_update_claim_embeddings).
THEOREM RowsInStep == Spec => []RowsDescribeUnshifted
  <1>1. Inv /\ HasRows /\ ~Shifted => pc # "index_error" /\ RowsDescribe
    BY DEF Inv, Placed, InStep, HasRows
  <1>2. Inv /\ ~Shifted => LiftIsSaved
    BY DEF Inv, InTurn, LiftIsSaved
  <1>3. Inv => RowsDescribeUnshifted
    BY <1>1, <1>2 DEF RowsDescribeUnshifted
  <1>4. QED
    BY <1>3, InvHolds, PTL

\* When discovery begins, a resumed run would read what the first run goes on
\* with: the same facts, embeddings and numbers, in the same order.
LEMMA CarriedOver ==
    ASSUME Inv, pc = "seeded", ~Shifted
    PROVE  [k \in 1..Len(Loaded) |-> Carried(rows[Loaded[k]])]
             = [k \in 1..Len(claims) |-> Carried(claims[k])]
  <1>1. Loaded = ids /\ Len(ids) = Len(claims)
    BY LoadedFacts DEF Inv, InStep
  <1>2. ASSUME NEW k \in 1..Len(claims) PROVE Carried(rows[ids[k]]) = Carried(claims[k])
    <2>1. rows[ids[k]].fact = claims[k].fact /\ rows[ids[k]].vector = claims[k].fact
      BY DEF Inv, InStep, RowsDescribe
    <2>2. claims[k].vector = claims[k].fact
      BY DEF Inv, Placed, Vectored
    <2>3. rows[ids[k]].index = claims[k].index
      BY DEF Inv, InTurn
    <2>4. QED
      BY <2>1, <2>2, <2>3 DEF Carried
  <1>3. QED
    BY <1>1, <1>2

\* Of the fields that _load_claims_from_db reads, and the prior is none of them, a
\* resumed run is given in the same order what the first run goes on with when
\* discovery begins (resume_analysis), for any document with its metadata last.
THEOREM ResumeSees == Spec => []ResumeSeesSameClaims
  <1>1. Inv => ResumeSeesSameClaims
    BY LoadedFacts, CarriedOver DEF ResumeSeesSameClaims
  <1>2. QED
    BY <1>1, InvHolds, PTL
=============================================================================
