---------------------------- MODULE IndicesProofs ---------------------------
(***************************************************************************)
(* What the other proofs need of numbers, sequences and selections.  The   *)
(* library's theorems of induction take an operator, which cannot be       *)
(* given; here induction is over sets of numbers (Stepwise).               *)
(***************************************************************************)
EXTENDS Indices, FiniteSetsExt, SequenceTheorems, FiniteSetTheorems, WellFoundedInduction, TLAPS

\* A non-empty set of naturals has a least element.
LEMMA LeastExists ==
    ASSUME NEW T, T \subseteq Nat, T # {}
    PROVE  \E m \in T : \A k \in T : m <= k
  <1>1. PICK m \in T : \A k \in T : ~(<<k, m>> \in OpToRel(<, Nat))
    BY NatLessThanWellFounded, WFMin
  <1>2. ASSUME NEW k \in T PROVE m <= k
    <2>1. m \in Nat /\ k \in Nat
      BY <1>1, <1>2
    <2>2. ~(k < m)
      BY <1>1, <2>1 DEF OpToRel
    <2>3. QED
      BY <2>1, <2>2
  <1>3. QED
    BY <1>2

\* What holds of 0 and of the successor of each it holds of, holds up to n.
LEMMA Stepwise ==
    ASSUME NEW n \in Nat, NEW good, good \subseteq 0..n, 0 \in good,
           \A m \in good : m # n => m + 1 \in good
    PROVE  good = 0..n
  <1> DEFINE missing == (0..n) \ good
  <1>1. SUFFICES ASSUME missing # {} PROVE FALSE
    OBVIOUS
  <1>2. missing \subseteq Nat
    OBVIOUS
  <1> HIDE DEF missing
  <1>3. PICK m \in missing : \A k \in missing : m <= k
    BY <1>1, <1>2, LeastExists
  <1>4. m \in 0..n /\ m \notin good
    BY <1>3 DEF missing
  <1>5. m # 0
    BY <1>4
  <1>6. m - 1 \in 0..n /\ m - 1 # n /\ m - 1 + 1 = m /\ ~(m <= m - 1)
    BY <1>4, <1>5
  <1>7. m - 1 \in good
    <2>1. m - 1 \notin missing
      BY <1>3, <1>6
    <2>2. QED
      BY <1>6, <2>1 DEF missing
  <1>8. m - 1 + 1 \in good
    BY <1>6, <1>7
  <1>9. QED
    BY <1>4, <1>6, <1>8

\* The values of a recursive function over a sequence of n elements.
Values(f, S, base, n, step) ==
    /\ f \in [0..n -> S]
    /\ f[0] = base
    /\ \A k \in 1..n : f[k] = step[k][f[k - 1]]

\* What is computed step by step exists.
LEMMA Recursion ==
    ASSUME NEW S, NEW base, base \in S, NEW n, n \in Nat,
           NEW step, step \in [1..n -> [S -> S]]
    PROVE  \E f : Values(f, S, base, n, step)
  <1> DEFINE Upto(m) == \E f \in [0..m -> S] :
                          f[0] = base /\ \A k \in 1..m : f[k] = step[k][f[k - 1]]
             good == {m \in 0..n : Upto(m)}
  <1>1. Upto(0)
    <2>1. PICK f \in [0..0 -> S] : f = [k \in 0..0 |-> base]
      OBVIOUS
    <2>2. f[0] = base
      BY <2>1
    <2>3. \A k \in 1..0 : f[k] = step[k][f[k - 1]]
      OBVIOUS
    <2>4. QED
      BY <2>1, <2>2, <2>3
  <1>2. ASSUME NEW m \in 0..n, m # n, Upto(m) PROVE Upto(m + 1)
    <2>1. PICK f \in [0..m -> S] : f[0] = base /\ \A k \in 1..m : f[k] = step[k][f[k - 1]]
      BY <1>2
    <2>2. f[m] \in S /\ m + 1 \in 1..n
      BY <1>2
    <2>3. step[m + 1][f[m]] \in S
      BY <2>2
    <2> DEFINE g == [k \in 0..(m + 1) |-> IF k = m + 1 THEN step[m + 1][f[m]] ELSE f[k]]
    <2>4. g \in [0..(m + 1) -> S]
      BY <2>1, <2>3
    <2>5. g[0] = base
      BY <2>1
    <2>6. ASSUME NEW k \in 1..(m + 1) PROVE g[k] = step[k][g[k - 1]]
      <3>1. CASE k = m + 1
        BY <3>1
      <3>2. CASE k # m + 1
        <4>1. k \in 1..m /\ k - 1 \in 0..m
          BY <3>2
        <4>2. g[k] = f[k] /\ g[k - 1] = f[k - 1]
          BY <4>1
        <4>3. QED
          BY <2>1, <4>1, <4>2
      <3>3. QED
        BY <3>1, <3>2
    <2>7. QED
      BY <2>4, <2>5, <2>6
  <1>3. good \subseteq 0..n /\ 0 \in good /\ n \in 0..n
    BY <1>1
  <1>4. ASSUME NEW m \in good, m # n PROVE m + 1 \in good
    <2>1. m \in 0..n /\ m + 1 \in 0..n /\ Upto(m)
      BY <1>4
    <2>2. Upto(m + 1)
      BY <1>2, <1>4, <2>1
    <2>3. QED
      BY <2>1, <2>2
  <1>5. good = 0..n
    <2> HIDE DEF good
    <2>1. QED
      BY <1>3, <1>4, Stepwise
  <1>6. Upto(n)
    BY <1>3, <1>5
  <1>7. QED
    BY <1>6 DEF Values

AtMost(indices, m) == {e \in indices : e <= m}
Lists(s, k, indices) ==
    /\ s \in [1..k -> indices]
    /\ \A i, j \in 1..k : i < j => s[i] < s[j]
    /\ \A e \in indices : \E i \in 1..k : s[i] = e
Listable(indices) == \E s : Lists(s, Cardinality(indices), indices)

\* What is in order stays in order with a greater index at its end.
LEMMA ListsFurther ==
    ASSUME NEW indices, NEW k \in Nat, NEW s, Lists(s, k, indices),
           NEW e \in Nat, \A d \in indices : d \in Nat /\ d < e
    PROVE  \E t : Lists(t, k + 1, indices \cup {e})
  <1> DEFINE t == [i \in 1..(k + 1) |-> IF i = k + 1 THEN e ELSE s[i]]
  <1>1. /\ s \in [1..k -> indices]
        /\ \A i, j \in 1..k : i < j => s[i] < s[j]
        /\ \A d \in indices : \E i \in 1..k : s[i] = d
    BY DEF Lists
  <1>2. \A i \in 1..(k + 1) : i # k + 1 => i \in 1..k
    OBVIOUS
  <1>3. t[k + 1] = e /\ \A i \in 1..k : t[i] = s[i] /\ i # k + 1
    OBVIOUS
  <1>4. t \in [1..(k + 1) -> indices \cup {e}]
    BY <1>1, <1>2
  <1> HIDE DEF t
  <1>5. ASSUME NEW i \in 1..(k + 1), NEW j \in 1..(k + 1), i < j PROVE t[i] < t[j]
    <2>1. i # k + 1
      BY <1>5
    <2>2. i \in 1..k /\ t[i] = s[i] /\ s[i] \in indices
      BY <1>1, <1>2, <1>3, <2>1
    <2>3. CASE j = k + 1
      BY <1>3, <2>2, <2>3
    <2>4. CASE j # k + 1
      BY <1>1, <1>2, <1>3, <1>5, <2>2, <2>4
    <2>5. QED
      BY <2>3, <2>4
  <1>6. ASSUME NEW d \in indices \cup {e} PROVE \E i \in 1..(k + 1) : t[i] = d
    <2>1. CASE d = e
      BY <1>3, <2>1
    <2>2. CASE d # e
      <3>1. PICK i \in 1..k : s[i] = d
        BY <1>1, <2>2
      <3>2. i \in 1..(k + 1) /\ t[i] = d
        BY <1>3, <3>1
      <3>3. QED
        BY <3>2
    <2>3. QED
      BY <2>1, <2>2
  <1>7. QED
    BY <1>4, <1>5, <1>6 DEF Lists

\* A set of indices has an order, and it lists each of them.
LEMMA InOrderFacts ==
    ASSUME NEW n \in Nat, NEW indices, indices \subseteq 1..n
    PROVE  /\ Cardinality(indices) \in Nat
           /\ Lists(InOrder(indices), Cardinality(indices), indices)
  <1> DEFINE good == {m \in 0..n : Listable(AtMost(indices, m))}
  <1>0. \A e \in indices : e \in Nat /\ 1 <= e /\ e <= n
    OBVIOUS
  <1>1. \A m \in 0..n : IsFiniteSet(AtMost(indices, m)) /\ Cardinality(AtMost(indices, m)) \in Nat
    <2>1. IsFiniteSet(1..n)
      BY FS_Interval
    <2>2. \A m \in 0..n : AtMost(indices, m) \subseteq 1..n
      BY DEF AtMost
    <2>3. QED
      BY <2>1, <2>2, FS_Subset, FS_CardinalityType
  <1>2. 0 \in good
    <2>1. AtMost(indices, 0) = {}
      <3>1. \A e \in indices : ~(e <= 0)
        BY <1>0
      <3>2. QED
        BY <3>1 DEF AtMost
    <2>2. Lists([i \in 1..0 |-> i], 0, {})
      BY DEF Lists
    <2>3. Listable({})
      BY <2>2, FS_EmptySet DEF Listable
    <2>4. QED
      BY <2>1, <2>3
  <1>3. ASSUME NEW m \in good, m # n PROVE m + 1 \in good
    <2>1. m \in 0..n /\ m + 1 \in 0..n /\ m + 1 \in Nat
      BY <1>3
    <2>2. CASE m + 1 \notin indices
      <3>1. AtMost(indices, m + 1) = AtMost(indices, m)
        <4>1. \A e \in indices : e <= m + 1 <=> e <= m
          BY <1>0, <2>1, <2>2
        <4>2. QED
          BY <4>1 DEF AtMost
      <3>2. QED
        BY <2>1, <3>1
    <2>3. CASE m + 1 \in indices
      <3>1. /\ AtMost(indices, m + 1) = AtMost(indices, m) \cup {m + 1}
            /\ m + 1 \notin AtMost(indices, m)
            /\ \A d \in AtMost(indices, m) : d \in Nat /\ d < m + 1
        <4>1. \A e \in indices : e <= m + 1 <=> e <= m \/ e = m + 1
          BY <1>0, <2>1
        <4>2. \A e \in indices : e <= m => e \in Nat /\ e < m + 1
          BY <1>0, <2>1
        <4>3. ~(m + 1 <= m) /\ m + 1 <= m + 1
          BY <2>1
        <4>4. QED
          BY <2>3, <4>1, <4>2, <4>3 DEF AtMost
      <3>2. Cardinality(AtMost(indices, m + 1)) = Cardinality(AtMost(indices, m)) + 1
        BY <1>1, <2>1, <3>1, FS_AddElement
      <3>3. PICK s : Lists(s, Cardinality(AtMost(indices, m)), AtMost(indices, m))
        BY DEF Listable
      <3>4. \E t : Lists(t, Cardinality(AtMost(indices, m)) + 1, AtMost(indices, m) \cup {m + 1})
        BY <1>1, <2>1, <3>1, <3>3, ListsFurther
      <3>5. Listable(AtMost(indices, m + 1))
        BY <3>1, <3>2, <3>4 DEF Listable
      <3>6. QED
        BY <2>1, <3>5
    <2>4. QED
      BY <2>2, <2>3
  <1>4. good \subseteq 0..n
    OBVIOUS
  <1>5. n \in good
    <2> HIDE DEF good
    <2>1. \A m \in good : m # n => m + 1 \in good
      BY <1>3
    <2>2. good = 0..n
      BY <1>2, <1>4, <2>1, Stepwise
    <2>3. QED
      BY <2>2
  <1>6. AtMost(indices, n) = indices
    BY <1>0 DEF AtMost
  <1>7. Cardinality(indices) \in Nat /\ Listable(indices)
    BY <1>1, <1>5, <1>6
  <1>8. PICK s : Lists(s, Cardinality(indices), indices)
    BY <1>7 DEF Listable
  <1> DEFINE c == Cardinality(indices)
             upto(i) == {j \in indices : j <= i}
  <1>9. ASSUME NEW k \in 1..c PROVE s[k] \in indices /\ Cardinality(upto(s[k])) = k
    <2>1. /\ k \in Nat /\ 1..k \subseteq 1..c
          /\ \A i \in 1..c : s[i] \in indices /\ s[i] \in Nat
          /\ \A i, j \in 1..c : i < j => s[i] < s[j]
          /\ \A e \in indices : \E i \in 1..c : s[i] = e
      <3>1. s \in [1..c -> indices]
        BY <1>8 DEF Lists
      <3>2. \A i \in 1..c : s[i] \in indices /\ s[i] \in Nat
        BY <1>0, <3>1
      <3>3. /\ \A i, j \in 1..c : i < j => s[i] < s[j]
            /\ \A e \in indices : \E i \in 1..c : s[i] = e
        BY <1>8 DEF Lists
      <3>4. c \in Nat
        BY <1>7
      <3> HIDE DEF c
      <3>5. k \in Nat /\ 1..k \subseteq 1..c
        BY <3>4
      <3>6. QED
        BY <3>2, <3>3, <3>5
    <2> DEFINE t == [i \in 1..k |-> s[i]]
    <2>2. \A i \in 1..k : s[i] \in upto(s[k])
      BY <2>1
    <2>3. \A i, j \in 1..k : i # j => s[i] # s[j]
      BY <2>1
    <2>4. \A e \in upto(s[k]) : \E i \in 1..k : s[i] = e
      <3>1. ASSUME NEW e \in upto(s[k]) PROVE \E i \in 1..k : s[i] = e
        <4>1. PICK i \in 1..c : s[i] = e
          BY <2>1, <3>1
        <4>2. ~(k < i)
          BY <2>1, <3>1, <4>1
        <4>3. QED
          BY <2>1, <4>1, <4>2
      <3>2. QED
        BY <3>1
    <2> HIDE DEF upto
    <2>5. t \in Bijection(1..k, upto(s[k]))
      <3>1. t \in [1..k -> upto(s[k])] /\ \A i \in 1..k : t[i] = s[i]
        BY <2>2
      <3> HIDE DEF t
      <3>2. t \in Injection(1..k, upto(s[k]))
        BY <2>3, <3>1 DEF Injection, IsInjective
      <3>3. t \in Surjection(1..k, upto(s[k]))
        BY <2>4, <3>1 DEF Surjection
      <3>4. QED
        BY <3>2, <3>3 DEF Bijection
    <2> HIDE DEF t
    <2>6. ExistsBijection(1..k, upto(s[k]))
      BY <2>5 DEF ExistsBijection
    <2>7. IsFiniteSet(1..k) /\ Cardinality(1..k) = k
      BY <2>1, FS_Interval
    <2>8. QED
      BY <2>1, <2>6, <2>7, FS_Bijection
  <1>10. ASSUME NEW k \in 1..c
         PROVE  (CHOOSE i \in indices : Cardinality(upto(i)) = k) = s[k]
    <2>1. ASSUME NEW i \in indices, Cardinality(upto(i)) = k PROVE i = s[k]
      <3>1. PICK m \in 1..c : s[m] = i
        BY <1>8 DEF Lists
      <3>2. QED
        BY <1>9, <2>1, <3>1
    <2>2. QED
      BY <1>9, <2>1
  <1>11. s \in [1..c -> indices]
    BY <1>8 DEF Lists
  <1>12. InOrder(indices) = [k \in 1..c |-> s[k]]
    BY <1>10 DEF InOrder
  <1>13. InOrder(indices) = s
    BY <1>11, <1>12
  <1>14. QED
    BY <1>7, <1>8, <1>13

\* A function on 1..m is a sequence.
LEMMA FunctionsAreSequences ==
    ASSUME NEW S, NEW m \in Nat, NEW f \in [1..m -> S]
    PROVE  f \in Seq(S) /\ Len(f) = m /\ DOMAIN f = 1..m
  OBVIOUS

\* What is picked of a list: its elements at the indices, each once, in order.
LEMMA PickedFacts ==
    ASSUME NEW S, NEW list \in Seq(S), NEW indices, indices \subseteq DOMAIN list
    PROVE  /\ Picked(list, indices) \in Seq(S)
           /\ Len(Picked(list, indices)) = Cardinality(indices)
           /\ \E kept :
                 /\ Lists(kept, Cardinality(indices), indices)
                 /\ \A n \in 1..Cardinality(indices) : Picked(list, indices)[n] = list[kept[n]]
  <1> DEFINE k == Cardinality(indices)
             kept == InOrder(indices)
             p == Picked(list, indices)
  <1>1. Len(list) \in Nat /\ DOMAIN list = 1..Len(list)
    OBVIOUS
  <1>2. k \in Nat /\ Lists(kept, k, indices)
    BY <1>1, InOrderFacts
  <1>3. p = [n \in DOMAIN kept |-> list[kept[n]]]
    BY DEF Picked
  <1> HIDE DEF kept, k, p
  <1>4. kept \in [1..k -> indices]
    BY <1>2 DEF Lists
  <1>5. DOMAIN kept = 1..k
    BY <1>4
  <1>6. \A i \in indices : list[i] \in S
    OBVIOUS
  <1>7. \A n \in 1..k : list[kept[n]] \in S
    BY <1>4, <1>6
  <1>8. p \in [1..k -> S] /\ \A n \in 1..k : p[n] = list[kept[n]]
    BY <1>3, <1>5, <1>7
  <1>9. p \in Seq(S) /\ Len(p) = k
    BY <1>2, <1>8, FunctionsAreSequences
  <1>10. QED
    BY <1>2, <1>8, <1>9 DEF k, p

\* What is picked is in the list.
LEMMA PickedIsIn ==
    ASSUME NEW S, NEW list \in Seq(S), NEW indices, indices \subseteq DOMAIN list,
           NEW n \in 1..Len(Picked(list, indices))
    PROVE  \E i \in indices : Picked(list, indices)[n] = list[i]
  <1>1. PICK kept : /\ Lists(kept, Cardinality(indices), indices)
                    /\ \A m \in 1..Cardinality(indices) : Picked(list, indices)[m] = list[kept[m]]
    BY PickedFacts
  <1>2. n \in 1..Cardinality(indices)
    BY PickedFacts
  <1>3. kept[n] \in indices
    BY <1>1, <1>2 DEF Lists
  <1>4. QED
    BY <1>1, <1>2, <1>3

\* A set of naturals that is bounded has a greatest element.
LEMMA MaxFacts ==
    ASSUME NEW S, S \subseteq Nat, S # {}, NEW bound \in Nat, \A k \in S : k <= bound
    PROVE  Max(S) \in S /\ \A k \in S : k <= Max(S)
  <1> DEFINE above == {m \in Nat : \A k \in S : k <= m}
  <1>1. above \subseteq Nat /\ bound \in above
    OBVIOUS
  <1>2. PICK m \in above : \A k \in above : m <= k
    <2> HIDE DEF above
    <2>1. QED
      BY <1>1, LeastExists
  <1>3. m \in Nat /\ \A k \in S : k <= m /\ k \in Nat
    BY <1>2
  <1>4. m \in S
    <2>1. SUFFICES ASSUME m \notin S PROVE FALSE
      OBVIOUS
    <2>2. \A k \in S : k <= m - 1
      BY <1>3, <2>1
    <2>3. m # 0
      <3>1. PICK k \in S : TRUE
        OBVIOUS
      <3>2. QED
        BY <1>3, <2>2, <3>1
    <2>4. m - 1 \in above
      BY <1>3, <2>2, <2>3
    <2>5. QED
      BY <1>2, <1>3, <2>4
  <1>5. \E x \in S : \A y \in S : x >= y
    BY <1>3, <1>4
  <1>6. Max(S) \in S /\ \A y \in S : Max(S) >= y
    BY <1>5 DEF Max
  <1>7. QED
    BY <1>6

\* The numbers at the places of a sequence have a bound.
LEMMA BoundExists ==
    ASSUME NEW n \in Nat, NEW f, \A i \in 1..n : f[i] \in Nat
    PROVE  \E b \in Nat : \A i \in 1..n : f[i] <= b
  <1> DEFINE Under(m) == \E b \in Nat : \A i \in 1..m : f[i] <= b
             good == {m \in 0..n : Under(m)}
  <1>1. 0 \in good
    <2>1. \A i \in 1..0 : f[i] <= 0
      OBVIOUS
    <2>2. QED
      BY <2>1
  <1>2. ASSUME NEW m \in good, m # n PROVE m + 1 \in good
    <2>1. m \in 0..n /\ m + 1 \in 1..n /\ m + 1 \in 0..n
      BY <1>2
    <2>2. PICK b \in Nat : \A i \in 1..m : f[i] <= b
      OBVIOUS
    <2>3. f[m + 1] \in Nat
      BY <2>1
    <2>4. PICK d \in Nat : b <= d /\ f[m + 1] <= d
      BY <2>3
    <2>5. ASSUME NEW i \in 1..(m + 1) PROVE f[i] <= d
      <3>1. CASE i = m + 1
        BY <2>4, <3>1
      <3>2. CASE i # m + 1
        <4>1. i \in 1..m /\ i \in 1..n
          BY <2>1, <3>2
        <4>2. f[i] <= b /\ f[i] \in Nat
          BY <2>2, <4>1
        <4>3. QED
          BY <2>4, <4>2
      <3>3. QED
        BY <3>1, <3>2
    <2>6. Under(m + 1)
      BY <2>5
    <2>7. QED
      BY <2>1, <2>6
  <1>3. good \subseteq 0..n /\ n \in 0..n
    OBVIOUS
  <1>4. n \in good
    <2> HIDE DEF good
    <2>1. QED
      BY <1>1, <1>2, <1>3, Stepwise
  <1>5. QED
    BY <1>4

\* There is only one way to list a set of numbers in order.
LEMMA ListsAgree ==
    ASSUME NEW indices \in SUBSET Nat, NEW k \in Nat, NEW s, Lists(s, k, indices),
           NEW l \in Nat, NEW t, Lists(t, l, indices)
    PROVE  k <= l /\ \A i \in 1..k : s[i] = t[i]
  <1> DEFINE good == {m \in 0..k : m <= l /\ \A i \in 1..m : s[i] = t[i]}
  <1>1. /\ \A i \in 1..k : s[i] \in indices /\ s[i] \in Nat
        /\ \A i, j \in 1..k : i < j => s[i] < s[j]
        /\ \A e \in indices : \E i \in 1..k : s[i] = e
    BY DEF Lists
  <1>2. /\ \A i \in 1..l : t[i] \in indices /\ t[i] \in Nat
        /\ \A i, j \in 1..l : i < j => t[i] < t[j]
        /\ \A e \in indices : \E i \in 1..l : t[i] = e
    BY DEF Lists
  <1>3. 0 \in good
    OBVIOUS
  <1>4. ASSUME NEW m \in good, m # k PROVE m + 1 \in good
    <2>1. m \in 0..k /\ m <= l /\ m + 1 \in 1..k /\ m + 1 \in 0..k /\ \A i \in 1..m : s[i] = t[i]
      BY <1>4
    <2>2. PICK j \in 1..l : t[j] = s[m + 1]
      BY <1>1, <1>2, <2>1
    <2>3. ~(j <= m)
      <3>1. SUFFICES ASSUME j <= m PROVE FALSE
        OBVIOUS
      <3>2. j \in 1..m /\ j \in 1..k /\ j < m + 1
        BY <2>1, <3>1
      <3>3. s[j] = s[m + 1] /\ s[j] < s[m + 1] /\ s[j] \in Nat
        BY <1>1, <2>1, <2>2, <3>2
      <3>4. QED
        BY <3>3
    <2>4. m + 1 \in 1..l
      BY <2>1, <2>3
    <2>5. s[m + 1] = t[m + 1]
      <3>1. SUFFICES ASSUME j # m + 1 PROVE FALSE
        BY <2>2
      <3>2. m + 1 < j
        BY <2>1, <2>3, <3>1
      <3>3. t[m + 1] < t[j] /\ t[m + 1] \in indices /\ t[m + 1] \in Nat
        BY <1>2, <2>4, <3>2
      <3>4. PICK i \in 1..k : s[i] = t[m + 1]
        BY <1>1, <3>3
      <3>5. s[i] < s[m + 1] /\ s[m + 1] \in Nat
        BY <1>1, <2>1, <2>2, <3>3, <3>4
      <3>6. i < m + 1
        <4>1. i = m + 1 \/ m + 1 < i \/ i < m + 1
          BY <2>1
        <4>2. i # m + 1
          BY <3>3, <3>5
        <4>3. ~(m + 1 < i)
          <5>1. SUFFICES ASSUME m + 1 < i PROVE FALSE
            OBVIOUS
          <5>2. s[m + 1] < s[i] /\ s[i] \in Nat
            BY <1>1, <2>1, <5>1
          <5>3. QED
            BY <3>5, <5>2
        <4>4. QED
          BY <4>1, <4>2, <4>3
      <3>7. i \in 1..m /\ i \in 1..l
        BY <2>1, <3>6
      <3>8. t[i] = t[m + 1] /\ t[i] < t[m + 1]
        BY <1>2, <2>1, <2>4, <3>4, <3>6, <3>7
      <3>9. QED
        BY <3>3, <3>8
    <2>6. \A i \in 1..(m + 1) : i \in 1..m \/ i = m + 1
      BY <2>1
    <2>7. m + 1 <= l /\ \A i \in 1..(m + 1) : s[i] = t[i]
      BY <2>1, <2>4, <2>5, <2>6
    <2>8. QED
      BY <2>1, <2>7
  <1>5. good \subseteq 0..k /\ k \in 0..k
    OBVIOUS
  <1>6. k \in good
    <2> HIDE DEF good
    <2>1. QED
      BY <1>3, <1>4, <1>5, Stepwise
  <1>7. QED
    BY <1>6

-----------------------------------------------------------------------------
(* Keeping the first of what is close *)

\* Places of the first m that are kept: no two are close, and what is not kept
\* is close to one before it.
Sifted(kept, m, close) ==
    /\ kept \subseteq 1..m
    /\ \A i, j \in kept : i < j => <<i, j>> \notin close
    /\ \A j \in (1..m) \ kept : \E i \in kept : i < j /\ <<i, j>> \in close

\* What is kept of the first n, one place after the other.
LEMMA FirstsUptoFacts ==
    ASSUME NEW n \in Nat, NEW close
    PROVE  /\ FirstsUpto(n, close)[0] = {}
           /\ \A m \in 0..n, k \in 0..n : m # 0 /\ k = m - 1 =>
                FirstsUpto(n, close)[m] =
                  IF \E i \in FirstsUpto(n, close)[k] : <<i, m>> \in close
                  THEN FirstsUpto(n, close)[k] ELSE FirstsUpto(n, close)[k] \cup {m}
  <1> DEFINE T == SUBSET (1..n)
             Rec(f) == f = [m \in 0..n |->
                              IF m = 0 THEN {}
                              ELSE IF \E i \in f[m - 1] : <<i, m>> \in close THEN f[m - 1]
                              ELSE f[m - 1] \cup {m}]
             step == [k \in 1..n |-> [K \in T |->
                        IF \E i \in K : <<i, k>> \in close THEN K ELSE K \cup {k}]]
  <1>1. step \in [1..n -> [T -> T]] /\ {} \in T
    OBVIOUS
  <1>2. PICK f : Values(f, T, {}, n, step)
    <2> HIDE DEF step, T
    <2>1. QED
      BY <1>1, Recursion
  <1>3. f \in [0..n -> T] /\ f[0] = {} /\ \A k \in 1..n : f[k] = step[k][f[k - 1]]
    <2> HIDE DEF step, T
    <2>1. QED
      BY <1>2 DEF Values
  <1>4. ASSUME NEW m \in 0..n
        PROVE  f[m] = IF m = 0 THEN {}
                      ELSE IF \E i \in f[m - 1] : <<i, m>> \in close THEN f[m - 1]
                      ELSE f[m - 1] \cup {m}
    <2>1. CASE m = 0
      BY <1>3, <2>1
    <2>2. CASE m # 0
      <3>1. m \in 1..n /\ m - 1 \in 0..n /\ f[m - 1] \in T
        BY <1>3, <2>2
      <3>2. f[m] = step[m][f[m - 1]]
        BY <1>3, <3>1
      <3>3. QED
        BY <2>2, <3>1, <3>2
    <2>3. QED
      BY <2>1, <2>2
  <1>5. Rec(f)
    <2>1. DOMAIN f = 0..n /\ f = [m \in 0..n |-> f[m]]
      BY <1>3
    <2> HIDE DEF step, T
    <2>2. QED
      BY <1>4, <2>1
  <1>6. PICK g : Rec(g) /\ g = CHOOSE h : Rec(h)
    BY <1>5
  <1>7. FirstsUpto(n, close) = g
    BY <1>6 DEF FirstsUpto
  <1>8. ASSUME NEW m \in 0..n
        PROVE  g[m] = IF m = 0 THEN {}
                      ELSE IF \E i \in g[m - 1] : <<i, m>> \in close THEN g[m - 1]
                      ELSE g[m - 1] \cup {m}
    BY <1>6
  <1> HIDE DEF Rec
  <1>9. 0 \in 0..n
    OBVIOUS
  <1>10. g[0] = {}
    BY <1>8, <1>9
  <1>11. ASSUME NEW m \in 0..n, NEW k \in 0..n, m # 0, k = m - 1
         PROVE  g[m] = IF \E i \in g[k] : <<i, m>> \in close THEN g[k] ELSE g[k] \cup {m}
    BY <1>8, <1>11
  <1>12. QED
    BY <1>7, <1>10, <1>11

\* What is kept.
LEMMA FirstsFacts ==
    ASSUME NEW n \in Nat, NEW close
    PROVE  Sifted(Firsts(n, close), n, close)
  <1> DEFINE f == FirstsUpto(n, close)
             good == {m \in 0..n : Sifted(f[m], m, close)}
  <1>1. /\ f[0] = {}
        /\ \A m, k \in 0..n : m # 0 /\ k = m - 1 =>
             f[m] = IF \E i \in f[k] : <<i, m>> \in close THEN f[k] ELSE f[k] \cup {m}
    BY FirstsUptoFacts
  <1> HIDE DEF f
  <1>2. 0 \in good
    BY <1>1 DEF Sifted
  <1>3. ASSUME NEW m \in good, m # n PROVE m + 1 \in good
    <2>1. m \in 0..n /\ m + 1 \in 0..n /\ m + 1 # 0 /\ m = (m + 1) - 1
      BY <1>3
    <2>2. f[m + 1] = IF \E i \in f[m] : <<i, m + 1>> \in close THEN f[m] ELSE f[m] \cup {m + 1}
      BY <1>1, <2>1
    <2>3. /\ f[m] \subseteq 1..m
          /\ \A i, j \in f[m] : i < j => <<i, j>> \notin close
          /\ \A j \in (1..m) \ f[m] : \E i \in f[m] : i < j /\ <<i, j>> \in close
      BY DEF Sifted
    <2>4. \A i \in f[m] : i \in 1..m /\ i < m + 1
      BY <2>3
    <2>5. 1..(m + 1) = (1..m) \cup {m + 1}
      BY <2>1
    <2>6. CASE \E i \in f[m] : <<i, m + 1>> \in close
      <3>1. f[m + 1] = f[m]
        BY <2>2, <2>6
      <3>2. \A j \in (1..(m + 1)) \ f[m] : \E i \in f[m] : i < j /\ <<i, j>> \in close
        BY <2>3, <2>4, <2>5, <2>6
      <3>3. Sifted(f[m + 1], m + 1, close)
        BY <2>3, <2>5, <3>1, <3>2 DEF Sifted
      <3>4. QED
        BY <2>1, <3>3
    <2>7. CASE ~(\E i \in f[m] : <<i, m + 1>> \in close)
      <3>1. f[m + 1] = f[m] \cup {m + 1}
        BY <2>2, <2>7
      <3>2. ASSUME NEW i \in f[m + 1], NEW j \in f[m + 1], i < j PROVE <<i, j>> \notin close
        <4>1. i \in f[m]
          <5>1. i # m + 1
            BY <2>1, <2>4, <3>1, <3>2
          <5>2. QED
            BY <3>1, <5>1
        <4>2. QED
          BY <2>3, <2>7, <3>1, <3>2, <4>1
      <3>3. \A j \in (1..(m + 1)) \ f[m + 1] : \E i \in f[m + 1] : i < j /\ <<i, j>> \in close
        BY <2>3, <2>5, <3>1
      <3>4. f[m + 1] \subseteq 1..(m + 1)
        BY <2>3, <2>5, <3>1
      <3>5. Sifted(f[m + 1], m + 1, close)
        BY <3>2, <3>3, <3>4 DEF Sifted
      <3>6. QED
        BY <2>1, <3>5
    <2>8. QED
      BY <2>6, <2>7
  <1>4. good \subseteq 0..n /\ n \in 0..n
    OBVIOUS
  <1>5. n \in good
    <2> HIDE DEF good
    <2>1. \A m \in good : m # n => m + 1 \in good
      BY <1>3
    <2>2. QED
      BY <1>2, <1>4, <2>1, Stepwise
  <1>6. QED
    BY <1>5 DEF Firsts, f
=============================================================================
