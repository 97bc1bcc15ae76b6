-------------------------- MODULE OpenIntervalsProofs --------------------------
(***************************************************************************)
(* The heap of open intervals, for any list of closed intervals in any     *)
(* range: what it offers is what they leave free.  The model's loops are   *)
(* functions defined step by step; that these exist, and that lists can be *)
(* sorted, follows from the least-number principle alone.                  *)
(***************************************************************************)
EXTENDS SimPerceptionProperties, WellFoundedInduction, FiniteSetTheorems, TLAPS

-------------------------------------------------------------------------------
(* Induction over sets of numbers, and what it gives for recursive         *)
(* functions.                                                              *)

\* A set of natural numbers has a least one.
LEMMA LeastNumber ==
  ASSUME NEW T, T \subseteq Nat, T # {}
  PROVE  \E x \in T : \A y \in T : x <= y
<1>. DEFINE R == {p \in Nat \X Nat : p[1] < p[2]}
<1>1. IsWellFoundedOn(R, Nat)
  <2>1. OpToRel(<, Nat) = R
    BY DEF OpToRel
  <2>. QED BY <2>1, NatLessThanWellFounded
<1>2. PICK x \in T : \A y \in T : ~(<<y, x>> \in R)
  <2>. HIDE DEF R
  <2>. QED BY <1>1, WFMin
<1>3. ASSUME NEW y \in T PROVE x <= y
  <2>1. x \in Nat /\ y \in Nat
    OBVIOUS
  <2>2. y < x => <<y, x>> \in R
    BY <2>1
  <2>. QED BY <1>2, <2>1, <2>2
<1>. QED BY <1>3

\* A set of natural numbers with 0, and with the successor of each, is all of them.
LEMMA SetInduction ==
  ASSUME NEW T, 0 \in T, \A n \in Nat : n \in T => n + 1 \in T
  PROVE  Nat \subseteq T
<1>. SUFFICES ASSUME Nat \ T # {} PROVE FALSE
  OBVIOUS
<1>1. PICK x \in Nat \ T : \A y \in Nat \ T : x <= y
  BY LeastNumber
<1>2. x # 0 /\ x - 1 \in Nat
  OBVIOUS
<1>3. x - 1 \in T
  BY <1>1, <1>2
<1>. QED BY <1>2, <1>3

\* f starts with base, and each of its n further values is a step from the one before.
StepByStep(f, n, X, base, step) ==
  /\ f \in [0 .. n -> X]
  /\ f[0] = base
  /\ \A i \in 1 .. n : f[i] = step[<<f[i - 1], i>>]

\* A function that is defined step by step exists.
LEMMA Recursion ==
  ASSUME NEW X, NEW base \in X, NEW n \in Nat, NEW step \in [X \X (1 .. n) -> X]
  PROVE  \E f : StepByStep(f, n, X, base, step)
<1>. DEFINE Rec(m, f) == StepByStep(f, m, X, base, step)
            T == {m \in Nat : m <= n => \E f : Rec(m, f)}
<1>1. 0 \in T
  <2>1. Rec(0, [i \in 0 .. 0 |-> base])
    BY DEF StepByStep
  <2>. QED BY <2>1
<1>2. ASSUME NEW m \in Nat, m \in T PROVE m + 1 \in T
  <2>. SUFFICES ASSUME m + 1 <= n PROVE \E f : Rec(m + 1, f)
    OBVIOUS
  <2>1. PICK f : Rec(m, f)
    BY <1>2
  <2>2. m + 1 \in 1 .. n /\ f[m] \in X
    BY <2>1 DEF StepByStep
  <2>. DEFINE g == [i \in 0 .. m + 1 |-> IF i = m + 1 THEN step[<<f[m], m + 1>>] ELSE f[i]]
  <2>3. step[<<f[m], m + 1>>] \in X
    BY <2>2
  <2>4. g \in [0 .. m + 1 -> X]
    BY <2>1, <2>3 DEF StepByStep
  <2>5. g[0] = base
    BY <2>1 DEF StepByStep
  <2>6. ASSUME NEW i \in 1 .. m + 1 PROVE g[i] = step[<<g[i - 1], i>>]
    <3>1. CASE i = m + 1
      <4>1. g[i] = step[<<f[m], i>>] /\ g[i - 1] = f[m]
        BY <3>1
      <4>. QED BY <4>1
    <3>2. CASE i # m + 1
      <4>1. i \in 1 .. m /\ g[i] = f[i] /\ g[i - 1] = f[i - 1]
        BY <3>2
      <4>. HIDE DEF g
      <4>. QED BY <2>1, <4>1 DEF StepByStep
    <3>. QED BY <3>1, <3>2
  <2>7. Rec(m + 1, g)
    BY <2>4, <2>5, <2>6 DEF StepByStep
  <2>. QED BY <2>7
<1>3. n \in T
  <2>. HIDE DEF T
  <2>. QED BY <1>1, <1>2, SetInduction
<1>. QED BY <1>3

-------------------------------------------------------------------------------
(* Lists.                                                                  *)

\* g names the places of a list's first n elements that are kept, in order.
Names(g, m, n, places) ==
  /\ g \in [1 .. m -> (1 .. n) \cap places]
  /\ \A j, k \in 1 .. m : j < k => g[j] < g[k]
  /\ \A i \in (1 .. n) \cap places : \E k \in 1 .. m : g[k] = i

\* What is left of a list are the elements at the places kept, in their order.
LEMMA AtKeeps ==
  ASSUME NEW S, NEW s \in Seq(S), NEW places
  PROVE  /\ At(s, places) \in Seq(S)
         /\ \E g : /\ Names(g, Len(At(s, places)), Len(s), places)
                   /\ \A k \in 1 .. Len(At(s, places)) : At(s, places)[k] = s[g[k]]
<1>. DEFINE n == Len(s)
            X == Seq(S)
            step == [p \in X \X (1 .. n) |-> IF p[2] \in places THEN Append(p[1], s[p[2]]) ELSE p[1]]
            Kept(f) == f = [i \in 0 .. n |->
                              IF i = 0 THEN <<>>
                              ELSE IF i \in places THEN Append(f[i - 1], s[i]) ELSE f[i - 1]]
<1>0. <<>> \in X /\ n \in Nat
  OBVIOUS
<1>1. \E f : f \in [0 .. n -> X] /\ Kept(f)
  <2>2. step \in [X \X (1 .. n) -> X]
    <3>1. ASSUME NEW p \in X \X (1 .. n)
          PROVE  (IF p[2] \in places THEN Append(p[1], s[p[2]]) ELSE p[1]) \in X
      <4>1. p[1] \in Seq(S) /\ s[p[2]] \in S
        OBVIOUS
      <4>. QED BY <4>1
    <3>. QED BY <3>1
  <2>3. PICK f : StepByStep(f, n, X, <<>>, step)
    <3>. HIDE DEF step, X, n
    <3>. QED BY <1>0, <2>2, Recursion
  <2>4. ASSUME NEW i \in 1 .. n
        PROVE  step[<<f[i - 1], i>>] = IF i \in places THEN Append(f[i - 1], s[i]) ELSE f[i - 1]
    <3>1. f[i - 1] \in X
      <4>. HIDE DEF step, X, n
      <4>1. i - 1 \in 0 .. n
        BY <1>0
      <4>. QED BY <2>3, <4>1 DEF StepByStep
    <3>2. <<f[i - 1], i>> \in X \X (1 .. n)
      <4>. HIDE DEF step, X, n
      <4>. QED BY <3>1
    <3>. HIDE DEF X, n
    <3>. QED BY <3>2
  <2>5. Kept(f)
    <3>1. \A i \in 0 .. n : i # 0 => i \in 1 .. n
      <4>. HIDE DEF n
      <4>. QED BY <1>0
    <3>. HIDE DEF step, X, n
    <3>. QED BY <2>3, <2>4, <3>1 DEF StepByStep
  <2>. QED BY <2>3, <2>5 DEF StepByStep
<1>2. PICK f : Kept(f) /\ At(s, places) = f[n]
  <2>. HIDE DEF X, step
  <2>. QED BY <1>1 DEF At
<1>. DEFINE Ok(i) == /\ f[i] \in Seq(S)
                     /\ \E g : /\ Names(g, Len(f[i]), i, places)
                               /\ \A k \in 1 .. Len(f[i]) : f[i][k] = s[g[k]]
            T == {i \in Nat : i <= n => Ok(i)}
<1>3. 0 \in T
  <2>1. f[0] = <<>>
    BY <1>2
  <2>2. Names([k \in 1 .. 0 |-> 0], 0, 0, places)
    BY DEF Names
  <2>3. Len(f[0]) = 0
    BY <2>1
  <2>4. Ok(0)
    BY <2>1, <2>2, <2>3
  <2>. QED BY <2>4
<1>4. ASSUME NEW i \in Nat, i \in T PROVE i + 1 \in T
  <2>. SUFFICES ASSUME i + 1 <= n PROVE Ok(i + 1)
    OBVIOUS
  <2>1. PICK g : /\ Names(g, Len(f[i]), i, places)
                 /\ \A k \in 1 .. Len(f[i]) : f[i][k] = s[g[k]]
    BY <1>4
  <2>2. f[i] \in Seq(S) /\ s[i + 1] \in S /\ Len(f[i]) \in Nat
    BY <1>4
  <2>3. f[i + 1] = IF i + 1 \in places THEN Append(f[i], s[i + 1]) ELSE f[i]
    <3>1. i + 1 \in 0 .. n /\ i + 1 # 0 /\ (i + 1) - 1 = i
      OBVIOUS
    <3>. HIDE DEF n
    <3>. QED BY <1>2, <3>1
  <2>. DEFINE m == Len(f[i])
  <2>4. CASE i + 1 \in places
    <3>. DEFINE h == [k \in 1 .. m + 1 |-> IF k = m + 1 THEN i + 1 ELSE g[k]]
    <3>1. f[i + 1] \in Seq(S) /\ Len(f[i + 1]) = m + 1
          /\ \A k \in 1 .. m + 1 : f[i + 1][k] = IF k = m + 1 THEN s[i + 1] ELSE f[i][k]
      BY <2>2, <2>3, <2>4
    <3>2. Names(h, m + 1, i + 1, places)
      <4>. m \in Nat
        BY <2>2
      <4>. HIDE DEF m
      <4>1. h \in [1 .. m + 1 -> (1 .. i + 1) \cap places]
        BY <2>1, <2>4 DEF Names, m
      <4>2. ASSUME NEW j \in 1 .. m + 1, NEW k \in 1 .. m + 1, j < k PROVE h[j] < h[k]
        <5>. g \in [1 .. m -> (1 .. i) \cap places]
          BY <2>1 DEF Names, m
        <5>1. j \in 1 .. m /\ h[j] = g[j] /\ g[j] \in 1 .. i
          BY <4>2
        <5>2. CASE k = m + 1
          BY <5>1, <5>2
        <5>3. CASE k # m + 1
          BY <2>1, <4>2, <5>1, <5>3 DEF Names, m
        <5>. QED BY <5>2, <5>3
      <4>3. ASSUME NEW l \in (1 .. i + 1) \cap places PROVE \E k \in 1 .. m + 1 : h[k] = l
        <5>1. CASE l = i + 1
          BY <5>1
        <5>2. CASE l # i + 1
          <6>1. PICK k \in 1 .. m : g[k] = l
            BY <2>1, <5>2 DEF Names, m
          <6>. QED BY <6>1
        <5>. QED BY <5>1, <5>2
      <4>. QED BY <4>1, <4>2, <4>3 DEF Names
    <3>3. ASSUME NEW k \in 1 .. m + 1 PROVE f[i + 1][k] = s[h[k]]
      <4>1. m \in Nat /\ f[i + 1][k] = IF k = m + 1 THEN s[i + 1] ELSE f[i][k]
        BY <2>2, <3>1
      <4>2. k # m + 1 => k \in 1 .. m /\ f[i][k] = s[g[k]]
        <5>. HIDE DEF m
        <5>1. k # m + 1 => k \in 1 .. m
          BY <4>1
        <5>. QED BY <2>1, <5>1 DEF m
      <4>. HIDE DEF m
      <4>3. h[k] = IF k = m + 1 THEN i + 1 ELSE g[k]
        OBVIOUS
      <4>. QED BY <4>1, <4>2, <4>3
    <3>. QED BY <3>1, <3>2, <3>3
  <2>5. CASE i + 1 \notin places
    <3>1. (1 .. i + 1) \cap places = (1 .. i) \cap places
      BY <2>5
    <3>2. Names(g, m, i + 1, places)
      BY <2>1, <3>1 DEF Names
    <3>3. f[i + 1] = f[i]
      BY <2>3, <2>5
    <3>. QED BY <2>1, <2>2, <3>2, <3>3
  <2>. QED BY <2>4, <2>5
<1>5. n \in Nat /\ n \in T
  <2>. HIDE DEF T
  <2>. QED BY <1>3, <1>4, SetInduction
<1>6. Ok(n)
  BY <1>5
<1>7. At(s, places) = f[n]
  BY <1>2
<1>. HIDE DEF Kept, T, X, step
<1>. QED BY <1>6, <1>7

\* p puts the first m elements of a list in an order: none comes after one it is less than.
Arranges(p, m, s, R) ==
  /\ p \in [1 .. m -> 1 .. m]
  /\ \A i, j \in 1 .. m : i # j => p[i] # p[j]
  /\ \A l \in 1 .. m : \E i \in 1 .. m : p[i] = l
  /\ \A i, j \in 1 .. m : i < j => <<s[p[j]], s[p[i]]>> \notin R

\* A list can be sorted by any order: the next element is put before the first that it is
\* less than.
LEMMA Sortable ==
  ASSUME NEW S, NEW s \in Seq(S), NEW R,
         \A x \in S : <<x, x>> \notin R,
         \A x, y, z \in S : <<x, y>> \in R /\ <<y, z>> \in R => <<x, z>> \in R
  PROVE  \E p : Arranges(p, Len(s), s, R)
<1>. DEFINE n == Len(s)
            T == {m \in Nat : m <= n => \E p : Arranges(p, m, s, R)}
<1>1. 0 \in T
  <2>1. Arranges([i \in 1 .. 0 |-> 0], 0, s, R)
    BY DEF Arranges
  <2>. QED BY <2>1
<1>2. ASSUME NEW m \in Nat, m \in T PROVE m + 1 \in T
  <2>. SUFFICES ASSUME m + 1 <= n PROVE \E q : Arranges(q, m + 1, s, R)
    OBVIOUS
  <2>1. PICK p : Arranges(p, m, s, R)
    BY <1>2
  <2>2. \A i \in 1 .. m + 1 : s[i] \in S
    OBVIOUS
  <2>. DEFINE x == s[m + 1]
              K == {k \in 1 .. m + 1 : k = m + 1 \/ <<x, s[p[k]]>> \in R}
  <2>3. PICK k \in K : \A l \in K : k <= l
    <3>1. K \subseteq Nat /\ m + 1 \in K
      OBVIOUS
    <3>. HIDE DEF K
    <3>. QED BY <3>1, LeastNumber
  <2>4. k \in 1 .. m + 1 /\ \A i \in 1 .. m : i < k => <<x, s[p[i]]>> \notin R
    BY <2>3
  <2>5. k # m + 1 => <<x, s[p[k]]>> \in R
    BY <2>3
  <2>. DEFINE q == [i \in 1 .. m + 1 |-> IF i < k THEN p[i] ELSE IF i = k THEN m + 1 ELSE p[i - 1]]
  <2>. HIDE DEF K, n
  <2>6. p \in [1 .. m -> 1 .. m]
    BY <2>1 DEF Arranges
  <2>7. /\ \A i \in 1 .. m + 1 : i < k => i \in 1 .. m /\ q[i] = p[i] /\ p[i] \in 1 .. m
        /\ q[k] = m + 1
        /\ \A i \in 1 .. m + 1 : i > k => i - 1 \in 1 .. m /\ q[i] = p[i - 1] /\ p[i - 1] \in 1 .. m
    <3>1. ASSUME NEW i \in 1 .. m + 1, i < k PROVE i \in 1 .. m /\ q[i] = p[i] /\ p[i] \in 1 .. m
      <4>1. i \in 1 .. m
        BY <2>4, <3>1
      <4>. QED BY <2>6, <3>1, <4>1
    <3>2. q[k] = m + 1
      BY <2>4
    <3>3. ASSUME NEW i \in 1 .. m + 1, i > k
          PROVE  i - 1 \in 1 .. m /\ q[i] = p[i - 1] /\ p[i - 1] \in 1 .. m
      <4>1. i - 1 \in 1 .. m /\ ~(i < k) /\ i # k
        BY <2>4, <3>3
      <4>. QED BY <2>6, <4>1
    <3>. QED BY <3>1, <3>2, <3>3
  <2>8. q \in [1 .. m + 1 -> 1 .. m + 1]
    <3>1. ASSUME NEW i \in 1 .. m + 1
          PROVE  (IF i < k THEN p[i] ELSE IF i = k THEN m + 1 ELSE p[i - 1]) \in 1 .. m + 1
      <4>1. k \in Int
        BY <2>4
      <4>2. CASE i < k
        BY <2>7, <4>1, <4>2
      <4>3. CASE i = k
        BY <4>3
      <4>4. CASE i > k
        <5>1. i - 1 \in 1 .. m /\ ~(i < k) /\ i # k
          BY <2>4, <4>1, <4>4
        <5>2. p[i - 1] \in 1 .. m
          BY <2>6, <5>1
        <5>. QED BY <5>1, <5>2
      <4>. QED BY <4>1, <4>2, <4>3, <4>4
    <3>. QED BY <3>1
  <2>. HIDE DEF q
  <2>9. \A i, j \in 1 .. m : i < j => p[i] # p[j] /\ <<s[p[j]], s[p[i]]>> \notin R
    <3>1. ASSUME NEW i \in 1 .. m, NEW j \in 1 .. m, i < j
          PROVE  p[i] # p[j] /\ <<s[p[j]], s[p[i]]>> \notin R
      <4>1. i # j
        BY <3>1
      <4>. QED BY <2>1, <3>1, <4>1 DEF Arranges
    <3>. QED BY <3>1
  <2>10. ASSUME NEW l \in 1 .. m + 1 PROVE \E i \in 1 .. m + 1 : q[i] = l
    <3>1. CASE l = m + 1
      BY <2>4, <2>7, <3>1
    <3>2. CASE l # m + 1
      <4>1. PICK i \in 1 .. m : p[i] = l
        BY <2>1, <3>2 DEF Arranges
      <4>2. CASE i < k
        BY <2>7, <4>1, <4>2
      <4>3. CASE i >= k
        <5>1. i + 1 \in 1 .. m + 1 /\ i + 1 > k /\ (i + 1) - 1 = i
          BY <2>4, <4>3
        <5>2. q[i + 1] = p[i]
          BY <2>7, <5>1
        <5>. QED BY <4>1, <5>1, <5>2
      <4>. QED BY <2>4, <4>2, <4>3
    <3>. QED BY <3>1, <3>2
  <2>11. ASSUME NEW i \in 1 .. m + 1, NEW j \in 1 .. m + 1, i < j
         PROVE  q[i] # q[j] /\ <<s[q[j]], s[q[i]]>> \notin R
    <3>. k \in Int
      BY <2>4
    <3>1. CASE j < k
      <4>1. i < k /\ i \in 1 .. m /\ j \in 1 .. m /\ q[i] = p[i] /\ q[j] = p[j]
        BY <2>7, <2>11, <3>1
      <4>. QED BY <2>9, <2>11, <4>1
    <3>2. CASE j = k
      <4>1. i \in 1 .. m /\ i < k /\ q[i] = p[i] /\ p[i] \in 1 .. m /\ q[j] = m + 1
        BY <2>7, <2>11, <3>2
      <4>. QED BY <2>4, <4>1
    <3>3. CASE j > k /\ i = k
      <4>1. /\ j - 1 \in 1 .. m /\ k \in 1 .. m /\ k <= j - 1
            /\ q[i] = m + 1 /\ q[j] = p[j - 1] /\ k # m + 1 /\ p[j - 1] \in 1 .. m
        <5>1. j - 1 \in 1 .. m /\ q[j] = p[j - 1] /\ p[j - 1] \in 1 .. m
          BY <2>7, <3>3
        <5>2. q[i] = m + 1
          BY <2>7, <3>3
        <5>3. k \in 1 .. m /\ k <= j - 1 /\ k # m + 1
          BY <2>4, <3>3, <5>1
        <5>. QED BY <5>1, <5>2, <5>3
      <4>2. s[p[j - 1]] \in S /\ s[p[k]] \in S /\ x \in S
        <5>1. p[k] \in 1 .. m /\ 1 .. m \subseteq 1 .. m + 1
          BY <2>6, <4>1
        <5>. QED BY <2>2, <4>1, <5>1
      <4>3. <<s[p[j - 1]], s[p[k]]>> \notin R
        <5>1. CASE j - 1 = k
          BY <4>2, <5>1
        <5>2. CASE j - 1 # k
          <6>1. k < j - 1
            BY <4>1, <5>2
          <6>. QED BY <2>9, <4>1, <6>1
        <5>. QED BY <5>1, <5>2
      <4>4. <<s[p[j - 1]], x>> \notin R
        BY <2>5, <4>1, <4>2, <4>3
      <4>. QED BY <4>1, <4>4
    <3>4. CASE j > k /\ i < k
      <4>1. i < j - 1 /\ i \in 1 .. m /\ j - 1 \in 1 .. m /\ q[i] = p[i] /\ q[j] = p[j - 1]
        BY <2>7, <3>4
      <4>. QED BY <2>9, <4>1
    <3>5. CASE j > k /\ i > k
      <4>1. /\ i - 1 < j - 1 /\ i - 1 \in 1 .. m /\ j - 1 \in 1 .. m
            /\ q[i] = p[i - 1] /\ q[j] = p[j - 1]
        BY <2>7, <2>11, <3>5
      <4>. QED BY <2>9, <4>1
    <3>. QED BY <2>11, <3>1, <3>2, <3>3, <3>4, <3>5
  <2>12. ASSUME NEW i \in 1 .. m + 1, NEW j \in 1 .. m + 1, i # j PROVE q[i] # q[j]
    <3>1. i < j \/ j < i
      BY <2>12
    <3>. QED BY <2>11, <3>1
  <2>. QED BY <2>8, <2>10, <2>11, <2>12 DEF Arranges
<1>3. n \in Nat /\ n \in T
  <2>. HIDE DEF T
  <2>. QED BY <1>1, <1>2, SetInduction
<1>. QED BY <1>3

Pairs == Int \X Int

\* So there is a permutation that sorts it.
LEMMA BijectionSorts ==
  ASSUME NEW S, NEW s \in Seq(S), NEW R,
         \A x \in S : <<x, x>> \notin R,
         \A x, y, z \in S : <<x, y>> \in R /\ <<y, z>> \in R => <<x, z>> \in R
  PROVE  \E p \in Bijection(DOMAIN s, DOMAIN s) :
           \A i, j \in DOMAIN s : i < j => <<s[p[j]], s[p[i]]>> \notin R
<1>1. PICK p : Arranges(p, Len(s), s, R)
  BY Sortable
<1>2. DOMAIN s = 1 .. Len(s)
  OBVIOUS
<1>3. p \in Bijection(DOMAIN s, DOMAIN s)
  BY <1>1, <1>2 DEF Arranges, Bijection, Injection, Surjection, IsInjective
<1>. QED BY <1>1, <1>2, <1>3 DEF Arranges

\* Sorting by the starts puts intervals in an order.
LEMMA SortedByStart ==
  ASSUME NEW s \in Seq(Pairs)
  PROVE  \E p \in Bijection(DOMAIN s, DOMAIN s) :
           /\ Sorted(s, Before) = [i \in DOMAIN s |-> s[p[i]]]
           /\ \A i, j \in DOMAIN s : i < j => ~Before(s[p[j]], s[p[i]])
<1>. DEFINE R == {q \in Pairs \X Pairs : Before(q[1], q[2])}
            Order(p) == \A i, j \in DOMAIN s : i < j => ~Before(s[p[j]], s[p[i]])
<1>1. \A x, y \in Pairs : <<x, y>> \in R <=> Before(x, y)
  OBVIOUS
<1>2. /\ \A x \in Pairs : ~Before(x, x)
      /\ \A x, y, z \in Pairs : Before(x, y) /\ Before(y, z) => Before(x, z)
  BY DEF Before, Pairs, Pairs
<1>3. \E p \in Bijection(DOMAIN s, DOMAIN s) :
        \A i, j \in DOMAIN s : i < j => <<s[p[j]], s[p[i]]>> \notin R
  <2>1. \A x \in Pairs : <<x, x>> \notin R
    BY <1>1, <1>2
  <2>2. \A x, y, z \in Pairs : <<x, y>> \in R /\ <<y, z>> \in R => <<x, z>> \in R
    BY <1>1, <1>2
  <2>. HIDE DEF R
  <2>. QED BY <2>1, <2>2, BijectionSorts
<1>4. \E p \in Bijection(DOMAIN s, DOMAIN s) : Order(p)
  <2>1. ASSUME NEW p \in Bijection(DOMAIN s, DOMAIN s), NEW i \in DOMAIN s, NEW j \in DOMAIN s,
               <<s[p[j]], s[p[i]]>> \notin R
        PROVE  ~Before(s[p[j]], s[p[i]])
    <3>1. s[p[j]] \in Pairs /\ s[p[i]] \in Pairs
      BY DEF Bijection, Injection
    <3>. HIDE DEF R
    <3>. QED BY <1>1, <2>1, <3>1
  <2>. HIDE DEF R
  <2>. QED BY <1>3, <2>1
<1>. DEFINE order == CHOOSE q \in Bijection(DOMAIN s, DOMAIN s) : Order(q)
<1>5. order \in Bijection(DOMAIN s, DOMAIN s) /\ Order(order)
  <2>. HIDE DEF Order
  <2>. QED BY <1>4
<1>6. Sorted(s, Before) = [i \in DOMAIN s |-> s[order[i]]]
  BY DEF Sorted
<1>. QED BY <1>5, <1>6

\* And so does sorting by the widths.
LEMMA SortedByWidth ==
  ASSUME NEW s \in Seq(Pairs)
  PROVE  \E p \in Bijection(DOMAIN s, DOMAIN s) :
           /\ Sorted(s, Wider) = [i \in DOMAIN s |-> s[p[i]]]
           /\ \A i, j \in DOMAIN s : i < j => ~Wider(s[p[j]], s[p[i]])
<1>. DEFINE R == {q \in Pairs \X Pairs : Wider(q[1], q[2])}
            Order(p) == \A i, j \in DOMAIN s : i < j => ~Wider(s[p[j]], s[p[i]])
<1>1. \A x, y \in Pairs : <<x, y>> \in R <=> Wider(x, y)
  OBVIOUS
<1>2. /\ \A x \in Pairs : ~Wider(x, x)
      /\ \A x, y, z \in Pairs : Wider(x, y) /\ Wider(y, z) => Wider(x, z)
  BY DEF Wider, Width, Before, Pairs, Pairs
<1>3. \E p \in Bijection(DOMAIN s, DOMAIN s) :
        \A i, j \in DOMAIN s : i < j => <<s[p[j]], s[p[i]]>> \notin R
  <2>1. \A x \in Pairs : <<x, x>> \notin R
    BY <1>1, <1>2
  <2>2. \A x, y, z \in Pairs : <<x, y>> \in R /\ <<y, z>> \in R => <<x, z>> \in R
    BY <1>1, <1>2
  <2>. HIDE DEF R
  <2>. QED BY <2>1, <2>2, BijectionSorts
<1>4. \E p \in Bijection(DOMAIN s, DOMAIN s) : Order(p)
  <2>1. ASSUME NEW p \in Bijection(DOMAIN s, DOMAIN s), NEW i \in DOMAIN s, NEW j \in DOMAIN s,
               <<s[p[j]], s[p[i]]>> \notin R
        PROVE  ~Wider(s[p[j]], s[p[i]])
    <3>1. s[p[j]] \in Pairs /\ s[p[i]] \in Pairs
      BY DEF Bijection, Injection
    <3>. HIDE DEF R
    <3>. QED BY <1>1, <2>1, <3>1
  <2>. HIDE DEF R
  <2>. QED BY <1>3, <2>1
<1>. DEFINE order == CHOOSE q \in Bijection(DOMAIN s, DOMAIN s) : Order(q)
<1>5. order \in Bijection(DOMAIN s, DOMAIN s) /\ Order(order)
  <2>. HIDE DEF Order
  <2>. QED BY <1>4
<1>6. Sorted(s, Wider) = [i \in DOMAIN s |-> s[order[i]]]
  BY DEF Sorted
<1>. QED BY <1>5, <1>6

-------------------------------------------------------------------------------
(* The pass over neighbours that combines them.                            *)

\* What the pass works on: the intervals, and the places of those to remove
Marked(n) == [closed : [1 .. n -> Pairs], remove : SUBSET (1 .. n)]

\* One step of the pass, case by case
LEMMA CombineCases ==
  ASSUME NEW n \in Nat, NEW acc \in Marked(n), NEW i \in 1 .. n - 1
  PROVE  LET a == acc.closed[i]
             b == acc.closed[i + 1]
         IN  /\ Combine(acc, i) \in Marked(n)
             /\ a[2] < b[1] => Combine(acc, i) = acc
             /\ ~(a[2] < b[1]) => Combine(acc, i).remove = acc.remove \cup {i}
             /\ ~(a[2] < b[1]) /\ a[2] >= b[2] => Combine(acc, i).closed = acc.closed
             /\ ~(a[2] < b[1]) /\ ~(a[2] >= b[2])
                  => Combine(acc, i).closed = [acc.closed EXCEPT ![i + 1] = <<a[1], b[2]>>]
<1>. DEFINE a == acc.closed[i]
            b == acc.closed[i + 1]
            lowered == [acc.closed EXCEPT ![i + 1][1] = a[1]]
<1>1. a \in Pairs /\ b \in Pairs /\ i \in 1 .. n /\ i + 1 \in 1 .. n
  BY DEF Marked
<1>2. [b EXCEPT ![1] = a[1]] = <<a[1], b[2]>> /\ <<a[1], b[2]>> \in Pairs
  <2>1. \A c \in Pairs, l \in Int : [c EXCEPT ![1] = l] = <<l, c[2]>> /\ <<l, c[2]>> \in Pairs
    BY DEF Pairs
  <2>2. a[1] \in Int
    BY <1>1 DEF Pairs
  <2>. HIDE DEF a, b
  <2>. QED BY <1>1, <2>1, <2>2
<1>3. lowered = [acc.closed EXCEPT ![i + 1] = <<a[1], b[2]>>] /\ lowered \in [1 .. n -> Pairs]
  <2>1. lowered = [acc.closed EXCEPT ![i + 1] = [b EXCEPT ![1] = a[1]]]
    OBVIOUS
  <2>2. acc.closed \in [1 .. n -> Pairs]
    BY DEF Marked
  <2>. HIDE DEF a, b, lowered
  <2>. QED BY <1>1, <1>2, <2>1, <2>2
<1>4. CASE a[2] < b[1]
  BY <1>4 DEF Combine
<1>5. CASE ~(a[2] < b[1]) /\ a[2] >= b[2]
  BY <1>1, <1>5 DEF Combine, Marked
<1>6. CASE ~(a[2] < b[1]) /\ ~(a[2] >= b[2])
  <2>1. Combine(acc, i) = [closed |-> lowered, remove |-> acc.remove \cup {i}]
    BY <1>6 DEF Combine
  <2>2. Combine(acc, i) \in Marked(n)
    <3>. HIDE DEF lowered
    <3>. QED BY <1>1, <1>3, <2>1 DEF Marked
  <2>. HIDE DEF a, b, lowered
  <2>. QED BY <1>3, <1>6, <2>1, <2>2 DEF a, b
<1>. QED BY <1>4, <1>5, <1>6

\* The intervals are sorted by their starts.
ByStart(S, n) ==
  /\ S \in [1 .. n -> Pairs]
  /\ \A i, j \in 1 .. n : i < j => S[i][1] <= S[j][1]

\* Each ends after the one before, as they do when none is nested in another.
EndsGrow(S, n) == \A i \in 1 .. n - 1 : S[i][2] < S[i + 1][2]

\* One of the intervals whose places are not to be removed covers the cell.
CoveredByKept(acc, n, cell) == \E j \in (1 .. n) \ acc.remove : CoveredBy(acc.closed[j], cell)
CoveredBySome(S, n, cell) == \E j \in 1 .. n : CoveredBy(S[j], cell)

\* What the pass keeps up, after its first i steps over the sorted list S
Passed(acc, i, S, n) ==
  /\ acc \in Marked(n) /\ acc.remove \subseteq 1 .. i
  /\ \A j \in 1 .. n : acc.closed[j][2] = S[j][2] /\ acc.closed[j][1] <= S[j][1]
  /\ \A j \in 1 .. n : j > i + 1 => acc.closed[j] = S[j]
  /\ \A j \in (1 .. i) \ acc.remove, m \in 1 .. n : j < m => acc.closed[j][2] < acc.closed[m][1]
  /\ \A cell \in Int : CoveredByKept(acc, n, cell) => CoveredBySome(S, n, cell)
  /\ EndsGrow(S, n) =>
       \A cell \in Int : CoveredBySome(S, n, cell) => CoveredByKept(acc, n, cell)

\* Each step of the pass keeps it up.
LEMMA PassStep ==
  ASSUME NEW n \in Nat, NEW S, ByStart(S, n), NEW i \in 1 .. n - 1, NEW acc,
         Passed(acc, i - 1, S, n)
  PROVE  Passed(Combine(acc, i), i, S, n)
<1>. DEFINE a == acc.closed[i]
            b == acc.closed[i + 1]
            new == Combine(acc, i)
<1>1. /\ acc \in Marked(n) /\ acc.closed \in [1 .. n -> Pairs] /\ acc.remove \subseteq 1 .. i - 1
      /\ i \in 1 .. n /\ i + 1 \in 1 .. n /\ a \in Pairs /\ b \in Pairs /\ acc.remove \in SUBSET (1 .. n)
  BY DEF Passed, Marked
<1>2. /\ new \in Marked(n)
      /\ a[2] < b[1] => new = acc
      /\ ~(a[2] < b[1]) => new.remove = acc.remove \cup {i}
      /\ ~(a[2] < b[1]) /\ a[2] >= b[2] => new.closed = acc.closed
      /\ ~(a[2] < b[1]) /\ ~(a[2] >= b[2])
           => new.closed = [acc.closed EXCEPT ![i + 1] = <<a[1], b[2]>>]
  BY <1>1, CombineCases
<1>3. b = S[i + 1] /\ a[2] = S[i][2] /\ a[1] <= S[i][1] /\ S[i][1] <= S[i + 1][1]
      /\ \A j \in 1 .. n : j > i => acc.closed[j] = S[j]
  BY <1>1 DEF Passed, ByStart
<1>4. /\ \A j \in 1 .. n : acc.closed[j][2] = S[j][2] /\ acc.closed[j][1] <= S[j][1]
      /\ \A j \in (1 .. i - 1) \ acc.remove, m \in 1 .. n :
           j < m => acc.closed[j][2] < acc.closed[m][1]
      /\ \A cell \in Int : CoveredByKept(acc, n, cell) => CoveredBySome(S, n, cell)
      /\ EndsGrow(S, n) =>
           \A cell \in Int : CoveredBySome(S, n, cell) => CoveredByKept(acc, n, cell)
  BY DEF Passed
<1>5. \A j \in 1 .. n : S[j] \in Pairs /\ acc.closed[j] \in Pairs
  BY <1>1 DEF ByStart
<1>. HIDE DEF new, a, b
<1>6. CASE a[2] < b[1]
  <2>1. \A j \in (1 .. i) \ acc.remove, m \in 1 .. n : j < m => acc.closed[j][2] < acc.closed[m][1]
    <3>1. ASSUME NEW j \in (1 .. i) \ acc.remove, NEW m \in 1 .. n, j < m, j = i
          PROVE  acc.closed[j][2] < acc.closed[m][1]
      <4>1. S[i + 1][1] <= S[m][1] /\ acc.closed[m] = S[m]
        <5>1. acc.closed[m] = S[m]
          BY <1>3, <3>1
        <5>2. CASE m = i + 1
          BY <1>1, <1>5, <5>1, <5>2 DEF Pairs
        <5>3. CASE m # i + 1
          <6>1. i + 1 < m
            BY <3>1, <5>3
          <6>. QED BY <1>1, <5>1, <6>1 DEF ByStart
        <5>. QED BY <5>2, <5>3
      <4>2. acc.closed[j][2] = a[2]
        BY <3>1 DEF a
      <4>3. a[2] \in Int /\ b[1] \in Int /\ S[m][1] \in Int
        BY <1>1, <1>5 DEF Pairs
      <4>. QED BY <1>3, <1>6, <4>1, <4>2, <4>3
    <3>2. ASSUME NEW j \in (1 .. i) \ acc.remove, j # i PROVE j \in (1 .. i - 1) \ acc.remove
      BY <3>2
    <3>. QED BY <1>4, <3>1, <3>2
  <2>2. new = acc /\ acc.remove \subseteq 1 .. i
    BY <1>1, <1>2, <1>6
  <2>3. \A j \in 1 .. n : j > i + 1 => acc.closed[j] = S[j]
    BY <1>3
  <2>. QED BY <1>1, <1>4, <2>1, <2>2, <2>3 DEF Passed, new
<1>7. CASE ~(a[2] < b[1]) /\ a[2] >= b[2]
  <2>1. new.closed = acc.closed /\ new.remove = acc.remove \cup {i} /\ new.remove \subseteq 1 .. i
    BY <1>1, <1>2, <1>7
  <2>2. \A j \in (1 .. i) \ new.remove : j \in (1 .. i - 1) \ acc.remove
    BY <2>1
  <2>3. \A cell \in Int : CoveredByKept(new, n, cell) => CoveredBySome(S, n, cell)
    BY <1>4, <2>1 DEF CoveredByKept
  <2>4. ~EndsGrow(S, n)
    BY <1>1, <1>3, <1>5, <1>7 DEF EndsGrow, Pairs
  <2>5. \A j \in 1 .. n : j > i + 1 => new.closed[j] = S[j]
    BY <1>3, <2>1
  <2>. QED BY <1>2, <1>4, <2>1, <2>2, <2>3, <2>4, <2>5 DEF Passed, new
<1>8. CASE ~(a[2] < b[1]) /\ ~(a[2] >= b[2])
  <2>1. /\ new.remove = acc.remove \cup {i} /\ new.remove \subseteq 1 .. i
        /\ new.closed[i + 1] = <<a[1], b[2]>>
        /\ \A j \in 1 .. n : j # i + 1 => new.closed[j] = acc.closed[j]
    BY <1>1, <1>2, <1>8
  <2>2. \A j \in (1 .. i) \ new.remove : j \in (1 .. i - 1) \ acc.remove
    BY <2>1
  <2>3. a[1] \in Int /\ a[2] \in Int /\ b[1] \in Int /\ b[2] \in Int
    BY <1>1 DEF Pairs
  <2>4. b[1] <= a[2] /\ a[2] < b[2] /\ a[1] <= b[1]
    BY <1>1, <1>3, <1>5, <1>8, <2>3 DEF Pairs
  <2>5. \A j \in 1 .. n : new.closed[j][2] = S[j][2] /\ new.closed[j][1] <= S[j][1]
    BY <1>3, <1>4, <2>1, <2>3, <2>4
  <2>6. ASSUME NEW j \in (1 .. i) \ new.remove, NEW m \in 1 .. n, j < m
        PROVE  new.closed[j][2] < new.closed[m][1]
    <3>1. j \in (1 .. i - 1) \ acc.remove /\ j \in 1 .. n /\ j # i + 1
      BY <1>1, <2>2
    <3>2. acc.closed[j][2] < a[1]
      BY <1>1, <1>4, <3>1 DEF a
    <3>3. CASE m = i + 1
      BY <2>1, <2>3, <3>1, <3>2, <3>3
    <3>4. CASE m # i + 1
      BY <1>4, <2>1, <2>6, <3>1, <3>4
    <3>. QED BY <3>3, <3>4
  <2>7. ASSUME NEW cell \in Int
        PROVE  CoveredByKept(new, n, cell) <=> CoveredByKept(acc, n, cell)
    <3>1. CoveredBy(<<a[1], b[2]>>, cell) <=> CoveredBy(a, cell) \/ CoveredBy(b, cell)
      BY <2>3, <2>4 DEF CoveredBy
    <3>2. i \in (1 .. n) \ acc.remove /\ i + 1 \in (1 .. n) \ acc.remove
          /\ i + 1 \in (1 .. n) \ new.remove
      BY <1>1, <2>1
    <3>3. ASSUME NEW j \in (1 .. n) \ new.remove, CoveredBy(new.closed[j], cell)
          PROVE  CoveredByKept(acc, n, cell)
      BY <2>1, <3>1, <3>2, <3>3 DEF CoveredByKept, a, b
    <3>4. ASSUME NEW j \in (1 .. n) \ acc.remove, CoveredBy(acc.closed[j], cell)
          PROVE  CoveredByKept(new, n, cell)
      <4>1. CASE j \in {i, i + 1}
        BY <2>1, <3>1, <3>2, <3>4, <4>1 DEF CoveredByKept, a, b
      <4>2. CASE j \notin {i, i + 1}
        BY <2>1, <3>4, <4>2 DEF CoveredByKept
      <4>. QED BY <4>1, <4>2
    <3>. QED BY <3>3, <3>4 DEF CoveredByKept
  <2>8. \A j \in 1 .. n : j > i + 1 => new.closed[j] = S[j]
    BY <1>3, <2>1
  <2>. QED BY <1>2, <1>4, <2>1, <2>5, <2>6, <2>7, <2>8 DEF Passed, new
<1>. QED BY <1>6, <1>7, <1>8

-------------------------------------------------------------------------------
(* The intervals that the heap leaves open.                                *)

Intervals == {p \in Pairs : p[1] <= p[2]}

\* Intervals in their order, none of which meets another
Apart(L) == L \in Seq(Intervals) /\ \A j, k \in DOMAIN L : j < k => L[j][2] < L[k][1]

\* The state of the pass after each of its steps
LEMMA PassExists ==
  ASSUME NEW n \in Nat \ {0}, NEW S, ByStart(S, n)
  PROVE  \E f : /\ f = [i \in 0 .. n - 1 |-> IF i = 0 THEN [closed |-> S, remove |-> {}]
                                             ELSE Combine(f[i - 1], i)]
                /\ f \in [0 .. n - 1 -> Marked(n)]
<1>. DEFINE N == n - 1
            X == Marked(n)
            base == [closed |-> S, remove |-> {}]
            step == [p \in X \X (1 .. N) |-> Combine(p[1], p[2])]
<1>1. N \in Nat /\ base \in X
  BY DEF Marked, ByStart
<1>2. step \in [X \X (1 .. N) -> X]
  <2>1. \A p \in X \X (1 .. N) : Combine(p[1], p[2]) \in X
    BY CombineCases
  <2>. QED BY <2>1
<1>3. PICK f : StepByStep(f, N, X, base, step)
  <2>. HIDE DEF N, X, base, step
  <2>. QED BY <1>1, <1>2, Recursion
<1>4. ASSUME NEW i \in 1 .. N PROVE f[i] = Combine(f[i - 1], i)
  <2>1. i - 1 \in 0 .. N
    BY <1>1
  <2>2. f[i - 1] \in X
    BY <1>3, <2>1 DEF StepByStep
  <2>3. <<f[i - 1], i>> \in X \X (1 .. N)
    <3>. HIDE DEF X, N
    <3>. QED BY <2>2
  <2>4. step[<<f[i - 1], i>>] = Combine(f[i - 1], i)
    <3>. HIDE DEF X, N
    <3>. QED BY <2>3
  <2>. HIDE DEF step, N
  <2>. QED BY <1>3, <2>4 DEF StepByStep
<1>5. f = [i \in 0 .. N |-> IF i = 0 THEN base ELSE Combine(f[i - 1], i)]
  <2>1. \A i \in 0 .. N : i # 0 => i \in 1 .. N
    BY <1>1
  <2>. HIDE DEF step, base, X, N
  <2>. QED BY <1>3, <1>4, <2>1 DEF StepByStep
<1>. QED BY <1>3, <1>5 DEF StepByStep

\* Combining leaves intervals that are apart, which cover nothing that was not covered, and
\* all of it when no interval is nested in another.
LEMMA CombinedIsApart ==
  ASSUME NEW closed \in Seq(Intervals), closed # <<>>
  PROVE  /\ Apart(Combined(closed)) /\ Combined(closed) # <<>>
         /\ \A cell \in Int : Covered(Combined(closed), cell) => Covered(closed, cell)
         /\ ~Nested(closed) =>
              \A cell \in Int : Covered(closed, cell) => Covered(Combined(closed), cell)
<1>. DEFINE n == Len(closed)
            S == Sorted(closed, Before)
<1>1. n \in Nat \ {0} /\ DOMAIN closed = 1 .. n /\ \A i \in 1 .. n : closed[i] \in Intervals
  OBVIOUS
<1>2. closed \in Seq(Pairs)
  BY DEF Intervals
<1>3. PICK p \in Bijection(1 .. n, 1 .. n) :
        /\ S = [i \in 1 .. n |-> closed[p[i]]]
        /\ \A i, j \in 1 .. n : i < j => ~Before(closed[p[j]], closed[p[i]])
  <2>. HIDE DEF n, S
  <2>1. \E p \in Bijection(DOMAIN closed, DOMAIN closed) :
          /\ S = [i \in DOMAIN closed |-> closed[p[i]]]
          /\ \A i, j \in DOMAIN closed : i < j => ~Before(closed[p[j]], closed[p[i]])
    BY <1>2, SortedByStart DEF S
  <2>. QED BY <1>1, <2>1
<1>4. p \in [1 .. n -> 1 .. n] /\ (\A i, j \in 1 .. n : i # j => p[i] # p[j])
      /\ \A l \in 1 .. n : \E i \in 1 .. n : p[i] = l
  BY DEF Bijection, Injection, Surjection, IsInjective
<1>5. \A i \in 1 .. n : S[i] = closed[p[i]] /\ S[i] \in Intervals /\ p[i] \in 1 .. n
  <2>. HIDE DEF n, S
  <2>. QED BY <1>1, <1>3, <1>4
<1>. HIDE DEF n, S
<1>6. ByStart(S, n)
  <2>1. \A x, y \in Intervals : ~Before(y, x) => x[1] <= y[1]
    BY DEF Before, Intervals, Pairs
  <2>2. \A i, j \in 1 .. n : i < j => S[i][1] <= S[j][1]
    BY <1>3, <1>5, <2>1
  <2>3. S \in [1 .. n -> Pairs]
    BY <1>3, <1>5 DEF Intervals
  <2>. QED BY <2>2, <2>3 DEF ByStart
<1>7. ~Nested(closed) => EndsGrow(S, n)
  <2>. SUFFICES ASSUME ~Nested(closed), NEW i \in 1 .. n - 1 PROVE S[i][2] < S[i + 1][2]
    BY DEF EndsGrow
  <2>1. i \in 1 .. n /\ i + 1 \in 1 .. n /\ i < i + 1 /\ i # i + 1
    BY <1>1
  <2>2. p[i] \in 1 .. n /\ p[i + 1] \in 1 .. n /\ p[i] # p[i + 1]
    <3>. DEFINE k == i + 1
    <3>1. i \in 1 .. n /\ k \in 1 .. n /\ i # k
      BY <2>1
    <3>. HIDE DEF k
    <3>2. p[i] # p[k]
      BY <1>4, <3>1
    <3>. QED BY <1>4, <2>1, <3>2 DEF k
  <2>3. S[i] # S[i + 1] /\ ~(S[i][1] < S[i + 1][1] /\ S[i + 1][2] <= S[i][2])
    <3>1. ASSUME NEW l \in DOMAIN closed, NEW m \in DOMAIN closed, l # m
          PROVE  /\ closed[l] # closed[m]
                 /\ ~(closed[l][1] < closed[m][1] /\ closed[m][2] <= closed[l][2])
      BY <3>1 DEF Nested
    <3>2. S[i] = closed[p[i]] /\ S[i + 1] = closed[p[i + 1]]
      BY <1>5, <2>1
    <3>. QED BY <1>1, <2>2, <3>1, <3>2
  <2>4. ~Before(S[i + 1], S[i])
    BY <1>3, <1>5, <2>1
  <2>5. \A x, y \in Intervals :
          x # y /\ ~(x[1] < y[1] /\ y[2] <= x[2]) /\ ~Before(y, x) => x[2] < y[2]
    BY DEF Before, Intervals, Pairs
  <2>. QED BY <1>5, <2>1, <2>3, <2>4, <2>5
<1>8. \A cell : CoveredBySome(S, n, cell) <=> Covered(closed, cell)
  <2>1. ASSUME NEW cell, NEW i \in 1 .. n, CoveredBy(S[i], cell) PROVE Covered(closed, cell)
    BY <1>1, <1>5, <2>1 DEF Covered, ToSet
  <2>2. ASSUME NEW cell, NEW l \in 1 .. n, CoveredBy(closed[l], cell)
        PROVE  CoveredBySome(S, n, cell)
    <3>1. PICK i \in 1 .. n : p[i] = l
      BY <1>4
    <3>. QED BY <1>5, <2>2, <3>1 DEF CoveredBySome
  <2>. QED BY <1>1, <2>1, <2>2 DEF Covered, ToSet, CoveredBySome
<1>. DEFINE Eq(f) == f = [i \in 0 .. n - 1 |-> IF i = 0 THEN [closed |-> S, remove |-> {}]
                                               ELSE Combine(f[i - 1], i)]
<1>9. PICK f : Eq(f) /\ Combined(closed) = At(f[n - 1].closed, (1 .. n) \ f[n - 1].remove)
  <2>1. \E f : Eq(f)
    BY <1>1, <1>6, PassExists
  <2>. QED BY <2>1 DEF Combined, n, S
<1>10. f[0] = [closed |-> S, remove |-> {}] /\ \A i \in 1 .. n - 1 : f[i] = Combine(f[i - 1], i)
  <2>1. 0 \in 0 .. n - 1 /\ \A i \in 1 .. n - 1 : i \in 0 .. n - 1 /\ i # 0
    BY <1>1
  <2>. QED BY <1>9, <2>1
<1>. HIDE DEF Eq
<1>. DEFINE T == {i \in Nat : i <= n - 1 => Passed(f[i], i, S, n)}
<1>11. 0 \in T
  <2>1. [closed |-> S, remove |-> {}] \in Marked(n)
    BY <1>6 DEF Marked, ByStart
  <2>2. \A j \in 1 .. n : S[j][2] = S[j][2] /\ S[j][1] <= S[j][1]
    BY <1>5 DEF Intervals, Pairs
  <2>3. Passed(f[0], 0, S, n)
    BY <1>10, <2>1, <2>2 DEF Passed, CoveredByKept, CoveredBySome
  <2>. QED BY <2>3
<1>12. ASSUME NEW i \in Nat, i \in T PROVE i + 1 \in T
  <2>. SUFFICES ASSUME i + 1 <= n - 1 PROVE Passed(f[i + 1], i + 1, S, n)
    OBVIOUS
  <2>1. i + 1 \in 1 .. n - 1 /\ (i + 1) - 1 = i /\ Passed(f[i], i, S, n)
    BY <1>1, <1>12
  <2>2. f[i + 1] = Combine(f[i], i + 1)
    BY <1>10, <2>1
  <2>. QED BY <1>1, <1>6, <2>1, <2>2, PassStep
<1>13. Passed(f[n - 1], n - 1, S, n)
  <2>1. n - 1 \in Nat
    BY <1>1
  <2>2. n - 1 \in T
    <3>. HIDE DEF T
    <3>. QED BY <1>11, <1>12, <2>1, SetInduction
  <2>. QED BY <2>2
<1>. DEFINE acc == f[n - 1]
            keep == (1 .. n) \ acc.remove
            L == Combined(closed)
<1>14. /\ acc \in Marked(n) /\ acc.remove \subseteq 1 .. n - 1 /\ n \in keep
       /\ acc.closed \in Seq(Intervals) /\ Len(acc.closed) = n
  <2>1. acc \in Marked(n) /\ acc.closed \in [1 .. n -> Pairs] /\ acc.remove \subseteq 1 .. n - 1
    BY <1>13 DEF Passed, Marked
  <2>2. \A j \in 1 .. n : acc.closed[j] \in Intervals
    <3>1. \A c, e \in Pairs : e \in Intervals /\ c[2] = e[2] /\ c[1] <= e[1] => c \in Intervals
      BY DEF Intervals, Pairs
    <3>2. \A j \in 1 .. n : S[j] \in Pairs /\ acc.closed[j] \in Pairs
      BY <1>5, <2>1 DEF Intervals
    <3>. HIDE DEF acc
    <3>. QED BY <1>5, <1>13, <3>1, <3>2 DEF Passed, acc
  <2>3. n \in keep
    BY <1>1, <2>1
  <2>4. acc.closed \in [1 .. n -> Intervals]
    <3>. HIDE DEF acc
    <3>. QED BY <2>1, <2>2
  <2>5. acc.closed \in Seq(Intervals) /\ Len(acc.closed) = n
    <3>. HIDE DEF acc
    <3>. QED BY <1>1, <2>4
  <2>. QED BY <2>1, <2>3, <2>5
<1>. HIDE DEF acc
<1>15. L = At(acc.closed, keep)
  BY <1>9 DEF acc
<1>16. L \in Seq(Intervals)
  BY <1>14, <1>15, AtKeeps
<1>17. PICK g : Names(g, Len(L), n, keep) /\ \A k \in 1 .. Len(L) : L[k] = acc.closed[g[k]]
  <2>. DEFINE A == At(acc.closed, keep)
  <2>1. \E g : Names(g, Len(A), Len(acc.closed), keep) /\ \A k \in 1 .. Len(A) : A[k] = acc.closed[g[k]]
    <3>. HIDE DEF keep
    <3>. QED BY <1>14, AtKeeps
  <2>2. A = L
    BY <1>15
  <2>. HIDE DEF A, L, keep
  <2>. QED BY <1>14, <2>1, <2>2
<1>. HIDE DEF L, keep
<1>18. /\ DOMAIN L = 1 .. Len(L) /\ Len(L) \in Nat
       /\ \A k \in 1 .. Len(L) : g[k] \in keep /\ g[k] \in 1 .. n
       /\ \A j, k \in 1 .. Len(L) : j < k => g[j] < g[k]
       /\ \A i \in 1 .. n : i \in keep => \E k \in 1 .. Len(L) : g[k] = i
  BY <1>16, <1>17 DEF Names
<1>19. Apart(L)
  <2>1. ASSUME NEW j \in 1 .. Len(L), NEW k \in 1 .. Len(L), j < k PROVE L[j][2] < L[k][1]
    <3>1. g[j] \in (1 .. n - 1) \ acc.remove /\ g[k] \in 1 .. n /\ g[j] < g[k]
      BY <1>1, <1>18, <2>1 DEF keep
    <3>. QED BY <1>13, <1>17, <3>1 DEF Passed, acc
  <2>. QED BY <1>16, <1>18, <2>1 DEF Apart
<1>20. L # <<>>
  <2>1. PICK k \in 1 .. Len(L) : g[k] = n
    BY <1>1, <1>14, <1>18
  <2>. QED BY <2>1
<1>21. \A cell : CoveredByKept(acc, n, cell) <=> Covered(L, cell)
  <2>1. ASSUME NEW cell, NEW i \in (1 .. n) \ acc.remove, CoveredBy(acc.closed[i], cell)
        PROVE  Covered(L, cell)
    <3>1. PICK k \in 1 .. Len(L) : g[k] = i
      BY <1>18 DEF keep
    <3>2. CoveredBy(L[k], cell)
      BY <1>17, <2>1, <3>1
    <3>. QED BY <1>18, <3>2 DEF Covered, ToSet
  <2>2. ASSUME NEW cell, NEW k \in 1 .. Len(L), CoveredBy(L[k], cell)
        PROVE  CoveredByKept(acc, n, cell)
    BY <1>17, <1>18, <2>2 DEF CoveredByKept, keep
  <2>. QED BY <1>18, <2>1, <2>2 DEF CoveredByKept, Covered, ToSet
<1>22. /\ \A cell \in Int : CoveredByKept(acc, n, cell) => CoveredBySome(S, n, cell)
       /\ EndsGrow(S, n) =>
            \A cell \in Int : CoveredBySome(S, n, cell) => CoveredByKept(acc, n, cell)
  BY <1>13 DEF Passed, acc
<1>. QED BY <1>7, <1>8, <1>19, <1>20, <1>21, <1>22 DEF L

\* Trimming leaves the parts of the intervals that lie in the range.
LEMMA TrimmedIsApart ==
  ASSUME NEW start \in Int, NEW end \in Int, start <= end, NEW closed, Apart(closed)
  PROVE  LET trimmed == Trimmed(start, end, closed)
         IN  /\ Apart(trimmed)
             /\ \A k \in DOMAIN trimmed : start <= trimmed[k][1] /\ trimmed[k][2] <= end
             /\ \A cell \in Cells(start, end) : Covered(trimmed, cell) <=> Covered(closed, cell)
<1>. DEFINE places == {i \in DOMAIN closed : start <= closed[i][2] /\ closed[i][1] <= end}
            met == At(closed, places)
            m == Len(met)
            trimmed == Trimmed(start, end, closed)
            From(k) == IF met[k][1] < start THEN start ELSE met[k][1]
            To(k) == IF met[k][2] > end THEN end ELSE met[k][2]
<1>1. /\ closed \in Seq(Intervals) /\ DOMAIN closed = 1 .. Len(closed)
      /\ \A i \in DOMAIN closed : closed[i] \in Intervals
  BY DEF Apart
<1>2. met \in Seq(Intervals) /\ m \in Nat /\ DOMAIN met = 1 .. m
  <2>1. met \in Seq(Intervals)
    <3>. HIDE DEF places
    <3>. QED BY <1>1, AtKeeps
  <2>. HIDE DEF met
  <2>. QED BY <2>1
<1>3. PICK g : Names(g, m, Len(closed), places) /\ \A k \in 1 .. m : met[k] = closed[g[k]]
  <2>. HIDE DEF places
  <2>. QED BY <1>1, AtKeeps
<1>. HIDE DEF met, m
<1>4. ASSUME NEW k \in 1 .. m
      PROVE  /\ met[k] \in Intervals /\ g[k] \in places
             /\ start <= met[k][2] /\ met[k][1] <= end
  BY <1>1, <1>3 DEF Names
<1>5. ASSUME NEW j \in 1 .. m, NEW k \in 1 .. m, j < k PROVE met[j][2] < met[k][1]
  <2>1. g[j] < g[k] /\ g[j] \in DOMAIN closed /\ g[k] \in DOMAIN closed
    BY <1>3, <1>4, <1>5 DEF Names
  <2>. QED BY <1>3, <2>1 DEF Apart
<1>6. trimmed = [k \in 1 .. m |-> <<IF k = 1 /\ met[k][1] < start THEN start ELSE met[k][1],
                                    IF k = m /\ met[k][2] > end THEN end ELSE met[k][2]>>]
  <2>. DEFINE cut == [k \in DOMAIN met |->
                        <<IF k = 1 /\ met[k][1] < start THEN start ELSE met[k][1],
                          IF k = Len(met) /\ met[k][2] > end THEN end ELSE met[k][2]>>]
  <2>1. trimmed = cut
    BY DEF Trimmed, met
  <2>. HIDE DEF trimmed
  <2>. QED BY <1>2, <2>1 DEF m
<1>. HIDE DEF trimmed, places
<1>7. ASSUME NEW k \in 1 .. m PROVE trimmed[k] = <<From(k), To(k)>>
  <2>1. 1 \in 1 .. m /\ m \in 1 .. m
    BY <1>2
  <2>2. k # 1 => start < met[k][1]
    <3>. SUFFICES ASSUME k # 1 PROVE start < met[k][1]
      OBVIOUS
    <3>1. start <= met[1][2] /\ met[1][2] < met[k][1]
      BY <1>4, <1>5, <2>1
    <3>2. met[1] \in Intervals /\ met[k] \in Intervals
      BY <1>4, <2>1
    <3>. QED BY <3>1, <3>2 DEF Intervals, Pairs
  <2>3. k # m => met[k][2] < end
    <3>. SUFFICES ASSUME k # m PROVE met[k][2] < end
      OBVIOUS
    <3>1. met[m][1] <= end /\ met[k][2] < met[m][1]
      BY <1>2, <1>4, <1>5, <2>1
    <3>2. met[m] \in Intervals /\ met[k] \in Intervals
      BY <1>4, <2>1
    <3>. QED BY <3>1, <3>2 DEF Intervals, Pairs
  <2>4. trimmed[k] = <<IF k = 1 /\ met[k][1] < start THEN start ELSE met[k][1],
                       IF k = m /\ met[k][2] > end THEN end ELSE met[k][2]>>
    BY <1>6
  <2>5. met[k][1] \in Int /\ met[k][2] \in Int
    BY <1>4 DEF Intervals, Pairs
  <2>6. (IF k = 1 /\ met[k][1] < start THEN start ELSE met[k][1]) = From(k)
    BY <2>2, <2>5
  <2>7. (IF k = m /\ met[k][2] > end THEN end ELSE met[k][2]) = To(k)
    BY <2>3, <2>5
  <2>. QED BY <2>4, <2>6, <2>7
<1>8. ASSUME NEW k \in 1 .. m
      PROVE  /\ From(k) \in Int /\ To(k) \in Int /\ From(k) <= To(k)
             /\ start <= From(k) /\ To(k) <= end /\ met[k][1] <= From(k) /\ To(k) <= met[k][2]
             /\ \A cell \in Cells(start, end) :
                  CoveredBy(met[k], cell) <=> From(k) <= cell /\ cell < To(k)
  <2>1. met[k][1] \in Int /\ met[k][2] \in Int /\ met[k][1] <= met[k][2]
    BY <1>4 DEF Intervals, Pairs
  <2>. QED BY <1>4, <2>1 DEF Cells, CoveredBy
<1>. HIDE DEF From, To
<1>9. DOMAIN trimmed = 1 .. m /\ trimmed \in Seq(Intervals)
  <2>1. DOMAIN trimmed = 1 .. m
    BY <1>6
  <2>2. \A k \in 1 .. m : trimmed[k] \in Intervals
    BY <1>7, <1>8 DEF Intervals, Pairs
  <2>3. trimmed \in [1 .. m -> Intervals]
    BY <1>6, <2>2
  <2>. QED BY <1>2, <2>1, <2>3
<1>10. ASSUME NEW j \in 1 .. m, NEW k \in 1 .. m, j < k PROVE trimmed[j][2] < trimmed[k][1]
  <2>1. To(j) <= met[j][2] /\ met[j][2] < met[k][1] /\ met[k][1] <= From(k)
    BY <1>5, <1>8, <1>10
  <2>2. met[j][2] \in Int /\ met[k][1] \in Int
    BY <1>4 DEF Intervals, Pairs
  <2>. QED BY <1>7, <1>8, <2>1, <2>2
<1>11. ASSUME NEW cell \in Cells(start, end), NEW k \in 1 .. m
       PROVE  CoveredBy(trimmed[k], cell) <=> CoveredBy(closed[g[k]], cell)
  BY <1>3, <1>7, <1>8 DEF CoveredBy
<1>12. ASSUME NEW cell \in Cells(start, end), NEW i \in DOMAIN closed, CoveredBy(closed[i], cell)
       PROVE  \E k \in 1 .. m : g[k] = i
  <2>1. closed[i][1] \in Int /\ closed[i][2] \in Int
    BY <1>1 DEF Intervals, Pairs
  <2>2. i \in places
    BY <1>12, <2>1 DEF places, Cells, CoveredBy
  <2>. QED BY <1>1, <1>3, <2>2 DEF Names
<1>13. ASSUME NEW cell \in Cells(start, end) PROVE Covered(trimmed, cell) <=> Covered(closed, cell)
  <2>1. ASSUME NEW k \in 1 .. m, CoveredBy(trimmed[k], cell) PROVE Covered(closed, cell)
    <3>1. g[k] \in DOMAIN closed
      BY <1>4 DEF places
    <3>. QED BY <1>11, <2>1, <3>1 DEF Covered, ToSet
  <2>2. ASSUME NEW i \in DOMAIN closed, CoveredBy(closed[i], cell) PROVE Covered(trimmed, cell)
    <3>1. PICK k \in 1 .. m : g[k] = i
      BY <1>12, <2>2
    <3>2. CoveredBy(trimmed[k], cell)
      BY <1>11, <2>2, <3>1
    <3>. QED BY <1>9, <3>2 DEF Covered, ToSet
  <2>. QED BY <1>9, <2>1, <2>2 DEF Covered, ToSet
<1>14. \A k \in 1 .. m : start <= trimmed[k][1] /\ trimmed[k][2] <= end
  BY <1>7, <1>8
<1>. QED BY <1>9, <1>10, <1>13, <1>14 DEF Apart, trimmed

\* Two lists in a row have the elements of both.
LEMMA ConcatSet ==
  ASSUME NEW S, NEW a \in Seq(S), NEW b \in Seq(S)
  PROVE  a \o b \in Seq(S) /\ ToSet(a \o b) = ToSet(a) \cup ToSet(b)
<1>1. a \o b \in Seq(S) /\ DOMAIN (a \o b) = 1 .. Len(a) + Len(b)
  OBVIOUS
<1>2. \A i \in 1 .. Len(a) : (a \o b)[i] = a[i]
  OBVIOUS
<1>3. \A i \in 1 .. Len(b) : Len(a) + i \in 1 .. Len(a) + Len(b) /\ (a \o b)[Len(a) + i] = b[i]
  OBVIOUS
<1>4. \A i \in 1 .. Len(a) + Len(b) : i > Len(a) => i - Len(a) \in 1 .. Len(b) /\ i = Len(a) + (i - Len(a))
  OBVIOUS
<1>5. DOMAIN a = 1 .. Len(a) /\ DOMAIN b = 1 .. Len(b) /\ Len(a) \in Nat /\ Len(b) \in Nat
  OBVIOUS
<1>. DEFINE c == a \o b
<1>. HIDE DEF c
<1>6. ASSUME NEW i \in 1 .. Len(a) PROVE a[i] \in ToSet(c)
  BY <1>1, <1>2, <1>5 DEF ToSet, c
<1>7. ASSUME NEW i \in 1 .. Len(b) PROVE b[i] \in ToSet(c)
  BY <1>1, <1>3, <1>5 DEF ToSet, c
<1>8. ASSUME NEW i \in 1 .. Len(a) + Len(b) PROVE c[i] \in ToSet(a) \cup ToSet(b)
  <2>1. CASE i <= Len(a)
    BY <1>2, <1>5, <2>1 DEF ToSet, c
  <2>2. CASE i > Len(a)
    BY <1>3, <1>4, <1>5, <2>2 DEF ToSet, c
  <2>. QED BY <1>5, <2>1, <2>2
<1>. QED BY <1>1, <1>5, <1>6, <1>7, <1>8 DEF ToSet, c

\* The gaps cover what the intervals in the range leave of it.
LEMMA GapsAreTheRest ==
  ASSUME NEW start \in Int, NEW end \in Int, NEW closed, Apart(closed), closed # <<>>,
         \A k \in DOMAIN closed : start <= closed[k][1] /\ closed[k][2] <= end
  PROVE  /\ Gaps(start, end, closed) \in Seq(Pairs)
         /\ \A gap \in ToSet(Gaps(start, end, closed)) : start <= gap[1] /\ gap[2] <= end
         /\ \A cell \in Cells(start, end) :
              Covered(Gaps(start, end, closed), cell) <=> ~Covered(closed, cell)
<1>. DEFINE n == Len(closed)
            between == [k \in 1 .. n - 1 |-> <<closed[k][2], closed[k + 1][1]>>]
            first == IF start < closed[1][1] THEN <<<<start, closed[1][1]>>>> ELSE <<>>
            last == IF end > closed[n][2] THEN <<<<closed[n][2], end>>>> ELSE <<>>
            gaps == Gaps(start, end, closed)
<1>1. n \in Nat \ {0} /\ DOMAIN closed = 1 .. n
  BY DEF Apart
<1>2. \A k \in 1 .. n : /\ closed[k][1] \in Int /\ closed[k][2] \in Int
                        /\ closed[k][1] <= closed[k][2]
                        /\ start <= closed[k][1] /\ closed[k][2] <= end
  BY <1>1 DEF Apart, Intervals, Pairs
<1>3. \A j, k \in 1 .. n : j < k => closed[j][2] < closed[k][1]
  BY <1>1 DEF Apart
<1>. HIDE DEF n
<1>4. between \in Seq(Pairs) /\ first \in Seq(Pairs) /\ last \in Seq(Pairs)
  <2>1. \A k \in 1 .. n - 1 : <<closed[k][2], closed[k + 1][1]>> \in Pairs
    BY <1>1, <1>2 DEF Pairs
  <2>2. <<start, closed[1][1]>> \in Pairs /\ <<closed[n][2], end>> \in Pairs
    BY <1>1, <1>2 DEF Pairs
  <2>3. between \in [1 .. n - 1 -> Pairs]
    BY <2>1
  <2>4. between \in Seq(Pairs)
    <3>. HIDE DEF between
    <3>. QED BY <1>1, <2>3
  <2>. QED BY <2>2, <2>4
<1>5. gaps = first \o between \o last
  BY DEF Gaps, n
<1>. HIDE DEF gaps
<1>6. gaps \in Seq(Pairs) /\ ToSet(gaps) = ToSet(first) \cup ToSet(between) \cup ToSet(last)
  <2>. HIDE DEF first, between, last
  <2>1. first \o between \in Seq(Pairs) /\ ToSet(first \o between) = ToSet(first) \cup ToSet(between)
    BY <1>4, ConcatSet
  <2>. DEFINE head == first \o between
  <2>2. head \in Seq(Pairs) /\ gaps = head \o last
    BY <1>5, <2>1
  <2>. HIDE DEF head
  <2>3. head \o last \in Seq(Pairs) /\ ToSet(head \o last) = ToSet(head) \cup ToSet(last)
    BY <1>4, <2>2, ConcatSet
  <2>. QED BY <2>1, <2>2, <2>3 DEF head
<1>7. ToSet(between) = {<<closed[k][2], closed[k + 1][1]>> : k \in 1 .. n - 1}
  BY DEF ToSet
<1>8. ToSet(first) = IF start < closed[1][1] THEN {<<start, closed[1][1]>>} ELSE {}
  BY DEF ToSet
<1>9. ToSet(last) = IF end > closed[n][2] THEN {<<closed[n][2], end>>} ELSE {}
  BY DEF ToSet
<1>. HIDE DEF between, first, last
<1>10. ASSUME NEW cell \in Cells(start, end)
       PROVE  /\ CoveredBy(<<start, closed[1][1]>>, cell) => ~Covered(closed, cell)
              /\ CoveredBy(<<closed[n][2], end>>, cell) => ~Covered(closed, cell)
              /\ \A k \in 1 .. n - 1 :
                   CoveredBy(<<closed[k][2], closed[k + 1][1]>>, cell) => ~Covered(closed, cell)
  <2>. cell \in Int /\ 1 \in 1 .. n /\ n \in 1 .. n
    BY <1>1 DEF Cells
  <2>1. ASSUME NEW j \in 1 .. n, closed[j][1] <= cell, cell < closed[j][2] PROVE closed[1][1] <= cell
    <3>1. CASE j = 1
      BY <2>1, <3>1
    <3>2. CASE j # 1
      <4>1. 1 < j
        BY <1>1, <3>2
      <4>2. closed[1][2] < closed[j][1]
        BY <1>3, <4>1
      <4>. QED BY <1>2, <2>1, <4>2
    <3>. QED BY <3>1, <3>2
  <2>2. ASSUME NEW j \in 1 .. n, closed[j][1] <= cell, cell < closed[j][2] PROVE cell < closed[n][2]
    <3>1. CASE j = n
      BY <2>2, <3>1
    <3>2. CASE j # n
      <4>1. j < n
        BY <1>1, <3>2
      <4>2. closed[j][2] < closed[n][1]
        BY <1>3, <4>1
      <4>. QED BY <1>2, <2>2, <4>2
    <3>. QED BY <3>1, <3>2
  <2>3. ASSUME NEW j \in 1 .. n, closed[j][1] <= cell, cell < closed[j][2], NEW k \in 1 .. n - 1
        PROVE  cell < closed[k][2] \/ closed[k + 1][1] <= cell
    <3>1. k \in 1 .. n /\ k + 1 \in 1 .. n
      BY <1>1
    <3>2. CASE j <= k
      <4>1. CASE j = k
        BY <2>3, <4>1
      <4>2. CASE j < k
        <5>1. closed[j][2] < closed[k][1] /\ closed[k][1] <= closed[k][2]
          BY <1>2, <1>3, <3>1, <4>2
        <5>. QED BY <1>2, <2>3, <3>1, <5>1
      <4>. QED BY <3>1, <3>2, <4>1, <4>2
    <3>3. CASE j > k
      <4>1. CASE j = k + 1
        BY <2>3, <4>1
      <4>2. CASE j > k + 1
        <5>1. closed[k + 1][2] < closed[j][1] /\ closed[k + 1][1] <= closed[k + 1][2]
          BY <1>2, <1>3, <3>1, <4>2
        <5>. QED BY <1>2, <2>3, <3>1, <5>1
      <4>. QED BY <3>1, <3>3, <4>1, <4>2
    <3>. QED BY <1>1, <3>2, <3>3
  <2>4. ASSUME NEW j \in 1 .. n, CoveredBy(closed[j], cell)
        PROVE  /\ ~CoveredBy(<<start, closed[1][1]>>, cell)
               /\ ~CoveredBy(<<closed[n][2], end>>, cell)
               /\ \A k \in 1 .. n - 1 : ~CoveredBy(<<closed[k][2], closed[k + 1][1]>>, cell)
    <3>1. closed[j][1] <= cell /\ cell < closed[j][2]
      BY <2>4 DEF CoveredBy
    <3>2. ~CoveredBy(<<start, closed[1][1]>>, cell)
      BY <1>2, <2>1, <3>1 DEF CoveredBy
    <3>3. ~CoveredBy(<<closed[n][2], end>>, cell)
      BY <1>2, <2>2, <3>1 DEF CoveredBy
    <3>4. ASSUME NEW k \in 1 .. n - 1
          PROVE  ~CoveredBy(<<closed[k][2], closed[k + 1][1]>>, cell)
      <4>1. k \in 1 .. n /\ k + 1 \in 1 .. n
        BY <1>1
      <4>. QED BY <1>2, <2>3, <3>1, <4>1 DEF CoveredBy
    <3>. QED BY <3>2, <3>3, <3>4
  <2>5. Covered(closed, cell) => \E j \in 1 .. n : CoveredBy(closed[j], cell)
    BY <1>1 DEF Covered, ToSet
  <2>. QED BY <2>4, <2>5
<1>11. ASSUME NEW cell \in Cells(start, end), ~Covered(closed, cell)
       PROVE  Covered(gaps, cell)
  <2>. cell \in Int /\ start <= cell /\ cell < end
    BY DEF Cells
  <2>1. \A k \in 1 .. n : cell < closed[k][1] \/ closed[k][2] <= cell
    <3>1. ASSUME NEW k \in 1 .. n PROVE ~CoveredBy(closed[k], cell)
      BY <1>1, <1>11 DEF Covered, ToSet
    <3>. QED BY <1>2, <3>1 DEF CoveredBy
  <2>. DEFINE Beyond == {k \in 1 .. n : cell < closed[k][2]}
  <2>2. CASE Beyond = {}
    <3>1. n \in 1 .. n /\ closed[n][2] <= cell
      BY <1>1, <1>2, <2>2
    <3>2. <<closed[n][2], end>> \in ToSet(gaps)
      BY <1>2, <1>6, <1>9, <3>1
    <3>. QED BY <3>1, <3>2 DEF Covered, CoveredBy
  <2>3. CASE Beyond # {}
    <3>1. PICK k \in Beyond : \A l \in Beyond : k <= l
      <4>1. Beyond \subseteq Nat
        OBVIOUS
      <4>. HIDE DEF Beyond
      <4>. QED BY <2>3, <4>1, LeastNumber
    <3>2. k \in 1 .. n /\ cell < closed[k][1]
      BY <1>2, <2>1
    <3>3. CASE k = 1
      <4>1. <<start, closed[1][1]>> \in ToSet(gaps)
        BY <1>2, <1>6, <1>8, <3>2, <3>3
      <4>. QED BY <3>2, <3>3, <4>1 DEF Covered, CoveredBy
    <3>4. CASE k # 1
      <4>. DEFINE j == k - 1
      <4>1. j \in 1 .. n - 1 /\ j \in 1 .. n /\ j + 1 = k /\ j < k
        BY <1>1, <3>2, <3>4
      <4>. HIDE DEF j
      <4>2. j \notin Beyond
        BY <3>1, <3>2, <4>1
      <4>3. closed[j][2] <= cell
        BY <1>2, <4>1, <4>2
      <4>4. <<closed[j][2], closed[k][1]>> \in ToSet(gaps)
        BY <1>6, <1>7, <4>1
      <4>. QED BY <3>2, <4>3, <4>4 DEF Covered, CoveredBy
    <3>. QED BY <3>3, <3>4
  <2>. QED BY <2>2, <2>3
<1>12. ASSUME NEW cell \in Cells(start, end), Covered(gaps, cell) PROVE ~Covered(closed, cell)
  <2>1. PICK gap \in ToSet(gaps) : CoveredBy(gap, cell)
    BY <1>12 DEF Covered
  <2>2. \/ gap = <<start, closed[1][1]>>
        \/ gap = <<closed[n][2], end>>
        \/ \E k \in 1 .. n - 1 : gap = <<closed[k][2], closed[k + 1][1]>>
    BY <1>6, <1>7, <1>8, <1>9
  <2>. QED BY <1>10, <2>1, <2>2
<1>13. ASSUME NEW gap \in ToSet(gaps) PROVE start <= gap[1] /\ gap[2] <= end
  <2>1. \A k \in 1 .. n - 1 : k \in 1 .. n /\ k + 1 \in 1 .. n
    BY <1>1
  <2>2. \A k \in 1 .. n : start <= closed[k][2] /\ closed[k][1] <= end
    BY <1>2
  <2>3. 1 \in 1 .. n /\ n \in 1 .. n
    BY <1>1
  <2>4. CASE gap = <<start, closed[1][1]>>
    BY <2>2, <2>3, <2>4
  <2>5. CASE gap = <<closed[n][2], end>>
    BY <2>2, <2>3, <2>5
  <2>6. CASE \E k \in 1 .. n - 1 : gap = <<closed[k][2], closed[k + 1][1]>>
    BY <2>1, <2>2, <2>6
  <2>. QED BY <1>6, <1>7, <1>8, <1>9, <2>4, <2>5, <2>6
<1>. QED BY <1>6, <1>11, <1>12, <1>13 DEF gaps

\* What a heap offers, when it can be built at all: what is left of its range by the
\* intervals after they are combined and trimmed, the widest opening first.
LEMMA HeapOffers ==
  ASSUME NEW start \in Int, NEW end \in Int, start <= end, NEW closed \in Seq(Intervals),
         ~OpenIntervalHeap(start, end, closed).fails
  PROVE  LET open == OpenIntervalHeap(start, end, closed).open
         IN  /\ \A cell \in Cells(start, end) :
                  Covered(open, cell) <=>
                    closed = <<>> \/ ~Covered(Combined(closed), cell)
             /\ open \in Seq(Pairs)
             /\ \A i \in DOMAIN open : open[i] \in Pairs /\ start <= open[i][1] /\ open[i][2] <= end
             /\ \A i, j \in DOMAIN open : i < j => Width(open[j]) <= Width(open[i])
<1>. DEFINE heap == OpenIntervalHeap(start, end, closed)
            trimmed == Trimmed(start, end, Combined(closed))
            gaps == Gaps(start, end, trimmed)
<1>1. CASE closed = <<>>
  <2>1. heap.open = <<<<start, end>>>>
    BY <1>1 DEF OpenIntervalHeap
  <2>2. ToSet(heap.open) = {<<start, end>>} /\ DOMAIN heap.open = {1}
    BY <2>1 DEF ToSet
  <2>3. \A cell \in Cells(start, end) : Covered(heap.open, cell)
    BY <2>2 DEF Covered, CoveredBy, Cells
  <2>4. \A i, j \in DOMAIN heap.open : ~(i < j)
    BY <2>2
  <2>5. /\ heap.open[1] = <<start, end>> /\ <<start, end>> \in Pairs
        /\ heap.open \in Seq(Pairs)
    BY <2>1 DEF Pairs
  <2>. QED BY <1>1, <2>2, <2>3, <2>4, <2>5
<1>2. CASE closed # <<>>
  <2>1. Apart(Combined(closed))
    BY <1>2, CombinedIsApart
  <2>2. /\ Apart(trimmed) /\ \A k \in DOMAIN trimmed : start <= trimmed[k][1] /\ trimmed[k][2] <= end
        /\ \A cell \in Cells(start, end) :
             Covered(trimmed, cell) <=> Covered(Combined(closed), cell)
    BY <2>1, TrimmedIsApart
  <2>3. heap = HeapOver(start, end, trimmed)
    BY <1>2 DEF OpenIntervalHeap
  <2>. HIDE DEF trimmed
  <2>4. trimmed # <<>> /\ heap.open = Sorted(gaps, Wider)
    BY <2>3 DEF HeapOver, heap
  <2>5. /\ gaps \in Seq(Pairs)
        /\ \A gap \in ToSet(gaps) : start <= gap[1] /\ gap[2] <= end
        /\ \A cell \in Cells(start, end) : Covered(gaps, cell) <=> ~Covered(trimmed, cell)
    BY <2>2, <2>4, GapsAreTheRest
  <2>. HIDE DEF gaps, heap
  <2>6. PICK p \in Bijection(DOMAIN gaps, DOMAIN gaps) :
          /\ heap.open = [i \in DOMAIN gaps |-> gaps[p[i]]]
          /\ \A i, j \in DOMAIN gaps : i < j => ~Wider(gaps[p[j]], gaps[p[i]])
    BY <2>4, <2>5, SortedByWidth
  <2>7. /\ DOMAIN heap.open = DOMAIN gaps /\ p \in [DOMAIN gaps -> DOMAIN gaps]
        /\ \A l \in DOMAIN gaps : \E i \in DOMAIN gaps : p[i] = l
    BY <2>6 DEF Bijection, Surjection, Injection
  <2>8. \A i \in DOMAIN gaps : heap.open[i] = gaps[p[i]] /\ heap.open[i] \in Pairs
    BY <2>5, <2>6, <2>7
  <2>9. ToSet(heap.open) = ToSet(gaps)
    BY <2>7, <2>8 DEF ToSet
  <2>10. \A cell \in Cells(start, end) : Covered(heap.open, cell) <=> ~Covered(Combined(closed), cell)
    BY <2>2, <2>5, <2>9 DEF Covered
  <2>11. ASSUME NEW i \in DOMAIN gaps, NEW j \in DOMAIN gaps, i < j
         PROVE  Width(heap.open[j]) <= Width(heap.open[i])
    <3>1. ~Wider(heap.open[j], heap.open[i])
      BY <2>6, <2>8, <2>11
    <3>2. \A a, b \in Pairs : ~Wider(b, a) => Width(b) <= Width(a)
      BY DEF Wider, Width, Pairs
    <3>. QED BY <2>8, <3>1, <3>2
  <2>12. \A i \in DOMAIN gaps : start <= heap.open[i][1] /\ heap.open[i][2] <= end
    <3>1. \A i \in DOMAIN gaps : gaps[p[i]] \in ToSet(gaps)
      BY <2>7 DEF ToSet
    <3>. QED BY <2>5, <2>8, <3>1
  <2>13. heap.open \in Seq(Pairs)
    <3>1. DOMAIN gaps = 1 .. Len(gaps) /\ Len(gaps) \in Nat
      BY <2>5
    <3>2. heap.open \in [1 .. Len(gaps) -> Pairs]
      BY <2>6, <2>8, <3>1
    <3>. QED BY <3>1, <3>2
  <2>. QED BY <1>2, <2>7, <2>8, <2>10, <2>11, <2>12, <2>13 DEF heap
<1>. QED BY <1>1, <1>2

\* Whatever list of occupied intervals a heap is built from, in any range: it offers every
\* direction that none of them occupies.
THEOREM FreeIsOffered ==
  ASSUME NEW start \in Int, NEW end \in Int, start <= end, NEW closed \in Seq(Intervals),
         ~OpenIntervalHeap(start, end, closed).fails
  PROVE  \A cell \in Cells(start, end) :
           ~Covered(closed, cell) => Covered(OpenIntervalHeap(start, end, closed).open, cell)
<1>1. \A cell \in Cells(start, end) : cell \in Int
  BY DEF Cells
<1>2. closed # <<>> => \A cell \in Int : Covered(Combined(closed), cell) => Covered(closed, cell)
  BY CombinedIsApart
<1>. QED BY <1>1, <1>2, HeapOffers

\* And it offers only those, when none of the intervals is nested in another or listed twice
\* (the pass that combines them marks the wrong one of such a pair).
THEOREM OfferedIsFree ==
  ASSUME NEW start \in Int, NEW end \in Int, start <= end, NEW closed \in Seq(Intervals),
         ~OpenIntervalHeap(start, end, closed).fails, ~Nested(closed)
  PROVE  \A cell \in Cells(start, end) :
           Covered(OpenIntervalHeap(start, end, closed).open, cell) => ~Covered(closed, cell)
<1>1. \A cell \in Cells(start, end) : cell \in Int
  BY DEF Cells
<1>2. closed # <<>> => \A cell \in Int : Covered(closed, cell) => Covered(Combined(closed), cell)
  BY CombinedIsApart
<1>3. closed = <<>> => \A cell : ~Covered(closed, cell)
  BY DEF Covered, ToSet
<1>. QED BY <1>1, <1>2, <1>3, HeapOffers

\* The first opening that it offers is the widest (getNextOpenInterval takes that one).
THEOREM WidestFirst ==
  ASSUME NEW start \in Int, NEW end \in Int, start <= end, NEW closed \in Seq(Intervals),
         ~OpenIntervalHeap(start, end, closed).fails
  PROVE  LET open == OpenIntervalHeap(start, end, closed).open
         IN  \A i, j \in DOMAIN open : i < j => Width(open[j]) <= Width(open[i])
BY HeapOffers

\* At least half of what a post takes up is free of the posts that hide it, when it counts
\* as half open and none of those is nested in another ("less than 50% of tag unblocked, we
\* can't see it", target_detector.ts).
THEOREM HalfOpenShows ==
  ASSUME NEW edges \in Intervals, NEW hidden \in Seq(Intervals),
         HalfOpen(edges, hidden), ~Nested(hidden)
  PROVE  LET cells == Cells(edges[1], edges[2])
         IN  2 * Cardinality({cell \in cells : ~Covered(hidden, cell)}) >= Cardinality(cells)
<1>. DEFINE start == edges[1]
            end == edges[2]
            heap == OpenIntervalHeap(start, end, hidden)
            widest == heap.open[1]
            cells == Cells(start, end)
            free == {cell \in cells : ~Covered(hidden, cell)}
<1>1. start \in Int /\ end \in Int /\ start <= end
  BY DEF Intervals, Pairs
<1>2. heap.open # <<>> /\ 2 * Width(widest) >= Width(edges)
  BY DEF HalfOpen
<1>3. ~heap.fails
  BY <1>2 DEF OpenIntervalHeap, HeapOver
<1>4. heap.open \in Seq(Pairs) /\ widest \in Pairs /\ start <= widest[1] /\ widest[2] <= end
  BY <1>1, <1>2, <1>3, HeapOffers
<1>. HIDE DEF heap
<1>5. widest[1] \in Int /\ widest[2] \in Int /\ widest[1] <= widest[2]
  BY <1>1, <1>2, <1>4 DEF Width, Pairs
<1>6. Cells(widest[1], widest[2]) \subseteq free
  <2>. SUFFICES ASSUME NEW cell \in Cells(widest[1], widest[2]) PROVE cell \in free
    OBVIOUS
  <2>1. cell \in cells /\ CoveredBy(widest, cell)
    BY <1>1, <1>4, <1>5 DEF Cells, CoveredBy
  <2>2. Covered(heap.open, cell)
    BY <1>2, <1>4, <2>1 DEF Covered, ToSet
  <2>. QED BY <1>1, <1>3, <2>1, <2>2, OfferedIsFree DEF heap
<1>7. \A a, b \in Int : a <= b => IsFiniteSet(Cells(a, b)) /\ Cardinality(Cells(a, b)) = b - a
  <2>. SUFFICES ASSUME NEW a \in Int, NEW b \in Int, a <= b
                PROVE  IsFiniteSet(Cells(a, b)) /\ Cardinality(Cells(a, b)) = b - a
    OBVIOUS
  <2>1. /\ IsFiniteSet(a .. b - 1)
        /\ Cardinality(a .. b - 1) = IF a > b - 1 THEN 0 ELSE (b - 1) - a + 1
    BY FS_Interval
  <2>. QED BY <2>1 DEF Cells
<1>8. Cardinality(Cells(widest[1], widest[2])) <= Cardinality(free) /\ Cardinality(free) \in Nat
  <2>1. IsFiniteSet(free)
    BY <1>1, <1>7, FS_Subset
  <2>. HIDE DEF free
  <2>. QED BY <1>6, <2>1, FS_Subset, FS_CardinalityType
<1>9. Cardinality(cells) = end - start /\ Cardinality(Cells(widest[1], widest[2])) = widest[2] - widest[1]
  BY <1>1, <1>5, <1>7
<1>10. 2 * Cardinality(free) >= Cardinality(cells)
  <2>. HIDE DEF free, cells
  <2>. QED BY <1>1, <1>2, <1>5, <1>8, <1>9 DEF Width
<1>. QED BY <1>10
===============================================================================
