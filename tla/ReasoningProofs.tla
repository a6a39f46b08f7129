---------------------------- MODULE ReasoningProofs ----------------------------
(***************************************************************************)
(* Proofs about Agent and what it extends, the reasoning core with its     *)
(* population, memory and router, for any claims and any likeness of them, *)
(* any evidence, patterns, scores and executors, and any capacities.       *)
(***************************************************************************)
EXTENDS Agent, FiniteSetTheorems, SequenceTheorems, Recursion, TLAPS

--------------------------------------------------------------------------------
(* Least, largest, first and best.                                         *)

LEMMA MinIsLeast ==
  ASSUME NEW S \in SUBSET Nat, S # {}
  PROVE  Min(S) \in S /\ \A y \in S : Min(S) <= y
  <1>1. \E x \in S : \A y \in S : x <= y
    BY LeastNat
  <1> QED
    BY <1>1 DEF Min

LEMMA MinOfTwo ==
  ASSUME NEW a \in Int, NEW b \in Int
  PROVE  Min({a, b}) = IF a <= b THEN a ELSE b
  BY DEF Min

LEMMA MaxOfTwo ==
  ASSUME NEW a \in Int, NEW b \in Int
  PROVE  Max({a, b}) = IF a >= b THEN a ELSE b
  BY DEF Max

\* A place of S that no other place of S scores above.
IsBest(i, S, score) == i \in S /\ \A j \in S : score[j] <= score[i]

\* The first of them.
IsFirstBest(i, S, score) ==
  IsBest(i, S, score) /\ \A j \in S : j < i => score[j] < score[i]

LEMMA BestExists ==
  ASSUME NEW N \in Nat, NEW S \in SUBSET (1..N), S # {}, NEW score,
         \A i \in S : score[i] \in Int
  PROVE  \E i \in S : IsBest(i, S, score)
  <1> DEFINE Upto(n) == {i \in S : i <= n}
             P == {n \in 0..N : Upto(n) = {} \/ \E i \in Upto(n) : IsBest(i, Upto(n), score)}
  <1>0. \A i \in S : i \in 1..N
    OBVIOUS
  <1>1. 0 \in P
    <2>1. Upto(0) = {}
      <3>1. \A i \in S : ~(i <= 0)
        BY <1>0
      <3> QED
        BY <3>1, Zenon
    <2>2. 0 \in 0..N
      OBVIOUS
    <2> QED
      BY <2>1, <2>2, Zenon
  <1>2. ASSUME NEW n \in 0..N - 1, n \in P
        PROVE  n + 1 \in P
    <2>0. n + 1 \in 0..N
      OBVIOUS
    <2>1. CASE n + 1 \notin S
      <3>1. \A i \in S : i <= n + 1 <=> i <= n
        BY <1>0, <2>1
      <3>2. Upto(n + 1) = Upto(n)
        BY <3>1, Zenon
      <3> QED
        BY <1>2, <2>0, <3>2, Zenon
    <2>2. CASE n + 1 \in S /\ Upto(n) = {}
      <3>1. IsBest(n + 1, Upto(n + 1), score) /\ n + 1 \in Upto(n + 1)
        BY <2>2 DEF IsBest
      <3> QED
        BY <2>0, <3>1, Zenon
    <2>3. CASE n + 1 \in S /\ Upto(n) # {}
      <3>1. PICK i \in Upto(n) : IsBest(i, Upto(n), score)
        BY <1>2, <2>3
      <3>2. Upto(n + 1) = Upto(n) \cup {n + 1}
        <4>1. \A x \in S : x <= n + 1 <=> x <= n \/ x = n + 1
          BY <1>0
        <4>2. Upto(n + 1) \subseteq Upto(n) \cup {n + 1}
          BY <4>1, Zenon
        <4>3. Upto(n) \cup {n + 1} \subseteq Upto(n + 1)
          BY <2>3, <4>1, Zenon
        <4> QED
          BY <4>2, <4>3, Zenon
      <3>3. i \in S /\ score[i] \in Int /\ score[n + 1] \in Int
        BY <2>3
      <3>4. \A j \in Upto(n) : score[j] <= score[i] /\ score[j] \in Int
        BY <3>1 DEF IsBest
      <3> HIDE DEF Upto
      <3>5. CASE score[n + 1] <= score[i]
        <4>1. IsBest(i, Upto(n + 1), score) /\ i \in Upto(n + 1)
          BY <3>1, <3>2, <3>4, <3>5 DEF IsBest
        <4> QED
          BY <2>0, <4>1, Zenon
      <3>6. CASE ~(score[n + 1] <= score[i])
        <4>1. \A j \in Upto(n) : score[j] <= score[n + 1]
          BY <3>3, <3>4, <3>6
        <4>2. IsBest(n + 1, Upto(n + 1), score) /\ n + 1 \in Upto(n + 1)
          BY <3>2, <3>3, <4>1 DEF IsBest
        <4> QED
          BY <2>0, <4>2, Zenon
      <3> QED
        BY <3>5, <3>6, Zenon
    <2> QED
      BY <2>1, <2>2, <2>3, Zenon
  <1>3. N \in P
    <2> HIDE DEF P
    <2>1. N \in 0..N
      OBVIOUS
    <2> QED
      BY <1>1, <1>2, <2>1, InductionUpTo
  <1>4. Upto(N) = S
    <2>1. \A i \in S : i <= N
      BY <1>0
    <2> QED
      BY <2>1, Zenon
  <1> QED
    BY <1>3, <1>4, Zenon

LEMMA FirstBestIs ==
  ASSUME NEW N \in Nat, NEW S \in SUBSET (1..N), S # {}, NEW score,
         \A i \in S : score[i] \in Int
  PROVE  IsFirstBest(FirstBest(S, score), S, score)
  <1> DEFINE B == {i \in S : IsBest(i, S, score)}
  <1>1. B # {} /\ B \in SUBSET Nat
    <2>1. \E i \in S : IsBest(i, S, score)
      BY BestExists
    <2>2. \A i \in S : i \in Nat
      OBVIOUS
    <2> QED
      BY <2>1, <2>2, Zenon
  <1>2. PICK i \in B : \A j \in B : i <= j
    <2> HIDE DEF B
    <2> QED
      BY <1>1, LeastNat
  <1>3. ASSUME NEW j \in S, j < i PROVE score[j] < score[i]
    <2>1. j \notin B
      BY <1>2, <1>3
    <2>2. PICK k \in S : ~(score[k] <= score[j])
      BY <2>1, Zenon DEF IsBest
    <2>3. score[k] <= score[i]
      BY <1>2, Zenon DEF IsBest
    <2> QED
      BY <2>2, <2>3
  <1>4. i \in S /\ \A j \in S : score[j] <= score[i]
    BY <1>2, Zenon DEF IsBest
  <1>5. FirstBest(S, score) = CHOOSE k \in S : /\ \A j \in S : score[j] <= score[k]
                                             /\ \A j \in S : j < k => score[j] < score[k]
    BY Zenon DEF FirstBest
  <1> HIDE DEF B
  <1>6. /\ FirstBest(S, score) \in S
        /\ \A j \in S : score[j] <= score[FirstBest(S, score)]
        /\ \A j \in S : j < FirstBest(S, score) => score[j] < score[FirstBest(S, score)]
    BY <1>3, <1>4, <1>5, Zenon
  <1> QED
    BY <1>6, Zenon DEF IsFirstBest, IsBest

\* There is one first best place.
LEMMA OneFirstBest ==
  ASSUME NEW S \in SUBSET Nat, NEW score, \A i \in S : score[i] \in Int,
         NEW a, IsFirstBest(a, S, score), NEW b, IsFirstBest(b, S, score)
  PROVE  a = b
  BY DEF IsFirstBest, IsBest

--------------------------------------------------------------------------------
(* The loops.                                                              *)

\* A function that a recursion over 0 .. n defines, for steps that are functions.
Computes(f, X, base, step, n) ==
  /\ f \in [0..n -> X]
  /\ f = [i \in 0..n |-> IF i = 0 THEN base ELSE step[i][f[i - 1]]]

LEMMA RecursionExists ==
  ASSUME NEW X, NEW base \in X, NEW n \in Nat, NEW step, AreSteps(step, X, n)
  PROVE  \E f : Computes(f, X, base, step, n)
  <1>1. PICK f : Follows(f, X, base, step, n)
    BY RecursiveValues, Zenon
  <1>2. f \in [0..n -> X] /\ f[0] = base /\ \A i \in 1..n : f[i] = step[i][f[i - 1]]
    BY <1>1, Zenon DEF Follows
  <1>3. \A i \in 0..n : f[i] = IF i = 0 THEN base ELSE step[i][f[i - 1]]
    <2> TAKE i \in 0..n
    <2>1. i = 0 \/ (i # 0 /\ i \in 1..n)
      OBVIOUS
    <2> QED
      BY <1>2, <2>1, Zenon
  <1>4. f = [i \in 0..n |-> f[i]]
    BY <1>2, Zenon
  <1> QED
    BY <1>2, <1>3, <1>4, Zenon DEF Computes

\* s lists the numbers of T in ascending order.
Lists(s, T) ==
  /\ s \in Seq(T) /\ Len(s) = Cardinality(T)
  /\ \A j, k \in 1..Len(s) : j < k => s[j] < s[k]
  /\ \A x \in T : \E k \in 1..Len(s) : s[k] = x

LEMMA ListsMore ==
  ASSUME NEW T \in SUBSET Nat, IsFiniteSet(T), NEW s, Lists(s, T),
         NEW x \in Nat, \A y \in T : y < x
  PROVE  Lists(Append(s, x), T \cup {x})
  <1>1. /\ s \in Seq(T) /\ Len(s) = Cardinality(T)
        /\ \A j, k \in 1..Len(s) : j < k => s[j] < s[k]
        /\ \A y \in T : \E k \in 1..Len(s) : s[k] = y
    BY Zenon DEF Lists
  <1>2. PICK n \in Nat : n = Len(s)
    BY <1>1, LenProperties, Zenon
  <1>3. PICK r : r = Append(s, x)
    OBVIOUS
  <1>4. Len(r) = n + 1 /\ r[n + 1] = x /\ \A k \in 1..n : r[k] = s[k]
    BY <1>1, <1>2, <1>3
  <1>5. \A k \in 1..n : s[k] \in T
    BY <1>1, <1>2
  <1>6. r \in Seq(T \cup {x})
    <2>1. s \in Seq(T \cup {x})
      <3>1. T \subseteq T \cup {x}
        OBVIOUS
      <3> QED
        BY <1>1, <3>1, SeqMonotonic, Zenon
    <2>2. x \in T \cup {x}
      OBVIOUS
    <2> QED
      BY <1>3, <2>1, <2>2, AppendProperties, Zenon
  <1>7. Cardinality(T \cup {x}) = n + 1
    <2>1. x \notin T
      <3>1. ~(x < x)
        OBVIOUS
      <3> QED
        BY <3>1, Zenon
    <2> QED
      BY <1>1, <1>2, <2>1, FS_AddElement
  <1>8. ASSUME NEW j \in 1..n + 1, NEW k \in 1..n + 1, j < k
        PROVE  r[j] < r[k]
    <2>1. j \in 1..n
      BY <1>8
    <2>2. CASE k = n + 1
      BY <1>4, <1>5, <2>1, <2>2
    <2>3. CASE k # n + 1
      <3>1. k \in 1..n
        BY <2>3
      <3> QED
        BY <1>1, <1>2, <1>4, <1>8, <2>1, <3>1
    <2> QED
      BY <2>2, <2>3, Zenon
  <1>9. ASSUME NEW y \in T \cup {x}
        PROVE  \E k \in 1..n + 1 : r[k] = y
    <2>1. CASE y = x
      <3>1. n + 1 \in 1..n + 1
        OBVIOUS
      <3> QED
        BY <1>4, <2>1, <3>1, Zenon
    <2>2. CASE y \in T
      <3>1. PICK k \in 1..n : s[k] = y
        BY <1>1, <1>2, <2>2
      <3>2. k \in 1..n + 1
        OBVIOUS
      <3> QED
        BY <1>4, <3>1, <3>2, Zenon
    <2> QED
      BY <2>1, <2>2
  <1> QED
    BY <1>3, <1>4, <1>6, <1>7, <1>8, <1>9, Zenon DEF Lists

IsInOrder(f, S, n) ==
  f = [i \in 0..n |-> IF i = 0 THEN <<>>
                      ELSE IF i \in S THEN Append(f[i - 1], i) ELSE f[i - 1]]

LEMMA InOrderExists ==
  ASSUME NEW S, NEW n \in Nat
  PROVE  \E f : IsInOrder(f, S, n)
  <1> DEFINE X == Seq(Nat)
             step == [i \in 1..n |-> [s \in X |-> IF i \in S THEN Append(s, i) ELSE s]]
  <1>1. AreSteps(step, X, n)
    <2>1. ASSUME NEW i \in 1..n, NEW s \in X
          PROVE  (IF i \in S THEN Append(s, i) ELSE s) \in X
      <3>1. i \in Nat
        OBVIOUS
      <3> QED
        BY <3>1, AppendProperties, Zenon
    <2> HIDE DEF X
    <2> QED
      BY <2>1, Zenon DEF AreSteps
  <1>2. <<>> \in X
    OBVIOUS
  <1>3. PICK f : Computes(f, X, <<>>, step, n)
    <2> HIDE DEF X, step
    <2> QED
      BY <1>1, <1>2, RecursionExists, Zenon
  <1>4. ASSUME NEW i \in 0..n, i # 0
        PROVE  step[i][f[i - 1]] = IF i \in S THEN Append(f[i - 1], i) ELSE f[i - 1]
    <2>1. i \in 1..n /\ i - 1 \in 0..n
      BY <1>4
    <2>2. f[i - 1] \in X
      BY <1>3, <2>1, Zenon DEF Computes
    <2> HIDE DEF X
    <2> QED
      BY <2>1, <2>2, Zenon
  <1> HIDE DEF step, X
  <1>5. f \in [0..n -> X] /\ f[0] = <<>> /\ \A i \in 1..n : f[i] = step[i][f[i - 1]]
    <2>1. 0 \in 0..n /\ \A i \in 1..n : i \in 0..n /\ i # 0
      OBVIOUS
    <2>2. f \in [0..n -> X]
      BY <1>3, Zenon DEF Computes
    <2>3. f[0] = <<>>
      BY <1>3, <2>1, Zenon DEF Computes
    <2>4. \A i \in 1..n : f[i] = step[i][f[i - 1]]
      BY <1>3, <2>1, Zenon DEF Computes
    <2> QED
      BY <2>2, <2>3, <2>4
  <1>6. \A i \in 0..n : f[i] = IF i = 0 THEN <<>>
                             ELSE IF i \in S THEN Append(f[i - 1], i) ELSE f[i - 1]
    <2> TAKE i \in 0..n
    <2>1. CASE i = 0
      BY <1>5, <2>1, Zenon
    <2>2. CASE i # 0
      <3>1. i \in 1..n
        BY <2>2
      <3> QED
        BY <1>4, <1>5, <2>2, <3>1, Zenon
    <2> QED
      BY <2>1, <2>2, Zenon
  <1>7. f = [i \in 0..n |-> f[i]]
    BY <1>5, Zenon
  <1> QED
    BY <1>6, <1>7, Zenon DEF IsInOrder

\* A loop that collects the places of S finds them all, in ascending order.
LEMMA InOrderIs ==
  ASSUME NEW n \in Nat, NEW S \in SUBSET (1..n)
  PROVE  Lists(InOrder(S, n), S)
  <1> DEFINE f == CHOOSE g : IsInOrder(g, S, n)
             Upto(i) == {j \in S : j <= i}
             P == {i \in 0..n : IsFiniteSet(Upto(i)) /\ Lists(f[i], Upto(i))}
  <1>1. IsInOrder(f, S, n)
    BY InOrderExists, Zenon
  <1>2. InOrder(S, n) = f[n]
    BY Zenon DEF InOrder, IsInOrder
  <1> HIDE DEF f
  <1>3. f[0] = <<>>
    BY <1>1 DEF IsInOrder
  <1>4. \A i \in 0..n - 1 : f[i + 1] = IF i + 1 \in S THEN Append(f[i], i + 1) ELSE f[i]
    <2> TAKE i \in 0..n - 1
    <2>1. i + 1 \in 0..n /\ i + 1 # 0 /\ (i + 1) - 1 = i
      OBVIOUS
    <2> QED
      BY <1>1, <2>1 DEF IsInOrder
  <1>5. \A j \in S : j \in 1..n
    OBVIOUS
  <1>6. 0 \in P
    <2>1. Upto(0) = {}
      <3>1. \A j \in S : ~(j <= 0)
        BY <1>5
      <3> QED
        BY <3>1, Zenon
    <2>2. IsFiniteSet({}) /\ Cardinality({}) = 0
      BY FS_EmptySet
    <2>3. Lists(<<>>, {})
      BY <2>2 DEF Lists
    <2>4. 0 \in 0..n
      OBVIOUS
    <2> QED
      BY <1>3, <2>1, <2>2, <2>3, <2>4, Zenon
  <1>7. ASSUME NEW i \in 0..n - 1, i \in P
        PROVE  i + 1 \in P
    <2>1. i + 1 \in 0..n /\ i + 1 \in Nat
      OBVIOUS
    <2>2. IsFiniteSet(Upto(i)) /\ Lists(f[i], Upto(i))
      BY <1>7, Zenon
    <2>3. CASE i + 1 \in S
      <3>1. \A j \in S : j <= i + 1 <=> j <= i \/ j = i + 1
        BY <1>5
      <3>2. Upto(i + 1) = Upto(i) \cup {i + 1}
        <4>1. i + 1 <= i + 1
          OBVIOUS
        <4>2. Upto(i + 1) \subseteq Upto(i) \cup {i + 1}
          BY <3>1, Zenon
        <4>3. Upto(i) \cup {i + 1} \subseteq Upto(i + 1)
          BY <2>3, <3>1, <4>1, Zenon
        <4> QED
          BY <4>2, <4>3, Zenon
      <3>3. \A j \in Upto(i) : j < i + 1
        <4>1. \A j \in S : j <= i => j < i + 1
          BY <1>5
        <4> QED
          BY <4>1, Zenon
      <3>4. Upto(i) \in SUBSET Nat
        <4>1. \A j \in S : j \in Nat
          BY <1>5
        <4> QED
          BY <4>1, Zenon
      <3> HIDE DEF Upto
      <3>5. Lists(Append(f[i], i + 1), Upto(i) \cup {i + 1})
        BY <2>1, <2>2, <3>3, <3>4, ListsMore, Zenon
      <3>6. IsFiniteSet(Upto(i) \cup {i + 1})
        BY <2>2, FS_AddElement
      <3> QED
        BY <1>4, <2>1, <2>3, <3>2, <3>5, <3>6, Zenon
    <2>4. CASE i + 1 \notin S
      <3>1. \A j \in S : j <= i + 1 <=> j <= i
        BY <1>5, <2>4
      <3>2. Upto(i + 1) = Upto(i)
        BY <3>1, Zenon
      <3> HIDE DEF Upto
      <3> QED
        BY <1>4, <2>1, <2>2, <2>4, <3>2, Zenon
    <2> QED
      BY <2>3, <2>4, Zenon
  <1>8. n \in P
    <2> HIDE DEF P
    <2>1. n \in 0..n
      OBVIOUS
    <2> QED
      BY <1>6, <1>7, <2>1, InductionUpTo
  <1>9. Upto(n) = S
    <2>1. \A j \in S : j <= n
      BY <1>5
    <2> QED
      BY <2>1, Zenon
  <1> QED
    BY <1>2, <1>8, <1>9, Zenon

--------------------------------------------------------------------------------
(* The router.                                                             *)

LEMMA ExecutorsType ==
  ASSUME RouterTypeOK
  PROVE  \E E \in Nat : /\ DOMAIN executors = 1..E /\ Len(executors) = E
                        /\ \A i \in 1..E : executors[i] \in ExecutorEntries
  <1>1. executors \in Seq(ExecutorEntries)
    BY Zenon DEF RouterTypeOK
  <1>2. PICK E \in Nat : E = Len(executors)
    BY <1>1, LenProperties, Zenon
  <1>3. DOMAIN executors = 1..E
    BY <1>1, <1>2, LenProperties, Zenon
  <1>4. \A i \in 1..E : executors[i] \in ExecutorEntries
    BY <1>1, <1>2, <1>3, ElementOfSeq, Zenon
  <1> QED
    BY <1>2, <1>3, <1>4, Zenon

LEMMA ScoresType ==
  ASSUME RouterTypeOK, NEW cap, NEW i \in DOMAIN executors
  PROVE  ScoresFor(cap)[i] \in Nat
  <1>1. PICK E \in Nat : /\ DOMAIN executors = 1..E
                         /\ \A j \in 1..E : executors[j] \in ExecutorEntries
    BY ExecutorsType, Zenon
  <1>2. executors[i].worth \in Nat
    BY <1>1 DEF ExecutorEntries
  <1>3. ScoresFor(cap)[i] = ExecutorScore(executors[i], cap)
    BY Zenon DEF ScoresFor
  <1>4. ExecutorScore(executors[i], cap) \in {executors[i].worth, 0}
    BY Zenon DEF ExecutorScore
  <1> QED
    BY <1>2, <1>3, <1>4

LEMMA FittingType ==
  ASSUME RouterTypeOK, NEW cap
  PROVE  \E E \in Nat : /\ DOMAIN executors = 1..E /\ Len(executors) = E
                        /\ Fitting(cap) \in SUBSET (1..E)
                        /\ IsFiniteSet(Fitting(cap)) /\ Cardinality(Fitting(cap)) \in Nat
                        /\ \A i \in 1..E : ScoresFor(cap)[i] \in Nat
                        /\ \A i \in 1..E : i \in Fitting(cap) <=> ScoresFor(cap)[i] > 0
  <1>1. PICK E \in Nat : DOMAIN executors = 1..E /\ Len(executors) = E
    BY ExecutorsType, Zenon
  <1>2. \A i \in 1..E : ScoresFor(cap)[i] \in Nat
    BY <1>1, ScoresType, Zenon
  <1>3. Fitting(cap) \in SUBSET (1..E) /\ \A i \in 1..E : i \in Fitting(cap) <=> ScoresFor(cap)[i] > 0
    BY <1>1, Zenon DEF Fitting
  <1>4. IsFiniteSet(Fitting(cap)) /\ Cardinality(Fitting(cap)) \in Nat
    <2>1. IsFiniteSet(1..E)
      BY FS_Interval
    <2>2. IsFiniteSet(Fitting(cap))
      BY <1>3, <2>1, FS_Subset
    <2> QED
      BY <2>2, FS_CardinalityType
  <1> QED
    BY <1>1, <1>2, <1>3, <1>4, Zenon

\* The executor that router_select finds.
LEMMA SelectIs ==
  ASSUME RouterTypeOK, NEW cap, Fitting(cap) # {}
  PROVE  \E i \in DOMAIN executors :
            /\ executors[i].id = Select(cap)
            /\ i \in Fitting(cap)
            /\ IsFirstBest(i, DOMAIN executors, ScoresFor(cap))
  <1>1. PICK E \in Nat : /\ DOMAIN executors = 1..E /\ Len(executors) = E
                         /\ Fitting(cap) \in SUBSET (1..E)
                         /\ \A i \in 1..E : ScoresFor(cap)[i] \in Nat
                         /\ \A i \in 1..E : i \in Fitting(cap) <=> ScoresFor(cap)[i] > 0
    BY FittingType, Zenon
  <1>2. PICK k \in 1..E : k \in Fitting(cap)
    BY <1>1, Zenon
  <1>3. PICK i : i = FirstBest(1..E, ScoresFor(cap))
    BY Zenon
  <1>4. IsFirstBest(i, 1..E, ScoresFor(cap))
    <2>1. (1..E) \in SUBSET (1..E) /\ 1..E # {} /\ \A j \in 1..E : ScoresFor(cap)[j] \in Int
      BY <1>1, <1>2
    <2> QED
      BY <1>3, <2>1, FirstBestIs, Zenon
  <1>5. i \in 1..E /\ ScoresFor(cap)[k] <= ScoresFor(cap)[i]
    BY <1>2, <1>4, Zenon DEF IsFirstBest, IsBest
  <1>6. i \in Fitting(cap)
    <2>1. ScoresFor(cap)[k] > 0 /\ ScoresFor(cap)[k] \in Nat /\ ScoresFor(cap)[i] \in Nat
      BY <1>1, <1>2, <1>5, Zenon
    <2>2. ScoresFor(cap)[i] > 0
      BY <1>5, <2>1
    <2> QED
      BY <1>1, <1>5, <2>2, Zenon
  <1>7. executors[i].id = Select(cap)
    <2>1. executors # <<>>
      BY <1>1, <1>2
    <2> QED
      BY <1>1, <1>3, <2>1, Zenon DEF Select
  <1> QED
    BY <1>1, <1>4, <1>5, <1>6, <1>7, Zenon

\* In any router, router_select (router.c:73-90) names the first of those that
\* fit and score best.
THEOREM RouterSelects == ASSUME RouterTypeOK PROVE SelectsTheBest
  <1> SUFFICES ASSUME NEW cap \in Capabilities, Fitting(cap) # {}
               PROVE  \E i \in Fitting(cap) :
                         /\ executors[i].id = Select(cap)
                         /\ \A j \in DOMAIN executors : ScoresFor(cap)[j] <= ScoresFor(cap)[i]
    BY Zenon DEF SelectsTheBest
  <1> QED
    BY SelectIs, Zenon DEF IsFirstBest, IsBest

\* In any router, router_fallback (router.c:138-154) names the best of those
\* that are not the one that failed.
THEOREM RouterFallsBack == ASSUME RouterTypeOK PROVE FallsBackOnAnother
  <1> SUFFICES ASSUME NEW cap \in Capabilities, NEW x \in Executors, Fallback(x.id, cap) # 0
               PROVE  \E i \in DOMAIN executors :
                         /\ executors[i].id = Fallback(x.id, cap) /\ executors[i].id # x.id
                         /\ \A j \in DOMAIN executors :
                              executors[j].id # x.id => ScoresFor(cap)[j] <= ScoresFor(cap)[i]
    BY Zenon DEF FallsBackOnAnother
  <1>1. PICK E \in Nat : /\ DOMAIN executors = 1..E
                         /\ \A i \in 1..E : ScoresFor(cap)[i] \in Nat
    BY FittingType, Zenon
  <1>2. PICK others : others = {i \in DOMAIN executors : executors[i].id # x.id}
    OBVIOUS
  <1>3. others # {} /\ Fallback(x.id, cap) = executors[FirstBest(others, ScoresFor(cap))].id
    BY <1>2, Zenon DEF Fallback
  <1>4. PICK i : i = FirstBest(others, ScoresFor(cap))
    BY Zenon
  <1>5. IsFirstBest(i, others, ScoresFor(cap))
    <2>1. others \in SUBSET (1..E) /\ \A j \in others : ScoresFor(cap)[j] \in Int
      BY <1>1, <1>2
    <2> QED
      BY <1>3, <1>4, <2>1, FirstBestIs, Zenon
  <1>6. i \in others /\ \A j \in others : ScoresFor(cap)[j] <= ScoresFor(cap)[i]
    BY <1>5, Zenon DEF IsFirstBest, IsBest
  <1> QED
    BY <1>2, <1>3, <1>4, <1>6, Zenon

\* s goes through F, and what it holds in its first n places scores best.
IsRanking(s, n, F, score, L) ==
  /\ s \in [1..L -> F]
  /\ \A j, k \in 1..L : s[j] = s[k] => j = k
  /\ \A x \in F : \E k \in 1..L : s[k] = x
  /\ \A j \in 1..n, k \in 1..L : j < k => score[s[k]] <= score[s[j]]

\* The scores of what s holds.
Scored(s, score, L) == [p \in 1..L |-> score[s[p]]]

\* t holds what s does, with the places n and b exchanged.
IsExchange(t, s, n, b, L) ==
  t = [k \in 1..L |-> IF k = b THEN s[n] ELSE IF k = n THEN s[b] ELSE s[k]]

LEMMA ExchangedIs ==
  ASSUME RouterTypeOK, NEW cap, NEW L \in Nat, NEW s \in [1..L -> Fitting(cap)], NEW n \in 1..L
  PROVE  \E b \in n..L :
            /\ IsFirstBest(b, n..L, Scored(s, ScoresFor(cap), L))
            /\ IsExchange(Exchanged(s, n, cap), s, n, b, L)
  <1>1. PICK score : score = [p \in 1..L |-> ScoresFor(cap)[s[p]]]
    OBVIOUS
  <1>2. \A p \in 1..L : score[p] \in Int
    <2>1. PICK E \in Nat : /\ Fitting(cap) \in SUBSET (1..E)
                           /\ \A i \in 1..E : ScoresFor(cap)[i] \in Nat
      BY FittingType, Zenon
    <2>2. ASSUME NEW p \in 1..L PROVE score[p] \in Int
      <3>1. s[p] \in 1..E
        BY <2>1
      <3>2. score[p] = ScoresFor(cap)[s[p]]
        BY <1>1, Zenon
      <3> QED
        BY <2>1, <3>1, <3>2
    <2> QED
      BY <2>2
  <1>3. DOMAIN s = 1..L /\ Len(s) = L
    <2>1. s \in Seq(Fitting(cap))
      BY Zenon, SeqDef
    <2> QED
      BY <2>1, LenProperties
  <1>4. PICK b : b = FirstBest(n..L, score)
    BY Zenon
  <1>5. n..L \in SUBSET (1..L) /\ n..L # {} /\ \A p \in n..L : score[p] \in Int
    <2>1. n \in n..L /\ \A p \in n..L : p \in 1..L
      OBVIOUS
    <2> QED
      BY <1>2, <2>1, Zenon
  <1>6. IsFirstBest(b, n..L, score)
    BY <1>4, <1>5, FirstBestIs, Zenon
  <1>7. b \in n..L /\ b \in 1..L
    BY <1>5, <1>6, Zenon DEF IsFirstBest, IsBest
  <1>8. Exchanged(s, n, cap) = [s EXCEPT ![n] = s[b], ![b] = s[n]]
    BY <1>1, <1>3, <1>4, Zenon DEF Exchanged
  <1>9. [s EXCEPT ![n] = s[b], ![b] = s[n]] =
          [k \in 1..L |-> IF k = b THEN s[n] ELSE IF k = n THEN s[b] ELSE s[k]]
    BY <1>3, <1>7
  <1> QED
    BY <1>1, <1>6, <1>7, <1>8, <1>9, Zenon DEF Scored, IsExchange

LEMMA ExchangedType ==
  ASSUME RouterTypeOK, NEW cap, NEW L \in Nat, NEW s \in [1..L -> Fitting(cap)], NEW n \in 1..L
  PROVE  Exchanged(s, n, cap) \in [1..L -> Fitting(cap)]
  <1>1. PICK b \in n..L : IsExchange(Exchanged(s, n, cap), s, n, b, L)
    BY ExchangedIs, Zenon
  <1>2. b \in 1..L
    OBVIOUS
  <1> QED
    BY <1>1, <1>2 DEF IsExchange

\* A round of the sort puts one place more in order.
LEMMA ExchangedRanks ==
  ASSUME RouterTypeOK, NEW cap, NEW L \in Nat, NEW n \in 1..L,
         NEW s, IsRanking(s, n - 1, Fitting(cap), ScoresFor(cap), L)
  PROVE  /\ IsRanking(Exchanged(s, n, cap), n, Fitting(cap), ScoresFor(cap), L)
         /\ \A k \in 1..n - 1 : Exchanged(s, n, cap)[k] = s[k]
  <1> DEFINE F == Fitting(cap)
             score == ScoresFor(cap)
  <1>1. /\ s \in [1..L -> F]
        /\ \A j, k \in 1..L : s[j] = s[k] => j = k
        /\ \A x \in F : \E k \in 1..L : s[k] = x
        /\ \A j \in 1..n - 1, k \in 1..L : j < k => score[s[k]] <= score[s[j]]
    BY Zenon DEF IsRanking
  <1>2. PICK b \in n..L :
            /\ IsFirstBest(b, n..L, Scored(s, score, L))
            /\ IsExchange(Exchanged(s, n, cap), s, n, b, L)
    BY <1>1, ExchangedIs, Zenon
  <1>3. PICK t : t = Exchanged(s, n, cap)
    BY Zenon
  <1>4. b \in 1..L /\ b >= n /\ n \in Nat /\ b \in Nat
    OBVIOUS
  <1>5. PICK other : other = [k \in 1..L |-> IF k = b THEN n ELSE IF k = n THEN b ELSE k]
    OBVIOUS
  <1>6. \A k \in 1..L : other[k] \in 1..L /\ other[other[k]] = k
    BY <1>4, <1>5
  <1>7. \A k \in 1..L : t[k] = s[other[k]]
    BY <1>2, <1>3, <1>4, <1>5 DEF IsExchange
  <1>8. \A k \in n..L : score[s[k]] <= score[s[b]]
    <2>1. \A k \in n..L : Scored(s, score, L)[k] <= Scored(s, score, L)[b]
      BY <1>2, Zenon DEF IsFirstBest, IsBest
    <2>2. \A k \in n..L : k \in 1..L
      OBVIOUS
    <2> HIDE DEF score
    <2> QED
      BY <1>4, <2>1, <2>2, Zenon DEF Scored
  <1> HIDE DEF score, F
  <1>9. t \in [1..L -> F]
    <2>1. Exchanged(s, n, cap) \in [1..L -> F]
      BY <1>1, ExchangedType, Zenon DEF F
    <2> QED
      BY <1>3, <2>1, Zenon
  <1>10. ASSUME NEW j \in 1..L, NEW k \in 1..L, t[j] = t[k]
         PROVE  j = k
    <2>1. other[j] = other[k]
      BY <1>1, <1>6, <1>7, <1>10
    <2> QED
      BY <1>6, <2>1
  <1>11. ASSUME NEW x \in F
         PROVE  \E k \in 1..L : t[k] = x
    <2>1. PICK k \in 1..L : s[k] = x
      BY <1>1
    <2>2. other[k] \in 1..L /\ t[other[k]] = x
      BY <1>6, <1>7, <2>1
    <2> QED
      BY <2>2
  <1>12. \A k \in 1..n - 1 : t[k] = s[k] /\ k \in 1..L
    BY <1>4, <1>5, <1>7
  <1>13. ASSUME NEW j \in 1..n, NEW k \in 1..L, j < k
         PROVE  score[t[k]] <= score[t[j]]
    <2>1. CASE j = n
      <3>1. other[j] = b /\ other[k] \in n..L
        BY <1>4, <1>5, <1>13, <2>1
      <3>2. j \in 1..L
        BY <2>1
      <3> QED
        BY <1>7, <1>8, <3>1, <3>2, Zenon
    <2>2. CASE j # n
      <3>1. j \in 1..n - 1
        BY <2>2
      <3>2. j < other[k] /\ other[k] \in 1..L
        BY <1>4, <1>5, <1>13, <3>1
      <3> QED
        BY <1>1, <1>7, <1>12, <3>1, <3>2, Zenon
    <2> QED
      BY <2>1, <2>2, Zenon
  <1> QED
    BY <1>3, <1>9, <1>10, <1>11, <1>12, <1>13, Zenon DEF IsRanking, F, score

IsSorting(f, cap, n) ==
  f = [i \in 0..n |-> IF i = 0 THEN InOrder(Fitting(cap), Len(executors))
                      ELSE Exchanged(f[i - 1], i, cap)]

\* Before the sort nothing is in order but the entries are all there.
LEMMA UnsortedRanks ==
  ASSUME RouterTypeOK, NEW cap
  PROVE  LET s == InOrder(Fitting(cap), Len(executors))
             L == Cardinality(Fitting(cap))
         IN  /\ IsRanking(s, 0, Fitting(cap), ScoresFor(cap), L)
             /\ \A j, k \in 1..L : j < k => s[j] < s[k]
  <1>1. PICK E \in Nat : Len(executors) = E /\ Fitting(cap) \in SUBSET (1..E)
                         /\ Cardinality(Fitting(cap)) \in Nat
    BY FittingType, Zenon
  <1>2. PICK F : F = Fitting(cap)
    BY Zenon
  <1>3. PICK L \in Nat : L = Cardinality(F)
    BY <1>1, <1>2, Zenon
  <1>4. PICK s : s = InOrder(F, E)
    BY Zenon
  <1>5. Lists(s, F)
    BY <1>1, <1>2, <1>4, InOrderIs, Zenon
  <1>6. /\ s \in Seq(F) /\ Len(s) = L
        /\ \A j, k \in 1..L : j < k => s[j] < s[k]
        /\ \A x \in F : \E k \in 1..L : s[k] = x
    BY <1>3, <1>5, Zenon DEF Lists
  <1>7. s \in [1..L -> F]
    BY <1>6, LenProperties, Zenon
  <1>8. ASSUME NEW j \in 1..L, NEW k \in 1..L, s[j] = s[k]
        PROVE  j = k
    <2>1. s[j] \in 1..E /\ s[k] \in 1..E
      BY <1>1, <1>2, <1>7
    <2>2. ~(j < k) /\ ~(k < j)
      BY <1>6, <1>8, <2>1
    <2> QED
      BY <2>2
  <1>9. \A j \in 1..0 : FALSE
    OBVIOUS
  <1>10. IsRanking(s, 0, F, ScoresFor(cap), L)
    BY <1>6, <1>7, <1>8, <1>9, Zenon DEF IsRanking
  <1> QED
    BY <1>1, <1>2, <1>3, <1>4, <1>6, <1>10, Zenon

LEMMA SortingExists ==
  ASSUME RouterTypeOK, NEW cap, NEW n \in 0..Cardinality(Fitting(cap))
  PROVE  \E f : IsSorting(f, cap, n)
  <1>1. PICK L \in Nat : L = Cardinality(Fitting(cap))
    BY FittingType, Zenon
  <1>2. PICK X : X = [1..L -> Fitting(cap)]
    OBVIOUS
  <1>3. PICK base : base = InOrder(Fitting(cap), Len(executors))
    BY Zenon
  <1>4. base \in X
    BY <1>1, <1>2, <1>3, UnsortedRanks, Zenon DEF IsRanking
  <1>5. n \in Nat /\ \A i \in 1..n : i \in 1..L
    BY <1>1
  <1> DEFINE step == [i \in 1..n |-> [s \in X |-> Exchanged(s, i, cap)]]
  <1>6. AreSteps(step, X, n)
    <2>1. ASSUME NEW i \in 1..n, NEW s \in X
          PROVE  Exchanged(s, i, cap) \in X
      BY <1>2, <1>5, ExchangedType, Zenon
    <2> QED
      BY <2>1, Zenon DEF AreSteps
  <1>7. PICK f : Computes(f, X, base, step, n)
    <2> HIDE DEF step
    <2> QED
      BY <1>4, <1>5, <1>6, RecursionExists, Zenon
  <1>8. ASSUME NEW i \in 0..n, i # 0
        PROVE  step[i][f[i - 1]] = Exchanged(f[i - 1], i, cap)
    <2>1. i \in 1..n /\ i - 1 \in 0..n
      BY <1>8
    <2>2. f[i - 1] \in X
      BY <1>7, <2>1, Zenon DEF Computes
    <2> QED
      BY <2>1, <2>2, Zenon
  <1> HIDE DEF step
  <1> QED
    BY <1>3, <1>7, <1>8, Zenon DEF IsSorting, Computes

Agrees(t, s, n) == \A k \in 1..n - 1 : t[k] = s[k]

LEMMA ExchangedAgrees ==
  ASSUME RouterTypeOK, NEW cap, NEW L \in Nat, NEW n \in 1..L,
         NEW s, IsRanking(s, n - 1, Fitting(cap), ScoresFor(cap), L)
  PROVE  Agrees(Exchanged(s, n, cap), s, n)
  <1> SUFFICES ASSUME NEW k \in 1..n - 1 PROVE Exchanged(s, n, cap)[k] = s[k]
    BY Zenon DEF Agrees
  <1> QED
    BY ExchangedRanks, Zenon

\* After n rounds the first n places are in order, and the first holds the place
\* that a scan of all would have found.
LEMMA SortedRanks ==
  ASSUME RouterTypeOK, NEW cap, NEW n \in 0..Cardinality(Fitting(cap))
  PROVE  LET L == Cardinality(Fitting(cap))
         IN  /\ IsRanking(Sorted(cap, n), n, Fitting(cap), ScoresFor(cap), L)
             /\ n > 0 => IsFirstBest(Sorted(cap, n)[1], Fitting(cap), ScoresFor(cap))
  <1>1. PICK L \in Nat : L = Cardinality(Fitting(cap))
    BY FittingType, Zenon
  <1>2. PICK F : F = Fitting(cap)
    BY Zenon
  <1>3. PICK score : score = ScoresFor(cap)
    BY Zenon
  <1>4. PICK E \in Nat : F \in SUBSET (1..E) /\ \A i \in 1..E : score[i] \in Nat
    BY <1>2, <1>3, FittingType, Zenon
  <1>5. PICK base : base = InOrder(F, Len(executors))
    BY Zenon
  <1>6. IsRanking(base, 0, F, score, L) /\ \A j, k \in 1..L : j < k => base[j] < base[k]
    BY <1>1, <1>2, <1>3, <1>5, UnsortedRanks, Zenon
  <1> DEFINE f == CHOOSE g : IsSorting(g, cap, n)
             P == {i \in 0..n : /\ IsRanking(f[i], i, F, score, L)
                                /\ i > 0 => IsFirstBest(f[i][1], F, score)}
  <1>7. IsSorting(f, cap, n)
    BY SortingExists, Zenon
  <1>8. Sorted(cap, n) = f[n]
    BY Zenon DEF Sorted, IsSorting
  <1> HIDE DEF f
  <1>9. f[0] = base
    <2>1. 0 \in 0..n
      BY <1>1
    <2> QED
      BY <1>2, <1>5, <1>7, <2>1, Zenon DEF IsSorting
  <1>10. \A i \in 0..n - 1 : f[i + 1] = Exchanged(f[i], i + 1, cap)
    <2> TAKE i \in 0..n - 1
    <2>1. i + 1 \in 0..n /\ i + 1 # 0 /\ (i + 1) - 1 = i
      BY <1>1
    <2> QED
      BY <1>7, <2>1, Zenon DEF IsSorting
  <1>11. 0 \in P
    <2>1. 0 \in 0..n /\ ~(0 > 0)
      BY <1>1
    <2> QED
      BY <1>6, <1>9, <2>1, Zenon
  <1>12. ASSUME NEW i \in 0..n - 1, i \in P
         PROVE  i + 1 \in P
    <2>1. i + 1 \in 1..L /\ (i + 1) - 1 = i /\ i + 1 \in 0..n /\ i \in Nat
      BY <1>1
    <2>2. IsRanking(f[i], i, F, score, L) /\ (i > 0 => IsFirstBest(f[i][1], F, score))
      BY <1>12, Zenon
    <2>3. /\ IsRanking(f[i + 1], i + 1, F, score, L)
          /\ \A k \in 1..i : f[i + 1][k] = f[i][k]
      <3>1. PICK n1 \in 1..L : n1 = i + 1
        BY <2>1, Zenon
      <3>2. n1 - 1 = i
        BY <2>1, <3>1
      <3>3. PICK s : s = f[i] /\ IsRanking(s, n1 - 1, Fitting(cap), ScoresFor(cap), L)
        BY <1>2, <1>3, <2>2, <3>2, Zenon
      <3>4. /\ IsRanking(Exchanged(f[i], n1, cap), n1, Fitting(cap), ScoresFor(cap), L)
            /\ \A k \in 1..n1 - 1 : Exchanged(f[i], n1, cap)[k] = f[i][k]
        <4>1. IsRanking(Exchanged(s, n1, cap), n1, Fitting(cap), ScoresFor(cap), L)
          BY <3>3, ExchangedRanks, Zenon
        <4>2. Agrees(Exchanged(s, n1, cap), s, n1)
          BY <3>3, ExchangedAgrees, Zenon
        <4>3. \A k \in 1..n1 - 1 : Exchanged(s, n1, cap)[k] = s[k]
          BY <4>2, Zenon DEF Agrees
        <4> QED
          BY <3>3, <4>1, <4>3, Zenon
      <3> QED
        BY <1>2, <1>3, <1>10, <3>1, <3>2, <3>4, Zenon
    <2>4. CASE i > 0
      <3>1. 1 \in 1..i
        BY <2>1, <2>4
      <3> QED
        BY <2>1, <2>2, <2>3, <2>4, <3>1, Zenon
    <2>5. CASE ~(i > 0)
      <3>1. i = 0
        BY <2>1, <2>5
      <3>2. 1 \in 1..L
        BY <2>1, <3>1
      <3>3. base \in [1..L -> F] /\ \A x \in F : \E k \in 1..L : base[k] = x
        BY <1>6, Zenon DEF IsRanking
      <3>4. PICK b \in 1..L : /\ IsFirstBest(b, 1..L, Scored(base, score, L))
                              /\ IsExchange(f[1], base, 1, b, L)
        <4>1. f[1] = Exchanged(base, 1, cap)
          BY <1>9, <1>10, <3>1
        <4> QED
          BY <1>2, <1>3, <3>2, <3>3, <4>1, ExchangedIs, Zenon
      <3>5. f[1][1] = base[b]
        BY <3>2, <3>4 DEF IsExchange
      <3>6. /\ \A k \in 1..L : score[base[k]] <= score[base[b]]
            /\ \A k \in 1..L : k < b => score[base[k]] < score[base[b]]
        BY <3>4 DEF IsFirstBest, IsBest, Scored
      <3>7. base[b] \in F
        BY <3>3, <3>4
      <3>8. ASSUME NEW x \in F
            PROVE  score[x] <= score[base[b]] /\ (x < base[b] => score[x] < score[base[b]])
        <4>1. PICK k \in 1..L : base[k] = x
          BY <3>3, Zenon
        <4>2. x < base[b] => k < b
          <5>1. k \in Nat /\ b \in Nat /\ x \in Nat /\ base[b] \in Nat
            <6>1. x \in 1..E /\ base[b] \in 1..E
              BY <1>4, <3>7, <3>8, Zenon
            <6> QED
              BY <6>1
          <5>2. b < k => base[b] < x
            BY <1>6, <4>1, Zenon
          <5>3. b = k => base[b] = x
            BY <4>1, Zenon
          <5> QED
            BY <5>1, <5>2, <5>3
        <4> QED
          BY <3>6, <4>1, <4>2, Zenon
      <3>9. IsFirstBest(f[i + 1][1], F, score)
        <4>1. i + 1 = 1
          BY <3>1
        <4> QED
          BY <3>5, <3>7, <3>8, <4>1, Zenon DEF IsFirstBest, IsBest
      <3> QED
        BY <2>1, <2>3, <3>9, Zenon
    <2> QED
      BY <2>4, <2>5, Zenon
  <1>13. n \in P
    <2> HIDE DEF P
    <2>1. n \in 0..n /\ n \in Nat
      BY <1>1
    <2> QED
      BY <1>11, <1>12, <2>1, InductionUpTo
  <1> QED
    BY <1>1, <1>2, <1>3, <1>8, <1>13, Zenon

\* In any router whose ids are distinct, the selection sort of router_rank
\* (router.c:92-136), which stops after max_results rounds and exchanges as it
\* goes, returns the best that fit, in order, each once.
THEOREM RouterRanks == ASSUME RouterTypeOK PROVE RanksTheBest
  <1> DEFINE Promise(ranked, F, score, cap, max) ==
        /\ Len(ranked) = Min({Cardinality(F), max})
        /\ \E place \in [DOMAIN ranked -> F] :
             /\ \A n \in DOMAIN ranked : ranked[n] = executors[place[n]]
             /\ \A m, n \in DOMAIN ranked : m < n =>
                  /\ place[m] # place[n]
                  /\ score[place[n]] <= score[place[m]]
             /\ \A n \in DOMAIN ranked, i \in F :
                  i \in Range(place) \/ score[i] <= score[place[n]]
        /\ ranked # <<>> => ranked[1].id = Select(cap)
  <1> SUFFICES ASSUME DistinctIds, NEW cap \in Capabilities, NEW max \in 1..Len(executors)
               PROVE  Promise(Rank(cap, max), Fitting(cap), ScoresFor(cap), cap, max)
    BY Zenon DEF RanksTheBest
  <1>1. PICK E \in Nat : /\ DOMAIN executors = 1..E /\ Len(executors) = E
                         /\ Fitting(cap) \in SUBSET (1..E)
                         /\ \A i \in 1..E : ScoresFor(cap)[i] \in Nat
    BY FittingType, Zenon
  <1>2. PICK L \in Nat : L = Cardinality(Fitting(cap))
    BY FittingType, Zenon
  <1>3. PICK F : F = Fitting(cap)
    BY Zenon
  <1>4. PICK score : score = ScoresFor(cap)
    BY Zenon
  <1>5. PICK found \in 0..L : found = Min({L, max}) /\ found <= max /\ found \in Nat
    <2>1. Min({L, max}) = IF L <= max THEN L ELSE max
      BY <1>1, MinOfTwo
    <2> QED
      BY <1>1, <2>1
  <1>6. PICK s : s = Sorted(cap, found)
    BY Zenon
  <1>7. IsRanking(s, found, F, score, L) /\ (found > 0 => IsFirstBest(s[1], F, score))
    BY <1>2, <1>3, <1>4, <1>6, SortedRanks, Zenon
  <1>8. /\ s \in [1..L -> F]
        /\ \A j, k \in 1..L : s[j] = s[k] => j = k
        /\ \A x \in F : \E k \in 1..L : s[k] = x
        /\ \A j \in 1..found, k \in 1..L : j < k => score[s[k]] <= score[s[j]]
    BY <1>7, Zenon DEF IsRanking
  <1>9. \A i \in 1..E : FirstWithId(i) = i
    <2> TAKE i \in 1..E
    <2>1. {j \in DOMAIN executors : executors[j].id = executors[i].id} = {i}
      BY <1>1, Zenon DEF DistinctIds
    <2>2. Min({i}) = i
      <3>1. {i} \in SUBSET Nat /\ {i} # {}
        OBVIOUS
      <3>2. Min({i}) \in {i}
        BY <3>1, MinIsLeast, Zenon
      <3> QED
        BY <3>2, Zenon
    <2> QED
      BY <2>1, <2>2, Zenon DEF FirstWithId
  <1>10. \A n \in 1..found : n \in 1..L /\ s[n] \in F /\ s[n] \in 1..E
    BY <1>1, <1>3, <1>8
  <1>11. PICK ranked : ranked = Rank(cap, max)
    BY Zenon
  <1>12. ranked = [n \in 1..found |-> executors[s[n]]]
    <2>1. ranked = [n \in 1..found |-> executors[FirstWithId(s[n])]]
      BY <1>2, <1>5, <1>6, <1>11, Zenon DEF Rank
    <2> QED
      BY <1>9, <1>10, <2>1, Zenon
  <1>13. DOMAIN ranked = 1..found /\ Len(ranked) = found
    BY <1>5, <1>12
  <1>14. PICK place : place = [n \in 1..found |-> s[n]]
    OBVIOUS
  <1>15. place \in [1..found -> F] /\ \A n \in 1..found : place[n] = s[n]
    BY <1>10, <1>14, Zenon
  <1>16. \A n \in 1..found : ranked[n] = executors[place[n]]
    BY <1>12, <1>15, Zenon
  <1>17. ASSUME NEW m \in 1..found, NEW n \in 1..found, m < n
         PROVE  place[m] # place[n] /\ score[place[n]] <= score[place[m]]
    <2>1. m # n
      BY <1>17
    <2> QED
      BY <1>8, <1>10, <1>15, <1>17, <2>1, Zenon
  <1>18. ASSUME NEW n \in 1..found, NEW i \in F
         PROVE  i \in Range(place) \/ score[i] <= score[place[n]]
    <2>1. PICK k \in 1..L : s[k] = i
      BY <1>8, Zenon
    <2>2. CASE k \in 1..found
      <3>1. i = place[k] /\ k \in DOMAIN place
        BY <1>15, <2>1, <2>2, Zenon
      <3> QED
        BY <3>1, Zenon DEF Range
    <2>3. CASE k \notin 1..found
      <3>1. n < k
        BY <1>5, <2>3
      <3> QED
        BY <1>8, <1>15, <2>1, <3>1, Zenon
    <2> QED
      BY <2>2, <2>3, Zenon
  <1>19. ASSUME ranked # <<>>
         PROVE  ranked[1].id = Select(cap)
    <2>1. found > 0
      <3>1. SUFFICES ASSUME found = 0 PROVE FALSE
        BY <1>5
      <3>2. Len(ranked) = 0 /\ DOMAIN ranked = {}
        BY <1>13, <3>1
      <3>3. ranked = [n \in {} |-> executors[s[n]]]
        BY <1>12, <1>13, <3>2, Zenon
      <3>4. <<>> = [n \in {} |-> executors[s[n]]]
        OBVIOUS
      <3> QED
        BY <1>19, <3>3, <3>4, Zenon
    <2>2. 1 \in 1..found
      BY <1>5, <2>1
    <2>3. IsFirstBest(s[1], F, score) /\ s[1] \in F
      BY <1>7, <1>10, <2>1, <2>2, Zenon
    <2>4. PICK i \in 1..E : /\ executors[i].id = Select(cap)
                            /\ i \in F
                            /\ IsFirstBest(i, 1..E, score)
      BY <1>1, <1>3, <1>4, <2>3, SelectIs, Zenon
    <2>5. IsFirstBest(i, F, score)
      <3>1. \A x \in F : x \in 1..E
        BY <1>1, <1>3, Zenon
      <3> QED
        BY <2>4, <3>1, Zenon DEF IsFirstBest, IsBest
    <2>6. F \in SUBSET Nat /\ \A x \in F : score[x] \in Int
      BY <1>1, <1>3, <1>4
    <2>7. i = s[1]
      BY <2>3, <2>5, <2>6, OneFirstBest, Zenon
    <2> QED
      BY <1>12, <2>2, <2>4, <2>7, Zenon
  <1>20. \E pl \in [DOMAIN ranked -> F] :
                /\ \A n \in DOMAIN ranked : ranked[n] = executors[pl[n]]
                /\ \A m, n \in DOMAIN ranked : m < n =>
                     /\ pl[m] # pl[n]
                     /\ score[pl[n]] <= score[pl[m]]
                /\ \A n \in DOMAIN ranked, i \in F :
                     i \in Range(pl) \/ score[i] <= score[pl[n]]
    BY <1>13, <1>15, <1>16, <1>17, <1>18, Zenon
  <1>21. Promise(ranked, F, score, cap, max)
    BY <1>2, <1>3, <1>5, <1>13, <1>19, <1>20, Zenon
  <1> HIDE DEF Promise
  <1> QED
    BY <1>3, <1>4, <1>11, <1>21, Zenon
--------------------------------------------------------------------------------
(* The memory.                                                             *)

\* The places of 1 .. N that s does not hold.
Unlisted(s, N) == (1..N) \ {s[i] : i \in 1..Len(s)}

\* What n rounds of a search among N patterns may have found.
IsSearch(s, n, score, N) ==
  /\ s \in Seq(1..N) /\ Len(s) <= n
  /\ IsFiniteSet(Unlisted(s, N)) /\ Cardinality(Unlisted(s, N)) = N - Len(s)
  /\ \A j, k \in 1..Len(s) : j < k => s[j] # s[k] /\ score[s[j]] >= score[s[k]]
  /\ \A k \in 1..Len(s), i \in Unlisted(s, N) : score[s[k]] >= score[i]
  /\ Len(s) < n => \A i \in Unlisted(s, N) : score[i] < Threshold

LEMMA SearchStarts ==
  ASSUME NEW N \in Nat, NEW score
  PROVE  IsSearch(<<>>, 0, score, N)
  <1>1. <<>> \in Seq(1..N) /\ Len(<<>>) = 0
    BY EmptySeq
  <1>2. Unlisted(<<>>, N) = 1..N
    BY DEF Unlisted
  <1>3. IsFiniteSet(1..N) /\ Cardinality(1..N) = N
    BY FS_Interval
  <1> QED
    BY <1>1, <1>2, <1>3 DEF IsSearch

\* A round of a search keeps what the rounds before it found.
LEMMA SearchGoesOn ==
  ASSUME NEW N \in Nat, NEW n \in 0..N - 1, NEW score, DOMAIN score = 1..N,
         \A i \in 1..N : score[i] \in Int,
         NEW s, IsSearch(s, n, score, N)
  PROVE  IsSearch(Extended(s, n + 1, score), n + 1, score, N)
  <1> DEFINE U == Unlisted(s, N)
  <1>1. /\ s \in Seq(1..N) /\ Len(s) <= n
        /\ IsFiniteSet(U) /\ Cardinality(U) = N - Len(s)
        /\ \A j, k \in 1..Len(s) : j < k => s[j] # s[k] /\ score[s[j]] >= score[s[k]]
        /\ \A k \in 1..Len(s), i \in U : score[s[k]] >= score[i]
        /\ Len(s) < n => \A i \in U : score[i] < Threshold
    BY Zenon DEF IsSearch
  <1>2. PICK L \in Nat : L = Len(s)
    BY <1>1, LenProperties, Zenon
  <1>3. DOMAIN s = 1..L /\ \A k \in 1..L : s[k] \in 1..N
    BY <1>1, <1>2, LenProperties
  <1>4. PICK best : best = FirstBest(U, score)
    BY Zenon
  <1>5. DOMAIN score \ {s[i] : i \in DOMAIN s} = U
    BY <1>2, <1>3, Zenon DEF Unlisted
  <1>6. Extended(s, n + 1, score) =
          IF Len(s) < (n + 1) - 1 \/ score[best] < Threshold THEN s ELSE Append(s, best)
    BY <1>4, <1>5, Zenon DEF Extended
  <1>7. U \in SUBSET (1..N)
    BY Zenon DEF Unlisted
  <1> HIDE DEF U
  <1>8. CASE L < n
    <2>1. Extended(s, n + 1, score) = s
      BY <1>2, <1>6, <1>8
    <2>2. Len(s) <= n + 1
      BY <1>2, <1>8
    <2> QED
      BY <1>1, <1>2, <1>8, <2>1, <2>2, Zenon DEF IsSearch, U
  <1>9. CASE L = n
    <2>1. U # {}
      BY <1>1, <1>2, <1>9, FS_EmptySet
    <2>2. IsFirstBest(best, U, score)
      BY <1>4, <1>7, <2>1, FirstBestIs
    <2>3. best \in U /\ \A i \in U : score[i] <= score[best]
      BY <2>2, Zenon DEF IsFirstBest, IsBest
    <2>4. best \in 1..N /\ score[best] \in Int
      BY <1>7, <2>3
    <2>5. ~(Len(s) < (n + 1) - 1)
      BY <1>2, <1>9
    <2>6. CASE score[best] < Threshold
      <3>1. Extended(s, n + 1, score) = s
        BY <1>6, <2>6, Zenon
      <3>2. Len(s) <= n + 1
        BY <1>2, <1>9
      <3>3. ASSUME NEW i \in U PROVE score[i] < Threshold
        <4>1. score[i] <= score[best] /\ score[i] \in Int
          BY <1>7, <2>3
        <4> QED
          BY <2>4, <2>6, <4>1 DEF Threshold
      <3> QED
        BY <1>1, <3>1, <3>2, <3>3, Zenon DEF IsSearch, U
    <2>7. CASE ~(score[best] < Threshold)
      <3>1. PICK t : t = Append(s, best)
        OBVIOUS
      <3>2. Extended(s, n + 1, score) = t
        BY <1>6, <2>5, <2>7, <3>1, Zenon
      <3>3. /\ t \in Seq(1..N) /\ Len(t) = n + 1 /\ t[n + 1] = best
            /\ \A k \in 1..n : t[k] = s[k]
        <4>1. s \in Seq(1..N) /\ n = Len(s) /\ n \in Nat
          BY <1>1, <1>2, <1>9, Zenon
        <4>2. t \in Seq(1..N)
          BY <2>4, <3>1, <4>1, AppendProperties, Zenon
        <4> QED
          BY <3>1, <4>1, <4>2
      <3>4. Unlisted(t, N) = U \ {best}
        <4>1. ASSUME NEW x
              PROVE  x \in {t[i] : i \in 1..n + 1} <=> x \in {s[i] : i \in 1..n} \/ x = best
          <5>1. ASSUME NEW i \in 1..n + 1, t[i] = x
                PROVE  x \in {s[j] : j \in 1..n} \/ x = best
            <6>1. i \in 1..n \/ i = n + 1
              OBVIOUS
            <6> QED
              BY <3>3, <5>1, <6>1, Zenon
          <5>2. ASSUME NEW i \in 1..n, s[i] = x
                PROVE  x \in {t[j] : j \in 1..n + 1}
            <6>1. i \in 1..n + 1
              OBVIOUS
            <6> QED
              BY <3>3, <5>2, <6>1, Zenon
          <5>3. n + 1 \in 1..n + 1
            OBVIOUS
          <5> QED
            BY <3>3, <5>1, <5>2, <5>3, Zenon
        <4>2. U = (1..N) \ {s[i] : i \in 1..n}
          BY <1>2, <1>9, Zenon DEF U, Unlisted
        <4>3. Unlisted(t, N) = (1..N) \ {t[i] : i \in 1..n + 1}
          BY <3>3, Zenon DEF Unlisted
        <4> QED
          BY <4>1, <4>2, <4>3, Zenon
      <3>5. IsFiniteSet(U \ {best}) /\ Cardinality(U \ {best}) = N - (n + 1)
        <4>1. IsFiniteSet(U \ {best}) /\ Cardinality(U \ {best}) = Cardinality(U) - 1
          BY <1>1, <2>3, FS_RemoveElement
        <4>2. Cardinality(U) = N - n
          BY <1>1, <1>2, <1>9, Zenon
        <4> QED
          BY <4>1, <4>2
      <3>6. ASSUME NEW j \in 1..n + 1, NEW k \in 1..n + 1, j < k
            PROVE  t[j] # t[k] /\ score[t[j]] >= score[t[k]]
        <4>1. j \in 1..n
          BY <3>6
        <4>2. CASE k = n + 1
          <5>1. t[k] = best /\ t[j] = s[j]
            BY <3>3, <4>1, <4>2, Zenon
          <5>2. score[s[j]] >= score[best]
            BY <1>1, <1>2, <1>9, <2>3, <4>1, Zenon
          <5>3. s[j] # best
            BY <1>2, <1>9, <2>3, <4>1, Zenon DEF U, Unlisted
          <5> QED
            BY <5>1, <5>2, <5>3, Zenon
        <4>3. CASE k # n + 1
          <5>1. k \in 1..n
            BY <4>3
          <5> QED
            BY <1>1, <1>2, <1>9, <3>3, <3>6, <4>1, <5>1, Zenon
        <4> QED
          BY <4>2, <4>3, Zenon
      <3>7. ASSUME NEW k \in 1..n + 1, NEW i \in U \ {best}
            PROVE  score[t[k]] >= score[i]
        <4>1. CASE k = n + 1
          <5>1. score[i] <= score[best] /\ score[i] \in Int
            BY <1>7, <2>3
          <5> QED
            BY <2>4, <3>3, <4>1, <5>1
        <4>2. CASE k # n + 1
          <5>1. k \in 1..n /\ i \in U
            BY <4>2
          <5> QED
            BY <1>1, <1>2, <1>9, <3>3, <5>1, Zenon
        <4> QED
          BY <4>1, <4>2, Zenon
      <3>8. n + 1 <= n + 1 /\ ~(n + 1 < n + 1)
        OBVIOUS
      <3>9. IsSearch(t, n + 1, score, N)
        BY <3>3, <3>4, <3>5, <3>6, <3>7, <3>8, Zenon DEF IsSearch
      <3> QED
        BY <3>2, <3>9, Zenon
    <2> QED
      BY <2>6, <2>7, Zenon
  <1> QED
    BY <1>1, <1>2, <1>8, <1>9

IsSearching(f, n, score) ==
  f = [i \in 0..n |-> IF i = 0 THEN <<>> ELSE Extended(f[i - 1], i, score)]

LEMMA SearchingExists ==
  ASSUME NEW N \in Nat, NEW n \in Nat, NEW score, DOMAIN score = 1..N,
         \A i \in 1..N : score[i] \in Int
  PROVE  \E f : IsSearching(f, n, score)
  <1>1. PICK V : V = (1..N) \cup {FirstBest({}, score)}
    OBVIOUS
  <1>2. PICK X : X = Seq(V)
    OBVIOUS
  <1>3. ASSUME NEW i, NEW s \in X
        PROVE  Extended(s, i, score) \in X
    <2>1. PICK left : left = DOMAIN score \ {s[k] : k \in DOMAIN s}
      OBVIOUS
    <2>2. PICK best : best = FirstBest(left, score)
      BY Zenon
    <2>3. best \in V
      <3>1. CASE left = {}
        BY <1>1, <2>2, <3>1, Zenon
      <3>2. CASE left # {}
        <4>1. left \in SUBSET (1..N)
          BY <2>1, Zenon
        <4>2. IsFirstBest(best, left, score)
          BY <2>2, <3>2, <4>1, FirstBestIs
        <4> QED
          BY <1>1, <4>1, <4>2, Zenon DEF IsFirstBest, IsBest
      <3> QED
        BY <3>1, <3>2, Zenon
    <2>4. Append(s, best) \in X
      BY <1>2, <2>3, AppendProperties, Zenon
    <2>5. Extended(s, i, score) \in {s, Append(s, best)}
      BY <2>1, <2>2, Zenon DEF Extended
    <2> QED
      BY <2>4, <2>5, Zenon
  <1> DEFINE step == [i \in 1..n |-> [s \in X |-> Extended(s, i, score)]]
  <1>4. AreSteps(step, X, n)
    BY <1>3, Zenon DEF AreSteps
  <1>5. <<>> \in X
    BY <1>2, EmptySeq, Zenon
  <1>6. PICK f : Computes(f, X, <<>>, step, n)
    <2> HIDE DEF step
    <2> QED
      BY <1>4, <1>5, RecursionExists, Zenon
  <1>7. ASSUME NEW i \in 0..n, i # 0
        PROVE  step[i][f[i - 1]] = Extended(f[i - 1], i, score)
    <2>1. i \in 1..n /\ i - 1 \in 0..n
      BY <1>7
    <2>2. f[i - 1] \in X
      BY <1>6, <2>1, Zenon DEF Computes
    <2> QED
      BY <2>1, <2>2, Zenon
  <1> HIDE DEF step
  <1> QED
    BY <1>6, <1>7, Zenon DEF IsSearching, Computes

\* What a search of the patterns finds.
LEMMA RecallIs ==
  ASSUME MemoryTypeOK, NEW q \in Queries, NEW max \in Nat
  PROVE  \E N \in Nat, n \in Nat :
            /\ DOMAIN memory["pattern"] = 1..N /\ n = Min({max, N})
            /\ \A i \in 1..N : Likeness(q, memory["pattern"][i]) \in Int
            /\ IsSearch(Recall(q, max), n, ScoresOf(q), N)
  <1>1. memory["pattern"] \in Seq(Patterns)
    BY Zenon DEF MemoryTypeOK, Layers
  <1>2. PICK N \in Nat : N = Len(memory["pattern"]) /\ DOMAIN memory["pattern"] = 1..N
    BY <1>1, LenProperties, Zenon
  <1>3. \A i \in 1..N : Likeness(q, memory["pattern"][i]) \in Int
    <2>1. \A i \in 1..N : memory["pattern"][i] \in Patterns
      BY <1>1, <1>2, ElementOfSeq, Zenon
    <2> QED
      BY <2>1, MemoryAssumption, Zenon
  <1>4. PICK score : score = ScoresOf(q)
    BY Zenon
  <1>5. DOMAIN score = 1..N /\ \A i \in 1..N : score[i] \in Int
    <2>1. score = [i \in 1..N |-> Likeness(q, memory["pattern"][i])]
      BY <1>2, <1>4, Zenon DEF ScoresOf
    <2>2. DOMAIN score = 1..N /\ \A i \in 1..N : score[i] = Likeness(q, memory["pattern"][i])
      BY <2>1, Zenon
    <2> QED
      BY <1>3, <2>2, Zenon
  <1>6. PICK n \in Nat : n = Min({max, N}) /\ n <= N
    <2>1. Min({max, N}) = IF max <= N THEN max ELSE N
      BY MinOfTwo
    <2> QED
      BY <2>1
  <1> DEFINE f == CHOOSE g : IsSearching(g, n, ScoresOf(q))
             P == {i \in 0..n : IsSearch(f[i], i, score, N)}
  <1>7. IsSearching(f, n, score)
    BY <1>4, <1>5, SearchingExists, Zenon
  <1>8. Recall(q, max) = f[n]
    BY <1>2, <1>6, Zenon DEF Recall, IsSearching
  <1> HIDE DEF f
  <1>9. 0 \in P
    <2>1. 0 \in 0..n
      OBVIOUS
    <2>2. f[0] = <<>>
      BY <1>7, <2>1, Zenon DEF IsSearching
    <2> QED
      BY <2>1, <2>2, SearchStarts, Zenon
  <1>10. ASSUME NEW i \in 0..n - 1, i \in P
         PROVE  i + 1 \in P
    <2>1. i + 1 \in 0..n /\ i + 1 # 0 /\ (i + 1) - 1 = i /\ i \in 0..N - 1
      BY <1>6
    <2>2. f[i + 1] = Extended(f[i], i + 1, score)
      BY <1>7, <2>1, Zenon DEF IsSearching
    <2>3. IsSearch(f[i], i, score, N)
      BY <1>10, Zenon
    <2>4. IsSearch(Extended(f[i], i + 1, score), i + 1, score, N)
      BY <1>5, <2>1, <2>3, SearchGoesOn, Zenon
    <2> QED
      BY <2>1, <2>2, <2>4, Zenon
  <1>11. n \in P
    <2> HIDE DEF P
    <2>1. n \in 0..n
      OBVIOUS
    <2> QED
      BY <1>9, <1>10, <2>1, InductionUpTo
  <1> QED
    BY <1>2, <1>3, <1>4, <1>6, <1>8, <1>11, Zenon

\* w is what verification leaves of s.
Verifies(w, s) ==
  \E kept \in [DOMAIN w -> DOMAIN s] :
     /\ \A k \in DOMAIN kept : w[k] = s[kept[k]]
     /\ \A j, k \in DOMAIN kept : j < k => kept[j] < kept[k]
     /\ \A n \in DOMAIN s : IsTrusted(s[n]) <=> \E k \in DOMAIN kept : kept[k] = n

LEMMA VerifiedIs ==
  ASSUME NEW q, NEW max, NEW L \in Nat, DOMAIN Recall(q, max) = 1..L, Len(Recall(q, max)) = L
  PROVE  Verifies(Verified(q, max), Recall(q, max))
  <1>1. PICK r : r = Recall(q, max)
    BY Zenon
  <1>2. PICK T \in SUBSET (1..L) : T = {n \in DOMAIN r : IsTrusted(r[n])}
    BY <1>1, Zenon
  <1>3. PICK kept : kept = InOrder(T, L)
    BY Zenon
  <1>4. Lists(kept, T)
    BY <1>3, InOrderIs, Zenon
  <1>5. /\ kept \in Seq(T)
        /\ \A j, k \in 1..Len(kept) : j < k => kept[j] < kept[k]
        /\ \A x \in T : \E k \in 1..Len(kept) : kept[k] = x
    BY <1>4, Zenon DEF Lists
  <1>6. PICK K \in Nat : K = Len(kept) /\ DOMAIN kept = 1..K /\ kept \in [1..K -> T]
    BY <1>5, LenProperties, Zenon
  <1>7. PICK v : v = Verified(q, max)
    BY Zenon
  <1>8. v = [k \in DOMAIN kept |-> r[kept[k]]]
    BY <1>1, <1>2, <1>3, <1>7, Zenon DEF Verified
  <1>9. DOMAIN v = 1..K /\ \A k \in 1..K : v[k] = r[kept[k]]
    BY <1>6, <1>8, Zenon
  <1>10. kept \in [DOMAIN v -> DOMAIN r]
    <2>1. \A k \in 1..K : kept[k] \in DOMAIN r
      BY <1>2, <1>6, Zenon
    <2> QED
      BY <1>6, <1>9, <2>1, Zenon
  <1>11. \A n \in DOMAIN r : IsTrusted(r[n]) <=> \E k \in DOMAIN kept : kept[k] = n
    BY <1>2, <1>5, <1>6, Zenon
  <1>12. Verifies(v, r)
    BY <1>5, <1>6, <1>9, <1>10, <1>11, Zenon DEF Verifies
  <1> QED
    BY <1>1, <1>7, <1>12, Zenon

\* In any memory and for any likeness, memory_recall (memory.c:117-160) finds the
\* closest patterns, in order, and none below the threshold, and
\* memory_retrieve_verified (231-246) keeps those that are trusted, in order.
THEOREM MemoryRecalls == ASSUME MemoryTypeOK PROVE RecallsTheClosest
  <1> DEFINE Finds(r, q, max) ==
        LET Of(i) == Likeness(q, memory["pattern"][i])
            rest == DOMAIN memory["pattern"] \ {r[n] : n \in DOMAIN r}
        IN  /\ \A m, n \in DOMAIN r : m < n => r[m] # r[n] /\ Of(r[m]) >= Of(r[n])
            /\ \A n \in DOMAIN r, i \in rest : Of(r[n]) >= Of(i)
            /\ Len(r) < max => \A i \in rest : Of(i) < Threshold
  <1>1. ASSUME NEW q \in Queries, NEW max \in 1..MaxPatterns
        PROVE  Finds(Recall(q, max), q, max) /\ \E L \in Nat : DOMAIN Recall(q, max) = 1..L /\ Len(Recall(q, max)) = L
    <2>1. max \in Nat
      BY MemoryAssumption
    <2>2. PICK N \in Nat, n \in Nat :
            /\ DOMAIN memory["pattern"] = 1..N /\ n = Min({max, N})
            /\ IsSearch(Recall(q, max), n, ScoresOf(q), N)
      BY <2>1, RecallIs, Zenon
    <2>3. PICK r : r = Recall(q, max)
      BY Zenon
    <2>4. PICK score : score = ScoresOf(q)
      BY Zenon
    <2>5. PICK U : U = Unlisted(r, N)
      BY Zenon
    <2>6. /\ r \in Seq(1..N) /\ Len(r) <= n
          /\ IsFiniteSet(U) /\ Cardinality(U) = N - Len(r)
          /\ \A j, k \in 1..Len(r) : j < k => r[j] # r[k] /\ score[r[j]] >= score[r[k]]
          /\ \A k \in 1..Len(r), i \in U : score[r[k]] >= score[i]
          /\ Len(r) < n => \A i \in U : score[i] < Threshold
      BY <2>2, <2>3, <2>4, <2>5, Zenon DEF IsSearch
    <2>7. PICK L \in Nat : L = Len(r) /\ DOMAIN r = 1..L /\ r \in [1..L -> 1..N]
      BY <2>6, LenProperties, Zenon
    <2>8. \A i \in 1..N : score[i] = Likeness(q, memory["pattern"][i])
      BY <2>2, <2>4, Zenon DEF ScoresOf
    <2>9. U = DOMAIN memory["pattern"] \ {r[k] : k \in DOMAIN r}
      BY <2>2, <2>5, <2>7, Zenon DEF Unlisted
    <2>10. \A i \in U : i \in 1..N
      BY <2>5, Zenon DEF Unlisted
    <2>11. \A k \in 1..L : r[k] \in 1..N
      BY <2>7
    <2>12. ASSUME Len(r) < max, NEW i \in U
           PROVE  score[i] < Threshold
      <3>1. CASE L < n
        BY <2>6, <2>7, <3>1, Zenon
      <3>2. CASE ~(L < n)
        <4>1. Min({max, N}) = IF max <= N THEN max ELSE N
          <5>1. max \in Int /\ N \in Int
            BY <2>1
          <5> QED
            BY <5>1, MinOfTwo, Zenon
        <4>2. L = N
          <5>1. L < max /\ L <= n /\ n = IF max <= N THEN max ELSE N
            BY <2>2, <2>6, <2>7, <2>12, <4>1, Zenon
          <5> QED
            BY <2>1, <3>2, <5>1
        <4>3. U = {}
          BY <2>6, <2>7, <4>2, FS_EmptySet
        <4> QED
          BY <2>12, <4>3, Zenon
      <3> QED
        BY <3>1, <3>2, Zenon
    <2>13. Finds(r, q, max)
      <3>1. \A j, k \in DOMAIN r : j < k =>
              r[j] # r[k] /\ Likeness(q, memory["pattern"][r[j]]) >= Likeness(q, memory["pattern"][r[k]])
        <4> SUFFICES ASSUME NEW j \in 1..L, NEW k \in 1..L, j < k
                     PROVE  r[j] # r[k] /\ Likeness(q, memory["pattern"][r[j]]) >= Likeness(q, memory["pattern"][r[k]])
          BY <2>7, Zenon
        <4>1. r[j] # r[k] /\ score[r[j]] >= score[r[k]]
          BY <2>6, <2>7, Zenon
        <4>2. r[j] \in 1..N /\ r[k] \in 1..N
          BY <2>11, Zenon
        <4>3. score[r[j]] = Likeness(q, memory["pattern"][r[j]]) /\ score[r[k]] = Likeness(q, memory["pattern"][r[k]])
          BY <2>8, <4>2, Zenon
        <4> QED
          BY <4>1, <4>3, Zenon
      <3>2. \A k \in DOMAIN r, i \in U :
              Likeness(q, memory["pattern"][r[k]]) >= Likeness(q, memory["pattern"][i])
        BY <2>6, <2>7, <2>8, <2>10, <2>11, Zenon
      <3>3. Len(r) < max => \A i \in U : Likeness(q, memory["pattern"][i]) < Threshold
        BY <2>8, <2>10, <2>12, Zenon
      <3> QED
        BY <2>9, <3>1, <3>2, <3>3, Zenon
    <2> HIDE DEF Finds
    <2> QED
      BY <2>3, <2>7, <2>13, Zenon
  <1>2. ASSUME NEW q \in Queries, NEW max \in 1..MaxPatterns
        PROVE  Verifies(Verified(q, max), Recall(q, max))
    <2> HIDE DEF Finds
    <2> QED
      BY <1>1, VerifiedIs, Zenon
  <1>3. (\A q \in Queries, max \in 1..MaxPatterns :
           Finds(Recall(q, max), q, max) /\ Verifies(Verified(q, max), Recall(q, max)))
          => RecallsTheClosest
    BY Zenon DEF RecallsTheClosest, Verifies
  <1> HIDE DEF Finds
  <1> QED
    BY <1>1, <1>2, <1>3, Zenon
--------------------------------------------------------------------------------
(* The population.                                                         *)

LEMMA MaxIsLargest ==
  ASSUME NEW B \in Nat, NEW S \in SUBSET (0..B), S # {}
  PROVE  Max(S) \in S /\ \A y \in S : y <= Max(S)
  <1> DEFINE T == {B - x : x \in S}
  <1>1. \A x \in S : x \in Nat /\ x <= B /\ B - x \in Nat
    OBVIOUS
  <1>2. T \in SUBSET Nat /\ T # {}
    <2>1. \A x \in S : B - x \in T
      OBVIOUS
    <2>2. T \in SUBSET Nat
      BY <1>1, Zenon
    <2> QED
      BY <2>1, <2>2, Zenon
  <1>3. PICK t \in T : \A u \in T : t <= u
    <2> HIDE DEF T
    <2> QED
      BY <1>2, LeastNat
  <1>4. PICK x \in S : t = B - x
    BY <1>3, Zenon
  <1>5. \A y \in S : x >= y
    <2> TAKE y \in S
    <2>1. t <= B - y
      BY <1>3, Zenon
    <2> QED
      BY <1>1, <1>4, <2>1
  <1>6. Max(S) \in S /\ \A y \in S : Max(S) >= y
    BY <1>5, Zenon DEF Max
  <1>7. ASSUME NEW y \in S PROVE y <= Max(S)
    <2>1. Max(S) \in Nat /\ y \in Nat /\ Max(S) >= y
      BY <1>1, <1>6, Zenon
    <2> QED
      BY <2>1
  <1> QED
    BY <1>6, <1>7, Zenon

\* K are the places among 1 .. n whose hypotheses the normalisation keeps.
IsKept(K, ns, n) ==
  /\ K \subseteq {i \in 1..n : ns[i].used}
  /\ \A j \in 1..n : ns[j].used =>
        j \in K \/ \E i \in K : i < j /\ Alike(ns[i].claim, ns[j].claim)
  /\ \A i, j \in K : i < j => ~Alike(ns[i].claim, ns[j].claim)

\* What the normalisation keeps once it has come to j.
KeepsAt(K, ns, j) ==
  IF ns[j].used /\ \A i \in K : ~Alike(ns[i].claim, ns[j].claim) THEN K \cup {j} ELSE K

IsKeeping(f, ns, n) ==
  f = [j \in 0..n |->
         IF j = 0 THEN {}
         ELSE IF ns[j].used /\ \A i \in f[j - 1] : ~Alike(ns[i].claim, ns[j].claim)
              THEN f[j - 1] \cup {j} ELSE f[j - 1]]

LEMMA KeepingExists ==
  ASSUME NEW ns, NEW n \in Nat
  PROVE  \E f : IsKeeping(f, ns, n)
  <1> DEFINE X == SUBSET (1..n)
             step == [j \in 1..n |-> [K \in X |-> KeepsAt(K, ns, j)]]
  <1>1. AreSteps(step, X, n)
    <2>1. ASSUME NEW j \in 1..n, NEW K \in X
          PROVE  KeepsAt(K, ns, j) \in X
      BY DEF KeepsAt
    <2> HIDE DEF X
    <2> QED
      BY <2>1, Zenon DEF AreSteps
  <1>2. {} \in X
    OBVIOUS
  <1>3. PICK f : Computes(f, X, {}, step, n)
    <2> HIDE DEF X, step
    <2> QED
      BY <1>1, <1>2, RecursionExists, Zenon
  <1>4. ASSUME NEW j \in 0..n, j # 0
        PROVE  step[j][f[j - 1]] = KeepsAt(f[j - 1], ns, j)
    <2>1. j \in 1..n /\ j - 1 \in 0..n
      BY <1>4
    <2>2. f[j - 1] \in X
      BY <1>3, <2>1, Zenon DEF Computes
    <2> HIDE DEF X
    <2> QED
      BY <2>1, <2>2, Zenon
  <1> HIDE DEF step, X
  <1>5. f = [j \in 0..n |-> IF j = 0 THEN {} ELSE KeepsAt(f[j - 1], ns, j)]
    BY <1>3, <1>4, Zenon DEF Computes
  <1> QED
    BY <1>5, Zenon DEF IsKeeping, KeepsAt

LEMMA KeptIs ==
  ASSUME NEW ns, NEW N \in Nat, Len(ns) = N
  PROVE  IsKept(Kept(ns), ns, N)
  <1> DEFINE f == CHOOSE g : IsKeeping(g, ns, N)
             P == {n \in 0..N : IsKept(f[n], ns, n)}
  <1>1. IsKeeping(f, ns, N)
    BY KeepingExists, Zenon
  <1>2. Kept(ns) = f[N]
    BY Zenon DEF Kept, IsKeeping
  <1> HIDE DEF f
  <1>3. 0 \in P
    <2>1. 0 \in 0..N /\ \A i \in 1..0 : FALSE
      OBVIOUS
    <2>2. f[0] = {}
      BY <1>1, <2>1, Zenon DEF IsKeeping
    <2> QED
      BY <2>1, <2>2, Zenon DEF IsKept
  <1>4. ASSUME NEW n \in 0..N - 1, n \in P
        PROVE  n + 1 \in P
    <2>1. PICK m : m = n + 1
      OBVIOUS
    <2>2. m \in 0..N /\ m # 0 /\ m - 1 = n /\ m \in 1..m /\ \A i \in 1..n : i \in 1..m /\ i < m /\ ~(m < i)
      BY <2>1
    <2>3. f[m] = KeepsAt(f[n], ns, m)
      BY <1>1, <2>2, Zenon DEF IsKeeping, KeepsAt
    <2>4. PICK K : K = f[n]
      BY Zenon
    <2>5. IsKept(K, ns, n)
      BY <1>4, <2>4, Zenon
    <2>6. \A i \in 1..m : i \in 1..n \/ i = m
      BY <2>1
    <2>7. \A i \in K : i \in 1..n /\ ns[i].used
      BY <2>5, Zenon DEF IsKept
    <2>8. CASE ns[m].used /\ \A i \in K : ~Alike(ns[i].claim, ns[m].claim)
      <3>1. f[m] = K \cup {m}
        BY <2>3, <2>4, <2>8, Zenon DEF KeepsAt
      <3>2. ~(m < m)
        BY <2>2
      <3>3. K \cup {m} \subseteq {i \in 1..m : ns[i].used}
        BY <2>2, <2>7, <2>8, Zenon
      <3>4. ASSUME NEW j \in 1..m, ns[j].used
            PROVE  j \in K \cup {m} \/ \E i \in K \cup {m} : i < j /\ Alike(ns[i].claim, ns[j].claim)
        BY <2>5, <2>6, <3>4, Zenon DEF IsKept
      <3>5. ASSUME NEW i \in K \cup {m}, NEW j \in K \cup {m}, i < j
            PROVE  ~Alike(ns[i].claim, ns[j].claim)
        <4>1. i # m
          BY <2>2, <2>7, <3>2, <3>5, Zenon
        <4>2. i \in K
          BY <4>1, Zenon
        <4>3. CASE j = m
          BY <2>8, <4>2, <4>3, Zenon
        <4>4. CASE j # m
          BY <2>5, <3>5, <4>2, <4>4, Zenon DEF IsKept
        <4> QED
          BY <4>3, <4>4, Zenon
      <3>6. IsKept(K \cup {m}, ns, m)
        BY <3>3, <3>4, <3>5, Zenon DEF IsKept
      <3> QED
        BY <2>1, <2>2, <3>1, <3>6, Zenon
    <2>9. CASE ~(ns[m].used /\ \A i \in K : ~Alike(ns[i].claim, ns[m].claim))
      <3>1. f[m] = K
        BY <2>3, <2>4, <2>9, Zenon DEF KeepsAt
      <3>2. K \subseteq {i \in 1..m : ns[i].used}
        BY <2>2, <2>7, Zenon
      <3>3. ASSUME NEW j \in 1..m, ns[j].used
            PROVE  j \in K \/ \E i \in K : i < j /\ Alike(ns[i].claim, ns[j].claim)
        <4>1. CASE j = m
          BY <2>2, <2>7, <2>9, <3>3, <4>1, Zenon
        <4>2. CASE j # m
          BY <2>5, <2>6, <3>3, <4>2, Zenon DEF IsKept
        <4> QED
          BY <4>1, <4>2, Zenon
      <3>4. IsKept(K, ns, m)
        BY <2>5, <3>2, <3>3, Zenon DEF IsKept
      <3> QED
        BY <2>1, <2>2, <3>1, <3>4, Zenon
    <2> QED
      BY <2>8, <2>9, Zenon
  <1>5. N \in P
    <2> HIDE DEF P
    <2>1. N \in 0..N
      OBVIOUS
    <2> QED
      BY <1>3, <1>4, <2>1, InductionUpTo
  <1> QED
    BY <1>2, <1>5, Zenon

\* The hypothesis that takes one in, and the prior it gets.
LEMMA TakenIn ==
  ASSUME NEW ns, NEW N \in Nat, Len(ns) = N, NEW j \in 1..N, ns[j].used
  PROVE  /\ KeptFor(ns, j) \in Kept(ns) /\ KeptFor(ns, j) \in 1..j /\ KeptFor(ns, j) \in 1..N
         /\ Alike(ns[KeptFor(ns, j)].claim, ns[j].claim)
         /\ j \in Kept(ns) => KeptFor(ns, j) = j
  <1>1. PICK K : K = Kept(ns)
    BY Zenon
  <1>2. IsKept(K, ns, N)
    BY <1>1, KeptIs, Zenon
  <1>3. /\ \A i \in K : i \in 1..N
        /\ j \in K \/ \E i \in K : i < j /\ Alike(ns[i].claim, ns[j].claim)
        /\ \A i \in K : i < j /\ j \in K => ~Alike(ns[i].claim, ns[j].claim)
    BY <1>2, Zenon DEF IsKept
  <1> DEFINE T == {i \in K : i <= j /\ Alike(ns[i].claim, ns[j].claim)}
  <1>4. Alike(ns[j].claim, ns[j].claim)
    BY Zenon DEF Alike
  <1>5. \A i \in K : i \in Nat /\ j \in Nat /\ (i < j => i <= j) /\ j <= j /\ (i <= j => i \in 1..j)
                      /\ (i <= j => i = j \/ i < j)
    BY <1>3
  <1>6. T \in SUBSET Nat /\ T # {}
    BY <1>3, <1>4, <1>5, Zenon
  <1>7. KeptFor(ns, j) = Min(T)
    BY <1>1, Zenon DEF KeptFor
  <1>8. Min(T) \in T
    <2> HIDE DEF T
    <2> QED
      BY <1>6, MinIsLeast, Zenon
  <1>9. KeptFor(ns, j) \in T
    BY <1>7, <1>8, Zenon
  <1>10. /\ KeptFor(ns, j) \in K /\ KeptFor(ns, j) <= j
         /\ Alike(ns[KeptFor(ns, j)].claim, ns[j].claim)
    BY <1>9, Zenon
  <1> QED
    BY <1>1, <1>3, <1>5, <1>10, Zenon

LEMMA PriorsKept ==
  ASSUME NEW ns \in Seq(Hypotheses), NEW N \in Nat, Len(ns) = N, NEW j \in 1..N, ns[j].used
  PROVE  /\ PriorKept(ns, KeptFor(ns, j)) \in 0..One
         /\ ns[j].prior_score <= PriorKept(ns, KeptFor(ns, j))
  <1>1. PICK i : i = KeptFor(ns, j)
    BY Zenon
  <1>2. PICK S : S = {ns[k].prior_score : k \in {m \in DOMAIN ns : ns[m].used /\ KeptFor(ns, m) = i}}
    OBVIOUS
  <1>3. PriorKept(ns, i) = Max(S)
    BY <1>2, Zenon DEF PriorKept
  <1>4. DOMAIN ns = 1..N
    BY LenProperties, Zenon
  <1>5. \A k \in 1..N : ns[k].prior_score \in 0..One
    <2>1. \A k \in 1..N : ns[k] \in Hypotheses
      BY ElementOfSeq, Zenon
    <2> QED
      BY <2>1 DEF Hypotheses
  <1>6. S \in SUBSET (0..One) /\ ns[j].prior_score \in S
    BY <1>1, <1>2, <1>4, <1>5, Zenon
  <1>7. Max(S) \in S /\ \A y \in S : y <= Max(S)
    BY <1>6, MaxIsLargest, PopulationAssumption, Zenon
  <1> QED
    BY <1>1, <1>3, <1>6, <1>7, Zenon

\* In use only while it is active and has its strings.
Alive(x) == x.used => x.active /\ ~x.freed

\* ms are the hypotheses ns, with other scores or out of use.
Keeps(ns, ms) ==
  /\ ms \in Seq(Hypotheses) /\ Len(ms) = Len(ns)
  /\ \A i \in 1..Len(ns) : ms[i].claim = ns[i].claim /\ (Alive(ns[i]) => Alive(ms[i]))

\* One by one.
KeepsOne(x, y) == y \in Hypotheses /\ y.claim = x.claim /\ (Alive(x) => Alive(y))

LEMMA KeepsEach ==
  ASSUME NEW ns \in Seq(Hypotheses), NEW ms, DOMAIN ms = DOMAIN ns,
         ms = [i \in DOMAIN ns |-> ms[i]], \A i \in DOMAIN ns : KeepsOne(ns[i], ms[i])
  PROVE  Keeps(ns, ms)
  <1>1. PICK N \in Nat : N = Len(ns) /\ DOMAIN ns = 1..N
    BY LenProperties, Zenon
  <1>2. \A i \in 1..N : ms[i] \in Hypotheses
    BY <1>1, Zenon DEF KeepsOne
  <1>3. ms \in [1..N -> Hypotheses]
    BY <1>1, <1>2, Zenon
  <1>4. ms \in Seq(Hypotheses)
    BY <1>3, SeqDef, Zenon
  <1>5. Len(ms) = N
    BY <1>3, <1>4
  <1> QED
    BY <1>1, <1>4, <1>5, Zenon DEF Keeps, KeepsOne

LEMMA KeepsAll ==
  ASSUME NEW ns \in Seq(Hypotheses)
  PROVE  Keeps(ns, ns)
  BY Zenon DEF Keeps

LEMMA KeepsOn ==
  ASSUME NEW ns, NEW ms, Keeps(ns, ms), NEW os, Keeps(ms, os)
  PROVE  Keeps(ns, os)
  BY Zenon DEF Keeps

LEMMA HypothesisFields ==
  ASSUME NEW x \in Hypotheses
  PROVE  /\ x.claim \in Seq(Words) /\ x.prior_score \in 0..One
         /\ x.support \in 0..MaxEvidence /\ x.contradiction \in 0..MaxEvidence
         /\ x.active \in BOOLEAN /\ x.used \in BOOLEAN /\ x.freed \in BOOLEAN
  BY DEF Hypotheses

\* What becomes of a hypothesis.
LEMMA Dropped ==
  ASSUME NEW x \in Hypotheses
  PROVE  KeepsOne(x, [x EXCEPT !.used = FALSE, !.freed = TRUE])
  BY DEF KeepsOne, Alive, Hypotheses

LEMMA PrunedOne ==
  ASSUME NEW x \in Hypotheses
  PROVE  KeepsOne(x, [x EXCEPT !.used = FALSE, !.active = FALSE])
  BY DEF KeepsOne, Alive, Hypotheses

LEMMA Rescored ==
  ASSUME NEW x \in Hypotheses, NEW prior \in 0..One, NEW support \in 0..MaxEvidence,
         NEW contradiction \in 0..MaxEvidence
  PROVE  /\ KeepsOne(x, x)
         /\ KeepsOne(x, [x EXCEPT !.prior_score = prior])
         /\ KeepsOne(x, [x EXCEPT !.support = support])
         /\ KeepsOne(x, [x EXCEPT !.contradiction = contradiction])
         /\ KeepsOne(x, [x EXCEPT !.support = support, !.contradiction = contradiction])
  BY DEF KeepsOne, Alive, Hypotheses

LEMMA PrunedIs ==
  ASSUME NEW ns \in Seq(Hypotheses), NEW id
  PROVE  Keeps(ns, Pruned(ns, id))
  <1>1. PICK N \in Nat : DOMAIN ns = 1..N /\ N = Len(ns)
    BY LenProperties, Zenon
  <1>2. \A i \in 1..N : ns[i] \in Hypotheses
    BY <1>1, ElementOfSeq, Zenon
  <1>3. PICK ms : ms = Pruned(ns, id)
    BY Zenon
  <1>4. CASE id \in DOMAIN ns /\ ns[id].used
    <2>1. ms = [ns EXCEPT ![id] = [@ EXCEPT !.used = FALSE, !.active = FALSE]]
      <3>1. ms = [ns EXCEPT ![id].used = FALSE, ![id].active = FALSE]
        BY <1>3, <1>4, Zenon DEF Pruned
      <3>2. ns[id] \in Hypotheses
        BY <1>1, <1>2, <1>4, Zenon
      <3> QED
        BY <1>1, <1>4, <3>1, <3>2 DEF Hypotheses
    <2>2. DOMAIN ms = DOMAIN ns /\ ms = [i \in DOMAIN ns |-> ms[i]]
      BY <1>1, <2>1
    <2>3. ASSUME NEW i \in DOMAIN ns PROVE KeepsOne(ns[i], ms[i])
      <3>1. ns[i] \in Hypotheses
        BY <1>1, <1>2, Zenon
      <3>2. CASE i = id
        <4>1. ms[i] = [ns[i] EXCEPT !.used = FALSE, !.active = FALSE]
          BY <2>1, <3>2
        <4> QED
          BY <3>1, <4>1, PrunedOne, Zenon
      <3>3. CASE i # id
        <4>1. ms[i] = ns[i]
          BY <2>1, <3>3
        <4> QED
          BY <3>1, <4>1, Zenon DEF KeepsOne
      <3> QED
        BY <3>2, <3>3, Zenon
    <2>4. Keeps(ns, ms)
      BY <2>2, <2>3, KeepsEach, Zenon
    <2> QED
      BY <1>3, <2>4, Zenon
  <1>5. CASE ~(id \in DOMAIN ns /\ ns[id].used)
    <2>1. Pruned(ns, id) = ns
      BY <1>5, Zenon DEF Pruned
    <2> QED
      BY <2>1, KeepsAll, Zenon
  <1> QED
    BY <1>4, <1>5, Zenon

\* The hypotheses stay in use, under the same priors.
SameUse(ns, ms) ==
  \A i \in 1..Len(ns) : ms[i].used = ns[i].used /\ ms[i].prior_score = ns[i].prior_score

\* Bound: the evidence fits the hypothesis it is about.
Fits(ns, e) ==
  e.hypothesis_id \in DOMAIN ns /\ ns[e.hypothesis_id].used =>
    /\ ns[e.hypothesis_id].support + e.weight <= MaxEvidence
    /\ ns[e.hypothesis_id].contradiction + e.weight <= MaxEvidence

LEMMA WithEvidenceIs ==
  ASSUME NEW ns \in Seq(Hypotheses), NEW e, e.weight \in Nat, Fits(ns, e)
  PROVE  Keeps(ns, WithEvidence(ns, e)) /\ SameUse(ns, WithEvidence(ns, e))
  <1>1. PICK N \in Nat : DOMAIN ns = 1..N /\ N = Len(ns)
    BY LenProperties, Zenon
  <1>2. \A i \in 1..N : ns[i] \in Hypotheses
    BY <1>1, ElementOfSeq, Zenon
  <1>3. PICK ms : ms = WithEvidence(ns, e)
    BY Zenon
  <1>4. PICK id : id = e.hypothesis_id
    OBVIOUS
  <1>5. CASE ms = ns
    BY <1>3, <1>5, KeepsAll, Zenon DEF SameUse
  <1>6. CASE ms # ns
    <2>1. id \in DOMAIN ns /\ ns[id].used
      BY <1>3, <1>4, <1>6, Zenon DEF WithEvidence
    <2>2. /\ ns[id] \in Hypotheses /\ ns[id].support + e.weight \in 0..MaxEvidence
          /\ ns[id].contradiction + e.weight \in 0..MaxEvidence
      <3>1. ns[id] \in Hypotheses
        BY <1>1, <1>2, <2>1, Zenon
      <3>2. ns[id].support \in Nat /\ ns[id].contradiction \in Nat
        BY <3>1, HypothesisFields
      <3>3. ns[id].support + e.weight <= MaxEvidence /\ ns[id].contradiction + e.weight <= MaxEvidence
        BY <1>4, <2>1, Zenon DEF Fits
      <3> QED
        BY <3>1, <3>2, <3>3, PopulationAssumption
    <2>3. PICK y : /\ KeepsOne(ns[id], y) /\ y.used = ns[id].used /\ y.prior_score = ns[id].prior_score
                   /\ ms = [ns EXCEPT ![id] = y]
      <3>1. CASE e.decision = "accept"
        <4>1. PICK y : y = [ns[id] EXCEPT !.support = @ + e.weight]
          OBVIOUS
        <4>2. ms = [ns EXCEPT ![id] = y]
          <5>1. ms = [ns EXCEPT ![id].support = @ + e.weight]
            BY <1>3, <1>4, <2>1, <3>1 DEF WithEvidence
          <5> QED
            BY <4>1, <5>1
        <4>3. KeepsOne(ns[id], y)
          <5>1. y = [ns[id] EXCEPT !.support = ns[id].support + e.weight]
            BY <2>2, <4>1 DEF Hypotheses
          <5> QED
            BY <2>2, <5>1, Rescored DEF Hypotheses
        <4>4. y.used = ns[id].used /\ y.prior_score = ns[id].prior_score
          BY <2>2, <4>1 DEF Hypotheses
        <4> QED
          BY <4>2, <4>3, <4>4, Zenon
      <3>2. CASE e.decision = "reject"
        <4>1. PICK y : y = [ns[id] EXCEPT !.contradiction = @ + e.weight]
          OBVIOUS
        <4>2. ms = [ns EXCEPT ![id] = y]
          <5>1. ms = [ns EXCEPT ![id].contradiction = @ + e.weight]
            BY <1>3, <1>4, <2>1, <3>2 DEF WithEvidence
          <5> QED
            BY <4>1, <5>1
        <4>3. KeepsOne(ns[id], y)
          <5>1. y = [ns[id] EXCEPT !.contradiction = ns[id].contradiction + e.weight]
            BY <2>2, <4>1 DEF Hypotheses
          <5> QED
            BY <2>2, <5>1, Rescored DEF Hypotheses
        <4>4. y.used = ns[id].used /\ y.prior_score = ns[id].prior_score
          BY <2>2, <4>1 DEF Hypotheses
        <4> QED
          BY <4>2, <4>3, <4>4, Zenon
      <3>3. CASE e.decision # "accept" /\ e.decision # "reject"
        BY <1>3, <1>4, <1>6, <2>1, <3>3 DEF WithEvidence
      <3> QED
        BY <3>1, <3>2, <3>3, Zenon
    <2>4. /\ DOMAIN ms = DOMAIN ns /\ ms = [i \in DOMAIN ns |-> ms[i]]
          /\ \A i \in DOMAIN ns : ms[i] = IF i = id THEN y ELSE ns[i]
      BY <1>1, <2>3
    <2>5. ASSUME NEW i \in DOMAIN ns PROVE KeepsOne(ns[i], ms[i])
      <3>1. CASE i = id
        BY <2>3, <2>4, <3>1, Zenon
      <3>2. CASE i # id
        BY <1>1, <1>2, <2>4, <3>2, Zenon DEF KeepsOne
      <3> QED
        BY <3>1, <3>2, Zenon
    <2>6. Keeps(ns, ms)
      BY <2>4, <2>5, KeepsEach, Zenon
    <2>7. SameUse(ns, ms)
      BY <1>1, <2>3, <2>4, Zenon DEF SameUse
    <2> QED
      BY <1>3, <2>6, <2>7, Zenon
  <1> QED
    BY <1>5, <1>6, Zenon

\* Whatever is dropped leaves its prior to an earlier hypothesis like it.
PassesOn(ns, ms) ==
  \A j \in 1..Len(ns) : ns[j].used /\ ~ms[j].used =>
    \E i \in 1..Len(ns) :
       /\ i < j /\ ns[i].used /\ Alike(ns[i].claim, ns[j].claim)
       /\ ms[i].used /\ ns[j].prior_score <= ms[i].prior_score

LEMMA NormalizedIs ==
  ASSUME NEW ns \in Seq(Hypotheses)
  PROVE  Keeps(ns, Normalized(ns)) /\ PassesOn(ns, Normalized(ns))
  <1>1. PICK N \in Nat : DOMAIN ns = 1..N /\ N = Len(ns)
    BY LenProperties, Zenon
  <1>2. \A i \in 1..N : ns[i] \in Hypotheses
    BY <1>1, ElementOfSeq, Zenon
  <1>3. PICK ms : ms = Normalized(ns)
    BY Zenon
  <1>4. PICK K : K = Kept(ns)
    BY Zenon
  <1>5. \A i \in K : i \in 1..N /\ ns[i].used
    <2>1. IsKept(K, ns, N)
      BY <1>1, <1>4, KeptIs, Zenon
    <2> QED
      BY <2>1, Zenon DEF IsKept
  <1> DEFINE After(i) ==
        CASE ~ns[i].used -> ns[i]
          [] i \in Kept(ns) -> [ns[i] EXCEPT !.prior_score = PriorKept(ns, i)]
          [] OTHER -> [ns[i] EXCEPT !.used = FALSE, !.freed = TRUE]
  <1>6. /\ DOMAIN ms = DOMAIN ns
        /\ ms = [i \in DOMAIN ns |-> ms[i]]
        /\ \A i \in DOMAIN ns : ms[i] = After(i)
    <2>1. ms = [i \in DOMAIN ns |-> After(i)]
      BY <1>3 DEF Normalized
    <2> HIDE DEF After
    <2> QED
      BY <2>1, Zenon
  <1>7. ASSUME NEW i \in K
        PROVE  /\ PriorKept(ns, i) \in 0..One
               /\ ms[i] = [ns[i] EXCEPT !.prior_score = PriorKept(ns, i)]
               /\ ms[i].used /\ ms[i].prior_score = PriorKept(ns, i)
    <2>1. i \in 1..N /\ ns[i].used /\ ns[i] \in Hypotheses
      BY <1>2, <1>5, Zenon
    <2>2. KeptFor(ns, i) = i
      BY <1>1, <1>4, <2>1, TakenIn, Zenon
    <2>3. PriorKept(ns, i) \in 0..One
      BY <1>1, <2>1, <2>2, PriorsKept, Zenon
    <2>4. ms[i] = [ns[i] EXCEPT !.prior_score = PriorKept(ns, i)]
      BY <1>1, <1>4, <1>6, <2>1
    <2>5. ms[i].used /\ ms[i].prior_score = PriorKept(ns, i)
      BY <2>1, <2>4 DEF Hypotheses
    <2> QED
      BY <2>3, <2>4, <2>5, Zenon
  <1>8. ASSUME NEW i \in DOMAIN ns PROVE KeepsOne(ns[i], ms[i])
    <2>1. ns[i] \in Hypotheses
      BY <1>1, <1>2, Zenon
    <2>2. CASE ~ns[i].used
      <3>1. ms[i] = ns[i]
        BY <1>4, <1>5, <1>6, <2>2
      <3> QED
        BY <2>1, <3>1, Zenon DEF KeepsOne
    <2>3. CASE i \in K
      <3>1. ns[i].support \in 0..MaxEvidence /\ ns[i].contradiction \in 0..MaxEvidence
        BY <2>1, HypothesisFields, Zenon
      <3>2. KeepsOne(ns[i], [ns[i] EXCEPT !.prior_score = PriorKept(ns, i)])
        BY <1>7, <2>1, <2>3, <3>1, Rescored, Zenon
      <3> QED
        BY <1>7, <2>3, <3>2, Zenon
    <2>4. CASE ns[i].used /\ i \notin K
      <3>1. ms[i] = [ns[i] EXCEPT !.used = FALSE, !.freed = TRUE]
        BY <1>4, <1>6, <2>4
      <3> QED
        BY <2>1, <3>1, Dropped, Zenon
    <2> QED
      BY <2>2, <2>3, <2>4, Zenon
  <1>9. Keeps(ns, ms)
    BY <1>6, <1>8, KeepsEach, Zenon
  <1>10. PassesOn(ns, ms)
    <2> SUFFICES ASSUME NEW j \in 1..N, ns[j].used, ~ms[j].used
                 PROVE  \E i \in 1..N :
                           /\ i < j /\ ns[i].used /\ Alike(ns[i].claim, ns[j].claim)
                           /\ ms[i].used /\ ns[j].prior_score <= ms[i].prior_score
      BY <1>1, Zenon DEF PassesOn
    <2>1. PICK i : i = KeptFor(ns, j)
      BY Zenon
    <2>2. i \in K /\ i \in 1..j /\ i \in 1..N /\ Alike(ns[i].claim, ns[j].claim)
      BY <1>1, <1>4, <2>1, TakenIn, Zenon
    <2>3. ns[j].prior_score <= PriorKept(ns, i)
      BY <1>1, <2>1, PriorsKept, Zenon
    <2>4. ms[i].used /\ ms[i].prior_score = PriorKept(ns, i)
      BY <1>7, <2>2, Zenon
    <2>5. i # j
      BY <2>4, Zenon
    <2>6. i < j
      BY <2>2, <2>5
    <2> QED
      BY <1>5, <2>2, <2>3, <2>4, <2>6, Zenon
  <1> QED
    BY <1>3, <1>9, <1>10, Zenon

\* Of what is in use something stays in use.
LEMMA SomethingStays ==
  ASSUME NEW ns \in Seq(Hypotheses), NEW i \in 1..Len(ns), ns[i].used
  PROVE  \E j \in 1..Len(ns) : Normalized(ns)[j].used
  BY NormalizedIs, Zenon DEF PassesOn

\* Another hypothesis.
LEMMA AddedIs ==
  ASSUME NEW ns \in Seq(Hypotheses), NEW claim \in Seq(Words), NEW prior \in 0..One
  PROVE  /\ Added(ns, claim, prior) \in Seq(Hypotheses)
         /\ Len(Added(ns, claim, prior)) = Len(ns) + 1
         /\ Added(ns, claim, prior)[Len(ns) + 1].claim = claim
         /\ Alive(Added(ns, claim, prior)[Len(ns) + 1])
         /\ \A i \in 1..Len(ns) : Added(ns, claim, prior)[i] = ns[i]
  <1>1. PICK x : x = NewNode(claim, prior)
    BY Zenon
  <1>2. x \in Hypotheses /\ x.claim = claim /\ Alive(x)
    BY <1>1, PopulationAssumption DEF NewNode, Hypotheses, Alive
  <1>3. Added(ns, claim, prior) = Append(ns, x)
    BY <1>1, Zenon DEF Added
  <1>4. PICK ms : ms = Append(ns, x)
    BY Zenon
  <1>5. /\ ms \in Seq(Hypotheses) /\ Len(ms) = Len(ns) + 1
        /\ ms[Len(ns) + 1] = x /\ \A i \in 1..Len(ns) : ms[i] = ns[i]
    BY <1>2, <1>4, AppendProperties
  <1> QED
    BY <1>2, <1>3, <1>4, <1>5, Zenon

LEMMA MergedIs ==
  ASSUME NEW ns \in Seq(Hypotheses), NEW a \in DOMAIN ns, NEW b \in DOMAIN ns,
         ns[a].support + ns[b].support <= MaxEvidence,
         ns[a].contradiction + ns[b].contradiction <= MaxEvidence
  PROVE  Keeps(ns, Merged(ns, a, b))
  <1>1. PICK N \in Nat : DOMAIN ns = 1..N /\ N = Len(ns)
    BY LenProperties, Zenon
  <1>2. \A i \in 1..N : ns[i] \in Hypotheses
    BY <1>1, ElementOfSeq, Zenon
  <1>3. PICK ms : ms = Merged(ns, a, b)
    BY Zenon
  <1>4. ns[a] \in Hypotheses /\ ns[b] \in Hypotheses
    BY <1>1, <1>2, Zenon
  <1>5. PICK s \in 0..MaxEvidence, c \in 0..MaxEvidence :
          s = ns[a].support + ns[b].support /\ c = ns[a].contradiction + ns[b].contradiction
    <2>1. /\ ns[a].support \in Nat /\ ns[b].support \in Nat
          /\ ns[a].contradiction \in Nat /\ ns[b].contradiction \in Nat
      BY <1>4, HypothesisFields
    <2> QED
      BY <2>1, PopulationAssumption
  <1>6. PICK y : y = [ns[a] EXCEPT !.support = s, !.contradiction = c]
    OBVIOUS
  <1>7. ms = [ns EXCEPT ![a] = y]
    <2>1. ms = [ns EXCEPT ![a].support = @ + ns[b].support,
                          ![a].contradiction = @ + ns[b].contradiction]
      BY <1>3, Zenon DEF Merged
    <2> QED
      BY <1>1, <1>4, <1>5, <1>6, <2>1 DEF Hypotheses
  <1>8. KeepsOne(ns[a], y)
    <2>1. ns[a].prior_score \in 0..One
      BY <1>4, HypothesisFields, Zenon
    <2> QED
      BY <1>4, <1>6, <2>1, Rescored, Zenon
  <1>9. /\ DOMAIN ms = DOMAIN ns /\ ms = [i \in DOMAIN ns |-> ms[i]]
        /\ \A i \in DOMAIN ns : ms[i] = IF i = a THEN y ELSE ns[i]
    BY <1>1, <1>7
  <1>10. ASSUME NEW i \in DOMAIN ns PROVE KeepsOne(ns[i], ms[i])
    <2>1. CASE i = a
      BY <1>8, <1>9, <2>1, Zenon
    <2>2. CASE i # a
      BY <1>1, <1>2, <1>9, <2>2, Zenon DEF KeepsOne
    <2> QED
      BY <2>1, <2>2, Zenon
  <1> QED
    BY <1>3, <1>9, <1>10, KeepsEach, Zenon

\* The interventions on the population.
LEMMA ScrambledIs ==
  ASSUME NEW ns \in Seq(Hypotheses), NEW S, \A i \in S : ns[i].support < MaxEvidence
  PROVE  Keeps(ns, [i \in DOMAIN ns |-> IF i \in S THEN [ns[i] EXCEPT !.support = @ + 1] ELSE ns[i]])
  <1>1. PICK N \in Nat : DOMAIN ns = 1..N /\ N = Len(ns)
    BY LenProperties, Zenon
  <1>2. \A i \in 1..N : ns[i] \in Hypotheses
    BY <1>1, ElementOfSeq, Zenon
  <1>3. PICK ms : ms = [i \in DOMAIN ns |-> IF i \in S THEN [ns[i] EXCEPT !.support = @ + 1] ELSE ns[i]]
    OBVIOUS
  <1>4. ASSUME NEW i \in DOMAIN ns PROVE KeepsOne(ns[i], ms[i])
    <2>1. ns[i] \in Hypotheses
      BY <1>1, <1>2, Zenon
    <2>2. CASE i \in S
      <3>1. ns[i].support + 1 \in 0..MaxEvidence
        BY <2>1, <2>2, HypothesisFields, PopulationAssumption
      <3>2. ms[i] = [ns[i] EXCEPT !.support = ns[i].support + 1]
        BY <1>3, <2>2
      <3>3. ns[i].prior_score \in 0..One /\ ns[i].contradiction \in 0..MaxEvidence
        BY <2>1, HypothesisFields, Zenon
      <3> QED
        BY <2>1, <3>1, <3>2, <3>3, Rescored, Zenon
    <2>3. CASE i \notin S
      BY <1>3, <2>1, <2>3, Zenon DEF KeepsOne
    <2> QED
      BY <2>2, <2>3, Zenon
  <1>5. DOMAIN ms = DOMAIN ns /\ ms = [i \in DOMAIN ns |-> ms[i]]
    BY <1>3, Zenon
  <1> QED
    BY <1>3, <1>4, <1>5, KeepsEach, Zenon

LEMMA FrozenIs ==
  ASSUME NEW ns \in Seq(Hypotheses), NEW S
  PROVE  Keeps(ns, [i \in DOMAIN ns |-> IF i \in S THEN Pruned(ns, i)[i] ELSE ns[i]])
  <1>1. PICK N \in Nat : DOMAIN ns = 1..N /\ N = Len(ns)
    BY LenProperties, Zenon
  <1>2. \A i \in 1..N : ns[i] \in Hypotheses
    BY <1>1, ElementOfSeq, Zenon
  <1>3. PICK ms : ms = [i \in DOMAIN ns |-> IF i \in S THEN Pruned(ns, i)[i] ELSE ns[i]]
    BY Zenon
  <1>4. ASSUME NEW i \in DOMAIN ns PROVE KeepsOne(ns[i], ms[i])
    <2>1. ns[i] \in Hypotheses
      BY <1>1, <1>2, Zenon
    <2>2. CASE i \in S
      <3>1. Keeps(ns, Pruned(ns, i))
        BY PrunedIs, Zenon
      <3>2. PICK os : os = Pruned(ns, i)
        BY Zenon
      <3>3. os \in Seq(Hypotheses) /\ Len(os) = N
            /\ os[i].claim = ns[i].claim /\ (Alive(ns[i]) => Alive(os[i]))
        BY <1>1, <3>1, <3>2, Zenon DEF Keeps
      <3>4. os[i] \in Hypotheses
        BY <1>1, <3>3, ElementOfSeq, Zenon
      <3> QED
        BY <1>3, <2>2, <3>2, <3>3, <3>4, Zenon DEF KeepsOne
    <2>3. CASE i \notin S
      BY <1>3, <2>1, <2>3, Zenon DEF KeepsOne
    <2> QED
      BY <2>2, <2>3, Zenon
  <1>5. DOMAIN ms = DOMAIN ns /\ ms = [i \in DOMAIN ns |-> ms[i]]
    BY <1>3, Zenon
  <1> QED
    BY <1>3, <1>4, <1>5, KeepsEach, Zenon
--------------------------------------------------------------------------------
(* The history.                                                            *)

Derived(h) == {i \in DOMAIN h : h[i].type \in Marks}

\* The history of the hypotheses ns.
Chronicle(ns, h) ==
  /\ h \in Seq(TransitionRecords)
  /\ \A i \in Derived(h) :
       /\ h[i].hypothesis_id < h[i].target_id
       /\ h[i].target_id \in DOMAIN ns
       /\ ns[h[i].target_id].claim[1] = h[i].type
  /\ \A i, j \in Derived(h) : h[i].target_id = h[j].target_id => i = j
  /\ \A n \in DOMAIN ns : ns[n].claim[1] \in Marks => \E i \in Derived(h) : h[i].target_id = n

LEMMA ChronicleKept ==
  ASSUME NEW ns \in Seq(Hypotheses), NEW h, Chronicle(ns, h), NEW ms, Keeps(ns, ms)
  PROVE  Chronicle(ms, h)
  <1>1. PICK N \in Nat : N = Len(ns) /\ DOMAIN ns = 1..N
    BY LenProperties, Zenon
  <1>2. ms \in Seq(Hypotheses) /\ Len(ms) = N /\ \A i \in 1..N : ms[i].claim = ns[i].claim
    BY <1>1, Zenon DEF Keeps
  <1>3. DOMAIN ms = 1..N
    BY <1>2, LenProperties, Zenon
  <1>4. ASSUME NEW i \in Derived(h)
        PROVE  /\ h[i].hypothesis_id < h[i].target_id
               /\ h[i].target_id \in DOMAIN ms
               /\ ms[h[i].target_id].claim[1] = h[i].type
    <2>1. /\ h[i].hypothesis_id < h[i].target_id
          /\ h[i].target_id \in DOMAIN ns
          /\ ns[h[i].target_id].claim[1] = h[i].type
      BY Zenon DEF Chronicle
    <2>2. ms[h[i].target_id].claim = ns[h[i].target_id].claim
      BY <1>1, <1>2, <2>1, Zenon
    <2> QED
      BY <1>1, <1>3, <2>1, <2>2, Zenon
  <1>5. ASSUME NEW n \in DOMAIN ms, ms[n].claim[1] \in Marks
        PROVE  \E i \in Derived(h) : h[i].target_id = n
    <2>1. n \in DOMAIN ns /\ ns[n].claim[1] \in Marks
      BY <1>1, <1>2, <1>3, <1>5, Zenon
    <2> QED
      BY <2>1, Zenon DEF Chronicle
  <1> QED
    BY <1>4, <1>5, Zenon DEF Chronicle

\* g is the history h and one record more.
Continues(g, h, n, r) ==
  /\ g \in Seq(TransitionRecords) /\ Len(g) = n + 1 /\ DOMAIN g = 1..n + 1
  /\ g[n + 1] = r /\ \A i \in 1..n : g[i] = h[i]

LEMMA RecordedIs ==
  ASSUME NEW h \in Seq(TransitionRecords), NEW n \in Nat, n = Len(h),
         NEW type \in TransitionTypes, NEW id \in Nat, NEW target \in Nat
  PROVE  Continues(Recorded(h, type, id, target), h, n, Rec(type, id, target))
  <1>1. PICK r \in TransitionRecords : r = Rec(type, id, target)
    BY DEF Rec, TransitionRecords
  <1>2. Recorded(h, type, id, target) = Append(h, r)
    BY <1>1, Zenon DEF Recorded
  <1>3. PICK g : g = Append(h, r)
    OBVIOUS
  <1>4. /\ g \in Seq(TransitionRecords) /\ Len(g) = n + 1 /\ g[n + 1] = r
        /\ DOMAIN g = 1..n + 1
        /\ \A i \in 1..n : g[i] = h[i]
    BY <1>3
  <1>5. Continues(g, h, n, r)
    BY <1>4, Zenon DEF Continues
  <1> QED
    BY <1>1, <1>2, <1>3, <1>5, Zenon

LEMMA ChronicleNoted ==
  ASSUME NEW ns, NEW h, Chronicle(ns, h),
         NEW type \in TransitionTypes, type \notin Marks, NEW id \in Nat, NEW target \in Nat
  PROVE  /\ Chronicle(ns, Recorded(h, type, id, target))
         /\ Len(Recorded(h, type, id, target)) = Len(h) + 1
  <1>1. PICK g : g = Recorded(h, type, id, target)
    BY Zenon
  <1>2. h \in Seq(TransitionRecords)
    BY Zenon DEF Chronicle
  <1>3. PICK n \in Nat : n = Len(h) /\ DOMAIN h = 1..n
    BY <1>2, LenProperties, Zenon
  <1>4. /\ g \in Seq(TransitionRecords) /\ Len(g) = n + 1 /\ DOMAIN g = 1..n + 1
        /\ g[n + 1] = Rec(type, id, target) /\ \A i \in 1..n : g[i] = h[i]
    <2>1. Continues(g, h, n, Rec(type, id, target))
      BY <1>1, <1>2, <1>3, RecordedIs, Zenon
    <2> QED
      BY <2>1, Zenon DEF Continues
  <1>5. g[n + 1].type = type
    BY <1>4 DEF Rec
  <1>6. \A i \in 1..n + 1 : i \in 1..n \/ i = n + 1
    OBVIOUS
  <1>7. \A i \in 1..n : i \in 1..n + 1
    OBVIOUS
  <1>8. Derived(g) = Derived(h)
    <2>1. \A i : i \in Derived(g) <=> i \in Derived(h)
      BY <1>3, <1>4, <1>5, <1>6, <1>7, Zenon DEF Derived
    <2> QED
      BY <2>1, Zenon
  <1>9. \A i \in Derived(h) : g[i] = h[i]
    BY <1>3, <1>4, Zenon DEF Derived
  <1>10. Chronicle(ns, g)
    BY <1>4, <1>8, <1>9, Zenon DEF Chronicle
  <1>11. Len(g) = Len(h) + 1
    BY <1>3, <1>4, Zenon
  <1> QED
    BY <1>1, <1>10, <1>11, Zenon

LEMMA ChronicleMore ==
  ASSUME NEW ns \in Seq(Hypotheses), NEW h, Chronicle(ns, h),
         NEW claim \in Seq(Words), claim[1] \notin Marks, NEW prior \in 0..One
  PROVE  Chronicle(Added(ns, claim, prior), h)
  <1>1. PICK N \in Nat : N = Len(ns) /\ DOMAIN ns = 1..N
    BY LenProperties, Zenon
  <1>2. PICK ms : ms = Added(ns, claim, prior)
    BY Zenon
  <1>3. /\ ms \in Seq(Hypotheses) /\ Len(ms) = N + 1 /\ ms[N + 1].claim = claim
        /\ \A i \in 1..N : ms[i] = ns[i]
    <2>1. ms \in Seq(Hypotheses)
      BY <1>2, AddedIs, Zenon
    <2>2. Len(ms) = Len(ns) + 1
      BY <1>2, AddedIs, Zenon
    <2>3. ms[Len(ns) + 1].claim = claim
      BY <1>2, AddedIs, Zenon
    <2>4. \A i \in 1..Len(ns) : ms[i] = ns[i]
      BY <1>2, AddedIs, Zenon
    <2> QED
      BY <1>1, <2>1, <2>2, <2>3, <2>4, Zenon
  <1>4. DOMAIN ms = 1..N + 1 /\ \A i \in 1..N + 1 : i \in 1..N \/ i = N + 1
    BY <1>3, LenProperties
  <1>5. \A i \in 1..N : i \in 1..N + 1
    OBVIOUS
  <1>6. ASSUME NEW i \in Derived(h)
        PROVE  /\ h[i].hypothesis_id < h[i].target_id
               /\ h[i].target_id \in DOMAIN ms
               /\ ms[h[i].target_id].claim[1] = h[i].type
    <2>1. /\ h[i].hypothesis_id < h[i].target_id
          /\ h[i].target_id \in DOMAIN ns
          /\ ns[h[i].target_id].claim[1] = h[i].type
      BY Zenon DEF Chronicle
    <2> QED
      BY <1>1, <1>3, <1>4, <1>5, <2>1, Zenon
  <1>7. ASSUME NEW n \in DOMAIN ms, ms[n].claim[1] \in Marks
        PROVE  \E i \in Derived(h) : h[i].target_id = n
    <2>1. n \in DOMAIN ns /\ ns[n].claim[1] \in Marks
      BY <1>1, <1>3, <1>4, <1>7, Zenon
    <2> QED
      BY <2>1, Zenon DEF Chronicle
  <1>8. Chronicle(ms, h)
    BY <1>6, <1>7, Zenon DEF Chronicle
  <1> QED
    BY <1>2, <1>8, Zenon

LEMMA ChronicleDerived ==
  ASSUME NEW ns \in Seq(Hypotheses), NEW h, Chronicle(ns, h),
         NEW claim \in Seq(Words), NEW type \in Marks, claim[1] = type, NEW prior \in 0..One,
         NEW id \in 1..Len(ns), NEW n \in Nat, n = Len(h)
  PROVE  /\ Chronicle(Added(ns, claim, prior), Recorded(h, type, id, Len(ns) + 1))
         /\ Len(Recorded(h, type, id, Len(ns) + 1)) = n + 1
  <1>1. PICK N \in Nat : N = Len(ns) /\ DOMAIN ns = 1..N
    BY LenProperties, Zenon
  <1>2. PICK ms : ms = Added(ns, claim, prior)
    BY Zenon
  <1>3. /\ ms \in Seq(Hypotheses) /\ Len(ms) = N + 1 /\ ms[N + 1].claim = claim
        /\ \A i \in 1..N : ms[i] = ns[i]
    BY <1>1, <1>2, AddedIs, Zenon
  <1>4. DOMAIN ms = 1..N + 1 /\ \A i \in 1..N + 1 : i \in 1..N \/ i = N + 1
    BY <1>3, LenProperties
  <1>5. \A i \in 1..N : i \in 1..N + 1 /\ i # N + 1
    OBVIOUS
  <1>6. PICK g : g = Recorded(h, type, id, N + 1)
    BY Zenon
  <1>7. h \in Seq(TransitionRecords)
    BY Zenon DEF Chronicle
  <1>8. n = Len(h) /\ DOMAIN h = 1..n
    BY <1>7, LenProperties, Zenon
  <1>9. type \in TransitionTypes /\ id \in Nat /\ N + 1 \in Nat /\ id < N + 1 /\ N + 1 \in 1..N + 1
    <2>1. type \in TransitionTypes
      BY Zenon DEF TransitionTypes
    <2>2. id \in 1..N
      BY <1>1, Zenon
    <2>3. id \in Nat /\ N + 1 \in Nat /\ id < N + 1 /\ N + 1 \in 1..N + 1
      BY <2>2
    <2> QED
      BY <2>1, <2>3, Zenon
  <1>10. /\ g \in Seq(TransitionRecords) /\ Len(g) = n + 1 /\ DOMAIN g = 1..n + 1
         /\ g[n + 1] = Rec(type, id, N + 1) /\ \A i \in 1..n : g[i] = h[i]
    <2>1. Continues(g, h, n, Rec(type, id, N + 1))
      BY <1>6, <1>7, <1>8, <1>9, RecordedIs, Zenon
    <2> QED
      BY <2>1, Zenon DEF Continues
  <1>11. g[n + 1].type = type /\ g[n + 1].hypothesis_id = id /\ g[n + 1].target_id = N + 1
    BY <1>10 DEF Rec
  <1>12. /\ \A i \in 1..n + 1 : i \in 1..n \/ i = n + 1
         /\ \A i \in 1..n : i \in 1..n + 1
         /\ n + 1 \in 1..n + 1
    OBVIOUS
  <1>13. \A i : i \in Derived(g) <=> i \in Derived(h) \/ i = n + 1
    BY <1>8, <1>10, <1>11, <1>12, Zenon DEF Derived
  <1>14. \A i \in Derived(h) : g[i] = h[i]
    BY <1>8, <1>10, Zenon DEF Derived
  <1>15. ASSUME NEW i \in Derived(h)
         PROVE  /\ g[i].hypothesis_id < g[i].target_id
                /\ g[i].target_id \in 1..N
                /\ g[i].target_id \in DOMAIN ms
                /\ ms[g[i].target_id].claim[1] = g[i].type
    <2>1. /\ h[i].hypothesis_id < h[i].target_id
          /\ h[i].target_id \in DOMAIN ns
          /\ ns[h[i].target_id].claim[1] = h[i].type
      BY Zenon DEF Chronicle
    <2> QED
      BY <1>1, <1>3, <1>4, <1>5, <1>14, <2>1, Zenon
  <1>16. ASSUME NEW i \in Derived(g)
         PROVE  /\ g[i].hypothesis_id < g[i].target_id
                /\ g[i].target_id \in DOMAIN ms
                /\ ms[g[i].target_id].claim[1] = g[i].type
    <2>1. CASE i \in Derived(h)
      BY <1>15, <2>1, Zenon
    <2>2. CASE i = n + 1
      BY <1>3, <1>4, <1>9, <1>11, <2>2, Zenon
    <2> QED
      BY <1>13, <2>1, <2>2, Zenon
  <1>17. ASSUME NEW i \in Derived(g), NEW j \in Derived(g), g[i].target_id = g[j].target_id
         PROVE  i = j
    <2>1. CASE i \in Derived(h) /\ j \in Derived(h)
      BY <1>14, <1>17, <2>1, Zenon DEF Chronicle
    <2>2. CASE i \in Derived(h) /\ j = n + 1
      BY <1>5, <1>11, <1>15, <1>17, <2>2, Zenon
    <2>3. CASE j \in Derived(h) /\ i = n + 1
      BY <1>5, <1>11, <1>15, <1>17, <2>3, Zenon
    <2> QED
      BY <1>13, <2>1, <2>2, <2>3, Zenon
  <1>18. ASSUME NEW m \in DOMAIN ms, ms[m].claim[1] \in Marks
         PROVE  \E i \in Derived(g) : g[i].target_id = m
    <2>1. CASE m = N + 1
      BY <1>11, <1>13, <2>1, Zenon
    <2>2. CASE m \in 1..N
      <3>1. ns[m].claim[1] \in Marks
        BY <1>3, <1>18, <2>2, Zenon
      <3>2. PICK i \in Derived(h) : h[i].target_id = m
        BY <1>1, <2>2, <3>1, Zenon DEF Chronicle
      <3> QED
        BY <1>13, <1>14, <3>2, Zenon
    <2> QED
      BY <1>4, <2>1, <2>2, Zenon
  <1>19. Chronicle(ms, g)
    BY <1>10, <1>16, <1>17, <1>18, Zenon DEF Chronicle
  <1> QED
    BY <1>1, <1>2, <1>6, <1>8, <1>10, <1>19, Zenon
--------------------------------------------------------------------------------
(* The steps of the core.                                                  *)

Populated(ns) ==
  /\ ns \in Seq(Hypotheses) /\ Len(ns) <= Capacity
  /\ \A i \in 1..Len(ns) : Alive(ns[i])

\* The memory's patterns.
Stores(m) ==
  /\ m \in [Layers -> Seq(Patterns)]
  /\ Len(m["episodic"]) + Len(m["pattern"]) + Len(m["rule"]) + Len(m["counterexample"]) <= MaxPatterns

\* The history grows by a record or none, and is that of the hypotheses.
Grows(ms, g, n) == Populated(ms) /\ Chronicle(ms, g) /\ Len(g) <= n + 1

CoreInv ==
  /\ Populated(nodes) /\ Chronicle(nodes, history)
  /\ Stores(memory) /\ RouterTypeOK
  /\ solving \in [left : 0..MaxIterations, goal : BOOLEAN]
  /\ Len(history) + solving.left <= MaxRecords

LEMMA PopulatedKept ==
  ASSUME NEW ns, Populated(ns), NEW ms, Keeps(ns, ms)
  PROVE  Populated(ms)
  BY Zenon DEF Populated, Keeps

LEMMA PopulatedMore ==
  ASSUME NEW ns, Populated(ns), HasRoom(ns), NEW claim \in Seq(Words), NEW prior \in 0..One
  PROVE  Populated(Added(ns, claim, prior))
  <1>1. PICK N \in Nat : N = Len(ns) /\ ns \in Seq(Hypotheses)
    BY LenProperties, Zenon DEF Populated
  <1>2. PICK ms : ms = Added(ns, claim, prior)
    BY Zenon
  <1>3. /\ ms \in Seq(Hypotheses) /\ Len(ms) = N + 1 /\ Alive(ms[N + 1])
        /\ \A i \in 1..N : ms[i] = ns[i]
    BY <1>1, <1>2, AddedIs, Zenon
  <1>4. N + 1 <= Capacity
    BY <1>1, PopulationAssumption DEF HasRoom
  <1>5. \A i \in 1..N + 1 : i \in 1..N \/ i = N + 1
    OBVIOUS
  <1>6. \A i \in 1..N + 1 : Alive(ms[i])
    BY <1>1, <1>3, <1>5, Zenon DEF Populated
  <1> QED
    BY <1>2, <1>3, <1>4, <1>6, Zenon DEF Populated

\* What holds of an id of a hypothesis in use.
LEMMA InUse ==
  ASSUME Populated(nodes), NEW id, Has(id)
  PROVE  /\ id \in 1..Len(nodes) /\ id \in DOMAIN nodes /\ id \in Nat
         /\ nodes[id].used /\ nodes[id] \in Hypotheses
  <1>1. PICK N \in Nat : N = Len(nodes) /\ DOMAIN nodes = 1..N /\ nodes \in Seq(Hypotheses)
    BY LenProperties, Zenon DEF Populated
  <1>2. id \in 1..N /\ nodes[id].used
    BY <1>1, Zenon DEF Has, UsedIds, Ids
  <1>3. nodes[id] \in Hypotheses
    BY <1>1, <1>2, ElementOfSeq, Zenon
  <1>4. id \in Nat
    BY <1>2
  <1> QED
    BY <1>1, <1>2, <1>3, <1>4, Zenon

\* The lengths of the history.
LEMMA HistoryLength ==
  ASSUME CoreInv
  PROVE  \E n \in Nat : /\ n = Len(history) /\ n + solving.left <= MaxRecords
                        /\ solving.left \in Nat /\ history \in Seq(TransitionRecords)
  <1>1. history \in Seq(TransitionRecords) /\ Len(history) + solving.left <= MaxRecords
    BY Zenon DEF CoreInv, Chronicle
  <1>2. PICK n \in Nat : n = Len(history)
    BY <1>1, LenProperties, Zenon
  <1>3. solving.left \in Nat
    BY CoreAssumption DEF CoreInv
  <1>4. n + solving.left <= MaxRecords
    BY <1>1, <1>2, Zenon
  <1> WITNESS n \in Nat
  <1> QED
    BY <1>1, <1>2, <1>3, <1>4, Zenon

\* The records that leave everything else as it is.
LEMMA NotedGrows ==
  ASSUME NEW ns, Populated(ns), NEW h, Chronicle(ns, h), NEW n \in Nat, n = Len(h),
         NEW type \in TransitionTypes, type \notin Marks, NEW id \in Nat, NEW target \in Nat
  PROVE  Grows(ns, Recorded(h, type, id, target), n)
  <1>1. Len(Recorded(h, type, id, target)) = n + 1 /\ Chronicle(ns, Recorded(h, type, id, target))
    BY ChronicleNoted, Zenon
  <1>2. n + 1 <= n + 1
    OBVIOUS
  <1> QED
    BY <1>1, <1>2, Zenon DEF Grows

LEMMA StaysGrows ==
  ASSUME NEW ns, Populated(ns), NEW h, Chronicle(ns, h), NEW n \in Nat, n = Len(h)
  PROVE  Grows(ns, h, n)
  <1>1. n <= n + 1
    OBVIOUS
  <1> QED
    BY <1>1, Zenon DEF Grows

LEMMA GrowsKept ==
  ASSUME NEW ns, NEW h, NEW n, Grows(ns, h, n), NEW ms, Keeps(ns, ms)
  PROVE  Grows(ms, h, n)
  <1>1. ns \in Seq(Hypotheses)
    BY Zenon DEF Grows, Populated
  <1> QED
    BY <1>1, PopulatedKept, ChronicleKept, Zenon DEF Grows

\* Words that are not marks and types that are not.
LEMMA OtherTypes ==
  /\ {"strengthen", "weaken", "prune", "suspend", "reactivate", "stop"} \subseteq TransitionTypes
  /\ \A t \in {"strengthen", "weaken", "prune", "suspend", "reactivate", "stop"} : t \notin Marks
  /\ Marks \subseteq TransitionTypes /\ "branch" \in Marks /\ "merge" \in Marks
  BY DEF TransitionTypes, Marks

\* The two that record evidence.
LEMMA WeighedGrows ==
  ASSUME Populated(nodes), NEW h, Chronicle(nodes, h), NEW n \in Nat, n = Len(h), NEW id
  PROVE  Grows(nodes, Strengthened(h, id), n) /\ Grows(nodes, Weakened(h, id), n)
  <1>1. CASE Has(id)
    <2>1. id \in Nat /\ 0 \in Nat
      BY <1>1, InUse
    <2>2. /\ "strengthen" \in TransitionTypes /\ "strengthen" \notin Marks
          /\ "weaken" \in TransitionTypes /\ "weaken" \notin Marks
      BY OtherTypes
    <2>3. /\ Grows(nodes, Recorded(h, "strengthen", id, 0), n)
          /\ Grows(nodes, Recorded(h, "weaken", id, 0), n)
      BY <2>1, <2>2, NotedGrows, Zenon
    <2> QED
      BY <1>1, <2>3, Zenon DEF Strengthened, Weakened
  <1>2. CASE ~Has(id)
    <2>1. Grows(nodes, h, n)
      BY StaysGrows, Zenon
    <2> QED
      BY <1>2, <2>1, Zenon DEF Strengthened, Weakened
  <1> QED
    BY <1>1, <1>2, Zenon

\* A record makes the history longer by one.
LEMMA RecordedLength ==
  ASSUME NEW h \in Seq(TransitionRecords), NEW n, n = Len(h), NEW type, NEW id, NEW target
  PROVE  Len(Recorded(h, type, id, target)) = n + 1
  BY DEF Recorded

\* The first member of a concatenation.
LEMMA FirstStays ==
  ASSUME NEW S, NEW s \in Seq(S), NEW t \in Seq(S), Len(s) >= 1
  PROVE  s \o t \in Seq(S) /\ (s \o t)[1] = s[1]
  <1>1. Len(s) \in Nat /\ Len(t) \in Nat
    BY LenProperties, Zenon
  <1>2. 1 \in 1..Len(s) + Len(t)
    BY <1>1
  <1>3. /\ s \o t \in Seq(S)
        /\ \A i \in 1..Len(s) + Len(t) : (s \o t)[i] = IF i <= Len(s) THEN s[i] ELSE t[i - Len(s)]
    BY ConcatProperties, Zenon
  <1>4. 1 <= Len(s)
    BY <1>1
  <1> QED
    BY <1>2, <1>3, <1>4, Zenon

LEMMA FourFifths == \A x \in 0..One : (4 * x) \div 5 \in 0..One
  BY PopulationAssumption

LEMMA Halfway == \A x, y \in 0..One : (x + y) \div 2 \in 0..One
  BY PopulationAssumption

LEMMA BranchGrows ==
  ASSUME Populated(nodes), Chronicle(nodes, history), NEW n \in Nat, n = Len(history),
         NEW id, Has(id), HasRoom(nodes)
  PROVE  Grows(Added(nodes, <<"branch">> \o nodes[id].claim, (4 * nodes[id].prior_score) \div 5),
               Recorded(history, "branch", id, Len(nodes) + 1), n)
  <1>1. /\ nodes \in Seq(Hypotheses) /\ id \in 1..Len(nodes)
        /\ nodes[id].claim \in Seq(Words) /\ nodes[id].prior_score \in 0..One
    BY InUse, HypothesisFields, Zenon DEF Populated
  <1>2. PICK claim : claim = <<"branch">> \o nodes[id].claim
    OBVIOUS
  <1>3. PICK prior : prior = (4 * nodes[id].prior_score) \div 5
    OBVIOUS
  <1>4. claim \in Seq(Words) /\ claim[1] = "branch"
    <2>1. "branch" \in Words
      BY CoreAssumption, OtherTypes, Zenon
    <2> QED
      BY <1>1, <1>2, <2>1
  <1>5. prior \in 0..One
    <2>1. PICK x \in 0..One : x = nodes[id].prior_score
      BY <1>1, Zenon
    <2>2. prior = (4 * x) \div 5
      BY <1>3, <2>1, Zenon
    <2> QED
      BY <2>2, FourFifths, Zenon
  <1>6. "branch" \in Marks
    BY OtherTypes, Zenon
  <1>7. Populated(Added(nodes, claim, prior))
    BY <1>4, <1>5, PopulatedMore, Zenon
  <1>8. /\ Chronicle(Added(nodes, claim, prior), Recorded(history, "branch", id, Len(nodes) + 1))
        /\ Len(Recorded(history, "branch", id, Len(nodes) + 1)) = n + 1
    <2>1. PICK type \in Marks : type = "branch"
      BY <1>6, Zenon
    <2>2. claim[1] = type
      BY <1>4, <2>1, Zenon
    <2>3. /\ Chronicle(Added(nodes, claim, prior), Recorded(history, type, id, Len(nodes) + 1))
          /\ Len(Recorded(history, type, id, Len(nodes) + 1)) = n + 1
      <3>1. Chronicle(Added(nodes, claim, prior), Recorded(history, type, id, Len(nodes) + 1))
        BY <1>1, <1>4, <1>5, <2>2, ChronicleDerived, Zenon
      <3>2. history \in Seq(TransitionRecords)
        BY Zenon DEF Chronicle
      <3> QED
        <4>1. Len(Recorded(history, type, id, Len(nodes) + 1)) = n + 1
          BY <3>2, RecordedLength
        <4> QED
          BY <3>1, <4>1, Zenon
    <2> QED
      BY <2>1, <2>3, Zenon
  <1>9. n + 1 <= n + 1
    OBVIOUS
  <1> QED
    BY <1>2, <1>3, <1>7, <1>8, <1>9, Zenon DEF Grows

LEMMA MergeGrows ==
  ASSUME Populated(nodes), Chronicle(nodes, history), NEW n \in Nat, n = Len(history),
         NEW a, Has(a), NEW b, Has(b), HasRoom(nodes)
  PROVE  Grows(Pruned(Pruned(
                 Added(nodes, <<"merge">> \o nodes[a].claim \o nodes[b].claim,
                       (nodes[a].prior_score + nodes[b].prior_score) \div 2), a), b),
               Recorded(history, "merge", a, Len(nodes) + 1), n)
  <1>1. /\ nodes \in Seq(Hypotheses) /\ a \in 1..Len(nodes)
        /\ nodes[a].claim \in Seq(Words) /\ nodes[a].prior_score \in 0..One
        /\ nodes[b].claim \in Seq(Words) /\ nodes[b].prior_score \in 0..One
    BY InUse, HypothesisFields, Zenon DEF Populated
  <1>2. PICK claim : claim = <<"merge">> \o nodes[a].claim \o nodes[b].claim
    OBVIOUS
  <1>3. PICK prior : prior = (nodes[a].prior_score + nodes[b].prior_score) \div 2
    OBVIOUS
  <1>4. claim \in Seq(Words) /\ claim[1] = "merge"
    <2>1. "merge" \in Words
      BY CoreAssumption, OtherTypes, Zenon
    <2>2. PICK c : c = <<"merge">> \o nodes[a].claim
      OBVIOUS
    <2>3. c \in Seq(Words) /\ c[1] = "merge" /\ Len(c) >= 1 /\ Len(c) \in Nat
      BY <1>1, <2>1, <2>2
    <2>4. claim = c \o nodes[b].claim
      BY <1>2, <2>2
    <2>5. /\ c \o nodes[b].claim \in Seq(Words)
          /\ (c \o nodes[b].claim)[1] = c[1]
      BY <1>1, <2>3, FirstStays, Zenon
    <2> QED
      BY <2>3, <2>4, <2>5, Zenon
  <1>5. prior \in 0..One
    <2>1. PICK x \in 0..One, y \in 0..One : x = nodes[a].prior_score /\ y = nodes[b].prior_score
      BY <1>1, Zenon
    <2>2. prior = (x + y) \div 2
      BY <1>3, <2>1, Zenon
    <2> QED
      BY <2>2, Halfway, Zenon
  <1>6. "merge" \in Marks
    BY OtherTypes, Zenon
  <1>7. PICK ms : ms = Added(nodes, claim, prior)
    BY Zenon
  <1>8. PICK g : g = Recorded(history, "merge", a, Len(nodes) + 1)
    BY Zenon
  <1>9. Grows(ms, g, n)
    <2>1. Populated(ms)
      BY <1>4, <1>5, <1>7, PopulatedMore, Zenon
    <2>2. Chronicle(ms, g) /\ Len(g) = n + 1
      <3>1. PICK type \in Marks : type = "merge"
        BY <1>6, Zenon
      <3>2. claim[1] = type
        BY <1>4, <3>1, Zenon
      <3>3. /\ Chronicle(Added(nodes, claim, prior), Recorded(history, type, a, Len(nodes) + 1))
            /\ Len(Recorded(history, type, a, Len(nodes) + 1)) = n + 1
        <4>1. Chronicle(Added(nodes, claim, prior), Recorded(history, type, a, Len(nodes) + 1))
          BY <1>1, <1>4, <1>5, <3>2, ChronicleDerived, Zenon
        <4>2. history \in Seq(TransitionRecords)
          BY Zenon DEF Chronicle
        <4> QED
          <5>1. Len(Recorded(history, type, a, Len(nodes) + 1)) = n + 1
            BY <4>2, RecordedLength
          <5> QED
            BY <4>1, <5>1, Zenon
      <3> QED
        BY <1>7, <1>8, <3>1, <3>3, Zenon
    <2>3. n + 1 <= n + 1
      OBVIOUS
    <2> QED
      BY <2>1, <2>2, <2>3, Zenon DEF Grows
  <1>10. ms \in Seq(Hypotheses)
    BY <1>9, Zenon DEF Grows, Populated
  <1>11. Keeps(ms, Pruned(ms, a))
    BY <1>10, PrunedIs, Zenon
  <1>12. Pruned(ms, a) \in Seq(Hypotheses)
    BY <1>11, Zenon DEF Keeps
  <1>13. Keeps(Pruned(ms, a), Pruned(Pruned(ms, a), b))
    BY <1>12, PrunedIs, Zenon
  <1>14. Grows(Pruned(Pruned(ms, a), b), g, n)
    BY <1>9, <1>11, <1>13, GrowsKept, Zenon
  <1> QED
    BY <1>2, <1>3, <1>7, <1>8, <1>14, Zenon

\* What is left of the invariant when the memory and the router are not touched.
LEMMA GrowsOn ==
  ASSUME CoreInv, NEW n \in Nat, n = Len(history), Grows(nodes', history', n),
         memory' = memory, executors' = executors,
         solving' \in [left : 0..MaxIterations, goal : BOOLEAN],
         n + 1 + solving'.left <= MaxRecords
  PROVE  CoreInv'
  <1>1. Populated(nodes') /\ Chronicle(nodes', history') /\ Len(history') <= n + 1
    BY Zenon DEF Grows
  <1>2. Len(history') + solving'.left <= MaxRecords
    <2>1. history' \in Seq(TransitionRecords)
      BY <1>1, Zenon DEF Chronicle
    <2>2. Len(history') \in Nat
      BY <2>1, LenProperties, Zenon
    <2>3. solving'.left \in Nat
      BY CoreAssumption
    <2> QED
      BY <1>1, <2>2, <2>3, CoreAssumption
  <1>3. Stores(memory')
    BY Zenon DEF CoreInv
  <1>4. RouterTypeOK'
    BY Zenon DEF CoreInv, RouterTypeOK
  <1> QED
    BY <1>1, <1>2, <1>3, <1>4, Zenon DEF CoreInv

LEMMA TransitionGrows ==
  ASSUME CoreInv, NEW n \in Nat, n = Len(history), ApplyTransition
  PROVE  Grows(nodes', history', n)
  <1>1. Populated(nodes) /\ Chronicle(nodes, history)
    BY Zenon DEF CoreInv
  <1>2. ASSUME nodes' = nodes, history' = history PROVE Grows(nodes', history', n)
    BY <1>1, <1>2, StaysGrows, Zenon
  <1>3. ASSUME NEW id \in 1..Capacity, NEW type \in {"strengthen", "weaken"}, Reweigh(type, id)
        PROVE  Grows(nodes', history', n)
    <2>1. CASE Has(id)
      <3>1. nodes' = nodes /\ history' = Recorded(history, type, id, 0)
        BY <1>3, <2>1, Zenon DEF Reweigh, Succeeds
      <3>2. type \in TransitionTypes /\ type \notin Marks
        BY OtherTypes
      <3>3. id \in Nat /\ 0 \in Nat
        OBVIOUS
      <3> QED
        BY <1>1, <3>1, <3>2, <3>3, NotedGrows, Zenon
    <2>2. CASE ~Has(id)
      BY <1>2, <1>3, <2>2, Zenon DEF Reweigh, Refused
    <2> QED
      BY <2>1, <2>2, Zenon
  <1>4. ASSUME NEW id \in 1..Capacity, Branch(id)
        PROVE  Grows(nodes', history', n)
    <2>1. CASE Has(id) /\ HasRoom(nodes)
      BY <1>1, <1>4, <2>1, BranchGrows, Zenon DEF Branch, Succeeds
    <2>2. CASE ~(Has(id) /\ HasRoom(nodes))
      BY <1>2, <1>4, <2>2, Zenon DEF Branch, Refused
    <2> QED
      BY <2>1, <2>2, Zenon
  <1>5. ASSUME NEW a \in 1..Capacity, NEW b \in 1..Capacity, MergeOf(a, b)
        PROVE  Grows(nodes', history', n)
    <2>1. CASE Has(a) /\ Has(b) /\ HasRoom(nodes)
      BY <1>1, <1>5, <2>1, MergeGrows, Zenon DEF MergeOf, Succeeds
    <2>2. CASE ~(Has(a) /\ Has(b) /\ HasRoom(nodes))
      BY <1>2, <1>5, <2>2, Zenon DEF MergeOf, Refused, UnmergedLeft
    <2> QED
      BY <2>1, <2>2, Zenon
  <1>6. ASSUME NEW id \in 1..Capacity, PruneOf(id)
        PROVE  Grows(nodes', history', n)
    <2>1. CASE Has(id)
      <3>1. nodes' = Pruned(nodes, id) /\ history' = Recorded(history, "prune", id, 0)
        BY <1>6, <2>1, Zenon DEF PruneOf, Succeeds
      <3>2. "prune" \in TransitionTypes /\ "prune" \notin Marks
        BY OtherTypes
      <3>3. id \in Nat /\ 0 \in Nat
        OBVIOUS
      <3>4. Grows(nodes, Recorded(history, "prune", id, 0), n)
        BY <1>1, <3>2, <3>3, NotedGrows, Zenon
      <3>5. Keeps(nodes, Pruned(nodes, id))
        BY <1>1, PrunedIs, Zenon DEF Populated
      <3> QED
        BY <3>1, <3>4, <3>5, GrowsKept, Zenon
    <2>2. CASE ~Has(id)
      BY <1>2, <1>6, <2>2, Zenon DEF PruneOf, Refused
    <2> QED
      BY <2>1, <2>2, Zenon
  <1>7. ASSUME NEW type \in {"suspend", "reactivate", "stop"}, NEW id \in Nat, Noted(type, id)
        PROVE  Grows(nodes', history', n)
    <2>1. nodes' = nodes /\ history' = Recorded(history, type, id, 0)
      BY <1>7, Zenon DEF Noted, Succeeds
    <2>2. type \in TransitionTypes /\ type \notin Marks /\ 0 \in Nat
      BY OtherTypes
    <2> QED
      BY <1>1, <2>1, <2>2, NotedGrows, Zenon
  <1>8. Capacity \in Nat /\ 0 \in Nat
    BY PopulationAssumption
  <1>9. \/ \E id \in 1..Capacity, type \in {"strengthen", "weaken"} : Reweigh(type, id)
        \/ \E id \in 1..Capacity : Branch(id)
        \/ \E a, b \in 1..Capacity : MergeOf(a, b)
        \/ \E id \in 1..Capacity : PruneOf(id)
        \/ \E type \in {"suspend", "reactivate"} : Noted(type, Capacity)
        \/ Noted("stop", 0)
    BY Zenon DEF ApplyTransition
  <1>10. CASE \E id \in 1..Capacity, type \in {"strengthen", "weaken"} : Reweigh(type, id)
    BY <1>3, <1>10, Zenon
  <1>11. CASE \E type \in {"suspend", "reactivate"} : Noted(type, Capacity)
    BY <1>7, <1>8, <1>11, Zenon
  <1>12. CASE Noted("stop", 0)
    BY <1>7, <1>8, <1>12, Zenon
  <1> QED
    BY <1>4, <1>5, <1>6, <1>9, <1>10, <1>11, <1>12, Zenon

LEMMA ApplyTransitionKeeps == CoreInv /\ ApplyTransition => CoreInv'
  <1> SUFFICES ASSUME CoreInv, ApplyTransition PROVE CoreInv'
    OBVIOUS
  <1>1. PICK n \in Nat : n = Len(history)
    BY HistoryLength, Zenon
  <1>2. Grows(nodes', history', n)
    BY <1>1, TransitionGrows, Zenon
  <1>3. /\ memory' = memory /\ executors' = executors /\ solving' = solving
        /\ solving.left = 0 /\ n < MaxRecords
    BY <1>1 DEF ApplyTransition, AtRest
  <1>4. solving \in [left : 0..MaxIterations, goal : BOOLEAN]
    BY Zenon DEF CoreInv
  <1>5. n + 1 + solving'.left <= MaxRecords
    BY <1>3, CoreAssumption
  <1> QED
    BY <1>1, <1>2, <1>3, <1>4, <1>5, GrowsOn, Zenon

\* A pattern of a dimension the memory does not have.
LEMMA NotWritten ==
  ASSUME NEW m, NEW layer, NEW p, p.dim # Dim
  PROVE  Written(m, layer, p) = m
  BY Zenon DEF Written, Accepts

LEMMA EvidenceFitsIs ==
  ASSUME NEW e, EvidenceFits(e)
  PROVE  Fits(nodes, e)
  BY Zenon DEF EvidenceFits, Fits, Has, UsedIds, Ids

\* Evidence that is applied and the normalisation after it.
LEMMA AppliedKeeps ==
  ASSUME Populated(nodes), NEW e, e.weight \in Nat, Fits(nodes, e)
  PROVE  /\ Keeps(nodes, Normalized(WithEvidence(nodes, e)))
         /\ \A id : Has(id) => \E j \in 1..Len(nodes) : Normalized(WithEvidence(nodes, e))[j].used
  <1>1. nodes \in Seq(Hypotheses)
    BY Zenon DEF Populated
  <1>2. PICK ms : ms = WithEvidence(nodes, e)
    BY Zenon
  <1>3. Keeps(nodes, ms) /\ SameUse(nodes, ms)
    BY <1>1, <1>2, WithEvidenceIs, Zenon
  <1>4. ms \in Seq(Hypotheses) /\ Len(ms) = Len(nodes)
    BY <1>3, Zenon DEF Keeps
  <1>5. Keeps(ms, Normalized(ms))
    BY <1>4, NormalizedIs, Zenon
  <1>6. Keeps(nodes, Normalized(ms))
    BY <1>3, <1>5, KeepsOn, Zenon
  <1>7. ASSUME NEW id, Has(id)
        PROVE  \E j \in 1..Len(nodes) : Normalized(ms)[j].used
    <2>1. id \in 1..Len(nodes) /\ nodes[id].used
      BY <1>7, InUse, Zenon
    <2>2. ms[id].used /\ id \in 1..Len(ms)
      BY <1>3, <1>4, <2>1, Zenon DEF SameUse
    <2> QED
      BY <1>4, <2>2, SomethingStays, Zenon
  <1> QED
    BY <1>2, <1>6, <1>7, Zenon

LEMMA BringEvidenceKeeps == CoreInv /\ BringEvidence => CoreInv'
  <1> SUFFICES ASSUME CoreInv, BringEvidence PROVE CoreInv'
    OBVIOUS
  <1>1. PICK n \in Nat : n = Len(history)
    BY HistoryLength, Zenon
  <1>2. PICK e \in Evidence : EvidenceFits(e) /\ UpdateState(e)
    BY Zenon DEF BringEvidence
  <1>3. Populated(nodes) /\ Chronicle(nodes, history)
    BY Zenon DEF CoreInv
  <1>4. e.weight \in Nat /\ Fits(nodes, e)
    BY <1>2, CoreAssumption, PopulationAssumption, EvidenceFitsIs
  <1>5. Keeps(nodes, nodes')
    BY <1>2, <1>3, <1>4, AppliedKeeps, Zenon DEF UpdateState
  <1>6. \/ history' = Strengthened(history, e.hypothesis_id)
        \/ history' = Weakened(history, e.hypothesis_id)
        \/ history' = history
    BY <1>2 DEF UpdateState
  <1>7. Grows(nodes, history', n)
    BY <1>1, <1>3, <1>6, WeighedGrows, StaysGrows, Zenon
  <1>8. Grows(nodes', history', n)
    BY <1>5, <1>7, GrowsKept, Zenon
  <1>9. memory' = memory
    <2>1. memory' = Written(memory, "episodic", [input |-> "none", dim |-> 0, confidence |-> 0])
      BY <1>2, Zenon DEF UpdateState
    <2>2. [input |-> "none", dim |-> 0, confidence |-> 0].dim # Dim
      BY MemoryAssumption
    <2> QED
      BY <2>1, <2>2, NotWritten, Zenon
  <1>10. executors' = executors /\ solving' = solving /\ solving.left = 0 /\ n < MaxRecords
    BY <1>1 DEF BringEvidence, AtRest
  <1>11. solving \in [left : 0..MaxIterations, goal : BOOLEAN]
    BY Zenon DEF CoreInv
  <1>12. n + 1 + solving'.left <= MaxRecords
    BY <1>10, CoreAssumption
  <1> QED
    BY <1>1, <1>8, <1>9, <1>10, <1>11, <1>12, GrowsOn, Zenon

LEMMA SolveKeeps ==
  ASSUME CoreInv, NEW goal \in BOOLEAN, Solve(goal)
  PROVE  CoreInv'
  <1>1. /\ nodes' = nodes /\ memory' = memory /\ executors' = executors /\ history' = history
        /\ solving' = [left |-> MaxIterations, goal |-> goal]
        /\ Len(history) + MaxIterations <= MaxRecords
    BY Zenon DEF Solve
  <1>2. /\ solving' \in [left : 0..MaxIterations, goal : BOOLEAN]
        /\ solving'.left = MaxIterations
    BY <1>1, CoreAssumption
  <1> QED
    BY <1>1, <1>2, Zenon DEF CoreInv, RouterTypeOK

\* An iteration uses up one of those that are left.
LEMMA IteratedLeft ==
  ASSUME solving \in [left : 0..MaxIterations, goal : BOOLEAN], ~AtRest, Iterated
  PROVE  /\ solving' \in [left : 0..MaxIterations, goal : BOOLEAN]
         /\ solving'.left <= solving.left - 1 /\ solving'.left \in Nat /\ solving.left \in Nat
  <1>1. solving.left \in 1..MaxIterations /\ solving.goal \in BOOLEAN
    BY CoreAssumption DEF AtRest
  <1>2. CASE solving' = [solving EXCEPT !.left = @ - 1]
    BY <1>1, <1>2, CoreAssumption
  <1>3. CASE solving' = NotSolving
    BY <1>1, <1>3, CoreAssumption DEF NotSolving
  <1> QED
    BY <1>2, <1>3, Zenon DEF Iterated

LEMMA IterateStopsKeeps == CoreInv /\ IterateStops => CoreInv'
  <1> SUFFICES ASSUME CoreInv, IterateStops PROVE CoreInv'
    OBVIOUS
  <1>1. PICK n \in Nat : n = Len(history) /\ n + solving.left <= MaxRecords
    BY HistoryLength, Zenon
  <1>2. Populated(nodes) /\ Chronicle(nodes, history) /\ solving \in [left : 0..MaxIterations, goal : BOOLEAN]
    BY Zenon DEF CoreInv
  <1>3. /\ nodes' = nodes /\ memory' = memory /\ executors' = executors
        /\ ~AtRest /\ Iterated /\ history' = Recorded(history, "stop", 0, 0)
    BY Zenon DEF IterateStops
  <1>4. "stop" \in TransitionTypes /\ "stop" \notin Marks /\ 0 \in Nat
    BY OtherTypes
  <1>5. Grows(nodes', history', n)
    BY <1>1, <1>2, <1>3, <1>4, NotedGrows, Zenon
  <1>6. /\ solving' \in [left : 0..MaxIterations, goal : BOOLEAN]
        /\ solving'.left <= solving.left - 1 /\ solving'.left \in Nat /\ solving.left \in Nat
    BY <1>2, <1>3, IteratedLeft, Zenon
  <1>7. n + 1 + solving'.left <= MaxRecords
    BY <1>1, <1>6, CoreAssumption
  <1> QED
    BY <1>1, <1>3, <1>5, <1>6, <1>7, GrowsOn, Zenon

\* The bound on the evidence that a test brings.
LEMMA CappedFits ==
  ASSUME Populated(nodes), NEW id, NEW e, e = Gemma(id),
         NEW capped, capped = [e EXCEPT !.weight = IF EvidenceFits(e) THEN 1 ELSE 0]
  PROVE  capped.weight \in Nat /\ Fits(nodes, capped)
  <1>1. e.weight = 1 /\ e.hypothesis_id = id
    BY DEF Gemma
  <1>2. capped.hypothesis_id = id /\ capped.weight = IF EvidenceFits(e) THEN 1 ELSE 0
    BY DEF Gemma
  <1>3. CASE EvidenceFits(e)
    <2>1. capped.weight = e.weight /\ capped.hypothesis_id = e.hypothesis_id
      BY <1>1, <1>2, <1>3
    <2>2. Fits(nodes, e)
      BY <1>3, EvidenceFitsIs, Zenon
    <2>3. Fits(nodes, capped)
      BY <2>1, <2>2, Zenon DEF Fits
    <2> QED
      BY <1>2, <1>3, <2>3
  <1>4. CASE ~EvidenceFits(e)
    <2>1. capped.weight = 0
      BY <1>2, <1>4
    <2>2. ASSUME id \in DOMAIN nodes
          PROVE  nodes[id].support + 0 <= MaxEvidence /\ nodes[id].contradiction + 0 <= MaxEvidence
      <3>1. nodes[id] \in Hypotheses
        BY <2>2 DEF Populated
      <3> QED
        BY <3>1, HypothesisFields, PopulationAssumption
    <2>3. Fits(nodes, capped)
      BY <1>2, <2>1, <2>2, Zenon DEF Fits
    <2> QED
      BY <2>1, <2>3
  <1> QED
    BY <1>3, <1>4, Zenon

LEMMA IterateKeeps == CoreInv /\ Iterate => CoreInv'
  <1> SUFFICES ASSUME CoreInv, Iterate PROVE CoreInv'
    OBVIOUS
  <1>1. PICK n \in Nat : n = Len(history) /\ n + solving.left <= MaxRecords
    BY HistoryLength, Zenon
  <1>2. Populated(nodes) /\ Chronicle(nodes, history) /\ solving \in [left : 0..MaxIterations, goal : BOOLEAN]
    BY Zenon DEF CoreInv
  <1>3. PICK id : id = ChooseNext(Proposals)
    BY Zenon
  <1>4. PICK e : e = Gemma(id)
    BY Zenon
  <1>5. PICK capped : capped = [e EXCEPT !.weight = IF EvidenceFits(e) THEN 1 ELSE 0]
    BY Zenon
  <1>6. /\ nodes' = Normalized(WithEvidence(nodes, capped))
        /\ history' = IF ShouldStop(nodes') THEN Recorded(Strengthened(history, id), "stop", 0, 0)
                                            ELSE Strengthened(history, id)
        /\ ~AtRest /\ Iterated /\ memory' = memory /\ executors' = executors
    BY <1>3, <1>4, <1>5 DEF Iterate, Gemma
  <1>7. capped.weight \in Nat /\ Fits(nodes, capped)
    BY <1>2, <1>4, <1>5, CappedFits, Zenon
  <1>8. /\ Keeps(nodes, nodes')
        /\ Has(id) => \E j \in 1..Len(nodes) : nodes'[j].used
    BY <1>2, <1>6, <1>7, AppliedKeeps, Zenon
  <1>9. Populated(nodes')
    BY <1>2, <1>8, PopulatedKept, Zenon
  <1>10. Grows(nodes, history', n)
    <2>1. CASE Has(id)
      <3>1. PICK j \in 1..Len(nodes) : nodes'[j].used
        BY <1>8, <2>1, Zenon
      <3>2. Len(nodes') = Len(nodes) /\ nodes' \in Seq(Hypotheses)
        BY <1>8, Zenon DEF Keeps
      <3>3. j \in DOMAIN nodes' /\ nodes'[j].active
        BY <1>9, <3>1, <3>2, LenProperties, Zenon DEF Populated, Alive
      <3>4. ~ShouldStop(nodes')
        BY <3>1, <3>3, Zenon DEF ShouldStop
      <3>5. history' = Strengthened(history, id)
        BY <1>6, <3>4, Zenon
      <3> QED
        BY <1>1, <1>2, <3>5, WeighedGrows, Zenon
    <2>2. CASE ~Has(id)
      <3>1. history' = history \/ history' = Recorded(history, "stop", 0, 0)
        BY <1>6, <2>2, Zenon DEF Strengthened
      <3>2. "stop" \in TransitionTypes /\ "stop" \notin Marks /\ 0 \in Nat
        BY OtherTypes
      <3>3. Grows(nodes, Recorded(history, "stop", 0, 0), n)
        BY <1>1, <1>2, <3>2, NotedGrows, Zenon
      <3>4. Grows(nodes, history, n)
        BY <1>1, <1>2, StaysGrows, Zenon
      <3> QED
        BY <3>1, <3>3, <3>4, Zenon
    <2> QED
      BY <2>1, <2>2, Zenon
  <1>11. Grows(nodes', history', n)
    BY <1>8, <1>10, GrowsKept, Zenon
  <1>12. /\ solving' \in [left : 0..MaxIterations, goal : BOOLEAN]
         /\ solving'.left <= solving.left - 1 /\ solving'.left \in Nat /\ solving.left \in Nat
    BY <1>2, <1>6, IteratedLeft, Zenon
  <1>13. n + 1 + solving'.left <= MaxRecords
    BY <1>1, <1>12, CoreAssumption
  <1> QED
    BY <1>1, <1>6, <1>11, <1>12, <1>13, GrowsOn, Zenon

\* What is left of the invariant when only the population changes, the history of
\* which is the same.
LEMMA RenewedOn ==
  ASSUME CoreInv, Populated(nodes'), Chronicle(nodes', history),
         memory' = memory, executors' = executors, history' = history, solving' = solving
  PROVE  CoreInv'
  BY Zenon DEF CoreInv, RouterTypeOK

LEMMA KeepsRenewed ==
  ASSUME CoreInv, Keeps(nodes, nodes'),
         memory' = memory, executors' = executors, history' = history, solving' = solving
  PROVE  CoreInv'
  <1>1. nodes \in Seq(Hypotheses) /\ Populated(nodes) /\ Chronicle(nodes, history)
    BY Zenon DEF CoreInv, Populated
  <1>2. Populated(nodes') /\ Chronicle(nodes', history)
    BY <1>1, PopulatedKept, ChronicleKept, Zenon
  <1> QED
    BY <1>2, RenewedOn, Zenon

LEMMA AddKeeps == CoreInv /\ Add => CoreInv'
  <1> SUFFICES ASSUME CoreInv, Add PROVE CoreInv'
    OBVIOUS
  <1>1. /\ HasRoom(nodes)
        /\ memory' = memory /\ executors' = executors /\ history' = history /\ solving' = solving
    BY Zenon DEF Add
  <1>2. PICK c \in Claims, prior \in 0..One : nodes' = Added(nodes, c, prior)
    BY Zenon DEF Add
  <1>3. nodes \in Seq(Hypotheses) /\ Populated(nodes) /\ Chronicle(nodes, history)
    BY Zenon DEF CoreInv, Populated
  <1>4. c \in Seq(Words) /\ c[1] \notin Marks
    BY PopulationAssumption, CoreAssumption, Zenon
  <1>5. Populated(nodes')
    BY <1>1, <1>2, <1>3, <1>4, PopulatedMore, Zenon
  <1>6. Chronicle(nodes', history)
    BY <1>2, <1>3, <1>4, ChronicleMore, Zenon
  <1> QED
    BY <1>1, <1>5, <1>6, RenewedOn, Zenon

LEMMA MergeKeeps == CoreInv /\ Merge => CoreInv'
  <1> SUFFICES ASSUME CoreInv, Merge PROVE CoreInv'
    OBVIOUS
  <1>1. memory' = memory /\ executors' = executors /\ history' = history /\ solving' = solving
    BY Zenon DEF Merge
  <1>2. PICK a \in DOMAIN nodes, b \in DOMAIN nodes :
          /\ nodes[a].support + nodes[b].support <= MaxEvidence
          /\ nodes[a].contradiction + nodes[b].contradiction <= MaxEvidence
          /\ nodes' = Merged(nodes, a, b)
    BY Zenon DEF Merge, Ids
  <1>3. nodes \in Seq(Hypotheses)
    BY Zenon DEF CoreInv, Populated
  <1>4. Keeps(nodes, nodes')
    BY <1>2, <1>3, MergedIs, Zenon
  <1> QED
    BY <1>1, <1>4, KeepsRenewed, Zenon

LEMMA RemoveTopModeKeeps == CoreInv /\ RemoveTopMode => CoreInv'
  <1> SUFFICES ASSUME CoreInv, RemoveTopMode PROVE CoreInv'
    OBVIOUS
  <1>1. memory' = memory /\ executors' = executors /\ history' = history /\ solving' = solving
    BY Zenon DEF RemoveTopMode
  <1>2. nodes \in Seq(Hypotheses)
    BY Zenon DEF CoreInv, Populated
  <1>3. PICK id : id = FirstBest(Scanned, [i \in Scanned |-> Score(i)])
    BY Zenon
  <1>4. nodes' = nodes \/ nodes' = Pruned(nodes, id)
    BY <1>3, Zenon DEF RemoveTopMode
  <1>5. Keeps(nodes, nodes) /\ Keeps(nodes, Pruned(nodes, id))
    BY <1>2, KeepsAll, PrunedIs, Zenon
  <1>6. Keeps(nodes, nodes')
    BY <1>4, <1>5, Zenon
  <1> QED
    BY <1>1, <1>6, KeepsRenewed, Zenon

LEMMA ScramblePhasesKeeps == CoreInv /\ ScramblePhases => CoreInv'
  <1> SUFFICES ASSUME CoreInv, ScramblePhases PROVE CoreInv'
    OBVIOUS
  <1>1. /\ memory' = memory /\ executors' = executors /\ history' = history /\ solving' = solving
        /\ \A i \in Scanned : nodes[i].support < MaxEvidence
    BY Zenon DEF ScramblePhases
  <1>2. nodes \in Seq(Hypotheses)
    BY Zenon DEF CoreInv, Populated
  <1>3. nodes' = [i \in DOMAIN nodes |->
                    IF i \in Scanned THEN [nodes[i] EXCEPT !.support = @ + 1] ELSE nodes[i]]
    BY DEF ScramblePhases, Ids
  <1>4. PICK S : S = Scanned
    BY Zenon
  <1>5. nodes' = [i \in DOMAIN nodes |->
                    IF i \in S THEN [nodes[i] EXCEPT !.support = @ + 1] ELSE nodes[i]]
    BY <1>3, <1>4
  <1>6. Keeps(nodes, nodes')
    BY <1>1, <1>2, <1>4, <1>5, ScrambledIs
  <1> QED
    BY <1>1, <1>6, KeepsRenewed, Zenon

LEMMA FreezePopulationKeeps == CoreInv /\ FreezePopulation => CoreInv'
  <1> SUFFICES ASSUME CoreInv, FreezePopulation PROVE CoreInv'
    OBVIOUS
  <1>1. memory' = memory /\ executors' = executors /\ history' = history /\ solving' = solving
    BY Zenon DEF FreezePopulation
  <1>2. nodes \in Seq(Hypotheses)
    BY Zenon DEF CoreInv, Populated
  <1>3. PICK S \in SUBSET Scanned :
          nodes' = [i \in DOMAIN nodes |-> IF i \in Scanned \ S THEN Pruned(nodes, i)[i] ELSE nodes[i]]
    BY Zenon DEF FreezePopulation, Ids
  <1>4. PICK T : T = Scanned \ S
    BY Zenon
  <1>5. nodes' = [i \in DOMAIN nodes |-> IF i \in T THEN Pruned(nodes, i)[i] ELSE nodes[i]]
    BY <1>3, <1>4
  <1>6. Keeps(nodes, nodes')
    BY <1>2, <1>5, FrozenIs
  <1> QED
    BY <1>1, <1>6, KeepsRenewed, Zenon

\* The stores.
LEMMA NothingIsStored == Stores(NothingStored)
  <1>1. <<>> \in Seq(Patterns) /\ Len(<<>>) = 0
    BY EmptySeq
  <1>2. NothingStored \in [Layers -> Seq(Patterns)]
    BY <1>1, Zenon DEF NothingStored
  <1>3. /\ NothingStored["episodic"] = <<>> /\ NothingStored["pattern"] = <<>>
        /\ NothingStored["rule"] = <<>> /\ NothingStored["counterexample"] = <<>>
    BY DEF NothingStored, Layers
  <1> QED
    BY <1>1, <1>2, <1>3, MemoryAssumption DEF Stores

LEMMA WrittenStores ==
  ASSUME Stores(memory), NEW layer \in Layers, NEW p \in Patterns, Stored < MaxPatterns
  PROVE  Stores(Written(memory, layer, p))
  <1>1. PICK m : m = [memory EXCEPT ![layer] = Append(@, p)]
    OBVIOUS
  <1>2. /\ memory \in [Layers -> Seq(Patterns)]
        /\ Len(memory["episodic"]) + Len(memory["pattern"]) + Len(memory["rule"])
             + Len(memory["counterexample"]) < MaxPatterns
    BY Zenon DEF Stores, Stored
  <1>3. \A l \in Layers : memory[l] \in Seq(Patterns) /\ Len(memory[l]) \in Nat
    BY <1>2, LenProperties
  <1>4. /\ Append(memory[layer], p) \in Seq(Patterns)
        /\ Len(Append(memory[layer], p)) = Len(memory[layer]) + 1
    BY <1>3, AppendProperties
  <1>5. m \in [Layers -> Seq(Patterns)]
    BY <1>1, <1>2, <1>4
  <1>6. \A l \in Layers : Len(m[l]) = IF l = layer THEN Len(memory[l]) + 1 ELSE Len(memory[l])
    BY <1>1, <1>2, <1>4
  <1>7. Len(m["episodic"]) + Len(m["pattern"]) + Len(m["rule"]) + Len(m["counterexample"]) <= MaxPatterns
    <2>1. /\ "episodic" \in Layers /\ "pattern" \in Layers
          /\ "rule" \in Layers /\ "counterexample" \in Layers
      BY DEF Layers
    <2>2. /\ Len(memory["episodic"]) \in Nat /\ Len(memory["pattern"]) \in Nat
          /\ Len(memory["rule"]) \in Nat /\ Len(memory["counterexample"]) \in Nat
      BY <1>3, <2>1, Zenon
    <2>3. \A l \in Layers : l = layer => Len(m[l]) = Len(memory[l]) + 1
      BY <1>6, Zenon
    <2>4. \A l \in Layers : l # layer => Len(m[l]) = Len(memory[l])
      BY <1>6, Zenon
    <2>5. MaxPatterns \in Nat
      BY MemoryAssumption
    <2>6. PICK a \in Nat, b \in Nat, c \in Nat, d \in Nat :
             /\ a = Len(memory["episodic"]) /\ b = Len(memory["pattern"])
             /\ c = Len(memory["rule"]) /\ d = Len(memory["counterexample"])
      BY <2>2, Zenon
    <2>7. a + b + c + d < MaxPatterns
      BY <1>2, <2>6, Zenon
    <2>8. CASE layer = "episodic"
      <3>1. "pattern" # layer /\ "rule" # layer /\ "counterexample" # layer
        BY <2>8
      <3>2. /\ Len(m["episodic"]) = a + 1
            /\ Len(m["pattern"]) = b
            /\ Len(m["rule"]) = c
            /\ Len(m["counterexample"]) = d
        BY <2>1, <2>3, <2>4, <2>8, <2>6, <3>1, Zenon
      <3> QED
        BY <2>5, <2>7, <3>2
    <2>9. CASE layer = "pattern"
      <3>1. "episodic" # layer /\ "rule" # layer /\ "counterexample" # layer
        BY <2>9
      <3>2. /\ Len(m["episodic"]) = a
            /\ Len(m["pattern"]) = b + 1
            /\ Len(m["rule"]) = c
            /\ Len(m["counterexample"]) = d
        BY <2>1, <2>3, <2>4, <2>9, <2>6, <3>1, Zenon
      <3> QED
        BY <2>5, <2>7, <3>2
    <2>10. CASE layer = "rule"
      <3>1. "episodic" # layer /\ "pattern" # layer /\ "counterexample" # layer
        BY <2>10
      <3>2. /\ Len(m["episodic"]) = a
            /\ Len(m["pattern"]) = b
            /\ Len(m["rule"]) = c + 1
            /\ Len(m["counterexample"]) = d
        BY <2>1, <2>3, <2>4, <2>10, <2>6, <3>1, Zenon
      <3> QED
        BY <2>5, <2>7, <3>2
    <2>11. CASE layer = "counterexample"
      <3>1. "episodic" # layer /\ "pattern" # layer /\ "rule" # layer
        BY <2>11
      <3>2. /\ Len(m["episodic"]) = a
            /\ Len(m["pattern"]) = b
            /\ Len(m["rule"]) = c
            /\ Len(m["counterexample"]) = d + 1
        BY <2>1, <2>3, <2>4, <2>11, <2>6, <3>1, Zenon
      <3> QED
        BY <2>5, <2>7, <3>2
    <2> QED
      BY <2>8, <2>9, <2>10, <2>11 DEF Layers
  <1>8. Stores(m)
    BY <1>5, <1>7, Zenon DEF Stores
  <1>9. Written(memory, layer, p) = m \/ Written(memory, layer, p) = memory
    BY <1>1, Zenon DEF Written
  <1> QED
    BY <1>8, <1>9, Zenon

LEMMA ClearedStores ==
  ASSUME NEW m, Stores(m), NEW layer \in Layers
  PROVE  Stores(Cleared(m, layer))
  <1>1. PICK c1 : c1 = Cleared(m, layer)
    BY Zenon
  <1>2. c1 = [m EXCEPT ![layer] = <<>>]
    BY <1>1, Zenon DEF Cleared
  <1>3. m \in [Layers -> Seq(Patterns)]
    BY Zenon DEF Stores
  <1>4. <<>> \in Seq(Patterns) /\ Len(<<>>) = 0
    BY EmptySeq
  <1>5. c1 \in [Layers -> Seq(Patterns)]
    BY <1>2, <1>3, <1>4
  <1>6. \A l \in Layers : Len(m[l]) \in Nat /\ Len(c1[l]) \in Nat /\ Len(c1[l]) <= Len(m[l])
    <2> TAKE l \in Layers
    <2>1. Len(m[l]) \in Nat
      BY <1>3, LenProperties
    <2>2. Len(c1[l]) = Len(m[l]) \/ Len(c1[l]) = 0
      BY <1>2, <1>3, <1>4
    <2> QED
      BY <2>1, <2>2
  <1>7. /\ "episodic" \in Layers /\ "pattern" \in Layers
        /\ "rule" \in Layers /\ "counterexample" \in Layers
    BY DEF Layers
  <1>8. Len(c1["episodic"]) + Len(c1["pattern"]) + Len(c1["rule"]) + Len(c1["counterexample"]) <= MaxPatterns
    <2>1. Len(m["episodic"]) + Len(m["pattern"]) + Len(m["rule"]) + Len(m["counterexample"]) <= MaxPatterns
      BY Zenon DEF Stores
    <2>2. /\ Len(m["episodic"]) \in Nat /\ Len(c1["episodic"]) \in Nat /\ Len(c1["episodic"]) <= Len(m["episodic"])
          /\ Len(m["pattern"]) \in Nat /\ Len(c1["pattern"]) \in Nat /\ Len(c1["pattern"]) <= Len(m["pattern"])
          /\ Len(m["rule"]) \in Nat /\ Len(c1["rule"]) \in Nat /\ Len(c1["rule"]) <= Len(m["rule"])
          /\ Len(m["counterexample"]) \in Nat /\ Len(c1["counterexample"]) \in Nat
          /\ Len(c1["counterexample"]) <= Len(m["counterexample"])
      BY <1>6, <1>7, Zenon
    <2>3. MaxPatterns \in Nat
      BY MemoryAssumption
    <2> QED
      <3>1. PICK a \in Nat, b \in Nat, c \in Nat, d \in Nat :
              /\ a = Len(m["episodic"]) /\ b = Len(m["pattern"])
              /\ c = Len(m["rule"]) /\ d = Len(m["counterexample"])
        BY <2>2, Zenon
      <3>2. PICK x \in Nat, y \in Nat, z \in Nat, w \in Nat :
              /\ x = Len(c1["episodic"]) /\ y = Len(c1["pattern"])
              /\ z = Len(c1["rule"]) /\ w = Len(c1["counterexample"])
        BY <2>2, Zenon
      <3>3. a + b + c + d <= MaxPatterns /\ x <= a /\ y <= b /\ z <= c /\ w <= d
        BY <2>1, <2>2, <3>1, <3>2, Zenon
      <3>4. x + y + z + w <= MaxPatterns
        BY <2>3, <3>3
      <3> QED
        BY <3>2, <3>4, Zenon
  <1> QED
    BY <1>1, <1>5, <1>8, Zenon DEF Stores

Entries(es) == es \in Seq(ExecutorEntries)

LEMMA RegisteredEntries ==
  ASSUME NEW es, Entries(es), NEW x \in Executors
  PROVE  Entries(Registered(es, x))
  <1>1. PICK r : r = [id |-> x.id, capabilities |-> x.capabilities, worth |-> x.worth,
                      available |-> TRUE]
    OBVIOUS
  <1>2. r \in ExecutorEntries
    <2>1. x.worth \in Nat \ {0}
      BY RouterAssumption
    <2> QED
      BY <1>1, <2>1 DEF ExecutorEntries
  <1>3. Registered(es, x) = Append(es, r)
    BY <1>1, Zenon DEF Registered
  <1>4. Append(es, r) \in Seq(ExecutorEntries)
    <2>1. es \in Seq(ExecutorEntries)
      BY Zenon DEF Entries
    <2> QED
      BY <1>2, <2>1, AppendProperties
  <1> QED
    BY <1>3, <1>4, Zenon DEF Entries

LEMMA MarkedEntries ==
  ASSUME NEW es, Entries(es), NEW id, NEW available \in BOOLEAN
  PROVE  Entries(Marked(es, id, available))
  <1> DEFINE F == {i \in DOMAIN es : es[i].id = id}
  <1>1. CASE F = {}
    BY <1>1, Zenon DEF Marked
  <1>2. CASE F # {}
    <2>1. PICK N \in Nat : N = Len(es) /\ DOMAIN es = 1..N /\ es \in Seq(ExecutorEntries)
      BY LenProperties, Zenon DEF Entries
    <2>2. F \in SUBSET Nat
      BY <2>1
    <2>3. PICK j : j = Min(F)
      BY Zenon
    <2>4. j \in 1..Len(es)
      <3>1. j \in F
        <4> HIDE DEF F
        <4> QED
          BY <1>2, <2>2, <2>3, MinIsLeast, Zenon
      <3> QED
        BY <2>1, <3>1, Zenon
    <2>5. Marked(es, id, available) = [es EXCEPT ![j].available = available]
      BY <1>2, <2>3, Zenon DEF Marked
    <2>6. PICK y : y = [es[j] EXCEPT !.available = available]
      OBVIOUS
    <2>7. es[j] \in ExecutorEntries
      BY <2>1, <2>4, ElementOfSeq, Zenon
    <2>8. y \in ExecutorEntries
      BY <2>6, <2>7 DEF ExecutorEntries
    <2>9. [es EXCEPT ![j].available = available] = [es EXCEPT ![j] = y]
      BY <2>6
    <2>10. [es EXCEPT ![j] = y] \in Seq(ExecutorEntries)
      BY <2>1, <2>4, <2>8, ExceptSeq, Zenon
    <2> QED
      BY <2>5, <2>9, <2>10, Zenon DEF Entries
  <1> QED
    BY <1>1, <1>2, Zenon

\* The ids that are swapped out, one after the other.
IsSwapping(f, n) ==
  f = [id \in 0..n |-> IF id = 0 THEN executors ELSE Marked(f[id - 1], id, FALSE)]

LEMMA SwappingExists ==
  ASSUME RouterTypeOK, NEW n \in Nat
  PROVE  \E f \in [0..n -> Seq(ExecutorEntries)] : IsSwapping(f, n)
  <1> DEFINE X == Seq(ExecutorEntries)
             step == [i \in 1..n |-> [es \in X |-> Marked(es, i, FALSE)]]
  <1>1. AreSteps(step, X, n)
    <2>1. ASSUME NEW i \in 1..n, NEW es \in X
          PROVE  Marked(es, i, FALSE) \in X
      <3>1. FALSE \in BOOLEAN
        OBVIOUS
      <3> QED
        BY <3>1, MarkedEntries, Zenon DEF Entries
    <2> HIDE DEF X
    <2> QED
      BY <2>1, Zenon DEF AreSteps
  <1>2. executors \in X
    BY Zenon DEF RouterTypeOK
  <1>3. PICK f : Computes(f, X, executors, step, n)
    <2> HIDE DEF X, step
    <2> QED
      BY <1>1, <1>2, RecursionExists, Zenon
  <1>4. ASSUME NEW i \in 0..n, i # 0
        PROVE  step[i][f[i - 1]] = Marked(f[i - 1], i, FALSE)
    <2>1. i \in 1..n /\ i - 1 \in 0..n
      BY <1>4
    <2>2. f[i - 1] \in X
      BY <1>3, <2>1, Zenon DEF Computes
    <2> HIDE DEF X
    <2> QED
      BY <2>1, <2>2, Zenon
  <1> HIDE DEF step
  <1> QED
    BY <1>3, <1>4, Zenon DEF IsSwapping, Computes

\* What is left of the invariant when only the stores change.
LEMMA StoredOn ==
  ASSUME CoreInv, nodes' = nodes, history' = history, solving' = solving,
         Stores(memory'), Entries(executors')
  PROVE  CoreInv'
  BY Zenon DEF CoreInv, RouterTypeOK, Entries

LEMMA WriteKeeps == CoreInv /\ (Write \/ InjectCounterexample) => CoreInv'
  <1> SUFFICES ASSUME CoreInv, Write \/ InjectCounterexample PROVE CoreInv'
    OBVIOUS
  <1>1. /\ nodes' = nodes /\ executors' = executors /\ history' = history /\ solving' = solving
        /\ Stored < MaxPatterns
    BY Zenon DEF Write, InjectCounterexample
  <1>2. "counterexample" \in Layers
    BY DEF Layers
  <1>3. PICK layer \in Layers, p \in Patterns : memory' = Written(memory, layer, p)
    BY <1>2, Zenon DEF Write, InjectCounterexample
  <1>4. Stores(memory) /\ Entries(executors)
    BY Zenon DEF CoreInv, RouterTypeOK, Entries
  <1>5. Stores(memory')
    BY <1>1, <1>3, <1>4, WrittenStores, Zenon
  <1>6. Entries(executors')
    BY <1>1, <1>4, Zenon
  <1> QED
    BY <1>1, <1>5, <1>6, StoredOn, Zenon

LEMMA DisableMemoryKeeps == CoreInv /\ DisableMemory => CoreInv'
  <1> SUFFICES ASSUME CoreInv, DisableMemory PROVE CoreInv'
    OBVIOUS
  <1>1. /\ nodes' = nodes /\ executors' = executors /\ history' = history /\ solving' = solving
        /\ memory' = Cleared(Cleared(Cleared(Cleared(memory, "episodic"), "pattern"),
                                     "rule"), "counterexample")
    BY Zenon DEF DisableMemory
  <1>2. /\ "episodic" \in Layers /\ "pattern" \in Layers
        /\ "rule" \in Layers /\ "counterexample" \in Layers
    BY DEF Layers
  <1>3. Stores(memory) /\ Entries(executors)
    BY Zenon DEF CoreInv, RouterTypeOK, Entries
  <1>4. Stores(memory')
    BY <1>1, <1>2, <1>3, ClearedStores, Zenon
  <1>5. Entries(executors')
    BY <1>1, <1>3, Zenon
  <1> QED
    BY <1>1, <1>4, <1>5, StoredOn, Zenon

LEMMA RouterStepKeeps == CoreInv /\ (Register \/ Mark \/ SwapRouter) => CoreInv'
  <1> SUFFICES ASSUME CoreInv, Register \/ Mark \/ SwapRouter PROVE CoreInv'
    OBVIOUS
  <1>1. nodes' = nodes /\ memory' = memory /\ history' = history /\ solving' = solving
    BY Zenon DEF Register, Mark, SwapRouter
  <1>2. Stores(memory) /\ Entries(executors) /\ RouterTypeOK
    BY Zenon DEF CoreInv, RouterTypeOK, Entries
  <1>3. Stores(memory')
    BY <1>1, <1>2, Zenon
  <1>4. Entries(executors')
    <2>1. CASE Register
      <3>1. PICK x \in Executors : executors' = Registered(executors, x)
        BY <2>1, Zenon DEF Register
      <3> QED
        BY <1>2, <3>1, RegisteredEntries, Zenon
    <2>2. CASE Mark
      <3>1. PICK x \in Executors, available \in BOOLEAN : executors' = Marked(executors, x.id, available)
        BY <2>2, Zenon DEF Mark
      <3> QED
        BY <1>2, <3>1, MarkedEntries, Zenon
    <2>3. CASE SwapRouter
      <3> DEFINE f == CHOOSE g : IsSwapping(g, 10)
      <3>1. 10 \in Nat /\ 10 \in 0..10
        OBVIOUS
      <3>2. PICK g \in [0..10 -> Seq(ExecutorEntries)] : IsSwapping(g, 10)
        BY <1>2, <3>1, SwappingExists, Zenon
      <3>3. IsSwapping(f, 10)
        BY <3>2, Zenon
      <3>4. executors' = f[10]
        BY <2>3, Zenon DEF SwapRouter, IsSwapping
      <3> HIDE DEF f
      <3> DEFINE P == {i \in 0..10 : Entries(f[i])}
      <3>5. 0 \in P
        <4>1. 0 \in 0..10
          OBVIOUS
        <4>2. f[0] = executors
          BY <3>3, <4>1, Zenon DEF IsSwapping
        <4> QED
          BY <1>2, <4>1, <4>2, Zenon
      <3>6. ASSUME NEW i \in 0..10 - 1, i \in P PROVE i + 1 \in P
        <4>1. i + 1 \in 0..10 /\ i + 1 # 0 /\ (i + 1) - 1 = i /\ FALSE \in BOOLEAN
          OBVIOUS
        <4>2. f[i + 1] = Marked(f[i], i + 1, FALSE)
          BY <3>3, <4>1, Zenon DEF IsSwapping
        <4>3. Entries(f[i])
          BY <3>6, Zenon
        <4> QED
          BY <4>1, <4>2, <4>3, MarkedEntries, Zenon
      <3>7. 10 \in P
        <4> HIDE DEF P
        <4> QED
          BY <3>1, <3>5, <3>6, InductionUpTo
      <3> QED
        BY <3>4, <3>7, Zenon
    <2> QED
      BY <2>1, <2>2, <2>3, Zenon
  <1> QED
    BY <1>1, <1>3, <1>4, StoredOn, Zenon

\* An engine that was just created.
LEMMA NothingProposed == Populated(<<>>) /\ Chronicle(<<>>, <<>>)
  <1>1. /\ <<>> \in Seq(Hypotheses) /\ <<>> \in Seq(TransitionRecords) /\ Len(<<>>) = 0
        /\ DOMAIN <<>> = {}
    BY EmptySeq
  <1>2. 1..Len(<<>>) = {}
    BY <1>1
  <1>3. Len(<<>>) <= Capacity
    BY <1>1, PopulationAssumption
  <1>4. Derived(<<>>) = {}
    BY <1>1, Zenon DEF Derived
  <1> QED
    BY <1>1, <1>2, <1>3, <1>4, Zenon DEF Populated, Chronicle

LEMMA CreatedIs ==
  /\ Populated(<<>>) /\ Chronicle(<<>>, <<>>) /\ Stores(NothingStored) /\ Entries(<<>>)
  /\ NotSolving \in [left : 0..MaxIterations, goal : BOOLEAN]
  /\ Len(<<>>) + NotSolving.left <= MaxRecords
  <1>1. Entries(<<>>)
    BY EmptySeq, Zenon DEF Entries
  <1>2. /\ NotSolving \in [left : 0..MaxIterations, goal : BOOLEAN]
        /\ Len(<<>>) + NotSolving.left <= MaxRecords
    BY CoreAssumption, EmptySeq DEF NotSolving
  <1> QED
    BY <1>1, <1>2, NothingProposed, NothingIsStored, Zenon

LEMMA CoreInitHolds == CoreInit => CoreInv
  BY CreatedIs, Zenon DEF CoreInit, CoreInv, RouterTypeOK, Entries

LEMMA RecreateKeeps == CoreInv /\ Recreate => CoreInv'
  BY CreatedIs, Zenon DEF Recreate, CoreInv, RouterTypeOK, Entries

LEMMA SameCoreKeeps == CoreInv /\ UNCHANGED coreVars => CoreInv'
  <1> SUFFICES ASSUME CoreInv, UNCHANGED coreVars PROVE CoreInv'
    OBVIOUS
  <1>1. /\ nodes' = nodes /\ memory' = memory /\ executors' = executors
        /\ history' = history /\ solving' = solving
    BY DEF coreVars
  <1> QED
    BY <1>1, Zenon DEF CoreInv, RouterTypeOK

LEMMA OwnerStepKeeps == CoreInv /\ OwnerStep => CoreInv'
  <1>1. ASSUME CoreInv, NEW goal \in BOOLEAN, Solve(goal) PROVE CoreInv'
    BY <1>1, SolveKeeps, Zenon
  <1> QED
    BY <1>1, ApplyTransitionKeeps, BringEvidenceKeeps, AddKeeps, MergeKeeps, RecreateKeeps,
       RemoveTopModeKeeps, ScramblePhasesKeeps, FreezePopulationKeeps, Zenon DEF OwnerStep

LEMMA StoreStepKeeps == CoreInv /\ StoreStep => CoreInv'
  BY WriteKeeps, RouterStepKeeps, DisableMemoryKeeps, RecreateKeeps, Zenon DEF StoreStep

LEMMA SolveStepKeeps == CoreInv /\ SolveStep => CoreInv'
  BY IterateStopsKeeps, IterateKeeps, Zenon DEF SolveStep

\* What the invariant of the core says.
LEMMA CoreIsRight ==
  ASSUME CoreInv
  PROVE  CoreTypeOK /\ InUseIsAlive /\ LineageIsRecorded
  <1>1. PICK N \in Nat : N = Len(nodes) /\ DOMAIN nodes = 1..N /\ nodes \in Seq(Hypotheses)
    BY LenProperties, Zenon DEF CoreInv, Populated
  <1>2. /\ N <= Capacity /\ \A i \in 1..N : Alive(nodes[i])
    BY <1>1, Zenon DEF CoreInv, Populated
  <1>3. MemoryTypeOK
    BY Zenon DEF CoreInv, Stores, MemoryTypeOK, Stored
  <1>4. PopulationTypeOK
    BY <1>1, <1>2, Zenon DEF PopulationTypeOK
  <1>5. CoreTypeOK
    BY <1>3, <1>4, Zenon DEF CoreInv, CoreTypeOK, Chronicle
  <1>6. \A i \in UsedIds : nodes[i].active /\ ~nodes[i].freed
    BY <1>1, <1>2, Zenon DEF UsedIds, Ids, Alive
  <1>7. DormantCount = 0
    <2>1. {i \in UsedIds : ~nodes[i].active} = {}
      BY <1>6, Zenon
    <2> QED
      BY <2>1, FS_EmptySet, Zenon DEF DormantCount
  <1>8. LineageIsRecorded
    <2>1. Derivations = Derived(history)
      BY Zenon DEF Derivations, Derived
    <2>2. Chronicle(nodes, history)
      BY Zenon DEF CoreInv
    <2> QED
      BY <2>1, <2>2, Zenon DEF LineageIsRecorded, Chronicle, Ids
  <1> QED
    BY <1>5, <1>6, <1>7, <1>8, Zenon DEF InUseIsAlive

--------------------------------------------------------------------------------
(* The agent's conversation.                                               *)

\* e is the last k of s.
IsEnd(e, s, k) ==
  /\ e \in Seq(Turns) /\ Len(e) = k /\ k <= Len(s)
  /\ \A i \in 1..k : e[i] = s[Len(s) - k + i]

LEMMA LastOfIs ==
  ASSUME NEW s \in Seq(Turns), NEW n \in Nat, NEW L \in Nat, L = Len(s)
  PROVE  IsEnd(LastOf(s, n), s, IF n <= L THEN n ELSE L)
  <1>1. DOMAIN s = 1..L
    BY LenProperties, Zenon
  <1>2. PICK m \in Int : m = IF 1 >= L - n + 1 THEN 1 ELSE L - n + 1
    OBVIOUS
  <1>3. m = Max({1, L - n + 1})
    <2>1. 1 \in Int /\ L - n + 1 \in Int
      OBVIOUS
    <2> QED
      BY <1>2, <2>1, MaxOfTwo, Zenon
  <1>4. LastOf(s, n) = SubSeq(s, m, L)
    BY <1>3, Zenon DEF LastOf
  <1>5. \A i \in m..L : s[i] \in Turns
    <2>1. \A i \in m..L : i \in 1..L
      BY <1>2
    <2> QED
      BY <1>1, <2>1, ElementOfSeq, Zenon
  <1>6. /\ SubSeq(s, m, L) \in Seq(Turns)
        /\ Len(SubSeq(s, m, L)) = IF m <= L THEN L - m + 1 ELSE 0
        /\ \A i \in 1..L - m + 1 : SubSeq(s, m, L)[i] = s[m + i - 1]
    <2>1. L \in Int
      OBVIOUS
    <2> QED
      BY <1>5, <2>1, SubSeqProperties, SMT
  <1>7. PICK e : e = SubSeq(s, m, L)
    BY Zenon
  <1>8. PICK k \in Nat : k = IF n <= L THEN n ELSE L
    OBVIOUS
  <1>9. Len(e) = k /\ k <= L /\ \A i \in 1..k : i \in 1..L - m + 1 /\ m + i - 1 = L - k + i
    <2>1. m = L - k + 1 /\ k <= L
      <3>1. CASE n <= L
        <4>1. k = n /\ m = L - n + 1
          BY <1>2, <1>8, <3>1
        <4> QED
          BY <3>1, <4>1
      <3>2. CASE n > L
        <4>1. k = L /\ m = 1
          BY <1>2, <1>8, <3>2
        <4> QED
          BY <4>1
      <3> QED
        BY <3>1, <3>2
    <2>2. Len(e) = IF m <= L THEN L - m + 1 ELSE 0
      BY <1>6, <1>7, Zenon
    <2>3. Len(e) = k
      BY <2>1, <2>2
    <2>4. \A i \in 1..k : i \in 1..L - m + 1 /\ m + i - 1 = L - k + i
      BY <2>1
    <2> QED
      BY <2>1, <2>3, <2>4, Zenon
  <1>10. \A i \in 1..k : e[i] = s[L - k + i]
    BY <1>6, <1>7, <1>9, Zenon
  <1>11. IsEnd(e, s, k)
    BY <1>6, <1>7, <1>9, <1>10, Zenon DEF IsEnd
  <1> QED
    BY <1>4, <1>7, <1>8, <1>11, Zenon

LEMMA OneEnd ==
  ASSUME NEW s, NEW k, NEW d, IsEnd(d, s, k), NEW e, IsEnd(e, s, k)
  PROVE  d = e
  <1>1. \A i \in 1..Len(d) : d[i] = e[i]
    BY Zenon DEF IsEnd
  <1> QED
    BY <1>1, SeqEqual, Zenon DEF IsEnd

\* The last of the last are the last.
LEMMA LastOfLast ==
  ASSUME NEW s \in Seq(Turns), NEW m \in Nat, NEW n \in Nat
  PROVE  LastOf(LastOf(s, m), n) = LastOf(s, Min({n, m}))
  <1>1. PICK L \in Nat : L = Len(s)
    BY LenProperties, Zenon
  <1>2. PICK k \in Nat : k = IF m <= L THEN m ELSE L
    OBVIOUS
  <1>3. PICK e : e = LastOf(s, m)
    BY Zenon
  <1>4. IsEnd(e, s, k)
    BY <1>1, <1>2, <1>3, LastOfIs, Zenon
  <1>5. e \in Seq(Turns) /\ Len(e) = k /\ \A i \in 1..k : e[i] = s[L - k + i]
    BY <1>1, <1>4, Zenon DEF IsEnd
  <1>6. PICK j \in Nat : j = IF n <= k THEN n ELSE k
    OBVIOUS
  <1>7. PICK d : d = LastOf(e, n)
    BY Zenon
  <1>8. IsEnd(d, e, j)
    BY <1>5, <1>6, <1>7, LastOfIs, Zenon
  <1>9. d \in Seq(Turns) /\ Len(d) = j /\ \A i \in 1..j : d[i] = e[k - j + i]
    BY <1>5, <1>8, Zenon DEF IsEnd
  <1>10. \A i \in 1..j : k - j + i \in 1..k /\ L - k + (k - j + i) = L - j + i
    <2> TAKE i \in 1..j
    <2>1. j <= k /\ i \in Int
      BY <1>6
    <2>2. k - j + i \in 1..k
      BY <2>1
    <2>3. L - k + (k - j + i) = L - j + i
      BY <2>1
    <2> QED
      BY <2>2, <2>3
  <1>11. \A i \in 1..j : d[i] = s[L - j + i]
    <2> TAKE i \in 1..j
    <2>1. PICK p \in 1..k : p = k - j + i /\ L - k + p = L - j + i
      BY <1>10, Zenon
    <2>2. d[i] = e[p]
      BY <1>9, <2>1, Zenon
    <2>3. e[p] = s[L - k + p]
      BY <1>5, Zenon
    <2> QED
      BY <2>1, <2>2, <2>3, Zenon
  <1>12. j <= L
    BY <1>2, <1>6
  <1>13. IsEnd(d, s, j)
    BY <1>1, <1>9, <1>11, <1>12, Zenon DEF IsEnd
  <1>14. PICK o \in Nat : o = IF n <= m THEN n ELSE m
    OBVIOUS
  <1>15. o = Min({n, m})
    <2>1. n \in Int /\ m \in Int
      OBVIOUS
    <2> QED
      BY <1>14, <2>1, MinOfTwo, Zenon
  <1>16. j = IF o <= L THEN o ELSE L
    BY <1>2, <1>6, <1>14
  <1>17. IsEnd(LastOf(s, o), s, j)
    BY <1>1, <1>16, LastOfIs, Zenon
  <1> QED
    BY <1>3, <1>7, <1>13, <1>15, <1>17, OneEnd, Zenon

\* A turn is pushed onto the last turns.
LEMMA PushedIs ==
  ASSUME NEW s \in Seq(Turns), NEW t \in Turns
  PROVE  /\ Pushed(LastOf(s, MaxHistory), t) = LastOf(Append(s, t), MaxHistory)
         /\ Append(s, t) \in Seq(Turns) /\ Len(Append(s, t)) = Len(s) + 1
  <1>1. PICK L \in Nat : L = Len(s)
    BY LenProperties, Zenon
  <1>2. MaxHistory \in Nat /\ MaxHistory # 0
    BY AgentAssumption
  <1>3. PICK k \in Nat : k = IF MaxHistory <= L THEN MaxHistory ELSE L
    BY <1>2
  <1>4. PICK e : e = LastOf(s, MaxHistory)
    BY Zenon
  <1>5. IsEnd(e, s, k)
    BY <1>1, <1>2, <1>3, <1>4, LastOfIs, Zenon
  <1>6. e \in Seq(Turns) /\ Len(e) = k /\ \A i \in 1..k : e[i] = s[L - k + i]
    BY <1>1, <1>5, Zenon DEF IsEnd
  <1>7. PICK g : g = Append(s, t)
    BY Zenon
  <1>8. /\ g \in Seq(Turns) /\ Len(g) = L + 1 /\ g[L + 1] = t
        /\ \A i \in 1..L : g[i] = s[i]
    BY <1>1, <1>7, AppendProperties
  <1>9. PICK l \in Nat : l = IF MaxHistory <= L + 1 THEN MaxHistory ELSE L + 1
    BY <1>2
  <1>10. IsEnd(LastOf(g, MaxHistory), g, l)
    <2>1. L + 1 \in Nat
      OBVIOUS
    <2> QED
      BY <1>2, <1>8, <1>9, <2>1, LastOfIs, Zenon
  \* What is left of the last turns when there is room for one more.
  <1>11. PICK r : r = IF Len(e) >= MaxHistory THEN Tail(e) ELSE e
    OBVIOUS
  <1>12. r \in Seq(Turns) /\ Len(r) = l - 1 /\ \A i \in 1..l - 1 : r[i] = s[L + 1 - l + i]
    <2>1. CASE k >= MaxHistory
      <3>1. k = MaxHistory /\ l = MaxHistory /\ k # 0 /\ r = Tail(e)
        BY <1>2, <1>3, <1>6, <1>9, <1>11, <2>1
      <3>2. e # <<>>
        BY <1>6, <3>1, EmptySeq
      <3>3. /\ Tail(e) \in Seq(Turns) /\ Len(Tail(e)) = Len(e) - 1
            /\ \A i \in 1..Len(Tail(e)) : Tail(e)[i] = e[i + 1]
        BY <1>6, <3>2, HeadTailProperties
      <3>4. r \in Seq(Turns) /\ Len(r) = k - 1 /\ \A i \in 1..k - 1 : r[i] = e[i + 1]
        BY <1>6, <3>1, <3>3, Zenon
      <3>5. \A i \in 1..k - 1 : i + 1 \in 1..k /\ L - k + (i + 1) = L + 1 - k + i
        OBVIOUS
      <3>6. \A i \in 1..k - 1 : r[i] = s[L + 1 - k + i]
        BY <1>6, <3>4, <3>5, Zenon
      <3>7. l = k
        BY <3>1, Zenon
      <3> QED
        BY <3>4, <3>6, <3>7, Zenon
    <2>2. CASE k < MaxHistory
      <3>1. k = L /\ l - 1 = k /\ r = e
        BY <1>2, <1>3, <1>6, <1>9, <1>11, <2>2
      <3>2. \A i \in 1..k : L - k + i = L + 1 - l + i
        BY <3>1
      <3>3. \A i \in 1..k : e[i] = s[L + 1 - l + i]
        BY <1>6, <3>2, Zenon
      <3> QED
        BY <1>6, <3>1, <3>3, Zenon
    <2> QED
      BY <1>2, <2>1, <2>2
  <1>13. PICK d : d = Append(r, t)
    BY Zenon
  <1>14. l - 1 \in Nat /\ l <= L + 1 /\ (l - 1) + 1 = l
    BY <1>2, <1>9
  <1>15. /\ d \in Seq(Turns) /\ Len(d) = l /\ d[l] = t
         /\ \A i \in 1..l - 1 : d[i] = r[i]
    <2>1. /\ d \in Seq(Turns) /\ Len(d) = Len(r) + 1 /\ d[Len(r) + 1] = t
          /\ \A i \in 1..Len(r) : d[i] = r[i]
      <3>1. r \in Seq(Turns)
        BY <1>12, Zenon
      <3> QED
        BY <1>13, <3>1, AppendProperties
    <2> QED
      BY <1>12, <1>14, <2>1, Zenon
  <1>16. ASSUME NEW i \in 1..l PROVE d[i] = g[(L + 1) - l + i]
    <2>1. CASE i = l
      <3>1. (L + 1) - l + i = L + 1
        BY <2>1
      <3> QED
        BY <1>8, <1>15, <2>1, <3>1, Zenon
    <2>2. CASE i # l
      <3>1. i \in 1..l - 1 /\ L + 1 - l + i \in 1..L
        BY <1>14, <2>2
      <3>2. PICK p \in 1..L : p = L + 1 - l + i /\ p = (L + 1) - l + i
        BY <3>1
      <3>3. d[i] = r[i] /\ r[i] = s[p]
        BY <1>12, <1>15, <3>1, <3>2, Zenon
      <3>4. g[p] = s[p]
        BY <1>8, <3>2, Zenon
      <3> QED
        BY <3>2, <3>3, <3>4, Zenon
    <2> QED
      BY <2>1, <2>2, Zenon
  <1>17. IsEnd(d, g, l)
    BY <1>8, <1>14, <1>15, <1>16, Zenon DEF IsEnd
  <1>18. d = LastOf(g, MaxHistory)
    BY <1>10, <1>17, OneEnd, Zenon
  <1>19. Pushed(e, t) = d
    BY <1>11, <1>13, Zenon DEF Pushed
  <1> QED
    BY <1>1, <1>4, <1>7, <1>8, <1>18, <1>19, Zenon

\* What comes before the rest of a sequence.
LEMMA PrefixIs ==
  ASSUME NEW s \in Seq(Turns), NEW g \in Seq(Turns), NEW L \in Nat, L = Len(s), L <= Len(g),
         \A i \in 1..L : g[i] = s[i]
  PROVE  SubSeq(g, 1, L) = s
  <1>1. \A i \in 1..L : g[i] \in Turns
    <2>1. \A i \in 1..L : i \in 1..Len(g)
      <3>1. Len(g) \in Nat
        BY LenProperties, Zenon
      <3> QED
        BY <3>1
    <2> QED
      BY <2>1, ElementOfSeq, Zenon
  <1>2. 1 \in Int /\ L \in Int /\ L - 1 + 1 = L
    OBVIOUS
  <1>3. /\ SubSeq(g, 1, L) \in Seq(Turns)
        /\ Len(SubSeq(g, 1, L)) = IF 1 <= L THEN L - 1 + 1 ELSE 0
        /\ \A i \in 1..L - 1 + 1 : SubSeq(g, 1, L)[i] = g[1 + i - 1]
    BY <1>1, <1>2, SubSeqProperties, SMT
  <1>4. PICK e : e = SubSeq(g, 1, L)
    BY Zenon
  <1>5. Len(e) = L
    <2>1. Len(e) = IF 1 <= L THEN L - 1 + 1 ELSE 0
      BY <1>3, <1>4, Zenon
    <2> QED
      BY <2>1
  <1>6. \A i \in 1..L : i \in 1..L - 1 + 1 /\ 1 + i - 1 = i
    OBVIOUS
  <1>7. \A i \in 1..L : e[i] = s[i]
    BY <1>3, <1>4, <1>6, Zenon
  <1>8. e \in Seq(Turns)
    BY <1>3, <1>4, Zenon
  <1> QED
    BY <1>4, <1>5, <1>7, <1>8, SeqEqual, Zenon

LEMMA WholeIs ==
  ASSUME NEW s \in Seq(Turns)
  PROVE  SubSeq(s, 1, Len(s)) = s
  <1>1. PICK L \in Nat : L = Len(s) /\ L <= Len(s)
    BY LenProperties
  <1> QED
    BY <1>1, PrefixIs, Zenon

LEMMA FrontIs ==
  ASSUME NEW s \in Seq(Turns), NEW t \in Turns
  PROVE  /\ SubSeq(Append(s, t), 1, Len(Append(s, t)) - 1) = s
         /\ Append(s, t) \in Seq(Turns)
  <1>1. PICK L \in Nat : L = Len(s)
    BY LenProperties, Zenon
  <1>2. PICK g : g = Append(s, t)
    BY Zenon
  <1>3. g \in Seq(Turns) /\ Len(g) = L + 1 /\ \A i \in 1..L : g[i] = s[i]
    BY <1>1, <1>2, AppendProperties
  <1>4. Len(g) - 1 = L /\ L <= Len(g)
    BY <1>3
  <1>5. SubSeq(g, 1, L) = s
    BY <1>1, <1>3, <1>4, PrefixIs, Zenon
  <1> QED
    BY <1>2, <1>3, <1>4, <1>5, Zenon

\* Two turns more.
LEMMA TwoMore ==
  ASSUME NEW s \in Seq(Turns), NEW t \in Turns, NEW u \in Turns
  PROVE  s \o <<t, u>> = Append(Append(s, t), u)
  <1>1. PICK L \in Nat : L = Len(s)
    BY LenProperties, Zenon
  <1>2. PICK p : p = <<t, u>>
    BY Zenon
  <1>3. p \in Seq(Turns) /\ Len(p) = 2 /\ p[1] = t /\ p[2] = u
    BY <1>2
  <1>4. PICK c : c = s \o p
    BY Zenon
  <1>5. /\ c \in Seq(Turns) /\ Len(c) = L + 2
        /\ \A i \in 1..L + 2 : c[i] = IF i <= L THEN s[i] ELSE p[i - L]
    <2>1. /\ s \o p \in Seq(Turns) /\ Len(s \o p) = Len(s) + Len(p)
          /\ \A i \in 1..Len(s) + Len(p) : (s \o p)[i] = IF i <= Len(s) THEN s[i] ELSE p[i - Len(s)]
      BY <1>3, ConcatProperties, Zenon
    <2> QED
      BY <1>1, <1>3, <1>4, <2>1
  <1>6. PICK a : a = Append(s, t)
    BY Zenon
  <1>7. a \in Seq(Turns) /\ Len(a) = L + 1 /\ a[L + 1] = t /\ \A i \in 1..L : a[i] = s[i]
    BY <1>1, <1>6, AppendProperties
  <1>8. PICK b : b = Append(a, u)
    BY Zenon
  <1>9. b \in Seq(Turns) /\ Len(b) = L + 2 /\ b[L + 2] = u /\ \A i \in 1..L + 1 : b[i] = a[i]
    BY <1>7, <1>8, AppendProperties
  <1>10. ASSUME NEW i \in 1..L + 2 PROVE b[i] = c[i]
    <2>1. CASE i <= L
      <3>1. i \in 1..L /\ i \in 1..L + 1
        BY <2>1
      <3> QED
        BY <1>5, <1>7, <1>9, <2>1, <3>1, Zenon
    <2>2. CASE i = L + 1
      <3>1. i - L = 1 /\ ~(i <= L) /\ L + 1 \in 1..L + 1
        BY <2>2
      <3> QED
        BY <1>3, <1>5, <1>7, <1>9, <2>2, <3>1, Zenon
    <2>3. CASE i = L + 2
      <3>1. i - L = 2 /\ ~(i <= L)
        BY <2>3
      <3> QED
        BY <1>3, <1>5, <1>9, <2>3, <3>1, Zenon
    <2> QED
      BY <2>1, <2>2, <2>3
  <1>11. b = c
    BY <1>5, <1>9, <1>10, SeqEqual, Zenon
  <1> QED
    BY <1>2, <1>4, <1>6, <1>8, <1>11, Zenon

\* Questions come at odd places, answers at even ones.
LEMMA OddEven ==
  ASSUME NEW n \in Nat
  PROVE  (2 * n + 1) % 2 = 1 /\ (2 * n + 2) % 2 = 0
  OBVIOUS

\* The conversation tk with what is kept of it, the number of exchanges, and the
\* last prompt.
PromptFollows(pr, tk) ==
  SubSeq(pr, 1, Len(pr) - 1) = LastOf(tk, Min({MaxHistoryTurns, MaxHistory}))

Conversed(ts, tk, n, pr) ==
  /\ ts \in Seq(Turns) /\ tk \in Seq(Turns) /\ pr \in Seq(Turns)
  /\ Len(ts) <= MaxHistory /\ ts = LastOf(tk, MaxHistory)
  /\ \A i \in DOMAIN tk : (tk[i].role = "user") <=> (i % 2 = 1)
  /\ n \in Nat /\ 2 * n = Len(tk)
  /\ tk # <<>> /\ pr # <<>> =>
       \E m \in {Len(tk), Len(tk) - 2} : PromptFollows(pr, SubSeq(tk, 1, m))

LEMMA PromptIs ==
  ASSUME Conversed(turns, talk, n_chats, prompt), NEW msg \in Messages
  PROVE  Prompt(msg) \in Seq(Turns) /\ PromptFollows(Prompt(msg), talk)
  <1>1. turns = LastOf(talk, MaxHistory) /\ talk \in Seq(Turns)
    BY Zenon DEF Conversed
  <1>2. MaxHistory \in Nat /\ MaxHistoryTurns \in Nat
    BY AgentAssumption
  <1>3. PICK L \in Nat : L = Len(talk)
    BY <1>1, LenProperties, Zenon
  <1>4. PICK e : e = LastOf(talk, Min({MaxHistoryTurns, MaxHistory}))
    BY Zenon
  <1>5. LastOf(turns, MaxHistoryTurns) = e
    BY <1>1, <1>2, <1>4, LastOfLast, Zenon
  <1>6. e \in Seq(Turns)
    <2>1. turns \in Seq(Turns)
      BY Zenon DEF Conversed
    <2>2. PICK T \in Nat : T = Len(turns)
      BY <2>1, LenProperties, Zenon
    <2>3. IsEnd(LastOf(turns, MaxHistoryTurns), turns, IF MaxHistoryTurns <= T THEN MaxHistoryTurns ELSE T)
      BY <1>2, <2>1, <2>2, LastOfIs, Zenon
    <2> QED
      BY <1>5, <2>3, Zenon DEF IsEnd
  <1>7. PICK t \in Turns : t = Turn("user", msg)
    BY DEF Turn, Turns
  <1>8. Prompt(msg) = Append(e, t)
    BY <1>5, <1>7, Zenon DEF Prompt
  <1>9. SubSeq(Append(e, t), 1, Len(Append(e, t)) - 1) = e /\ Append(e, t) \in Seq(Turns)
    BY <1>6, <1>7, FrontIs, Zenon
  <1> QED
    BY <1>4, <1>8, <1>9, Zenon DEF PromptFollows

\* A failed exchange.
LEMMA PromptKeeps ==
  ASSUME Conversed(turns, talk, n_chats, prompt), NEW msg \in Messages
  PROVE  Conversed(turns, talk, n_chats, Prompt(msg))
  <1>1. Prompt(msg) \in Seq(Turns) /\ PromptFollows(Prompt(msg), talk)
    BY PromptIs, Zenon
  <1>2. SubSeq(talk, 1, Len(talk)) = talk
    BY WholeIs, Zenon DEF Conversed
  <1>3. \E m \in {Len(talk), Len(talk) - 2} : PromptFollows(Prompt(msg), SubSeq(talk, 1, m))
    BY <1>1, <1>2, Zenon
  <1> QED
    BY <1>1, <1>3, Zenon DEF Conversed

\* An exchange.
LEMMA ExchangeKeeps ==
  ASSUME Conversed(turns, talk, n_chats, prompt), NEW msg \in Messages,
         NEW reply \in Replies \cup {Streamed}, Exchange(msg, reply), prompt' = Prompt(msg)
  PROVE  Conversed(turns', talk', n_chats', prompt')
  <1>1. /\ talk \in Seq(Turns) /\ turns = LastOf(talk, MaxHistory)
        /\ n_chats \in Nat /\ 2 * n_chats = Len(talk)
        /\ \A i \in DOMAIN talk : (talk[i].role = "user") <=> (i % 2 = 1)
    BY Zenon DEF Conversed
  <1>2. PICK L \in Nat : L = Len(talk) /\ DOMAIN talk = 1..L
    BY <1>1, LenProperties, Zenon
  <1>3. PICK t \in Turns : t = Turn("user", msg) /\ t.role = "user"
    <2>1. Turn("user", msg) \in Turns /\ Turn("user", msg).role = "user"
      BY DEF Turn, Turns
    <2> QED
      BY <2>1, Zenon
  <1>4. PICK u \in Turns : u = Turn("assistant", reply) /\ u.role = "assistant"
    <2>1. Turn("assistant", reply) \in Turns /\ Turn("assistant", reply).role = "assistant"
      BY DEF Turn, Turns
    <2> QED
      BY <2>1, Zenon
  <1>5. PICK a : a = Append(talk, t)
    BY Zenon
  <1>6. PICK b : b = Append(a, u)
    BY Zenon
  <1>7. talk' = b
    <2>1. talk' = talk \o <<t, u>>
      BY <1>3, <1>4, Zenon DEF Exchange
    <2> QED
      BY <1>1, <1>5, <1>6, <2>1, TwoMore, Zenon
  <1>8. Pushed(turns, t) = LastOf(a, MaxHistory) /\ a \in Seq(Turns)
    BY <1>1, <1>5, PushedIs, Zenon
  <1>9. Pushed(LastOf(a, MaxHistory), u) = LastOf(b, MaxHistory)
    BY <1>6, <1>8, PushedIs, Zenon
  <1>10. turns' = LastOf(b, MaxHistory)
    BY <1>3, <1>4, <1>8, <1>9, Zenon DEF Exchange
  <1>11. /\ a \in Seq(Turns) /\ Len(a) = L + 1 /\ a[L + 1] = t
         /\ \A i \in 1..L : a[i] = talk[i]
    BY <1>1, <1>2, <1>5, AppendProperties
  <1>12. /\ b \in Seq(Turns) /\ Len(b) = L + 2 /\ b[L + 2] = u
         /\ \A i \in 1..L + 1 : b[i] = a[i]
    BY <1>6, <1>11, AppendProperties
  <1>13. DOMAIN b = 1..L + 2
    BY <1>12, LenProperties, Zenon
  <1>14. turns' \in Seq(Turns) /\ Len(turns') <= MaxHistory
    <2>1. L + 2 \in Nat /\ MaxHistory \in Nat
      BY AgentAssumption
    <2>2. PICK k : k = IF MaxHistory <= L + 2 THEN MaxHistory ELSE L + 2
      OBVIOUS
    <2>3. IsEnd(turns', b, k)
      BY <1>10, <1>12, <2>1, <2>2, LastOfIs, Zenon
    <2>4. k <= MaxHistory
      BY <2>1, <2>2
    <2> QED
      BY <2>3, <2>4, Zenon DEF IsEnd
  <1>15. ASSUME NEW i \in 1..L + 2
         PROVE  (b[i].role = "user") <=> (i % 2 = 1)
    <2>1. CASE i <= L
      <3>1. i \in 1..L /\ i \in 1..L + 1
        BY <2>1
      <3>2. b[i] = talk[i]
        BY <1>11, <1>12, <3>1, Zenon
      <3> QED
        BY <1>1, <1>2, <3>1, <3>2, Zenon
    <2>2. CASE i = L + 1
      <3>1. b[i] = t
        <4>1. L + 1 \in 1..L + 1
          OBVIOUS
        <4> QED
          BY <1>11, <1>12, <2>2, <4>1, Zenon
      <3>2. i % 2 = 1
        <4>1. i = 2 * n_chats + 1
          BY <1>1, <1>2, <2>2, Zenon
        <4> QED
          BY <1>1, <4>1, OddEven, Zenon
      <3> QED
        BY <1>3, <3>1, <3>2, Zenon
    <2>3. CASE i = L + 2
      <3>1. b[i] = u
        BY <1>12, <2>3, Zenon
      <3>2. i % 2 = 0
        <4>1. i = 2 * n_chats + 2
          BY <1>1, <1>2, <2>3, Zenon
        <4> QED
          BY <1>1, <4>1, OddEven, Zenon
      <3>3. b[i].role # "user"
        BY <1>4, <3>1
      <3> QED
        BY <3>2, <3>3
    <2> QED
      BY <2>1, <2>2, <2>3
  <1>16. n_chats' \in Nat /\ 2 * n_chats' = Len(b)
    <2>1. n_chats' = n_chats + 1
      BY Zenon DEF Exchange
    <2> QED
      BY <1>1, <1>2, <1>12, <2>1
  <1>17. prompt' \in Seq(Turns) /\ PromptFollows(prompt', talk)
    BY PromptIs, Zenon
  <1>18. SubSeq(b, 1, Len(b) - 2) = talk
    <2>1. Len(b) - 2 = L /\ L <= Len(b)
      BY <1>12
    <2>2. \A i \in 1..L : b[i] = talk[i]
      <3>1. \A i \in 1..L : i \in 1..L + 1
        OBVIOUS
      <3> QED
        BY <1>11, <1>12, <3>1, Zenon
    <2>3. SubSeq(b, 1, L) = talk
      BY <1>1, <1>2, <1>12, <2>1, <2>2, PrefixIs, Zenon
    <2> QED
      BY <2>1, <2>3, Zenon
  <1>19. \E m \in {Len(b), Len(b) - 2} : PromptFollows(prompt', SubSeq(b, 1, m))
    BY <1>17, <1>18, Zenon
  <1>20. Conversed(turns', b, n_chats', prompt')
    BY <1>10, <1>12, <1>13, <1>14, <1>15, <1>16, <1>17, <1>19, Zenon DEF Conversed
  <1> QED
    BY <1>7, <1>20, Zenon

--------------------------------------------------------------------------------
(* The agent and its core.                                                 *)

\* The inductive invariant: that of the core, the conversation, and that an
\* agent's core has no hypotheses and no patterns. The last is needed for the
\* core to stay so while it solves, because Iterate would change the former.
ReasoningIInv ==
  /\ CoreInv
  /\ Conversed(turns, talk, n_chats, prompt)
  /\ owner \in Owners /\ asked \in Messages \cup {NoMessage}
  /\ asked # NoMessage => owner = "agent"
  /\ AgentCoreIsIdle

\* Nothing is proposed where there is no hypothesis.
LEMMA NothingToTest ==
  ASSUME nodes = <<>>
  PROVE  ~Iterate
  <1>1. DOMAIN nodes = {}
    BY EmptySeq
  <1>2. {i \in UsedIds : nodes[i].active} = {}
    BY <1>1, Zenon DEF UsedIds, Ids
  <1>3. ActiveCount = 0
    BY <1>2, FS_EmptySet, Zenon DEF ActiveCount
  <1>4. Min({ActiveCount, 8}) = 0
    BY <1>3, MinOfTwo
  <1>5. Proposals = [n \in {} |-> [test_id |-> n, hypothesis_id |-> n, utility |-> 1]]
    <2>1. 1..0 = {}
      OBVIOUS
    <2> QED
      BY <1>4, <2>1, Zenon DEF Proposals
  <1>6. Proposals = <<>>
    BY <1>5
  <1>7. ChooseNext(Proposals) = 0
    BY <1>6, Zenon DEF ChooseNext
  <1> QED
    BY <1>7, Zenon DEF Iterate

\* A conversation that has not begun, whatever was asked before.
LEMMA NothingSaid ==
  ASSUME NEW pr \in Seq(Turns)
  PROVE  Conversed(<<>>, <<>>, 0, pr)
  <1>1. <<>> \in Seq(Turns) /\ Len(<<>>) = 0 /\ DOMAIN <<>> = {}
    BY EmptySeq
  <1>2. MaxHistory \in Nat
    BY AgentAssumption
  <1>3. LastOf(<<>>, MaxHistory) = <<>>
    <2>1. IsEnd(LastOf(<<>>, MaxHistory), <<>>, IF MaxHistory <= 0 THEN MaxHistory ELSE 0)
      BY <1>1, <1>2, LastOfIs, Zenon
    <2>2. PICK k : k = IF MaxHistory <= 0 THEN MaxHistory ELSE 0
      BY Zenon
    <2>3. k = 0 /\ IsEnd(LastOf(<<>>, MaxHistory), <<>>, k)
      BY <1>2, <2>1, <2>2
    <2>4. LastOf(<<>>, MaxHistory) \in Seq(Turns) /\ Len(LastOf(<<>>, MaxHistory)) = 0
      BY <2>3, Zenon DEF IsEnd
    <2> QED
      BY <1>1, <2>4, EmptySeq
  <1>4. 0 \in Nat /\ 2 * 0 = 0 /\ 0 <= MaxHistory
    BY <1>2
  <1> QED
    BY <1>1, <1>3, <1>4, Zenon DEF Conversed

LEMMA InitHolds == Init => ReasoningIInv
  <1> SUFFICES ASSUME Init PROVE ReasoningIInv
    OBVIOUS
  <1>1. CoreInv /\ nodes = <<>> /\ memory = NothingStored
    BY CoreInitHolds, Zenon DEF Init, CoreInit
  <1>2. /\ turns = <<>> /\ talk = <<>> /\ prompt = <<>> /\ n_chats = 0
        /\ owner \in Owners /\ asked = NoMessage
    BY Zenon DEF Init
  <1>3. prompt \in Seq(Turns)
    BY <1>2, EmptySeq, Zenon
  <1>4. Conversed(turns, talk, n_chats, prompt)
    BY <1>2, <1>3, NothingSaid, Zenon
  <1> QED
    BY <1>1, <1>2, <1>4, Zenon DEF ReasoningIInv, AgentCoreIsIdle

\* What is left when the agent's side does not change.
LEMMA AgentOn ==
  ASSUME ReasoningIInv, CoreInv', UNCHANGED agentVars,
         owner # "agent" \/ (nodes' = nodes /\ memory' = memory)
  PROVE  ReasoningIInv'
  <1>1. /\ owner' = owner /\ turns' = turns /\ n_chats' = n_chats
        /\ asked' = asked /\ prompt' = prompt /\ talk' = talk
    BY DEF agentVars
  <1>2. Conversed(turns', talk', n_chats', prompt')
    BY <1>1, Zenon DEF ReasoningIInv
  <1>3. AgentCoreIsIdle'
    BY <1>1, Zenon DEF ReasoningIInv, AgentCoreIsIdle
  <1> QED
    BY <1>1, <1>2, <1>3, Zenon DEF ReasoningIInv

\* What is left when the core's side does not change but for a solve.
LEMMA CoreOn ==
  ASSUME ReasoningIInv, CoreInv', nodes' = nodes, memory' = memory, owner' = owner,
         asked' \in Messages \cup {NoMessage}, asked' # NoMessage => owner = "agent",
         Conversed(turns', talk', n_chats', prompt')
  PROVE  ReasoningIInv'
  BY Zenon DEF ReasoningIInv, AgentCoreIsIdle

LEMMA SolveStepOn == ReasoningIInv /\ SolveStep /\ UNCHANGED agentVars => ReasoningIInv'
  <1> SUFFICES ASSUME ReasoningIInv, SolveStep, UNCHANGED agentVars PROVE ReasoningIInv'
    OBVIOUS
  <1>1. CoreInv'
    BY SolveStepKeeps, Zenon DEF ReasoningIInv
  <1>2. CASE owner # "agent"
    BY <1>1, <1>2, AgentOn, Zenon
  <1>3. CASE owner = "agent"
    <2>1. nodes = <<>>
      BY <1>3, Zenon DEF ReasoningIInv, AgentCoreIsIdle
    <2>2. IterateStops
      BY <2>1, NothingToTest, Zenon DEF SolveStep
    <2>3. nodes' = nodes /\ memory' = memory
      BY <2>2, Zenon DEF IterateStops
    <2> QED
      BY <1>1, <2>3, AgentOn, Zenon
  <1> QED
    BY <1>2, <1>3, Zenon

LEMMA CallerStepOn ==
  ASSUME ReasoningIInv,
         \/ owner = "caller" /\ OwnerStep /\ UNCHANGED agentVars
         \/ owner = "store caller" /\ StoreStep /\ UNCHANGED agentVars
  PROVE  ReasoningIInv'
  <1>1. CoreInv'
    BY OwnerStepKeeps, StoreStepKeeps, Zenon DEF ReasoningIInv
  <1>2. owner # "agent"
    OBVIOUS
  <1> QED
    BY <1>1, <1>2, AgentOn, Zenon

LEMMA ChatOn ==
  ASSUME ReasoningIInv, NEW msg \in Messages, Chat(msg)
  PROVE  ReasoningIInv'
  <1>1. /\ Solve(TRUE) /\ owner = "agent" /\ asked' = msg
        /\ owner' = owner /\ turns' = turns /\ n_chats' = n_chats /\ prompt' = prompt /\ talk' = talk
    BY Zenon DEF Chat, Talks
  <1>2. CoreInv /\ TRUE \in BOOLEAN
    BY Zenon DEF ReasoningIInv
  <1>3. CoreInv'
    BY <1>1, <1>2, SolveKeeps, Zenon
  <1>4. nodes' = nodes /\ memory' = memory
    BY <1>1, Zenon DEF Solve
  <1>5. Conversed(turns', talk', n_chats', prompt')
    BY <1>1, Zenon DEF ReasoningIInv
  <1> QED
    BY <1>1, <1>3, <1>4, <1>5, CoreOn, Zenon

LEMMA ChatRepliesOn ==
  ASSUME ReasoningIInv, NEW reply \in Replies, ChatReplies(reply)
  PROVE  ReasoningIInv'
  <1>1. /\ asked # NoMessage /\ prompt' = Prompt(asked) /\ Exchange(asked, reply)
        /\ memory' = Written(memory, "pattern", [input |-> asked, dim |-> 16, confidence |-> 100])
        /\ asked' = NoMessage /\ owner' = owner
        /\ nodes' = nodes /\ executors' = executors /\ history' = history /\ solving' = solving
    BY Zenon DEF ChatReplies
  <1>2. memory' = memory
    <2>1. [input |-> asked, dim |-> 16, confidence |-> 100].dim # Dim
      BY AgentAssumption
    <2> QED
      BY <1>1, <2>1, NotWritten, Zenon
  <1>3. UNCHANGED coreVars
    BY <1>1, <1>2, Zenon DEF coreVars
  <1>4. CoreInv'
    BY <1>3, SameCoreKeeps, Zenon DEF ReasoningIInv
  <1>5. /\ asked \in Messages /\ reply \in Replies \cup {Streamed}
        /\ Conversed(turns, talk, n_chats, prompt)
    BY <1>1, Zenon DEF ReasoningIInv
  <1>6. Conversed(turns', talk', n_chats', prompt')
    BY <1>1, <1>5, ExchangeKeeps, Zenon
  <1> QED
    BY <1>1, <1>2, <1>4, <1>6, CoreOn, Zenon

LEMMA ChatFailsOn == ReasoningIInv /\ ChatFails => ReasoningIInv'
  <1> SUFFICES ASSUME ReasoningIInv, ChatFails PROVE ReasoningIInv'
    OBVIOUS
  <1>1. /\ asked # NoMessage /\ prompt' = Prompt(asked) /\ asked' = NoMessage
        /\ UNCHANGED coreVars /\ owner' = owner /\ turns' = turns
        /\ n_chats' = n_chats /\ talk' = talk
    BY DEF ChatFails
  <1>2. CoreInv' /\ nodes' = nodes /\ memory' = memory
    BY <1>1, SameCoreKeeps DEF ReasoningIInv, coreVars
  <1>3. asked \in Messages /\ Conversed(turns, talk, n_chats, prompt)
    BY <1>1, Zenon DEF ReasoningIInv
  <1>4. Conversed(turns', talk', n_chats', prompt')
    BY <1>1, <1>3, PromptKeeps, Zenon
  <1> QED
    BY <1>1, <1>2, <1>4, CoreOn, Zenon

LEMMA ChatStreamOn ==
  ASSUME ReasoningIInv, NEW msg \in Messages, ChatStream(msg)
  PROVE  ReasoningIInv'
  <1>1. /\ owner = "agent" /\ prompt' = Prompt(msg) /\ Exchange(msg, Streamed)
        /\ UNCHANGED coreVars /\ owner' = owner /\ asked' = asked
    BY DEF ChatStream, Talks
  <1>2. CoreInv' /\ nodes' = nodes /\ memory' = memory
    BY <1>1, SameCoreKeeps DEF ReasoningIInv, coreVars
  <1>3. /\ Conversed(turns, talk, n_chats, prompt) /\ Streamed \in Replies \cup {Streamed}
        /\ asked \in Messages \cup {NoMessage}
    BY Zenon DEF ReasoningIInv
  <1>4. Conversed(turns', talk', n_chats', prompt')
    BY <1>1, <1>3, ExchangeKeeps, Zenon
  <1> QED
    BY <1>1, <1>2, <1>3, <1>4, CoreOn, Zenon

LEMMA ResetSessionOn == ReasoningIInv /\ ResetSession => ReasoningIInv'
  <1> SUFFICES ASSUME ReasoningIInv, ResetSession PROVE ReasoningIInv'
    OBVIOUS
  <1>1. /\ turns' = <<>> /\ n_chats' = 0 /\ talk' = <<>>
        /\ UNCHANGED coreVars /\ owner' = owner /\ asked' = asked /\ prompt' = prompt
        /\ owner = "agent"
    BY DEF ResetSession
  <1>2. CoreInv' /\ nodes' = nodes /\ memory' = memory
    BY <1>1, SameCoreKeeps DEF ReasoningIInv, coreVars
  <1>3. /\ prompt \in Seq(Turns) /\ asked \in Messages \cup {NoMessage}
    BY Zenon DEF ReasoningIInv, Conversed
  <1>4. Conversed(turns', talk', n_chats', prompt')
    BY <1>1, <1>3, NothingSaid, Zenon
  <1> QED
    BY <1>1, <1>2, <1>3, <1>4, CoreOn, Zenon

LEMMA NextOn == ReasoningIInv /\ [Next]_vars => ReasoningIInv'
  <1> SUFFICES ASSUME ReasoningIInv, [Next]_vars PROVE ReasoningIInv'
    OBVIOUS
  <1>1. CASE UNCHANGED vars
    <2>1. UNCHANGED coreVars /\ UNCHANGED agentVars
      BY <1>1 DEF vars
    <2>2. CoreInv' /\ nodes' = nodes /\ memory' = memory
      BY <2>1, SameCoreKeeps DEF ReasoningIInv, coreVars
    <2> QED
      BY <2>1, <2>2, AgentOn, Zenon
  <1>2. CASE Next
    BY <1>2, SolveStepOn, CallerStepOn, ChatOn, ChatRepliesOn, ChatFailsOn, ChatStreamOn,
       ResetSessionOn, Zenon DEF Next
  <1> QED
    BY <1>1, <1>2, Zenon

LEMMA InvariantSays == ReasoningIInv => ReasoningInv
  <1> SUFFICES ASSUME ReasoningIInv PROVE ReasoningInv
    OBVIOUS
  <1>1. /\ CoreInv /\ Conversed(turns, talk, n_chats, prompt) /\ AgentCoreIsIdle
        /\ owner \in Owners /\ asked \in Messages \cup {NoMessage}
        /\ asked # NoMessage => owner = "agent"
    BY Zenon DEF ReasoningIInv
  <1>2. CoreTypeOK /\ InUseIsAlive /\ LineageIsRecorded
    BY <1>1, CoreIsRight, Zenon
  <1>3. MemoryTypeOK /\ RouterTypeOK
    BY <1>2, Zenon DEF CoreTypeOK
  <1>4. SelectsTheBest /\ FallsBackOnAnother /\ RanksTheBest /\ RecallsTheClosest
    BY <1>3, RouterSelects, RouterFallsBack, RouterRanks, MemoryRecalls, Zenon
  <1>5. ConversationIsKept
    BY <1>1, Zenon DEF ConversationIsKept, Conversed, PromptFollows
  <1>6. AgentTypeOK
    <2>1. turns \in Seq(Turns) /\ prompt \in Seq(Turns) /\ talk \in Seq(Turns)
      BY <1>1, Zenon DEF Conversed
    <2>2. {turns, prompt, talk} \subseteq Seq(Turns)
      BY <2>1, Zenon
    <2> QED
      BY <1>1, <2>2, Zenon DEF AgentTypeOK, Conversed
  <1> QED
    BY <1>1, <1>2, <1>4, <1>5, <1>6, Zenon DEF ReasoningInv

\* In every behaviour the reasoning core and the agent are as they should be,
\* however calls on an engine follow each other (core.c, agent.c): what is in
\* use is active and has its strings, the record of every branch and merge
\* names what was made of what, the router selects, ranks and falls back on the
\* best that fits, recall finds the closest patterns, the turns that are kept
\* are the end of the conversation and every prompt is what it should be, and
\* nothing an agent does reaches the hypotheses or the memory of its core.
THEOREM ReasoningIsRight == ReasoningSpec => []ReasoningInv
  <1>1. Init => ReasoningIInv
    BY InitHolds
  <1>2. ReasoningIInv /\ [Next]_vars => ReasoningIInv'
    BY NextOn
  <1>3. ReasoningIInv => ReasoningInv
    BY InvariantSays
  <1> QED
    BY <1>1, <1>2, <1>3, PTL DEF ReasoningSpec

\* A record makes the history longer.
LEMMA RecordsDiffer ==
  ASSUME NEW h \in Seq(TransitionRecords), NEW r
  PROVE  Append(h, r) # h
  OBVIOUS

LEMMA NothingSucceeds ==
  ASSUME CoreInv, history' = history, NEW ns, NEW type, NEW id, NEW target
  PROVE  ~Succeeds(ns, type, id, target)
  <1>1. history \in Seq(TransitionRecords)
    BY Zenon DEF CoreInv, Chronicle
  <1> QED
    BY <1>1, RecordsDiffer, Zenon DEF Succeeds, Recorded

LEMMA NothingChanges ==
  ASSUME CoreInv, ApplyTransition, history' = history
  PROVE  nodes' = nodes
  <1>1. ASSUME NEW id, NEW type, Reweigh(type, id) PROVE nodes' = nodes
    BY <1>1, NothingSucceeds, Zenon DEF Reweigh, Refused
  <1>2. ASSUME NEW id, Branch(id) PROVE nodes' = nodes
    BY <1>2, NothingSucceeds, Zenon DEF Branch, Refused
  <1>3. ASSUME NEW a, NEW b, MergeOf(a, b) PROVE nodes' = nodes
    BY <1>3, NothingSucceeds, Zenon DEF MergeOf, Refused, UnmergedLeft
  <1>4. ASSUME NEW id, PruneOf(id) PROVE nodes' = nodes
    BY <1>4, NothingSucceeds, Zenon DEF PruneOf, Refused
  <1>5. ASSUME NEW type, NEW id, Noted(type, id) PROVE nodes' = nodes
    BY <1>5, NothingSucceeds, Zenon DEF Noted
  <1> QED
    BY <1>1, <1>2, <1>3, <1>4, <1>5, Zenon DEF ApplyTransition

LEMMA InvariantHolds == ReasoningSpec => []ReasoningIInv
  BY InitHolds, NextOn, PTL DEF ReasoningSpec

\* engine_apply_transition either records what it does or does nothing: of a
\* branch or a merge that a full population refuses (core.c:146-170), no
\* hypothesis stays pruned and none is left behind.
THEOREM FailedTransitionsChangeNothing == ReasoningSpec => FailedTransitionChangesNothing
  <1>1. ReasoningIInv /\ [Next]_vars
          => [ApplyTransition /\ UNCHANGED history => UNCHANGED nodes]_coreVars
    BY NothingChanges, Zenon DEF ReasoningIInv
  <1> QED
    BY <1>1, InvariantHolds, PTL DEF ReasoningSpec, FailedTransitionChangesNothing

\* What evidence and the normalisation after it leave of each hypothesis.
LEMMA AppliedPassesOn ==
  ASSUME Populated(nodes), NEW e, e.weight \in Nat, Fits(nodes, e),
         nodes' = Normalized(WithEvidence(nodes, e))
  PROVE  PassesOn(nodes, nodes')
  <1>1. PICK N \in Nat : N = Len(nodes) /\ nodes \in Seq(Hypotheses)
    BY LenProperties, Zenon DEF Populated
  <1>2. PICK ms : ms = WithEvidence(nodes, e)
    BY Zenon
  <1>3. Keeps(nodes, ms) /\ SameUse(nodes, ms)
    BY <1>1, <1>2, WithEvidenceIs, Zenon
  <1>4. /\ ms \in Seq(Hypotheses) /\ Len(ms) = N
        /\ \A i \in 1..N : ms[i].claim = nodes[i].claim /\ ms[i].used = nodes[i].used
                           /\ ms[i].prior_score = nodes[i].prior_score
    BY <1>1, <1>3, Zenon DEF Keeps, SameUse
  <1>5. PassesOn(ms, nodes')
    BY <1>2, <1>4, NormalizedIs, Zenon
  <1>6. ASSUME NEW j \in 1..N, nodes[j].used, ~nodes'[j].used
        PROVE  \E i \in 1..N :
                 /\ i < j /\ nodes[i].used /\ Alike(nodes[i].claim, nodes[j].claim)
                 /\ nodes'[i].used /\ nodes[j].prior_score <= nodes'[i].prior_score
    <2>1. ms[j].used
      BY <1>4, <1>6, Zenon
    <2>2. PICK i \in 1..N :
            /\ i < j /\ ms[i].used /\ Alike(ms[i].claim, ms[j].claim)
            /\ nodes'[i].used /\ ms[j].prior_score <= nodes'[i].prior_score
      BY <1>4, <1>5, <1>6, <2>1, Zenon DEF PassesOn
    <2>3. /\ nodes[i].used /\ ms[i].claim = nodes[i].claim /\ ms[j].claim = nodes[j].claim
          /\ ms[j].prior_score = nodes[j].prior_score
      BY <1>4, <2>2, Zenon
    <2>4. Alike(nodes[i].claim, nodes[j].claim) /\ nodes[j].prior_score <= nodes'[i].prior_score
      BY <2>2, <2>3, Zenon
    <2> QED
      BY <2>2, <2>3, <2>4, Zenon
  <1> QED
    BY <1>1, <1>6, Zenon DEF PassesOn

\* What it means for the property.
LEMMA PriorsPassOn ==
  ASSUME Populated(nodes), Populated(nodes'), Len(nodes') = Len(nodes), PassesOn(nodes, nodes'),
         NEW j \in UsedIds, ~nodes'[j].used
  PROVE  \E i \in UsedIds :
           /\ i < j /\ Alike(nodes[i].claim, nodes[j].claim)
           /\ nodes'[i].used /\ nodes'[i].prior_score >= nodes[j].prior_score
  <1>1. PICK N \in Nat : N = Len(nodes) /\ DOMAIN nodes = 1..N /\ nodes \in Seq(Hypotheses)
    BY LenProperties, Zenon DEF Populated
  <1>2. j \in 1..N /\ nodes[j].used
    BY <1>1, Zenon DEF UsedIds, Ids
  <1>3. PICK i \in 1..N :
          /\ i < j /\ nodes[i].used /\ Alike(nodes[i].claim, nodes[j].claim)
          /\ nodes'[i].used /\ nodes[j].prior_score <= nodes'[i].prior_score
    BY <1>1, <1>2, Zenon DEF PassesOn
  <1>4. i \in UsedIds
    BY <1>1, <1>3, Zenon DEF UsedIds, Ids
  <1>5. nodes'[i].prior_score >= nodes[j].prior_score
    <2>1. nodes[j] \in Hypotheses
      BY <1>1, <1>2, ElementOfSeq, Zenon
    <2>2. nodes' \in Seq(Hypotheses) /\ i \in 1..Len(nodes')
      BY <1>1, <1>3, Zenon DEF Populated
    <2>3. nodes'[i] \in Hypotheses
      BY <2>2, ElementOfSeq, Zenon
    <2>4. PICK x \in 0..One : x = nodes[j].prior_score
      BY <2>1, HypothesisFields, Zenon
    <2>5. PICK y \in 0..One : y = nodes'[i].prior_score
      BY <2>3, HypothesisFields, Zenon
    <2>6. x <= y
      BY <1>3, <2>4, <2>5, Zenon
    <2>7. y >= x
      BY <2>6
    <2> QED
      BY <2>4, <2>5, <2>7, Zenon
  <1> QED
    BY <1>3, <1>4, <1>5, Zenon

\* The evidence that is applied, whoever brings it.
LEMMA EvidenceApplied ==
  ASSUME CoreInv, BringEvidence \/ Iterate
  PROVE  \E e : e.weight \in Nat /\ Fits(nodes, e) /\ nodes' = Normalized(WithEvidence(nodes, e))
  <1>1. CASE BringEvidence
    <2>1. PICK e \in Evidence : EvidenceFits(e) /\ UpdateState(e)
      BY <1>1, Zenon DEF BringEvidence
    <2>2. e.weight \in Nat /\ Fits(nodes, e)
      BY <2>1, CoreAssumption, PopulationAssumption, EvidenceFitsIs
    <2> QED
      BY <2>1, <2>2, Zenon DEF UpdateState
  <1>2. CASE Iterate
    <2>1. PICK e : e = Gemma(ChooseNext(Proposals))
      BY Zenon
    <2>2. PICK capped : capped = [e EXCEPT !.weight = IF EvidenceFits(e) THEN 1 ELSE 0]
      BY Zenon
    <2>3. nodes' = Normalized(WithEvidence(nodes, capped))
      BY <1>2, <2>1, <2>2 DEF Iterate
    <2>4. capped.weight \in Nat /\ Fits(nodes, capped)
      <3>1. Populated(nodes)
        BY Zenon DEF CoreInv
      <3> QED
        BY <2>1, <2>2, <3>1, CappedFits, Zenon
    <2> QED
      BY <2>3, <2>4, Zenon
  <1> QED
    BY <1>1, <1>2, Zenon

\* population_normalize (hypothesis.c:86-107) drops a duplicate only for an
\* earlier hypothesis like it, which stays in use with a prior at least as high:
\* so whatever evidence an owner or a solve brings, in whatever order, and
\* whatever relation likeness is, transitive or not.
THEOREM DuplicatesArePassedOn == ReasoningSpec => DuplicatesLeaveTheirPrior
  <1>1. ReasoningIInv /\ ReasoningIInv' /\ [Next]_vars
          => [BringEvidence \/ Iterate =>
                \A j \in UsedIds : ~nodes'[j].used =>
                  \E i \in UsedIds :
                     /\ i < j /\ Alike(nodes[i].claim, nodes[j].claim)
                     /\ nodes'[i].used /\ nodes'[i].prior_score >= nodes[j].prior_score]_coreVars
    <2> SUFFICES ASSUME ReasoningIInv, ReasoningIInv', BringEvidence \/ Iterate,
                        NEW j \in UsedIds, ~nodes'[j].used
                 PROVE  \E i \in UsedIds :
                          /\ i < j /\ Alike(nodes[i].claim, nodes[j].claim)
                          /\ nodes'[i].used /\ nodes'[i].prior_score >= nodes[j].prior_score
      BY Zenon
    <2>1. CoreInv /\ Populated(nodes) /\ Populated(nodes')
      BY Zenon DEF ReasoningIInv, CoreInv
    <2>2. PICK e : e.weight \in Nat /\ Fits(nodes, e) /\ nodes' = Normalized(WithEvidence(nodes, e))
      BY <2>1, EvidenceApplied, Zenon
    <2>3. PassesOn(nodes, nodes')
      BY <2>1, <2>2, AppliedPassesOn, Zenon
    <2>4. Len(nodes') = Len(nodes)
      BY <2>1, <2>2, AppliedKeeps, Zenon DEF Keeps
    <2> QED
      BY <2>1, <2>3, <2>4, PriorsPassOn, Zenon
  <1> QED
    BY <1>1, InvariantHolds, PTL DEF ReasoningSpec, DuplicatesLeaveTheirPrior
================================================================================
