-------------------------------- MODULE Recursion -------------------------------
(***************************************************************************)
(* Induction and recursion over the naturals, stated without an operator   *)
(* parameter so that a first-order prover can use them: an induction takes *)
(* a set, a recursion a function.                                          *)
(***************************************************************************)
EXTENDS Integers, FiniteSetTheorems, FiniteSetsExt, WellFoundedInduction, TLAPS

\* A set of naturals that is not empty has a least member.
LEMMA LeastNat ==
  ASSUME NEW T \in SUBSET Nat, T # {}
  PROVE  \E x \in T : \A y \in T : x <= y
  <1>1. PICK x \in T : \A y \in T : ~ (<<y, x>> \in OpToRel(<, Nat))
    BY NatLessThanWellFounded, WFMin
  <1>2. \A y \in T : ~ (y < x)
    BY <1>1 DEF OpToRel
  <1> QED  BY <1>2

\* Induction: a set that holds 0, and with a number the next, holds them all.
LEMMA InductionUpTo ==
  ASSUME NEW S, NEW n \in Nat, 0 \in S,
         \A i \in 0 .. n - 1 : i \in S => i + 1 \in S
  PROVE  \A i \in 0 .. n : i \in S
  <1> SUFFICES ASSUME NEW j \in 0 .. n, j \notin S
               PROVE  FALSE
    OBVIOUS
  <1> DEFINE T == {i \in 0 .. n : i \notin S}
  <1>1. PICK x \in T : \A y \in T : x <= y
    <2>1. T \in SUBSET Nat /\ T # {}
      OBVIOUS
    <2> HIDE DEF T
    <2> QED  BY <2>1, LeastNat
  <1>2. x \in Nat /\ x # 0
    BY <1>1
  <1>3. x - 1 \in 0 .. n - 1 /\ x - 1 \notin T
    BY <1>1, <1>2
  <1> QED  BY <1>1, <1>2, <1>3

\* f is what n steps make of base.
Follows(f, X, base, step, n) ==
  f \in [0 .. n -> X] /\ f[0] = base /\ \A i \in 1 .. n : f[i] = step[i][f[i - 1]]
AreSteps(step, X, n) == step \in [1 .. n -> [X -> X]]

\* A function that is defined by recursion over 0 .. n exists, and has the values
\* its definition says.
LEMMA RecursiveValues ==
  ASSUME NEW X, NEW base \in X, NEW n \in Nat, NEW step, AreSteps(step, X, n)
  PROVE  \E f : Follows(f, X, base, step, n)
  <1> DEFINE S == {m \in 0 .. n : \E f : Follows(f, X, base, step, m)}
  <1>1. 0 \in S
    <2>1. PICK f : f = [i \in 0 .. 0 |-> base]
      OBVIOUS
    <2>2. f \in [0 .. 0 -> X] /\ f[0] = base /\ \A i \in 1 .. 0 : FALSE
      BY <2>1
    <2>3. Follows(f, X, base, step, 0)
      BY <2>2, Zenon DEF Follows
    <2>4. 0 \in 0 .. n
      OBVIOUS
    <2> QED  BY <2>3, <2>4, Zenon
  <1>2. ASSUME NEW i \in 0 .. n - 1, i \in S PROVE i + 1 \in S
    <2>1. PICK f : Follows(f, X, base, step, i)
      BY <1>2, Zenon
    <2>2. /\ f \in [0 .. i -> X] /\ f[0] = base
          /\ \A j \in 1 .. i : f[j] = step[j][f[j - 1]]
      BY <2>1, Zenon DEF Follows
    <2>3. PICK x \in X : x = step[i + 1][f[i]]
      <3>1. i + 1 \in 1 .. n /\ i \in 0 .. i
        OBVIOUS
      <3> QED  BY <2>2, <3>1 DEF AreSteps
    <2>4. PICK g : g = [j \in 0 .. i + 1 |-> IF j <= i THEN f[j] ELSE x]
      OBVIOUS
    <2>5. g \in [0 .. i + 1 -> X]
      <3>1. ASSUME NEW j \in 0 .. i + 1 PROVE (IF j <= i THEN f[j] ELSE x) \in X
        <4>1. CASE j <= i
          BY <2>2, <4>1
        <4>2. CASE ~ (j <= i)
          BY <4>2
        <4> QED  BY <4>1, <4>2, Zenon
      <3> QED  BY <2>4, <3>1
    <2>6. \A j \in 0 .. i : g[j] = f[j]
      BY <2>4
    <2>7. g[i + 1] = x
      BY <2>4
    <2>8. \A j \in 1 .. i + 1 : g[j] = step[j][g[j - 1]]
      <3> TAKE j \in 1 .. i + 1
      <3>1. CASE j = i + 1
        <4>1. i \in 0 .. i /\ j - 1 = i
          BY <3>1
        <4> QED  BY <2>3, <2>6, <2>7, <3>1, <4>1, Zenon
      <3>2. CASE j # i + 1
        <4>1. j \in 1 .. i /\ j \in 0 .. i /\ j - 1 \in 0 .. i
          BY <3>2
        <4> QED  BY <2>2, <2>6, <4>1, Zenon
      <3> QED  BY <3>1, <3>2, Zenon
    <2>9. g[0] = base
      <3>1. 0 \in 0 .. i
        OBVIOUS
      <3> QED  BY <2>2, <2>6, <3>1, Zenon
    <2>10. Follows(g, X, base, step, i + 1)
      BY <2>5, <2>8, <2>9, Zenon DEF Follows
    <2>11. i + 1 \in 0 .. n
      OBVIOUS
    <2> QED  BY <2>10, <2>11, Zenon
  <1>3. n \in S
    <2> HIDE DEF S
    <2>1. (\A i \in 0 .. n - 1 : i \in S => i + 1 \in S) /\ n \in 0 .. n
      BY <1>2
    <2> QED  BY <1>1, <2>1, InductionUpTo, Zenon
  <1> QED  BY <1>3, Zenon

-----------------------------------------------------------------------------
(* Sums.                                                                   *)

\* How SumFunctionOnSet goes through a set: one member after the other.
Pick(s) == CHOOSE x \in s : TRUE
GoesThrough(iter, f, S) ==
  iter = [s \in SUBSET S |-> IF s = {} THEN 0 ELSE f[Pick(s)] + iter[s \ {Pick(s)}]]

\* The sum over a set, without the library's names.
LEMMA SumDefinition ==
  ASSUME NEW f, NEW S
  PROVE  SumFunctionOnSet(f, S) = (CHOOSE iter : GoesThrough(iter, f, S))[S]
  BY DEF SumFunctionOnSet, FoldFunctionOnSet, MapThenFoldSet, GoesThrough, Pick

\* The member that the sum takes next is one.
LEMMA PickIsMember == ASSUME NEW s, s # {} PROVE Pick(s) \in s
  BY DEF Pick

\* The members of a finite set's subsets can be counted down.
LEMMA SubsetCounts ==
  ASSUME NEW S, IsFiniteSet(S), NEW s \in SUBSET S
  PROVE  /\ Cardinality(s) \in 0 .. Cardinality(S)
         /\ \A x \in s : s \ {x} \in SUBSET S /\ Cardinality(s \ {x}) = Cardinality(s) - 1
  <1>1. IsFiniteSet(s) /\ Cardinality(s) <= Cardinality(S)
    BY FS_Subset
  <1>2. Cardinality(s) \in Nat /\ Cardinality(S) \in Nat
    BY <1>1, FS_CardinalityType
  <1>3. \A x \in s : Cardinality(s \ {x}) = Cardinality(s) - 1
    BY <1>1, FS_RemoveElement
  <1> QED  BY <1>1, <1>2, <1>3

\* Induction over the subsets of a finite set: a set of them that has the empty
\* one, and one that is not empty if it has those with a member less, has them all.
LEMMA SubsetInduction ==
  ASSUME NEW S, IsFiniteSet(S), NEW Good, {} \in Good,
         \A s \in SUBSET S : s # {} /\ (\A x \in s : s \ {x} \in Good) => s \in Good
  PROVE  \A s \in SUBSET S : s \in Good
  <1>n. PICK N \in Nat : N = Cardinality(S)
    BY FS_CardinalityType
  <1>1. ASSUME NEW s \in SUBSET S
        PROVE  /\ Cardinality(s) \in 0 .. N
               /\ Cardinality(s) = 0 => s = {}
               /\ \A x \in s : s \ {x} \in SUBSET S /\ Cardinality(s \ {x}) = Cardinality(s) - 1
    <2>1. IsFiniteSet(s)
      BY FS_Subset
    <2> QED  BY <1>n, <2>1, SubsetCounts, FS_EmptySet
  <1> DEFINE UpTo == {i \in 0 .. N : \A s \in SUBSET S : Cardinality(s) <= i => s \in Good}
  <1>2. 0 \in UpTo
    <2>1. ASSUME NEW s \in SUBSET S, Cardinality(s) <= 0 PROVE s \in Good
      <3>1. Cardinality(s) \in 0 .. N /\ (Cardinality(s) = 0 => s = {})
        BY <1>1
      <3>2. s = {}
        BY <2>1, <3>1
      <3> QED  BY <3>2, Zenon
    <2> QED  BY <2>1
  <1>3. \A i \in 0 .. N - 1 : i \in UpTo => i + 1 \in UpTo
    <2> SUFFICES ASSUME NEW i \in 0 .. N - 1, i \in UpTo,
                        NEW s \in SUBSET S, Cardinality(s) <= i + 1
                 PROVE  s \in Good
      <3>1. \A i \in 0 .. N - 1 : i + 1 \in 0 .. N
        OBVIOUS
      <3> QED  BY <3>1
    <2>1. \A x \in s : s \ {x} \in SUBSET S /\ Cardinality(s \ {x}) <= i
      BY <1>1
    <2>2. \A x \in s : s \ {x} \in Good
      BY <2>1
    <2> QED  BY <2>2
  <1>4. N \in UpTo
    <2> HIDE DEF UpTo
    <2>1. N \in 0 .. N
      OBVIOUS
    <2> QED  BY <1>2, <1>3, <2>1, InductionUpTo
  <1> QED  BY <1>1, <1>4

\* The way the sum goes through the subsets of a finite set exists.
LEMMA SumIterExists ==
  ASSUME NEW S, IsFiniteSet(S), NEW f, \A x \in S : f[x] \in Int
  PROVE  \E iter \in [SUBSET S -> Int] : GoesThrough(iter, f, S)
  <1> DEFINE Sum(g, s) == IF s = {} THEN 0 ELSE f[Pick(s)] + g[s \ {Pick(s)}]
  <1>n. PICK N \in Nat : N = Cardinality(S)
    BY FS_CardinalityType
  <1>0. N \in Nat /\ \A s \in SUBSET S : Cardinality(s) \in 0 .. N
    BY <1>n, SubsetCounts
  <1>1. PICK X : X = [SUBSET S -> Int]
    OBVIOUS
  <1>2. PICK none : none = [s \in SUBSET S |-> 0]
    OBVIOUS
  <1>3. PICK step \in [1 .. N + 2 -> [X -> X]] :
          step = [i \in 1 .. N + 2 |-> [g \in X |-> [s \in SUBSET S |-> Sum(g, s)]]]
    <2>1. ASSUME NEW g \in X, NEW s \in SUBSET S PROVE Sum(g, s) \in Int
      <3>1. CASE s # {}
        <4>1. Pick(s) \in S /\ s \ {Pick(s)} \in SUBSET S
          BY <3>1, PickIsMember
        <4> QED  BY <1>1, <4>1
      <3> QED  BY <3>1
    <2> HIDE DEF Sum
    <2>2. [g \in X |-> [s \in SUBSET S |-> Sum(g, s)]] \in [X -> X]
      BY <1>1, <2>1
    <2> QED  BY <2>2
  <1>4. PICK h \in [0 .. N + 2 -> X] : \A i \in 1 .. N + 2 : h[i] = step[i][h[i - 1]]
    <2>1. none \in X
      BY <1>1, <1>2
    <2>2. PICK n \in Nat : n = N + 2
      BY <1>0
    <2>3. AreSteps(step, X, n)
      BY <2>2 DEF AreSteps
    <2>4. PICK h : Follows(h, X, none, step, n)
      BY <2>1, <2>3, RecursiveValues
    <2> QED  BY <2>2, <2>4 DEF Follows
  <1>5. ASSUME NEW i \in 1 .. N + 2, NEW s \in SUBSET S
        PROVE  h[i][s] = Sum(h[i - 1], s)
    <2>1. h[i] = step[i][h[i - 1]] /\ i - 1 \in 0 .. N + 2
      BY <1>4
    <2>2. h[i - 1] \in X
      BY <1>4, <2>1
    <2> HIDE DEF Sum
    <2>3. step[i][h[i - 1]] = [r \in SUBSET S |-> Sum(h[i - 1], r)]
      BY <1>3, <2>2
    <2> QED  BY <2>1, <2>3
  <1> DEFINE Same == {i \in 0 .. N + 1 : \A s \in SUBSET S :
                        Cardinality(s) < i => h[i + 1][s] = h[i][s]}
  <1>6. 0 \in Same
    BY <1>0
  <1>7. \A i \in 0 .. N : i \in Same => i + 1 \in Same
    <2> SUFFICES ASSUME NEW i \in 0 .. N, i \in Same,
                        NEW s \in SUBSET S, Cardinality(s) < i + 1
                 PROVE  h[i + 2][s] = h[i + 1][s]
      <3>1. \A i \in 0 .. N : i + 1 \in 0 .. N + 1 /\ (i + 1) + 1 = i + 2
        BY <1>0
      <3> QED  BY <3>1
    <2>1. i + 2 \in 1 .. N + 2 /\ i + 1 \in 1 .. N + 2 /\ (i + 2) - 1 = i + 1 /\ (i + 1) - 1 = i
      BY <1>0
    <2>2. h[i + 2][s] = Sum(h[i + 1], s) /\ h[i + 1][s] = Sum(h[i], s)
      <3> HIDE DEF Sum
      <3>1. h[i + 2][s] = Sum(h[(i + 2) - 1], s) /\ h[i + 1][s] = Sum(h[(i + 1) - 1], s)
        BY <1>5, <2>1
      <3> QED  BY <2>1, <3>1
    <2>3. CASE s # {}
      <3> DEFINE r == s \ {Pick(s)}
      <3>1. r \in SUBSET S /\ Cardinality(r) = Cardinality(s) - 1 /\ Cardinality(s) \in Nat
        <4>1. Pick(s) \in s
          BY <2>3, PickIsMember, Zenon
        <4>2. /\ Cardinality(s \ {Pick(s)}) = Cardinality(s) - 1
              /\ Cardinality(s) \in 0 .. Cardinality(S)
          BY <4>1, SubsetCounts, Zenon
        <4>3. Cardinality(S) \in Nat
          BY FS_CardinalityType, Zenon
        <4> QED  BY <4>2, <4>3
      <3>2. Cardinality(r) < i
        BY <3>1
      <3>3. h[i + 1][r] = h[i][r]
        BY <3>1, <3>2
      <3> QED  BY <2>2, <2>3, <3>3
    <2> QED  BY <2>2, <2>3
  <1>8. N + 1 \in Same
    <2> HIDE DEF Same
    <2>1. N + 1 \in Nat /\ (N + 1) - 1 = N /\ N + 1 \in 0 .. N + 1
      BY <1>0
    <2> QED  BY <1>6, <1>7, <2>1, InductionUpTo
  <1>9. \A s \in SUBSET S : h[N + 1][s] = Sum(h[N + 1], s)
    <2> TAKE s \in SUBSET S
    <2>1. Cardinality(s) < N + 1
      BY <1>0
    <2>2. h[N + 2][s] = h[N + 1][s]
      BY <1>8, <2>1
    <2>3. h[N + 2][s] = Sum(h[N + 1], s)
      <3> HIDE DEF Sum
      <3>1. N + 2 \in 1 .. N + 2 /\ (N + 2) - 1 = N + 1
        BY <1>0
      <3>2. h[N + 2][s] = Sum(h[(N + 2) - 1], s)
        BY <1>5, <3>1
      <3> QED  BY <3>1, <3>2
    <2> QED  BY <2>2, <2>3
  <1>10. h[N + 1] \in [SUBSET S -> Int]
    <2>1. N + 1 \in 0 .. N + 2
      BY <1>0
    <2> QED  BY <1>1, <1>4, <2>1
  <1>11. GoesThrough(h[N + 1], f, S)
    BY <1>9, <1>10 DEF GoesThrough
  <1> QED  BY <1>10, <1>11

\* There is one way to go through a set, and one for all of its subsets.
LEMMA SumIterUnique ==
  ASSUME NEW S, IsFiniteSet(S), NEW T \in SUBSET S, NEW f,
         NEW g, GoesThrough(g, f, S), NEW h, GoesThrough(h, f, T)
  PROVE  h[T] = g[T]
  <1> DEFINE Same == {s \in SUBSET T : h[s] = g[s]}
  <1>1. ASSUME NEW s \in SUBSET T
        PROVE  /\ s # {} => /\ h[s] = f[Pick(s)] + h[s \ {Pick(s)}]
                            /\ g[s] = f[Pick(s)] + g[s \ {Pick(s)}]
               /\ s = {} => h[s] = 0 /\ g[s] = 0
    <2>1. s \in SUBSET S
      OBVIOUS
    <2>2. h[s] = IF s = {} THEN 0 ELSE f[Pick(s)] + h[s \ {Pick(s)}]
      BY DEF GoesThrough
    <2>3. g[s] = IF s = {} THEN 0 ELSE f[Pick(s)] + g[s \ {Pick(s)}]
      BY <2>1 DEF GoesThrough
    <2> QED  BY <2>2, <2>3
  <1>2. {} \in Same
    BY <1>1
  <1>3. ASSUME NEW s \in SUBSET T, s # {}, \A x \in s : s \ {x} \in Same
        PROVE  s \in Same
    BY <1>1, <1>3, PickIsMember
  <1>4. IsFiniteSet(T)
    BY FS_Subset
  <1>5. T \in Same
    <2> HIDE DEF Same
    <2> QED  BY <1>2, <1>3, <1>4, SubsetInduction
  <1> QED  BY <1>5

\* The sum as it is computed.
LEMMA SumPicked ==
  ASSUME NEW S, IsFiniteSet(S), NEW f, \A x \in S : f[x] \in Int
  PROVE  /\ SumFunctionOnSet(f, S) \in Int
         /\ S = {} => SumFunctionOnSet(f, S) = 0
         /\ S # {} => SumFunctionOnSet(f, S)
                        = f[Pick(S)] + SumFunctionOnSet(f, S \ {Pick(S)})
  <1>1. PICK g \in [SUBSET S -> Int] : GoesThrough(g, f, S)
    BY SumIterExists
  <1>2. \A T \in SUBSET S : SumFunctionOnSet(f, T) = g[T]
    <2> TAKE T \in SUBSET S
    <2>1. IsFiniteSet(T)
      BY FS_Subset
    <2>2. \E h : GoesThrough(h, f, T)
      BY <2>1, SumIterExists
    <2> DEFINE h == CHOOSE iter : GoesThrough(iter, f, T)
    <2>3. GoesThrough(h, f, T)
      BY <2>2
    <2>4. SumFunctionOnSet(f, T) = h[T]
      BY SumDefinition
    <2> HIDE DEF h
    <2> QED  BY <1>1, <2>3, <2>4, SumIterUnique
  <1>3. g[S] = IF S = {} THEN 0 ELSE f[Pick(S)] + g[S \ {Pick(S)}]
    BY <1>1 DEF GoesThrough
  <1> QED  BY <1>1, <1>2, <1>3

\* The same for every subset: the sum of none of them is wanted by a fact about all.
SumStep(f, s) ==
  /\ SumFunctionOnSet(f, s) \in Int
  /\ s = {} => SumFunctionOnSet(f, s) = 0
  /\ s # {} => \E c \in s : SumFunctionOnSet(f, s) = f[c] + SumFunctionOnSet(f, s \ {c})

LEMMA SumsPicked ==
  ASSUME NEW S, IsFiniteSet(S), NEW f, \A x \in S : f[x] \in Int
  PROVE  \A s \in SUBSET S : IsFiniteSet(s) /\ SumStep(f, s)
  <1> TAKE s \in SUBSET S
  <1>1. IsFiniteSet(s) /\ \A x \in s : f[x] \in Int
    BY FS_Subset
  <1>2. /\ SumFunctionOnSet(f, s) \in Int
        /\ s = {} => SumFunctionOnSet(f, s) = 0
        /\ s # {} => SumFunctionOnSet(f, s)
                       = f[Pick(s)] + SumFunctionOnSet(f, s \ {Pick(s)})
    BY <1>1, SumPicked, Zenon
  <1>3. s # {} => Pick(s) \in s
    BY PickIsMember
  <1> QED  BY <1>1, <1>2, <1>3, Zenon DEF SumStep

\* It may be taken apart at any of its members.
LEMMA SumApart ==
  ASSUME NEW S, IsFiniteSet(S), NEW f, \A x \in S : f[x] \in Int, NEW x \in S
  PROVE  SumFunctionOnSet(f, S) = f[x] + SumFunctionOnSet(f, S \ {x})
  <1> DEFINE Sum(s) == SumFunctionOnSet(f, s)
             Apart == {s \in SUBSET S : \A y \in s : Sum(s) = f[y] + Sum(s \ {y})}
  <1>0. \A s \in SUBSET S : SumStep(f, s)
    BY SumsPicked
  <1>1. ASSUME NEW s \in SUBSET S
        PROVE  /\ Sum(s) \in Int
               /\ s # {} => \E c \in s : Sum(s) = f[c] + Sum(s \ {c})
    BY <1>0, Zenon DEF SumStep
  <1> HIDE DEF Sum
  <1>2. {} \in Apart
    OBVIOUS
  <1>3. ASSUME NEW s \in SUBSET S, s # {}, \A y \in s : s \ {y} \in Apart
        PROVE  s \in Apart
    <2> SUFFICES ASSUME NEW y \in s PROVE Sum(s) = f[y] + Sum(s \ {y})
      OBVIOUS
    <2>1. PICK c \in s : Sum(s) = f[c] + Sum(s \ {c})
      BY <1>1, <1>3, Zenon
    <2>2. CASE y # c
      <3>1. /\ Sum(s \ {c}) = f[y] + Sum((s \ {c}) \ {y})
            /\ Sum(s \ {y}) = f[c] + Sum((s \ {y}) \ {c})
        BY <1>3, <2>2
      <3>2. (s \ {c}) \ {y} = (s \ {y}) \ {c} /\ (s \ {y}) \ {c} \in SUBSET S
        OBVIOUS
      <3>3. f[c] \in Int /\ f[y] \in Int /\ Sum((s \ {y}) \ {c}) \in Int
        BY <1>1, <3>2
      <3>4. /\ Sum(s) = f[c] + (f[y] + Sum((s \ {y}) \ {c}))
            /\ f[y] + Sum(s \ {y}) = f[y] + (f[c] + Sum((s \ {y}) \ {c}))
        BY <2>1, <3>1, <3>2, Zenon
      <3>5. \A a, b, d \in Int : a + (b + d) = b + (a + d)
        OBVIOUS
      <3> QED  BY <3>3, <3>4, <3>5, Zenon
    <2> QED  BY <2>1, <2>2, Zenon
  <1>4. S \in Apart
    <2> HIDE DEF Apart
    <2>1. \A s \in SUBSET S : s # {} /\ (\A y \in s : s \ {y} \in Apart) => s \in Apart
      BY <1>3, Zenon
    <2>2. \A s \in SUBSET S : s \in Apart
      BY <1>2, <2>1, SubsetInduction, Zenon
    <2> QED  BY <2>2
  <1> QED  BY <1>4 DEF Sum

\* Two functions that agree on a set have the same sum over it.
LEMMA SumSame ==
  ASSUME NEW S, IsFiniteSet(S), NEW f, NEW g, \A x \in S : f[x] \in Int /\ g[x] = f[x]
  PROVE  SumFunctionOnSet(g, S) = SumFunctionOnSet(f, S)
  <1> DEFINE Agree == {s \in SUBSET S : SumFunctionOnSet(g, s) = SumFunctionOnSet(f, s)}
  <1>0. \A s \in SUBSET S : SumStep(f, s) /\ SumStep(g, s)
    <2>1. \A x \in S : f[x] \in Int /\ g[x] \in Int
      OBVIOUS
    <2> QED  BY <2>1, SumsPicked
  <1>1. {} \in Agree
    <2>1. {} \in SUBSET S
      OBVIOUS
    <2> QED  BY <1>0, <2>1, Zenon DEF SumStep
  <1>2. ASSUME NEW s \in SUBSET S, s # {}, \A y \in s : s \ {y} \in Agree
        PROVE  s \in Agree
    <2>1. PICK c \in s : SumFunctionOnSet(f, s) = f[c] + SumFunctionOnSet(f, s \ {c})
      BY <1>0, <1>2, Zenon DEF SumStep
    <2>2. SumFunctionOnSet(g, s) = g[c] + SumFunctionOnSet(g, s \ {c})
      <3>1. IsFiniteSet(s) /\ \A x \in s : g[x] \in Int
        BY FS_Subset
      <3> QED  BY <3>1, SumApart
    <2>3. g[c] = f[c] /\ SumFunctionOnSet(g, s \ {c}) = SumFunctionOnSet(f, s \ {c})
      BY <1>2
    <2> QED  BY <2>1, <2>2, <2>3, Zenon
  <1>3. S \in Agree
    <2> HIDE DEF Agree
    <2>1. \A s \in SUBSET S : s # {} /\ (\A y \in s : s \ {y} \in Agree) => s \in Agree
      BY <1>2, Zenon
    <2>2. \A s \in SUBSET S : s \in Agree
      BY <1>1, <2>1, SubsetInduction, Zenon
    <2> QED  BY <2>2
  <1> QED  BY <1>3

\* A sum of naturals is one.
LEMMA SumNat ==
  ASSUME NEW S, IsFiniteSet(S), NEW f, \A x \in S : f[x] \in Nat
  PROVE  SumFunctionOnSet(f, S) \in Nat
  <1> DEFINE Nats == {s \in SUBSET S : SumFunctionOnSet(f, s) \in Nat}
  <1>0. \A s \in SUBSET S : SumStep(f, s)
    BY SumsPicked
  <1>1. {} \in Nats
    <2>1. SumFunctionOnSet(f, {}) = 0
      BY <1>0, Zenon DEF SumStep
    <2> QED  BY <2>1
  <1>2. ASSUME NEW s \in SUBSET S, s # {}, \A y \in s : s \ {y} \in Nats
        PROVE  s \in Nats
    <2>1. PICK c \in s : SumFunctionOnSet(f, s) = f[c] + SumFunctionOnSet(f, s \ {c})
      BY <1>0, <1>2, Zenon DEF SumStep
    <2>2. f[c] \in Nat /\ SumFunctionOnSet(f, s \ {c}) \in Nat
      BY <1>2
    <2>3. \A a, b \in Nat : a + b \in Nat
      OBVIOUS
    <2>4. SumFunctionOnSet(f, s) \in Nat
      BY <2>1, <2>2, <2>3, Zenon
    <2> QED  BY <2>4
  <1>3. S \in Nats
    <2> HIDE DEF Nats
    <2>1. \A s \in SUBSET S : s # {} /\ (\A y \in s : s \ {y} \in Nats) => s \in Nats
      BY <1>2, Zenon
    <2>2. \A s \in SUBSET S : s \in Nats
      BY <1>1, <2>1, SubsetInduction, Zenon
    <2> QED  BY <2>2
  <1> QED  BY <1>3

\* A sum of numbers up to m is at most m for each.
LEMMA SumBound ==
  ASSUME NEW S, IsFiniteSet(S), NEW m \in Nat, NEW f, \A x \in S : f[x] \in 0 .. m
  PROVE  SumFunctionOnSet(f, S) \in 0 .. Cardinality(S) * m
  <1> DEFINE Sum(s) == SumFunctionOnSet(f, s)
             Bounded == {s \in SUBSET S : Sum(s) \in 0 .. Cardinality(s) * m}
  <1>0. \A s \in SUBSET S : IsFiniteSet(s) /\ SumStep(f, s)
    <2>1. \A x \in S : f[x] \in Int
      OBVIOUS
    <2> QED  BY <2>1, SumsPicked
  <1>1. ASSUME NEW s \in SUBSET S
        PROVE  /\ s = {} => Sum(s) = 0
               /\ s # {} => \E c \in s : Sum(s) = f[c] + Sum(s \ {c})
    BY <1>0, Zenon DEF SumStep
  <1> HIDE DEF Sum
  <1>2. {} \in Bounded
    <2>1. Sum({}) = 0 /\ Cardinality({}) = 0
      BY <1>1, FS_EmptySet
    <2> QED  BY <2>1
  <1>3. ASSUME NEW s \in SUBSET S, s # {}, \A y \in s : s \ {y} \in Bounded
        PROVE  s \in Bounded
    <2>1. PICK c \in s : Sum(s) = f[c] + Sum(s \ {c})
      BY <1>1, <1>3, Zenon
    <2>2. PICK n \in Nat : n = Cardinality(s \ {c})
      BY <1>0, FS_CardinalityType
    <2>3. Cardinality(s) = n + 1
      <3>1. Cardinality(s \ {c}) = Cardinality(s) - 1 /\ Cardinality(s) \in Nat
        BY <1>0, FS_RemoveElement, FS_CardinalityType
      <3> QED  BY <2>2, <3>1
    <2>4. Sum(s \ {c}) \in 0 .. n * m
      BY <1>3, <2>2
    <2>5. f[c] \in 0 .. m
      OBVIOUS
    <2>6. (n + 1) * m = n * m + m /\ n * m \in Nat
      BY <2>2
    <2>7. Sum(s) \in 0 .. (n + 1) * m
      BY <2>1, <2>4, <2>5, <2>6
    <2> QED  BY <2>3, <2>7
  <1>4. S \in Bounded
    <2> HIDE DEF Bounded
    <2>1. \A s \in SUBSET S : s # {} /\ (\A y \in s : s \ {y} \in Bounded) => s \in Bounded
      BY <1>3, Zenon
    <2>2. \A s \in SUBSET S : s \in Bounded
      BY <1>2, <2>1, SubsetInduction, Zenon
    <2> QED  BY <2>2
  <1> QED  BY <1>4 DEF Sum

\* What a part of a set contributes is gone when its values become zero.
LEMMA SumCleared ==
  ASSUME NEW S, IsFiniteSet(S), NEW T \in SUBSET S, NEW f, NEW g,
         \A x \in S : f[x] \in Int /\ g[x] = IF x \in T THEN 0 ELSE f[x]
  PROVE  SumFunctionOnSet(g, S) = SumFunctionOnSet(f, S) - SumFunctionOnSet(f, T)
  <1> DEFINE F(s) == SumFunctionOnSet(f, s)
             G(s) == SumFunctionOnSet(g, s)
             Cleared == {s \in SUBSET S : G(s) = F(s) - F(s \cap T)}
  <1>0. \A x \in S : f[x] \in Int /\ g[x] \in Int
    OBVIOUS
  <1>1. ASSUME NEW s \in SUBSET S
        PROVE  /\ F(s) \in Int
               /\ s = {} => F(s) = 0 /\ G(s) = 0
               /\ s # {} => \E c \in s : G(s) = g[c] + G(s \ {c})
    <2>1. SumStep(f, s) /\ SumStep(g, s)
      BY <1>0, SumsPicked
    <2> QED  BY <2>1, Zenon DEF SumStep
  <1>2. ASSUME NEW s \in SUBSET S, NEW c \in s
        PROVE  F(s) = f[c] + F(s \ {c})
    <2>1. IsFiniteSet(s) /\ \A x \in s : f[x] \in Int
      BY FS_Subset
    <2> QED  BY <2>1, SumApart
  <1> HIDE DEF F, G
  <1>3. {} \in Cleared
    <2>1. {} \in SUBSET S /\ {} \cap T = {}
      OBVIOUS
    <2>2. F({}) = 0 /\ G({}) = 0
      BY <1>1, <2>1
    <2>3. 0 = 0 - 0
      OBVIOUS
    <2> QED  BY <2>1, <2>2, <2>3, Zenon
  <1>4. ASSUME NEW s \in SUBSET S, s # {}, \A y \in s : s \ {y} \in Cleared
        PROVE  s \in Cleared
    <2>1. PICK c \in s : G(s) = g[c] + G(s \ {c})
      BY <1>1, <1>4, Zenon
    <2>2. F(s) = f[c] + F(s \ {c})
      BY <1>2
    <2>3. G(s \ {c}) = F(s \ {c}) - F((s \ {c}) \cap T)
      BY <1>4
    <2>4. f[c] \in Int /\ F(s \ {c}) \in Int /\ F((s \ {c}) \cap T) \in Int
      <3>1. s \ {c} \in SUBSET S /\ (s \ {c}) \cap T \in SUBSET S /\ c \in S
        OBVIOUS
      <3> QED  BY <1>0, <1>1, <3>1, Zenon
    <2>5. G(s) = F(s) - F(s \cap T)
      <3>1. CASE c \in T
        <4>1. (s \cap T) \ {c} = (s \ {c}) \cap T /\ s \cap T \in SUBSET S /\ c \in s \cap T
          BY <3>1
        <4>2. F(s \cap T) = f[c] + F((s \ {c}) \cap T)
          <5>1. F(s \cap T) = f[c] + F((s \cap T) \ {c})
            BY <1>2, <4>1, Zenon
          <5> QED  BY <4>1, <5>1, Zenon
        <4>3. g[c] = 0
          BY <3>1
        <4>4. \A a, b, d \in Int : 0 + (b - d) = (a + b) - (a + d)
          OBVIOUS
        <4>5. 0 + (F(s \ {c}) - F((s \ {c}) \cap T))
                = (f[c] + F(s \ {c})) - (f[c] + F((s \ {c}) \cap T))
          BY <2>4, <4>4, Zenon
        <4> QED  BY <2>1, <2>2, <2>3, <4>2, <4>3, <4>5, Zenon
      <3>2. CASE c \notin T
        <4>1. (s \ {c}) \cap T = s \cap T
          BY <3>2
        <4>2. g[c] = f[c]
          BY <3>2
        <4>3. \A a, b, d \in Int : a + (b - d) = (a + b) - d
          OBVIOUS
        <4>4. f[c] + (F(s \ {c}) - F((s \ {c}) \cap T))
                = (f[c] + F(s \ {c})) - F((s \ {c}) \cap T)
          BY <2>4, <4>3, Zenon
        <4> QED  BY <2>1, <2>2, <2>3, <4>1, <4>2, <4>4, Zenon
      <3> QED  BY <3>1, <3>2, Zenon
    <2> QED  BY <2>5
  <1>5. S \in Cleared
    <2> HIDE DEF Cleared
    <2>1. \A s \in SUBSET S : s # {} /\ (\A y \in s : s \ {y} \in Cleared) => s \in Cleared
      BY <1>4, Zenon
    <2>2. \A s \in SUBSET S : s \in Cleared
      BY <1>3, <2>1, SubsetInduction, Zenon
    <2> QED  BY <2>2
  <1>6. S \cap T = T
    OBVIOUS
  <1> QED  BY <1>5, <1>6, Zenon DEF F, G

\* One value more, or another value.
LEMMA SumMore ==
  ASSUME NEW S, IsFiniteSet(S), NEW x, x \notin S, NEW f, NEW g,
         \A y \in S : f[y] \in Int /\ g[y] = f[y], g[x] \in Int, NEW T, T = S \cup {x}
  PROVE  SumFunctionOnSet(g, T) = SumFunctionOnSet(f, S) + g[x]
  <1>1. IsFiniteSet(S \cup {x}) /\ (S \cup {x}) \ {x} = S
    BY FS_AddElement
  <1>2. \A y \in S \cup {x} : g[y] \in Int
    OBVIOUS
  <1>3. SumFunctionOnSet(g, T) = g[x] + SumFunctionOnSet(g, S)
    BY <1>1, <1>2, SumApart
  <1>4. SumFunctionOnSet(g, S) = SumFunctionOnSet(f, S) /\ SumFunctionOnSet(f, S) \in Int
    BY SumSame, SumPicked
  <1> QED  BY <1>3, <1>4

\* Another value at a place that is summed up already.
LEMMA SumChanged ==
  ASSUME NEW S, IsFiniteSet(S), NEW x \in S, NEW f, NEW g,
         \A y \in S : f[y] \in Int /\ (y # x => g[y] = f[y]), g[x] \in Int
  PROVE  SumFunctionOnSet(g, S) = (SumFunctionOnSet(f, S) - f[x]) + g[x]
  <1>1. IsFiniteSet(S \ {x}) /\ (S \ {x}) \cup {x} = S
    BY FS_RemoveElement
  <1>2. SumFunctionOnSet(f, S) = f[x] + SumFunctionOnSet(f, S \ {x})
    BY SumApart
  <1>3. SumFunctionOnSet(f, S \ {x}) \in Int
    BY <1>1, SumPicked
  <1>4. SumFunctionOnSet(g, (S \ {x}) \cup {x}) = SumFunctionOnSet(f, S \ {x}) + g[x]
    <2>1. x \notin S \ {x} /\ \A y \in S \ {x} : f[y] \in Int /\ g[y] = f[y]
      OBVIOUS
    <2> QED  BY <1>1, <2>1, SumMore
  <1>5. PICK rest \in Int : rest = SumFunctionOnSet(f, S \ {x})
    BY <1>3
  <1>6. SumFunctionOnSet(g, S) = rest + g[x]
    BY <1>1, <1>4, <1>5, Zenon
  <1>7. SumFunctionOnSet(f, S) = f[x] + rest
    BY <1>2, <1>5, Zenon
  <1>8. \A a, b \in Int : rest + b = ((a + rest) - a) + b
    OBVIOUS
  <1>9. rest + g[x] = ((f[x] + rest) - f[x]) + g[x]
    BY <1>8
  <1> QED  BY <1>6, <1>7, <1>9, Zenon

-------------------------------------------------------------------------------
(* Recursion and induction from the end of an interval, where a value at a     *)
(* position is made of the value at a later one.                             *)

\* next leads from the positions of at, of 1..N, to later ones.
Onward(next, at, N) ==
  at \in SUBSET (1..N) /\ next \in [at -> 1..N + 1] /\ \A p \in at : next[p] > p

Makes(make, at, V) == make \in [at -> [V -> V]]

Advances(h, V, none, at, next, make, N) ==
  /\ h \in [1..N + 1 -> V]
  /\ \A p \in 1..N + 1 : h[p] = IF p \in at THEN make[p][h[next[p]]] ELSE none

\* A function that is defined by a recursion towards the end of a interval exists:
\* at the positions of at, a value is made of the value at a later position.
LEMMA ForwardRecursion ==
  ASSUME NEW N \in Nat, NEW V, NEW none \in V, NEW at, NEW next, Onward(next, at, N),
         NEW make, Makes(make, at, V)
  PROVE  \E h : Advances(h, V, none, at, next, make, N)
  <1>0. /\ at \in SUBSET (1..N) /\ next \in [at -> 1..N + 1] /\ \A p \in at : next[p] > p
        /\ make \in [at -> [V -> V]]
    BY DEF Onward, Makes
  <1> DEFINE X == [1..N + 1 -> V]
             Step(x) == [p \in 1..N + 1 |-> IF p \in at THEN make[p][x[next[p]]] ELSE none]
             base == [p \in 1..N + 1 |-> none]
             step == [i \in 1..N + 2 |-> [x \in X |-> Step(x)]]
  <1>1. base \in X
    OBVIOUS
  <1>2. ASSUME NEW x \in X PROVE Step(x) \in X
    BY <1>0
  <1>3. step \in [1..N + 2 -> [X -> X]]
    BY <1>2
  <1>4. PICK r : Follows(r, X, base, step, N + 2)
    <2> HIDE DEF X, base, step
    <2>1. N + 2 \in Nat /\ AreSteps(step, X, N + 2)
      BY <1>3 DEF AreSteps
    <2> QED
      BY <1>1, <2>1, RecursiveValues
  <1>5. ASSUME NEW i \in 0..N + 1 PROVE r[i + 1] = Step(r[i]) /\ r[i] \in X
    <2>1. (i + 1) - 1 = i /\ i + 1 \in 1..N + 2 /\ i \in 0..N + 2
      OBVIOUS
    <2>2. r[i] \in X
      <3> HIDE DEF X, base, step
      <3> QED
        BY <1>4, <2>1 DEF Follows
    <2>3. r[i + 1] = step[i + 1][r[i]]
      <3> HIDE DEF step, base, X
      <3> QED
        BY <1>4, <2>1 DEF Follows
    <2>4. step[i + 1][r[i]] = Step(r[i])
      <3> HIDE DEF X
      <3> QED
        BY <2>1, <2>2
    <2> QED
      BY <2>2, <2>3, <2>4
  <1> HIDE DEF X, base, step
  <1> DEFINE Settled == {i \in 0..N + 1 : \A p \in N + 2 - i..N + 1 : r[i + 1][p] = r[i][p]}
  <1>6. 0 \in Settled
    OBVIOUS
  <1>7. ASSUME NEW i \in 0..N, i \in Settled PROVE i + 1 \in Settled
    <2>1. i + 1 \in 0..N + 1 /\ i \in 0..N + 1
      OBVIOUS
    <2>2. r[(i + 1) + 1] = Step(r[i + 1]) /\ r[i + 1] = Step(r[i])
      BY <1>5, <2>1
    <2>3. ASSUME NEW p \in N + 2 - (i + 1)..N + 1 PROVE Step(r[i + 1])[p] = Step(r[i])[p]
      <3>1. p \in 1..N + 1
        BY <2>1
      <3>2. CASE p \in at
        <4>1. next[p] \in N + 2 - i..N + 1
          BY <1>0, <2>3, <3>2
        <4>2. r[i + 1][next[p]] = r[i][next[p]]
          BY <1>7, <4>1
        <4> QED
          BY <3>1, <4>2
      <3>3. CASE p \notin at
        BY <3>1, <3>3
      <3> QED
        BY <3>2, <3>3
    <2> QED
      BY <2>1, <2>2, <2>3
  <1>8. N + 1 \in Settled
    <2> HIDE DEF Settled
    <2>1. N + 1 \in Nat /\ N + 1 \in 0..N + 1 /\ \A i \in 0..(N + 1) - 1 : i \in 0..N
      OBVIOUS
    <2>2. \A i \in 0..(N + 1) - 1 : i \in Settled => i + 1 \in Settled
      BY <1>7, <2>1
    <2> QED
      BY <1>6, <2>1, <2>2, InductionUpTo
  <1>9. PICK h \in X : h = r[N + 1]
    <2>1. N + 1 \in 0..N + 1
      OBVIOUS
    <2> QED
      BY <1>5, <2>1
  <1>10. \A p \in 1..N + 1 : h[p] = Step(h)[p]
    <2>1. r[(N + 1) + 1] = Step(h)
      BY <1>5, <1>9
    <2>2. \A p \in N + 2 - (N + 1)..N + 1 : r[(N + 1) + 1][p] = h[p]
      BY <1>8, <1>9
    <2> QED
      BY <2>1, <2>2
  <1>11. h \in [1..N + 1 -> V]
    BY <1>9 DEF X
  <1>12. \A p \in 1..N + 1 : h[p] = IF p \in at THEN make[p][h[next[p]]] ELSE none
    BY <1>10
  <1> QED
    BY <1>11, <1>12, Zenon DEF Advances

\* Induction from the end of an interval: what holds at p when it holds at the next
\* position holds everywhere.
LEMMA ForwardInduction ==
  ASSUME NEW N \in Nat, NEW at, NEW next, Onward(next, at, N),
         NEW Good, \A p \in 1..N + 1 : (p \in at => next[p] \in Good) => p \in Good
  PROVE  \A p \in 1..N + 1 : p \in Good
  <1>0. /\ at \in SUBSET (1..N) /\ next \in [at -> 1..N + 1]
        /\ \A p \in at : next[p] > p
    BY Zenon DEF Onward
  <1> DEFINE T == {i \in 0..N : \E q \in 1..N + 1 : q + i = N + 1 /\ q \notin Good}
  <1>1. ASSUME NEW p \in 1..N + 1, p \notin Good PROVE N + 1 - p \in T
    <2>1. N + 1 - p \in 0..N /\ p + (N + 1 - p) = N + 1
      OBVIOUS
    <2> QED
      BY <1>1, <2>1, Zenon
  <1> SUFFICES ASSUME NEW p \in 1..N + 1, p \notin Good PROVE FALSE
    OBVIOUS
  <1>2. T \in SUBSET Nat
    OBVIOUS
  <1>3. T # {}
    <2> HIDE DEF T
    <2> QED
      BY <1>1, Zenon
  <1>4. PICK i \in T : \A j \in T : i <= j
    <2> HIDE DEF T
    <2> QED
      BY <1>2, <1>3, LeastNat, Zenon
  <1>5. i \in 0..N /\ \E q \in 1..N + 1 : q + i = N + 1 /\ q \notin Good
    BY Zenon
  <1>6. PICK q \in 1..N + 1 : q + i = N + 1 /\ q \notin Good
    BY <1>5, Zenon
  <1>7. q \in at /\ next[q] \notin Good
    BY <1>6, Zenon
  <1>8. PICK r \in 1..N + 1 : r = next[q] /\ r > q
    BY <1>0, <1>7
  <1>9. r \notin Good
    BY <1>7, <1>8, Zenon
  <1> HIDE DEF T
  <1>10. i <= N + 1 - r
    BY <1>1, <1>4, <1>9, Zenon
  <1> QED
    BY <1>5, <1>6, <1>8, <1>10

=================================================================================
