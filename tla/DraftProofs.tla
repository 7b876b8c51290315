---------------------------- MODULE DraftProofs ----------------------------
(***************************************************************************)
(* Proofs about drafts, for every table, pool and theme.                    *)
(*                                                                         *)
(* What a draft does at once is written with functions over numbers: the   *)
(* settling loop, the seats in the order of joining, the rounds of a theme. *)
(* The first sections therefore prove induction over the natural numbers,  *)
(* that recursive functions exist, and what sums over a finite set are.     *)
(* Sets stand for predicates: the library's theorems that take an operator  *)
(* cannot be used, but those about well-founded sets can.                   *)
(***************************************************************************)
EXTENDS Draft, WellFoundedInduction, FiniteSetTheorems, TLAPS

-----------------------------------------------------------------------------
(* Numbers.                                                                *)

LEMMA LeastOf ==
  ASSUME NEW R, IsWellFoundedOn(R, Nat), \A x, y \in Nat : y < x => <<y, x>> \in R,
         NEW T, T \subseteq Nat, T # {}
  PROVE  \E x \in T : \A y \in T : x <= y
<1>1. PICK x \in T : \A y \in T : ~(<<y, x>> \in R)
  BY WFMin
<1>2. \A y \in T : ~(y < x)
  BY <1>1
<1>3. \A y \in T : y \in Nat /\ x \in Nat
  OBVIOUS
<1> QED BY <1>2, <1>3

(* Every set of natural numbers has a least element. *)
LEMMA LeastNumber ==
  ASSUME NEW T, T \subseteq Nat, T # {}
  PROVE  \E x \in T : \A y \in T : x <= y
<1> DEFINE R == OpToRel(<, Nat)
<1>1. IsWellFoundedOn(R, Nat)
  BY NatLessThanWellFounded
<1>2. \A x, y \in Nat : y < x => <<y, x>> \in R
  BY DEF OpToRel
<1> HIDE DEF R
<1> QED BY <1>1, <1>2, LeastOf

(* Induction: a set with 0 and every successor holds all numbers. *)
LEMMA Induction ==
  ASSUME NEW T, 0 \in T, \A n \in Nat : n \in T => n + 1 \in T
  PROVE  \A n \in Nat : n \in T
<1> DEFINE Q == Nat \ T
<1>1. CASE Q # {}
  <2>1. PICK x \in Q : \A y \in Q : x <= y
    BY <1>1, LeastNumber
  <2> QED BY <2>1
<1>2. CASE Q = {}
  BY <1>2
<1> QED BY <1>1, <1>2

(* A function may be defined by its first value and by its next value. *)
StepsIn(G, n, X) == \A i \in 1..n, x \in X : G[<<i, x>>] \in X
Follows(f, x0, G, n, X) ==
    f \in [0..n -> X] /\ f[0] = x0 /\ \A i \in 1..n : f[i] = G[<<i, f[i - 1]>>]

LEMMA Recursion ==
  ASSUME NEW X, NEW x0 \in X, NEW n \in Nat, NEW G, StepsIn(G, n, X)
  PROVE  \E f : Follows(f, x0, G, n, X)
<1> USE DEF StepsIn, Follows
<1> DEFINE Fits(f, k) == f \in [0..k -> X] /\ f[0] = x0 /\ \A i \in 1..k : f[i] = G[<<i, f[i - 1]>>]
           T == {k \in Nat : k <= n => \E f : Fits(f, k)}
<1>1. 0 \in T
  <2>1. Fits([i \in 0..0 |-> x0], 0)
    OBVIOUS
  <2> QED BY <2>1
<1>2. ASSUME NEW k \in Nat, k \in T PROVE k + 1 \in T
  <2> SUFFICES ASSUME k + 1 <= n PROVE \E f : Fits(f, k + 1)
    OBVIOUS
  <2>1. PICK f : Fits(f, k)
    BY <1>2
  <2> DEFINE g == [i \in 0..(k + 1) |-> IF i = k + 1 THEN G[<<k + 1, f[k]>>] ELSE f[i]]
  <2>2. f[k] \in X /\ G[<<k + 1, f[k]>>] \in X
    BY <2>1
  <2>3. g \in [0..(k + 1) -> X] /\ g[0] = x0
    BY <2>1, <2>2
  <2>4. ASSUME NEW i \in 1..(k + 1) PROVE g[i] = G[<<i, g[i - 1]>>]
    <3>1. CASE i = k + 1
      BY <3>1
    <3>2. CASE i # k + 1
      BY <2>1, <3>2
    <3> QED BY <3>1, <3>2
  <2>5. Fits(g, k + 1)
    BY <2>3, <2>4
  <2> QED BY <2>5
<1> HIDE DEF T
<1>3. n \in T
  BY <1>1, <1>2, Induction
<1> QED BY <1>3 DEF T

(* The same with a set of its own for every value. *)
Climbs(G, n, X) == \A i \in 1..n : \A x \in X[i - 1] : G[<<i, x>>] \in X[i]
Chains(f, x0, G, n, X) ==
    /\ DOMAIN f = 0..n /\ f[0] = x0 /\ \A i \in 1..n : f[i] = G[<<i, f[i - 1]>>]
    /\ \A i \in 0..n : f[i] \in X[i]

LEMMA Chain ==
  ASSUME NEW n \in Nat, NEW X, NEW x0, x0 \in X[0], NEW G, Climbs(G, n, X)
  PROVE  \E f : Chains(f, x0, G, n, X)
<1> DEFINE Y == {p \in (0..n) \X UNION {X[i] : i \in 0..n} : p[2] \in X[p[1]]}
           H == [q \in (1..n) \X Y |-> IF q[2][1] = q[1] - 1 THEN <<q[1], G[<<q[1], q[2][2]>>]>>
                                       ELSE q[2]]
<1>1. <<0, x0>> \in Y
  BY DEF Climbs
<1>2. \A i \in 1..n, p \in Y : H[<<i, p>>] = IF p[1] = i - 1 THEN <<i, G[<<i, p[2]>>]>> ELSE p
  <2> HIDE DEF Y
  <2> QED OBVIOUS
<1>3. ASSUME NEW i \in 1..n, NEW p \in Y PROVE H[<<i, p>>] \in Y
  <2>1. CASE p[1] = i - 1
    <3>1. i \in 0..n /\ p[2] \in X[i - 1]
      BY <2>1
    <3>2. G[<<i, p[2]>>] \in X[i]
      BY <3>1 DEF Climbs
    <3>3. <<i, G[<<i, p[2]>>]>> \in Y
      BY <3>1, <3>2
    <3> QED BY <1>2, <2>1, <3>3
  <2>2. CASE p[1] # i - 1
    BY <1>2, <2>2
  <2> QED BY <2>1, <2>2
<1> HIDE DEF H
<1>4. PICK f : Follows(f, <<0, x0>>, H, n, Y)
  <2> HIDE DEF Y
  <2>1. StepsIn(H, n, Y)
    BY <1>3 DEF StepsIn
  <2> QED BY <1>1, <2>1, Recursion
<1> DEFINE T == {i \in Nat : i <= n => f[i][1] = i}
<1>5. 0 \in T
  BY <1>4 DEF Follows
<1>6. ASSUME NEW i \in Nat, i \in T PROVE i + 1 \in T
  <2> SUFFICES ASSUME i + 1 <= n PROVE f[i + 1][1] = i + 1
    OBVIOUS
  <2> DEFINE j == i + 1
  <2>1. j \in 1..n /\ j - 1 = i /\ i \in 0..n /\ f[i][1] = i
    BY <1>6
  <2> HIDE DEF j, Y
  <2>2. f[j] = H[<<j, f[i]>>] /\ f[i] \in Y
    BY <1>4, <2>1 DEF Follows
  <2>3. f[j] = <<j, G[<<j, f[i][2]>>]>>
    BY <1>2, <2>1, <2>2
  <2>4. f[j][1] = j
    BY <2>3
  <2> QED BY <2>4 DEF j
<1> HIDE DEF T
<1>7. \A i \in Nat : i \in T
  BY <1>5, <1>6, Induction
<1> DEFINE g == [i \in 0..n |-> f[i][2]]
<1>8. ASSUME NEW i \in 0..n PROVE f[i] \in Y /\ f[i][1] = i /\ g[i] \in X[i]
  <2>1. f[i] \in Y /\ f[i][1] = i
    <3> HIDE DEF Y
    <3> QED BY <1>4, <1>7 DEF Follows, T
  <2> QED BY <2>1
<1>9. ASSUME NEW i \in 1..n PROVE g[i] = G[<<i, g[i - 1]>>]
  <2>1. i \in 0..n /\ i - 1 \in 0..n /\ i \in Nat
    OBVIOUS
  <2>2. f[i] = H[<<i, f[i - 1]>>]
    BY <1>4 DEF Follows
  <2>3. f[i - 1] \in Y /\ f[i - 1][1] = i - 1
    BY <1>8, <2>1
  <2> HIDE DEF Y
  <2>4. f[i] = <<i, G[<<i, f[i - 1][2]>>]>>
    BY <1>2, <2>2, <2>3
  <2> QED BY <2>1, <2>4
<1>10. g[0] = x0 /\ DOMAIN g = 0..n
  BY <1>4 DEF Follows
<1> HIDE DEF g
<1>11. Chains(g, x0, G, n, X)
  BY <1>8, <1>9, <1>10 DEF Chains
<1> QED BY <1>11

(* What holds at 0 and goes on from each value to the next holds at n. *)
LEMMA Along ==
  ASSUME NEW n \in Nat, NEW X, NEW f, f[0] \in X[0],
         \A i \in 1..n : f[i - 1] \in X[i - 1] => f[i] \in X[i]
  PROVE  f[n] \in X[n]
<1> DEFINE T == {i \in Nat : i <= n => f[i] \in X[i]}
<1>1. 0 \in T
  OBVIOUS
<1>2. ASSUME NEW i \in Nat, i \in T PROVE i + 1 \in T
  <2> SUFFICES ASSUME i + 1 <= n PROVE f[i + 1] \in X[i + 1]
    OBVIOUS
  <2> DEFINE j == i + 1
  <2>1. j \in 1..n /\ j - 1 = i /\ f[i] \in X[i]
    BY <1>2
  <2> HIDE DEF j
  <2>2. f[j] \in X[j]
    BY <2>1
  <2> QED BY <2>2 DEF j
<1> HIDE DEF T
<1>3. n \in T
  BY <1>1, <1>2, Induction
<1> QED BY <1>3 DEF T

(* The least member of a set of numbers. *)
LEMMA MinOf ==
  ASSUME NEW S, S \subseteq Nat, S # {}
  PROVE  Min(S) \in S /\ \A y \in S : Min(S) <= y
BY LeastNumber DEF Min

-----------------------------------------------------------------------------
(* Sums.                                                                   *)

Ints(fun, S) == \A x \in S : fun[x] \in Int

(* SumFunctionOnSet is defined through a function on the subsets of S.     *)
SumBy(fun, S, f) ==
    f = [s \in SUBSET S |-> IF s = {} THEN 0
                            ELSE fun[CHOOSE x \in s : TRUE] + f[s \ {CHOOSE x \in s : TRUE}]]

LEMMA SumExists ==
  ASSUME NEW S, IsFiniteSet(S), NEW fun
  PROVE  \E f : SumBy(fun, S, f)
<1> DEFINE Small(k) == {s \in SUBSET S : Cardinality(s) <= k}
           One(s) == CHOOSE x \in s : TRUE
           Fits(f, k) == f = [s \in Small(k) |-> IF s = {} THEN 0
                                                 ELSE fun[One(s)] + f[s \ {One(s)}]]
           T == {k \in Nat : \E f : Fits(f, k)}
<1>1. \A s \in SUBSET S : IsFiniteSet(s) /\ Cardinality(s) \in Nat
                          /\ (s # {} => One(s) \in s /\ Cardinality(s \ {One(s)}) = Cardinality(s) - 1
                                        /\ Cardinality(s) # 0)
  BY FS_Subset, FS_CardinalityType, FS_RemoveElement, FS_EmptySet
<1>2. 0 \in T
  <2>1. ASSUME NEW s \in Small(0) PROVE s = {}
    <3>1. s \in SUBSET S /\ Cardinality(s) <= 0
      OBVIOUS
    <3>2. Cardinality(s) \in Nat /\ (s # {} => Cardinality(s) # 0)
      BY <1>1, <3>1
    <3> QED BY <3>1, <3>2
  <2>2. Fits([s \in Small(0) |-> 0], 0)
    BY <2>1
  <2> QED BY <2>2
<1>3. ASSUME NEW k \in Nat, k \in T PROVE k + 1 \in T
  <2>1. PICK f : Fits(f, k)
    BY <1>3
  <2> DEFINE g == [s \in Small(k + 1) |-> IF s = {} THEN 0 ELSE fun[One(s)] + f[s \ {One(s)}]]
  <2>2. ASSUME NEW s \in Small(k + 1), s # {} PROVE s \ {One(s)} \in Small(k)
    <3>1. s \in SUBSET S /\ Cardinality(s) <= k + 1
      OBVIOUS
    <3> HIDE DEF One
    <3>2. Cardinality(s \ {One(s)}) = Cardinality(s) - 1 /\ Cardinality(s) \in Nat
      BY <1>1, <2>2, <3>1
    <3> QED BY <3>1, <3>2
  <2>3. \A s \in Small(k) : s \in Small(k + 1) /\ g[s] = f[s]
    BY <1>1, <2>1
  <2>4. \A s \in Small(k + 1) : s # {} => g[s \ {One(s)}] = f[s \ {One(s)}]
    <3> HIDE DEF g, Small
    <3> QED BY <2>2, <2>3
  <2>5. Fits(g, k + 1)
    <3> HIDE DEF Small, One
    <3>1. \A s \in Small(k + 1) : (IF s = {} THEN 0 ELSE fun[One(s)] + g[s \ {One(s)}])
                                  = (IF s = {} THEN 0 ELSE fun[One(s)] + f[s \ {One(s)}])
      <4> HIDE DEF g
      <4> QED BY <2>4
    <3> DEFINE h == [s \in Small(k + 1) |-> IF s = {} THEN 0 ELSE fun[One(s)] + g[s \ {One(s)}]]
    <3>2. g = h
      <4>1. DOMAIN g = Small(k + 1) /\ DOMAIN h = Small(k + 1)
        OBVIOUS
      <4>2. \A s \in Small(k + 1) : g[s] = h[s]
        BY <3>1
      <4> QED BY <4>1, <4>2
    <3> QED BY <3>2
  <2> HIDE DEF g, Fits
  <2> QED BY <2>5
<1> HIDE DEF T
<1>4. Cardinality(S) \in T
  BY <1>1, <1>2, <1>3, Induction
<1>5. PICK f : Fits(f, Cardinality(S))
  BY <1>4 DEF T
<1>6. Small(Cardinality(S)) = SUBSET S
  BY FS_Subset
<1>7. SumBy(fun, S, f)
  BY <1>5, <1>6 DEF SumBy
<1> QED BY <1>7

LEMMA SumIs ==
  ASSUME NEW S, IsFiniteSet(S), NEW fun
  PROVE  \E f : SumBy(fun, S, f) /\ SumFunctionOnSet(fun, S) = f[S]
<1> DEFINE f == CHOOSE f : f = [s \in SUBSET S |-> IF s = {} THEN 0
                            ELSE fun[CHOOSE x \in s : TRUE] + f[s \ {CHOOSE x \in s : TRUE}]]
<1>1. SumFunctionOnSet(fun, S) = f[S]
  BY DEF SumFunctionOnSet, FoldFunctionOnSet, MapThenFoldSet
<1>2. SumBy(fun, S, f)
  <2>1. \E g : g = [s \in SUBSET S |-> IF s = {} THEN 0
                            ELSE fun[CHOOSE x \in s : TRUE] + g[s \ {CHOOSE x \in s : TRUE}]]
    <3>1. \E g : SumBy(fun, S, g)
      BY SumExists
    <3> QED BY <3>1 DEF SumBy
  <2>2. f = [s \in SUBSET S |-> IF s = {} THEN 0
                            ELSE fun[CHOOSE x \in s : TRUE] + f[s \ {CHOOSE x \in s : TRUE}]]
    BY <2>1
  <2> QED BY <2>2 DEF SumBy
<1> QED BY <1>1, <1>2

(* What is added first does not matter. *)
LEMMA SumByAny ==
  ASSUME NEW S, IsFiniteSet(S), NEW fun, Ints(fun, S), NEW f, SumBy(fun, S, f)
  PROVE  \A s \in SUBSET S : f[s] \in Int /\ \A x \in s : f[s] = fun[x] + f[s \ {x}]
<1> DEFINE One(s) == CHOOSE x \in s : TRUE
           Good(s) == f[s] \in Int /\ \A x \in s : f[s] = fun[x] + f[s \ {x}]
           T == {k \in Nat : \A s \in SUBSET S : Cardinality(s) <= k => Good(s)}
<1>1. ASSUME NEW s \in SUBSET S
      PROVE  IsFiniteSet(s) /\ Cardinality(s) \in Nat /\ (Cardinality(s) = 0 => s = {})
             /\ \A x \in s : Cardinality(s \ {x}) = Cardinality(s) - 1
  BY FS_Subset, FS_CardinalityType, FS_RemoveElement, FS_EmptySet
<1>2. f[{}] = 0
  BY DEF SumBy
<1>3. ASSUME NEW s \in SUBSET S, s # {}
      PROVE  One(s) \in s /\ f[s] = fun[One(s)] + f[s \ {One(s)}]
  BY <1>3 DEF SumBy
<1> HIDE DEF One
<1>4. 0 \in T
  <2>1. ASSUME NEW s \in SUBSET S, Cardinality(s) <= 0 PROVE Good(s)
    <3>1. s = {}
      BY <1>1, <2>1
    <3> QED BY <1>2, <3>1
  <2> QED BY <2>1
<1>5. ASSUME NEW k \in Nat, k \in T PROVE k + 1 \in T
  <2>1. ASSUME NEW s \in SUBSET S, Cardinality(s) <= k + 1 PROVE Good(s)
    <3>1. CASE s = {}
      BY <1>2, <3>1
    <3>2. CASE s # {}
      <4> DEFINE p == One(s)
      <4>1. p \in s /\ f[s] = fun[p] + f[s \ {p}]
        BY <1>3, <3>2
      <4>2. \A x \in s : s \ {x} \in SUBSET S /\ Cardinality(s \ {x}) <= k
        BY <1>1, <2>1
      <4>3. \A x \in s : Good(s \ {x})
        BY <1>5, <4>2
      <4> HIDE DEF p
      <4>4. \A x \in s : fun[x] \in Int /\ f[s \ {x}] \in Int
        BY <4>3 DEF Ints
      <4>5. f[s] \in Int
        BY <4>1, <4>4
      <4>6. ASSUME NEW x \in s, x # p PROVE f[s] = fun[x] + f[s \ {x}]
        <5>1. f[s \ {p}] = fun[x] + f[(s \ {p}) \ {x}]
          BY <4>1, <4>3, <4>6
        <5>2. f[s \ {x}] = fun[p] + f[(s \ {x}) \ {p}]
          BY <4>1, <4>3, <4>6
        <5>3. (s \ {p}) \ {x} = (s \ {x}) \ {p}
          OBVIOUS
        <5>4. f[(s \ {x}) \ {p}] \in Int
          <6>1. s \ {x} \in SUBSET S /\ p \in s \ {x} /\ Cardinality(s \ {x}) <= k
            BY <4>1, <4>2, <4>6
          <6>2. Cardinality((s \ {x}) \ {p}) <= k
            BY <1>1, <6>1
          <6> QED BY <1>5, <6>1, <6>2
        <5>5. fun[x] \in Int /\ fun[p] \in Int
          BY <4>1, <4>4
        <5> DEFINE r == f[(s \ {x}) \ {p}]
        <5>6. f[s \ {p}] = fun[x] + r
          BY <5>1, <5>3
        <5>7. f[s] = fun[p] + f[s \ {p}] /\ f[s \ {x}] = fun[p] + r /\ r \in Int
          BY <4>1, <5>2, <5>4
        <5> HIDE DEF Good, T, r
        <5> QED BY <5>5, <5>6, <5>7
      <4> QED BY <4>1, <4>5, <4>6
    <3> QED BY <3>1, <3>2
  <2> HIDE DEF Good
  <2> QED BY <2>1
<1>6. ASSUME NEW s \in SUBSET S PROVE Good(s)
  <2> HIDE DEF T
  <2>1. Cardinality(s) \in T
    BY <1>1, <1>4, <1>5, Induction
  <2> QED BY <1>1, <2>1 DEF T
<1> QED BY <1>6

(* The sum over part of the set is the same function's value. *)
LEMMA SumByPart ==
  ASSUME NEW S, IsFiniteSet(S), NEW fun, NEW S1, S1 \subseteq S, NEW gun,
         \A x \in S1 : gun[x] = fun[x], Ints(fun, S),
         NEW f, SumBy(fun, S, f), NEW g, SumBy(gun, S1, g)
  PROVE  g[S1] = f[S1]
<1> DEFINE One(s) == CHOOSE x \in s : TRUE
           T == {k \in Nat : \A s \in SUBSET S1 : Cardinality(s) <= k => g[s] = f[s]}
<1>1. ASSUME NEW s \in SUBSET S1
      PROVE  IsFiniteSet(s) /\ Cardinality(s) \in Nat /\ (Cardinality(s) = 0 => s = {})
             /\ \A x \in s : Cardinality(s \ {x}) = Cardinality(s) - 1
  BY FS_Subset, FS_CardinalityType, FS_RemoveElement, FS_EmptySet
<1>2. ASSUME NEW s \in SUBSET S1
      PROVE  (s = {} => g[s] = f[s])
             /\ (s # {} => One(s) \in s /\ g[s] = gun[One(s)] + g[s \ {One(s)}]
                           /\ f[s] = fun[One(s)] + f[s \ {One(s)}])
  BY DEF SumBy
<1> HIDE DEF One
<1>3. 0 \in T
  <2>1. ASSUME NEW s \in SUBSET S1, Cardinality(s) <= 0 PROVE g[s] = f[s]
    <3>1. s = {}
      BY <1>1, <2>1
    <3> QED BY <1>2, <3>1
  <2> QED BY <2>1
<1>4. ASSUME NEW k \in Nat, k \in T PROVE k + 1 \in T
  <2>1. ASSUME NEW s \in SUBSET S1, Cardinality(s) <= k + 1, s # {} PROVE g[s] = f[s]
    <3>1. One(s) \in s /\ g[s] = gun[One(s)] + g[s \ {One(s)}]
          /\ f[s] = fun[One(s)] + f[s \ {One(s)}]
      BY <1>2, <2>1
    <3>2. Cardinality(s \ {One(s)}) <= k /\ s \ {One(s)} \in SUBSET S1
      BY <1>1, <2>1, <3>1
    <3>3. g[s \ {One(s)}] = f[s \ {One(s)}]
      BY <1>4, <3>2
    <3> QED BY <3>1, <3>3
  <2>2. ASSUME NEW s \in SUBSET S1, Cardinality(s) <= k + 1 PROVE g[s] = f[s]
    <3>1. CASE s = {}
      BY <1>2, <3>1
    <3>2. CASE s # {}
      BY <2>1, <2>2, <3>2
    <3> QED BY <3>1, <3>2
  <2> QED BY <2>2
<1>5. Cardinality(S1) \in T
  <2> HIDE DEF T
  <2>1. Cardinality(S1) \in Nat
    BY <1>1
  <2> QED BY <2>1, <1>3, <1>4, Induction
<1> QED BY <1>1, <1>5

(* The sum over a set with x and without it. *)
LEMMA SumSplit ==
  ASSUME NEW S, IsFiniteSet(S), NEW fun, Ints(fun, S)
  PROVE  /\ SumFunctionOnSet(fun, S) \in Int
         /\ \A x \in S : SumFunctionOnSet(fun, S) = fun[x] + SumFunctionOnSet(fun, S \ {x})
<1>1. PICK f : SumBy(fun, S, f) /\ SumFunctionOnSet(fun, S) = f[S]
  BY SumIs
<1>2. f[S] \in Int /\ \A x \in S : f[S] = fun[x] + f[S \ {x}]
  BY <1>1, SumByAny
<1>3. ASSUME NEW x \in S PROVE SumFunctionOnSet(fun, S \ {x}) = f[S \ {x}]
  <2>1. IsFiniteSet(S \ {x}) /\ S \ {x} \subseteq S
    BY FS_Subset
  <2>2. PICK g : SumBy(fun, S \ {x}, g) /\ SumFunctionOnSet(fun, S \ {x}) = g[S \ {x}]
    BY <2>1, SumIs
  <2>3. g[S \ {x}] = f[S \ {x}]
    BY <1>1, <2>1, <2>2, SumByPart
  <2> QED BY <2>2, <2>3
<1> QED BY <1>1, <1>2, <1>3

LEMMA SumNone ==
  ASSUME NEW fun
  PROVE  SumFunctionOnSet(fun, {}) = 0
<1>1. IsFiniteSet({})
  BY FS_EmptySet
<1>2. PICK f : SumBy(fun, {}, f) /\ SumFunctionOnSet(fun, {}) = f[{}]
  BY <1>1, SumIs
<1> QED BY <1>2 DEF SumBy

(* Sums of functions that agree on the set. *)
LEMMA SumSame ==
  ASSUME NEW S, IsFiniteSet(S), NEW fun, Ints(fun, S), NEW gun, \A x \in S : gun[x] = fun[x]
  PROVE  SumFunctionOnSet(gun, S) = SumFunctionOnSet(fun, S)
<1>1. PICK f : SumBy(fun, S, f) /\ SumFunctionOnSet(fun, S) = f[S]
  BY SumIs
<1>2. PICK g : SumBy(gun, S, g) /\ SumFunctionOnSet(gun, S) = g[S]
  BY SumIs
<1>3. g[S] = f[S]
  BY <1>1, <1>2, SumByPart
<1> QED BY <1>1, <1>2, <1>3

(* Sums of functions that agree on the set but at one member. *)
LEMMA SumChange ==
  ASSUME NEW S, IsFiniteSet(S), NEW fun, Ints(fun, S), NEW gun, Ints(gun, S),
         NEW a \in S, \A x \in S \ {a} : gun[x] = fun[x]
  PROVE  SumFunctionOnSet(gun, S) = SumFunctionOnSet(fun, S) + gun[a] - fun[a]
<1>1. IsFiniteSet(S \ {a}) /\ Ints(fun, S \ {a})
  BY FS_Subset DEF Ints
<1>2. SumFunctionOnSet(gun, S \ {a}) = SumFunctionOnSet(fun, S \ {a})
  BY <1>1, SumSame
<1>3. SumFunctionOnSet(fun, S \ {a}) \in Int
  BY <1>1, SumSplit
<1>4. /\ SumFunctionOnSet(fun, S) = fun[a] + SumFunctionOnSet(fun, S \ {a})
      /\ SumFunctionOnSet(gun, S) = gun[a] + SumFunctionOnSet(gun, S \ {a})
  BY SumSplit
<1>5. fun[a] \in Int /\ gun[a] \in Int
  BY DEF Ints
<1> QED BY <1>2, <1>3, <1>4, <1>5

(* Induction over the subsets of a finite set: T holds with {} and, with a *)
(* set, every set of one member more.                                      *)
LEMMA FiniteInduction ==
  ASSUME NEW S, IsFiniteSet(S), NEW T, {} \in T,
         \A s \in SUBSET S, x \in S : s \in T /\ x \notin s => s \cup {x} \in T
  PROVE  S \in T
<1> DEFINE K == {k \in Nat : \A s \in SUBSET S : Cardinality(s) <= k => s \in T}
<1>1. ASSUME NEW s \in SUBSET S
      PROVE  IsFiniteSet(s) /\ Cardinality(s) \in Nat /\ (Cardinality(s) = 0 => s = {})
             /\ \A x \in s : Cardinality(s \ {x}) = Cardinality(s) - 1
  BY FS_Subset, FS_CardinalityType, FS_RemoveElement, FS_EmptySet
<1>2. 0 \in K
  <2>1. ASSUME NEW s \in SUBSET S, Cardinality(s) <= 0 PROVE s \in T
    <3>1. s = {}
      BY <1>1, <2>1
    <3> QED BY <3>1
  <2> QED BY <2>1
<1>3. ASSUME NEW k \in Nat, k \in K PROVE k + 1 \in K
  <2>1. ASSUME NEW s \in SUBSET S, Cardinality(s) <= k + 1 PROVE s \in T
    <3>1. CASE s = {}
      BY <3>1
    <3>2. CASE s # {}
      <4>1. PICK x \in s : TRUE
        BY <3>2
      <4>2. s \ {x} \in SUBSET S /\ Cardinality(s \ {x}) <= k
        BY <1>1, <2>1
      <4>3. s \ {x} \in T
        BY <1>3, <4>2
      <4>4. (s \ {x}) \cup {x} \in T
        BY <4>2, <4>3
      <4>5. (s \ {x}) \cup {x} = s
        OBVIOUS
      <4> QED BY <4>4, <4>5
    <3> QED BY <3>1, <3>2
  <2> QED BY <2>1
<1>4. Cardinality(S) \in K
  <2> HIDE DEF K
  <2>1. Cardinality(S) \in Nat
    BY <1>1
  <2> QED BY <1>2, <1>3, <2>1, Induction
<1> QED BY <1>1, <1>4

(* Sums of natural numbers. *)
LEMMA SumNat ==
  ASSUME NEW S, IsFiniteSet(S), NEW fun, \A x \in S : fun[x] \in Nat
  PROVE  SumFunctionOnSet(fun, S) \in Nat
<1> DEFINE T == {s \in SUBSET S : SumFunctionOnSet(fun, s) \in Nat}
<1>1. {} \in T
  BY SumNone
<1>2. ASSUME NEW s \in SUBSET S, NEW x \in S, s \in T, x \notin s PROVE s \cup {x} \in T
  <2>1. IsFiniteSet(s \cup {x}) /\ Ints(fun, s \cup {x})
    BY FS_Subset DEF Ints
  <2>2. SumFunctionOnSet(fun, s \cup {x}) = fun[x] + SumFunctionOnSet(fun, (s \cup {x}) \ {x})
    BY <2>1, SumSplit
  <2>3. (s \cup {x}) \ {x} = s
    BY <1>2
  <2> QED BY <1>2, <2>2, <2>3
<1> HIDE DEF T
<1>3. S \in T
  BY <1>1, <1>2, FiniteInduction
<1> QED BY <1>3 DEF T

-----------------------------------------------------------------------------
(* The table of a draft.                                                   *)

LEMMA AtLeastOneRound ==
  ASSUME NEW a \in Nat \ {0}, NEW b \in Nat \ {0}
  PROVE  Ceil(a, b) \in Nat \ {0}
BY DEF Ceil

LEMMA ConfigIs ==
  ASSUME config \in Tables
  PROVE  /\ N \in Nat /\ N >= 2 /\ Seats = 0..(N - 1) /\ Seats \subseteq Nat
         /\ Joined \in [1..N -> Seats] /\ Bots \subseteq Seats
         /\ MainTarget \in Nat \ {0} /\ PackSize \in Nat \ {0} /\ ExtraSize \in Nat
         /\ PicksPerStep \in {1, 2} /\ MaxCopies \in Nat \ {0} /\ CopyLimit \in BOOLEAN
         /\ config.maxEdits \in Nat
BY TableAssumption
   DEF Table, N, Seats, Joined, Bots, MainTarget, PackSize, ExtraSize, PicksPerStep,
       MaxCopies, CopyLimit

LEMMA RoundsAre ==
  ASSUME config \in Tables
  PROVE  /\ MainRounds \in Nat \ {0} /\ Waves \in Nat \ {0} /\ MainRounds <= Waves
         /\ ~IsTheme /\ ExtraSize > 0 => Waves = MainRounds + 1
         /\ ~IsTheme /\ ExtraSize = 0 => Waves = MainRounds
         /\ \A w : Phase(w) \in {"main", "extra"}
<1>1. MainTarget \in Nat \ {0} /\ PackSize \in Nat \ {0} /\ ExtraSize \in Nat
  BY ConfigIs
<1>2. Ceil(MainTarget, PackSize) \in Nat \ {0}
  BY <1>1, AtLeastOneRound
<1>3. MainRounds \in Nat \ {0}
  BY <1>1, <1>2 DEF MainRounds
<1>4. Waves \in Nat \ {0} /\ MainRounds <= Waves
  BY <1>1, <1>3 DEF Waves, Least
<1>5. ~IsTheme => (ExtraSize > 0 => Waves = MainRounds + 1) /\ (ExtraSize = 0 => Waves = MainRounds)
  BY <1>1, <1>3 DEF Waves, Least
<1> QED BY <1>3, <1>4, <1>5 DEF Phase

LEMMA FiniteSets ==
  ASSUME config \in Tables
  PROVE  /\ IsFiniteSet(Seats) /\ IsFiniteSet(Names)
         /\ \A D \in SUBSET (1..Waves) : IsFiniteSet(D)
<1>1. IsFiniteSet(Seats)
  BY ConfigIs, FS_Interval
<1>2. IsFiniteSet(Names)
  BY NamesAssumption, FS_Union DEF Names
<1>3. IsFiniteSet(1..Waves)
  BY RoundsAre, FS_Interval
<1> QED BY <1>1, <1>2, <1>3, FS_Subset

(* What a row of a draft can be.                                           *)
PackRow == [at : Seats, cards : Bag]
Statuses == {"pending", "active", "completed", "cancelled"}
Row ==
    [status : Statuses, wave : 1..Waves, step : Nat \ {0},
     theme : {<< >>} \cup Assignments,
     deal : UNION {[D -> [Seats -> Bag]] : D \in SUBSET (1..Waves)},
     packs : UNION {[D -> [Seats -> PackRow]] : D \in SUBSET (1..Waves)},
     undealt : Seq(Names), pool : [Seats -> Bag], main : [Seats -> Nat],
     picked : SUBSET Seats, passed : SUBSET Seats, finished : SUBSET Seats]

Apart(t) ==
    \A w \in DOMAIN t.packs : \A o, q \in Seats :
        t.packs[w][o].at = t.packs[w][q].at => o = q

Running(t) == t.status \in {"active", "completed"}

(* The waves are opened one after the other.                               *)
Behind(t) == \A v \in DOMAIN t.packs : v <= t.wave

(* The tables a draft can be at.                                           *)
Whole(t) ==
    /\ t \in Row
    /\ DOMAIN t.packs \subseteq DOMAIN t.deal
    /\ Running(t) => t.wave \in DOMAIN t.packs /\ Behind(t)
    /\ Running(t) /\ ~IsTheme => DOMAIN t.deal = 1..Waves
    /\ Running(t) /\ IsTheme => t.theme \in Assignments
    /\ Apart(t)
Wholes == {t \in Row : Whole(t)}

(* The parts of a whole table. *)
LEMMA PartsOf ==
  ASSUME config \in Tables, NEW t \in Wholes
  PROVE  /\ t.status \in Statuses /\ t.wave \in 1..Waves /\ t.step \in Nat \ {0}
         /\ t.undealt \in Seq(Names) /\ t.pool \in [Seats -> Bag] /\ t.main \in [Seats -> Nat]
         /\ t.picked \subseteq Seats /\ t.passed \subseteq Seats /\ t.finished \subseteq Seats
         /\ DOMAIN t.deal \subseteq 1..Waves /\ t.deal \in [DOMAIN t.deal -> [Seats -> Bag]]
         /\ DOMAIN t.packs \subseteq DOMAIN t.deal /\ t.packs \in [DOMAIN t.packs -> [Seats -> PackRow]]
         /\ Running(t) => t.wave \in DOMAIN t.packs /\ Behind(t)
         /\ Running(t) /\ ~IsTheme => DOMAIN t.deal = 1..Waves
         /\ Running(t) /\ IsTheme => t.theme \in Assignments
         /\ Apart(t) /\ Whole(t) /\ t \in Row
<1>1. t \in Row /\ Whole(t)
  BY DEF Wholes
<1>2. PICK D \in SUBSET (1..Waves) : t.deal \in [D -> [Seats -> Bag]]
  BY <1>1 DEF Row
<1>3. PICK E \in SUBSET (1..Waves) : t.packs \in [E -> [Seats -> PackRow]]
  BY <1>1 DEF Row
<1> QED BY <1>1, <1>2, <1>3 DEF Row, Whole

(* What makes a table whole again after a change. *)
LEMMA WholeAgain ==
  ASSUME config \in Tables, NEW t \in Row,
         DOMAIN t.packs \subseteq DOMAIN t.deal,
         Running(t) => t.wave \in DOMAIN t.packs /\ Behind(t),
         Running(t) /\ ~IsTheme => DOMAIN t.deal = 1..Waves,
         Running(t) /\ IsTheme => t.theme \in Assignments,
         Apart(t)
  PROVE  t \in Wholes
BY DEF Wholes, Whole

(* Completing, and noting who acted. *)
LEMMA CompleteWhole ==
  ASSUME config \in Tables, NEW t \in Wholes, t.status = "active"
  PROVE  Complete(t) \in Wholes
<1> DEFINE u == Complete(t)
<1>1. u \in Row
  <2>1. t \in Row
    BY PartsOf
  <2> QED BY <2>1 DEF Complete, Row, Statuses
<1>2. /\ u.packs = t.packs /\ u.deal = t.deal /\ u.wave = t.wave /\ u.theme = t.theme
      /\ u.status = "completed" /\ Running(t)
  BY PartsOf DEF Complete, Row, Running
<1>3. Apart(u)
  BY <1>2, PartsOf DEF Apart
<1> HIDE DEF u
<1>4. u \in Wholes
  BY <1>1, <1>2, <1>3, PartsOf, WholeAgain DEF Running, Behind
<1> QED BY <1>4 DEF u

LEMMA PassWhole ==
  ASSUME config \in Tables, NEW t \in Wholes, t.status = "active"
  PROVE  /\ PassEmptyHanded(t) \in Wholes /\ PassEmptyHanded(t).status = "active"
         /\ PassEmptyHanded(t).wave = t.wave
<1> DEFINE u == PassEmptyHanded(t)
           late == {s \in Drafting(t) \ Acted(t) : PacksAt(t, s) = {}}
<1>1. late \subseteq Seats
  BY DEF Drafting
<1>2. u = [t EXCEPT !.passed = t.passed \cup late]
  BY DEF PassEmptyHanded
<1> HIDE DEF u, late
<1>3. u \in Row
  <2>1. t \in Row /\ t.passed \cup late \in SUBSET Seats
    BY <1>1, PartsOf
  <2> QED BY <1>2, <2>1 DEF Row
<1>4. /\ u.packs = t.packs /\ u.deal = t.deal /\ u.wave = t.wave /\ u.theme = t.theme
      /\ u.status = t.status
  BY <1>2, PartsOf DEF Row
<1>5. Apart(u)
  BY <1>4, PartsOf DEF Apart
<1>6. u \in Wholes
  BY <1>3, <1>4, <1>5, PartsOf, WholeAgain DEF Running, Behind
<1> QED BY <1>4, <1>6 DEF u

(* Cards of a pack, and packs of a wave, that are replaced. *)
PacksWith(t, o, cards) == [t.packs EXCEPT ![t.wave][o].cards = cards]

LEMMA PackChange ==
  ASSUME config \in Tables, NEW t \in Wholes, Running(t), NEW o \in Seats, NEW cards \in Bag
  PROVE  LET packs == PacksWith(t, o, cards)
         IN  /\ DOMAIN packs = DOMAIN t.packs /\ packs \in [DOMAIN t.packs -> [Seats -> PackRow]]
             /\ packs \in UNION {[D -> [Seats -> PackRow]] : D \in SUBSET (1..Waves)}
             /\ \A w \in DOMAIN packs, q \in Seats :
                   /\ packs[w][q].at = t.packs[w][q].at
                   /\ packs[w][q].cards = IF w = t.wave /\ q = o THEN cards ELSE t.packs[w][q].cards
<1> DEFINE packs == PacksWith(t, o, cards)
           row == [t.packs[t.wave][o] EXCEPT !.cards = cards]
<1>1. t.wave \in DOMAIN t.packs /\ t.packs \in [DOMAIN t.packs -> [Seats -> PackRow]]
      /\ DOMAIN t.packs \subseteq 1..Waves
  BY PartsOf
<1>2. t.packs[t.wave] \in [Seats -> PackRow] /\ t.packs[t.wave][o] \in PackRow
  BY <1>1
<1>3. row \in PackRow /\ row.at = t.packs[t.wave][o].at /\ row.cards = cards
  BY <1>2 DEF PackRow
<1>4. packs = [t.packs EXCEPT ![t.wave] = [t.packs[t.wave] EXCEPT ![o] = row]]
  BY DEF PacksWith
<1> HIDE DEF row, packs
<1>5. /\ DOMAIN packs = DOMAIN t.packs /\ packs \in [DOMAIN t.packs -> [Seats -> PackRow]]
      /\ \A w \in DOMAIN packs : packs[w] = IF w = t.wave THEN [t.packs[t.wave] EXCEPT ![o] = row]
                                          ELSE t.packs[w]
  BY <1>1, <1>2, <1>3, <1>4
<1>6. \A q \in Seats : [t.packs[t.wave] EXCEPT ![o] = row][q] = IF q = o THEN row ELSE t.packs[t.wave][q]
  BY <1>2
<1>7. ASSUME NEW w \in DOMAIN packs, NEW q \in Seats
      PROVE  /\ packs[w][q].at = t.packs[w][q].at
             /\ packs[w][q].cards = IF w = t.wave /\ q = o THEN cards ELSE t.packs[w][q].cards
  BY <1>3, <1>5, <1>6
<1>8. packs \in UNION {[D -> [Seats -> PackRow]] : D \in SUBSET (1..Waves)}
  BY <1>1, <1>5
<1> QED BY <1>5, <1>7, <1>8 DEF packs

(* A seat that is waited for has a pack in front of it. *)
LEMMA PackInFront ==
  ASSUME config \in Tables, NEW t \in Wholes, Running(t), NEW s, PacksAt(t, s) # {}
  PROVE  /\ PackAt(t, s) \in Seats /\ t.packs[t.wave][PackAt(t, s)] \in PackRow
         /\ t.packs[t.wave][PackAt(t, s)].at = s
         /\ t.packs[t.wave][PackAt(t, s)].cards \in Bag
         /\ InPack(t, s) = {c \in Names : t.packs[t.wave][PackAt(t, s)].cards[c] > 0}
<1>1. PacksAt(t, s) \subseteq Nat /\ PacksAt(t, s) \subseteq Seats
  BY ConfigIs DEF PacksAt
<1>2. PackAt(t, s) \in PacksAt(t, s)
  BY <1>1, MinOf DEF PackAt
<1>3. PackAt(t, s) \in Seats /\ t.packs[t.wave][PackAt(t, s)].at = s
  BY <1>1, <1>2 DEF PacksAt
<1>4. t.packs[t.wave][PackAt(t, s)] \in PackRow
  BY <1>3, PartsOf
<1>5. t.packs[t.wave][PackAt(t, s)].cards \in Bag
  BY <1>4 DEF PackRow
<1>6. DOMAIN t.packs[t.wave][PackAt(t, s)].cards = Names
  BY <1>5 DEF Bag
<1> QED BY <1>3, <1>4, <1>5, <1>6 DEF InPack, NamesIn

(* One more copy of card c in the pool of seat s. *)
PoolWith(t, s, c) == [t.pool EXCEPT ![s] = [t.pool[s] EXCEPT ![c] = @ + 1]]

(* One copy of card c less in pack o of the wave. *)
PackWithout(t, o, c) == [t.packs[t.wave][o].cards EXCEPT ![c] = @ - 1]

(* What taking a card changes. *)
LEMMA TakenIs ==
  ASSUME config \in Tables, NEW t \in Wholes, t.status = "active",
         NEW s \in Seats, PacksAt(t, s) # {}, NEW c \in InPack(t, s), NEW last
  PROVE  LET u == Taken(t, s, c, last)
             o == PackAt(t, s)
             cards == PackWithout(t, o, c)
         IN  /\ u \in Wholes /\ c \in Names /\ cards \in Bag
             /\ u.packs = PacksWith(t, o, cards) /\ u.pool = PoolWith(t, s, c)
             /\ u.status = "active" /\ u.wave = t.wave /\ u.step = t.step /\ u.deal = t.deal
             /\ u.undealt = t.undealt /\ u.theme = t.theme
             /\ u.picked = t.picked \cup {s} /\ u.passed = t.passed
<1> DEFINE u == Taken(t, s, c, last)
           o == PackAt(t, s)
           cards == [t.packs[t.wave][o].cards EXCEPT ![c] = @ - 1]
           packs == PacksWith(t, o, cards)
           pool == [t.pool EXCEPT ![s] = [t.pool[s] EXCEPT ![c] = @ + 1]]
           main == [t.main EXCEPT ![s] = IF t.wave <= MainRounds THEN @ + 1 ELSE @]
           finished == IF Count(t, s) + 1 >= last THEN t.finished \cup {s} ELSE t.finished
<1>0. Running(t)
  BY DEF Running
<1>1. /\ o \in Seats /\ t.packs[t.wave][o].cards \in Bag /\ c \in Names
      /\ t.packs[t.wave][o].cards[c] > 0
  BY <1>0, PackInFront
<1>2. cards \in Bag
  BY <1>1 DEF Bag
<1>3. pool \in [Seats -> Bag]
  <2>1. t.pool \in [Seats -> Bag]
    BY PartsOf
  <2>2. [t.pool[s] EXCEPT ![c] = @ + 1] \in Bag
    BY <1>1, <2>1 DEF Bag
  <2> QED BY <2>1, <2>2
<1>4. main \in [Seats -> Nat]
  BY PartsOf
<1>5. u = [t EXCEPT !.packs = packs, !.pool = pool, !.main = main,
                    !.picked = t.picked \cup {s}, !.finished = finished]
  <2>1. t \in Row
    BY PartsOf
  <2> QED BY <2>1 DEF Taken, Row, PacksWith
<1> HIDE DEF u, o, cards, pool, main
<1>6. /\ DOMAIN packs = DOMAIN t.packs
      /\ packs \in UNION {[D -> [Seats -> PackRow]] : D \in SUBSET (1..Waves)}
      /\ \A w \in DOMAIN packs, q \in Seats : packs[w][q].at = t.packs[w][q].at
  BY <1>0, <1>1, <1>2, PackChange
<1>7. finished \subseteq Seats /\ t.picked \subseteq Seats
  BY PartsOf
<1> HIDE DEF packs, finished
<1>8. u \in Row
  <2>1. t \in Row
    BY PartsOf
  <2> QED BY <1>3, <1>4, <1>5, <1>6, <1>7, <2>1 DEF Row
<1>9. /\ u.packs = packs /\ u.pool = pool /\ u.deal = t.deal /\ u.wave = t.wave
      /\ u.theme = t.theme /\ u.status = t.status /\ u.step = t.step /\ u.undealt = t.undealt
      /\ u.picked = t.picked \cup {s} /\ u.passed = t.passed
  <2>1. t \in Row
    BY PartsOf
  <2> QED BY <1>5, <2>1 DEF Row
<1>10. Apart(u)
  BY <1>6, <1>9, PartsOf DEF Apart
<1>11. u \in Wholes
  BY <1>6, <1>8, <1>9, <1>10, PartsOf, WholeAgain DEF Running, Behind
<1> QED BY <1>1, <1>2, <1>9, <1>11 DEF u, packs, pool, cards, o, PackWithout, PoolWith

(* Sequences. *)
LEMMA RemoveIn ==
  ASSUME NEW X, NEW q \in Seq(X), NEW i \in DOMAIN q
  PROVE  /\ RemoveAt(q, i) \in Seq(X) /\ Len(RemoveAt(q, i)) = Len(q) - 1
         /\ \A j \in 1..(Len(q) - 1) : RemoveAt(q, i)[j] = IF j < i THEN q[j] ELSE q[j + 1]
<1>1. i \in 1..Len(q) /\ Len(q) \in Nat
  OBVIOUS
<1>2. SubSeq(q, 1, i - 1) \in Seq(X) /\ Len(SubSeq(q, 1, i - 1)) = i - 1
      /\ \A j \in 1..(i - 1) : SubSeq(q, 1, i - 1)[j] = q[j]
  BY <1>1
<1>3. SubSeq(q, i + 1, Len(q)) \in Seq(X) /\ Len(SubSeq(q, i + 1, Len(q))) = Len(q) - i
      /\ \A j \in 1..(Len(q) - i) : SubSeq(q, i + 1, Len(q))[j] = q[j + i]
  BY <1>1
<1> DEFINE a == SubSeq(q, 1, i - 1)
           b == SubSeq(q, i + 1, Len(q))
<1> HIDE DEF a, b
<1>4. a \in Seq(X) /\ b \in Seq(X) /\ Len(a) = i - 1 /\ Len(b) = Len(q) - i
      /\ (\A j \in 1..(i - 1) : a[j] = q[j]) /\ \A j \in 1..(Len(q) - i) : b[j] = q[j + i]
  BY <1>2, <1>3 DEF a, b
<1>5. a \o b \in Seq(X) /\ Len(a \o b) = Len(q) - 1
  BY <1>1, <1>4
<1>6. ASSUME NEW j \in 1..(Len(q) - 1) PROVE (a \o b)[j] = IF j < i THEN q[j] ELSE q[j + 1]
  <2>1. CASE j < i
    BY <1>1, <1>4, <2>1
  <2>2. CASE ~(j < i)
    <3>1. j \in 1..(Len(a) + Len(b)) /\ ~(j <= Len(a)) /\ j - Len(a) \in 1..(Len(q) - i)
          /\ j - Len(a) + i = j + 1
      BY <1>1, <1>4, <2>2
    <3>2. (a \o b)[j] = b[j - Len(a)]
      BY <1>4, <3>1
    <3> QED BY <1>4, <2>2, <3>1, <3>2
  <2> QED BY <2>1, <2>2
<1> QED BY <1>5, <1>6 DEF RemoveAt, a, b

(* What a swap changes: one card of the pack for one of the pile. *)
Swaps(t, s) == CopyLimit /\ PacksAt(t, s) # {} /\ Legal(t, s) = {} /\ Replacements(t, s) # {}

Swapped(t, s, u, i, out) ==
    LET o == PackAt(t, s)
        pack == t.packs[t.wave][o].cards
        cards == Traded(pack, out, t.undealt[i])
    IN  /\ u.packs = PacksWith(t, o, cards) /\ cards \in Bag
        /\ u.undealt = Append(RemoveAt(t.undealt, i), out)

LEMMA SwapIs ==
  ASSUME config \in Tables, NEW t \in Wholes, t.status = "active", NEW s, NEW u \in Swap(t, s)
  PROVE  /\ u \in Wholes
         /\ IF Swaps(t, s)
            THEN \E out \in InPack(t, s) : Swapped(t, s, u, Min(Replacements(t, s)), out)
            ELSE u = t
         /\ u.pool = t.pool /\ u.status = "active" /\ u.wave = t.wave /\ u.step = t.step
         /\ u.deal = t.deal /\ u.theme = t.theme /\ u.picked = t.picked /\ u.passed = t.passed
         /\ u.main = t.main /\ u.finished = t.finished
<1>1. CASE ~Swaps(t, s)
  <2>1. u = t
    BY <1>1 DEF Swap, Swaps
  <2> QED BY <1>1, <2>1
<1>2. CASE Swaps(t, s)
  <2> DEFINE i == Min(Replacements(t, s))
             o == PackAt(t, s)
  <2>1. PICK out \in InPack(t, s) :
            u = [t EXCEPT !.undealt = Append(RemoveAt(@, i), out),
                          !.packs[t.wave][o].cards =
                              Traded(t.packs[t.wave][o].cards, out, t.undealt[i])]
    BY <1>2 DEF Swap, Swaps
  <2> DEFINE pile == Append(RemoveAt(t.undealt, i), out)
             pack == t.packs[t.wave][o].cards
             cards == Traded(pack, out, t.undealt[i])
             packs == PacksWith(t, o, cards)
  <2>2. Running(t) /\ PacksAt(t, s) # {}
    BY <1>2 DEF Running, Swaps
  <2>3. i \in DOMAIN t.undealt
    <3>1. t.undealt \in Seq(Names)
      BY PartsOf
    <3>2. Replacements(t, s) \subseteq DOMAIN t.undealt /\ DOMAIN t.undealt \subseteq Nat
      BY <3>1 DEF Replacements, Remainder
    <3>3. i \in Replacements(t, s)
      BY <1>2, <3>2, MinOf DEF Swaps
    <3> QED BY <3>2, <3>3
  <2>4. /\ o \in Seats /\ t.packs[t.wave][o].cards \in Bag /\ out \in Names
        /\ t.packs[t.wave][o].cards[out] > 0
    BY <2>2, PackInFront
  <2>5. t.undealt \in Seq(Names) /\ t.undealt[i] \in Names
    BY <2>3, PartsOf
  <2>6. cards \in Bag
    <3>1. pack \in [Names -> Nat] /\ pack[out] > 0
      BY <2>4 DEF Bag
    <3> HIDE DEF pack, i
    <3>2. cards \in [Names -> Nat]
      BY <3>1 DEF Traded
    <3> QED BY <3>2 DEF Bag
  <2>7. pile \in Seq(Names)
    <3>1. RemoveAt(t.undealt, i) \in Seq(Names)
      BY <2>3, <2>5, RemoveIn
    <3> QED BY <2>4, <3>1
  <2>8. u = [t EXCEPT !.undealt = pile, !.packs = packs]
    <3>1. t \in Row
      BY PartsOf
    <3> QED BY <2>1, <3>1 DEF Row, PacksWith
  <2> HIDE DEF i, o, cards, pile
  <2>9. /\ DOMAIN packs = DOMAIN t.packs
        /\ packs \in UNION {[D -> [Seats -> PackRow]] : D \in SUBSET (1..Waves)}
        /\ \A w \in DOMAIN packs, q \in Seats : packs[w][q].at = t.packs[w][q].at
    BY <2>2, <2>4, <2>6, PackChange
  <2> HIDE DEF packs
  <2>10. u \in Row
    <3>1. t \in Row
      BY PartsOf
    <3> QED BY <2>7, <2>8, <2>9, <3>1 DEF Row
  <2>11. /\ u.packs = packs /\ u.undealt = pile /\ u.pool = t.pool /\ u.deal = t.deal
         /\ u.wave = t.wave /\ u.theme = t.theme /\ u.status = t.status /\ u.step = t.step
         /\ u.picked = t.picked /\ u.passed = t.passed /\ u.main = t.main /\ u.finished = t.finished
    <3>1. t \in Row
      BY PartsOf
    <3> QED BY <2>8, <3>1 DEF Row
  <2>12. Apart(u)
    BY <2>9, <2>11, PartsOf DEF Apart
  <2>13. u \in Wholes
    BY <2>9, <2>10, <2>11, <2>12, PartsOf, WholeAgain DEF Running, Behind
  <2>14. Swapped(t, s, u, i, out)
    BY <2>6, <2>11 DEF Swapped, packs, pile, cards, o
  <2> QED BY <1>2, <2>11, <2>13, <2>14 DEF i
<1> QED BY <1>1, <1>2

(* The start of a wave. *)
LEMMA OpenWaveIs ==
  ASSUME config \in Tables, NEW t \in Row, t.status = "active", ~IsTheme,
         DOMAIN t.deal = 1..Waves, Apart(t), NEW w \in 1..Waves, \A v \in DOMAIN t.packs : v < w
  PROVE  LET u == OpenWave(t, w)
         IN  /\ u \in Wholes /\ u.status = "active" /\ u.wave = w /\ u.step = 1
             /\ u.pool = t.pool /\ u.undealt = t.undealt /\ u.deal = t.deal
             /\ DOMAIN u.packs = {w} \cup DOMAIN t.packs
             /\ \A o \in Seats : u.packs[w][o].cards = t.deal[w][o]
             /\ \A v \in DOMAIN t.packs : u.packs[v] = t.packs[v]
             /\ u.main = t.main /\ u.finished = t.finished /\ u.picked = {} /\ u.passed = {}
<1> DEFINE u == OpenWave(t, w)
           opened == [o \in Seats |-> [at |-> o, cards |-> t.deal[w][o]]]
           packs == With(t.packs, w, opened)
<1>1. u = [t EXCEPT !.packs = packs, !.wave = w, !.step = 1, !.picked = {}, !.passed = {}]
  BY DEF OpenWave
<1>2. PICK D \in SUBSET (1..Waves) : t.packs \in [D -> [Seats -> PackRow]]
  BY DEF Row
<1>3. t.deal \in [1..Waves -> [Seats -> Bag]]
  BY DEF Row
<1>4. opened \in [Seats -> PackRow]
  BY <1>3 DEF PackRow
<1>5. /\ DOMAIN packs = {w} \cup D /\ packs \in [{w} \cup D -> [Seats -> PackRow]]
      /\ packs[w] = opened /\ \A v \in D \ {w} : packs[v] = t.packs[v]
  <2> HIDE DEF opened
  <2> QED BY <1>2, <1>4 DEF With
<1>6. packs \in UNION {[E -> [Seats -> PackRow]] : E \in SUBSET (1..Waves)}
  BY <1>5
<1> HIDE DEF u, packs
<1>7. u \in Row
  <2>1. t \in Row /\ 1 \in Nat \ {0} /\ {} \in SUBSET Seats
    OBVIOUS
  <2> QED BY <1>1, <1>6, <2>1 DEF Row
<1>8. /\ u.packs = packs /\ u.wave = w /\ u.step = 1 /\ u.status = "active" /\ u.deal = t.deal
      /\ u.pool = t.pool /\ u.undealt = t.undealt /\ u.main = t.main /\ u.finished = t.finished
      /\ u.picked = {} /\ u.passed = {}
  BY <1>1 DEF Row
<1>9. Apart(u)
  <2> SUFFICES ASSUME NEW v \in DOMAIN packs, NEW o \in Seats, NEW q \in Seats,
                      packs[v][o].at = packs[v][q].at
               PROVE  o = q
    BY <1>8 DEF Apart
  <2>1. CASE v = w
    BY <1>5, <2>1
  <2>2. CASE v # w
    <3>1. v \in DOMAIN t.packs /\ packs[v] = t.packs[v]
      BY <1>2, <1>5, <2>2
    <3> QED BY <3>1 DEF Apart
  <2> QED BY <2>1, <2>2
<1>10. u \in Wholes
  <2>1. Behind(u)
    <3>1. w \in Nat /\ \A v \in D : v \in Nat
      BY RoundsAre
    <3>2. \A v \in D : v < w
      BY <1>2
    <3>3. DOMAIN u.packs = {w} \cup D /\ u.wave = w
      BY <1>5, <1>8
    <3>4. ASSUME NEW v \in DOMAIN u.packs PROVE v <= u.wave
      <4>1. CASE v = w
        BY <3>1, <3>3, <4>1
      <4>2. CASE v \in D
        <5>1. v \in Nat /\ w \in Nat /\ v < w
          BY <3>1, <3>2, <4>2
        <5> QED BY <3>3, <5>1
      <4> QED BY <3>3, <4>1, <4>2
    <3> QED BY <3>4 DEF Behind
  <2> QED BY <1>2, <1>5, <1>7, <1>8, <1>9, <2>1, WholeAgain
<1>11. \A o \in Seats : opened[o].cards = t.deal[w][o]
  OBVIOUS
<1>12. DOMAIN t.packs = D
  BY <1>2
<1>14. w \notin D
  <2>1. w \in Nat /\ \A v \in D : v < w
    BY <1>12, RoundsAre
  <2> QED BY <2>1
<1> HIDE DEF opened
<1>13. /\ DOMAIN u.packs = {w} \cup DOMAIN t.packs
       /\ \A o \in Seats : u.packs[w][o].cards = t.deal[w][o]
       /\ \A v \in DOMAIN t.packs : u.packs[v] = t.packs[v]
  BY <1>5, <1>8, <1>11, <1>12, <1>14
<1> QED BY <1>8, <1>10, <1>13 DEF u

(* Packs of the current wave that are put elsewhere. *)
LEMMA WaveChange ==
  ASSUME config \in Tables, NEW t \in Wholes, Running(t), NEW new \in [Seats -> PackRow],
         \A o \in Seats : new[o].cards = t.packs[t.wave][o].cards,
         \A o, q \in Seats : new[o].at = new[q].at => o = q
  PROVE  LET packs == [t.packs EXCEPT ![t.wave] = new]
         IN  /\ DOMAIN packs = DOMAIN t.packs /\ packs \in [DOMAIN t.packs -> [Seats -> PackRow]]
             /\ packs \in UNION {[D -> [Seats -> PackRow]] : D \in SUBSET (1..Waves)}
             /\ \A w \in DOMAIN packs, q \in Seats : packs[w][q].cards = t.packs[w][q].cards
             /\ \A w \in DOMAIN packs : \A o, q \in Seats : packs[w][o].at = packs[w][q].at => o = q
<1> DEFINE packs == [t.packs EXCEPT ![t.wave] = new]
<1>1. t.wave \in DOMAIN t.packs /\ t.packs \in [DOMAIN t.packs -> [Seats -> PackRow]]
      /\ DOMAIN t.packs \subseteq 1..Waves /\ Apart(t)
  BY PartsOf
<1>2. /\ DOMAIN packs = DOMAIN t.packs /\ packs \in [DOMAIN t.packs -> [Seats -> PackRow]]
      /\ packs[t.wave] = new /\ \A w \in DOMAIN packs \ {t.wave} : packs[w] = t.packs[w]
  BY <1>1
<1> HIDE DEF packs
<1>3. \A w \in DOMAIN packs, q \in Seats : packs[w][q].cards = t.packs[w][q].cards
  BY <1>2
<1>4. \A w \in DOMAIN packs : \A o, q \in Seats : packs[w][o].at = packs[w][q].at => o = q
  BY <1>1, <1>2 DEF Apart
<1>5. packs \in UNION {[D -> [Seats -> PackRow]] : D \in SUBSET (1..Waves)}
  BY <1>1, <1>2
<1> QED BY <1>2, <1>3, <1>4, <1>5 DEF packs

(* A seat to the left or to the right. *)
LEMMA NextSeat ==
  ASSUME NEW n \in Nat, n >= 2, NEW a \in 0..(n - 1)
  PROVE  /\ (a + 1) % n = IF a = n - 1 THEN 0 ELSE a + 1
         /\ (a + -1) % n = IF a = 0 THEN n - 1 ELSE a - 1
<1>1. CASE a = n - 1
  <2>1. a + 1 = n /\ n % n = 0
    BY <1>1
  <2> QED BY <1>1, <2>1
<1>2. CASE a = 0
  BY <1>2
<1>3. CASE a # 0 /\ a # n - 1
  BY <1>3
<1> QED BY <1>1, <1>2, <1>3

LEMMA Rotation ==
  ASSUME config \in Tables, NEW w \in Nat
  PROVE  /\ \A a \in Seats : (a + Direction(w)) % N \in Seats
         /\ \A a, b \in Seats : (a + Direction(w)) % N = (b + Direction(w)) % N => a = b
<1>1. N \in Nat /\ N >= 2 /\ Seats = 0..(N - 1)
  BY ConfigIs
<1>2. Direction(w) = 1 \/ Direction(w) = -1
  BY DEF Direction
<1>3. \A a \in Seats : /\ (a + 1) % N = IF a = N - 1 THEN 0 ELSE a + 1
                       /\ (a + -1) % N = IF a = 0 THEN N - 1 ELSE a - 1
  BY <1>1, NextSeat
<1> HIDE DEF N, Seats
<1>4. CASE Direction(w) = 1
  BY <1>1, <1>3, <1>4
<1>5. CASE Direction(w) = -1
  BY <1>1, <1>3, <1>5
<1> QED BY <1>2, <1>4, <1>5

(* Nothing but the places of the packs, and who acted, differs. *)
OnlyMoved(t, u) ==
    /\ u.status = t.status /\ u.wave = t.wave /\ u.deal = t.deal /\ u.pool = t.pool
    /\ u.undealt = t.undealt /\ u.main = t.main /\ u.finished = t.finished /\ u.theme = t.theme
    /\ DOMAIN u.packs = DOMAIN t.packs
    /\ \A w \in DOMAIN t.packs, q \in Seats : u.packs[w][q].cards = t.packs[w][q].cards

LEMMA AdvanceIs ==
  ASSUME config \in Tables, NEW t \in Wholes, t.status = "active"
  PROVE  Advance(t) \in Wholes /\ OnlyMoved(t, Advance(t))
<1> DEFINE u == Advance(t)
           old == t.packs[t.wave]
           new == IF t.step % PicksPerStep # 0 THEN old
                  ELSE [o \in Seats |-> [old[o] EXCEPT !.at = (@ + Direction(t.wave)) % N]]
           packs == [t.packs EXCEPT ![t.wave] = new]
<1>0. Running(t)
  BY DEF Running
<1>1. t \in Row /\ old \in [Seats -> PackRow] /\ t.wave \in Nat /\ Apart(t)
      /\ t.wave \in DOMAIN t.packs
  BY <1>0, PartsOf
<1>2. \A o, q \in Seats : old[o].at = old[q].at => o = q
  BY <1>1 DEF Apart
<1>3. new \in [Seats -> PackRow] /\ (\A o \in Seats : new[o].cards = old[o].cards)
      /\ \A o, q \in Seats : new[o].at = new[q].at => o = q
  <2> DEFINE turned == [o \in Seats |-> [old[o] EXCEPT !.at = (@ + Direction(t.wave)) % N]]
  <2> HIDE DEF old
  <2>1. ASSUME NEW o \in Seats
        PROVE  /\ turned[o] \in PackRow /\ turned[o].cards = old[o].cards
               /\ turned[o].at = (old[o].at + Direction(t.wave)) % N /\ old[o].at \in Seats
    <3>1. old[o] \in [at : Seats, cards : Bag]
      BY <1>1 DEF PackRow
    <3>2. (old[o].at + Direction(t.wave)) % N \in Seats
      BY <1>1, <3>1, Rotation
    <3> HIDE DEF N, Seats
    <3> QED BY <3>1, <3>2 DEF PackRow
  <2>2. \A o, q \in Seats : turned[o].at = turned[q].at => o = q
    BY <1>1, <1>2, <2>1, Rotation
  <2>3. turned \in [Seats -> PackRow]
    BY <2>1
  <2> HIDE DEF turned
  <2>4. CASE t.step % PicksPerStep # 0
    <3>1. new = old
      BY <2>4
    <3> HIDE DEF new
    <3> QED BY <1>1, <1>2, <3>1
  <2>5. CASE t.step % PicksPerStep = 0
    <3>1. new = turned
      BY <2>5 DEF turned
    <3> HIDE DEF new
    <3> QED BY <2>1, <2>2, <2>3, <3>1
  <2> QED BY <2>4, <2>5
<1>4. u = [t EXCEPT !.packs = packs, !.step = t.step + 1, !.picked = {}, !.passed = {}]
  <2>1. CASE t.step % PicksPerStep # 0
    BY <1>1, <2>1 DEF Advance, Row
  <2>2. CASE t.step % PicksPerStep = 0
    BY <1>1, <2>2 DEF Advance, Row
  <2> QED BY <2>1, <2>2
<1>5. /\ DOMAIN packs = DOMAIN t.packs
      /\ packs \in UNION {[D -> [Seats -> PackRow]] : D \in SUBSET (1..Waves)}
      /\ \A w \in DOMAIN packs, q \in Seats : packs[w][q].cards = t.packs[w][q].cards
      /\ \A w \in DOMAIN packs : \A o, q \in Seats : packs[w][o].at = packs[w][q].at => o = q
  <2> HIDE DEF new
  <2> QED BY <1>0, <1>3, WaveChange
<1> HIDE DEF u, packs, new, old
<1>6. u \in Row
  <2>1. t.step + 1 \in Nat \ {0} /\ {} \in SUBSET Seats
    BY PartsOf
  <2> QED BY <1>1, <1>4, <1>5, <2>1 DEF Row
<1>7. u.packs = packs /\ OnlyMoved(t, u)
  BY <1>1, <1>4, <1>5 DEF Row, OnlyMoved
<1>8. Apart(u)
  BY <1>5, <1>7 DEF Apart
<1>9. u \in Wholes
  BY <1>5, <1>6, <1>7, <1>8, PartsOf, WholeAgain DEF Running, Behind, OnlyMoved
<1> QED BY <1>7, <1>9 DEF u

LEMMA RewindIs ==
  ASSUME config \in Tables, NEW t \in Wholes, t.status = "active"
  PROVE  Rewind(t) \in Wholes /\ OnlyMoved(t, Rewind(t))
<1> DEFINE u == Rewind(t)
           old == t.packs[t.wave]
           new == [o \in Seats |-> [old[o] EXCEPT !.at = o]]
           packs == [t.packs EXCEPT ![t.wave] = new]
<1>0. Running(t)
  BY DEF Running
<1>1. t \in Row /\ old \in [Seats -> PackRow] /\ t.wave \in DOMAIN t.packs
  BY <1>0, PartsOf
<1>2. \A o \in Seats : new[o] \in PackRow /\ new[o].cards = old[o].cards /\ new[o].at = o
  BY <1>1 DEF PackRow
<1>3. u = [t EXCEPT !.packs = packs]
  BY <1>1 DEF Rewind, Row
<1>4. /\ DOMAIN packs = DOMAIN t.packs
      /\ packs \in UNION {[D -> [Seats -> PackRow]] : D \in SUBSET (1..Waves)}
      /\ \A w \in DOMAIN packs, q \in Seats : packs[w][q].cards = t.packs[w][q].cards
      /\ \A w \in DOMAIN packs : \A o, q \in Seats : packs[w][o].at = packs[w][q].at => o = q
  <2>1. new \in [Seats -> PackRow]
    BY <1>2
  <2> HIDE DEF new
  <2> QED BY <1>0, <1>2, <2>1, WaveChange
<1> HIDE DEF u, packs, new, old
<1>5. u \in Row
  BY <1>1, <1>3, <1>4 DEF Row
<1>6. u.packs = packs /\ OnlyMoved(t, u)
  BY <1>1, <1>3, <1>4 DEF Row, OnlyMoved
<1>7. Apart(u)
  BY <1>4, <1>6 DEF Apart
<1>8. u \in Wholes
  BY <1>4, <1>5, <1>6, <1>7, PartsOf, WholeAgain DEF Running, Behind, OnlyMoved
<1> QED BY <1>6, <1>8 DEF u

(* A finite set as a sequence. *)
LEMMA ListIs ==
  ASSUME NEW S, IsFiniteSet(S)
  PROVE  /\ Cardinality(S) \in Nat /\ SetToSeq(S) \in [1..Cardinality(S) -> S]
         /\ \A i, j \in 1..Cardinality(S) : SetToSeq(S)[i] = SetToSeq(S)[j] => i = j
         /\ \A x \in S : \E i \in 1..Cardinality(S) : SetToSeq(S)[i] = x
<1>1. Cardinality(S) \in Nat /\ Bijection(1..Cardinality(S), S) # {}
  BY FS_CardinalityType DEF ExistsBijection
<1>2. \E f \in [1..Cardinality(S) -> S] : IsInjective(f)
  BY <1>1 DEF Bijection, Injection
<1>3. SetToSeq(S) \in [1..Cardinality(S) -> S] /\ IsInjective(SetToSeq(S))
  BY <1>2 DEF SetToSeq
<1>4. SetToSeq(S) \in Injection(1..Cardinality(S), S)
  BY <1>3 DEF Injection
<1>5. IsFiniteSet(1..Cardinality(S)) /\ Cardinality(1..Cardinality(S)) = Cardinality(S)
  BY <1>1, FS_Interval
<1>6. SetToSeq(S) \in Surjection(1..Cardinality(S), S)
  BY <1>4, <1>5, FS_Injection
<1> QED BY <1>1, <1>3, <1>6 DEF IsInjective, Surjection

(* Sequences one after the other. *)
LEMMA FlattenIs ==
  ASSUME NEW X, NEW n \in Nat, NEW q \in [1..n -> Seq(X)]
  PROVE  \E f \in [0..n -> Seq(X)] :
            f[0] = << >> /\ (\A i \in 1..n : f[i] = f[i - 1] \o q[i]) /\ FlattenSeq(q) = f[n]
<1> DEFINE Y == Seq(X)
           G == [p \in (1..n) \X Y |-> p[2] \o q[p[1]]]
<1>0. ASSUME NEW i \in 1..n, NEW x \in Y PROVE G[<<i, x>>] = x \o q[i] /\ G[<<i, x>>] \in Y
  <2>1. x \in Seq(X) /\ q[i] \in Seq(X)
    OBVIOUS
  <2>2. x \o q[i] \in Seq(X)
    BY <2>1
  <2>3. <<i, x>> \in (1..n) \X Y
    OBVIOUS
  <2> HIDE DEF Y
  <2>4. G[<<i, x>>] = x \o q[i]
    BY <2>3
  <2> QED BY <2>2, <2>4 DEF Y
<1> HIDE DEF G
<1>1. PICK f \in [0..n -> Y] : f[0] = << >> /\ \A i \in 1..n : f[i] = G[<<i, f[i - 1]>>]
  <2>1. << >> \in Y
    OBVIOUS
  <2> HIDE DEF Y
  <2>2. StepsIn(G, n, Y)
    BY <1>0 DEF StepsIn
  <2>3. \E f : Follows(f, << >>, G, n, Y)
    BY <2>1, <2>2, Recursion
  <2> QED BY <2>3 DEF Follows
<1>2. ASSUME NEW i \in 1..n PROVE f[i - 1] \in Seq(X) /\ f[i] = f[i - 1] \o q[i]
  <2>1. i - 1 \in 0..n /\ f[i - 1] \in Y
    BY <1>1
  <2> QED BY <1>0, <1>1, <2>1
<1>3. q \in Seq(Seq(X)) /\ Len(q) = n
  OBVIOUS
<1>4. CASE n = 0
  <2>1. FlattenSeq(q) = q /\ q = << >>
    BY <1>3, <1>4 DEF FlattenSeq
  <2> QED BY <1>1, <1>2, <1>4, <2>1
<1>5. CASE n # 0
  <2> DEFINE flatten == CHOOSE flatten : flatten =
                 [i \in 1..Len(q) |-> IF i = 1 THEN q[i] ELSE flatten[i - 1] \o q[i]]
             some == [i \in 1..n |-> f[i]]
  <2>1. \A i \in 1..n : some[i] = IF i = 1 THEN q[i] ELSE some[i - 1] \o q[i]
    <3>1. f[1] = q[1]
      <4>1. 1 \in 1..n /\ q[1] \in Seq(X)
        BY <1>5
      <4>2. f[1] = f[0] \o q[1]
        <5>1. f[1] = f[1 - 1] \o q[1]
          BY <1>2, <4>1
        <5> QED BY <5>1
      <4> QED BY <1>1, <4>1, <4>2
    <3>2. \A i \in 1..n : i # 1 => i - 1 \in 1..n
      OBVIOUS
    <3> QED BY <1>2, <3>1, <3>2
  <2>2. some = [i \in 1..Len(q) |-> IF i = 1 THEN q[i] ELSE some[i - 1] \o q[i]]
    BY <1>3, <2>1
  <2>3. \E g : g = [i \in 1..Len(q) |-> IF i = 1 THEN q[i] ELSE g[i - 1] \o q[i]]
    <3> HIDE DEF some
    <3> QED BY <2>2
  <2>4. flatten = [i \in 1..Len(q) |-> IF i = 1 THEN q[i] ELSE flatten[i - 1] \o q[i]]
    BY <2>3
  <2>5. FlattenSeq(q) = flatten[Len(q)]
    BY <1>3, <1>5 DEF FlattenSeq
  <2> DEFINE T == {i \in Nat : i + 1 <= n => flatten[i + 1] = f[i + 1]}
  <2> HIDE DEF flatten
  <2>6. 0 \in T
    <3>1. flatten[1] = q[1]
      BY <1>3, <1>5, <2>4
    <3>2. 1 \in 1..n
      BY <1>5
    <3>3. f[1] = q[1]
      BY <2>1, <3>2
    <3> QED BY <3>1, <3>3
  <2>7. ASSUME NEW k \in Nat, k \in T PROVE k + 1 \in T
    <3> SUFFICES ASSUME k + 2 <= n PROVE flatten[k + 2] = f[k + 2]
      OBVIOUS
    <3>1. flatten[k + 1] = f[k + 1]
      BY <2>7
    <3> DEFINE i == k + 2
    <3>4. i \in 1..n /\ i # 1 /\ i - 1 = k + 1
      OBVIOUS
    <3> HIDE DEF i
    <3>2. flatten[i] = flatten[k + 1] \o q[i]
      BY <1>3, <2>4, <3>4
    <3>3. f[i] = f[k + 1] \o q[i]
      BY <1>2, <3>4
    <3> QED BY <3>1, <3>2, <3>3 DEF i
  <2> HIDE DEF T
  <2>8. n - 1 \in T
    <3>1. n - 1 \in Nat
      BY <1>5
    <3> QED BY <2>6, <2>7, <3>1, Induction
  <2>9. flatten[n] = f[n]
    BY <1>5, <2>8 DEF T
  <2> QED BY <1>1, <1>2, <1>3, <2>5, <2>9
<1> QED BY <1>4, <1>5

LEMMA UnpickedNat ==
  ASSUME config \in Tables, NEW t \in Wholes, NEW c \in Names
  PROVE  /\ Unpicked(t, c) \in Nat
         /\ \A w \in DOMAIN t.packs : SumFunction([o \in Seats |-> t.packs[w][o].cards[c]]) \in Nat
<1>1. t.packs \in [DOMAIN t.packs -> [Seats -> PackRow]] /\ DOMAIN t.packs \subseteq 1..Waves
  BY PartsOf
<1>2. IsFiniteSet(Seats) /\ IsFiniteSet(DOMAIN t.packs)
  BY <1>1, FiniteSets
<1>3. ASSUME NEW w \in DOMAIN t.packs
      PROVE  SumFunction([o \in Seats |-> t.packs[w][o].cards[c]]) \in Nat
  <2> DEFINE fun == [o \in Seats |-> t.packs[w][o].cards[c]]
  <2>1. \A o \in Seats : fun[o] \in Nat
    BY <1>1 DEF PackRow, Bag
  <2>2. DOMAIN fun = Seats
    OBVIOUS
  <2> HIDE DEF fun
  <2>3. SumFunctionOnSet(fun, Seats) \in Nat
    BY <1>2, <2>1, SumNat
  <2>4. SumFunction(fun) \in Nat
    BY <2>2, <2>3 DEF SumFunction
  <2> QED BY <2>4 DEF fun
<1> DEFINE fun == [w \in DOMAIN t.packs |-> SumFunction([o \in Seats |-> t.packs[w][o].cards[c]])]
<1>4. DOMAIN fun = DOMAIN t.packs /\ \A w \in DOMAIN t.packs : fun[w] \in Nat
  BY <1>3
<1> HIDE DEF fun
<1>5. SumFunctionOnSet(fun, DOMAIN t.packs) \in Nat
  BY <1>2, <1>4, SumNat
<1>6. Unpicked(t, c) = SumFunctionOnSet(fun, DOMAIN t.packs)
  BY <1>4 DEF Unpicked, SumFunction, fun
<1> QED BY <1>3, <1>5, <1>6

(* How often a card is in a sequence. *)
Occurs(q, c) == Cardinality({i \in DOMAIN q : q[i] = c})

LEMMA OccursNat ==
  ASSUME NEW X, NEW q \in Seq(X), NEW c
  PROVE  Occurs(q, c) \in Nat /\ IsFiniteSet({i \in DOMAIN q : q[i] = c})
<1>1. DOMAIN q = 1..Len(q) /\ Len(q) \in Nat
  OBVIOUS
<1>2. IsFiniteSet(DOMAIN q)
  BY <1>1, FS_Interval
<1>3. IsFiniteSet({i \in DOMAIN q : q[i] = c})
  BY <1>2, FS_Subset
<1> QED BY <1>3, FS_CardinalityType DEF Occurs

LEMMA OccursConcat ==
  ASSUME NEW X, NEW q \in Seq(X), NEW r \in Seq(X), NEW c
  PROVE  Occurs(q \o r, c) = Occurs(q, c) + Occurs(r, c)
<1> DEFINE A == {i \in DOMAIN q : q[i] = c}
           B == {i \in DOMAIN r : r[i] = c}
           C == {Len(q) + i : i \in B}
           D == {i \in DOMAIN (q \o r) : (q \o r)[i] = c}
           shift == [i \in B |-> Len(q) + i]
<1>1. /\ Len(q) \in Nat /\ Len(r) \in Nat /\ DOMAIN q = 1..Len(q) /\ DOMAIN r = 1..Len(r)
      /\ DOMAIN (q \o r) = 1..(Len(q) + Len(r))
  OBVIOUS
<1>2. \A i \in 1..Len(q) : (q \o r)[i] = q[i]
  OBVIOUS
<1>3. \A i \in 1..Len(r) : (q \o r)[Len(q) + i] = r[i]
  OBVIOUS
<1>4. D = A \cup C
  <2>1. ASSUME NEW i \in D PROVE i \in A \cup C
    <3>1. CASE i <= Len(q)
      BY <1>1, <1>2, <3>1
    <3>2. CASE ~(i <= Len(q))
      <4>1. i - Len(q) \in 1..Len(r) /\ Len(q) + (i - Len(q)) = i
        BY <1>1, <3>2
      <4>2. i - Len(q) \in B
        BY <1>1, <1>3, <4>1
      <4> QED BY <4>1, <4>2
    <3> QED BY <3>1, <3>2
  <2>2. A \subseteq D
    BY <1>1, <1>2
  <2>3. C \subseteq D
    BY <1>1, <1>3
  <2> QED BY <2>1, <2>2, <2>3
<1>5. A \cap C = {}
  BY <1>1
<1>6. IsFiniteSet(A) /\ IsFiniteSet(B)
  BY OccursNat
<1>7. shift \in Bijection(B, C)
  BY <1>1 DEF Bijection, Injection, Surjection, IsInjective
<1> HIDE DEF A, B, C, D, shift
<1>8. IsFiniteSet(C) /\ Cardinality(C) = Cardinality(B)
  BY <1>6, <1>7, FS_Bijection DEF ExistsBijection
<1>9. Cardinality(A \cup C) = Cardinality(A) + Cardinality(C) - Cardinality(A \cap C)
  BY <1>6, <1>8, FS_Union
<1>10. Cardinality(A \cap C) = 0 /\ Cardinality(A) \in Nat /\ Cardinality(C) \in Nat
  BY <1>5, <1>6, <1>8, FS_EmptySet, FS_CardinalityType
<1>11. Cardinality(D) = Cardinality(A) + Cardinality(B)
  BY <1>4, <1>8, <1>9, <1>10
<1> QED BY <1>11 DEF Occurs, A, B, D

LEMMA OccursAppend ==
  ASSUME NEW X, NEW q \in Seq(X), NEW x \in X, NEW c
  PROVE  Occurs(Append(q, x), c) = Occurs(q, c) + (IF x = c THEN 1 ELSE 0)
<1> DEFINE A == {i \in DOMAIN q : q[i] = c}
           D == {i \in DOMAIN Append(q, x) : Append(q, x)[i] = c}
<1>1. /\ Len(q) \in Nat /\ DOMAIN q = 1..Len(q) /\ DOMAIN Append(q, x) = 1..(Len(q) + 1)
      /\ (\A i \in 1..Len(q) : Append(q, x)[i] = q[i]) /\ Append(q, x)[Len(q) + 1] = x
  OBVIOUS
<1>2. D = IF x = c THEN A \cup {Len(q) + 1} ELSE A
  BY <1>1
<1>3. Len(q) + 1 \notin A
  BY <1>1
<1>4. IsFiniteSet(A)
  BY OccursNat
<1> HIDE DEF A, D
<1>5. Cardinality(A \cup {Len(q) + 1}) = Cardinality(A) + 1 /\ Cardinality(A) \in Nat
  BY <1>3, <1>4, FS_AddElement, FS_CardinalityType
<1>6. Cardinality(D) = Cardinality(A) + (IF x = c THEN 1 ELSE 0)
  BY <1>2, <1>5
<1> QED BY <1>6 DEF Occurs, A, D

LEMMA OccursRemove ==
  ASSUME NEW X, NEW q \in Seq(X), NEW i \in DOMAIN q, NEW c
  PROVE  Occurs(RemoveAt(q, i), c) = Occurs(q, c) - (IF q[i] = c THEN 1 ELSE 0)
<1> DEFINE a == SubSeq(q, 1, i - 1)
           b == SubSeq(q, i + 1, Len(q))
<1>1. i \in 1..Len(q) /\ Len(q) \in Nat /\ q[i] \in X
  OBVIOUS
<1>2. /\ a \in Seq(X) /\ b \in Seq(X) /\ Len(a) = i - 1 /\ Len(b) = Len(q) - i
      /\ (\A j \in 1..(i - 1) : a[j] = q[j]) /\ (\A j \in 1..(Len(q) - i) : b[j] = q[j + i])
  BY <1>1
<1>3. RemoveAt(q, i) = a \o b
  BY DEF RemoveAt
<1> HIDE DEF a, b
<1>4. q = Append(a, q[i]) \o b
  <2> DEFINE e == Append(a, q[i])
  <2>1. e \in Seq(X) /\ Len(e) = i /\ e[i] = q[i] /\ \A j \in 1..(i - 1) : e[j] = q[j]
    BY <1>1, <1>2
  <2> HIDE DEF e
  <2>2. Len(e \o b) = Len(q) /\ e \o b \in Seq(X)
    BY <1>1, <1>2, <2>1
  <2>3. ASSUME NEW j \in 1..Len(q) PROVE (e \o b)[j] = q[j]
    <3>1. CASE j <= i
      BY <1>1, <1>2, <2>1, <3>1
    <3>2. CASE ~(j <= i)
      <4>1. j - Len(e) \in 1..(Len(q) - i) /\ j - Len(e) + i = j
        BY <1>1, <2>1, <3>2
      <4>2. (e \o b)[j] = b[j - Len(e)]
        BY <1>1, <1>2, <2>1, <3>2
      <4> QED BY <1>2, <4>1, <4>2
    <3> QED BY <3>1, <3>2
  <2>4. e \o b = q
    <3> DEFINE d == e \o b
    <3>1. Len(d) = Len(q) /\ (\A j \in 1..Len(q) : d[j] = q[j]) /\ d \in Seq(X)
      BY <2>2, <2>3
    <3> HIDE DEF d
    <3>2. d = [j \in 1..Len(d) |-> d[j]] /\ q = [j \in 1..Len(q) |-> q[j]]
      BY <3>1
    <3>3. d = q
      BY <3>1, <3>2, <1>1
    <3> QED BY <3>3 DEF d
  <2> QED BY <2>4 DEF e
<1>5. Append(a, q[i]) \in Seq(X)
  BY <1>1, <1>2
<1>6. Occurs(q, c) = Occurs(Append(a, q[i]), c) + Occurs(b, c)
  <2>1. Occurs(Append(a, q[i]) \o b, c) = Occurs(Append(a, q[i]), c) + Occurs(b, c)
    BY <1>2, <1>5, OccursConcat
  <2> QED BY <1>4, <2>1
<1>7. Occurs(Append(a, q[i]), c) = Occurs(a, c) + (IF q[i] = c THEN 1 ELSE 0)
  BY <1>1, <1>2, OccursAppend
<1>8. Occurs(a \o b, c) = Occurs(a, c) + Occurs(b, c)
  BY <1>2, OccursConcat
<1>9. Occurs(a, c) \in Nat /\ Occurs(b, c) \in Nat
  BY <1>2, OccursNat
<1> QED BY <1>3, <1>6, <1>7, <1>8, <1>9

LEMMA FlattenIn ==
  ASSUME NEW X, NEW n \in Nat, NEW q \in [1..n -> Seq(X)]
  PROVE  FlattenSeq(q) \in Seq(X)
<1>1. PICK f \in [0..n -> Seq(X)] :
         f[0] = << >> /\ (\A i \in 1..n : f[i] = f[i - 1] \o q[i]) /\ FlattenSeq(q) = f[n]
  BY FlattenIs
<1> QED BY <1>1

(* Only one of the sequences has the card. *)
OnlyAt(q, n, c, k) == \A i \in (1..n) \ {k} : Occurs(q[i], c) = 0

LEMMA OccursFlat ==
  ASSUME NEW X, NEW n \in Nat, NEW q \in [1..n -> Seq(X)], NEW c, NEW k \in 1..n,
         OnlyAt(q, n, c, k)
  PROVE  Occurs(FlattenSeq(q), c) = Occurs(q[k], c)
<1>1. PICK f \in [0..n -> Seq(X)] :
         f[0] = << >> /\ (\A i \in 1..n : f[i] = f[i - 1] \o q[i]) /\ FlattenSeq(q) = f[n]
  BY FlattenIs
<1> DEFINE Sum(i) == IF k <= i THEN Occurs(q[k], c) ELSE 0
           T == {i \in Nat : i <= n => Occurs(f[i], c) = Sum(i)}
<1>2. 0 \in T
  <2>1. {i \in DOMAIN << >> : << >>[i] = c} = {}
    OBVIOUS
  <2>2. Occurs(<< >>, c) = 0
    BY <2>1, FS_EmptySet DEF Occurs
  <2> QED BY <1>1, <2>2
<1>3. ASSUME NEW i \in Nat, i \in T PROVE i + 1 \in T
  <2> SUFFICES ASSUME i + 1 <= n PROVE Occurs(f[i + 1], c) = Sum(i + 1)
    OBVIOUS
  <2> DEFINE j == i + 1
  <2>1. j \in 1..n /\ j - 1 = i /\ i \in 0..n
    OBVIOUS
  <2>2. f[j] = f[i] \o q[j]
    BY <1>1, <2>1
  <2>3. Occurs(f[i], c) = Sum(i)
    BY <1>3
  <2>4. f[i] \in Seq(X) /\ q[j] \in Seq(X)
    BY <2>1
  <2>5. Occurs(f[j], c) = Sum(i) + Occurs(q[j], c)
    BY <2>2, <2>3, <2>4, OccursConcat
  <2>6. Occurs(q[j], c) \in Nat
    BY <2>4, OccursNat
  <2>7. CASE j = k
    <3>1. Sum(i) = 0 /\ Sum(j) = Occurs(q[j], c)
      <4>1. ~(k <= i) /\ k <= j
        BY <2>7
      <4> QED BY <2>7, <4>1
    <3> HIDE DEF Sum
    <3> QED BY <2>5, <2>6, <3>1
  <2>8. CASE j # k
    <3>1. Occurs(q[j], c) = 0
      BY <2>1, <2>8 DEF OnlyAt
    <3>2. Sum(i) = Sum(j) /\ Sum(i) \in Nat
      <4>1. q[k] \in Seq(X)
        OBVIOUS
      <4>2. Occurs(q[k], c) \in Nat
        BY <4>1, OccursNat
      <4> QED BY <2>8, <4>2
    <3> HIDE DEF Sum
    <3> QED BY <2>5, <3>1, <3>2
  <2> QED BY <2>7, <2>8
<1> HIDE DEF T
<1>4. n \in T
  BY <1>2, <1>3, Induction
<1> QED BY <1>1, <1>4 DEF T

(* What nobody took, as a sequence of every card as often as it was left. *)
LEMMA LeftoversIs ==
  ASSUME config \in Tables, NEW t \in Wholes
  PROVE  /\ Leftovers(t) \in Seq(Names)
         /\ \A c \in Names : Occurs(Leftovers(t), c) = Unpicked(t, c)
<1> DEFINE n == Cardinality(Names)
           list == SetToSeq(Names)
           copies(c) == [j \in 1..Unpicked(t, c) |-> c]
           q == [i \in 1..n |-> copies(list[i])]
<1>1. /\ n \in Nat /\ list \in [1..n -> Names]
      /\ \A i, j \in 1..n : list[i] = list[j] => i = j
      /\ \A x \in Names : \E i \in 1..n : list[i] = x
  BY FiniteSets, ListIs
<1>2. ASSUME NEW c \in Names
      PROVE  copies(c) \in Seq(Names) /\ Occurs(copies(c), c) = Unpicked(t, c)
             /\ \A d \in Names \ {c} : Occurs(copies(c), d) = 0
  <2>1. Unpicked(t, c) \in Nat
    BY UnpickedNat
  <2>2. {j \in DOMAIN copies(c) : copies(c)[j] = c} = 1..Unpicked(t, c)
    OBVIOUS
  <2>3. \A d \in Names \ {c} : {j \in DOMAIN copies(c) : copies(c)[j] = d} = {}
    OBVIOUS
  <2>4. Cardinality(1..Unpicked(t, c)) = Unpicked(t, c)
    BY <2>1, FS_Interval
  <2>5. copies(c) \in Seq(Names)
    BY <2>1
  <2>6. Cardinality({}) = 0
    BY FS_EmptySet
  <2> HIDE DEF copies
  <2> QED BY <2>2, <2>3, <2>4, <2>5, <2>6 DEF Occurs
<1> HIDE DEF n, list, copies
<1>3. q \in [1..n -> Seq(Names)]
  BY <1>1, <1>2
<1>4. Leftovers(t) = FlattenSeq(q)
  BY DEF Leftovers, n, list, copies
<1> HIDE DEF q
<1>5. ASSUME NEW c \in Names
      PROVE  Leftovers(t) \in Seq(Names) /\ Occurs(Leftovers(t), c) = Unpicked(t, c)
  <2>1. PICK k \in 1..n : list[k] = c
    BY <1>1
  <2>2. Occurs(q[k], c) = Unpicked(t, c)
    BY <1>2, <2>1 DEF q
  <2>3. OnlyAt(q, n, c, k)
    BY <1>1, <1>2, <2>1 DEF q, OnlyAt
  <2>4. n \in Nat
    BY <1>1
  <2>5. Occurs(FlattenSeq(q), c) = Occurs(q[k], c)
    BY <1>3, <2>3, <2>4, OccursFlat
  <2>6. FlattenSeq(q) \in Seq(Names)
    BY <1>3, <2>4, FlattenIn
  <2> QED BY <1>4, <2>2, <2>5, <2>6
<1>6. CASE Names = {}
  <2>1. n = 0
    BY <1>6, FS_EmptySet DEF n
  <2>2. n \in Nat
    BY <1>1
  <2>3. FlattenSeq(q) \in Seq(Names)
    BY <1>3, <2>2, FlattenIn
  <2> QED BY <1>4, <1>6, <2>3
<1> QED BY <1>5, <1>6

-----------------------------------------------------------------------------
(* The cards on the table.                                                 *)

LEMMA SumsNat ==
  ASSUME NEW S, IsFiniteSet(S), NEW fun \in [S -> Nat]
  PROVE  SumFunction(fun) \in Nat
<1>1. DOMAIN fun = S /\ \A x \in S : fun[x] \in Nat
  OBVIOUS
<1>2. SumFunctionOnSet(fun, S) \in Nat
  BY <1>1, SumNat
<1> QED BY <1>1, <1>2 DEF SumFunction

LEMMA SumsChange ==
  ASSUME NEW S, IsFiniteSet(S), NEW fun \in [S -> Nat], NEW gun \in [S -> Nat],
         NEW a \in S, \A x \in S \ {a} : gun[x] = fun[x]
  PROVE  SumFunction(gun) = SumFunction(fun) + gun[a] - fun[a]
<1>1. DOMAIN fun = S /\ DOMAIN gun = S /\ Ints(fun, S) /\ Ints(gun, S)
  BY DEF Ints
<1>2. SumFunctionOnSet(gun, S) = SumFunctionOnSet(fun, S) + gun[a] - fun[a]
  BY <1>1, SumChange
<1> QED BY <1>1, <1>2 DEF SumFunction

Without(fun, gun, S, a) == DOMAIN fun = S \ {a} /\ \A x \in S \ {a} : gun[x] = fun[x]

Adds(fun, gun, S, a) == IsFiniteSet(S) /\ gun \in [S -> Nat] /\ a \in S /\ Without(fun, gun, S, a)

LEMMA SumsAdd ==
  ASSUME NEW S, NEW gun, NEW fun, NEW a, Adds(fun, gun, S, a)
  PROVE  SumFunction(gun) = SumFunction(fun) + gun[a]
<1>0. IsFiniteSet(S) /\ gun \in [S -> Nat] /\ a \in S /\ Without(fun, gun, S, a)
  BY DEF Adds
<1>1. IsFiniteSet(S \ {a})
  BY <1>0, FS_RemoveElement
<1>2. Ints(gun, S) /\ Ints(gun, S \ {a}) /\ DOMAIN gun = S
  BY <1>0 DEF Ints
<1>3. SumFunctionOnSet(gun, S) = gun[a] + SumFunctionOnSet(gun, S \ {a})
  BY <1>0, <1>2, SumSplit
<1>4. SumFunctionOnSet(fun, S \ {a}) = SumFunctionOnSet(gun, S \ {a})
  BY <1>0, <1>1, <1>2, SumSame DEF Without
<1>5. gun[a] \in Int /\ SumFunctionOnSet(gun, S \ {a}) \in Int
  BY <1>0, <1>1, <1>2, SumSplit
<1> QED BY <1>0, <1>2, <1>3, <1>4, <1>5 DEF SumFunction, Without

LEMMA SumsZero ==
  ASSUME NEW S, IsFiniteSet(S), NEW fun \in [S -> Nat], \A x \in S : fun[x] = 0
  PROVE  SumFunction(fun) = 0
<1> DEFINE T == {s \in SUBSET S : SumFunctionOnSet(fun, s) = 0}
<1>1. {} \in T
  BY SumNone
<1>2. ASSUME NEW s \in SUBSET S, NEW x \in S, s \in T, x \notin s PROVE s \cup {x} \in T
  <2>1. IsFiniteSet(s \cup {x}) /\ (s \cup {x}) \ {x} = s /\ x \in s \cup {x}
    BY <1>2, FS_Subset, FS_AddElement
  <2>2. Ints(fun, s \cup {x})
    BY DEF Ints
  <2>3. \A y \in s \cup {x} : SumFunctionOnSet(fun, s \cup {x})
                              = fun[y] + SumFunctionOnSet(fun, (s \cup {x}) \ {y})
    BY <2>1, <2>2, SumSplit
  <2>4. SumFunctionOnSet(fun, s \cup {x}) = fun[x] + SumFunctionOnSet(fun, s)
    BY <2>1, <2>3
  <2> QED BY <1>2, <2>4
<1> HIDE DEF T
<1>3. S \in T
  BY <1>1, <1>2, FiniteInduction
<1> QED BY <1>3 DEF T, SumFunction

(* Copies of a card in all packs of some rows, dealt or still there.       *)
WaveOf(rows, w, c) == SumFunction([o \in Seats |-> rows[w][o][c]])
AllOf(rows, c) == SumFunction([w \in DOMAIN rows |-> WaveOf(rows, w, c)])

LEMMA AllNat ==
  ASSUME config \in Tables, NEW D \in SUBSET (1..Waves), NEW rows \in [D -> [Seats -> Bag]],
         NEW c \in Names
  PROVE  AllOf(rows, c) \in Nat /\ \A w \in D : WaveOf(rows, w, c) \in Nat
<1>1. IsFiniteSet(Seats) /\ IsFiniteSet(D)
  BY FiniteSets
<1>2. \A w \in D : [o \in Seats |-> rows[w][o][c]] \in [Seats -> Nat]
  BY DEF Bag
<1>3. \A w \in D : WaveOf(rows, w, c) \in Nat
  BY <1>1, <1>2, SumsNat DEF WaveOf
<1> DEFINE fun == [w \in DOMAIN rows |-> WaveOf(rows, w, c)]
<1>4. fun \in [D -> Nat]
  BY <1>3
<1> HIDE DEF fun
<1>5. SumFunction(fun) \in Nat
  BY <1>1, <1>4, SumsNat
<1> QED BY <1>3, <1>5 DEF AllOf, fun

(* One pack of one wave changes. *)
OnlyThere(rows, new, D, v, q) ==
    \A w \in D, o \in Seats : ~(w = v /\ o = q) => new[w][o] = rows[w][o]

LEMMA AllChange ==
  ASSUME config \in Tables, NEW D \in SUBSET (1..Waves), NEW rows \in [D -> [Seats -> Bag]],
         NEW c \in Names, NEW new \in [D -> [Seats -> Bag]], NEW v \in D, NEW q \in Seats,
         OnlyThere(rows, new, D, v, q)
  PROVE  AllOf(new, c) = AllOf(rows, c) + new[v][q][c] - rows[v][q][c]
<1> DEFINE wave(r, w) == [o \in Seats |-> r[w][o][c]]
           fun == [w \in D |-> SumFunction(wave(rows, w))]
           gun == [w \in D |-> SumFunction(wave(new, w))]
<1>1. IsFiniteSet(Seats) /\ IsFiniteSet(D)
  BY FiniteSets
<1>2. \A w \in D : wave(rows, w) \in [Seats -> Nat] /\ wave(new, w) \in [Seats -> Nat]
  BY DEF Bag
<1>3. SumFunction(wave(new, v)) = SumFunction(wave(rows, v)) + new[v][q][c] - rows[v][q][c]
  <2>1. \A o \in Seats \ {q} : wave(new, v)[o] = wave(rows, v)[o]
    BY DEF OnlyThere
  <2>2. wave(new, v)[q] = new[v][q][c] /\ wave(rows, v)[q] = rows[v][q][c]
    OBVIOUS
  <2> HIDE DEF wave
  <2>3. SumFunction(wave(new, v)) = SumFunction(wave(rows, v)) + wave(new, v)[q] - wave(rows, v)[q]
    BY <1>1, <1>2, <2>1, SumsChange
  <2> QED BY <2>2, <2>3
<1>4. \A w \in D \ {v} : wave(new, w) = wave(rows, w)
  BY DEF OnlyThere
<1> HIDE DEF wave
<1>5. \A w \in D : SumFunction(wave(rows, w)) \in Nat /\ SumFunction(wave(new, w)) \in Nat
  BY <1>1, <1>2, SumsNat
<1>6. fun \in [D -> Nat] /\ gun \in [D -> Nat] /\ \A w \in D \ {v} : gun[w] = fun[w]
  BY <1>4, <1>5
<1>7. gun[v] = SumFunction(wave(new, v)) /\ fun[v] = SumFunction(wave(rows, v))
  OBVIOUS
<1>8. AllOf(rows, c) = SumFunction(fun) /\ AllOf(new, c) = SumFunction(gun)
  BY DEF AllOf, WaveOf, wave
<1> HIDE DEF fun, gun
<1>9. SumFunction(gun) = SumFunction(fun) + gun[v] - fun[v]
  BY <1>1, <1>6, SumsChange
<1>10. SumFunction(fun) \in Nat /\ fun[v] \in Nat /\ new[v][q][c] \in Nat /\ rows[v][q][c] \in Nat
  <2>1. SumFunction(fun) \in Nat
    BY <1>1, <1>6, SumsNat
  <2>2. new[v][q] \in Bag /\ rows[v][q] \in Bag
    OBVIOUS
  <2> QED BY <1>6, <2>1, <2>2 DEF Bag
<1> QED BY <1>3, <1>7, <1>8, <1>9, <1>10

(* One more wave. *)
LEMMA AllAdd ==
  ASSUME config \in Tables, NEW E \in SUBSET (1..Waves), NEW new \in [E -> [Seats -> Bag]],
         NEW v \in E, NEW rows, Without(rows, new, E, v), NEW c \in Names
  PROVE  AllOf(new, c) = AllOf(rows, c) + WaveOf(new, v, c)
<1> DEFINE fun == [w \in E \ {v} |-> WaveOf(rows, w, c)]
           gun == [w \in E |-> WaveOf(new, w, c)]
<1>1. IsFiniteSet(E) /\ DOMAIN rows = E \ {v} /\ \A w \in E \ {v} : rows[w] = new[w]
  BY FiniteSets DEF Without
<1>2. \A w \in E : WaveOf(new, w, c) \in Nat
  BY AllNat
<1>3. \A w \in E \ {v} : WaveOf(new, w, c) = WaveOf(rows, w, c)
  BY <1>1 DEF WaveOf
<1>4. AllOf(rows, c) = SumFunction(fun) /\ AllOf(new, c) = SumFunction(gun)
  BY <1>1 DEF AllOf
<1>5. gun[v] = WaveOf(new, v, c)
  OBVIOUS
<1>6. Adds(fun, gun, E, v)
  BY <1>1, <1>2, <1>3 DEF Adds, Without
<1> HIDE DEF fun, gun
<1>7. SumFunction(gun) = SumFunction(fun) + gun[v]
  BY <1>6, SumsAdd
<1> QED BY <1>4, <1>5, <1>7

(* The packs of a table, as they are and as they were dealt; the cards of a *)
(* name that are on the table, over those that were dealt.                 *)
CardRows(t) == [w \in DOMAIN t.packs |-> [o \in Seats |-> t.packs[w][o].cards]]
DealRows(t) == [w \in DOMAIN t.packs |-> t.deal[w]]
Pooled(t, c) == SumFunction([s \in Seats |-> t.pool[s][c]])
Balance(t, c) == Unpicked(t, c) + Pooled(t, c) + Occurs(t.undealt, c) - AllOf(DealRows(t), c)

LEMMA BalanceIs ==
  ASSUME config \in Tables, NEW t \in Wholes, NEW c \in Names
  PROVE  /\ CardRows(t) \in [DOMAIN t.packs -> [Seats -> Bag]]
         /\ DealRows(t) \in [DOMAIN t.packs -> [Seats -> Bag]]
         /\ Unpicked(t, c) = AllOf(CardRows(t), c)
         /\ AllOf(CardRows(t), c) \in Nat /\ AllOf(DealRows(t), c) \in Nat
         /\ Pooled(t, c) \in Nat /\ Occurs(t.undealt, c) \in Nat /\ Balance(t, c) \in Int
<1>1. /\ t.packs \in [DOMAIN t.packs -> [Seats -> PackRow]] /\ DOMAIN t.packs \in SUBSET (1..Waves)
      /\ t.deal \in [DOMAIN t.deal -> [Seats -> Bag]] /\ DOMAIN t.packs \subseteq DOMAIN t.deal
      /\ t.pool \in [Seats -> Bag] /\ t.undealt \in Seq(Names)
  BY PartsOf
<1> DEFINE D == DOMAIN t.packs
<1>2. CardRows(t) \in [D -> [Seats -> Bag]]
  <2>1. \A w \in D, o \in Seats : t.packs[w][o].cards \in Bag
    BY <1>1 DEF PackRow
  <2> QED BY <2>1 DEF CardRows
<1>3. DealRows(t) \in [D -> [Seats -> Bag]]
  BY <1>1 DEF DealRows
<1> DEFINE left(w) == SumFunction([o \in Seats |-> t.packs[w][o].cards[c]])
<1>4. ASSUME NEW w \in D PROVE left(w) = WaveOf(CardRows(t), w, c)
  <2>1. \A o \in Seats : CardRows(t)[w][o][c] = t.packs[w][o].cards[c]
    BY DEF CardRows
  <2>2. [o \in Seats |-> t.packs[w][o].cards[c]] = [o \in Seats |-> CardRows(t)[w][o][c]]
    BY <2>1
  <2> QED BY <2>2 DEF WaveOf
<1>5. Unpicked(t, c) = SumFunction([w \in D |-> left(w)])
  BY DEF Unpicked
<1> HIDE DEF left
<1>6. DOMAIN CardRows(t) = D /\ [w \in D |-> left(w)] = [w \in D |-> WaveOf(CardRows(t), w, c)]
  BY <1>2, <1>4
<1>7. Unpicked(t, c) = AllOf(CardRows(t), c)
  BY <1>5, <1>6 DEF AllOf
<1> HIDE DEF D
<1>8. AllOf(CardRows(t), c) \in Nat /\ AllOf(DealRows(t), c) \in Nat
  <2>1. D \in SUBSET (1..Waves)
    BY <1>1 DEF D
  <2>2. AllOf(CardRows(t), c) \in Nat
    BY <1>2, <2>1, AllNat
  <2>3. AllOf(DealRows(t), c) \in Nat
    BY <1>3, <2>1, AllNat
  <2> QED BY <2>2, <2>3
<1>9. Pooled(t, c) \in Nat
  <2> DEFINE fun == [s \in Seats |-> t.pool[s][c]]
  <2>1. fun \in [Seats -> Nat]
    BY <1>1 DEF Bag
  <2> HIDE DEF fun
  <2>2. SumFunction(fun) \in Nat
    BY <2>1, FiniteSets, SumsNat
  <2> QED BY <2>2 DEF Pooled, fun
<1>10. Occurs(t.undealt, c) \in Nat
  BY <1>1, OccursNat
<1>11. Balance(t, c) \in Int
  BY <1>7, <1>8, <1>9, <1>10 DEF Balance
<1> QED BY <1>2, <1>3, <1>7, <1>8, <1>9, <1>10, <1>11 DEF D

SameCards(t, u) ==
    /\ u.deal = t.deal /\ u.pool = t.pool /\ u.undealt = t.undealt
    /\ DOMAIN u.packs = DOMAIN t.packs
    /\ \A w \in DOMAIN t.packs, q \in Seats : u.packs[w][q].cards = t.packs[w][q].cards

LEMMA SameBalance ==
  ASSUME config \in Tables, NEW t \in Wholes, NEW u \in Wholes, SameCards(t, u), NEW c \in Names
  PROVE  Balance(u, c) = Balance(t, c)
<1>1. CardRows(u) = CardRows(t)
  BY DEF CardRows, SameCards
<1>2. DealRows(u) = DealRows(t)
  BY DEF DealRows, SameCards
<1>3. Unpicked(u, c) = Unpicked(t, c)
  BY <1>1, BalanceIs
<1>4. Pooled(u, c) = Pooled(t, c) /\ u.undealt = t.undealt
  BY DEF Pooled, SameCards
<1> QED BY <1>2, <1>3, <1>4 DEF Balance

(* What settling keeps.                                                    *)
Conserved(t, u) ==
    \A c \in Names : Balance(u, c) <= Balance(t, c) /\ (~Burn => Balance(u, c) = Balance(t, c))

Leads(t, u) ==
    /\ u \in Wholes /\ Running(u) /\ Conserved(t, u)
    /\ u.pool = t.pool /\ u.deal = t.deal /\ u.theme = t.theme

LEMMA LeadsOn ==
  ASSUME config \in Tables, NEW t \in Wholes, NEW u, Leads(t, u), NEW v, Leads(u, v)
  PROVE  Leads(t, v)
<1>1. u \in Wholes /\ v \in Wholes
  BY DEF Leads
<1>2. ASSUME NEW c \in Names
      PROVE  Balance(v, c) <= Balance(t, c) /\ (~Burn => Balance(v, c) = Balance(t, c))
  <2>1. Balance(t, c) \in Int /\ Balance(u, c) \in Int /\ Balance(v, c) \in Int
    BY <1>1, BalanceIs
  <2> QED BY <2>1 DEF Leads, Conserved
<1> QED BY <1>2 DEF Leads, Conserved

LEMMA LeadsSame ==
  ASSUME config \in Tables, NEW t \in Wholes, NEW u \in Wholes, Running(u), SameCards(t, u),
         u.theme = t.theme
  PROVE  Leads(t, u)
<1>1. ASSUME NEW c \in Names
      PROVE  Balance(u, c) <= Balance(t, c) /\ Balance(u, c) = Balance(t, c)
  <2>1. Balance(u, c) = Balance(t, c) /\ Balance(t, c) \in Int
    BY SameBalance, BalanceIs
  <2> QED BY <2>1
<1> QED BY <1>1 DEF Leads, Conserved, SameCards

LEMMA CompleteLeads ==
  ASSUME config \in Tables, NEW t \in Wholes, t.status = "active"
  PROVE  Leads(t, Complete(t)) /\ Complete(t).status = "completed"
<1> DEFINE u == Complete(t)
<1>1. t \in Row
  BY PartsOf
<1>2. u.status = "completed" /\ SameCards(t, u) /\ u.theme = t.theme
  BY <1>1 DEF Complete, Row, SameCards
<1>3. u \in Wholes
  BY CompleteWhole
<1> HIDE DEF u
<1>4. Leads(t, u)
  BY <1>2, <1>3, LeadsSame DEF Running
<1> QED BY <1>2, <1>4 DEF u

LEMMA PassLeads ==
  ASSUME config \in Tables, NEW t \in Wholes, t.status = "active"
  PROVE  LET u == PassEmptyHanded(t)
         IN  /\ Leads(t, u) /\ u.status = "active" /\ u.wave = t.wave /\ u.finished = t.finished
             /\ u.packs = t.packs /\ u.main = t.main /\ u.picked = t.picked
             /\ u.passed = t.passed \cup {s \in Drafting(t) \ Acted(t) : PacksAt(t, s) = {}}
<1> DEFINE u == PassEmptyHanded(t)
<1>1. t \in Row
  BY PartsOf
<1>2. /\ SameCards(t, u) /\ u.theme = t.theme /\ u.finished = t.finished /\ u.packs = t.packs
      /\ u.main = t.main /\ u.picked = t.picked
      /\ u.passed = t.passed \cup {s \in Drafting(t) \ Acted(t) : PacksAt(t, s) = {}}
  BY <1>1 DEF PassEmptyHanded, Row, SameCards
<1>3. u \in Wholes /\ u.status = "active" /\ u.wave = t.wave
  BY PassWhole
<1> HIDE DEF u
<1>4. Leads(t, u)
  BY <1>2, <1>3, LeadsSame DEF Running
<1> QED BY <1>2, <1>3, <1>4 DEF u

LEMMA MoveLeads ==
  ASSUME config \in Tables, NEW t \in Wholes, t.status = "active"
  PROVE  /\ Leads(t, Advance(t)) /\ OnlyMoved(t, Advance(t))
         /\ Leads(t, Rewind(t)) /\ OnlyMoved(t, Rewind(t))
<1>1. /\ Advance(t) \in Wholes /\ OnlyMoved(t, Advance(t))
      /\ Rewind(t) \in Wholes /\ OnlyMoved(t, Rewind(t))
  BY AdvanceIs, RewindIs
<1>2. ASSUME NEW u \in Wholes, OnlyMoved(t, u) PROVE Leads(t, u)
  BY <1>2, LeadsSame DEF OnlyMoved, SameCards, Running
<1> QED BY <1>1, <1>2

LEMMA AllZero ==
  ASSUME config \in Tables, NEW D \in SUBSET (1..Waves), NEW rows, DOMAIN rows = D,
         \A w \in D, o \in Seats : rows[w][o] = Empty, NEW c \in Names
  PROVE  AllOf(rows, c) = 0
<1>1. IsFiniteSet(Seats) /\ IsFiniteSet(D)
  BY FiniteSets
<1>2. ASSUME NEW w \in D PROVE WaveOf(rows, w, c) = 0
  <2> DEFINE fun == [o \in Seats |-> rows[w][o][c]]
  <2>1. fun \in [Seats -> Nat] /\ \A o \in Seats : fun[o] = 0
    BY DEF Empty
  <2> HIDE DEF fun
  <2>2. SumFunction(fun) = 0
    BY <1>1, <2>1, SumsZero
  <2> QED BY <2>2 DEF fun, WaveOf
<1> DEFINE fun == [w \in DOMAIN rows |-> WaveOf(rows, w, c)]
<1>3. fun \in [D -> Nat] /\ \A w \in D : fun[w] = 0
  BY <1>2
<1> HIDE DEF fun
<1>4. SumFunction(fun) = 0
  BY <1>1, <1>3, SumsZero
<1> QED BY <1>4 DEF fun, AllOf

(* What nobody took is put on the pile, or burned. *)
LEMMA FinishMainIs ==
  ASSUME config \in Tables, NEW t \in Wholes, t.status = "active"
  PROVE  LET u == FinishMain(t)
         IN  /\ Leads(t, u) /\ u.status = "active" /\ u.wave = t.wave /\ u.finished = t.finished
             /\ DOMAIN u.packs = DOMAIN t.packs /\ u.main = t.main
             /\ u.picked = t.picked /\ u.passed = t.passed
<1> DEFINE u == FinishMain(t)
<1>0. t \in Row /\ Running(t)
  BY PartsOf DEF Running
<1>1. CASE Phase(t.wave) = "extra"
  <2>1. u = t
    BY <1>1 DEF FinishMain
  <2> HIDE DEF u
  <2>2. Leads(t, u)
    BY <1>0, <2>1, LeadsSame DEF SameCards
  <2> QED BY <2>1, <2>2 DEF u
<1>2. CASE Phase(t.wave) # "extra"
  <2> DEFINE packs == [w \in DOMAIN t.packs |-> [o \in Seats |-> [t.packs[w][o] EXCEPT !.cards = Empty]]]
             pile == IF Burn THEN t.undealt ELSE t.undealt \o Leftovers(t)
  <2>1. u = [t EXCEPT !.packs = packs, !.undealt = pile]
    BY <1>0, <1>2 DEF FinishMain, Row
  <2>2. /\ t.packs \in [DOMAIN t.packs -> [Seats -> PackRow]] /\ DOMAIN t.packs \subseteq 1..Waves
        /\ t.undealt \in Seq(Names)
    BY PartsOf
  <2>3. pile \in Seq(Names)
    BY <2>2, LeftoversIs
  <2>4. ASSUME NEW w \in DOMAIN t.packs, NEW o \in Seats
        PROVE  packs[w][o] \in PackRow /\ packs[w][o].at = t.packs[w][o].at /\ packs[w][o].cards = Empty
    <3>1. t.packs[w][o] \in [at : Seats, cards : Bag]
      BY <2>2 DEF PackRow
    <3>2. Empty \in Bag
      BY DEF Empty, Bag
    <3>3. packs[w][o] = [t.packs[w][o] EXCEPT !.cards = Empty]
      OBVIOUS
    <3> HIDE DEF packs
    <3> QED BY <3>1, <3>2, <3>3 DEF PackRow
  <2>5. DOMAIN packs = DOMAIN t.packs
    OBVIOUS
  <2>6. packs \in UNION {[D -> [Seats -> PackRow]] : D \in SUBSET (1..Waves)}
    BY <2>2, <2>4
  <2> HIDE DEF u, packs
  <2>7. /\ u.packs = packs /\ u.undealt = pile /\ u.pool = t.pool /\ u.deal = t.deal
        /\ u.wave = t.wave /\ u.theme = t.theme /\ u.status = "active" /\ u.main = t.main
        /\ u.finished = t.finished /\ u.picked = t.picked /\ u.passed = t.passed
    BY <1>0, <2>1 DEF Row
  <2> HIDE DEF pile
  <2>8. u \in Row
    BY <1>0, <2>1, <2>3, <2>6 DEF Row
  <2>9. Apart(u)
    BY <2>4, <2>5, <2>7, PartsOf DEF Apart
  <2>10. u \in Wholes
    BY <2>5, <2>7, <2>8, <2>9, PartsOf, WholeAgain DEF Running, Behind
  <2>11. ASSUME NEW c \in Names
         PROVE  Balance(u, c) <= Balance(t, c) /\ (~Burn => Balance(u, c) = Balance(t, c))
    <3>1. Unpicked(u, c) = 0
      <4>1. DOMAIN CardRows(u) = DOMAIN packs /\ DOMAIN packs \in SUBSET (1..Waves)
        BY <2>2, <2>5, <2>7 DEF CardRows
      <4>2. \A w \in DOMAIN packs, o \in Seats : CardRows(u)[w][o] = Empty
        BY <2>4, <2>5, <2>7 DEF CardRows
      <4>3. AllOf(CardRows(u), c) = 0
        BY <4>1, <4>2, AllZero
      <4> QED BY <2>10, <4>3, BalanceIs
    <3>2. Pooled(u, c) = Pooled(t, c) /\ AllOf(DealRows(u), c) = AllOf(DealRows(t), c)
      BY <2>5, <2>7 DEF Pooled, DealRows
    <3>3. Occurs(u.undealt, c) = Occurs(t.undealt, c) + (IF Burn THEN 0 ELSE Unpicked(t, c))
      <4>1. Occurs(t.undealt, c) \in Nat
        BY BalanceIs
      <4>2. CASE Burn
        BY <2>7, <4>1, <4>2 DEF pile
      <4>3. CASE ~Burn
        <5>1. Leftovers(t) \in Seq(Names) /\ Occurs(Leftovers(t), c) = Unpicked(t, c)
          BY LeftoversIs
        <5>2. u.undealt = t.undealt \o Leftovers(t)
          BY <2>7, <4>3 DEF pile
        <5> QED BY <2>2, <4>3, <5>1, <5>2, OccursConcat
      <4> QED BY <4>2, <4>3
    <3>4. /\ Unpicked(t, c) \in Nat /\ Pooled(t, c) \in Nat /\ Occurs(t.undealt, c) \in Nat
          /\ AllOf(DealRows(t), c) \in Nat
      BY BalanceIs
    <3> QED BY <3>1, <3>2, <3>3, <3>4 DEF Balance
  <2> QED BY <2>5, <2>7, <2>10, <2>11 DEF Leads, Conserved, Running, u
<1> QED BY <1>1, <1>2

LEMMA OpenWaveLeads ==
  ASSUME config \in Tables, ~IsTheme, NEW t \in Wholes, t.status = "active",
         NEW w \in 1..Waves, t.wave < w
  PROVE  LET u == OpenWave(t, w)
         IN  Leads(t, u) /\ u.status = "active" /\ u.wave = w /\ u.finished = t.finished
             /\ u.main = t.main
<1> DEFINE u == OpenWave(t, w)
           D == DOMAIN t.packs
<1>0. /\ t \in Row /\ Running(t) /\ Apart(t) /\ Behind(t) /\ DOMAIN t.deal = 1..Waves
      /\ D \in SUBSET (1..Waves) /\ t.deal \in [1..Waves -> [Seats -> Bag]] /\ t.wave \in 1..Waves
      /\ t.packs \in [D -> [Seats -> PackRow]]
  BY PartsOf DEF Running
<1>1. \A v \in D : v < w
  <2>1. w \in Nat /\ t.wave \in Nat /\ \A v \in D : v \in Nat /\ v <= t.wave
    BY <1>0, RoundsAre DEF Behind
  <2> QED BY <2>1
<1>2. /\ u \in Wholes /\ u.status = "active" /\ u.wave = w
      /\ u.pool = t.pool /\ u.undealt = t.undealt /\ u.deal = t.deal
      /\ DOMAIN u.packs = {w} \cup D
      /\ \A o \in Seats : u.packs[w][o].cards = t.deal[w][o]
      /\ \A v \in D : u.packs[v] = t.packs[v]
      /\ u.main = t.main /\ u.finished = t.finished
  BY <1>0, <1>1, OpenWaveIs
<1>3. u.theme = t.theme
  BY <1>0 DEF OpenWave, Row
<1>4. w \notin D
  BY <1>1, RoundsAre
<1> HIDE DEF u, D
<1>5. ASSUME NEW c \in Names PROVE Balance(u, c) = Balance(t, c)
  <2> DEFINE E == DOMAIN u.packs
  <2>1. /\ CardRows(u) \in [E -> [Seats -> Bag]] /\ DealRows(u) \in [E -> [Seats -> Bag]]
        /\ w \in E /\ E \in SUBSET (1..Waves) /\ D = E \ {w}
    BY <1>0, <1>2, <1>4, BalanceIs
  <2>2. Without(CardRows(t), CardRows(u), E, w) /\ Without(DealRows(t), DealRows(u), E, w)
    <3>1. DOMAIN CardRows(t) = D /\ DOMAIN DealRows(t) = D
      BY DEF CardRows, DealRows, D
    <3>2. \A v \in D : CardRows(u)[v] = CardRows(t)[v] /\ DealRows(u)[v] = DealRows(t)[v]
      BY <1>2 DEF CardRows, DealRows, D
    <3> QED BY <2>1, <3>1, <3>2 DEF Without
  <2>3. CardRows(u)[w] = DealRows(u)[w]
    <3>1. \A o \in Seats : CardRows(u)[w][o] = t.deal[w][o]
      BY <1>2 DEF CardRows
    <3>2. DealRows(u)[w] = t.deal[w]
      BY <1>2 DEF DealRows
    <3>3. CardRows(u)[w] \in [Seats -> Bag] /\ t.deal[w] \in [Seats -> Bag]
      BY <1>0, <2>1
    <3> QED BY <3>1, <3>2, <3>3
  <2> HIDE DEF E
  <2>5. AllOf(CardRows(u), c) = AllOf(CardRows(t), c) + WaveOf(CardRows(u), w, c)
    BY <2>1, <2>2, AllAdd
  <2>6. AllOf(DealRows(u), c) = AllOf(DealRows(t), c) + WaveOf(DealRows(u), w, c)
    BY <2>1, <2>2, AllAdd
  <2>7. WaveOf(CardRows(u), w, c) = WaveOf(DealRows(u), w, c)
    BY <2>3 DEF WaveOf
  <2>8. WaveOf(DealRows(u), w, c) \in Nat
    BY <2>1, AllNat
  <2>9. Pooled(u, c) = Pooled(t, c)
    BY <1>2 DEF Pooled
  <2>10. /\ Unpicked(t, c) = AllOf(CardRows(t), c) /\ Unpicked(u, c) = AllOf(CardRows(u), c)
         /\ AllOf(CardRows(t), c) \in Nat /\ AllOf(DealRows(t), c) \in Nat /\ Pooled(t, c) \in Nat
         /\ Occurs(t.undealt, c) \in Nat
    BY <1>2, BalanceIs
  <2> QED BY <1>2, <2>5, <2>6, <2>7, <2>8, <2>9, <2>10 DEF Balance
<1>6. ASSUME NEW c \in Names
      PROVE  Balance(u, c) <= Balance(t, c) /\ (~Burn => Balance(u, c) = Balance(t, c))
  <2>1. Balance(u, c) = Balance(t, c) /\ Balance(t, c) \in Int
    BY <1>5, BalanceIs
  <2> QED BY <2>1
<1> QED BY <1>2, <1>3, <1>6 DEF Leads, Conserved, Running, u

-----------------------------------------------------------------------------
(* The settling loop.                                                      *)

(* Rounds until a wave counts as stuck, and rounds a wave may last.        *)
Turn == (N + 1) * PicksPerStep
WaveRounds == 2 * Turn + 3

LEMMA BoundIs ==
  ASSUME config \in Tables
  PROVE  Turn \in Nat /\ WaveRounds \in Nat /\ LoopBound = Waves * WaveRounds /\ LoopBound \in Nat
<1>1. N \in Nat /\ PicksPerStep \in {1, 2} /\ Waves \in Nat
  BY ConfigIs, RoundsAre
<1>2. Turn \in Nat
  BY <1>1 DEF Turn
<1>3. 2 * (N + 1) * PicksPerStep = 2 * Turn
  <2>1. CASE PicksPerStep = 1
    BY <1>1, <2>1 DEF Turn
  <2>2. CASE PicksPerStep = 2
    BY <1>1, <2>2 DEF Turn
  <2> QED BY <1>1, <2>1, <2>2
<1>4. WaveRounds \in Nat
  BY <1>2 DEF WaveRounds
<1>5. LoopBound = Waves * WaveRounds
  BY <1>3 DEF LoopBound, WaveRounds
<1> QED BY <1>1, <1>2, <1>4, <1>5

(* The loop, begun at t, may be at x: it goes on from a running draft, and  *)
(* it has stopped with a completed one or where it waits for somebody.     *)
LoopStates(t) ==
    {x \in [t : Wholes, idle : 0..Turn, repaired : BOOLEAN, running : BOOLEAN] :
        /\ Leads(t, x.t)
        /\ x.running => x.t.status = "active"
        /\ ~x.running => x.t.status = "completed" \/ Waiting(x.t) # {}}

(* Rounds that are left at most: those of later waves, of a turn after a   *)
(* repair and of the current turn.                                         *)
RoundsLeft(x) ==
    (Waves - x.t.wave) * WaveRounds + (IF x.repaired THEN 0 ELSE Turn + 1) + (Turn - x.idle)

LEMMA NextWaveLeft ==
  ASSUME NEW a \in Nat, NEW b \in Nat, a < b, NEW n \in Nat, b <= n, NEW m \in Nat
  PROVE  (n - b) * m + m <= (n - a) * m /\ (n - b) * m \in Nat
<1>1. n - b \in Nat /\ b - a - 1 \in Nat
  OBVIOUS
<1> DEFINE p == n - b
           d == b - a - 1
<1>2. n - a = p + d + 1
  OBVIOUS
<1> HIDE DEF p, d
<1>3. (p + d + 1) * m = p * m + d * m + m /\ d * m \in Nat /\ p * m \in Nat
  BY <1>1 DEF p, d
<1>4. (n - b) * m = p * m
  BY DEF p
<1> QED BY <1>2, <1>3, <1>4

(* From a running draft to the start of the loop there. *)
LEMMA FreshIs ==
  ASSUME config \in Tables, NEW t \in Wholes, NEW u, Leads(t, u), u.status = "active"
  PROVE  /\ Fresh(u) \in LoopStates(t)
         /\ RoundsLeft(Fresh(u)) = (Waves - u.wave) * WaveRounds + 2 * Turn + 1
<1>1. u \in Wholes /\ Turn \in Nat
  BY BoundIs DEF Leads
<1>2. Fresh(u) \in LoopStates(t)
  BY <1>1 DEF Fresh, LoopStates
<1>3. /\ Fresh(u).t = u /\ Fresh(u).idle = 0 /\ Fresh(u).repaired = FALSE
  BY DEF Fresh
<1>4. (Waves - u.wave) * WaveRounds \in Int
  <2>1. Waves \in Int /\ u.wave \in Int /\ WaveRounds \in Int
    BY <1>1, BoundIs, RoundsAre, PartsOf
  <2> QED BY <2>1
<1> QED BY <1>1, <1>2, <1>3, <1>4 DEF RoundsLeft

LEMMA StopIs ==
  ASSUME config \in Tables, NEW t \in Wholes, NEW u, Leads(t, u),
         u.status = "completed" \/ Waiting(u) # {}
  PROVE  Stop(u) \in LoopStates(t) /\ ~Stop(u).running
<1>1. u \in Wholes /\ Turn \in Nat
  BY BoundIs DEF Leads
<1> QED BY <1>1 DEF Stop, LoopStates

LEMMA RoundsLeftIs ==
  ASSUME config \in Tables, NEW t \in Wholes, NEW x \in LoopStates(t)
  PROVE  RoundsLeft(x) \in Nat
<1>1. x.t.wave \in 1..Waves /\ x.idle \in 0..Turn /\ x.repaired \in BOOLEAN
  BY PartsOf DEF LoopStates
<1>2. Turn \in Nat /\ WaveRounds \in Nat /\ Waves \in Nat
  BY BoundIs, RoundsAre
<1>3. Waves - x.t.wave \in Nat
  BY <1>1, <1>2
<1>4. (Waves - x.t.wave) * WaveRounds \in Nat
  BY <1>2, <1>3
<1> QED BY <1>1, <1>2, <1>4 DEF RoundsLeft

(* A later wave leaves less to do than anything in this one. *)
LEMMA NewWaveIs ==
  ASSUME config \in Tables, ~IsTheme, NEW t \in Wholes, NEW x \in LoopStates(t), x.running,
         NEW u, Leads(t, u), u.status = "active", u.wave = x.t.wave,
         NEW w \in 1..Waves, u.wave < w
  PROVE  LET y == Fresh(OpenWave(u, w))
         IN  y \in LoopStates(t) /\ RoundsLeft(y) < RoundsLeft(x)
<1> DEFINE v == OpenWave(u, w)
<1>1. u \in Wholes
  BY DEF Leads
<1>2. Leads(u, v) /\ v.status = "active" /\ v.wave = w
  BY <1>1, OpenWaveLeads
<1> HIDE DEF v
<1>3. Leads(t, v)
  BY <1>2, LeadsOn
<1>4. Fresh(v) \in LoopStates(t)
      /\ RoundsLeft(Fresh(v)) = (Waves - w) * WaveRounds + 2 * Turn + 1
  BY <1>2, <1>3, FreshIs
<1>5. /\ Turn \in Nat /\ WaveRounds \in Nat /\ WaveRounds = 2 * Turn + 3
      /\ x.idle \in 0..Turn /\ x.repaired \in BOOLEAN /\ Waves \in Nat /\ u.wave \in Nat /\ w \in Nat
      /\ w <= Waves
  BY <1>1, BoundIs, RoundsAre, PartsOf DEF LoopStates, WaveRounds
<1>6. /\ (Waves - w) * WaveRounds + WaveRounds <= (Waves - u.wave) * WaveRounds
      /\ (Waves - w) * WaveRounds \in Nat
  BY <1>5, NextWaveLeft
<1>7. (Waves - u.wave) * WaveRounds \in Int
  <2>1. Waves - u.wave \in Int
    BY <1>5
  <2> QED BY <1>5, <2>1
<1>8. RoundsLeft(x) >= (Waves - u.wave) * WaveRounds
  <2> DEFINE z == (Waves - u.wave) * WaveRounds
  <2>1. RoundsLeft(x) = z + (IF x.repaired THEN 0 ELSE Turn + 1) + (Turn - x.idle)
    BY DEF RoundsLeft
  <2>2. z \in Int
    BY <1>7
  <2> HIDE DEF z
  <2>3. RoundsLeft(x) >= z
    BY <1>5, <2>1, <2>2
  <2> QED BY <2>3 DEF z
<1>9. RoundsLeft(Fresh(v)) < RoundsLeft(x)
  <2> DEFINE z == (Waves - u.wave) * WaveRounds
             y == (Waves - w) * WaveRounds
  <2>1. y + WaveRounds <= z /\ y \in Nat /\ z \in Int /\ RoundsLeft(x) >= z
        /\ RoundsLeft(Fresh(v)) = y + 2 * Turn + 1 /\ RoundsLeft(x) \in Int
    <3>1. RoundsLeft(x) \in Int
      BY <1>5, <1>7 DEF RoundsLeft
    <3> QED BY <1>4, <1>6, <1>7, <1>8, <3>1
  <2> HIDE DEF y, z
  <2> QED BY <1>5, <2>1
<1> QED BY <1>4, <1>9 DEF v

(* One round of the loop. *)
LEMMA RoundIs ==
  ASSUME config \in Tables, ~IsTheme, NEW t0 \in Wholes, NEW x \in LoopStates(t0), x.running
  PROVE  /\ Round(x) \in LoopStates(t0)
         /\ Round(x).running => RoundsLeft(Round(x)) < RoundsLeft(x)
<1> DEFINE t == PassEmptyHanded(x.t)
           idle == x.idle + 1
           stuck == idle > (N + 1) * PicksPerStep
           exhausted == \A o \in Seats : t.packs[t.wave][o].cards = Empty
           swept == IF t.wave = MainRounds THEN FinishMain(t) ELSE t
           ended == Drafting(t) = {}
           extra == Phase(t.wave) = "main" /\ ExtraSize > 0
           waits == ~(Drafting(t) \subseteq Acted(t))
<1>0. x.t \in Wholes /\ x.t.status = "active" /\ Leads(t0, x.t) /\ x.idle \in 0..Turn
      /\ x.repaired \in BOOLEAN
  BY DEF LoopStates
<1>1. Leads(x.t, t) /\ t.status = "active" /\ t.wave = x.t.wave /\ t.finished = x.t.finished
      /\ t.packs = x.t.packs /\ t.main = x.t.main /\ t.picked = x.t.picked
      /\ t.passed = x.t.passed \cup {s \in Drafting(x.t) \ Acted(x.t) : PacksAt(x.t, s) = {}}
  BY <1>0, PassLeads
<1>2. Leads(t0, t) /\ t \in Wholes /\ t.pool = x.t.pool /\ t.wave \in 1..Waves
  <2>1. Leads(t0, t) /\ t \in Wholes /\ t.pool = x.t.pool
    BY <1>0, <1>1, LeadsOn DEF Leads
  <2> QED BY <2>1, PartsOf
<1>3. /\ MainRounds \in Nat /\ Waves \in Nat /\ MainRounds <= Waves /\ t.wave \in Nat
      /\ (ExtraSize > 0 => Waves = MainRounds + 1) /\ ExtraSize \in Nat
      /\ Turn \in Nat /\ WaveRounds \in Nat
  BY <1>2, RoundsAre, BoundIs, ConfigIs
<1>4. Round(x) = CASE ended /\ extra -> Fresh(OpenWave(FinishMain(t), MainRounds + 1))
                   [] ended /\ ~extra -> Stop(Complete(FinishMain(t)))
                   [] ~ended /\ waits -> Stop(t)
                   [] OTHER -> IF stuck /\ ~x.repaired
                               THEN [Fresh(Rewind(t)) EXCEPT !.repaired = TRUE]
                               ELSE IF ~stuck /\ ~exhausted
                               THEN [x EXCEPT !.t = Advance(t), !.idle = idle]
                               ELSE IF t.wave >= Waves THEN Stop(Complete(swept))
                               ELSE Fresh(OpenWave(swept, t.wave + 1))
  BY DEF Round
<1>5. \A u : Leads(t, u) => Leads(t0, u)
  BY <1>2, LeadsOn
<1>6. Leads(t, FinishMain(t)) /\ FinishMain(t).status = "active" /\ FinishMain(t).wave = t.wave
  BY <1>1, <1>2, FinishMainIs
<1>7. Leads(t, swept) /\ swept.status = "active" /\ swept.wave = t.wave
  <2>1. Leads(t, t)
    BY <1>1, <1>2, LeadsSame DEF SameCards, Running
  <2> QED BY <1>1, <1>6, <2>1
<1>8. \A u : Leads(t, u) /\ u.status = "active" => Leads(t, Complete(u)) /\ Complete(u).status = "completed"
  <2>1. ASSUME NEW u, Leads(t, u), u.status = "active"
        PROVE  Leads(t, Complete(u)) /\ Complete(u).status = "completed"
    <3>1. u \in Wholes
      BY <2>1 DEF Leads
    <3>2. Leads(u, Complete(u)) /\ Complete(u).status = "completed"
      BY <2>1, <3>1, CompleteLeads
    <3> QED BY <1>2, <2>1, <3>2, LeadsOn
  <2> QED BY <2>1
<1>9. ~ended /\ waits => Waiting(t) # {}
  <2> SUFFICES ASSUME ~ended, waits PROVE Waiting(t) # {}
    OBVIOUS
  <2>1. Drafting(t) = Drafting(x.t)
    BY <1>1, <1>2 DEF Drafting, Count, Target
  <2>2. PICK s \in Drafting(t) : s \notin Acted(t)
    OBVIOUS
  <2>3. s \in Drafting(x.t) /\ s \notin Acted(x.t)
    BY <1>1, <2>1, <2>2 DEF Acted
  <2>4. PacksAt(x.t, s) # {}
    BY <1>1, <2>2, <2>3 DEF Acted
  <2>5. PacksAt(t, s) # {}
    BY <1>1, <2>4 DEF PacksAt
  <2> QED BY <2>2, <2>5 DEF Waiting
<1> HIDE DEF t, swept, exhausted, ended, extra, waits
<1>10. CASE ended /\ extra
  <2>1. Round(x) = Fresh(OpenWave(FinishMain(t), MainRounds + 1))
    BY <1>4, <1>10
  <2>2. t.wave < MainRounds + 1 /\ MainRounds + 1 \in 1..Waves
    BY <1>3, <1>10 DEF extra, Phase
  <2>3. Leads(t0, FinishMain(t)) /\ FinishMain(t).wave = x.t.wave
    BY <1>1, <1>5, <1>6
  <2> QED BY <1>1, <1>6, <2>1, <2>2, <2>3, NewWaveIs
<1>11. CASE ended /\ ~extra
  <2>1. Round(x) = Stop(Complete(FinishMain(t)))
    BY <1>4, <1>11
  <2>2. Leads(t0, Complete(FinishMain(t))) /\ Complete(FinishMain(t)).status = "completed"
    BY <1>5, <1>6, <1>8
  <2> QED BY <2>1, <2>2, StopIs
<1>12. CASE ~ended /\ waits
  <2>1. Round(x) = Stop(t)
    BY <1>4, <1>12
  <2> QED BY <1>2, <1>9, <1>12, <2>1, StopIs
<1>13. CASE ~ended /\ ~waits /\ stuck /\ ~x.repaired
  <2> DEFINE v == Rewind(t)
             y == [Fresh(v) EXCEPT !.repaired = TRUE]
  <2>1. Round(x) = y
    BY <1>4, <1>13
  <2>2. Leads(t, v) /\ OnlyMoved(t, v)
    BY <1>1, <1>2, MoveLeads
  <2>3. Leads(t0, v) /\ v.status = "active" /\ v.wave = x.t.wave /\ v \in Wholes
    BY <1>1, <1>5, <2>2 DEF OnlyMoved, Leads
  <2> HIDE DEF v
  <2>4. /\ y.t = v /\ y.idle = 0 /\ y.repaired = TRUE /\ y.running = TRUE
        /\ y \in [t : Wholes, idle : 0..Turn, repaired : BOOLEAN, running : BOOLEAN]
    <3> DEFINE f == Fresh(v)
    <3>1. 0 \in 0..Turn
      BY <1>3
    <3>2. /\ f.t = v /\ f.idle = 0 /\ f.running = TRUE
          /\ f \in [t : Wholes, idle : 0..Turn, repaired : BOOLEAN, running : BOOLEAN]
      BY <2>3, <3>1 DEF Fresh
    <3> HIDE DEF f
    <3>3. y = [f EXCEPT !.repaired = TRUE]
      BY DEF f
    <3> HIDE DEF y
    <3> QED BY <3>2, <3>3
  <2> HIDE DEF y
  <2>5. y \in LoopStates(t0)
    BY <1>3, <2>3, <2>4 DEF LoopStates
  <2>6. RoundsLeft(y) < RoundsLeft(x)
    <3> DEFINE z == (Waves - x.t.wave) * WaveRounds
    <3>1. z \in Int
      BY <1>1, <1>3
    <3>2. RoundsLeft(x) = z + (Turn + 1) + (Turn - x.idle) /\ RoundsLeft(y) = z + 0 + (Turn - 0)
      BY <1>13, <2>3, <2>4 DEF RoundsLeft
    <3> HIDE DEF z
    <3> QED BY <1>0, <1>3, <3>1, <3>2
  <2> QED BY <2>1, <2>5, <2>6
<1>14. CASE ~ended /\ ~waits /\ ~(stuck /\ ~x.repaired) /\ ~stuck /\ ~exhausted
  <2> DEFINE v == Advance(t)
             y == [x EXCEPT !.t = v, !.idle = idle]
  <2>1. Round(x) = y
    BY <1>4, <1>14
  <2>2. Leads(t, v) /\ OnlyMoved(t, v)
    BY <1>1, <1>2, MoveLeads
  <2>3. Leads(t0, v) /\ v.status = "active" /\ v.wave = x.t.wave /\ v \in Wholes
    BY <1>1, <1>5, <2>2 DEF OnlyMoved, Leads
  <2>4. x \in [t : Wholes, idle : 0..Turn, repaired : BOOLEAN, running : BOOLEAN]
    BY DEF LoopStates
  <2>5. idle \in 0..Turn
    BY <1>0, <1>3, <1>14 DEF Turn
  <2> HIDE DEF v, idle
  <2>6. y.t = v /\ y.idle = idle /\ y.repaired = x.repaired /\ y.running = x.running
        /\ y \in [t : Wholes, idle : 0..Turn, repaired : BOOLEAN, running : BOOLEAN]
    BY <2>3, <2>4, <2>5
  <2> HIDE DEF y
  <2>7. y \in LoopStates(t0)
    BY <2>3, <2>6 DEF LoopStates
  <2>8. RoundsLeft(y) < RoundsLeft(x)
    <3> DEFINE z == (Waves - x.t.wave) * WaveRounds
               r == IF x.repaired THEN 0 ELSE Turn + 1
    <3>1. z \in Int /\ r \in Int
      BY <1>1, <1>3
    <3>2. RoundsLeft(x) = z + r + (Turn - x.idle) /\ RoundsLeft(y) = z + r + (Turn - idle)
      BY <2>3, <2>6 DEF RoundsLeft
    <3> HIDE DEF z, r
    <3> QED BY <1>0, <1>3, <3>1, <3>2 DEF idle
  <2> QED BY <2>1, <2>7, <2>8
<1>15. CASE ~ended /\ ~waits /\ ~(stuck /\ ~x.repaired) /\ ~(~stuck /\ ~exhausted) /\ t.wave >= Waves
  <2>1. Round(x) = Stop(Complete(swept))
    BY <1>4, <1>15
  <2>2. Leads(t0, Complete(swept)) /\ Complete(swept).status = "completed"
    BY <1>5, <1>7, <1>8
  <2> QED BY <2>1, <2>2, StopIs
<1>16. CASE ~ended /\ ~waits /\ ~(stuck /\ ~x.repaired) /\ ~(~stuck /\ ~exhausted) /\ ~(t.wave >= Waves)
  <2>1. Round(x) = Fresh(OpenWave(swept, t.wave + 1))
    BY <1>4, <1>16
  <2>2. swept.wave < t.wave + 1 /\ t.wave + 1 \in 1..Waves
    BY <1>3, <1>7, <1>16
  <2>3. Leads(t0, swept) /\ swept.wave = x.t.wave
    BY <1>1, <1>5, <1>7
  <2> QED BY <1>7, <2>1, <2>2, <2>3, NewWaveIs
<1> QED BY <1>10, <1>11, <1>12, <1>13, <1>14, <1>15, <1>16

(* The loop ends, with one table. *)
LEMMA LoopedIs ==
  ASSUME config \in Tables, ~IsTheme, NEW t \in Wholes, t.status = "active"
  PROVE  \A x \in Looped(t) : x \in LoopStates(t) /\ ~x.running
<1> DEFINE X == SUBSET LoopStates(t)
           step(S) == {IF x.running THEN Round(x) ELSE x : x \in S}
           G == [p \in (1..LoopBound) \X X |-> step(p[2])]
           x0 == {Fresh(t)}
<1>1. /\ Turn \in Nat /\ WaveRounds \in Nat /\ LoopBound = Waves * WaveRounds /\ LoopBound \in Nat
      /\ WaveRounds = 2 * Turn + 3 /\ Waves \in Nat /\ t.wave \in 1..Waves
  BY BoundIs, RoundsAre, PartsOf DEF WaveRounds
<1>2. Leads(t, t)
  BY LeadsSame DEF SameCards, Running
<1>3. Fresh(t) \in LoopStates(t)
      /\ RoundsLeft(Fresh(t)) = (Waves - t.wave) * WaveRounds + 2 * Turn + 1
  BY <1>2, FreshIs
<1>4. \A x \in LoopStates(t) : x.running => Round(x) \in LoopStates(t)
                                            /\ (Round(x).running => RoundsLeft(Round(x)) < RoundsLeft(x))
  BY RoundIs
<1>5. \A S \in X : step(S) \in X
  BY <1>4
<1>6. x0 \in X
  BY <1>3
<1>7. \A i \in 1..LoopBound, S \in X : G[<<i, S>>] = step(S)
  <2> HIDE DEF X, step
  <2> QED OBVIOUS
<1> HIDE DEF G, X, step, x0
<1>8. StepsIn(G, LoopBound, X)
  BY <1>5, <1>7 DEF StepsIn
<1>9. PICK f : Follows(f, x0, G, LoopBound, X)
  BY <1>1, <1>6, <1>8, Recursion
<1>10. f \in [0..LoopBound -> X] /\ f[0] = x0 /\ \A i \in 1..LoopBound : f[i] = step(f[i - 1])
  <2>1. f \in [0..LoopBound -> X] /\ f[0] = x0 /\ \A i \in 1..LoopBound : f[i] = G[<<i, f[i - 1]>>]
    BY <1>9 DEF Follows
  <2>2. ASSUME NEW i \in 1..LoopBound PROVE f[i] = step(f[i - 1])
    <3>1. i - 1 \in 0..LoopBound
      BY <1>1
    <3> QED BY <1>7, <2>1, <3>1
  <2> QED BY <2>1, <2>2
<1> DEFINE loop == CHOOSE loop : loop = [i \in 0..LoopBound |->
                      IF i = 0 THEN {Fresh(t)}
                      ELSE {IF x.running THEN Round(x) ELSE x : x \in loop[i - 1]}]
<1>11. Looped(t) = loop[LoopBound]
  BY DEF Looped
<1>12. loop = [i \in 0..LoopBound |-> IF i = 0 THEN x0 ELSE step(loop[i - 1])]
  <2>1. \A i \in 0..LoopBound : f[i] = IF i = 0 THEN x0 ELSE step(f[i - 1])
    BY <1>1, <1>10
  <2>2. f = [i \in 0..LoopBound |-> IF i = 0 THEN x0 ELSE step(f[i - 1])]
    BY <1>10, <2>1
  <2>3. \E g : g = [i \in 0..LoopBound |-> IF i = 0 THEN x0 ELSE step(g[i - 1])]
    BY <2>2
  <2>4. \E g : g = [i \in 0..LoopBound |-> IF i = 0 THEN {Fresh(t)}
                      ELSE {IF x.running THEN Round(x) ELSE x : x \in g[i - 1]}]
    BY <2>3 DEF step, x0
  <2>5. loop = [i \in 0..LoopBound |-> IF i = 0 THEN {Fresh(t)}
                      ELSE {IF x.running THEN Round(x) ELSE x : x \in loop[i - 1]}]
    BY <2>4
  <2> QED BY <2>5 DEF step, x0
<1> HIDE DEF loop
<1> DEFINE b == Waves * WaveRounds - 2
           Within(S, i) == \A x \in S : x \in LoopStates(t) /\ (x.running => RoundsLeft(x) + i <= b)
           T == {i \in Nat : i <= LoopBound => Within(loop[i], i)}
<1>13. (Waves - t.wave) * WaveRounds + WaveRounds <= Waves * WaveRounds /\ b \in Int
       /\ (Waves - t.wave) * WaveRounds \in Nat /\ Waves * WaveRounds \in Nat
  <2>1. 0 \in Nat /\ t.wave \in Nat /\ 0 < t.wave /\ t.wave <= Waves /\ Waves - 0 = Waves
    BY <1>1
  <2>2. (Waves - t.wave) * WaveRounds + WaveRounds <= (Waves - 0) * WaveRounds
        /\ (Waves - t.wave) * WaveRounds \in Nat
    BY <1>1, <2>1, NextWaveLeft
  <2> QED BY <1>1, <2>1, <2>2
<1>14. 0 \in T
  <2>1. loop[0] = x0
    BY <1>1, <1>12
  <2>2. RoundsLeft(Fresh(t)) + 0 <= b
    <3> DEFINE z == (Waves - t.wave) * WaveRounds
               y == Waves * WaveRounds
    <3>1. z + WaveRounds <= y /\ z \in Nat /\ y \in Nat /\ RoundsLeft(Fresh(t)) = z + 2 * Turn + 1
          /\ b = y - 2
      BY <1>3, <1>13
    <3> HIDE DEF z, y, b
    <3> QED BY <1>1, <3>1
  <2> QED BY <1>3, <2>1, <2>2 DEF x0
<1>15. ASSUME NEW i \in Nat, i \in T PROVE i + 1 \in T
  <2> SUFFICES ASSUME i + 1 <= LoopBound PROVE Within(loop[i + 1], i + 1)
    OBVIOUS
  <2>1. Within(loop[i], i)
    BY <1>1, <1>15
  <2>2. loop[i + 1] = step(loop[i])
    <3> DEFINE j == i + 1
    <3>1. j \in 0..LoopBound /\ j # 0 /\ j - 1 = i
      BY <1>1
    <3> HIDE DEF j
    <3>2. loop[j] = step(loop[i])
      BY <1>12, <3>1
    <3> QED BY <3>2 DEF j
  <2>3. ASSUME NEW y \in step(loop[i])
        PROVE  y \in LoopStates(t) /\ (y.running => RoundsLeft(y) + (i + 1) <= b)
    <3>1. PICK x \in loop[i] : y = IF x.running THEN Round(x) ELSE x
      BY DEF step
    <3>2. x \in LoopStates(t) /\ (x.running => RoundsLeft(x) + i <= b)
      BY <2>1
    <3>3. CASE ~x.running
      BY <3>1, <3>2, <3>3
    <3>4. CASE x.running
      <4>1. y = Round(x)
        BY <3>1, <3>4
      <4>2. y \in LoopStates(t) /\ (y.running => RoundsLeft(y) < RoundsLeft(x))
        BY <1>4, <3>2, <3>4, <4>1
      <4>3. RoundsLeft(x) \in Int /\ RoundsLeft(y) \in Int
        BY <3>2, <4>2, RoundsLeftIs
      <4> HIDE DEF b
      <4> QED BY <1>13, <3>2, <3>4, <4>2, <4>3
    <3> QED BY <3>3, <3>4
  <2> QED BY <2>2, <2>3
<1> HIDE DEF T
<1>16. LoopBound \in T
  BY <1>1, <1>14, <1>15, Induction
<1>17. Within(loop[LoopBound], LoopBound)
  BY <1>1, <1>16 DEF T
<1>18. ASSUME NEW x \in loop[LoopBound] PROVE x \in LoopStates(t) /\ ~x.running
  <2>1. x \in LoopStates(t) /\ (x.running => RoundsLeft(x) + LoopBound <= b)
    BY <1>17
  <2>2. RoundsLeft(x) \in Nat
    BY <2>1, RoundsLeftIs
  <2> QED BY <1>1, <1>13, <2>1, <2>2
<1> QED BY <1>11, <1>18

-----------------------------------------------------------------------------
(* Swaps and picks.                                                        *)

(* The cards of one pack of the wave are replaced. *)
LEMMA PackBalance ==
  ASSUME config \in Tables, NEW t \in Wholes, Running(t), NEW u \in Wholes, NEW o \in Seats,
         NEW cards \in Bag, u.packs = PacksWith(t, o, cards),
         u.deal = t.deal, NEW c \in Names
  PROVE  /\ Unpicked(u, c) = Unpicked(t, c) + cards[c] - t.packs[t.wave][o].cards[c]
         /\ AllOf(DealRows(u), c) = AllOf(DealRows(t), c)
         /\ t.packs[t.wave][o].cards[c] \in Nat /\ cards[c] \in Nat
<1> DEFINE D == DOMAIN t.packs
           old == CardRows(t)
           new == CardRows(u)
<1>1. /\ DOMAIN u.packs = D
      /\ \A w \in D, q \in Seats :
            u.packs[w][q].cards = IF w = t.wave /\ q = o THEN cards ELSE t.packs[w][q].cards
  BY PackChange
<1>2. D \in SUBSET (1..Waves) /\ t.wave \in D
  BY PartsOf
<1>3. old \in [D -> [Seats -> Bag]] /\ new \in [D -> [Seats -> Bag]]
  BY <1>1, BalanceIs
<1>4. /\ OnlyThere(old, new, D, t.wave, o)
      /\ new[t.wave][o] = cards /\ old[t.wave][o] = t.packs[t.wave][o].cards
  BY <1>1, <1>2 DEF CardRows, OnlyThere
<1>5. Unpicked(t, c) = AllOf(old, c) /\ Unpicked(u, c) = AllOf(new, c)
  BY BalanceIs
<1>6. DealRows(u) = DealRows(t)
  BY <1>1 DEF DealRows
<1>7. old[t.wave][o] \in Bag
  BY <1>2, <1>3
<1> HIDE DEF D, old, new
<1>8. AllOf(new, c) = AllOf(old, c) + new[t.wave][o][c] - old[t.wave][o][c]
  BY <1>2, <1>3, <1>4, AllChange
<1>9. t.packs[t.wave][o].cards[c] \in Nat /\ cards[c] \in Nat
  BY <1>4, <1>7 DEF Bag
<1> QED BY <1>4, <1>5, <1>6, <1>8, <1>9

(* A swap moves cards between a pack and the pile, and nobody is waited for *)
(* who was not before.                                                     *)
LEMMA SwapLeads ==
  ASSUME config \in Tables, NEW t \in Wholes, t.status = "active", NEW s, NEW u \in Swap(t, s)
  PROVE  /\ Leads(t, u) /\ u.status = "active" /\ Waiting(u) = Waiting(t)
         /\ \A q : PacksAt(u, q) = PacksAt(t, q)
<1>1. /\ u \in Wholes
      /\ IF Swaps(t, s)
         THEN \E out \in InPack(t, s) : Swapped(t, s, u, Min(Replacements(t, s)), out)
         ELSE u = t
      /\ u.pool = t.pool /\ u.status = "active" /\ u.wave = t.wave /\ u.step = t.step
      /\ u.deal = t.deal /\ u.theme = t.theme /\ u.picked = t.picked /\ u.passed = t.passed
      /\ u.main = t.main /\ u.finished = t.finished
  BY SwapIs
<1>2. CASE ~Swaps(t, s)
  <2>1. Leads(t, u)
    BY <1>1, <1>2, LeadsSame DEF SameCards, Running
  <2>2. \A q : PacksAt(u, q) = PacksAt(t, q)
    BY <1>1, <1>2
  <2> QED BY <1>1, <1>2, <2>1, <2>2
<1>3. CASE Swaps(t, s)
  <2> DEFINE i == Min(Replacements(t, s))
             o == PackAt(t, s)
             pack == t.packs[t.wave][o].cards
             in == t.undealt[i]
  <2>1. PICK out \in InPack(t, s) : Swapped(t, s, u, i, out)
    BY <1>1, <1>3
  <2> DEFINE cards == Traded(pack, out, in)
  <2>2. Running(t) /\ PacksAt(t, s) # {}
    BY <1>1, <1>3 DEF Running, Swaps
  <2>3. o \in Seats /\ pack \in Bag /\ out \in Names /\ pack[out] > 0
    BY <2>2, PackInFront
  <2>4. t.undealt \in Seq(Names) /\ i \in DOMAIN t.undealt
    <3>1. t.undealt \in Seq(Names)
      BY PartsOf
    <3>2. Replacements(t, s) \subseteq DOMAIN t.undealt /\ DOMAIN t.undealt \subseteq Nat
      BY <3>1 DEF Replacements, Remainder
    <3>3. i \in Replacements(t, s)
      BY <1>1, <1>3, <3>2, MinOf DEF Swaps
    <3> QED BY <3>1, <3>2, <3>3
  <2>5. in \in Names
    BY <2>4
  <2>6. /\ u.packs = PacksWith(t, o, cards) /\ cards \in Bag
        /\ u.undealt = Append(RemoveAt(t.undealt, i), out)
    BY <2>1 DEF Swapped
  <2>7. \A c \in Names : cards[c] = pack[c] - (IF c = out THEN 1 ELSE 0) + (IF c = in THEN 1 ELSE 0)
    BY DEF Traded
  <2> HIDE DEF i, o, pack, in, cards
  <2>8. ASSUME NEW c \in Names
        PROVE  Balance(u, c) <= Balance(t, c) /\ (~Burn => Balance(u, c) = Balance(t, c))
    <3>1. /\ Unpicked(u, c) = Unpicked(t, c) + cards[c] - pack[c] /\ pack[c] \in Nat
          /\ AllOf(DealRows(u), c) = AllOf(DealRows(t), c)
      BY <1>1, <2>2, <2>3, <2>6, PackBalance DEF pack
    <3>2. Pooled(u, c) = Pooled(t, c)
      BY <1>1 DEF Pooled
    <3>3. Occurs(RemoveAt(t.undealt, i), c) = Occurs(t.undealt, c) - (IF in = c THEN 1 ELSE 0)
      BY <2>4, OccursRemove DEF in
    <3>4. RemoveAt(t.undealt, i) \in Seq(Names)
      BY <2>4, RemoveIn
    <3>5. Occurs(u.undealt, c) = Occurs(RemoveAt(t.undealt, i), c) + (IF out = c THEN 1 ELSE 0)
      BY <2>3, <2>6, <3>4, OccursAppend
    <3>6. /\ Unpicked(t, c) \in Nat /\ Pooled(t, c) \in Nat /\ Occurs(t.undealt, c) \in Nat
          /\ AllOf(DealRows(t), c) \in Nat
      BY BalanceIs
    <3>7. cards[c] - pack[c] = (IF c = in THEN 1 ELSE 0) - (IF c = out THEN 1 ELSE 0)
      BY <2>7, <3>1
    <3>8. Balance(u, c) = Balance(t, c) /\ Balance(t, c) \in Int
      BY <2>7, <3>1, <3>2, <3>3, <3>5, <3>6 DEF Balance
    <3> QED BY <3>8
  <2>9. Leads(t, u)
    BY <1>1, <2>8 DEF Leads, Conserved, Running
  <2>10. \A q : PacksAt(u, q) = PacksAt(t, q)
    <3>1. /\ DOMAIN u.packs = DOMAIN t.packs
          /\ \A w \in DOMAIN t.packs, q \in Seats :
                /\ u.packs[w][q].at = t.packs[w][q].at
                /\ u.packs[w][q].cards = IF w = t.wave /\ q = o THEN cards ELSE t.packs[w][q].cards
      BY <2>2, <2>3, <2>6, PackChange
    <3>2. t.wave \in DOMAIN t.packs
      BY <2>2, PartsOf
    <3>3. cards # Empty /\ pack # Empty
      <4>1. cards[in] # 0 /\ pack[out] # 0
        BY <2>3, <2>5, <2>7 DEF Bag
      <4> QED BY <2>3, <2>5, <4>1 DEF Empty
    <3> QED BY <1>1, <3>1, <3>2, <3>3 DEF PacksAt, pack
  <2>11. Drafting(u) = Drafting(t) /\ Acted(u) = Acted(t)
    BY <1>1 DEF Drafting, Count, Target, Acted
  <2>12. Waiting(u) = Waiting(t)
    BY <2>10, <2>11 DEF Waiting
  <2> QED BY <1>1, <2>9, <2>10, <2>12
<1> QED BY <1>2, <1>3

(* After a swap the seat has a card it may take: when it still has none,    *)
(* there was nothing to swap.                                              *)
LEMMA SwapHelps ==
  ASSUME config \in Tables, NEW t \in Wholes, t.status = "active", NEW s, NEW u \in Swap(t, s),
         PacksAt(t, s) # {}
  PROVE  /\ PacksAt(u, s) # {}
         /\ CopyLimit /\ Legal(u, s) = {} => u = t /\ Replacements(t, s) = {}
<1>1. PacksAt(u, s) = PacksAt(t, s)
  BY SwapLeads
<1>2. CASE ~Swaps(t, s)
  <2>1. u = t
    BY <1>2, SwapIs
  <2> QED BY <1>1, <1>2, <2>1 DEF Swaps
<1>3. CASE Swaps(t, s)
  <2> DEFINE i == Min(Replacements(t, s))
             o == PackAt(t, s)
             pack == t.packs[t.wave][o].cards
             in == t.undealt[i]
             cards(out) == Traded(pack, out, in)
  <2>1. u \in Wholes /\ u.pool = t.pool /\ u.wave = t.wave /\ u.status = "active"
    BY SwapIs
  <2>2. PICK out \in InPack(t, s) : u.packs = PacksWith(t, o, cards(out)) /\ cards(out) \in Bag
    <3>1. \E out \in InPack(t, s) : Swapped(t, s, u, i, out)
      BY <1>3, SwapIs
    <3> QED BY <3>1 DEF Swapped
  <2>3. Running(t) /\ Running(u)
    BY <2>1 DEF Running
  <2>4. o \in Seats /\ pack \in Bag /\ out \in Names /\ pack[out] > 0
    BY <2>3, PackInFront
  <2>5. i \in Replacements(t, s) /\ in \in Names
    <3>1. t.undealt \in Seq(Names)
      BY PartsOf
    <3>2. Replacements(t, s) \subseteq DOMAIN t.undealt /\ DOMAIN t.undealt \subseteq Nat
      BY <3>1 DEF Replacements, Remainder
    <3>3. i \in Replacements(t, s)
      BY <1>3, <3>2, MinOf DEF Swaps
    <3> QED BY <3>1, <3>2, <3>3
  <2>6. ~Capped(u, s, in)
    BY <2>1, <2>5 DEF Replacements, Capped
  <2>7. cards(out)[in] > 0
    <3> HIDE DEF pack, in
    <3>1. cards(out)[in] = pack[in] - (IF in = out THEN 1 ELSE 0) + 1 /\ pack[in] \in Nat
      BY <2>4, <2>5 DEF Traded, Bag
    <3> HIDE DEF cards
    <3> QED BY <2>4, <3>1
  <2>8. PackAt(u, s) = o
    BY <1>1 DEF PackAt
  <2>9. InPack(u, s) = {c \in Names : u.packs[u.wave][o].cards[c] > 0}
    BY <1>1, <2>1, <2>3, <2>8, PackInFront
  <2> HIDE DEF i, o, pack, in, cards
  <2>10. u.packs[t.wave][o].cards = cards(out)
    <3>1. t.wave \in DOMAIN t.packs
      BY <2>3, PartsOf
    <3> QED BY <2>2, <2>3, <2>4, <3>1, PackChange
  <2>11. in \in Legal(u, s)
    BY <2>1, <2>5, <2>6, <2>7, <2>9, <2>10 DEF Legal
  <2> QED BY <1>1, <2>11
<1> QED BY <1>2, <1>3

(* Settled tables that t may lead to: somebody is waited for. *)
Settled(t) == {u \in Wholes : Leads(t, u) /\ (u.status = "active" => Waiting(u) # {})}

LEMMA SwapForIs ==
  ASSUME config \in Tables, NEW t \in Wholes, NEW S \in SUBSET Settled(t), NEW s
  PROVE  SwapFor(S, s) \in SUBSET Settled(t)
<1>1. ASSUME NEW u \in SwapFor(S, s) PROVE u \in Settled(t)
  <2>1. PICK v \in S : u \in IF v.status = "active" /\ s \in Waiting(v) THEN Swap(v, s) ELSE {v}
    BY DEF SwapFor
  <2>2. v \in Wholes /\ Leads(t, v) /\ (v.status = "active" => Waiting(v) # {})
    BY DEF Settled
  <2>3. CASE v.status = "active" /\ s \in Waiting(v)
    <3>1. u \in Swap(v, s)
      BY <2>1, <2>3
    <3>2. Leads(v, u) /\ u.status = "active" /\ Waiting(u) = Waiting(v)
      BY <2>2, <2>3, <3>1, SwapLeads
    <3>3. Leads(t, u)
      BY <2>2, <3>2, LeadsOn
    <3> QED BY <2>2, <2>3, <3>2, <3>3 DEF Settled, Leads
  <2>4. CASE ~(v.status = "active" /\ s \in Waiting(v))
    BY <2>1, <2>4
  <2> QED BY <2>3, <2>4
<1> QED BY <1>1

LEMMA SettleIs ==
  ASSUME config \in Tables, ~IsTheme, NEW t \in Wholes, Running(t)
  PROVE  Settle(t) \in SUBSET Settled(t)
<1>1. CASE t.status # "active"
  <2>1. Leads(t, t)
    BY LeadsSame DEF SameCards
  <2> QED BY <1>1, <2>1 DEF Settle, Settled
<1>2. CASE t.status = "active"
  <2> DEFINE X == SUBSET Settled(t)
             start == {x.t : x \in Looped(t)}
             G == [p \in (1..N) \X X |-> SwapFor(p[2], Joined[p[1]])]
  <2>1. start \in X
    <3>1. ASSUME NEW x \in Looped(t) PROVE x.t \in Settled(t)
      <4>1. x \in LoopStates(t) /\ ~x.running
        BY <1>2, LoopedIs
      <4> QED BY <4>1 DEF LoopStates, Settled
    <3> QED BY <3>1
  <2>2. N \in Nat
    BY ConfigIs
  <2>3. \A i \in 1..N, S \in X : SwapFor(S, Joined[i]) \in X
    BY SwapForIs
  <2>4. \A i \in 1..N, S \in X : G[<<i, S>>] = SwapFor(S, Joined[i])
    <3> HIDE DEF X
    <3> QED OBVIOUS
  <2> HIDE DEF G, X, start
  <2>5. PICK f : Follows(f, start, G, N, X)
    <3>1. StepsIn(G, N, X)
      BY <2>3, <2>4 DEF StepsIn
    <3> QED BY <2>1, <2>2, <3>1, Recursion
  <2>6. f \in [0..N -> X] /\ f[0] = start /\ \A i \in 1..N : f[i] = SwapFor(f[i - 1], Joined[i])
    <3>1. f \in [0..N -> X] /\ f[0] = start /\ \A i \in 1..N : f[i] = G[<<i, f[i - 1]>>]
      BY <2>5 DEF Follows
    <3>2. ASSUME NEW i \in 1..N PROVE f[i] = SwapFor(f[i - 1], Joined[i])
      <4>1. i - 1 \in 0..N
        BY <2>2
      <4> QED BY <2>4, <3>1, <4>1
    <3> QED BY <3>1, <3>2
  <2> DEFINE asked == CHOOSE asked : asked =
                [i \in 0..N |-> IF i = 0 THEN {x.t : x \in Looped(t)}
                                ELSE SwapFor(asked[i - 1], Joined[i])]
  <2>7. asked = [i \in 0..N |-> IF i = 0 THEN start ELSE SwapFor(asked[i - 1], Joined[i])]
    <3>1. \A i \in 0..N : f[i] = IF i = 0 THEN start ELSE SwapFor(f[i - 1], Joined[i])
      BY <2>2, <2>6
    <3>2. f = [i \in 0..N |-> IF i = 0 THEN start ELSE SwapFor(f[i - 1], Joined[i])]
      BY <2>6, <3>1
    <3>3. \E g : g = [i \in 0..N |-> IF i = 0 THEN start ELSE SwapFor(g[i - 1], Joined[i])]
      BY <3>2
    <3> QED BY <3>3 DEF start
  <2>8. Settle(t) = asked[N]
    BY <1>2 DEF Settle
  <2> HIDE DEF asked
  <2> DEFINE T == {i \in Nat : i <= N => asked[i] \in X}
  <2>9. 0 \in T
    BY <2>1, <2>2, <2>7
  <2>10. ASSUME NEW i \in Nat, i \in T PROVE i + 1 \in T
    <3> SUFFICES ASSUME i + 1 <= N PROVE asked[i + 1] \in X
      OBVIOUS
    <3> DEFINE j == i + 1
    <3>1. j \in 1..N /\ j \in 0..N /\ j # 0 /\ j - 1 = i /\ asked[i] \in X
      BY <2>2, <2>10
    <3> HIDE DEF j
    <3>2. asked[j] = SwapFor(asked[i], Joined[j])
      BY <2>7, <3>1
    <3> QED BY <2>3, <3>1, <3>2 DEF j
  <2> HIDE DEF T
  <2>11. N \in T
    BY <2>2, <2>9, <2>10, Induction
  <2> QED BY <2>2, <2>8, <2>11 DEF T, X
<1> QED BY <1>1, <1>2

(* What everything that goes on with a draft keeps.                        *)
Kept(t, v) == v \in Wholes /\ Running(v) /\ Conserved(t, v) /\ v.theme = t.theme

LEMMA KeptOn ==
  ASSUME config \in Tables, NEW t \in Wholes, NEW u, Kept(t, u), NEW v, Kept(u, v)
  PROVE  Kept(t, v)
<1>1. u \in Wholes /\ v \in Wholes
  BY DEF Kept
<1>2. ASSUME NEW c \in Names
      PROVE  Balance(v, c) <= Balance(t, c) /\ (~Burn => Balance(v, c) = Balance(t, c))
  <2>1. Balance(t, c) \in Int /\ Balance(u, c) \in Int /\ Balance(v, c) \in Int
    BY <1>1, BalanceIs
  <2> QED BY <2>1 DEF Kept, Conserved
<1> QED BY <1>2 DEF Kept, Conserved

LEMMA KeptSame ==
  ASSUME config \in Tables, NEW t \in Wholes, Running(t)
  PROVE  Kept(t, t)
<1>1. Leads(t, t)
  BY LeadsSame DEF SameCards
<1> QED BY <1>1 DEF Leads, Kept

LEMMA PoolIs ==
  ASSUME config \in Tables, NEW t \in Wholes, NEW s \in Seats, NEW c \in Names
  PROVE  /\ PoolWith(t, s, c) \in [Seats -> Bag] /\ t.pool \in [Seats -> Bag]
         /\ \A q \in Seats, d \in Names : /\ t.pool[q][d] \in Nat
                /\ PoolWith(t, s, c)[q][d] = t.pool[q][d] + (IF q = s /\ d = c THEN 1 ELSE 0)
         /\ \A q \in Seats \ {s} : PoolWith(t, s, c)[q] = t.pool[q]
<1>1. t.pool \in [Seats -> Bag]
  BY PartsOf
<1> DEFINE bag == [t.pool[s] EXCEPT ![c] = @ + 1]
<1>2. t.pool[s] \in [Names -> Nat]
  BY <1>1 DEF Bag
<1>3. bag \in Bag /\ \A d \in Names : bag[d] = t.pool[s][d] + (IF d = c THEN 1 ELSE 0)
  BY <1>2 DEF Bag
<1> HIDE DEF bag
<1>4. PoolWith(t, s, c) = [t.pool EXCEPT ![s] = bag]
  BY DEF PoolWith, bag
<1>5. PoolWith(t, s, c) \in [Seats -> Bag] /\ \A q \in Seats : PoolWith(t, s, c)[q] = IF q = s THEN bag ELSE t.pool[q]
  BY <1>1, <1>3, <1>4
<1>6. \A q \in Seats, d \in Names : t.pool[q][d] \in Nat
  BY <1>1 DEF Bag
<1> QED BY <1>1, <1>3, <1>5, <1>6

(* A pick moves a card from a pack to a pool. *)
LEMMA TakenKept ==
  ASSUME config \in Tables, NEW t \in Wholes, t.status = "active",
         NEW s \in Seats, PacksAt(t, s) # {}, NEW c \in InPack(t, s), NEW last
  PROVE  LET u == Taken(t, s, c, last)
         IN  Kept(t, u) /\ u.status = "active" /\ u.pool = PoolWith(t, s, c) /\ u.deal = t.deal
<1> DEFINE u == Taken(t, s, c, last)
           o == PackAt(t, s)
           pack == t.packs[t.wave][o].cards
           cards == [pack EXCEPT ![c] = @ - 1]
<1>1. Running(t)
  BY DEF Running
<1>2. /\ u \in Wholes /\ c \in Names /\ cards \in Bag /\ u.packs = PacksWith(t, o, cards)
      /\ u.pool = PoolWith(t, s, c)
      /\ u.status = "active" /\ u.wave = t.wave /\ u.deal = t.deal
      /\ u.undealt = t.undealt /\ u.theme = t.theme
  BY TakenIs DEF PackWithout
<1>3. o \in Seats /\ pack \in Bag
  BY <1>1, PackInFront
<1>4. \A d \in Names : cards[d] = pack[d] - (IF d = c THEN 1 ELSE 0)
  <2> HIDE DEF pack
  <2> QED BY <1>2, <1>3 DEF Bag
<1> HIDE DEF u, cards, o
<1>5. ASSUME NEW d \in Names
      PROVE  Balance(u, d) <= Balance(t, d) /\ (~Burn => Balance(u, d) = Balance(t, d))
  <2>1. /\ Unpicked(u, d) = Unpicked(t, d) + cards[d] - pack[d]
        /\ AllOf(DealRows(u), d) = AllOf(DealRows(t), d)
        /\ pack[d] \in Nat
    BY <1>1, <1>2, <1>3, PackBalance
  <2>2. Pooled(u, d) = Pooled(t, d) + (IF d = c THEN 1 ELSE 0)
    <3> DEFINE old == [q \in Seats |-> t.pool[q][d]]
               new == [q \in Seats |-> u.pool[q][d]]
    <3>1. /\ old \in [Seats -> Nat] /\ new \in [Seats -> Nat]
          /\ new[s] = old[s] + (IF d = c THEN 1 ELSE 0) /\ \A q \in Seats \ {s} : new[q] = old[q]
      BY <1>2, PoolIs
    <3> HIDE DEF old, new
    <3>2. IsFiniteSet(Seats)
      BY FiniteSets
    <3>3. SumFunction(new) = SumFunction(old) + new[s] - old[s]
      BY <3>1, <3>2, SumsChange
    <3>4. SumFunction(old) \in Nat /\ old[s] \in Nat
      BY <3>1, <3>2, SumsNat
    <3>5. SumFunction(new) = SumFunction(old) + (IF d = c THEN 1 ELSE 0)
      BY <3>1, <3>3, <3>4
    <3> QED BY <3>5 DEF Pooled, old, new
  <2>3. /\ Unpicked(t, d) \in Nat /\ Pooled(t, d) \in Nat /\ Occurs(t.undealt, d) \in Nat
        /\ AllOf(DealRows(t), d) \in Nat
    BY BalanceIs
  <2>4. Balance(u, d) = Balance(t, d) /\ Balance(t, d) \in Int
    BY <1>2, <1>4, <2>1, <2>2, <2>3 DEF Balance
  <2> QED BY <2>4
<1> QED BY <1>2, <1>5 DEF Kept, Conserved, Running, u

(* What a seat may take. *)
Grown(t, v, s, c) == v.pool = PoolWith(t, s, c)

(* What the copy cap demands of a pick of card c by seat s.                *)
ForcedWell(t, s, c) ==
    CopyLimit /\ t.pool[s][c] >= MaxCopies =>
        /\ ~IsTheme /\ Replacements(t, s) = {}
        /\ \A d \in InPack(t, s) : t.pool[s][d] >= MaxCopies

LEMMA TakePassedIs ==
  ASSUME config \in Tables, ~IsTheme, NEW t \in Wholes, NEW s, NEW c \in Names,
         NEW v \in TakePassed(t, s, c)
  PROVE  /\ t.status = "active" /\ s \in Waiting(t) /\ s \in Seats
         /\ Kept(t, v) /\ v.deal = t.deal
         /\ v.status = "active" => Waiting(v) # {}
         /\ Grown(t, v, s, c) /\ ForcedWell(t, s, c)
<1>1. t.status = "active" /\ s \in Waiting(t)
  BY DEF TakePassed
<1>2. s \in Seats /\ PacksAt(t, s) # {}
  BY <1>1 DEF Waiting, Drafting
<1>3. PICK u \in Swap(t, s) : c \in Options(u, s) /\ v \in Settle(Taken(u, s, c, CardsToDraft(u, s)))
  BY <1>1 DEF TakePassed
<1>4. Leads(t, u) /\ u.status = "active" /\ u \in Wholes
  BY <1>1, SwapLeads DEF Leads
<1>5. /\ PacksAt(u, s) # {}
      /\ CopyLimit /\ Legal(u, s) = {} => u = t /\ Replacements(t, s) = {}
  BY <1>1, <1>2, SwapHelps
<1>6. c \in InPack(u, s)
  BY <1>3 DEF Options, Legal
<1> DEFINE w == Taken(u, s, c, CardsToDraft(u, s))
<1>7. Kept(u, w) /\ w.status = "active" /\ w.pool = PoolWith(u, s, c) /\ w.deal = u.deal
  BY <1>2, <1>4, <1>5, <1>6, TakenKept
<1>8. v \in Settle(w)
  BY <1>3
<1> HIDE DEF w
<1>9. Leads(w, v) /\ (v.status = "active" => Waiting(v) # {})
  <2>1. w \in Wholes /\ Running(w)
    BY <1>7 DEF Kept
  <2>2. v \in Settled(w)
    BY <1>8, <2>1, SettleIs
  <2> QED BY <2>2 DEF Settled
<1>10. Kept(t, v)
  <2>1. Kept(t, u) /\ Kept(w, v)
    BY <1>4, <1>9 DEF Leads, Kept
  <2>2. Kept(t, w)
    BY <1>7, <2>1, KeptOn
  <2> QED BY <2>1, <2>2, KeptOn
<1>11. Grown(t, v, s, c) /\ v.deal = t.deal
  BY <1>4, <1>7, <1>9 DEF Leads, Grown, PoolWith
<1>12. ASSUME CopyLimit, t.pool[s][c] >= MaxCopies
       PROVE  /\ ~IsTheme /\ Replacements(t, s) = {}
              /\ \A d \in InPack(t, s) : t.pool[s][d] >= MaxCopies
  <2>1. u.pool = t.pool
    BY <1>4 DEF Leads
  <2>2. c \notin Legal(u, s)
    BY <1>12, <2>1 DEF Legal, Capped
  <2>3. Legal(u, s) = {}
    BY <1>3, <2>2 DEF Options
  <2>4. u = t /\ Replacements(t, s) = {}
    BY <1>5, <1>12, <2>3
  <2> QED BY <2>3, <2>4 DEF Legal, Capped
<1> QED BY <1>1, <1>2, <1>9, <1>10, <1>11, <1>12 DEF ForcedWell

-----------------------------------------------------------------------------
(* The start of a draft.                                                   *)

LEMMA DivIs ==
  ASSUME NEW a \in Nat, NEW n \in Nat \ {0}
  PROVE  /\ a \div n \in Nat /\ a % n \in 0..(n - 1)
         /\ a > 0 /\ a % n = 0 => a \div n >= 1
<1>1. a \div n \in Nat
  OBVIOUS
<1>2. a % n \in 0..(n - 1)
  OBVIOUS
<1>3. ASSUME a > 0, a % n = 0 PROVE a \div n >= 1
  BY <1>3
<1> QED BY <1>1, <1>2, <1>3

LEMMA BagOfIs ==
  ASSUME NEW X, NEW q \in Seq(X), NEW from \in Nat, NEW count \in Nat
  PROVE  /\ BagOf(SubSeq(q, from + 1, from + count)) \in Bag
         /\ count >= 1 /\ from = 0 /\ Len(q) >= 1 /\ q[1] \in Names =>
                BagOf(SubSeq(q, from + 1, from + count)) # Empty
<1> DEFINE cards == SubSeq(q, from + 1, from + count)
           at(c) == {i \in DOMAIN cards : cards[i] = c}
<1>1. DOMAIN cards = 1..count /\ \A i \in 1..count : cards[i] = q[from + i]
  OBVIOUS
<1> HIDE DEF cards
<1>2. ASSUME NEW c PROVE IsFiniteSet(at(c)) /\ Cardinality(at(c)) \in Nat
  <2>1. IsFiniteSet(1..count)
    BY FS_Interval
  <2>2. IsFiniteSet(at(c))
    BY <1>1, <2>1, FS_Subset
  <2> QED BY <2>2, FS_CardinalityType
<1>3. BagOf(cards) = [c \in Names |-> Cardinality(at(c))]
  BY DEF BagOf
<1>4. ASSUME count >= 1, from = 0, Len(q) >= 1, q[1] \in Names PROVE BagOf(cards) # Empty
  <2>1. 1 \in at(q[1])
    BY <1>1, <1>4
  <2> HIDE DEF at
  <2>2. Cardinality(at(q[1])) # 0
    BY <1>2, <2>1, FS_EmptySet
  <2>3. BagOf(cards)[q[1]] # 0
    BY <1>3, <1>4, <2>2
  <2> QED BY <1>4, <2>3 DEF Empty
<1> HIDE DEF at
<1>5. BagOf(cards) \in Bag
  BY <1>2, <1>3 DEF Bag
<1> QED BY <1>4, <1>5 DEF cards

LEMMA NoneOf ==
  ASSUME NEW X
  PROVE  << >> \in [{} -> X] /\ DOMAIN << >> = {}
<1>1. << >> \in [{} -> X]
  OBVIOUS
<1>2. DOMAIN << >> = {}
  OBVIOUS
<1> QED BY <1>1, <1>2

LEMMA BlankIs ==
  ASSUME config \in Tables
  PROVE  /\ Blank \in Row /\ Apart(Blank) /\ Blank.pool = [s \in Seats |-> Empty]
         /\ Blank.packs = << >> /\ Blank.deal = << >> /\ Blank.finished = {} /\ Blank.picked = {}
         /\ Blank.theme = << >> /\ Blank.status = "pending" /\ Blank.passed = {}
         /\ Blank.wave = 1 /\ Blank \in Wholes
         /\ Empty \in Bag /\ \A s \in Seats : Size(Empty) = 0
<1>1. 1 \in 1..Waves
  BY RoundsAre
<1>2. Empty \in Bag
  BY DEF Empty, Bag
<1>3. << >> \in [{} -> [Seats -> Bag]] /\ << >> \in [{} -> [Seats -> PackRow]] /\ DOMAIN << >> = {}
  BY NoneOf
<1>4. /\ << >> \in UNION {[D -> [Seats -> Bag]] : D \in SUBSET (1..Waves)}
      /\ << >> \in UNION {[D -> [Seats -> PackRow]] : D \in SUBSET (1..Waves)}
  BY <1>3
<1>5. << >> \in Seq(Names) /\ [s \in Seats |-> Empty] \in [Seats -> Bag]
      /\ [s \in Seats |-> 0] \in [Seats -> Nat]
  BY <1>2
<1>6. Blank \in Row
  BY <1>1, <1>4, <1>5 DEF Blank, Row, Statuses
<1>7. /\ Blank.pool = [s \in Seats |-> Empty]
      /\ Blank.packs = << >> /\ Blank.deal = << >> /\ Blank.finished = {} /\ Blank.picked = {}
      /\ Blank.theme = << >> /\ Blank.status = "pending" /\ Blank.passed = {} /\ Blank.wave = 1
  BY DEF Blank
<1>8. Apart(Blank)
  BY <1>3, <1>7 DEF Apart
<1>9. Blank \in Wholes
  BY <1>3, <1>6, <1>7, <1>8, WholeAgain DEF Running
<1>10. Size(Empty) = 0
  <2>1. Empty \in [Names -> Nat] /\ \A c \in Names : Empty[c] = 0
    BY DEF Empty
  <2>2. SumFunction(Empty) = 0
    BY <2>1, FiniteSets, SumsZero
  <2> QED BY <2>2 DEF Size
<1> QED BY <1>2, <1>6, <1>7, <1>8, <1>9, <1>10

LEMMA StartedFromIs ==
  ASSUME config \in Tables, ~IsTheme, NEW main \in MainDecks(config), NEW extra \in ExtraDecks(config),
         NEW v \in StartedFrom(Blank, main, extra)
  PROVE  /\ v \in Wholes /\ v.status = "active" /\ v.pool = Blank.pool
         /\ v.theme = << >> /\ Waiting(v) # {}
<1> DEFINE r == [Blank EXCEPT !.status = "active", !.deal = Packs(main, extra),
                              !.undealt = Undealt(main, extra)]
<1>1. Len(main) # 0 /\ ~(Len(extra) < N * ExtraSize) /\ v = OpenWave(r, 1)
  BY DEF StartedFrom
<1>2. /\ N \in Nat /\ N >= 2 /\ Seats = 0..(N - 1) /\ ExtraSize \in Nat /\ PackSize \in Nat \ {0}
      /\ MainTarget \in Nat \ {0}
  BY ConfigIs
<1>3. MainRounds \in Nat \ {0} /\ Waves \in Nat \ {0}
  BY RoundsAre
<1>4. main \in Seq(MainNames) /\ MainNames \subseteq Names
      /\ extra \in Seq(Names)
  <2>1. /\ MainDecks(config) \subseteq Seq(MainNames)
        /\ ExtraDecks(config) \subseteq IF config.extraSize > 0 THEN Seq(ExtraNames) ELSE {<< >>}
    BY TableAssumption
  <2>2. main \in Seq(MainNames) /\ MainNames \subseteq Names
    BY <2>1 DEF Names
  <2>3. CASE ExtraSize > 0
    <3>1. extra \in Seq(ExtraNames) /\ ExtraNames \subseteq Names
      BY <2>1, <2>3 DEF ExtraSize, Names
    <3> QED BY <2>2, <3>1
  <2>4. CASE ~(ExtraSize > 0)
    <3>1. extra = << >>
      BY <2>1, <2>4 DEF ExtraSize
    <3> QED BY <2>2, <3>1
  <2> QED BY <2>3, <2>4
<1>5. \A w \in Nat : WaveStart(main, w + 1) \in 0..Len(main)
  <2>1. ASSUME NEW w \in Nat PROVE WaveStart(main, w + 1) \in 0..Len(main)
    <3>1. w + 1 - 1 = w /\ w * N * PackSize \in Nat /\ Len(main) \in Nat
      BY <1>2, <1>4
    <3> QED BY <3>1 DEF WaveStart, Least
  <2> QED BY <2>1
<1>6. ASSUME NEW w \in 1..Waves, NEW o \in Seats
      PROVE  PackStart(main, w, o) \in Nat /\ PackCount(main, w, o) \in Nat
  <2> DEFINE rest == Least(Len(main) - WaveStart(main, w), N * PackSize)
  <2>1. WaveStart(main, w) \in 0..Len(main)
    <3>1. w - 1 \in Nat /\ w - 1 + 1 = w
      BY <1>3
    <3> QED BY <1>5, <3>1
  <2>2. rest \in Nat
    <3>1. N * PackSize \in Nat /\ Len(main) \in Nat
      BY <1>2, <1>4
    <3> QED BY <2>1, <3>1 DEF Least
  <2>3. PackCount(main, w, o) = rest \div N + (IF o < rest % N THEN 1 ELSE 0)
        /\ PackStart(main, w, o) = WaveStart(main, w) + o * (rest \div N) + Least(o, rest % N)
    BY DEF PackCount, PackStart
  <2> HIDE DEF rest
  <2>4. rest \div N \in Nat /\ rest % N \in Nat /\ o \in Nat
    <3>1. N \in Nat \ {0} /\ o \in Nat
      BY <1>2
    <3>2. rest \div N \in Nat
      BY <2>2, <3>1, DivIs
    <3>3. rest % N \in 0..(N - 1)
      BY <2>2, <3>1, DivIs
    <3> QED BY <3>1, <3>2, <3>3
  <2>5. o * (rest \div N) \in Nat
    BY <2>4
  <2> QED BY <2>1, <2>3, <2>4, <2>5 DEF Least
<1>7. PackStart(main, 1, 0) = 0 /\ PackCount(main, 1, 0) >= 1
  <2> DEFINE rest == Least(Len(main) - WaveStart(main, 1), N * PackSize)
  <2>1. Len(main) \in Nat \ {0} /\ N * PackSize \in Nat \ {0}
    BY <1>1, <1>2, <1>4
  <2>2. WaveStart(main, 1) = 0
    <3>1. (1 - 1) * N * PackSize = 0
      BY <1>2
    <3> QED BY <2>1, <3>1 DEF WaveStart, Least
  <2>3. rest \in Nat /\ rest > 0
    BY <2>1, <2>2 DEF Least
  <2>4. PackCount(main, 1, 0) = rest \div N + (IF 0 < rest % N THEN 1 ELSE 0)
        /\ PackStart(main, 1, 0) = 0 + 0 * (rest \div N) + Least(0, rest % N)
    BY <2>2 DEF PackCount, PackStart
  <2> HIDE DEF rest
  <2>5. /\ rest \div N \in Nat /\ rest % N \in 0..(N - 1)
        /\ rest % N = 0 => rest \div N >= 1
    <3>1. N \in Nat \ {0}
      BY <1>2
    <3> QED BY <2>3, <3>1, DivIs
  <2> QED BY <1>2, <2>4, <2>5 DEF Least
<1>8. Packs(main, extra) \in [1..Waves -> [Seats -> Bag]]
      /\ Packs(main, extra)[1][0] # Empty
  <2> DEFINE wave(w) == [o \in Seats |->
                  IF Phase(w) = "extra"
                  THEN BagOf(SubSeq(extra, o * ExtraSize + 1, (o + 1) * ExtraSize))
                  ELSE BagOf(SubSeq(main, PackStart(main, w, o) + 1,
                                          PackStart(main, w, o) + PackCount(main, w, o)))]
  <2>1. ASSUME NEW o \in Seats
        PROVE  BagOf(SubSeq(extra, o * ExtraSize + 1, (o + 1) * ExtraSize)) \in Bag
    <3>1. o * ExtraSize \in Nat /\ (o + 1) * ExtraSize = o * ExtraSize + ExtraSize
      BY <1>2
    <3>2. BagOf(SubSeq(extra, o * ExtraSize + 1, o * ExtraSize + ExtraSize)) \in Bag
      BY <1>2, <1>4, <3>1, BagOfIs
    <3> QED BY <3>1, <3>2
  <2>2. ASSUME NEW w \in 1..Waves, NEW o \in Seats
        PROVE  BagOf(SubSeq(main, PackStart(main, w, o) + 1,
                                  PackStart(main, w, o) + PackCount(main, w, o))) \in Bag
    BY <1>4, <1>6, BagOfIs
  <2>3. \A w \in 1..Waves : wave(w) \in [Seats -> Bag]
    BY <2>1, <2>2
  <2>4. Packs(main, extra) = [w \in 1..Waves |-> wave(w)]
    BY DEF Packs
  <2>5. wave(1)[0] # Empty
    <3>1. Phase(1) # "extra" /\ 0 \in Seats
      BY <1>2, <1>3 DEF Phase
    <3>2. Len(main) >= 1 /\ main[1] \in Names
      BY <1>1, <1>4
    <3>3. 1 \in 1..Waves
      BY <1>3
    <3>4. BagOf(SubSeq(main, PackStart(main, 1, 0) + 1,
                             PackStart(main, 1, 0) + PackCount(main, 1, 0))) # Empty
      BY <1>4, <1>6, <1>7, <3>1, <3>2, <3>3, BagOfIs
    <3> QED BY <3>1, <3>4
  <2> HIDE DEF wave
  <2> QED BY <1>3, <2>3, <2>4, <2>5
<1>9. Undealt(main, extra) \in Seq(Names)
  <2>1. WaveStart(main, MainRounds + 1) \in Nat /\ WaveStart(main, MainRounds + 1) <= Len(main)
    BY <1>3, <1>4, <1>5
  <2>2. main \in Seq(Names)
    BY <1>4
  <2>3. N * ExtraSize \in Nat /\ N * ExtraSize <= Len(extra)
    BY <1>1, <1>2, <1>4
  <2>4. SubSeq(main, WaveStart(main, MainRounds + 1) + 1, Len(main)) \in Seq(Names)
    BY <2>1, <2>2
  <2>5. SubSeq(extra, N * ExtraSize + 1, Len(extra)) \in Seq(Names)
    BY <1>4, <2>3
  <2> QED BY <2>4, <2>5 DEF Undealt
<1>10. r \in Row /\ r.status = "active" /\ DOMAIN r.deal = 1..Waves /\ Apart(r) /\ r.packs = << >>
       /\ r.pool = Blank.pool /\ r.theme = << >> /\ r.finished = {} /\ r.deal = Packs(main, extra)
  <2>1. Packs(main, extra) \in UNION {[D -> [Seats -> Bag]] : D \in SUBSET (1..Waves)}
    BY <1>8
  <2>2. Blank \in Row /\ Blank.packs = << >> /\ Blank.theme = << >> /\ Blank.finished = {}
        /\ Apart(Blank)
    BY BlankIs
  <2>3. r \in Row
    BY <1>9, <2>1, <2>2 DEF Row, Statuses
  <2>4. /\ r.status = "active" /\ r.packs = << >> /\ r.pool = Blank.pool /\ r.theme = << >>
        /\ r.finished = {} /\ r.deal = Packs(main, extra)
    BY <2>2 DEF Row
  <2> HIDE DEF r
  <2>5. Apart(r)
    BY <2>2, <2>4 DEF Apart
  <2> QED BY <1>8, <2>3, <2>4, <2>5
<1> HIDE DEF r
<1>11. /\ v \in Wholes /\ v.status = "active" /\ v.wave = 1 /\ v.pool = Blank.pool
       /\ v.finished = {} /\ v.picked = {} /\ v.passed = {}
       /\ \A o \in Seats : v.packs[1][o].cards = Packs(main, extra)[1][o]
  <2>1. 1 \in 1..Waves /\ \A w \in DOMAIN r.packs : w < 1
    BY <1>3, <1>10, NoneOf
  <2> DEFINE u == OpenWave(r, 1)
  <2>2. /\ u \in Wholes /\ u.status = "active" /\ u.wave = 1 /\ u.pool = r.pool
        /\ u.finished = r.finished /\ u.picked = {} /\ u.passed = {}
        /\ \A o \in Seats : u.packs[1][o].cards = r.deal[1][o]
    BY <1>10, <2>1, OpenWaveIs
  <2> HIDE DEF u
  <2> QED BY <1>1, <1>10, <2>2 DEF u
<1>12. v.theme = << >> /\ \A o \in Seats : v.packs[1][o].at = o
  <2>1. v.theme = << >>
    BY <1>1, <1>10 DEF OpenWave, Row
  <2>2. v.packs = With(r.packs, 1, [o \in Seats |-> [at |-> o, cards |-> r.deal[1][o]]])
    BY <1>1, <1>10 DEF OpenWave, Row
  <2>3. v.packs[1] = [o \in Seats |-> [at |-> o, cards |-> r.deal[1][o]]]
    BY <2>2 DEF With
  <2> QED BY <2>1, <2>3
<1>13. 0 \in Waiting(v)
  <2>1. 0 \in Seats
    BY <1>2
  <2>2. 0 \in PacksAt(v, 0)
    BY <1>8, <1>11, <1>12, <2>1 DEF PacksAt
  <2>3. Count(v, 0) = 0
    BY <1>11, <2>1, BlankIs DEF Count
  <2>4. Target(v, 0) = MainTarget
    BY <1>3, <1>11 DEF Target, Phase
  <2>5. 0 \in Drafting(v)
    BY <1>2, <1>11, <2>1, <2>3, <2>4 DEF Drafting
  <2> QED BY <1>11, <2>2, <2>5 DEF Waiting, Acted
<1> QED BY <1>11, <1>12, <1>13

-----------------------------------------------------------------------------
(* The rounds of a theme.                                                  *)

(* What a theme has of a card, what a seat was given of it and what that    *)
(* amounts to: everything dealt, or what it took and has before it.        *)
Holds(t, s, c) == Max({themes[t.theme[s]].main[c], themes[t.theme[s]].extra[c]})
Given(t, s, c) == SumFunction([w \in DOMAIN t.deal |-> t.deal[w][s][c]])
Spent(t, s, c) == IF Burn THEN Given(t, s, c) ELSE t.pool[s][c]
Shown(t, s, c) ==
    IF Burn THEN Given(t, s, c) ELSE t.pool[s][c] + t.packs[t.wave][s].cards[c]
Spare(t) == \A s \in Seats, c \in Names : Spent(t, s, c) <= Holds(t, s, c)
Fits(t) == \A s \in Seats, c \in Names : Shown(t, s, c) <= Holds(t, s, c)

(* The pack of a seat that has not picked: as it was dealt, to a seat that  *)
(* is still drafting, with cards it may take.                              *)
Uncapped(t, s, pack) == \A c \in Names : pack[c] > 0 => ~Capped(t, s, c)
Private(t, s) ==
    /\ t.packs[t.wave][s].cards = t.deal[t.wave][s]
    /\ t.deal[t.wave][s] # Empty => s \notin t.finished
    /\ Uncapped(t, s, t.deal[t.wave][s])

Unfilled(t) == \A s \in Seats \ t.finished : Count(t, s) < Waves

(* A running theme draft in one of its rounds ...                          *)
Themed(t) ==
    /\ t.status = "active" /\ t.passed = {}
    /\ DOMAIN t.deal = 1..t.wave /\ DOMAIN t.packs = 1..t.wave
    /\ \A s \in Seats : t.packs[t.wave][s].at = s
    /\ Unfilled(t)
    /\ \A s \in Seats \ t.picked : Private(t, s)

(* ... and one whose round w is to be opened.                              *)
Between(t, w) ==
    /\ t \in Row /\ t.status = "active" /\ t.passed = {} /\ t.theme \in Assignments /\ Apart(t)
    /\ DOMAIN t.deal = 1..(w - 1) /\ DOMAIN t.packs = 1..(w - 1)
    /\ Unfilled(t)

(* What opening rounds at t leads to.                                      *)
Goes(t, u) ==
    /\ u \in Wholes /\ Themed(u) /\ u.picked = {}
    /\ u.pool = t.pool /\ u.theme = t.theme
    /\ t \in Wholes => Conserved(t, u)
    /\ Spare(t) => Fits(u)

LEMMA BiggerOf ==
  ASSUME NEW a \in Nat, NEW b \in Nat
  PROVE  Max({a, b}) \in Nat /\ a <= Max({a, b}) /\ b <= Max({a, b})
<1>1. \E x \in {a, b} : \A y \in {a, b} : x >= y
  <2>1. CASE a >= b
    BY <2>1
  <2>2. CASE ~(a >= b)
    BY <2>2
  <2> QED BY <2>1, <2>2
<1>2. Max({a, b}) \in {a, b} /\ \A y \in {a, b} : Max({a, b}) >= y
  BY <1>1 DEF Max
<1> QED BY <1>2

LEMMA HoldsIs ==
  ASSUME themes \in [config.themes -> Theme], NEW t, t.theme \in Assignments,
         NEW s \in Seats, NEW c \in Names
  PROVE  /\ Holds(t, s, c) \in Nat
         /\ themes[t.theme[s]].main[c] \in Nat /\ themes[t.theme[s]].main[c] <= Holds(t, s, c)
         /\ themes[t.theme[s]].extra[c] \in Nat /\ themes[t.theme[s]].extra[c] <= Holds(t, s, c)
<1>1. t.theme[s] \in config.themes
  BY DEF Assignments
<1>2. themes[t.theme[s]].main \in Pool /\ themes[t.theme[s]].extra \in Pool
  BY <1>1 DEF Theme
<1>3. c \in MainNames \cup ExtraNames
  BY DEF Names
<1>4. themes[t.theme[s]].main[c] \in Nat /\ themes[t.theme[s]].extra[c] \in Nat
  BY <1>2, <1>3 DEF Pool
<1> QED BY <1>4, BiggerOf DEF Holds

(* What seats were given, over all rounds. *)
LEMMA GivenIs ==
  ASSUME config \in Tables, NEW t \in Row, NEW s \in Seats, NEW c \in Names
  PROVE  /\ Given(t, s, c) \in Nat /\ t.pool[s][c] \in Nat
         /\ [w \in DOMAIN t.deal |-> t.deal[w][s][c]] \in [DOMAIN t.deal -> Nat]
         /\ IsFiniteSet(DOMAIN t.deal)
<1>1. PICK D \in SUBSET (1..Waves) : t.deal \in [D -> [Seats -> Bag]]
  BY DEF Row
<1>2. IsFiniteSet(D) /\ DOMAIN t.deal = D
  BY <1>1, FiniteSets
<1> DEFINE fun == [w \in DOMAIN t.deal |-> t.deal[w][s][c]]
<1>3. fun \in [D -> Nat]
  BY <1>1 DEF Bag
<1> HIDE DEF fun
<1>4. SumFunction(fun) \in Nat
  BY <1>2, <1>3, SumsNat
<1>5. t.pool \in [Seats -> Bag]
  BY DEF Row
<1> QED BY <1>2, <1>3, <1>4, <1>5 DEF Given, fun, Bag

(* The start of a round, with nothing dealt yet. *)
Nothing == [o \in Seats |-> Empty]
NoPacks == [o \in Seats |-> [at |-> o, cards |-> Empty]]
Bared(t, w) ==
    [t EXCEPT !.wave = w, !.picked = {},
              !.deal = With(@, w, Nothing), !.packs = With(@, w, NoPacks)]

LEMMA WithIs ==
  ASSUME NEW w \in Nat \ {0}, NEW f, DOMAIN f = 1..(w - 1), NEW x
  PROVE  /\ DOMAIN With(f, w, x) = 1..w /\ With(f, w, x)[w] = x
         /\ \A v \in 1..(w - 1) : With(f, w, x)[v] = f[v]
<1>1. 1..(w - 1) \cup {w} = 1..w /\ w \notin 1..(w - 1)
  OBVIOUS
<1> QED BY <1>1 DEF With

LEMMA BaredWhole ==
  ASSUME config \in Tables, IsTheme, NEW w \in 1..Waves, NEW t, Between(t, w)
  PROVE  LET u == Bared(t, w)
         IN  /\ u \in Wholes /\ Themed(u) /\ u.picked = {} /\ u.wave = w
             /\ u.pool = t.pool /\ u.theme = t.theme /\ u.undealt = t.undealt
             /\ u.deal = With(t.deal, w, Nothing) /\ u.packs = With(t.packs, w, NoPacks)
             /\ u.status = "active"
<1> DEFINE u == Bared(t, w)
           deal == With(t.deal, w, Nothing)
           packs == With(t.packs, w, NoPacks)
<1>1. /\ t \in Row /\ t.status = "active" /\ t.passed = {} /\ t.theme \in Assignments /\ Apart(t)
      /\ DOMAIN t.deal = 1..(w - 1) /\ DOMAIN t.packs = 1..(w - 1) /\ Unfilled(t)
  BY DEF Between
<1>2. w \in Nat \ {0} /\ 1..w \in SUBSET (1..Waves) /\ w \in 1..w
  BY RoundsAre
<1>3. Empty \in Bag
  BY DEF Empty, Bag
<1>4. Nothing \in [Seats -> Bag] /\ NoPacks \in [Seats -> PackRow]
  BY <1>3 DEF Nothing, NoPacks, PackRow
<1>5. /\ DOMAIN deal = 1..w /\ deal[w] = Nothing /\ \A v \in 1..(w - 1) : deal[v] = t.deal[v]
      /\ DOMAIN packs = 1..w /\ packs[w] = NoPacks /\ \A v \in 1..(w - 1) : packs[v] = t.packs[v]
  BY <1>1, <1>2, WithIs
<1>6. deal \in [1..w -> [Seats -> Bag]] /\ packs \in [1..w -> [Seats -> PackRow]]
  <2>1. t.deal \in [1..(w - 1) -> [Seats -> Bag]]
    BY <1>1 DEF Row
  <2>2. t.packs \in [1..(w - 1) -> [Seats -> PackRow]]
    BY <1>1 DEF Row
  <2>3. \A v \in 1..w : v = w \/ v \in 1..(w - 1)
    BY <1>2
  <2>4. \A v \in 1..w : deal[v] \in [Seats -> Bag]
    BY <1>4, <1>5, <2>1, <2>3
  <2>5. \A v \in 1..w : packs[v] \in [Seats -> PackRow]
    BY <1>4, <1>5, <2>2, <2>3
  <2>6. deal = [v \in 1..w |-> deal[v]] /\ packs = [v \in 1..w |-> packs[v]]
    BY <1>5 DEF With
  <2> HIDE DEF deal, packs
  <2> QED BY <2>4, <2>5, <2>6
<1>7. u = [t EXCEPT !.wave = w, !.picked = {}, !.deal = deal, !.packs = packs]
  BY DEF Bared
<1> HIDE DEF u, deal, packs
<1>8. u \in Row
  <2>1. deal \in UNION {[D -> [Seats -> Bag]] : D \in SUBSET (1..Waves)}
    BY <1>2, <1>6
  <2>2. packs \in UNION {[D -> [Seats -> PackRow]] : D \in SUBSET (1..Waves)}
    BY <1>2, <1>6
  <2> QED BY <1>1, <1>7, <2>1, <2>2 DEF Row
<1>9. /\ u.packs = packs /\ u.deal = deal /\ u.wave = w /\ u.picked = {} /\ u.passed = {}
      /\ u.status = "active" /\ u.pool = t.pool /\ u.theme = t.theme /\ u.undealt = t.undealt
      /\ u.finished = t.finished
  BY <1>1, <1>7 DEF Row
<1>10. \A o \in Seats : packs[w][o].at = o /\ packs[w][o].cards = Empty /\ deal[w][o] = Empty
  BY <1>5 DEF NoPacks, Nothing
<1>11. Apart(u)
  <2> SUFFICES ASSUME NEW v \in 1..w, NEW o \in Seats, NEW q \in Seats,
                      packs[v][o].at = packs[v][q].at
               PROVE  o = q
    BY <1>5, <1>9 DEF Apart
  <2>1. CASE v = w
    BY <1>10, <2>1
  <2>2. CASE v # w
    <3>1. v \in 1..(w - 1)
      BY <1>2, <2>2
    <3> QED BY <1>1, <1>5, <3>1 DEF Apart
  <2> QED BY <2>1, <2>2
<1>12. u \in Wholes
  <2>1. Behind(u)
    BY <1>2, <1>5, <1>9 DEF Behind
  <2> QED BY <1>1, <1>2, <1>5, <1>8, <1>9, <1>11, <2>1, WholeAgain
<1>13. Themed(u)
  <2>1. Unfilled(u)
    BY <1>1, <1>9 DEF Unfilled, Count
  <2>2. ASSUME NEW s \in Seats PROVE Private(u, s)
    BY <1>9, <1>10 DEF Private, Uncapped, Empty
  <2> QED BY <1>5, <1>9, <1>10, <2>1, <2>2 DEF Themed
<1> QED BY <1>9, <1>12, <1>13 DEF u, deal, packs

LEMMA BaredIs ==
  ASSUME config \in Tables, IsTheme, NEW w \in 1..Waves, NEW t, Between(t, w)
  PROVE  Goes(t, Bared(t, w)) /\ Bared(t, w).wave = w
<1> DEFINE u == Bared(t, w)
<1>1. /\ u \in Wholes /\ Themed(u) /\ u.picked = {} /\ u.wave = w
      /\ u.pool = t.pool /\ u.theme = t.theme /\ u.undealt = t.undealt
      /\ u.deal = With(t.deal, w, Nothing) /\ u.packs = With(t.packs, w, NoPacks)
      /\ u.status = "active"
  BY BaredWhole
<1>2. DOMAIN t.deal = 1..(w - 1) /\ DOMAIN t.packs = 1..(w - 1) /\ t \in Row
  BY DEF Between
<1>3. w \in Nat \ {0} /\ 1..w \in SUBSET (1..Waves) /\ w \in 1..w /\ 1..(w - 1) = 1..w \ {w}
  BY RoundsAre
<1>4. /\ DOMAIN u.deal = 1..w /\ u.deal[w] = Nothing /\ \A v \in 1..(w - 1) : u.deal[v] = t.deal[v]
      /\ DOMAIN u.packs = 1..w /\ u.packs[w] = NoPacks
      /\ \A v \in 1..(w - 1) : u.packs[v] = t.packs[v]
  BY <1>1, <1>2, <1>3, WithIs
<1> HIDE DEF u
<1>5. ASSUME t \in Wholes, NEW c \in Names PROVE Balance(u, c) = Balance(t, c)
  <2> DEFINE E == DOMAIN u.packs
             D == DOMAIN t.packs
  <2>1. /\ CardRows(u) \in [E -> [Seats -> Bag]] /\ DealRows(u) \in [E -> [Seats -> Bag]]
        /\ w \in E /\ E \in SUBSET (1..Waves) /\ D = E \ {w}
    BY <1>1, <1>2, <1>3, <1>4, BalanceIs
  <2>2. Without(CardRows(t), CardRows(u), E, w) /\ Without(DealRows(t), DealRows(u), E, w)
    <3>1. DOMAIN CardRows(t) = D /\ DOMAIN DealRows(t) = D
      BY DEF CardRows, DealRows
    <3>2. \A v \in D : CardRows(u)[v] = CardRows(t)[v] /\ DealRows(u)[v] = DealRows(t)[v]
      BY <1>2, <1>3, <1>4 DEF CardRows, DealRows
    <3> HIDE DEF E, D
    <3> QED BY <2>1, <3>1, <3>2 DEF Without
  <2>3. CardRows(u)[w] = DealRows(u)[w]
    <3>1. \A o \in Seats : CardRows(u)[w][o] = Empty
      BY <1>3, <1>4 DEF CardRows, NoPacks
    <3>2. DealRows(u)[w] = Nothing
      BY <1>3, <1>4 DEF DealRows
    <3>3. CardRows(u)[w] \in [Seats -> Bag]
      BY <2>1
    <3> QED BY <3>1, <3>2, <3>3 DEF Nothing
  <2> HIDE DEF E, D
  <2>5. AllOf(CardRows(u), c) = AllOf(CardRows(t), c) + WaveOf(CardRows(u), w, c)
    BY <2>1, <2>2, AllAdd
  <2>6. AllOf(DealRows(u), c) = AllOf(DealRows(t), c) + WaveOf(DealRows(u), w, c)
    BY <2>1, <2>2, AllAdd
  <2>7. WaveOf(CardRows(u), w, c) = WaveOf(DealRows(u), w, c)
    BY <2>3 DEF WaveOf
  <2>8. WaveOf(DealRows(u), w, c) \in Nat
    BY <2>1, AllNat
  <2>9. Pooled(u, c) = Pooled(t, c)
    BY <1>1 DEF Pooled
  <2>10. /\ Unpicked(t, c) = AllOf(CardRows(t), c) /\ Unpicked(u, c) = AllOf(CardRows(u), c)
         /\ AllOf(CardRows(t), c) \in Nat /\ AllOf(DealRows(t), c) \in Nat /\ Pooled(t, c) \in Nat
         /\ Occurs(t.undealt, c) \in Nat
    BY <1>1, <1>5, BalanceIs
  <2> QED BY <1>1, <2>5, <2>6, <2>7, <2>8, <2>9, <2>10 DEF Balance
<1>6. ASSUME t \in Wholes PROVE Conserved(t, u)
  <2>1. ASSUME NEW c \in Names
        PROVE  Balance(u, c) <= Balance(t, c) /\ (~Burn => Balance(u, c) = Balance(t, c))
    <3>1. Balance(u, c) = Balance(t, c) /\ Balance(t, c) \in Int
      BY <1>5, <1>6, BalanceIs
    <3> QED BY <3>1
  <2> QED BY <2>1 DEF Conserved
<1>7. ASSUME NEW s \in Seats, NEW c \in Names PROVE Shown(u, s, c) = Spent(t, s, c)
  <2>1. u.packs[u.wave][s].cards[c] = 0 /\ u.deal[w][s][c] = 0
    BY <1>1, <1>4 DEF NoPacks, Nothing, Empty
  <2>2. t.pool[s][c] \in Nat /\ Given(t, s, c) \in Nat
    BY <1>2, GivenIs
  <2>3. CASE ~Burn
    BY <1>1, <2>1, <2>2, <2>3 DEF Shown, Spent
  <2>4. CASE Burn
    <3> DEFINE fun == [v \in DOMAIN t.deal |-> t.deal[v][s][c]]
               gun == [v \in DOMAIN u.deal |-> u.deal[v][s][c]]
    <3>1. gun \in [1..w -> Nat] /\ IsFiniteSet(1..w)
      <4>1. u \in Row
        BY <1>1, PartsOf
      <4> QED BY <1>4, <4>1, GivenIs
    <3>2. gun[w] = 0
      BY <1>3, <1>4, <2>1
    <3>3. Without(fun, gun, 1..w, w)
      BY <1>2, <1>3, <1>4 DEF Without
    <3>4. Given(u, s, c) = SumFunction(gun) /\ Given(t, s, c) = SumFunction(fun)
      BY DEF Given
    <3> HIDE DEF fun, gun
    <3>5. SumFunction(gun) = SumFunction(fun) + gun[w]
      <4>1. Adds(fun, gun, 1..w, w)
        BY <1>3, <3>1, <3>3 DEF Adds
      <4> QED BY <4>1, SumsAdd
    <3>6. Given(u, s, c) = Given(t, s, c)
      BY <2>2, <3>2, <3>4, <3>5
    <3> QED BY <2>4, <3>6 DEF Shown, Spent
  <2> QED BY <2>3, <2>4
<1>8. ASSUME Spare(t) PROVE Fits(u)
  BY <1>1, <1>7, <1>8 DEF Spare, Fits, Holds
<1> QED BY <1>1, <1>6, <1>8 DEF Goes, u

(* What is dealt to one seat. *)
DealWith(t, s, pack) == [t.deal EXCEPT ![t.wave][s] = pack]

LEMMA DealWithIs ==
  ASSUME config \in Tables, NEW t \in Wholes, Running(t), NEW s \in Seats, NEW pack \in Bag
  PROVE  LET deal == DealWith(t, s, pack)
         IN  /\ DOMAIN deal = DOMAIN t.deal /\ deal \in [DOMAIN t.deal -> [Seats -> Bag]]
             /\ deal \in UNION {[D -> [Seats -> Bag]] : D \in SUBSET (1..Waves)}
             /\ \A w \in DOMAIN deal, q \in Seats :
                   deal[w][q] = IF w = t.wave /\ q = s THEN pack ELSE t.deal[w][q]
<1> DEFINE deal == DealWith(t, s, pack)
           row == [t.deal[t.wave] EXCEPT ![s] = pack]
<1>1. t.wave \in DOMAIN t.deal /\ t.deal \in [DOMAIN t.deal -> [Seats -> Bag]]
      /\ DOMAIN t.deal \subseteq 1..Waves
  BY PartsOf
<1>2. t.deal[t.wave] \in [Seats -> Bag]
  BY <1>1
<1>3. row \in [Seats -> Bag] /\ \A q \in Seats : row[q] = IF q = s THEN pack ELSE t.deal[t.wave][q]
  BY <1>2
<1>4. deal = [t.deal EXCEPT ![t.wave] = row]
  BY DEF DealWith
<1> HIDE DEF row, deal
<1>5. /\ DOMAIN deal = DOMAIN t.deal /\ deal \in [DOMAIN t.deal -> [Seats -> Bag]]
      /\ \A w \in DOMAIN deal : deal[w] = IF w = t.wave THEN row ELSE t.deal[w]
  BY <1>1, <1>3, <1>4
<1>6. \A w \in DOMAIN deal, q \in Seats :
         deal[w][q] = IF w = t.wave /\ q = s THEN pack ELSE t.deal[w][q]
  BY <1>3, <1>5
<1>7. deal \in UNION {[D -> [Seats -> Bag]] : D \in SUBSET (1..Waves)}
  BY <1>1, <1>5
<1> QED BY <1>5, <1>6, <1>7 DEF deal

(* A pack that a theme may give. *)
LEMMA UsedIs ==
  ASSUME config \in Tables, NEW t \in Wholes, Themed(t), NEW s \in Seats, NEW c \in Names
  PROVE  /\ Used(t, s, c) \in Nat /\ t.deal[t.wave][s][c] \in Nat
         /\ Burn => Given(t, s, c) = Used(t, s, c) + t.deal[t.wave][s][c]
         /\ ~Burn => Used(t, s, c) = t.pool[s][c]
<1>1. /\ t \in Row /\ t.wave \in 1..Waves /\ t.deal \in [DOMAIN t.deal -> [Seats -> Bag]]
      /\ DOMAIN t.deal = 1..t.wave
  BY PartsOf DEF Themed
<1>2. /\ t.wave \in Nat \ {0} /\ t.wave \in 1..t.wave /\ 1..(t.wave - 1) = 1..t.wave \ {t.wave}
      /\ IsFiniteSet(1..(t.wave - 1))
  <2>1. t.wave \in Nat \ {0}
    BY <1>1, RoundsAre
  <2>2. t.wave \in 1..t.wave /\ 1..(t.wave - 1) = 1..t.wave \ {t.wave}
    BY <2>1
  <2>3. IsFiniteSet(1..(t.wave - 1))
    BY <2>1, FS_Interval
  <2> QED BY <2>1, <2>2, <2>3
<1> DEFINE gun == [w \in DOMAIN t.deal |-> t.deal[w][s][c]]
           fun == [w \in 1..(t.wave - 1) |-> t.deal[w][s][c]]
<1>3. gun \in [1..t.wave -> Nat] /\ IsFiniteSet(1..t.wave)
  BY <1>1, GivenIs
<1>4. gun[t.wave] = t.deal[t.wave][s][c]
  BY <1>1, <1>2
<1>5. fun \in [1..(t.wave - 1) -> Nat]
  <2>1. \A w \in 1..(t.wave - 1) : gun[w] = t.deal[w][s][c] /\ gun[w] \in Nat
    BY <1>1, <1>2, <1>3
  <2> HIDE DEF gun
  <2> QED BY <2>1
<1>6. Without(fun, gun, 1..t.wave, t.wave)
  BY <1>1, <1>2 DEF Without
<1>7. Given(t, s, c) = SumFunction(gun)
  BY DEF Given
<1>8. Burn => Used(t, s, c) = SumFunction(fun)
  BY DEF Used
<1> HIDE DEF gun, fun
<1>9. SumFunction(gun) = SumFunction(fun) + gun[t.wave]
  <2>1. Adds(fun, gun, 1..t.wave, t.wave)
    BY <1>2, <1>3, <1>6 DEF Adds
  <2> QED BY <2>1, SumsAdd
<1>10. SumFunction(fun) \in Nat
  BY <1>2, <1>5, SumsNat
<1>11. t.pool[s][c] \in Nat
  BY <1>1, GivenIs
<1>12. gun[t.wave] \in Nat
  BY <1>2, <1>3
<1> QED BY <1>4, <1>7, <1>8, <1>9, <1>10, <1>11, <1>12 DEF Used

LEMMA PacksForIs ==
  ASSUME config \in Tables, IsTheme, themes \in [config.themes -> Theme],
         NEW t \in Wholes, Themed(t), NEW s \in Seats, NEW pack \in PacksFor(t, s)
  PROVE  /\ pack \in Bag /\ Uncapped(t, s, pack)
         /\ pack # Empty => s \notin t.finished
         /\ \A c \in Names : pack[c] = 0 \/ (pack[c] = 1 /\ Used(t, s, c) < Holds(t, s, c))
<1> DEFINE names == IF s \in t.finished THEN {} ELSE Candidates(t, s)
<1>1. PICK chosen \in kSubset(Least(PackSize, Cardinality(names)), names) :
         pack = [c \in Names |-> IF c \in chosen THEN 1 ELSE 0]
  BY DEF PacksFor
<1>2. chosen \subseteq names
  BY DEF kSubset
<1>3. pack \in Bag
  BY <1>1 DEF Bag
<1>4. ASSUME NEW c \in Names, pack[c] > 0
      PROVE  s \notin t.finished /\ c \in Candidates(t, s)
  <2>1. c \in chosen
    BY <1>1, <1>4
  <2> QED BY <1>2, <2>1
<1>5. pack # Empty => s \notin t.finished
  <2>1. ASSUME pack # Empty PROVE \E c \in Names : pack[c] > 0
    <3>1. PICK c \in Names : pack[c] # 0
      BY <1>1, <2>1 DEF Empty
    <3>2. pack[c] = 1
      BY <1>1, <3>1
    <3> QED BY <3>2
  <2> QED BY <1>4, <2>1
<1>6. ASSUME NEW c \in Names, pack[c] # 0 PROVE pack[c] = 1 /\ Used(t, s, c) < Holds(t, s, c)
  <2>1. pack[c] = 1
    BY <1>1, <1>6
  <2>2. themes[t.theme[s]][Phase(t.wave)][c] > Used(t, s, c)
    BY <1>4, <2>1 DEF Candidates
  <2>3. t.theme \in Assignments
    BY PartsOf DEF Themed, Running
  <2>6. /\ Holds(t, s, c) \in Nat
        /\ themes[t.theme[s]].main[c] \in Nat /\ themes[t.theme[s]].main[c] <= Holds(t, s, c)
        /\ themes[t.theme[s]].extra[c] \in Nat /\ themes[t.theme[s]].extra[c] <= Holds(t, s, c)
    BY <2>3, HoldsIs
  <2>8. Phase(t.wave) \in {"main", "extra"}
    BY RoundsAre
  <2>9. Used(t, s, c) \in Nat
    BY UsedIs
  <2>10. CASE Phase(t.wave) = "main"
    BY <2>1, <2>2, <2>6, <2>9, <2>10
  <2>11. CASE Phase(t.wave) = "extra"
    BY <2>1, <2>2, <2>6, <2>9, <2>11
  <2> QED BY <2>8, <2>10, <2>11
<1>7. Uncapped(t, s, pack)
  BY <1>4 DEF Uncapped, Candidates
<1> QED BY <1>3, <1>5, <1>6, <1>7

(* A pack is dealt where there was what was dealt before. *)
LEMMA PackDealt ==
  ASSUME config \in Tables, NEW t \in Wholes, Running(t), NEW u \in Wholes, NEW s \in Seats,
         NEW pack \in Bag, u.packs = PacksWith(t, s, pack), u.deal = DealWith(t, s, pack),
         t.packs[t.wave][s].cards = t.deal[t.wave][s], NEW c \in Names
  PROVE  Unpicked(u, c) - AllOf(DealRows(u), c) = Unpicked(t, c) - AllOf(DealRows(t), c)
<1> DEFINE D == DOMAIN t.packs
           old == DealRows(t)
           new == DealRows(u)
           w == t.wave
<1>1. /\ DOMAIN u.packs = D
      /\ \A v \in D, q \in Seats :
            u.packs[v][q].cards = IF v = t.wave /\ q = s THEN pack ELSE t.packs[v][q].cards
  BY PackChange
<1>2. D \in SUBSET (1..Waves) /\ w \in D /\ D \subseteq DOMAIN t.deal
  BY PartsOf
<1>3. old \in [D -> [Seats -> Bag]] /\ new \in [D -> [Seats -> Bag]]
  BY <1>1, BalanceIs
<1>4. \A v \in D, q \in Seats : u.deal[v][q] = IF v = t.wave /\ q = s THEN pack ELSE t.deal[v][q]
  BY <1>2, DealWithIs
<1>5. OnlyThere(old, new, D, w, s) /\ new[w][s] = pack /\ old[w][s] = t.deal[t.wave][s]
  BY <1>1, <1>2, <1>4 DEF DealRows, OnlyThere
<1>6. pack[c] \in Nat
  BY DEF Bag
<1> HIDE DEF D, old, new, w
<1>7. AllOf(new, c) = AllOf(old, c) + new[w][s][c] - old[w][s][c]
  BY <1>2, <1>3, <1>5, AllChange
<1>8. Unpicked(u, c) = Unpicked(t, c) + pack[c] - t.packs[t.wave][s].cards[c]
  <2> DEFINE before == CardRows(t)
             after == CardRows(u)
  <2>1. before \in [D -> [Seats -> Bag]] /\ after \in [D -> [Seats -> Bag]]
    BY <1>1, BalanceIs DEF D
  <2>2. /\ OnlyThere(before, after, D, w, s)
        /\ after[w][s] = pack /\ before[w][s] = t.packs[t.wave][s].cards
    BY <1>1, <1>2 DEF CardRows, OnlyThere, D, w
  <2>3. Unpicked(t, c) = AllOf(before, c) /\ Unpicked(u, c) = AllOf(after, c)
    BY BalanceIs
  <2> HIDE DEF before, after
  <2>4. AllOf(after, c) = AllOf(before, c) + after[w][s][c] - before[w][s][c]
    BY <1>2, <2>1, <2>2, AllChange
  <2> QED BY <2>2, <2>3, <2>4
<1>9. /\ Unpicked(t, c) \in Nat /\ AllOf(old, c) \in Nat /\ t.deal[t.wave][s][c] \in Nat
  <2>1. t.deal[t.wave][s] \in Bag
    BY <1>2, PartsOf DEF w
  <2> QED BY <2>1, BalanceIs DEF old, Bag
<1> QED BY <1>5, <1>6, <1>7, <1>8, <1>9 DEF old, new

LEMMA DealPackIs ==
  ASSUME config \in Tables, IsTheme, themes \in [config.themes -> Theme],
         NEW t \in Wholes, Themed(t), t.picked = {}, NEW s \in Seats, NEW u \in DealPack(t, s)
  PROVE  /\ u \in Wholes /\ Themed(u) /\ u.picked = {} /\ u.wave = t.wave
         /\ u.pool = t.pool /\ u.theme = t.theme /\ Conserved(t, u)
         /\ Fits(t) => Fits(u)
<1>1. PICK pack \in PacksFor(t, s) :
         u = [t EXCEPT !.deal[t.wave][s] = pack,
                       !.packs[t.wave][s].cards = pack,
                       !.finished = IF (Phase(t.wave) = "extra" \/ ExtraSize = 0) /\ pack = Empty
                                    THEN @ \cup {s} ELSE @]
  BY DEF DealPack
<1>2. /\ pack \in Bag /\ Uncapped(t, s, pack) /\ (pack # Empty => s \notin t.finished)
      /\ \A c \in Names : pack[c] = 0 \/ (pack[c] = 1 /\ Used(t, s, c) < Holds(t, s, c))
  BY PacksForIs
<1> DEFINE deal == DealWith(t, s, pack)
           packs == PacksWith(t, s, pack)
           finished == IF (Phase(t.wave) = "extra" \/ ExtraSize = 0) /\ pack = Empty
                       THEN t.finished \cup {s} ELSE t.finished
<1>3. u = [t EXCEPT !.deal = deal, !.packs = packs, !.finished = finished]
  <2>1. t \in Row
    BY PartsOf
  <2> QED BY <1>1, <2>1 DEF Row, DealWith, PacksWith
<1>4. /\ t \in Row /\ t.status = "active" /\ Running(t) /\ t.passed = {}
      /\ DOMAIN t.deal = 1..t.wave /\ DOMAIN t.packs = 1..t.wave
      /\ t.wave \in 1..Waves /\ t.finished \subseteq Seats /\ t.theme \in Assignments
      /\ Behind(t) /\ Apart(t) /\ t.wave \in DOMAIN t.packs
  BY PartsOf DEF Themed, Running
<1>5. /\ DOMAIN deal = DOMAIN t.deal /\ deal \in [DOMAIN t.deal -> [Seats -> Bag]]
      /\ deal \in UNION {[D -> [Seats -> Bag]] : D \in SUBSET (1..Waves)}
      /\ \A w \in DOMAIN deal, q \in Seats :
            deal[w][q] = IF w = t.wave /\ q = s THEN pack ELSE t.deal[w][q]
  BY <1>2, <1>4, DealWithIs
<1>6. /\ DOMAIN packs = DOMAIN t.packs
      /\ packs \in UNION {[D -> [Seats -> PackRow]] : D \in SUBSET (1..Waves)}
      /\ \A w \in DOMAIN packs, q \in Seats :
            /\ packs[w][q].at = t.packs[w][q].at
            /\ packs[w][q].cards = IF w = t.wave /\ q = s THEN pack ELSE t.packs[w][q].cards
  BY <1>2, <1>4, PackChange
<1>7. /\ finished \subseteq Seats /\ t.finished \subseteq finished
      /\ \A q \in finished : q \in t.finished \/ (q = s /\ pack = Empty)
  BY <1>4
<1> HIDE DEF deal, packs, finished
<1>8. u \in Row
  BY <1>3, <1>4, <1>5, <1>6, <1>7 DEF Row
<1>9. /\ u.deal = deal /\ u.packs = packs /\ u.finished = finished /\ u.wave = t.wave
      /\ u.pool = t.pool /\ u.theme = t.theme /\ u.picked = t.picked /\ u.passed = t.passed
      /\ u.status = "active" /\ u.undealt = t.undealt
  BY <1>3, <1>4 DEF Row
<1>10. u \in Wholes
  <2>1. Apart(u)
    BY <1>4, <1>6, <1>9 DEF Apart
  <2>2. Behind(u)
    BY <1>4, <1>6, <1>9 DEF Behind
  <2> QED BY <1>4, <1>5, <1>6, <1>8, <1>9, <2>1, <2>2, WholeAgain
<1>11. Themed(u)
  <2>1. \A q \in Seats : u.packs[u.wave][q].at = q
    BY <1>4, <1>6, <1>9 DEF Themed
  <2>2. Unfilled(u)
    BY <1>7, <1>9 DEF Themed, Unfilled, Count
  <2>3. ASSUME NEW q \in Seats PROVE Private(u, q)
    <3>1. Private(t, q)
      BY DEF Themed
    <3>2. \A p : Uncapped(u, q, p) <=> Uncapped(t, q, p)
      BY <1>9 DEF Uncapped, Capped
    <3>3. CASE q = s
      <4>1. u.packs[u.wave][q].cards = pack /\ u.deal[u.wave][q] = pack
        BY <1>4, <1>5, <1>6, <1>9, <3>3
      <4>2. pack # Empty => q \notin finished
        BY <1>2, <1>7, <3>3
      <4> QED BY <1>2, <1>9, <3>2, <3>3, <4>1, <4>2 DEF Private
    <3>4. CASE q # s
      <4>1. /\ u.packs[u.wave][q].cards = t.packs[t.wave][q].cards
            /\ u.deal[u.wave][q] = t.deal[t.wave][q]
        BY <1>4, <1>5, <1>6, <1>9, <3>4
      <4>2. q \notin t.finished => q \notin finished
        BY <1>7, <3>4
      <4> QED BY <1>9, <3>1, <3>2, <4>1, <4>2 DEF Private
    <3> QED BY <3>3, <3>4
  <2> QED BY <1>4, <1>5, <1>6, <1>9, <2>1, <2>2, <2>3 DEF Themed
<1>12. ASSUME NEW c \in Names PROVE Balance(u, c) = Balance(t, c)
  <2>1. t.packs[t.wave][s].cards = t.deal[t.wave][s]
    BY DEF Themed, Private
  <2>2. Unpicked(u, c) - AllOf(DealRows(u), c) = Unpicked(t, c) - AllOf(DealRows(t), c)
    BY <1>2, <1>4, <1>9, <1>10, <2>1, PackDealt DEF deal, packs
  <2>3. Pooled(u, c) = Pooled(t, c) /\ u.undealt = t.undealt
    BY <1>9 DEF Pooled
  <2>4. /\ Unpicked(t, c) = AllOf(CardRows(t), c) /\ Unpicked(u, c) = AllOf(CardRows(u), c)
        /\ AllOf(CardRows(t), c) \in Nat /\ AllOf(DealRows(t), c) \in Nat /\ Pooled(t, c) \in Nat
        /\ AllOf(CardRows(u), c) \in Nat /\ AllOf(DealRows(u), c) \in Nat
        /\ Occurs(t.undealt, c) \in Nat
    BY <1>10, BalanceIs
  <2> QED BY <2>2, <2>3, <2>4 DEF Balance
<1>13. Conserved(t, u)
  <2>1. ASSUME NEW c \in Names
        PROVE  Balance(u, c) <= Balance(t, c) /\ (~Burn => Balance(u, c) = Balance(t, c))
    <3>1. Balance(u, c) = Balance(t, c) /\ Balance(t, c) \in Int
      BY <1>12, BalanceIs
    <3> QED BY <3>1
  <2> QED BY <2>1 DEF Conserved
<1>14. ASSUME Fits(t), NEW q \in Seats, NEW c \in Names PROVE Shown(u, q, c) <= Holds(u, q, c)
  <2>1. Shown(t, q, c) <= Holds(t, q, c) /\ Holds(u, q, c) = Holds(t, q, c)
    BY <1>9, <1>14 DEF Fits, Holds
  <2>2. /\ Used(t, q, c) \in Nat /\ t.deal[t.wave][q][c] \in Nat
        /\ Burn => Given(t, q, c) = Used(t, q, c) + t.deal[t.wave][q][c]
        /\ ~Burn => Used(t, q, c) = t.pool[q][c]
    BY UsedIs
  <2>3. /\ Used(u, q, c) \in Nat
        /\ Burn => Given(u, q, c) = Used(u, q, c) + u.deal[u.wave][q][c]
    BY <1>10, <1>11, UsedIs
  <2>4. Used(u, q, c) = Used(t, q, c)
    <3>1. \A v \in 1..(t.wave - 1) : u.deal[v][q][c] = t.deal[v][q][c]
      <4>1. ASSUME NEW v \in 1..(t.wave - 1) PROVE v \in 1..t.wave /\ v # t.wave
        BY <1>4, RoundsAre
      <4> QED BY <1>4, <1>5, <1>9, <4>1
    <3> QED BY <1>9, <3>1 DEF Used
  <2>5. t.packs[t.wave][q].cards = t.deal[t.wave][q] /\ u.packs[u.wave][q].cards = u.deal[u.wave][q]
    BY <1>9, <1>11 DEF Themed, Private
  <2>6. Shown(t, q, c) = Used(t, q, c) + t.deal[t.wave][q][c]
    BY <2>2, <2>5 DEF Shown
  <2>7. Shown(u, q, c) = Used(t, q, c) + u.deal[u.wave][q][c]
    BY <1>9, <2>2, <2>3, <2>4, <2>5 DEF Shown
  <2>8. u.deal[u.wave][q] = IF q = s THEN pack ELSE t.deal[t.wave][q]
    BY <1>4, <1>5, <1>9
  <2>9. CASE q # s
    BY <2>1, <2>6, <2>7, <2>8, <2>9
  <2>10. CASE q = s
    <3> DEFINE x == Used(t, s, c)
               h == Holds(t, s, c)
    <3>1. h \in Nat
      <4>1. t.theme \in Assignments
        BY PartsOf DEF Themed, Running
      <4> QED BY <4>1, HoldsIs
    <3>2. x \in Nat /\ x + t.deal[t.wave][s][c] <= h /\ t.deal[t.wave][s][c] \in Nat
      BY <2>1, <2>2, <2>6, <2>10
    <3>3. pack[c] = 0 \/ (pack[c] = 1 /\ x < h)
      BY <1>2
    <3>4. Shown(u, q, c) = x + pack[c] /\ Holds(u, q, c) = h
      BY <2>1, <2>7, <2>8, <2>10
    <3> HIDE DEF x, h
    <3> QED BY <3>1, <3>2, <3>3, <3>4
  <2> QED BY <2>9, <2>10
<1> QED BY <1>9, <1>10, <1>11, <1>13, <1>14 DEF Fits

LEMMA ConservedOn ==
  ASSUME config \in Tables, NEW t \in Wholes, NEW u \in Wholes, NEW v \in Wholes,
         Conserved(t, u), Conserved(u, v)
  PROVE  Conserved(t, v)
<1>1. ASSUME NEW c \in Names
      PROVE  Balance(v, c) <= Balance(t, c) /\ (~Burn => Balance(v, c) = Balance(t, c))
  <2>1. Balance(t, c) \in Int /\ Balance(u, c) \in Int /\ Balance(v, c) \in Int
    BY BalanceIs
  <2> QED BY <2>1 DEF Conserved
<1> QED BY <1>1 DEF Conserved

(* The tables with round w open that t leads to. *)
Opened(t, w) == {u \in Wholes : Goes(t, u) /\ u.wave = w}
DealAll(S, s) == UNION {DealPack(u, s) : u \in S}

LEMMA DealAllIs ==
  ASSUME config \in Tables, IsTheme, themes \in [config.themes -> Theme],
         NEW t, NEW w, NEW S \in SUBSET Opened(t, w), NEW s \in Seats
  PROVE  DealAll(S, s) \in SUBSET Opened(t, w)
<1>1. ASSUME NEW v \in DealAll(S, s) PROVE v \in Opened(t, w)
  <2>1. PICK u \in S : v \in DealPack(u, s)
    BY DEF DealAll
  <2>2. u \in Wholes /\ Goes(t, u) /\ u.wave = w
    BY DEF Opened
  <2>3. Themed(u) /\ u.picked = {} /\ u.pool = t.pool /\ u.theme = t.theme
    BY <2>2 DEF Goes
  <2>4. /\ v \in Wholes /\ Themed(v) /\ v.picked = {} /\ v.wave = u.wave
        /\ v.pool = u.pool /\ v.theme = u.theme /\ Conserved(u, v)
        /\ Fits(u) => Fits(v)
    BY <2>1, <2>2, <2>3, DealPackIs
  <2>5. t \in Wholes => Conserved(t, v)
    BY <2>2, <2>4, ConservedOn DEF Goes
  <2> QED BY <2>2, <2>3, <2>4, <2>5 DEF Opened, Goes
<1> QED BY <1>1

LEMMA OpenRoundIs ==
  ASSUME config \in Tables, IsTheme, themes \in [config.themes -> Theme],
         NEW w \in 1..Waves, NEW t, Between(t, w)
  PROVE  OpenRound(t, w) \in SUBSET Opened(t, w)
<1> DEFINE X == SUBSET Opened(t, w)
           start == {Bared(t, w)}
           G == [p \in (1..N) \X X |-> DealAll(p[2], Joined[p[1]])]
<1>1. start \in X
  BY BaredIs DEF Opened, Goes
<1>2. N \in Nat /\ Joined \in [1..N -> Seats]
  BY ConfigIs
<1>3. \A i \in 1..N, S \in X : DealAll(S, Joined[i]) \in X
  BY <1>2, DealAllIs
<1>4. \A i \in 1..N, S \in X : G[<<i, S>>] = DealAll(S, Joined[i])
  <2> HIDE DEF X
  <2> QED OBVIOUS
<1> HIDE DEF G, X, start
<1>5. PICK f : Follows(f, start, G, N, X)
  <2>1. StepsIn(G, N, X)
    BY <1>3, <1>4 DEF StepsIn
  <2> QED BY <1>1, <1>2, <2>1, Recursion
<1>6. f \in [0..N -> X] /\ f[0] = start /\ \A i \in 1..N : f[i] = DealAll(f[i - 1], Joined[i])
  <2>1. f \in [0..N -> X] /\ f[0] = start /\ \A i \in 1..N : f[i] = G[<<i, f[i - 1]>>]
    BY <1>5 DEF Follows
  <2>2. ASSUME NEW i \in 1..N PROVE f[i] = DealAll(f[i - 1], Joined[i])
    <3>1. i - 1 \in 0..N
      BY <1>2
    <3> QED BY <1>4, <2>1, <3>1
  <2> QED BY <2>1, <2>2
<1> DEFINE dealt == CHOOSE dealt : dealt =
              [i \in 0..N |-> IF i = 0 THEN {Bared(t, w)}
                              ELSE UNION {DealPack(u, Joined[i]) : u \in dealt[i - 1]}]
<1>7. dealt = [i \in 0..N |-> IF i = 0 THEN start ELSE DealAll(dealt[i - 1], Joined[i])]
  <2>1. \A i \in 0..N : f[i] = IF i = 0 THEN start ELSE DealAll(f[i - 1], Joined[i])
    BY <1>2, <1>6
  <2>2. f = [i \in 0..N |-> IF i = 0 THEN start ELSE DealAll(f[i - 1], Joined[i])]
    BY <1>6, <2>1
  <2>3. \E g : g = [i \in 0..N |-> IF i = 0 THEN start ELSE DealAll(g[i - 1], Joined[i])]
    BY <2>2
  <2> QED BY <2>3 DEF start, DealAll
<1>8. OpenRound(t, w) = dealt[N]
  BY DEF OpenRound, Bared, Nothing, NoPacks
<1> HIDE DEF dealt
<1> DEFINE T == {i \in Nat : i <= N => dealt[i] \in X}
<1>9. 0 \in T
  BY <1>1, <1>2, <1>7
<1>10. ASSUME NEW i \in Nat, i \in T PROVE i + 1 \in T
  <2> SUFFICES ASSUME i + 1 <= N PROVE dealt[i + 1] \in X
    OBVIOUS
  <2> DEFINE j == i + 1
  <2>1. j \in 1..N /\ j \in 0..N /\ j # 0 /\ j - 1 = i /\ dealt[i] \in X
    BY <1>2, <1>10
  <2> HIDE DEF j
  <2>2. dealt[j] = DealAll(dealt[i], Joined[j])
    BY <1>7, <2>1
  <2> QED BY <1>3, <2>1, <2>2 DEF j
<1> HIDE DEF T
<1>11. N \in T
  BY <1>2, <1>9, <1>10, Induction
<1> QED BY <1>2, <1>8, <1>11 DEF T, X

(* Somebody can go on with a running draft: the step waits for a seat.     *)
Ready(t) == t.status = "active" => Waiting(t) # {} /\ (IsTheme => Themed(t))

(* In a round of a theme, the step waits for who was dealt a pack and has   *)
(* not picked; any card of the pack may be taken.                          *)
LEMMA ThemedWaits ==
  ASSUME config \in Tables, IsTheme, NEW t \in Wholes, Themed(t), NEW s \in Seats
  PROVE  /\ s \in Waiting(t) <=> s \in DealtTo(t) \ t.picked
         /\ s \in Waiting(t) => Legal(t, s) = InPack(t, s) /\ InPack(t, s) # {}
<1>1. /\ Running(t) /\ t.wave \in 1..Waves /\ t.deal \in [DOMAIN t.deal -> [Seats -> Bag]]
      /\ t.wave \in DOMAIN t.deal /\ DOMAIN t.packs \subseteq DOMAIN t.deal
      /\ t.finished \subseteq Seats
  BY PartsOf DEF Themed, Running
<1>2. PacksAt(t, s) = IF t.packs[t.wave][s].cards # Empty THEN {s} ELSE {}
  BY DEF Themed, PacksAt
<1>3. ASSUME s \notin t.picked
      PROVE  /\ t.packs[t.wave][s].cards = t.deal[t.wave][s]
             /\ t.deal[t.wave][s] # Empty => s \notin t.finished
             /\ Uncapped(t, s, t.deal[t.wave][s])
  BY <1>3 DEF Themed, Private
<1>4. s \in Drafting(t) <=> s \notin t.finished
  BY DEF Themed, Unfilled, Drafting, Target
<1>5. s \in Waiting(t) <=> s \in DealtTo(t) \ t.picked
  <2>1. Acted(t) = t.picked
    BY DEF Acted, Themed
  <2>2. s \in Waiting(t) <=> s \in Drafting(t) /\ s \notin t.picked /\ PacksAt(t, s) # {}
    BY <2>1 DEF Waiting
  <2>3. s \in DealtTo(t) <=> t.deal[t.wave][s] # Empty
    BY DEF DealtTo
  <2> QED BY <1>2, <1>3, <1>4, <2>2, <2>3
<1>6. ASSUME s \in Waiting(t) PROVE Legal(t, s) = InPack(t, s) /\ InPack(t, s) # {}
  <2>1. PacksAt(t, s) # {} /\ s \notin t.picked
    BY <1>5, <1>6 DEF Waiting
  <2>2. /\ PackAt(t, s) \in Seats /\ t.packs[t.wave][PackAt(t, s)].at = s
        /\ InPack(t, s) = {c \in Names : t.packs[t.wave][PackAt(t, s)].cards[c] > 0}
    BY <1>1, <2>1, PackInFront
  <2>3. PackAt(t, s) = s
    BY <2>2 DEF Themed
  <2> DEFINE pack == t.deal[t.wave][s]
  <2>4. InPack(t, s) = {c \in Names : pack[c] > 0}
    BY <1>3, <2>1, <2>2, <2>3
  <2>5. pack \in Bag /\ pack # Empty
    BY <1>1, <1>5, <1>6 DEF DealtTo
  <2>6. Uncapped(t, s, pack)
    BY <1>3, <2>1
  <2> HIDE DEF pack
  <2>7. PICK c \in Names : pack[c] # 0
    BY <2>5 DEF Bag, Empty
  <2>8. pack[c] > 0
    BY <2>5, <2>7 DEF Bag
  <2> QED BY <2>4, <2>6, <2>7, <2>8 DEF Uncapped, Legal
<1> QED BY <1>5, <1>6

LEMMA FitsSpare ==
  ASSUME config \in Tables, themes \in [config.themes -> Theme], IsTheme,
         NEW t \in Wholes, Running(t), Fits(t)
  PROVE  Spare(t)
<1>1. /\ t \in Row /\ t.wave \in DOMAIN t.packs /\ t.packs \in [DOMAIN t.packs -> [Seats -> PackRow]]
      /\ t.theme \in Assignments
  BY PartsOf
<1>2. ASSUME NEW s \in Seats, NEW c \in Names PROVE Spent(t, s, c) <= Holds(t, s, c)
  <2>1. Given(t, s, c) \in Nat /\ t.pool[s][c] \in Nat
    BY <1>1, GivenIs
  <2>2. t.packs[t.wave][s].cards \in Bag
    BY <1>1 DEF PackRow
  <2>3. t.packs[t.wave][s].cards[c] \in Nat
    BY <2>2 DEF Bag
  <2>4. Holds(t, s, c) \in Nat
    BY <1>1, HoldsIs
  <2>5. Shown(t, s, c) <= Holds(t, s, c)
    BY DEF Fits
  <2> QED BY <2>1, <2>3, <2>4, <2>5 DEF Spent, Shown
<1> QED BY <1>2 DEF Spare

(* The tables when rounds up to v are open: those after a round that dealt  *)
(* nothing are at v.                                                       *)
Reached(t, v) == {u \in Wholes : Goes(t, u) /\ (DealtTo(u) = {} => u.wave = v)}
NextRound(S, v) == UNION {IF DealtTo(u) # {} THEN {u} ELSE OpenRound(u, v) : u \in S}

LEMMA NextRoundIs ==
  ASSUME config \in Tables, IsTheme, themes \in [config.themes -> Theme],
         NEW t, NEW v \in 1..Waves, NEW a, a = v - 1, NEW S \in SUBSET Reached(t, a)
  PROVE  NextRound(S, v) \in SUBSET Reached(t, v)
<1>1. ASSUME NEW x \in NextRound(S, v) PROVE x \in Reached(t, v)
  <2>1. PICK u \in S : x \in IF DealtTo(u) # {} THEN {u} ELSE OpenRound(u, v)
    BY DEF NextRound
  <2>2. u \in Wholes /\ Goes(t, u) /\ (DealtTo(u) = {} => u.wave = a)
    BY DEF Reached
  <2>3. CASE DealtTo(u) # {}
    <3>1. x = u
      BY <2>1, <2>3
    <3> QED BY <2>2, <2>3, <3>1 DEF Reached
  <2>4. CASE DealtTo(u) = {}
    <3>1. u.wave = v - 1 /\ Themed(u) /\ u \in Row /\ Apart(u) /\ u.theme \in Assignments /\ Running(u)
      BY <2>2, <2>4, PartsOf DEF Goes, Themed, Running
    <3>2. Between(u, v)
      BY <3>1 DEF Between, Themed
    <3>3. x \in Opened(u, v)
      BY <2>1, <2>4, <3>2, OpenRoundIs
    <3>4. x \in Wholes /\ Goes(u, x) /\ x.wave = v
      BY <3>3 DEF Opened
    <3>5. t \in Wholes => Conserved(t, x)
      BY <2>2, <3>4, ConservedOn DEF Goes
    <3>6. Spare(t) => Fits(x)
      BY <2>2, <3>1, <3>4, FitsSpare DEF Goes
    <3>7. Goes(t, x)
      BY <2>2, <3>4, <3>5, <3>6 DEF Goes
    <3> QED BY <3>4, <3>7 DEF Reached
  <2> QED BY <2>3, <2>4
<1> QED BY <1>1

LEMMA RoundsOpened ==
  ASSUME config \in Tables, IsTheme, themes \in [config.themes -> Theme],
         NEW w \in 1..Waves, NEW t, Between(t, w), NEW opened,
         opened = CHOOSE all : all =
              [v \in w..Waves |-> IF v = w THEN OpenRound(t, w)
                  ELSE UNION {IF DealtTo(u) # {} THEN {u} ELSE OpenRound(u, v) : u \in all[v - 1]}]
  PROVE  opened[Waves] \in SUBSET Reached(t, Waves)
<1> DEFINE n == Waves - w
           start == OpenRound(t, w)
           X == [i \in 0..n |-> SUBSET Reached(t, w + i)]
           G == [p \in (1..n) \X SUBSET Wholes |-> NextRound(p[2], w + p[1])]
<1>1. /\ w \in Nat /\ Waves \in Nat /\ w >= 1 /\ w <= Waves /\ n \in Nat /\ w + n = Waves
      /\ 0 \in 0..n /\ w + 0 = w
  BY RoundsAre
<1>2. start \in X[0]
  <2>1. start \in SUBSET Opened(t, w)
    BY OpenRoundIs
  <2>2. start \in SUBSET Reached(t, w)
    BY <2>1 DEF Opened, Reached
  <2> HIDE DEF start
  <2> QED BY <1>1, <2>2
<1>3. \A i \in 1..n : \A S \in X[i - 1] : S \in SUBSET Wholes /\ NextRound(S, w + i) \in X[i]
  <2>1. ASSUME NEW i \in 1..n, NEW S \in X[i - 1]
        PROVE  S \in SUBSET Wholes /\ NextRound(S, w + i) \in X[i]
    <3> DEFINE v == w + i
               a == w + (i - 1)
    <3>1. i \in 0..n /\ i - 1 \in 0..n /\ v \in 1..Waves /\ a = v - 1
      BY <1>1
    <3>2. S \in SUBSET Reached(t, a)
      BY <3>1
    <3> HIDE DEF v, a
    <3>3. NextRound(S, v) \in SUBSET Reached(t, v)
      BY <3>1, <3>2, NextRoundIs
    <3>4. S \in SUBSET Wholes
      BY <3>2 DEF Reached
    <3> QED BY <3>1, <3>3, <3>4 DEF v
  <2> QED BY <2>1
<1>4. \A i \in 1..n, S \in SUBSET Wholes : G[<<i, S>>] = NextRound(S, w + i)
  OBVIOUS
<1> HIDE DEF G, X, start, n
<1>5. PICK f : Chains(f, start, G, n, X)
  <2>1. Climbs(G, n, X)
    BY <1>3, <1>4 DEF Climbs
  <2> QED BY <1>1, <1>2, <2>1, Chain
<1>6. f[0] = start /\ \A i \in 1..n : f[i] = NextRound(f[i - 1], w + i)
  <2>1. ASSUME NEW i \in 1..n PROVE f[i] = NextRound(f[i - 1], w + i)
    <3>1. i - 1 \in 0..n
      BY <1>1
    <3>2. f[i - 1] \in X[i - 1] /\ f[i] = G[<<i, f[i - 1]>>]
      BY <1>5, <3>1 DEF Chains
    <3> QED BY <1>3, <1>4, <3>2
  <2> QED BY <1>5, <2>1 DEF Chains
<1>7. opened = [v \in w..Waves |-> IF v = w THEN start ELSE NextRound(opened[v - 1], v)]
  <2> DEFINE g == [v \in w..Waves |-> f[v - w]]
  <2>1. ASSUME NEW v \in w..Waves
        PROVE  g[v] = IF v = w THEN start ELSE NextRound(g[v - 1], v)
    <3>1. CASE v = w
      BY <1>1, <1>6, <3>1
    <3>2. CASE v # w
      <4> DEFINE i == v - w
      <4>1. i \in 1..n /\ v - 1 \in w..Waves /\ (v - 1) - w = i - 1 /\ w + i = v
        BY <1>1, <3>2 DEF n
      <4>2. g[v - 1] = f[i - 1] /\ g[v] = f[i]
        BY <4>1
      <4> HIDE DEF g, i
      <4>3. f[i] = NextRound(f[i - 1], w + i)
        BY <1>6, <4>1
      <4> QED BY <3>2, <4>1, <4>2, <4>3
    <3> QED BY <3>1, <3>2
  <2>2. g = [v \in w..Waves |-> IF v = w THEN start ELSE NextRound(g[v - 1], v)]
    <3>1. g = [v \in w..Waves |-> g[v]]
      OBVIOUS
    <3> HIDE DEF g
    <3> QED BY <2>1, <3>1
  <2>3. \E o : o = [v \in w..Waves |-> IF v = w THEN start ELSE NextRound(o[v - 1], v)]
    <3> HIDE DEF g
    <3> QED BY <2>2
  <2> QED BY <2>3 DEF start, NextRound
<1> DEFINE h == [i \in 0..n |-> opened[w + i]]
<1>8. h[0] \in X[0]
  <2>1. h[0] = opened[w] /\ w \in w..Waves
    BY <1>1
  <2> HIDE DEF h
  <2>2. opened[w] = start
    BY <1>7, <2>1
  <2> QED BY <1>2, <2>1, <2>2
<1>9. ASSUME NEW i \in 1..n, h[i - 1] \in X[i - 1] PROVE h[i] \in X[i]
  <2> DEFINE v == w + i
  <2>1. v \in w..Waves /\ v # w /\ v - 1 = w + (i - 1) /\ i - 1 \in 0..n /\ i \in 0..n
    BY <1>1 DEF n
  <2>2. h[i] = opened[v] /\ h[i - 1] = opened[v - 1]
    BY <2>1
  <2> HIDE DEF v, h
  <2>3. opened[v] = NextRound(opened[v - 1], v)
    BY <1>7, <2>1
  <2>4. opened[v] = NextRound(h[i - 1], w + i)
    BY <2>2, <2>3 DEF v
  <2> QED BY <1>3, <1>9, <2>2, <2>4
<1>10. h[n] = opened[Waves]
  BY <1>1
<1> HIDE DEF h
<1>11. h[n] \in X[n]
  BY <1>1, <1>8, <1>9, Along
<1>12. X[n] = SUBSET Reached(t, Waves)
  BY <1>1 DEF X
<1> QED BY <1>10, <1>11, <1>12

(* What opening rounds, until one deals something, ends with. *)
Ends(t, v) ==
    /\ v \in Wholes /\ Running(v) /\ Ready(v)
    /\ v.pool = t.pool /\ v.theme = t.theme
    /\ t \in Wholes => Conserved(t, v)
    /\ v.status = "active" /\ Spare(t) => Fits(v)

LEMMA RoundsFromIs ==
  ASSUME config \in Tables, IsTheme, themes \in [config.themes -> Theme],
         NEW w \in 1..Waves, NEW t, Between(t, w), NEW v \in RoundsFrom(t, w)
  PROVE  Ends(t, v)
<1> DEFINE opened == CHOOSE opened : opened =
              [v_1 \in w..Waves |-> IF v_1 = w THEN OpenRound(t, w)
                  ELSE UNION {IF DealtTo(u) # {} THEN {u} ELSE OpenRound(u, v_1) : u \in opened[v_1 - 1]}]
<1>1. PICK u \in opened[Waves] : v = IF DealtTo(u) = {} THEN Complete(u) ELSE u
  BY DEF RoundsFrom
<1>2. opened[Waves] \in SUBSET Reached(t, Waves)
  BY RoundsOpened
<1> HIDE DEF opened
<1>3. u \in Wholes /\ Goes(t, u) /\ Themed(u) /\ u.status = "active" /\ u.picked = {}
  BY <1>2 DEF Reached, Goes, Themed
<1>4. CASE DealtTo(u) = {}
  <2>1. v = Complete(u)
    BY <1>1, <1>4
  <2>2. Leads(u, v) /\ v.status = "completed"
    BY <1>3, <2>1, CompleteLeads
  <2>3. t \in Wholes => Conserved(t, v)
    BY <1>3, <2>2, ConservedOn DEF Leads, Goes
  <2> QED BY <1>3, <2>2, <2>3 DEF Leads, Goes, Ends, Ready
<1>5. CASE DealtTo(u) # {}
  <2>1. v = u
    BY <1>1, <1>5
  <2>2. PICK s \in Seats : s \in DealtTo(u)
    BY <1>5 DEF DealtTo
  <2>3. s \in Waiting(u)
    BY <1>3, <2>2, ThemedWaits
  <2> QED BY <1>3, <2>1, <2>3 DEF Goes, Ends, Ready, Running
<1> QED BY <1>4, <1>5

(* A seat has one card more. *)
LEMMA CountWith ==
  ASSUME config \in Tables, NEW t \in Wholes, NEW s \in Seats, NEW c \in Names,
         NEW u, u.pool = PoolWith(t, s, c)
  PROVE  /\ \A q \in Seats : Count(t, q) \in Nat
         /\ Count(u, s) = Count(t, s) + 1
         /\ \A q \in Seats \ {s} : Count(u, q) = Count(t, q)
<1>1. /\ PoolWith(t, s, c) \in [Seats -> Bag] /\ t.pool \in [Seats -> Bag]
      /\ \A q \in Seats, d \in Names : /\ t.pool[q][d] \in Nat
             /\ PoolWith(t, s, c)[q][d] = t.pool[q][d] + (IF q = s /\ d = c THEN 1 ELSE 0)
      /\ \A q \in Seats \ {s} : PoolWith(t, s, c)[q] = t.pool[q]
  BY PoolIs
<1>2. IsFiniteSet(Names)
  BY FiniteSets
<1>3. ASSUME NEW q \in Seats PROVE Count(t, q) \in Nat
  <2>1. t.pool[q] \in [Names -> Nat]
    BY <1>1 DEF Bag
  <2>2. SumFunction(t.pool[q]) \in Nat
    BY <1>2, <2>1, SumsNat
  <2> QED BY <2>2 DEF Count, Size
<1>4. Count(u, s) = Count(t, s) + 1
  <2> DEFINE fun == t.pool[s]
             gun == u.pool[s]
  <2>1. fun \in [Names -> Nat] /\ gun \in [Names -> Nat]
    BY <1>1 DEF Bag
  <2>2. gun[c] = fun[c] + 1 /\ fun[c] \in Nat /\ \A d \in Names \ {c} : gun[d] = fun[d]
    BY <1>1
  <2>3. Count(t, s) = SumFunction(fun) /\ Count(u, s) = SumFunction(gun)
    BY DEF Count, Size
  <2> HIDE DEF fun, gun
  <2>4. SumFunction(gun) = SumFunction(fun) + gun[c] - fun[c]
    BY <1>2, <2>1, <2>2, SumsChange
  <2>5. SumFunction(fun) \in Nat
    BY <1>2, <2>1, SumsNat
  <2> QED BY <2>2, <2>3, <2>4, <2>5
<1> QED BY <1>1, <1>3, <1>4 DEF Count

(* A pick within a round. *)
LEMMA OwnPick ==
  ASSUME config \in Tables, IsTheme, NEW t \in Wholes, Themed(t), NEW s \in Seats,
         s \in Waiting(t), NEW c \in Legal(t, s)
  PROVE  LET u == Taken(t, s, c, Waves)
         IN  /\ Kept(t, u) /\ Themed(u) /\ u.pool = PoolWith(t, s, c) /\ u.wave = t.wave
             /\ u.picked = t.picked \cup {s} /\ u.deal = t.deal
             /\ Fits(t) => Fits(u)
<1> DEFINE u == Taken(t, s, c, Waves)
           o == PackAt(t, s)
           cards == PackWithout(t, o, c)
<1>1. /\ t.status = "active" /\ Running(t) /\ t \in Row /\ PacksAt(t, s) # {} /\ c \in InPack(t, s)
      /\ c \in Names
  <2>1. t.status = "active" /\ Running(t) /\ t \in Row /\ PacksAt(t, s) # {} /\ c \in InPack(t, s)
    BY PartsOf DEF Themed, Running, Waiting, Legal
  <2> QED BY <2>1, PackInFront
<1>2. /\ u \in Wholes /\ cards \in Bag
      /\ u.packs = PacksWith(t, o, cards)
      /\ u.status = "active" /\ u.wave = t.wave /\ u.deal = t.deal /\ u.theme = t.theme
      /\ u.picked = t.picked \cup {s} /\ u.passed = t.passed
  <2>1. t.status = "active"
    BY <1>1
  <2>2. PacksAt(t, s) # {}
    BY <1>1
  <2>3. c \in InPack(t, s)
    BY <1>1
  <2> QED BY <2>1, <2>2, <2>3, TakenIs
<1>3. Kept(t, u) /\ u.pool = PoolWith(t, s, c)
  BY <1>1, TakenKept
<1>4. u.finished = IF Count(t, s) + 1 >= Waves THEN t.finished \cup {s} ELSE t.finished
  BY <1>1 DEF Taken, Row
<1>5. o \in Seats /\ t.packs[t.wave][o].cards \in Bag
  BY <1>1, PackInFront
<1>6. o = s
  BY <1>1, <1>5, PackInFront DEF Themed
<1>7. cards[c] = t.packs[t.wave][s].cards[c] - 1 /\ \A d \in Names \ {c} : cards[d] = t.packs[t.wave][s].cards[d]
  BY <1>1, <1>5, <1>6 DEF Bag, PackWithout
<1> HIDE DEF u, cards
<1>8. /\ DOMAIN u.packs = DOMAIN t.packs
      /\ \A w \in DOMAIN u.packs, q \in Seats :
            /\ u.packs[w][q].at = t.packs[w][q].at
            /\ u.packs[w][q].cards = IF w = t.wave /\ q = s THEN cards ELSE t.packs[w][q].cards
  BY <1>1, <1>2, <1>5, <1>6, PackChange
<1>9. t.wave \in DOMAIN t.packs
  BY <1>1, PartsOf
<1>10. Themed(u)
  <2>1. \A q \in Seats : u.packs[u.wave][q].at = q
    BY <1>2, <1>8, <1>9 DEF Themed
  <2>2. ASSUME NEW q \in Seats \ u.finished PROVE Count(u, q) < Waves
    <3>1. q \notin t.finished /\ Count(t, q) < Waves
      BY <1>4, <2>2 DEF Themed, Unfilled
    <3>2. CASE q # s
      BY <1>1, <1>3, <3>1, <3>2, CountWith
    <3>3. CASE q = s
      <4>1. ~(Count(t, s) + 1 >= Waves)
        BY <1>4, <3>3
      <4>2. Count(u, s) = Count(t, s) + 1 /\ Count(t, s) \in Nat
        BY <1>1, <1>3, CountWith
      <4>3. Waves \in Nat
        BY RoundsAre
      <4> QED BY <3>3, <4>1, <4>2, <4>3
    <3> QED BY <3>2, <3>3
  <2>3. ASSUME NEW q \in Seats \ u.picked PROVE Private(u, q)
    <3>1. q # s /\ q \notin t.picked
      BY <1>2
    <3>2. Private(t, q)
      BY <3>1 DEF Themed
    <3>3. u.pool[q] = t.pool[q]
      BY <1>1, <1>3, <3>1, PoolIs
    <3>4. \A p : Uncapped(u, q, p) <=> Uncapped(t, q, p)
      BY <3>3 DEF Uncapped, Capped
    <3>5. u.packs[u.wave][q].cards = t.packs[t.wave][q].cards
      BY <1>2, <1>8, <1>9, <3>1
    <3>6. q \notin t.finished => q \notin u.finished
      BY <1>4, <3>1
    <3> QED BY <1>2, <3>2, <3>4, <3>5, <3>6 DEF Private
  <2> QED BY <1>2, <1>8, <2>1, <2>2, <2>3 DEF Themed, Unfilled
<1>11. ASSUME Fits(t), NEW q \in Seats, NEW d \in Names PROVE Shown(u, q, d) <= Holds(u, q, d)
  <2>1. Shown(t, q, d) <= Holds(t, q, d) /\ Holds(u, q, d) = Holds(t, q, d)
    BY <1>2, <1>11 DEF Fits, Holds
  <2>2. CASE Burn
    BY <1>2, <2>1, <2>2 DEF Shown, Given
  <2>3. CASE ~Burn
    <3>1. /\ t.pool[q][d] \in Nat
          /\ u.pool[q][d] = t.pool[q][d] + (IF q = s /\ d = c THEN 1 ELSE 0)
      BY <1>1, <1>3, PoolIs
    <3>2. u.packs[u.wave][q].cards[d] = t.packs[t.wave][q].cards[d] - (IF q = s /\ d = c THEN 1 ELSE 0)
          /\ t.packs[t.wave][q].cards[d] \in Nat
      <4>1. u.packs[u.wave][q].cards = IF q = s THEN cards ELSE t.packs[t.wave][q].cards
        BY <1>2, <1>8, <1>9
      <4>2. t.packs[t.wave][q] \in PackRow
        BY <1>9, PartsOf
      <4>3. t.packs[t.wave][q].cards[d] \in Nat
        BY <4>2 DEF PackRow, Bag
      <4>4. CASE q = s /\ d = c
        BY <1>7, <4>1, <4>3, <4>4
      <4>5. CASE q = s /\ d # c
        BY <1>7, <4>1, <4>3, <4>5
      <4>6. CASE q # s
        BY <4>1, <4>3, <4>6
      <4> QED BY <4>4, <4>5, <4>6
    <3>3. Shown(u, q, d) = Shown(t, q, d)
      BY <2>3, <3>1, <3>2 DEF Shown
    <3> QED BY <2>1, <3>3
  <2> QED BY <2>2, <2>3
<1> QED BY <1>2, <1>3, <1>10, <1>11 DEF u, Fits

LEMMA TakeOwnIs ==
  ASSUME config \in Tables, IsTheme, themes \in [config.themes -> Theme],
         NEW t \in Wholes, Ready(t), NEW s, NEW c, NEW v \in TakeOwn(t, s, c)
  PROVE  /\ t.status = "active" /\ s \in Waiting(t) /\ s \in Seats /\ c \in Names
         /\ Kept(t, v) /\ Ready(v) /\ Grown(t, v, s, c) /\ ForcedWell(t, s, c)
         /\ v.status = "active" /\ Fits(t) => Fits(v)
<1> DEFINE u == Taken(t, s, c, Waves)
<1>1. t.status = "active" /\ s \in Waiting(t) /\ c \in Legal(t, s)
  BY DEF TakeOwn
<1>2. v \in IF Cardinality(u.picked) < Cardinality(DealtTo(u)) THEN {u}
            ELSE IF u.wave >= Waves THEN {Complete(u)}
            ELSE RoundsFrom(u, u.wave + 1)
  BY <1>1 DEF TakeOwn
<1>3. s \in Seats /\ Themed(t) /\ Running(t) /\ PacksAt(t, s) # {}
  BY <1>1 DEF Ready, Waiting, Drafting, Running
<1>4. /\ Kept(t, u) /\ Themed(u) /\ u.pool = PoolWith(t, s, c) /\ u.wave = t.wave
      /\ u.picked = t.picked \cup {s} /\ u.deal = t.deal
      /\ Fits(t) => Fits(u)
  BY <1>1, <1>3, OwnPick
<1>5. ForcedWell(t, s, c) /\ c \in Names
  <2>1. c \in Names
    BY <1>1, <1>3, PackInFront DEF Legal
  <2> QED BY <1>1, <2>1 DEF ForcedWell, Legal, Capped
<1> HIDE DEF u
<1>6. u \in Wholes /\ Running(u) /\ u.status = "active"
  BY <1>4 DEF Kept, Themed
<1>7. CASE Cardinality(u.picked) < Cardinality(DealtTo(u))
  <2>1. v = u
    BY <1>2, <1>7
  <2>2. PICK q \in DealtTo(u) : q \notin u.picked
    <3>1. ASSUME DealtTo(u) \subseteq u.picked PROVE FALSE
      <4>1. u.picked \subseteq Seats
        BY <1>6, PartsOf
      <4>2. IsFiniteSet(u.picked)
        BY <4>1, FiniteSets, FS_Subset
      <4>3. Cardinality(DealtTo(u)) <= Cardinality(u.picked) /\ Cardinality(u.picked) \in Nat
            /\ Cardinality(DealtTo(u)) \in Nat
        BY <3>1, <4>2, FS_Subset, FS_CardinalityType
      <4> QED BY <1>7, <4>3
    <3> QED BY <3>1
  <2>3. q \in Waiting(u)
    BY <1>4, <1>6, <2>2, ThemedWaits DEF DealtTo
  <2>4. Ready(v)
    BY <1>4, <2>1, <2>3 DEF Ready
  <2> QED BY <1>1, <1>3, <1>4, <1>5, <2>1, <2>4 DEF Grown
<1>8. CASE ~(Cardinality(u.picked) < Cardinality(DealtTo(u))) /\ u.wave >= Waves
  <2>1. v = Complete(u)
    BY <1>2, <1>8
  <2>2. Leads(u, v) /\ v.status = "completed"
    BY <1>6, <2>1, CompleteLeads
  <2>3. Kept(u, v) /\ v.pool = u.pool
    BY <2>2 DEF Leads, Kept
  <2>4. Kept(t, v)
    BY <1>4, <2>3, KeptOn
  <2> QED BY <1>1, <1>3, <1>4, <1>5, <2>2, <2>3, <2>4 DEF Grown, Ready
<1>9. CASE ~(Cardinality(u.picked) < Cardinality(DealtTo(u))) /\ ~(u.wave >= Waves)
  <2> DEFINE w == u.wave + 1
  <2>1. v \in RoundsFrom(u, w)
    BY <1>2, <1>9
  <2>2. u.wave \in 1..Waves /\ u \in Row /\ Apart(u) /\ u.theme \in Assignments
    BY <1>6, PartsOf
  <2>3. w \in 1..Waves /\ w - 1 = u.wave
    BY <1>9, <2>2, RoundsAre
  <2>4. Between(u, w)
    BY <1>4, <2>2, <2>3 DEF Between, Themed
  <2> HIDE DEF w
  <2>5. Ends(u, v)
    BY <2>1, <2>3, <2>4, RoundsFromIs
  <2>6. Kept(u, v) /\ v.pool = u.pool /\ Ready(v) /\ (v.status = "active" /\ Spare(u) => Fits(v))
    BY <1>6, <2>5 DEF Ends, Kept
  <2>7. Kept(t, v)
    BY <1>4, <2>6, KeptOn
  <2>8. Fits(u) => Spare(u)
    BY <1>6, FitsSpare
  <2> QED BY <1>1, <1>3, <1>4, <1>5, <2>6, <2>7, <2>8 DEF Grown
<1> QED BY <1>7, <1>8, <1>9

LEMMA StartedWithIs ==
  ASSUME config \in Tables, IsTheme, themes \in [config.themes -> Theme],
         NEW a \in Assignments, NEW v \in StartedWith(Blank, a)
  PROVE  /\ v \in Wholes /\ Running(v) /\ Ready(v) /\ v.pool = Blank.pool
         /\ v.status = "active" => Fits(v)
<1> DEFINE r == [Blank EXCEPT !.status = "active", !.theme = a]
<1>1. v \in RoundsFrom(r, 1)
  BY DEF StartedWith
<1>2. /\ Blank \in Row /\ Apart(Blank) /\ Blank.pool = [s \in Seats |-> Empty]
      /\ Blank.packs = << >> /\ Blank.deal = << >> /\ Blank.passed = {}
      /\ Empty \in Bag /\ \A s \in Seats : Size(Empty) = 0
  BY BlankIs
<1>3. /\ r \in Row /\ r.packs = << >> /\ r.deal = << >> /\ r.passed = {} /\ r.theme = a
      /\ r.pool = Blank.pool /\ r.status = "active"
  BY <1>2 DEF Row, Statuses
<1>4. DOMAIN r.deal = {} /\ DOMAIN r.packs = {}
  BY <1>3, NoneOf
<1> HIDE DEF r
<1>5. Between(r, 1)
  <2>1. Apart(r)
    BY <1>4 DEF Apart
  <2>2. Unfilled(r)
    <3>1. \A s \in Seats : Count(r, s) = 0
      BY <1>2, <1>3 DEF Count
    <3>2. Waves \in Nat \ {0}
      BY RoundsAre
    <3> QED BY <3>1, <3>2 DEF Unfilled
  <2>3. 1..(1 - 1) = {}
    OBVIOUS
  <2> QED BY <1>3, <1>4, <2>1, <2>2, <2>3 DEF Between
<1>6. Spare(r)
  <2>1. ASSUME NEW s \in Seats, NEW c \in Names PROVE Spent(r, s, c) <= Holds(r, s, c)
    <3>1. Holds(r, s, c) \in Nat
      BY <1>3, HoldsIs
    <3>2. r.pool[s][c] = 0
      BY <1>2, <1>3 DEF Empty
    <3>3. Given(r, s, c) = 0
      <4> DEFINE fun == [w \in DOMAIN r.deal |-> r.deal[w][s][c]]
      <4>1. fun \in [DOMAIN r.deal -> Nat] /\ IsFiniteSet(DOMAIN r.deal)
        BY <1>3, GivenIs
      <4>2. \A w \in DOMAIN r.deal : fun[w] = 0
        BY <1>4
      <4> HIDE DEF fun
      <4>3. SumFunction(fun) = 0
        BY <4>1, <4>2, SumsZero
      <4> QED BY <4>3 DEF Given, fun
    <3> QED BY <3>1, <3>2, <3>3 DEF Spent
  <2> QED BY <2>1 DEF Spare
<1>7. Ends(r, v)
  <2>1. 1 \in 1..Waves
    BY RoundsAre
  <2> QED BY <1>1, <1>5, <2>1, RoundsFromIs
<1> QED BY <1>3, <1>6, <1>7 DEF Ends

-----------------------------------------------------------------------------
(* Picks and the end of a step.                                            *)

LEMMA TakeIs ==
  ASSUME config \in Tables, themes \in [config.themes -> Theme],
         NEW t \in Wholes, Ready(t), NEW s, NEW c \in Names, NEW v \in Take(t, s, c)
  PROVE  /\ t.status = "active" /\ s \in Waiting(t) /\ s \in Seats
         /\ Kept(t, v) /\ Ready(v) /\ Grown(t, v, s, c) /\ ForcedWell(t, s, c)
         /\ IsTheme /\ v.status = "active" /\ Fits(t) => Fits(v)
<1>1. CASE IsTheme
  <2>1. v \in TakeOwn(t, s, c)
    BY <1>1 DEF Take
  <2> QED BY <1>1, <2>1, TakeOwnIs
<1>2. CASE ~IsTheme
  <2>1. v \in TakePassed(t, s, c)
    BY <1>2 DEF Take
  <2> QED BY <1>2, <2>1, TakePassedIs DEF Ready
<1> QED BY <1>1, <1>2

LEMMA CanAct ==
  ASSUME config \in Tables, NEW t \in Wholes, t.status = "active", Ready(t), NEW s \in Waiting(t)
  PROVE  Options(t, s) # {}
<1>1. s \in Seats /\ PacksAt(t, s) # {} /\ Running(t)
  BY DEF Waiting, Drafting, Running
<1>2. CASE IsTheme
  <2>1. Legal(t, s) = InPack(t, s) /\ InPack(t, s) # {}
    BY <1>1, <1>2, ThemedWaits DEF Ready
  <2> QED BY <1>2, <2>1 DEF Options
<1>3. CASE ~IsTheme
  <2> DEFINE pack == t.packs[t.wave][PackAt(t, s)].cards
  <2>1. pack \in Bag /\ InPack(t, s) = {c \in Names : pack[c] > 0}
    BY <1>1, PackInFront
  <2>2. pack # Empty
    <3>1. PacksAt(t, s) \subseteq Nat
      BY ConfigIs DEF PacksAt
    <3>2. PackAt(t, s) \in PacksAt(t, s)
      BY <1>1, <3>1, MinOf DEF PackAt
    <3> QED BY <3>2 DEF PacksAt
  <2> HIDE DEF pack
  <2>3. PICK c \in Names : pack[c] # 0
    BY <2>1, <2>2 DEF Bag, Empty
  <2>4. pack[c] > 0
    BY <2>1, <2>3 DEF Bag
  <2>5. InPack(t, s) # {}
    BY <2>1, <2>4
  <2> QED BY <1>3, <2>5 DEF Options
<1> QED BY <1>2, <1>3

(* Every seat comes once in the order of joining. *)
LEMMA JoinedOnce ==
  ASSUME config \in Tables
  PROVE  /\ \A s \in Seats : \E k \in 1..N : Joined[k] = s
         /\ \A i, k \in 1..N : Joined[i] = Joined[k] => i = k
<1>1. N \in Nat /\ N >= 2 /\ Seats = 0..(N - 1) /\ Joined \in [1..N -> Seats]
  BY ConfigIs
<1>2. Range(Joined) = Seats
  BY TableAssumption DEF Joined, Seats, N
<1>3. \A s \in Seats : \E k \in 1..N : Joined[k] = s
  BY <1>1, <1>2 DEF Range
<1>4. Joined \in Surjection(1..N, Seats)
  BY <1>1, <1>3 DEF Surjection
<1>5. IsFiniteSet(1..N) /\ Cardinality(1..N) = N
  BY <1>1, FS_Interval
<1>6. Cardinality(Seats) = N
  BY <1>1, FS_Interval
<1>7. Joined \in Injection(1..N, Seats)
  BY <1>4, <1>5, <1>6, FS_SurjSameCardinalityImpliesInj
<1> QED BY <1>1, <1>3, <1>7 DEF Injection, IsInjective

(* Pools only grow; nobody but s took anything; s took a single card, as    *)
(* the copy cap allows.                                                    *)
More(t, u) == \A q \in Seats, c \in Names : t.pool[q][c] <= u.pool[q][c]
Only(t, u, s) == \A q \in Seats \ {s} : u.pool[q] = t.pool[q]
Once(t, u, s) == \E c \in Names : Grown(t, u, s, c) /\ ForcedWell(t, s, c)

(* What any number of picks leads to ...                                   *)
GoesOn(t, u) ==
    /\ u \in Wholes /\ Kept(t, u) /\ Ready(u) /\ More(t, u)
    /\ IsTheme /\ u.status = "active" /\ Fits(t) => Fits(u)

(* ... and what the seats of the first i who joined made of it.             *)
Passed(t, i) == \A k \in 1..i : Joined[k] \notin Waiting(t)
Moved(t, u, i) ==
    /\ u.pool # t.pool
    /\ \A s \in Seats : Only(t, u, s) => Once(t, u, s) /\ \E k \in 1..i : Joined[k] = s
PickedBy(t, i) == {u \in Wholes : GoesOn(t, u) /\ ((u = t /\ Passed(t, i)) \/ Moved(t, u, i))}

LEMMA MoreOn ==
  ASSUME config \in Tables, NEW t \in Wholes, NEW u \in Wholes, More(t, u),
         NEW s \in Seats, NEW c \in Names, NEW v \in Wholes, Grown(u, v, s, c)
  PROVE  /\ More(t, v) /\ v.pool # t.pool /\ v.pool[s] # t.pool[s]
         /\ \A q \in Seats \ {s} : v.pool[q] = u.pool[q]
<1>1. ASSUME NEW q \in Seats, NEW d \in Names
      PROVE  /\ t.pool[q][d] \in Nat /\ u.pool[q][d] \in Nat /\ t.pool[q][d] <= u.pool[q][d]
             /\ v.pool[q][d] = u.pool[q][d] + (IF q = s /\ d = c THEN 1 ELSE 0)
  <2>1. t.pool[q][d] \in Nat
    BY PoolIs
  <2>2. u.pool[q][d] \in Nat
        /\ PoolWith(u, s, c)[q][d] = u.pool[q][d] + (IF q = s /\ d = c THEN 1 ELSE 0)
    BY PoolIs
  <2> QED BY <2>1, <2>2 DEF More, Grown
<1>2. More(t, v)
  BY <1>1 DEF More
<1>3. v.pool[s][c] # t.pool[s][c]
  BY <1>1
<1>4. \A q \in Seats \ {s} : v.pool[q] = u.pool[q]
  BY PoolIs DEF Grown
<1> QED BY <1>2, <1>3, <1>4

LEMMA GoesOnSame ==
  ASSUME config \in Tables, NEW t \in Wholes, Running(t), Ready(t)
  PROVE  GoesOn(t, t)
<1>1. \A q \in Seats, c \in Names : t.pool[q][c] \in Nat
  BY PoolIs
<1>2. More(t, t)
  BY <1>1 DEF More
<1> QED BY <1>2, KeptSame DEF GoesOn

LEMMA GoesOnTake ==
  ASSUME config \in Tables, themes \in [config.themes -> Theme], NEW t \in Wholes,
         NEW u, GoesOn(t, u), NEW s, NEW c \in Names, NEW v \in Take(u, s, c)
  PROVE  /\ GoesOn(t, v) /\ u.status = "active" /\ s \in Seats /\ s \in Waiting(u)
         /\ Grown(u, v, s, c) /\ ForcedWell(u, s, c)
         /\ v.pool # t.pool /\ v.pool[s] # t.pool[s]
         /\ \A q \in Seats \ {s} : v.pool[q] = u.pool[q]
<1>1. u \in Wholes /\ Kept(t, u) /\ Ready(u) /\ More(t, u)
  BY DEF GoesOn
<1>2. /\ u.status = "active" /\ s \in Waiting(u) /\ s \in Seats
      /\ Kept(u, v) /\ Ready(v) /\ Grown(u, v, s, c) /\ ForcedWell(u, s, c)
      /\ IsTheme /\ v.status = "active" /\ Fits(u) => Fits(v)
  BY <1>1, TakeIs
<1>3. v \in Wholes
  BY <1>2 DEF Kept
<1>4. /\ More(t, v) /\ v.pool # t.pool /\ v.pool[s] # t.pool[s]
      /\ \A q \in Seats \ {s} : v.pool[q] = u.pool[q]
  BY <1>1, <1>2, <1>3, MoreOn
<1>5. Kept(t, v)
  BY <1>1, <1>2, KeptOn
<1> QED BY <1>2, <1>3, <1>4, <1>5 DEF GoesOn

(* One seat of an expired step. *)
PickFor(t, u, s) ==
    IF s \notin t.finished \cup Acted(t)
       /\ (u.status = "active" /\ u.wave = t.wave /\ u.step = t.step)
       /\ s \in Waiting(u) /\ Options(u, s) # {}
    THEN UNION {Take(u, s, c) : c \in Names}
    ELSE {u}
PickForAll(t, S, s) == UNION {PickFor(t, u, s) : u \in S}

LEMMA PickForIs ==
  ASSUME config \in Tables, themes \in [config.themes -> Theme],
         NEW t \in Wholes, t.status = "active", Ready(t),
         NEW i \in 1..N, NEW S \in SUBSET PickedBy(t, i - 1)
  PROVE  PickForAll(t, S, Joined[i]) \in SUBSET PickedBy(t, i)
<1> DEFINE s == Joined[i]
<1>1. N \in Nat /\ Joined \in [1..N -> Seats] /\ s \in Seats
      /\ (\A k \in 1..(i - 1) : k \in 1..i /\ k \in 1..N /\ k # i)
      /\ i \in 1..i /\ \A k \in 1..i : k = i \/ k \in 1..(i - 1)
  BY ConfigIs
<1>2. \A k \in 1..N : Joined[k] = s => k = i
  BY JoinedOnce
<1>3. ASSUME NEW u \in S, NEW v \in PickFor(t, u, s) PROVE v \in PickedBy(t, i)
  <2>1. u \in Wholes /\ GoesOn(t, u) /\ ((u = t /\ Passed(t, i - 1)) \/ Moved(t, u, i - 1))
    BY DEF PickedBy
  <2>2. CASE \E c \in Names : v \in Take(u, s, c)
    <3>1. PICK c \in Names : v \in Take(u, s, c)
      BY <2>2
    <3>2. /\ GoesOn(t, v) /\ s \in Waiting(u) /\ Grown(u, v, s, c) /\ ForcedWell(u, s, c)
          /\ v.pool # t.pool /\ v.pool[s] # t.pool[s]
          /\ \A q \in Seats \ {s} : v.pool[q] = u.pool[q]
      BY <2>1, <3>1, GoesOnTake
    <3>3. ASSUME NEW q \in Seats, Only(t, v, q)
          PROVE  Once(t, v, q) /\ \E k \in 1..i : Joined[k] = q
      <4>1. q = s
        BY <1>1, <3>2, <3>3 DEF Only
      <4>2. Only(t, u, s)
        BY <3>2, <3>3, <4>1 DEF Only
      <4>3. ~Moved(t, u, i - 1)
        <5>1. ASSUME Moved(t, u, i - 1) PROVE FALSE
          <6>1. \E k \in 1..(i - 1) : Joined[k] = s
            BY <1>1, <4>2, <5>1 DEF Moved
          <6> QED BY <1>1, <1>2, <6>1
        <5> QED BY <5>1
      <4>4. u = t
        BY <2>1, <4>3
      <4>5. Once(t, v, q)
        BY <3>2, <4>1, <4>4 DEF Once
      <4> QED BY <1>1, <4>1, <4>5
    <3>4. v \in Wholes
      BY <3>2 DEF GoesOn
    <3> QED BY <3>2, <3>3, <3>4 DEF PickedBy, Moved
  <2>3. CASE ~\E c \in Names : v \in Take(u, s, c)
    <3>1. v = u
      BY <2>3 DEF PickFor
    <3>2. CASE Moved(t, u, i - 1)
      <4>1. Moved(t, u, i)
        BY <1>1, <3>2 DEF Moved
      <4> QED BY <2>1, <3>1, <4>1 DEF PickedBy
    <3>3. CASE u = t /\ Passed(t, i - 1)
      <4>1. s \notin Waiting(t)
        <5>1. ASSUME s \in Waiting(t) PROVE FALSE
          <6>1. s \notin t.finished \cup Acted(t)
            BY <5>1 DEF Waiting, Drafting
          <6>2. Options(t, s) # {}
            BY <5>1, CanAct
          <6> QED BY <2>3, <3>3, <5>1, <6>1, <6>2 DEF PickFor
        <5> QED BY <5>1
      <4>2. Passed(t, i)
        BY <1>1, <3>3, <4>1 DEF Passed
      <4> QED BY <2>1, <3>1, <3>3, <4>2 DEF PickedBy
    <3> QED BY <2>1, <3>2, <3>3
  <2> QED BY <2>2, <2>3
<1> QED BY <1>3 DEF PickForAll

(* The whole step: somebody took a card, and whoever was the only one took  *)
(* one that the copy cap allows.                                           *)
Over(t, v) ==
    /\ GoesOn(t, v) /\ v.pool # t.pool
    /\ \A s \in Seats : Only(t, v, s) => Once(t, v, s)

LEMMA PickedIs ==
  ASSUME config \in Tables, themes \in [config.themes -> Theme],
         NEW t \in Wholes, t.status = "active", Ready(t), NEW picked,
         picked = CHOOSE all : all =
            [i \in 0..N |-> IF i = 0 THEN {t} ELSE UNION {PickFor(t, u, Joined[i]) : u \in all[i - 1]}]
  PROVE  picked[N] \in SUBSET PickedBy(t, N)
<1> DEFINE start == {t}
           X == [i \in 0..N |-> SUBSET PickedBy(t, i)]
           G == [p \in (1..N) \X SUBSET Wholes |-> PickForAll(t, p[2], Joined[p[1]])]
<1>1. N \in Nat /\ 0 \in 0..N /\ \A i \in 1..N : i \in 0..N /\ i - 1 \in 0..N
  BY ConfigIs
<1>2. start \in X[0]
  <2>1. Passed(t, 0) /\ Running(t)
    BY DEF Passed, Running
  <2>2. start \in SUBSET PickedBy(t, 0)
    BY <2>1, GoesOnSame DEF PickedBy
  <2> HIDE DEF start
  <2> QED BY <1>1, <2>2
<1>3. \A i \in 1..N : \A S \in X[i - 1] :
         S \in SUBSET Wholes /\ PickForAll(t, S, Joined[i]) \in X[i]
  <2>1. ASSUME NEW i \in 1..N, NEW S \in X[i - 1]
        PROVE  S \in SUBSET Wholes /\ PickForAll(t, S, Joined[i]) \in X[i]
    <3>1. S \in SUBSET PickedBy(t, i - 1)
      BY <1>1
    <3>2. PickForAll(t, S, Joined[i]) \in SUBSET PickedBy(t, i)
      BY <3>1, PickForIs
    <3>3. S \in SUBSET Wholes
      BY <3>1 DEF PickedBy
    <3> QED BY <1>1, <3>2, <3>3
  <2> QED BY <2>1
<1>4. \A i \in 1..N, S \in SUBSET Wholes : G[<<i, S>>] = PickForAll(t, S, Joined[i])
  OBVIOUS
<1> HIDE DEF G, X, start
<1>5. PICK f : Chains(f, start, G, N, X)
  <2>1. Climbs(G, N, X)
    BY <1>3, <1>4 DEF Climbs
  <2> QED BY <1>1, <1>2, <2>1, Chain
<1>6. DOMAIN f = 0..N /\ f[0] = start
      /\ \A i \in 1..N : f[i] = PickForAll(t, f[i - 1], Joined[i])
  <2>1. ASSUME NEW i \in 1..N PROVE f[i] = PickForAll(t, f[i - 1], Joined[i])
    <3>1. i - 1 \in 0..N
      BY <1>1
    <3>2. f[i - 1] \in X[i - 1] /\ f[i] = G[<<i, f[i - 1]>>]
      BY <1>5, <3>1 DEF Chains
    <3> QED BY <1>3, <1>4, <3>2
  <2> QED BY <1>5, <2>1 DEF Chains
<1>7. picked = [i \in 0..N |-> IF i = 0 THEN start ELSE PickForAll(t, picked[i - 1], Joined[i])]
  <2> DEFINE g == [i \in 0..N |-> f[i]]
  <2>1. \A i \in 0..N : f[i] = IF i = 0 THEN start ELSE PickForAll(t, f[i - 1], Joined[i])
    BY <1>1, <1>6
  <2>2. g = [i \in 0..N |-> IF i = 0 THEN start ELSE PickForAll(t, g[i - 1], Joined[i])]
    <3>1. \A i \in 0..N : g[i] = IF i = 0 THEN start ELSE PickForAll(t, g[i - 1], Joined[i])
      BY <1>1, <2>1
    <3>2. g = [i \in 0..N |-> g[i]]
      OBVIOUS
    <3> HIDE DEF g
    <3> QED BY <3>1, <3>2
  <2>3. \E o : o = [i \in 0..N |-> IF i = 0 THEN start ELSE PickForAll(t, o[i - 1], Joined[i])]
    <3> HIDE DEF g
    <3> QED BY <2>2
  <2> QED BY <2>3 DEF start, PickForAll
<1>8. picked[0] \in X[0]
  BY <1>1, <1>2, <1>7
<1>9. ASSUME NEW i \in 1..N, picked[i - 1] \in X[i - 1] PROVE picked[i] \in X[i]
  <2>1. i \in 0..N /\ i # 0
    BY <1>1
  <2>2. picked[i] = PickForAll(t, picked[i - 1], Joined[i])
    BY <1>7, <2>1
  <2> QED BY <1>3, <1>9, <2>2
<1>10. picked[N] \in X[N]
  BY <1>1, <1>8, <1>9, Along
<1>11. N \in 0..N
  BY <1>1
<1> QED BY <1>10, <1>11 DEF X

LEMMA ExpiredIs ==
  ASSUME config \in Tables, themes \in [config.themes -> Theme],
         NEW t \in Wholes, t.status = "active", Ready(t), NEW v \in Expired(t)
  PROVE  Over(t, v)
<1> DEFINE picked == CHOOSE picked : picked =
            [i \in 0..N |-> IF i = 0 THEN {t} ELSE UNION {PickFor(t, u, Joined[i]) : u \in picked[i - 1]}]
<1>1. v \in IF IsTheme THEN picked[N] ELSE UNION {Settle(u) : u \in picked[N]}
  BY DEF Expired, PickFor
<1>2. picked[N] \in SUBSET PickedBy(t, N)
  BY PickedIs
<1> HIDE DEF picked
<1>3. ASSUME NEW u \in picked[N] PROVE Over(t, u)
  <2>1. GoesOn(t, u) /\ ((u = t /\ Passed(t, N)) \/ Moved(t, u, N))
    BY <1>2 DEF PickedBy
  <2>2. ~Passed(t, N)
    <3>1. PICK s \in Waiting(t) : TRUE
      BY DEF Ready
    <3>2. s \in Seats
      BY DEF Waiting, Drafting
    <3> QED BY <3>2, JoinedOnce DEF Passed
  <2> QED BY <2>1, <2>2 DEF Moved, Over
<1>4. CASE IsTheme
  BY <1>1, <1>3, <1>4
<1>5. CASE ~IsTheme
  <2>1. PICK u \in picked[N] : v \in Settle(u)
    BY <1>1, <1>5
  <2>2. Over(t, u)
    BY <1>3
  <2>3. u \in Wholes /\ Running(u) /\ Kept(t, u)
    BY <2>2 DEF Over, GoesOn, Kept
  <2>4. Leads(u, v) /\ (v.status = "active" => Waiting(v) # {})
    BY <1>5, <2>1, <2>3, SettleIs DEF Settled
  <2>5. Kept(u, v) /\ v.pool = u.pool /\ v \in Wholes
    BY <2>4 DEF Leads, Kept
  <2>6. Kept(t, v)
    BY <2>3, <2>5, KeptOn
  <2>7. GoesOn(t, v)
    BY <1>5, <2>2, <2>4, <2>5, <2>6 DEF GoesOn, Over, Ready, More
  <2> QED BY <2>2, <2>5, <2>7 DEF Over, Only, Once, Grown
<1> QED BY <1>4, <1>5

-----------------------------------------------------------------------------
(* The steps of a draft.                                                   *)

(* What every step keeps: the rows are whole, a draft that was not started  *)
(* is blank, a running one waits for somebody who can act, and no seat has  *)
(* more copies from its theme than the theme has, while nobody changes it.  *)
Inductive ==
    /\ config \in Tables
    /\ themes \in [config.themes -> Theme] /\ edits \in 0..config.maxEdits /\ due \in BOOLEAN
    /\ table \in Wholes /\ Ready(table)
    /\ table.status = "pending" => table = Blank
    /\ IsTheme /\ table.status = "active" /\ edits = 0 => Fits(table)

(* The tables a step may lead to.                                          *)
Allowed(v) ==
    /\ v \in Wholes /\ Ready(v)
    /\ v.status = "pending" => v = Blank
    /\ IsTheme /\ v.status = "active" /\ edits = 0 => Fits(v)
    /\ table.status = "active" /\ Running(v) => Conserved(table, v)
    /\ \/ v.pool = table.pool \/ v.pool = Blank.pool
       \/ \A s \in Seats : Only(table, v, s) => Once(table, v, s)

LEMMA AllowedSame ==
  ASSUME Inductive
  PROVE  Allowed(table)
<1>1. table.status = "active" => Kept(table, table)
  BY KeptSame DEF Inductive, Running
<1> QED BY <1>1 DEF Allowed, Inductive, Kept, Conserved, Running

LEMMA AllowedOn ==
  ASSUME Inductive, table.status = "active", NEW v, GoesOn(table, v),
         \A s \in Seats : Only(table, v, s) => Once(table, v, s)
  PROVE  Allowed(v)
<1>1. v \in Wholes /\ Kept(table, v) /\ Ready(v) /\ (IsTheme /\ v.status = "active" /\ Fits(table) => Fits(v))
  BY DEF GoesOn
<1> QED BY <1>1 DEF Allowed, Inductive, Kept, Running

LEMMA StartStep ==
  ASSUME Inductive, Start, NEW v, v = table'
  PROVE  Allowed(v)
<1>1. table = Blank /\ table.status = "pending" /\ config \in Tables
  BY DEF Start, Inductive
<1>2. CASE IsTheme
  <2>1. PICK a \in Assignments : v \in StartedWith(Blank, a)
    BY <1>1, <1>2 DEF Start, Commit
  <2>2. /\ v \in Wholes /\ Running(v) /\ Ready(v) /\ v.pool = Blank.pool
        /\ v.status = "active" => Fits(v)
    BY <1>1, <1>2, <2>1, StartedWithIs DEF Inductive
  <2> QED BY <1>1, <2>2 DEF Allowed, Running
<1>3. CASE ~IsTheme
  <2>1. PICK main \in MainDecks(config), extra \in ExtraDecks(config) : v \in StartedFrom(Blank, main, extra)
    BY <1>1, <1>3 DEF Start, Commit
  <2>2. v \in Wholes /\ v.status = "active" /\ v.pool = Blank.pool /\ Waiting(v) # {}
    BY <1>1, <1>3, <2>1, StartedFromIs
  <2> QED BY <1>1, <1>3, <2>2 DEF Allowed, Ready
<1> QED BY <1>2, <1>3

LEMMA ViewStep ==
  ASSUME Inductive, NEW s \in Seats, View(s), NEW v, v = table'
  PROVE  Allowed(v)
<1>1. ~IsTheme /\ table.status = "active" /\ v \in Swap(table, s) /\ config \in Tables /\ table \in Wholes
  BY DEF View, Inductive
<1>2. Leads(table, v) /\ v.status = "active" /\ Waiting(v) = Waiting(table)
  BY <1>1, SwapLeads
<1>3. v \in Wholes /\ v.pool = table.pool /\ Conserved(table, v)
  BY <1>2 DEF Leads
<1>4. Ready(v)
  BY <1>1, <1>2 DEF Ready, Inductive
<1> QED BY <1>1, <1>2, <1>3, <1>4 DEF Allowed

LEMMA BotPickStep ==
  ASSUME Inductive, NEW s \in Bots, NEW c \in Names, BotPick(s, c), NEW v, v = table'
  PROVE  Allowed(v)
<1>1. v \in Take(table, s, c)
  BY DEF BotPick, Commit
<1>2. /\ config \in Tables /\ themes \in [config.themes -> Theme] /\ table \in Wholes /\ Ready(table)
  BY DEF Inductive
<1>3. table.status = "active" /\ Running(table)
  BY <1>1, <1>2, TakeIs DEF Running
<1>4. GoesOn(table, table)
  BY <1>2, <1>3, GoesOnSame
<1>5. /\ GoesOn(table, v) /\ s \in Seats /\ Grown(table, v, s, c) /\ ForcedWell(table, s, c)
      /\ v.pool[s] # table.pool[s]
  BY <1>1, <1>2, <1>4, GoesOnTake
<1>6. \A q \in Seats : Only(table, v, q) => Once(table, v, q)
  BY <1>5 DEF Only, Once
<1> QED BY <1>3, <1>5, <1>6, AllowedOn

LEMMA ExpireStep ==
  ASSUME Inductive, Expire, NEW v, v = table'
  PROVE  Allowed(v)
<1>1. v \in Expired(table) /\ table.status = "active"
  BY DEF Expire, Commit
<1>2. Over(table, v)
  BY <1>1, ExpiredIs DEF Inductive
<1> QED BY <1>1, <1>2, AllowedOn DEF Over

LEMMA PickStep ==
  ASSUME Inductive, NEW s \in Seats, NEW c \in Names, Pick(s, c), NEW v, v = table'
  PROVE  Allowed(v)
<1>1. /\ config \in Tables /\ themes \in [config.themes -> Theme] /\ table \in Wholes /\ Ready(table)
      /\ table.status = "active" /\ Running(table)
  BY DEF Inductive, Pick, Running
<1>2. PICK t \in IF due THEN Expired(table) ELSE {table} :
         IF s \in table.picked \/ Count(t, s) > Count(table, s) THEN v = t
         ELSE v \in Take(t, s, c)
  BY DEF Pick, Commit
<1>3. t = table \/ Over(table, t)
  BY <1>1, <1>2, ExpiredIs
<1>4. GoesOn(table, t)
  BY <1>1, <1>3, GoesOnSame DEF Over
<1>5. CASE v = t
  <2>1. CASE t = table
    BY <1>5, <2>1, AllowedSame
  <2>2. CASE Over(table, t)
    BY <1>1, <1>5, <2>2, AllowedOn DEF Over
  <2> QED BY <1>3, <2>1, <2>2
<1>6. CASE ~(s \in table.picked \/ Count(t, s) > Count(table, s)) /\ v \in Take(t, s, c)
  <2>1. /\ GoesOn(table, v) /\ Grown(t, v, s, c) /\ ForcedWell(t, s, c)
        /\ v.pool[s] # table.pool[s] /\ \A q \in Seats \ {s} : v.pool[q] = t.pool[q]
    BY <1>1, <1>4, <1>6, GoesOnTake
  <2>2. ASSUME NEW q \in Seats, Only(table, v, q) PROVE Once(table, v, q)
    <3>1. q = s /\ Only(table, t, s)
      BY <2>1, <2>2 DEF Only
    <3>2. ~Once(table, t, s)
      <4>1. ASSUME NEW d \in Names, Grown(table, t, s, d) PROVE FALSE
        <5>1. Count(t, s) = Count(table, s) + 1 /\ Count(table, s) \in Nat
          BY <1>1, <4>1, CountWith DEF Grown
        <5> QED BY <1>6, <5>1
      <4> QED BY <4>1 DEF Once
    <3>3. t = table
      BY <1>3, <3>1, <3>2 DEF Over
    <3> QED BY <2>1, <3>1, <3>3 DEF Once
  <2> QED BY <1>1, <2>1, <2>2, AllowedOn
<1> QED BY <1>2, <1>5, <1>6

LEMMA CancelStep ==
  ASSUME Inductive, Cancel, NEW v, v = table'
  PROVE  Allowed(v)
<1>1. v = [Blank EXCEPT !.status = "cancelled", !.wave = table.wave, !.step = table.step]
  BY DEF Cancel
<1>2. config \in Tables /\ table.wave \in 1..Waves /\ table.step \in Nat \ {0}
  BY PartsOf DEF Inductive
<1>3. Blank \in Row /\ Blank.packs = << >> /\ Blank.deal = << >>
  BY <1>2, BlankIs
<1>4. v \in Row /\ v.packs = << >> /\ v.deal = << >> /\ v.pool = Blank.pool /\ v.status = "cancelled"
  BY <1>1, <1>2, <1>3 DEF Row, Statuses
<1>5. DOMAIN v.packs = {} /\ DOMAIN v.deal = {}
  BY <1>4, NoneOf
<1>6. v \in Wholes
  <2>1. Apart(v) /\ ~Running(v)
    BY <1>4, <1>5 DEF Apart, Running
  <2> QED BY <1>2, <1>4, <1>5, <2>1, WholeAgain
<1> QED BY <1>4, <1>6 DEF Allowed, Ready, Running

(* Changes of the themes leave the table alone. *)
LEMMA EditStep ==
  ASSUME Inductive, NEW k \in config.themes,
         \/ \E c \in MainNames, copies \in 0..MaxCopies : EditCard(k, "main", c, copies)
         \/ \E c \in ExtraNames, copies \in 0..MaxCopies : EditCard(k, "extra", c, copies)
         \/ DeleteTheme(k)
  PROVE  /\ themes' \in [config.themes -> Theme] /\ edits' \in 1..config.maxEdits
         /\ UNCHANGED <<config, table, due>>
<1>1. /\ themes \in [config.themes -> Theme] /\ edits \in 0..config.maxEdits
      /\ config.maxEdits \in Nat /\ MaxCopies \in Nat
  BY ConfigIs DEF Inductive
<1>2. themes[k] \in Theme /\ themes[k].main \in Pool /\ themes[k].extra \in Pool
      /\ themes[k] = [main |-> themes[k].main, extra |-> themes[k].extra]
  BY <1>1 DEF Theme
<1>3. ASSUME NEW contents \in Theme, Edit(k, contents)
      PROVE  /\ themes' \in [config.themes -> Theme] /\ edits' \in 1..config.maxEdits
             /\ UNCHANGED <<config, table, due>>
  BY <1>1, <1>3 DEF Edit
<1>4. CASE \E c \in MainNames, copies \in 0..MaxCopies : EditCard(k, "main", c, copies)
  <2>1. PICK c \in MainNames, copies \in 0..MaxCopies :
           Edit(k, [themes[k] EXCEPT !["main"][c] = copies])
    BY <1>4 DEF EditCard
  <2>2. [themes[k].main EXCEPT ![c] = copies] \in Pool
    BY <1>1, <1>2 DEF Pool
  <2>3. [themes[k] EXCEPT !["main"][c] = copies] \in Theme
    BY <1>2, <2>2 DEF Theme
  <2> QED BY <1>3, <2>1, <2>3
<1>5. CASE \E c \in ExtraNames, copies \in 0..MaxCopies : EditCard(k, "extra", c, copies)
  <2>1. PICK c \in ExtraNames, copies \in 0..MaxCopies :
           Edit(k, [themes[k] EXCEPT !["extra"][c] = copies])
    BY <1>5 DEF EditCard
  <2>2. [themes[k].extra EXCEPT ![c] = copies] \in Pool
    BY <1>1, <1>2 DEF Pool
  <2>3. [themes[k] EXCEPT !["extra"][c] = copies] \in Theme
    BY <1>2, <2>2 DEF Theme
  <2> QED BY <1>3, <2>1, <2>3
<1>6. CASE DeleteTheme(k)
  <2> DEFINE none == [c \in DOMAIN themes[k].main |-> 0]
  <2>1. none \in Pool
    BY <1>2 DEF Pool
  <2>2. [main |-> none, extra |-> none] \in Theme
    BY <2>1 DEF Theme
  <2> HIDE DEF none
  <2>3. Edit(k, [main |-> none, extra |-> none])
    BY <1>6 DEF DeleteTheme, none
  <2> QED BY <1>3, <2>2, <2>3
<1> QED BY <1>4, <1>5, <1>6

(* Every step. *)
LEMMA StepIs ==
  ASSUME Inductive, [Next]_vars, NEW v, v = table'
  PROVE  /\ config' = config /\ Allowed(v)
         /\ themes' \in [config.themes -> Theme] /\ edits' \in 0..config.maxEdits /\ due' \in BOOLEAN
         /\ edits' = 0 => themes' = themes /\ edits = 0
<1>1. /\ themes \in [config.themes -> Theme] /\ edits \in 0..config.maxEdits /\ due \in BOOLEAN
      /\ config.maxEdits \in Nat
  BY ConfigIs DEF Inductive
<1>2. CASE \E t : Commit(t) /\ Allowed(v)
  BY <1>1, <1>2 DEF Commit
<1>3. CASE Start
  <2>1. Allowed(v)
    BY <1>3, StartStep
  <2> QED BY <1>2, <1>3, <2>1 DEF Start
<1>4. ASSUME NEW s \in Seats, View(s) PROVE Allowed(v) /\ UNCHANGED <<config, themes, edits, due>>
  BY <1>4, ViewStep DEF View
<1>5. ASSUME NEW s \in Seats \ Bots, NEW c \in Names, Pick(s, c)
      PROVE  Allowed(v) /\ \E t : Commit(t)
  BY <1>5, PickStep DEF Pick
<1>6. ASSUME NEW s \in Bots, NEW c \in Names, BotPick(s, c)
      PROVE  Allowed(v) /\ \E t : Commit(t)
  BY <1>6, BotPickStep DEF BotPick
<1>7. CASE Expire
  <2>1. Allowed(v)
    BY <1>7, ExpireStep
  <2> QED BY <1>2, <1>7, <2>1 DEF Expire
<1>8. CASE Cancel
  <2>1. Allowed(v)
    BY <1>8, CancelStep
  <2> QED BY <1>1, <1>8, <2>1 DEF Cancel
<1>9. CASE TimeUp \/ UNCHANGED vars
  BY <1>1, <1>9, AllowedSame DEF TimeUp, vars
<1>10. CASE \E k \in config.themes :
              \/ \E c \in MainNames, copies \in 0..MaxCopies : EditCard(k, "main", c, copies)
              \/ \E c \in ExtraNames, copies \in 0..MaxCopies : EditCard(k, "extra", c, copies)
              \/ DeleteTheme(k)
  <2>1. /\ themes' \in [config.themes -> Theme] /\ edits' \in 1..config.maxEdits
        /\ UNCHANGED <<config, table, due>>
    BY <1>10, EditStep
  <2> QED BY <1>1, <2>1, AllowedSame
<1> QED BY <1>1, <1>2, <1>3, <1>4, <1>5, <1>6, <1>7, <1>8, <1>9, <1>10 DEF Next

(* What is fixed with the table's configuration. *)
LEMMA Frozen ==
  ASSUME config' = config
  PROVE  /\ Wholes' = Wholes /\ Blank' = Blank /\ IsTheme' = IsTheme
         /\ Seats' = Seats /\ Names' = Names /\ Waves' = Waves /\ Burn' = Burn
         /\ \A t : Ready(t)' <=> Ready(t)
         /\ themes' = themes => \A t : Fits(t)' <=> Fits(t)
<1>1. /\ N' = N /\ IsTheme' = IsTheme /\ MainTarget' = MainTarget /\ PackSize' = PackSize
      /\ ExtraSize' = ExtraSize /\ CopyLimit' = CopyLimit /\ MaxCopies' = MaxCopies /\ Burn' = Burn
  BY DEF N, IsTheme, MainTarget, PackSize, ExtraSize, CopyLimit, MaxCopies, Burn
<1>2. Seats' = Seats /\ Names' = Names
  BY <1>1 DEF Seats, Names
<1>3. MainRounds' = MainRounds /\ Empty' = Empty
  BY <1>1, <1>2 DEF MainRounds, Empty
<1>4. Waves' = Waves
  BY <1>1, <1>3 DEF Waves
<1>5. Bag' = Bag /\ Assignments' = Assignments
  BY <1>2 DEF Bag, Assignments
<1>6. PackRow' = PackRow
  BY <1>2, <1>5 DEF PackRow
<1>7. Row' = Row
  BY <1>2, <1>4, <1>5, <1>6 DEF Row
<1>8. \A t : Apart(t)' <=> Apart(t)
  BY <1>2 DEF Apart
<1>9. Wholes' = Wholes
  <2>1. \A t : Whole(t)' <=> Whole(t)
    BY <1>1, <1>4, <1>5, <1>7, <1>8 DEF Whole
  <2> QED BY <1>7, <2>1 DEF Wholes
<1>10. Blank' = Blank
  BY <1>2, <1>3 DEF Blank
<1>11. \A w : Phase(w)' = Phase(w)
  BY <1>3 DEF Phase
<1>12. \A t, s : Target(t, s)' = Target(t, s)
  BY <1>1, <1>4, <1>11 DEF Target
<1>13. \A t : Drafting(t)' = Drafting(t)
  BY <1>2, <1>12 DEF Drafting
<1>14. \A t, s : PacksAt(t, s)' = PacksAt(t, s)
  BY <1>2, <1>3 DEF PacksAt
<1>15. \A t : Waiting(t)' = Waiting(t)
  BY <1>13, <1>14 DEF Waiting
<1>16. \A t, s, p : Uncapped(t, s, p)' <=> Uncapped(t, s, p)
  BY <1>1, <1>2 DEF Uncapped, Capped
<1>17. \A t, s : Private(t, s)' <=> Private(t, s)
  BY <1>3, <1>16 DEF Private
<1>18. \A t : Themed(t)' <=> Themed(t)
  BY <1>2, <1>4, <1>17 DEF Themed, Unfilled
<1>19. \A t : Ready(t)' <=> Ready(t)
  BY <1>1, <1>15, <1>18 DEF Ready
<1>20. ASSUME themes' = themes PROVE \A t : Fits(t)' <=> Fits(t)
  BY <1>1, <1>2, <1>20 DEF Fits, Shown, Given, Holds
<1> QED BY <1>1, <1>2, <1>4, <1>9, <1>10, <1>19, <1>20

LEMMA InitIs ==
  ASSUME Init
  PROVE  Inductive
<1>1. config \in Tables /\ themes \in ThemePools(config) /\ table = Blank /\ edits = 0 /\ due = FALSE
  BY DEF Init
<1>2. Blank \in Wholes /\ Blank.status = "pending"
  BY <1>1, BlankIs
<1>3. themes \in [config.themes -> Theme] /\ config.maxEdits \in Nat
  BY <1>1, TableAssumption, ConfigIs
<1>4. table.status # "active" /\ table \in Wholes
  BY <1>1, <1>2
<1>5. Ready(table)
  BY <1>4 DEF Ready
<1>6. edits \in 0..config.maxEdits
  BY <1>1, <1>3
<1>7. due \in BOOLEAN
  BY <1>1
<1> QED BY <1>1, <1>3, <1>4, <1>5, <1>6, <1>7 DEF Inductive

LEMMA InductiveStep ==
  ASSUME Inductive, [Next]_vars
  PROVE  Inductive'
<1>1. PICK v : v = table'
  OBVIOUS
<1>2. /\ config' = config /\ Allowed(v)
      /\ themes' \in [config.themes -> Theme] /\ edits' \in 0..config.maxEdits /\ due' \in BOOLEAN
      /\ edits' = 0 => themes' = themes /\ edits = 0
  BY <1>1, StepIs
<1>3. /\ Wholes' = Wholes /\ Blank' = Blank /\ IsTheme' = IsTheme
      /\ \A t : Ready(t)' <=> Ready(t)
      /\ themes' = themes => \A t : Fits(t)' <=> Fits(t)
  BY <1>2, Frozen
<1>4. Ready(table)'
  BY <1>1, <1>2, <1>3 DEF Allowed
<1>5. IsTheme' /\ table'.status = "active" /\ edits' = 0 => Fits(table)'
  BY <1>1, <1>2, <1>3 DEF Allowed
<1> QED BY <1>1, <1>2, <1>3, <1>4, <1>5 DEF Inductive, Allowed

-----------------------------------------------------------------------------
(* The theorems.                                                           *)

LEMMA Invariance == Spec => []Inductive
<1>1. Init => Inductive
  BY InitIs
<1>2. Inductive /\ [Next]_vars => Inductive'
  BY InductiveStep
<1> QED BY <1>1, <1>2, PTL DEF Spec

(* The rows of a draft keep their shape: every card that is dealt, passed,  *)
(* swapped, burned or taken is one of the pools', counts stay natural, and  *)
(* packs are only ever opened from what was dealt.                         *)
THEOREM DraftTypes == Spec => []TypeOK
<1>1. Inductive => TypeOK
  <2> SUFFICES ASSUME Inductive PROVE TypeOK
    OBVIOUS
  <2>1. config \in Tables /\ table \in Wholes
    BY DEF Inductive
  <2>2. table \in Row /\ table.status \in Statuses /\ table.wave \in 1..Waves /\ table.step \in Nat \ {0}
        /\ table.undealt \in Seq(Names) /\ table.pool \in [Seats -> Bag] /\ table.main \in [Seats -> Nat]
        /\ table.picked \subseteq Seats /\ table.passed \subseteq Seats /\ table.finished \subseteq Seats
        /\ DOMAIN table.deal \subseteq 1..Waves
        /\ table.deal \in [DOMAIN table.deal -> [Seats -> Bag]]
        /\ DOMAIN table.packs \subseteq DOMAIN table.deal
        /\ table.packs \in [DOMAIN table.packs -> [Seats -> PackRow]]
    BY <2>1, PartsOf
  <2>3. table.theme = << >> \/ table.theme \in Assignments
    BY <2>2 DEF Row
  <2> QED BY <2>2, <2>3 DEF Inductive, TypeOK, Statuses, PackRow
<1> QED BY <1>1, Invariance, PTL

(* However packs are passed, emptied and repaired, the packs of a wave      *)
(* never meet: advanceSeatIndex keeps them at distinct seats.              *)
THEOREM PacksNeverMeet == Spec => []OnePackPerSeat
<1>1. Inductive => OnePackPerSeat
  BY PartsOf DEF Inductive, OnePackPerSeat, Apart
<1> QED BY <1>1, Invariance, PTL

(* startDraft, every pick, settleBoosterStep and settleThemeRound leave a   *)
(* running draft waiting for a seat that has a card it may take.           *)
THEOREM SomeoneCanAlwaysAct == Spec => []SomeoneCanAct
<1>1. Inductive => SomeoneCanAct
  <2> SUFFICES ASSUME Inductive, table.status = "active"
               PROVE  Waiting(table) # {} /\ \A s \in Waiting(table) : Options(table, s) # {}
    BY DEF SomeoneCanAct
  <2> QED BY CanAct DEF Inductive, Ready
<1> QED BY <1>1, Invariance, PTL

(* No step makes or loses a card, whatever is swapped, left over, burned or *)
(* picked for a seat, and a theme deals nobody more copies than it has.    *)
THEOREM CardsAreConserved == Spec => CardsConserved
<1>1. ASSUME Inductive, Inductive', [Next]_vars, table.status = "active",
             table'.status \in {"active", "completed"}
      PROVE  /\ \A c \in Names :
                   LET opened == Dealt(c)' - Dealt(c)
                   IN  /\ OnTable(c)' <= OnTable(c) + opened
                       /\ ~Burn => OnTable(c)' = OnTable(c) + opened
             /\ IsTheme /\ edits' = 0 /\ table'.status = "active" =>
                   \A s \in Seats, c \in Names : FromTheme(s, c)'
  <2>1. PICK v : v = table'
    OBVIOUS
  <2>2. config' = config /\ Allowed(v)
    BY <1>1, <2>1, StepIs
  <2>3. Seats' = Seats /\ Names' = Names /\ IsTheme' = IsTheme
    BY <2>2, Frozen
  <2>4. Conserved(table, v) /\ v \in Wholes /\ table \in Wholes /\ config \in Tables
    BY <1>1, <2>1, <2>2 DEF Allowed, Inductive, Running
  <2>5. ASSUME NEW c \in Names
        PROVE  /\ Dealt(c)' = AllOf(DealRows(v), c)
               /\ OnTable(c)' = Unpicked(v, c) + Pooled(v, c) + Occurs(v.undealt, c)
    BY <2>1, <2>3 DEF Dealt, OnTable, AllOf, WaveOf, DealRows, Unpicked, Pooled, Occurs
  <2>6. ASSUME NEW c \in Names
        PROVE  /\ Dealt(c) = AllOf(DealRows(table), c)
               /\ OnTable(c) = Unpicked(table, c) + Pooled(table, c) + Occurs(table.undealt, c)
    BY DEF Dealt, OnTable, AllOf, WaveOf, DealRows, Unpicked, Pooled, Occurs
  <2>7. ASSUME NEW c \in Names
        PROVE  LET opened == Dealt(c)' - Dealt(c)
               IN  /\ OnTable(c)' <= OnTable(c) + opened
                   /\ ~Burn => OnTable(c)' = OnTable(c) + opened
    <3>1. /\ Unpicked(v, c) \in Nat /\ Pooled(v, c) \in Nat /\ Occurs(v.undealt, c) \in Nat
          /\ AllOf(DealRows(v), c) \in Nat
      BY <2>4, BalanceIs
    <3>2. /\ Unpicked(table, c) \in Nat /\ Pooled(table, c) \in Nat /\ Occurs(table.undealt, c) \in Nat
          /\ AllOf(DealRows(table), c) \in Nat
      BY <2>4, BalanceIs
    <3>3. Balance(v, c) <= Balance(table, c) /\ (~Burn => Balance(v, c) = Balance(table, c))
      BY <2>4 DEF Conserved
    <3> QED BY <2>5, <2>6, <3>1, <3>2, <3>3 DEF Balance
  <2>8. ASSUME IsTheme, edits' = 0, table'.status = "active", NEW s \in Seats, NEW c \in Names
        PROVE  FromTheme(s, c)'
    <3>1. Fits(table)'
      BY <1>1, <2>3, <2>8 DEF Inductive
    <3>2. Shown(table, s, c)' <= Holds(table, s, c)'
      BY <2>3, <3>1 DEF Fits
    <3> QED BY <3>2 DEF FromTheme, Shown, Holds, Given
  <2> QED BY <2>7, <2>8
<1>2. Inductive /\ Inductive' /\ [Next]_vars =>
         [ table.status = "active" /\ table'.status \in {"active", "completed"} =>
              /\ \A c \in Names :
                    LET opened == Dealt(c)' - Dealt(c)
                    IN  /\ OnTable(c)' <= OnTable(c) + opened
                        /\ ~Burn => OnTable(c)' = OnTable(c) + opened
              /\ IsTheme /\ edits' = 0 /\ table'.status = "active" =>
                    \A s \in Seats, c \in Names : FromTheme(s, c)' ]_vars
  BY <1>1
<1> QED BY <1>2, Invariance, PTL DEF Spec, CardsConserved

(* prepareBoosterPack and assertUnderCopyCap: whoever is made to take a     *)
(* copy over the cap had nothing else in front, and nothing to swap for.   *)
THEOREM ForcedOnlyThen == Spec => ForcedOnlyWhenNothingElse
<1>1. ASSUME Inductive, [Next]_vars, NEW s \in Seats, CopyLimit, Exceeds(s),
             \A q \in Seats \ {s} : table'.pool[q] = table.pool[q]
      PROVE  /\ ~IsTheme
             /\ \A c \in InPack(table, s) : table.pool[s][c] >= MaxCopies
             /\ \A i \in DOMAIN table.undealt :
                   (ExtraSize > 0 /\ (table.undealt[i] \in MainNames <=> Phase(table.wave) = "extra"))
                   \/ table.pool[s][table.undealt[i]] >= MaxCopies
  <2>1. PICK v : v = table'
    OBVIOUS
  <2>2. Allowed(v) /\ config \in Tables /\ table \in Wholes
    BY <1>1, <2>1, StepIs DEF Inductive
  <2>3. PICK c \in Names : v.pool[s][c] > Max({table.pool[s][c], MaxCopies})
    BY <1>1, <2>1 DEF Exceeds
  <2>4. table.pool[s][c] \in Nat /\ MaxCopies \in Nat
    BY <2>2, PoolIs, ConfigIs
  <2>5. table.pool[s][c] <= Max({table.pool[s][c], MaxCopies})
        /\ MaxCopies <= Max({table.pool[s][c], MaxCopies}) /\ Max({table.pool[s][c], MaxCopies}) \in Nat
    BY <2>4, BiggerOf
  <2>6. v.pool # table.pool
    BY <2>3, <2>4, <2>5
  <2>7. v.pool # Blank.pool
    <3>1. Blank.pool[s][c] = 0
      BY <2>2, BlankIs DEF Empty
    <3> QED BY <2>3, <2>5, <3>1
  <2>8. Only(table, v, s)
    BY <1>1, <2>1 DEF Only
  <2>9. PICK d \in Names : Grown(table, v, s, d) /\ ForcedWell(table, s, d)
    BY <2>2, <2>6, <2>7, <2>8 DEF Allowed, Once
  <2>10. v.pool[s][c] = table.pool[s][c] + (IF c = d THEN 1 ELSE 0)
    BY <2>2, <2>9, PoolIs DEF Grown
  <2>11. c = d /\ table.pool[s][d] >= MaxCopies
    BY <2>3, <2>4, <2>5, <2>10
  <2>12. /\ ~IsTheme /\ Replacements(table, s) = {}
         /\ \A e \in InPack(table, s) : table.pool[s][e] >= MaxCopies
    BY <1>1, <2>9, <2>11 DEF ForcedWell
  <2>13. ASSUME NEW i \in DOMAIN table.undealt
         PROVE  (ExtraSize > 0 /\ (table.undealt[i] \in MainNames <=> Phase(table.wave) = "extra"))
                \/ table.pool[s][table.undealt[i]] >= MaxCopies
    <3> DEFINE x == table.undealt[i]
    <3>1. x \in Names
      BY <2>2, PartsOf
    <3>2. CASE i \in Remainder(table)
      <4>1. Capped(table, s, x)
        BY <2>12, <3>2 DEF Replacements
      <4> QED BY <4>1 DEF Capped
    <3>3. CASE i \notin Remainder(table)
      <4>1. ExtraSize > 0 /\ ~(x \in ExtraNames <=> Phase(table.wave) = "extra")
        BY <3>3 DEF Remainder
      <4>2. MainNames \cap ExtraNames = {} /\ x \in MainNames \cup ExtraNames
        BY <2>2, <3>1, <4>1, TableAssumption DEF ExtraSize, Names
      <4>3. x \in MainNames <=> x \notin ExtraNames
        BY <4>2
      <4>4. Phase(table.wave) \in {"main", "extra"}
        BY DEF Phase
      <4> HIDE DEF x
      <4>5. x \in MainNames <=> Phase(table.wave) = "extra"
        BY <4>1, <4>3, <4>4
      <4> QED BY <4>1, <4>5 DEF x
    <3> QED BY <3>2, <3>3
  <2> QED BY <2>12, <2>13
<1>2. Inductive /\ [Next]_vars =>
         [ \A s \in Seats :
             (CopyLimit /\ Exceeds(s) /\ \A q \in Seats \ {s} : table'.pool[q] = table.pool[q]) =>
                 /\ ~IsTheme
                 /\ \A c \in InPack(table, s) : table.pool[s][c] >= MaxCopies
                 /\ \A i \in DOMAIN table.undealt :
                       (ExtraSize > 0 /\ (table.undealt[i] \in MainNames <=> Phase(table.wave) = "extra"))
                       \/ table.pool[s][table.undealt[i]] >= MaxCopies ]_vars
  BY <1>1
<1> QED BY <1>2, Invariance, PTL DEF Spec, ForcedOnlyWhenNothingElse
=============================================================================
