---------------------------- MODULE DraftTotals ----------------------------
(***************************************************************************)
(* Proofs about what a draft ends with, for every table, pool and theme.    *)
(***************************************************************************)
EXTENDS DraftProofs

-----------------------------------------------------------------------------
(* More about sums.                                                        *)

LEMMA SumsOrder ==
  ASSUME NEW S, IsFiniteSet(S), NEW fun \in [S -> Nat], NEW gun \in [S -> Nat],
         \A x \in S : fun[x] <= gun[x]
  PROVE  SumFunction(fun) <= SumFunction(gun)
<1> DEFINE T == {s \in SUBSET S : /\ SumFunctionOnSet(fun, s) <= SumFunctionOnSet(gun, s)
                                  /\ SumFunctionOnSet(fun, s) \in Int
                                  /\ SumFunctionOnSet(gun, s) \in Int}
<1>1. {} \in T
  BY SumNone
<1>2. ASSUME NEW s \in SUBSET S, NEW x \in S, s \in T, x \notin s PROVE s \cup {x} \in T
  <2>1. IsFiniteSet(s \cup {x}) /\ (s \cup {x}) \ {x} = s /\ x \in s \cup {x}
    BY <1>2, FS_Subset, FS_AddElement
  <2>2. Ints(fun, s \cup {x}) /\ Ints(gun, s \cup {x})
    BY DEF Ints
  <2>3. \A y \in s \cup {x} : SumFunctionOnSet(fun, s \cup {x})
                              = fun[y] + SumFunctionOnSet(fun, (s \cup {x}) \ {y})
    BY <2>1, <2>2, SumSplit
  <2>4. \A y \in s \cup {x} : SumFunctionOnSet(gun, s \cup {x})
                              = gun[y] + SumFunctionOnSet(gun, (s \cup {x}) \ {y})
    BY <2>1, <2>2, SumSplit
  <2>5. SumFunctionOnSet(fun, s \cup {x}) = fun[x] + SumFunctionOnSet(fun, s)
        /\ SumFunctionOnSet(gun, s \cup {x}) = gun[x] + SumFunctionOnSet(gun, s)
    BY <2>1, <2>3, <2>4
  <2>6. fun[x] \in Nat /\ gun[x] \in Nat /\ fun[x] <= gun[x]
    OBVIOUS
  <2> QED BY <1>2, <2>5, <2>6
<1> HIDE DEF T
<1>3. S \in T
  BY <1>1, <1>2, FiniteInduction
<1> QED BY <1>3 DEF T, SumFunction

(* Where a sum is larger, a member is. *)
LEMMA SumsLarger ==
  ASSUME NEW S, IsFiniteSet(S), NEW fun \in [S -> Nat], NEW gun \in [S -> Nat],
         SumFunction(fun) < SumFunction(gun)
  PROVE  \E x \in S : fun[x] < gun[x]
<1>1. ASSUME \A x \in S : ~(fun[x] < gun[x]) PROVE FALSE
  <2>1. \A x \in S : gun[x] <= fun[x]
    BY <1>1
  <2>2. SumFunction(gun) <= SumFunction(fun)
    BY <2>1, SumsOrder
  <2>3. SumFunction(gun) \in Nat /\ SumFunction(fun) \in Nat
    BY SumsNat
  <2> QED BY <2>2, <2>3
<1> QED BY <1>1

(* Equal sums of functions of which one is never larger. *)
LEMMA SumsSame ==
  ASSUME NEW S, IsFiniteSet(S), NEW fun \in [S -> Nat], NEW gun \in [S -> Nat],
         \A x \in S : gun[x] = fun[x]
  PROVE  SumFunction(gun) = SumFunction(fun)
<1>1. gun = fun
  OBVIOUS
<1> QED BY <1>1

(* The sum of two functions. *)
LEMMA SumsPlus ==
  ASSUME NEW S, IsFiniteSet(S), NEW fun \in [S -> Nat], NEW gun \in [S -> Nat],
         NEW hun \in [S -> Nat], \A x \in S : hun[x] = fun[x] + gun[x]
  PROVE  SumFunction(hun) = SumFunction(fun) + SumFunction(gun)
<1> DEFINE T == {s \in SUBSET S :
              /\ SumFunctionOnSet(hun, s) = SumFunctionOnSet(fun, s) + SumFunctionOnSet(gun, s)
              /\ SumFunctionOnSet(fun, s) \in Int
              /\ SumFunctionOnSet(gun, s) \in Int}
<1>1. {} \in T
  BY SumNone
<1>2. ASSUME NEW s \in SUBSET S, NEW x \in S, s \in T, x \notin s PROVE s \cup {x} \in T
  <2>1. IsFiniteSet(s \cup {x}) /\ (s \cup {x}) \ {x} = s /\ x \in s \cup {x}
    BY <1>2, FS_Subset, FS_AddElement
  <2>2. Ints(fun, s \cup {x}) /\ Ints(gun, s \cup {x}) /\ Ints(hun, s \cup {x})
    BY DEF Ints
  <2>3. \A y \in s \cup {x} : SumFunctionOnSet(fun, s \cup {x})
                              = fun[y] + SumFunctionOnSet(fun, (s \cup {x}) \ {y})
    BY <2>1, <2>2, SumSplit
  <2>4. \A y \in s \cup {x} : SumFunctionOnSet(gun, s \cup {x})
                              = gun[y] + SumFunctionOnSet(gun, (s \cup {x}) \ {y})
    BY <2>1, <2>2, SumSplit
  <2>5. \A y \in s \cup {x} : SumFunctionOnSet(hun, s \cup {x})
                              = hun[y] + SumFunctionOnSet(hun, (s \cup {x}) \ {y})
    BY <2>1, <2>2, SumSplit
  <2>6. SumFunctionOnSet(fun, s \cup {x}) = fun[x] + SumFunctionOnSet(fun, s)
        /\ SumFunctionOnSet(gun, s \cup {x}) = gun[x] + SumFunctionOnSet(gun, s)
        /\ SumFunctionOnSet(hun, s \cup {x}) = hun[x] + SumFunctionOnSet(hun, s)
    BY <2>1, <2>3, <2>4, <2>5
  <2>7. fun[x] \in Nat /\ gun[x] \in Nat /\ hun[x] = fun[x] + gun[x]
    OBVIOUS
  <2> QED BY <1>2, <2>6, <2>7
<1> HIDE DEF T
<1>3. S \in T
  BY <1>1, <1>2, FiniteInduction
<1> QED BY <1>3 DEF T, SumFunction

(* Members at which nothing is added do not count. *)
LEMMA SumsWithin ==
  ASSUME NEW E, IsFiniteSet(E), NEW gun \in [E -> Nat], NEW S \in SUBSET E,
         NEW fun \in [S -> Nat], \A x \in S : fun[x] = gun[x], \A x \in E \ S : gun[x] = 0
  PROVE  SumFunction(gun) = SumFunction(fun)
<1> DEFINE T == {s \in SUBSET E :
              /\ SumFunctionOnSet(gun, s) = SumFunctionOnSet(fun, s \cap S)
              /\ SumFunctionOnSet(gun, s) \in Int}
<1>1. {} \in T
  <2>1. {} \cap S = {}
    OBVIOUS
  <2> QED BY <2>1, SumNone
<1>2. ASSUME NEW s \in SUBSET E, NEW x \in E, s \in T, x \notin s PROVE s \cup {x} \in T
  <2>1. IsFiniteSet(s \cup {x}) /\ (s \cup {x}) \ {x} = s /\ x \in s \cup {x}
        /\ IsFiniteSet((s \cup {x}) \cap S)
    BY <1>2, FS_Subset, FS_AddElement
  <2>2. Ints(gun, s \cup {x}) /\ Ints(fun, (s \cup {x}) \cap S)
    BY DEF Ints
  <2>3. \A y \in s \cup {x} : SumFunctionOnSet(gun, s \cup {x})
                              = gun[y] + SumFunctionOnSet(gun, (s \cup {x}) \ {y})
    BY <2>1, <2>2, SumSplit
  <2>4. SumFunctionOnSet(gun, s \cup {x}) = gun[x] + SumFunctionOnSet(gun, s) /\ gun[x] \in Nat
    BY <2>1, <2>3
  <2> DEFINE new == (s \cup {x}) \cap S
             old == s \cap S
  <2>0. SumFunctionOnSet(gun, s) = SumFunctionOnSet(fun, old) /\ SumFunctionOnSet(gun, s) \in Int
    BY <1>2
  <2>8. SumFunctionOnSet(gun, s \cup {x}) = SumFunctionOnSet(fun, new) => s \cup {x} \in T
    BY <2>0, <2>4
  <2>5. CASE x \in S
    <3>1. \A y \in (s \cup {x}) \cap S : SumFunctionOnSet(fun, (s \cup {x}) \cap S)
                              = fun[y] + SumFunctionOnSet(fun, ((s \cup {x}) \cap S) \ {y})
      BY <2>1, <2>2, SumSplit
    <3>2. x \in (s \cup {x}) \cap S /\ ((s \cup {x}) \cap S) \ {x} = s \cap S /\ fun[x] = gun[x]
      BY <1>2, <2>5
    <3>3. SumFunctionOnSet(fun, new) = gun[x] + SumFunctionOnSet(fun, old)
      BY <3>1, <3>2
    <3> HIDE DEF T, new, old
    <3> QED BY <2>0, <2>4, <2>8, <3>3
  <2>6. CASE x \notin S
    <3>1. new = old /\ gun[x] = 0
      BY <2>6
    <3> HIDE DEF T, new, old
    <3>2. SumFunctionOnSet(gun, s \cup {x}) = SumFunctionOnSet(gun, s)
      BY <2>0, <2>4, <3>1
    <3> QED BY <2>0, <2>8, <3>1, <3>2
  <2> QED BY <2>5, <2>6
<1> HIDE DEF T
<1>3. E \in T
  BY <1>1, <1>2, FiniteInduction
<1>4. E \cap S = S
  OBVIOUS
<1> QED BY <1>3, <1>4 DEF T, SumFunction

(* A set as a bag. *)
LEMMA SumsOnes ==
  ASSUME NEW S, IsFiniteSet(S), NEW fun \in [S -> Nat], NEW Q \in SUBSET S,
         \A x \in S : fun[x] = IF x \in Q THEN 1 ELSE 0
  PROVE  SumFunction(fun) = Cardinality(Q) /\ Cardinality(Q) \in Nat
<1> DEFINE T == {s \in SUBSET S :
              /\ SumFunctionOnSet(fun, s) = Cardinality(s \cap Q)
              /\ Cardinality(s \cap Q) \in Nat}
<1>1. {} \in T
  <2>1. {} \cap Q = {}
    OBVIOUS
  <2> QED BY <2>1, SumNone, FS_EmptySet
<1>2. ASSUME NEW s \in SUBSET S, NEW x \in S, s \in T, x \notin s PROVE s \cup {x} \in T
  <2>1. IsFiniteSet(s \cup {x}) /\ (s \cup {x}) \ {x} = s /\ x \in s \cup {x}
        /\ IsFiniteSet(s \cap Q)
    BY <1>2, FS_Subset, FS_AddElement
  <2>2. Ints(fun, s \cup {x})
    BY DEF Ints
  <2>3. \A y \in s \cup {x} : SumFunctionOnSet(fun, s \cup {x})
                              = fun[y] + SumFunctionOnSet(fun, (s \cup {x}) \ {y})
    BY <2>1, <2>2, SumSplit
  <2>4. SumFunctionOnSet(fun, s \cup {x}) = fun[x] + SumFunctionOnSet(fun, s)
    BY <2>1, <2>3
  <2> DEFINE new == (s \cup {x}) \cap Q
             old == s \cap Q
  <2>0. SumFunctionOnSet(fun, s) = Cardinality(old) /\ Cardinality(old) \in Nat
    BY <1>2
  <2>8. SumFunctionOnSet(fun, s \cup {x}) = Cardinality(new) /\ Cardinality(new) \in Nat
        => s \cup {x} \in T
    OBVIOUS
  <2>5. CASE x \in Q
    <3>1. (s \cup {x}) \cap Q = (s \cap Q) \cup {x} /\ x \notin s \cap Q
      BY <1>2, <2>5
    <3>2. Cardinality((s \cap Q) \cup {x}) = Cardinality(s \cap Q) + 1
      BY <2>1, <3>1, FS_AddElement
    <3>3. fun[x] = 1 /\ Cardinality(new) = Cardinality(old) + 1
      BY <2>5, <3>1, <3>2
    <3> HIDE DEF T, new, old
    <3> QED BY <2>0, <2>4, <2>8, <3>3
  <2>6. CASE x \notin Q
    <3>1. new = old /\ fun[x] = 0
      BY <2>6
    <3> HIDE DEF T, new, old
    <3>2. SumFunctionOnSet(fun, s \cup {x}) = Cardinality(old)
      BY <2>0, <2>4, <3>1
    <3> QED BY <2>0, <2>8, <3>1, <3>2
  <2> QED BY <2>5, <2>6
<1> HIDE DEF T
<1>3. S \in T
  BY <1>1, <1>2, FiniteInduction
<1>4. S \cap Q = Q
  OBVIOUS
<1> QED BY <1>3, <1>4 DEF T, SumFunction

-----------------------------------------------------------------------------
(* Sets of tables that a round, rounds and an expired step stay in.         *)

(* A round is dealt seat by seat, in the order of joining. *)
LEMMA OpenRoundIn ==
  ASSUME config \in Tables, NEW t, NEW w, NEW X, Bared(t, w) \in X[0],
         \A i \in 1..N : \A u \in X[i - 1] : DealPack(u, Joined[i]) \subseteq X[i]
  PROVE  OpenRound(t, w) \subseteq X[N]
<1> DEFINE start == {Bared(t, w)}
           All == UNION {X[i] : i \in 0..N}
           Y == [i \in 0..N |-> SUBSET X[i]]
           G == [p \in (1..N) \X SUBSET All |-> DealAll(p[2], Joined[p[1]])]
<1>1. N \in Nat /\ 0 \in 0..N /\ N \in 0..N /\ \A i \in 1..N : i \in 0..N /\ i - 1 \in 0..N
  BY ConfigIs
<1>2. start \in Y[0]
  BY <1>1
<1>3. ASSUME NEW i \in 1..N, NEW S \in Y[i - 1]
      PROVE  S \in SUBSET All /\ DealAll(S, Joined[i]) \in Y[i]
  <2>1. S \subseteq X[i - 1]
    BY <1>1
  <2>2. DealAll(S, Joined[i]) \subseteq X[i]
    BY <2>1 DEF DealAll
  <2> QED BY <1>1, <2>1, <2>2
<1>4. \A i \in 1..N, S \in SUBSET All : G[<<i, S>>] = DealAll(S, Joined[i])
  OBVIOUS
<1> HIDE DEF G, Y, All, start
<1>5. PICK f : Chains(f, start, G, N, Y)
  <2>1. Climbs(G, N, Y)
    BY <1>3, <1>4 DEF Climbs
  <2> QED BY <1>1, <1>2, <2>1, Chain
<1>6. DOMAIN f = 0..N /\ f[0] = start /\ \A i \in 1..N : f[i] = DealAll(f[i - 1], Joined[i])
  <2>1. ASSUME NEW i \in 1..N PROVE f[i] = DealAll(f[i - 1], Joined[i])
    <3>1. f[i - 1] \in Y[i - 1] /\ f[i] = G[<<i, f[i - 1]>>]
      BY <1>1, <1>5 DEF Chains
    <3> QED BY <1>3, <1>4, <3>1
  <2> QED BY <1>5, <2>1 DEF Chains
<1> DEFINE dealt == CHOOSE dealt : dealt =
              [i \in 0..N |-> IF i = 0 THEN {Bared(t, w)}
                              ELSE UNION {DealPack(u, Joined[i]) : u \in dealt[i - 1]}]
<1>7. dealt = [i \in 0..N |-> IF i = 0 THEN start ELSE DealAll(dealt[i - 1], Joined[i])]
  <2> DEFINE g == [i \in 0..N |-> f[i]]
  <2>1. \A i \in 0..N : f[i] = IF i = 0 THEN start ELSE DealAll(f[i - 1], Joined[i])
    BY <1>1, <1>6
  <2>2. g = [i \in 0..N |-> IF i = 0 THEN start ELSE DealAll(g[i - 1], Joined[i])]
    <3>1. \A i \in 0..N : g[i] = IF i = 0 THEN start ELSE DealAll(g[i - 1], Joined[i])
      BY <1>1, <2>1
    <3>2. g = [i \in 0..N |-> g[i]]
      OBVIOUS
    <3> HIDE DEF g
    <3> QED BY <3>1, <3>2
  <2>3. \E o : o = [i \in 0..N |-> IF i = 0 THEN start ELSE DealAll(o[i - 1], Joined[i])]
    <3> HIDE DEF g
    <3> QED BY <2>2
  <2> QED BY <2>3 DEF start, DealAll
<1>8. OpenRound(t, w) = dealt[N]
  BY DEF OpenRound, Bared, Nothing, NoPacks
<1> HIDE DEF dealt
<1>9. dealt[0] \in Y[0]
  BY <1>1, <1>2, <1>7
<1>10. ASSUME NEW i \in 1..N, dealt[i - 1] \in Y[i - 1] PROVE dealt[i] \in Y[i]
  <2>1. i \in 0..N /\ i # 0
    BY <1>1
  <2>2. dealt[i] = DealAll(dealt[i - 1], Joined[i])
    BY <1>7, <2>1
  <2> QED BY <1>3, <1>10, <2>2
<1>11. dealt[N] \in Y[N]
  BY <1>1, <1>9, <1>10, Along
<1> QED BY <1>1, <1>8, <1>11 DEF Y

(* Rounds are opened until one deals something. *)
OpensIn(t, w, X) ==
    /\ OpenRound(t, w) \subseteq X[w]
    /\ \A v \in (w + 1)..Waves : \A u \in X[v - 1] :
          (IF DealtTo(u) # {} THEN {u} ELSE OpenRound(u, v)) \subseteq X[v]

LEMMA RoundsFromIn ==
  ASSUME config \in Tables, NEW w \in 1..Waves, NEW t, NEW X, OpensIn(t, w, X),
         NEW x \in RoundsFrom(t, w)
  PROVE  \E u \in X[Waves] : x = IF DealtTo(u) = {} THEN Complete(u) ELSE u
<1> DEFINE n == Waves - w
           start == OpenRound(t, w)
           All == UNION {X[i] : i \in w..Waves}
           Y == [i \in 0..n |-> SUBSET X[w + i]]
           G == [p \in (1..n) \X SUBSET All |-> NextRound(p[2], w + p[1])]
<1>1. /\ w \in Nat /\ Waves \in Nat /\ w >= 1 /\ w <= Waves /\ n \in Nat /\ w + n = Waves
      /\ 0 \in 0..n /\ w + 0 = w /\ n \in 0..n
  BY RoundsAre
<1>2. start \in Y[0]
  BY <1>1 DEF OpensIn
<1>3. \A i \in 1..n : \A S \in Y[i - 1] : S \in SUBSET All /\ NextRound(S, w + i) \in Y[i]
  <2>1. ASSUME NEW i \in 1..n, NEW S \in Y[i - 1]
        PROVE  S \in SUBSET All /\ NextRound(S, w + i) \in Y[i]
    <3> DEFINE v == w + i
               a == w + (i - 1)
    <3>1. i \in 0..n /\ i - 1 \in 0..n /\ v \in (w + 1)..Waves /\ a = v - 1 /\ a \in w..Waves
      BY <1>1
    <3>2. S \subseteq X[a]
      BY <3>1
    <3> HIDE DEF v, a
    <3>3. \A u \in S : (IF DealtTo(u) # {} THEN {u} ELSE OpenRound(u, v)) \subseteq X[v]
      BY <3>1, <3>2 DEF OpensIn
    <3>4. NextRound(S, v) \subseteq X[v]
      BY <3>3 DEF NextRound
    <3> QED BY <3>1, <3>2, <3>4 DEF v
  <2> QED BY <2>1
<1>4. \A i \in 1..n, S \in SUBSET All : G[<<i, S>>] = NextRound(S, w + i)
  OBVIOUS
<1> HIDE DEF G, Y, All, start, n
<1>5. PICK f : Chains(f, start, G, n, Y)
  <2>1. Climbs(G, n, Y)
    BY <1>3, <1>4 DEF Climbs
  <2> QED BY <1>1, <1>2, <2>1, Chain
<1>6. f[0] = start /\ \A i \in 1..n : f[i] = NextRound(f[i - 1], w + i)
  <2>1. ASSUME NEW i \in 1..n PROVE f[i] = NextRound(f[i - 1], w + i)
    <3>1. i - 1 \in 0..n
      BY <1>1
    <3>2. f[i - 1] \in Y[i - 1] /\ f[i] = G[<<i, f[i - 1]>>]
      BY <1>5, <3>1 DEF Chains
    <3> QED BY <1>3, <1>4, <3>2
  <2> QED BY <1>5, <2>1 DEF Chains
<1> DEFINE opened == CHOOSE all : all =
              [v \in w..Waves |-> IF v = w THEN OpenRound(t, w)
                  ELSE UNION {IF DealtTo(u) # {} THEN {u} ELSE OpenRound(u, v) : u \in all[v - 1]}]
<1>7. opened = [v \in w..Waves |-> IF v = w THEN start ELSE NextRound(opened[v - 1], v)]
  <2> DEFINE g == [v \in w..Waves |-> f[v - w]]
  <2>1. ASSUME NEW v \in w..Waves
        PROVE  g[v] = IF v = w THEN start ELSE NextRound(g[v - 1], v)
    <3>1. CASE v = w
      BY <1>1, <1>6, <3>1
    <3>2. CASE v # w
      <4> DEFINE i == v - w
      <4>1. i \in 1..n /\ v - 1 \in w..Waves /\ (v - 1) - w = i - 1 /\ w + i = v
        BY <1>1, <3>2 DEF n
      <4>2. g[v - 1] = f[i - 1] /\ g[v] = f[i]
        BY <4>1
      <4> HIDE DEF g, i
      <4>3. f[i] = NextRound(f[i - 1], w + i)
        BY <1>6, <4>1
      <4> QED BY <3>2, <4>1, <4>2, <4>3
    <3> QED BY <3>1, <3>2
  <2>2. g = [v \in w..Waves |-> IF v = w THEN start ELSE NextRound(g[v - 1], v)]
    <3>1. g = [v \in w..Waves |-> g[v]]
      OBVIOUS
    <3> HIDE DEF g
    <3> QED BY <2>1, <3>1
  <2>3. \E o : o = [v \in w..Waves |-> IF v = w THEN start ELSE NextRound(o[v - 1], v)]
    <3> HIDE DEF g
    <3> QED BY <2>2
  <2> QED BY <2>3 DEF start, NextRound
<1>13. PICK u \in opened[Waves] : x = IF DealtTo(u) = {} THEN Complete(u) ELSE u
  BY DEF RoundsFrom
<1> HIDE DEF opened
<1> DEFINE h == [i \in 0..n |-> opened[w + i]]
<1>8. h[0] \in Y[0]
  <2>1. h[0] = opened[w] /\ w \in w..Waves
    BY <1>1
  <2> HIDE DEF h
  <2>2. opened[w] = start
    BY <1>7, <2>1
  <2> QED BY <1>2, <2>1, <2>2
<1>9. ASSUME NEW i \in 1..n, h[i - 1] \in Y[i - 1] PROVE h[i] \in Y[i]
  <2> DEFINE v == w + i
  <2>1. v \in w..Waves /\ v # w /\ v - 1 = w + (i - 1) /\ i - 1 \in 0..n /\ i \in 0..n
    BY <1>1 DEF n
  <2>2. h[i] = opened[v] /\ h[i - 1] = opened[v - 1]
    BY <2>1
  <2> HIDE DEF v, h
  <2>3. opened[v] = NextRound(opened[v - 1], v)
    BY <1>7, <2>1
  <2>4. opened[v] = NextRound(h[i - 1], w + i)
    BY <2>2, <2>3 DEF v
  <2> QED BY <1>3, <1>9, <2>2, <2>4
<1>10. h[n] = opened[Waves]
  BY <1>1
<1> HIDE DEF h
<1>11. h[n] \in Y[n]
  BY <1>1, <1>8, <1>9, Along
<1>12. Y[n] = SUBSET X[Waves]
  BY <1>1 DEF Y
<1> QED BY <1>10, <1>11, <1>12, <1>13

(* An expired step takes cards for seats, and settles the table once. *)
LEMMA ExpiredIn ==
  ASSUME config \in Tables, NEW X, NEW t \in X,
         \A u \in X : \A s \in Seats, c \in Names : Take(u, s, c) \subseteq X,
         ~IsTheme => \A u \in X : Settle(u) \subseteq X
  PROVE  Expired(t) \subseteq X
<1> DEFINE start == {t}
           Y == SUBSET X
           G == [p \in (1..N) \X Y |-> PickForAll(t, p[2], Joined[p[1]])]
<1>1. N \in Nat /\ 0 \in 0..N /\ N \in 0..N /\ (\A i \in 1..N : i \in 0..N /\ i - 1 \in 0..N)
      /\ \A i \in 1..N : Joined[i] \in Seats
  BY ConfigIs
<1>2. start \in Y
  OBVIOUS
<1>3. ASSUME NEW i \in 1..N, NEW S \in Y PROVE PickForAll(t, S, Joined[i]) \in Y
  <2>1. \A u \in S : PickFor(t, u, Joined[i]) \subseteq X
    BY <1>1 DEF PickFor
  <2> QED BY <2>1 DEF PickForAll
<1>4. \A i \in 1..N, S \in Y : G[<<i, S>>] = PickForAll(t, S, Joined[i])
  <2> HIDE DEF Y
  <2> QED OBVIOUS
<1> HIDE DEF G, Y, start
<1>5. PICK f : Follows(f, start, G, N, Y)
  <2>1. StepsIn(G, N, Y)
    BY <1>3, <1>4 DEF StepsIn
  <2> QED BY <1>1, <1>2, <2>1, Recursion
<1>6. f \in [0..N -> Y] /\ f[0] = start
      /\ \A i \in 1..N : f[i] = PickForAll(t, f[i - 1], Joined[i])
  <2>1. f \in [0..N -> Y] /\ f[0] = start /\ \A i \in 1..N : f[i] = G[<<i, f[i - 1]>>]
    BY <1>5 DEF Follows
  <2>2. ASSUME NEW i \in 1..N PROVE f[i] = PickForAll(t, f[i - 1], Joined[i])
    BY <1>1, <1>4, <2>1
  <2> QED BY <2>1, <2>2
<1> DEFINE picked == CHOOSE picked : picked =
            [i \in 0..N |-> IF i = 0 THEN {t} ELSE UNION {PickFor(t, u, Joined[i]) : u \in picked[i - 1]}]
<1>7. picked = [i \in 0..N |-> IF i = 0 THEN start ELSE PickForAll(t, picked[i - 1], Joined[i])]
  <2>1. \A i \in 0..N : f[i] = IF i = 0 THEN start ELSE PickForAll(t, f[i - 1], Joined[i])
    BY <1>1, <1>6
  <2>2. f = [i \in 0..N |-> IF i = 0 THEN start ELSE PickForAll(t, f[i - 1], Joined[i])]
    BY <1>6, <2>1
  <2>3. \E g : g = [i \in 0..N |-> IF i = 0 THEN start ELSE PickForAll(t, g[i - 1], Joined[i])]
    BY <2>2
  <2> QED BY <2>3 DEF start, PickForAll
<1>8. Expired(t) = IF IsTheme THEN picked[N] ELSE UNION {Settle(u) : u \in picked[N]}
  BY DEF Expired, PickFor
<1> HIDE DEF picked
<1> DEFINE Z == [i \in 0..N |-> Y]
<1>9. picked[0] \in Z[0]
  BY <1>1, <1>2, <1>7
<1>10. ASSUME NEW i \in 1..N, picked[i - 1] \in Z[i - 1] PROVE picked[i] \in Z[i]
  <2>1. i \in 0..N /\ i # 0 /\ picked[i - 1] \in Y
    BY <1>1, <1>10
  <2>2. picked[i] = PickForAll(t, picked[i - 1], Joined[i])
    BY <1>7, <2>1
  <2> QED BY <1>3, <2>1, <2>2
<1> HIDE DEF Z
<1>11. picked[N] \in Z[N]
  BY <1>1, <1>9, <1>10, Along
<1> QED BY <1>1, <1>8, <1>11 DEF Z, Y
-----------------------------------------------------------------------------
(* What a seat of a theme draft has, by rounds.                            *)

(* The copies of a card that a seat may get from the extra pool of its      *)
(* theme, and how many cards of that pool it took.                         *)
Copies(t, s, c) == themes[t.theme[s]].extra[c]
Offers(t, s) ==
    [c \in Names |-> LET copies == themes[t.theme[s]].extra[c]
                     IN  IF CopyLimit THEN Least(copies, MaxCopies) ELSE copies]
Extras(t, s) == SumFunction([c \in Names |-> IF Copies(t, s, c) > 0 THEN t.pool[s][c] ELSE 0])

(* The account of seat s after k rounds: a main card of each main round, as *)
(* many cards as rounds unless it has finished, and whoever finished has   *)
(* the whole extra pool, unless what it was shown burned.                  *)
Account(t, s, k) ==
    /\ t.main[s] = Least(MainTarget, k)
    /\ Count(t, s) = t.main[s] + Extras(t, s) /\ Count(t, s) <= Waves
    /\ \A c \in Names : Copies(t, s, c) > 0 => t.pool[s][c] <= Offers(t, s)[c]
    /\ s \notin t.finished => Count(t, s) = k
    /\ s \in t.finished =>
          k >= MainTarget /\ (~Burn => Extras(t, s) = Least(ExtraSize, Size(Offers(t, s))))

(* Everything shown to a seat, before this round and with it.              *)
Before(t, s) == SumFunction([c \in Names |-> Used(t, s, c)])
Altogether(t, s) == SumFunction([c \in Names |-> Given(t, s, c)])

(* A seat before its pick of this round and after it.                      *)
OnOffer(t, s) == \A c \in Names : t.deal[t.wave][s][c] > 0 => c \in Candidates(t, s)
Waits(t, s) ==
    /\ Account(t, s, t.wave - 1) /\ OnOffer(t, s)
    /\ Burn => \A c \in Names : t.pool[s][c] <= Used(t, s, c)
Chose(t, s) ==
    /\ Account(t, s, t.wave) /\ t.deal[t.wave][s] # Empty
    /\ Burn => \A c \in Names : t.pool[s][c] <= Given(t, s, c)
Metered(t, s) ==
    Burn => Before(t, s) <= (t.wave - 1) * PackSize /\ Size(t.deal[t.wave][s]) <= PackSize

(* A round, while packs are dealt and when all are; a seat without a pack   *)
(* has finished.                                                           *)
Suited(t) == \A s \in Seats : LargeEnough(t.theme[s])
InRound(t) ==
    /\ Suited(t)
    /\ \A s \in Seats : Metered(t, s) /\ IF s \in t.picked THEN Chose(t, s) ELSE Waits(t, s)
Served(t, s) == s \in t.finished \/ t.deal[t.wave][s] # Empty
Provided(t) == InRound(t) /\ \A s \in Seats : Served(t, s)

(* Between two rounds, and at the end.                                     *)
Carried(t, w) ==
    /\ Suited(t)
    /\ \A s \in Seats :
          /\ Account(t, s, w - 1)
          /\ Burn => /\ \A c \in Names : t.pool[s][c] <= Given(t, s, c)
                     /\ Altogether(t, s) <= (w - 1) * PackSize
Enough(t, s) ==
    LET extra == Least(ExtraSize, Size(Offers(t, s)))
    IN  /\ t.main[s] = MainTarget
        /\ Count(t, s) <= MainTarget + extra
        /\ ~Burn => Count(t, s) = MainTarget + extra
Good(t) ==
    /\ t.status = "active" => Provided(t)
    /\ t.status = "completed" => \A s \in Seats : Enough(t, s)

Lasting ==
    IsTheme /\ edits = 0 => themes \in ThemePools(config) /\ Good(table)

-----------------------------------------------------------------------------
(* What an account is made of.                                             *)

LEMMA ThemeIs ==
  ASSUME config \in Tables, IsTheme, themes \in ThemePools(config)
  PROVE  /\ themes \in [config.themes -> Theme]
         /\ MainRounds = MainTarget /\ Waves = MainTarget + ExtraSize
         /\ \A w : Phase(w) = IF w > MainTarget THEN "extra" ELSE "main"
         /\ \A t : t.theme \in Assignments => \A s \in Seats :
               /\ themes[t.theme[s]].main \in Pool /\ themes[t.theme[s]].extra \in Pool
               /\ \A c \in Names : Copies(t, s, c) \in Nat /\ themes[t.theme[s]].main[c] \in Nat
               /\ \A c \in Names : themes[t.theme[s]].main[c] = 0 \/ Copies(t, s, c) = 0
               /\ \A c \in (MainNames \cup ExtraNames) \ Names : themes[t.theme[s]].main[c] = 0
<1>1. /\ ThemePools(config) \subseteq [config.themes -> Theme]
      /\ \A p \in ThemePools(config), k \in config.themes : Filed(config, p[k])
  BY TableAssumption
<1>2. themes \in [config.themes -> Theme] /\ \A k \in config.themes : Filed(config, themes[k])
  BY <1>1
<1>3. MainRounds = MainTarget /\ Waves = MainTarget + ExtraSize
  BY DEF MainRounds, Waves
<1>4. ASSUME NEW t, t.theme \in Assignments, NEW s \in Seats
      PROVE  /\ themes[t.theme[s]].main \in Pool /\ themes[t.theme[s]].extra \in Pool
             /\ \A c \in Names : Copies(t, s, c) \in Nat /\ themes[t.theme[s]].main[c] \in Nat
             /\ \A c \in Names : themes[t.theme[s]].main[c] = 0 \/ Copies(t, s, c) = 0
             /\ \A c \in (MainNames \cup ExtraNames) \ Names : themes[t.theme[s]].main[c] = 0
  <2> DEFINE theme == themes[t.theme[s]]
  <2>1. t.theme[s] \in config.themes
    BY <1>4 DEF Assignments
  <2>2. theme \in Theme /\ Filed(config, theme)
    BY <1>2, <2>1
  <2>3. theme.main \in Pool /\ theme.extra \in Pool
    BY <2>2 DEF Theme
  <2>4. Names \subseteq MainNames \cup ExtraNames
    BY DEF Names
  <2>5. \A c \in MainNames \cup ExtraNames : theme.main[c] \in Nat /\ theme.extra[c] \in Nat
    BY <2>3 DEF Pool
  <2>6. \A c \in MainNames \cup ExtraNames : theme.main[c] = 0 \/ theme.extra[c] = 0
    BY <2>2 DEF Filed
  <2>7. ASSUME NEW c \in (MainNames \cup ExtraNames) \ Names PROVE theme.main[c] = 0
    <3>1. ~(ExtraSize > 0) /\ c \notin MainNames
      BY DEF Names
    <3>2. config.extraSize = 0
      BY <3>1, ConfigIs DEF ExtraSize
    <3> QED BY <2>2, <3>1, <3>2 DEF Filed
  <2> HIDE DEF theme
  <2> QED BY <2>3, <2>4, <2>5, <2>6, <2>7 DEF theme, Copies
<1> QED BY <1>2, <1>3, <1>4 DEF Phase

LEMMA LeastIs ==
  ASSUME NEW a \in Int, NEW b \in Int
  PROVE  /\ Least(a, b) \in {a, b} /\ Least(a, b) <= a /\ Least(a, b) <= b
         /\ a <= b => Least(a, b) = a
         /\ b <= a => Least(a, b) = b
BY DEF Least

(* What is offered of a card, and what is had of the extra pool. *)
LEMMA OffersAre ==
  ASSUME config \in Tables, IsTheme, themes \in ThemePools(config),
         NEW t \in Row, t.theme \in Assignments, NEW s \in Seats
  PROVE  /\ Offers(t, s) \in [Names -> Nat] /\ Size(Offers(t, s)) \in Nat
         /\ [c \in Names |-> IF Copies(t, s, c) > 0 THEN t.pool[s][c] ELSE 0] \in [Names -> Nat]
         /\ Extras(t, s) \in Nat
         /\ \A c \in Names : /\ t.pool[s][c] \in Nat /\ Copies(t, s, c) \in Nat
                             /\ Offers(t, s)[c] <= Copies(t, s, c)
                             /\ CopyLimit => Offers(t, s)[c] <= MaxCopies
                             /\ Offers(t, s)[c] = Copies(t, s, c)
                                \/ (CopyLimit /\ Offers(t, s)[c] = MaxCopies)
<1>1. /\ MaxCopies \in Nat /\ CopyLimit \in BOOLEAN /\ IsFiniteSet(Names)
      /\ t.pool \in [Seats -> [Names -> Nat]]
  BY ConfigIs, FiniteSets DEF Row, Bag
<1>2. \A c \in Names : t.pool[s][c] \in Nat /\ Copies(t, s, c) \in Nat
  BY <1>1, ThemeIs
<1> DEFINE has == [c \in Names |-> IF Copies(t, s, c) > 0 THEN t.pool[s][c] ELSE 0]
<1>3. has \in [Names -> Nat]
  BY <1>2
<1>4. ASSUME NEW c \in Names
      PROVE  /\ Offers(t, s)[c] \in Nat /\ Offers(t, s)[c] <= Copies(t, s, c)
             /\ CopyLimit => Offers(t, s)[c] <= MaxCopies
             /\ Offers(t, s)[c] = Copies(t, s, c) \/ (CopyLimit /\ Offers(t, s)[c] = MaxCopies)
  <2>1. Offers(t, s)[c] = IF CopyLimit THEN Least(Copies(t, s, c), MaxCopies) ELSE Copies(t, s, c)
    BY DEF Offers, Copies
  <2>2. Copies(t, s, c) \in Nat
    BY <1>2
  <2>3. /\ Least(Copies(t, s, c), MaxCopies) \in {Copies(t, s, c), MaxCopies}
        /\ Least(Copies(t, s, c), MaxCopies) <= Copies(t, s, c)
        /\ Least(Copies(t, s, c), MaxCopies) <= MaxCopies
    BY <1>1, <2>2, LeastIs
  <2> QED BY <1>1, <2>1, <2>2, <2>3
<1>5. Offers(t, s) \in [Names -> Nat]
  BY <1>4 DEF Offers
<1>6. Size(Offers(t, s)) \in Nat
  BY <1>1, <1>5, SumsNat DEF Size
<1> HIDE DEF has
<1>7. SumFunction(has) \in Nat
  BY <1>1, <1>3, SumsNat
<1> QED BY <1>2, <1>3, <1>4, <1>5, <1>6, <1>7 DEF Extras, has

LEMMA ExtrasWithin ==
  ASSUME config \in Tables, IsTheme, themes \in ThemePools(config),
         NEW t \in Row, t.theme \in Assignments, NEW s \in Seats,
         \A c \in Names : Copies(t, s, c) > 0 => t.pool[s][c] <= Offers(t, s)[c]
  PROVE  Extras(t, s) <= Size(Offers(t, s))
<1> DEFINE has == [c \in Names |-> IF Copies(t, s, c) > 0 THEN t.pool[s][c] ELSE 0]
           offers == Offers(t, s)
<1>1. /\ offers \in [Names -> Nat] /\ has \in [Names -> Nat] /\ IsFiniteSet(Names)
  BY OffersAre, FiniteSets
<1>2. ASSUME NEW c \in Names PROVE has[c] <= offers[c]
  <2>1. has[c] = IF Copies(t, s, c) > 0 THEN t.pool[s][c] ELSE 0
    OBVIOUS
  <2>2. offers[c] \in Nat
    BY <1>1
  <2> HIDE DEF has
  <2> QED BY <2>1, <2>2
<1>3. Extras(t, s) = SumFunction(has) /\ Size(offers) = SumFunction(offers)
  BY DEF Extras, Size
<1> HIDE DEF has, offers
<1>4. SumFunction(has) <= SumFunction(offers)
  BY <1>1, <1>2, SumsOrder
<1> QED BY <1>3, <1>4 DEF offers

(* An account depends on the cards of its seat alone. *)
LEMMA AccountSame ==
  ASSUME NEW t, NEW u, NEW s, NEW k, u.pool[s] = t.pool[s], u.main[s] = t.main[s],
         u.theme = t.theme, s \in u.finished <=> s \in t.finished
  PROVE  Account(u, s, k) <=> Account(t, s, k)
<1>1. Count(u, s) = Count(t, s)
  BY DEF Count
<1>2. \A c : Copies(u, s, c) = Copies(t, s, c)
  BY DEF Copies
<1>3. Offers(u, s) = Offers(t, s)
  BY DEF Offers
<1>4. Extras(u, s) = Extras(t, s)
  BY DEF Extras, Copies
<1> QED BY <1>1, <1>2, <1>3, <1>4 DEF Account

(* Who has finished stays so. *)
LEMMA AccountOn ==
  ASSUME config \in Tables, NEW t, NEW s, NEW k \in Nat, s \in t.finished, Account(t, s, k)
  PROVE  Account(t, s, k + 1)
<1>1. MainTarget \in Nat
  BY ConfigIs
<1>2. k >= MainTarget
  BY DEF Account
<1>3. Least(MainTarget, k) = MainTarget /\ Least(MainTarget, k + 1) = MainTarget
  BY <1>1, <1>2, LeastIs
<1> QED BY <1>1, <1>2, <1>3 DEF Account

(* What whoever has finished ends with. *)
LEMMA AccountEnds ==
  ASSUME config \in Tables, IsTheme, themes \in ThemePools(config),
         NEW t \in Row, t.theme \in Assignments, NEW s \in Seats,
         NEW k \in Nat, s \in t.finished, Account(t, s, k)
  PROVE  Enough(t, s)
<1> DEFINE offers == Size(Offers(t, s))
           extras == Extras(t, s)
<1>1. /\ MainTarget \in Nat /\ ExtraSize \in Nat /\ Waves = MainTarget + ExtraSize
      /\ offers \in Nat /\ extras \in Nat
  BY ConfigIs, ThemeIs, OffersAre
<1>2. /\ t.main[s] = Least(MainTarget, k) /\ Count(t, s) = t.main[s] + extras
      /\ Count(t, s) <= Waves /\ k >= MainTarget
      /\ ~Burn => extras = Least(ExtraSize, offers)
  BY DEF Account
<1>3. extras <= offers
  BY ExtrasWithin DEF Account
<1> HIDE DEF offers, extras
<1>4. t.main[s] = MainTarget
  BY <1>1, <1>2, LeastIs
<1>5. extras <= ExtraSize
  BY <1>1, <1>2, <1>4
<1>6. extras <= Least(ExtraSize, offers) /\ Least(ExtraSize, offers) \in Nat
  BY <1>1, <1>3, <1>5, LeastIs
<1>7. Count(t, s) <= MainTarget + Least(ExtraSize, offers)
  BY <1>1, <1>2, <1>4, <1>6
<1>8. ~Burn => Count(t, s) = MainTarget + Least(ExtraSize, offers)
  BY <1>2, <1>4
<1> QED BY <1>4, <1>7, <1>8 DEF Enough, offers

(* A seat whom the extra pool offers nothing more has what it offered. *)
LEMMA AccountDry ==
  ASSUME config \in Tables, IsTheme, themes \in ThemePools(config),
         NEW t \in Wholes, t.theme \in Assignments, NEW s \in Seats, NEW k \in Nat, k >= MainTarget,
         Account(t, s, k), s \notin t.finished, Phase(t.wave) = "extra", Candidates(t, s) = {},
         NEW u, u.pool[s] = t.pool[s], u.main[s] = t.main[s], u.theme = t.theme
  PROVE  Account(u, s, k)
<1> DEFINE has == [c \in Names |-> IF Copies(t, s, c) > 0 THEN t.pool[s][c] ELSE 0]
           offers == Offers(t, s)
           extras == Extras(t, s)
<1>0. t \in Row
  BY PartsOf
<1>1. /\ MainTarget \in Nat /\ ExtraSize \in Nat /\ Waves = MainTarget + ExtraSize
      /\ MaxCopies \in Nat /\ IsFiniteSet(Names)
      /\ offers \in [Names -> Nat] /\ has \in [Names -> Nat] /\ Size(offers) \in Nat
  BY <1>0, ConfigIs, ThemeIs, OffersAre, FiniteSets
<1>2. /\ t.main[s] = Least(MainTarget, k) /\ Count(t, s) = t.main[s] + extras
      /\ Count(t, s) <= Waves /\ Count(t, s) = k
      /\ \A c \in Names : Copies(t, s, c) > 0 => t.pool[s][c] <= offers[c]
  BY DEF Account
<1>3. ASSUME ~Burn, NEW c \in Names PROVE has[c] = offers[c]
  <2>1. /\ t.pool[s][c] \in Nat /\ Copies(t, s, c) \in Nat
        /\ offers[c] <= Copies(t, s, c) /\ (CopyLimit => offers[c] <= MaxCopies)
    BY <1>0, OffersAre
  <2>2. Used(t, s, c) = t.pool[s][c]
    BY <1>3 DEF Used
  <2>3. themes[t.theme[s]]["extra"][c] = Copies(t, s, c)
    BY DEF Copies
  <2>4. ~(Copies(t, s, c) > t.pool[s][c]) \/ (CopyLimit /\ t.pool[s][c] >= MaxCopies)
    BY <2>2, <2>3 DEF Candidates, Capped
  <2>5. has[c] = IF Copies(t, s, c) > 0 THEN t.pool[s][c] ELSE 0
    OBVIOUS
  <2>6. offers[c] \in Nat
    BY <1>1
  <2>7. Copies(t, s, c) > 0 => t.pool[s][c] <= offers[c]
    BY <1>2
  <2>8. t.pool[s][c] >= offers[c]
    BY <1>1, <2>1, <2>4, <2>6
  <2> HIDE DEF has, offers
  <2> QED BY <2>1, <2>5, <2>6, <2>7, <2>8
<1>4. ASSUME ~Burn PROVE extras = Least(ExtraSize, Size(offers))
  <2>1. extras = SumFunction(has) /\ Size(offers) = SumFunction(offers)
    BY DEF Extras, Size
  <2> HIDE DEF has, offers
  <2>2. SumFunction(has) = SumFunction(offers)
    BY <1>1, <1>3, <1>4, SumsSame
  <2>3. t.main[s] = MainTarget
    BY <1>1, <1>2, LeastIs
  <2> HIDE DEF extras
  <2>4. Size(offers) <= ExtraSize
    BY <1>1, <1>2, <2>1, <2>2, <2>3
  <2> QED BY <1>1, <2>1, <2>2, <2>4, LeastIs
<1>5. Count(u, s) = Count(t, s)
  BY DEF Count
<1>6. \A c : Copies(u, s, c) = Copies(t, s, c)
  BY DEF Copies
<1>7. Offers(u, s) = offers
  BY DEF Offers
<1>8. Extras(u, s) = extras
  BY DEF Extras, Copies
<1> HIDE DEF has, offers, extras
<1> QED BY <1>2, <1>4, <1>5, <1>6, <1>7, <1>8 DEF Account

(* A card more of the extra pool, or of the main pool. *)
LEMMA ExtrasWith ==
  ASSUME config \in Tables, IsTheme, themes \in ThemePools(config),
         NEW t \in Wholes, t.theme \in Assignments, NEW s \in Seats, NEW c \in Names,
         NEW u, u.pool = PoolWith(t, s, c), u.theme = t.theme
  PROVE  Extras(u, s) = Extras(t, s) + (IF Copies(t, s, c) > 0 THEN 1 ELSE 0)
<1> DEFINE has == [d \in Names |-> IF Copies(t, s, d) > 0 THEN t.pool[s][d] ELSE 0]
           had == [d \in Names |-> IF Copies(u, s, d) > 0 THEN u.pool[s][d] ELSE 0]
<1>0. t \in Row
  BY PartsOf
<1>1. /\ IsFiniteSet(Names) /\ has \in [Names -> Nat] /\ SumFunction(has) \in Nat
      /\ \A d \in Names : Copies(t, s, d) \in Nat
  BY <1>0, FiniteSets, OffersAre, SumsNat
<1>2. \A d \in Names : /\ t.pool[s][d] \in Nat
                       /\ u.pool[s][d] = t.pool[s][d] + (IF d = c THEN 1 ELSE 0)
  BY PoolIs
<1>3. \A d : Copies(u, s, d) = Copies(t, s, d)
  BY DEF Copies
<1>4. had \in [Names -> Nat]
  BY <1>2
<1>5. \A d \in Names \ {c} : had[d] = has[d]
  BY <1>2, <1>3
<1>6. had[c] = has[c] + (IF Copies(t, s, c) > 0 THEN 1 ELSE 0)
  BY <1>1, <1>2, <1>3
<1>7. Extras(t, s) = SumFunction(has) /\ Extras(u, s) = SumFunction(had)
  BY DEF Extras
<1>8. has[c] \in Nat
  BY <1>1
<1> HIDE DEF has, had
<1>9. SumFunction(had) = SumFunction(has) + had[c] - has[c]
  BY <1>1, <1>4, <1>5, SumsChange
<1> QED BY <1>1, <1>6, <1>7, <1>8, <1>9

(* A pick of what a theme still offers. *)
LEMMA AccountTakes ==
  ASSUME config \in Tables, IsTheme, themes \in ThemePools(config),
         NEW t \in Wholes, Themed(t), t.theme \in Assignments, NEW s \in Seats, NEW c \in Names,
         NEW k \in Nat, t.wave = k + 1, Account(t, s, k), s \notin t.finished,
         c \in Candidates(t, s), Burn => \A d \in Names : t.pool[s][d] <= Used(t, s, d),
         NEW u \in Wholes, u.pool = PoolWith(t, s, c), u.theme = t.theme,
         u.main[s] = IF t.wave <= MainRounds THEN t.main[s] + 1 ELSE t.main[s],
         s \in u.finished <=> Count(t, s) + 1 >= Waves
  PROVE  Account(u, s, k + 1)
<1> DEFINE offers == Offers(t, s)
           copies == Copies(t, s, c)
           extras == Extras(t, s)
           pool == t.pool[s][c]
           used == Used(t, s, c)
           main == t.main[s]
           got == IF copies > 0 THEN 1 ELSE 0
<1>0. t \in Row /\ u \in Row
  BY PartsOf
<1>1. /\ MainTarget \in Nat /\ MainTarget >= 1 /\ ExtraSize \in Nat
      /\ Waves = MainTarget + ExtraSize /\ MainRounds = MainTarget /\ MaxCopies \in Nat
      /\ offers \in [Names -> Nat] /\ Size(offers) \in Nat /\ extras \in Nat
      /\ copies \in Nat /\ pool \in Nat /\ used \in Nat
      /\ themes[t.theme[s]].main[c] \in Nat
      /\ themes[t.theme[s]].main[c] = 0 \/ copies = 0
      /\ Phase(t.wave) = IF t.wave > MainTarget THEN "extra" ELSE "main"
  <2>1. /\ MainTarget \in Nat /\ MainTarget >= 1 /\ ExtraSize \in Nat /\ MaxCopies \in Nat
    BY ConfigIs
  <2>2. /\ Waves = MainTarget + ExtraSize /\ MainRounds = MainTarget
        /\ themes[t.theme[s]].main[c] \in Nat
        /\ themes[t.theme[s]].main[c] = 0 \/ copies = 0
        /\ Phase(t.wave) = IF t.wave > MainTarget THEN "extra" ELSE "main"
    BY ThemeIs
  <2>3. /\ offers \in [Names -> Nat] /\ Size(offers) \in Nat /\ extras \in Nat
        /\ copies \in Nat /\ pool \in Nat
    BY <1>0, OffersAre
  <2>4. used \in Nat
    BY UsedIs
  <2> HIDE DEF offers, copies, extras, pool, used
  <2> QED BY <2>1, <2>2, <2>3, <2>4
<1>2. /\ main = Least(MainTarget, k) /\ Count(t, s) = main + extras
      /\ Count(t, s) <= Waves /\ Count(t, s) = k
      /\ \A d \in Names : Copies(t, s, d) > 0 => t.pool[s][d] <= offers[d]
  BY DEF Account
<1>3. Count(t, s) < Waves
  BY DEF Themed, Unfilled
<1>4. Count(u, s) = Count(t, s) + 1
  BY CountWith
<1>5. Extras(u, s) = extras + got
  BY ExtrasWith
<1>6. \A d : Copies(u, s, d) = Copies(t, s, d)
  BY DEF Copies
<1>7. Offers(u, s) = offers
  BY DEF Offers
<1>8. \A d \in Names : /\ t.pool[s][d] \in Nat
                       /\ u.pool[s][d] = t.pool[s][d] + (IF d = c THEN 1 ELSE 0)
  BY PoolIs
<1>9. themes[t.theme[s]][Phase(t.wave)][c] > used /\ ~Capped(t, s, c)
  BY DEF Candidates
<1>10. themes[t.theme[s]].extra[c] = copies
  BY DEF Copies
<1>11. pool <= used
  <2>1. ~Burn => used = pool
    BY UsedIs
  <2>2. Burn => pool <= used
    OBVIOUS
  <2> QED BY <1>1, <2>1, <2>2
<1>12. /\ u.main[s] = Least(MainTarget, k + 1)
       /\ Count(u, s) = u.main[s] + Extras(u, s)
       /\ copies > 0 => pool + 1 <= offers[c]
  <2>1. CASE t.wave <= MainTarget
    <3>1. Phase(t.wave) = "main"
      BY <1>1, <2>1
    <3>2. themes[t.theme[s]].main[c] > used
      BY <1>9, <3>1
    <3>3. copies = 0
      BY <1>1, <3>2
    <3>4. u.main[s] = main + 1 /\ k + 1 <= MainTarget /\ k <= MainTarget
      BY <1>1, <2>1
    <3> HIDE DEF copies, extras, pool, used, main, offers
    <3>5. main = k /\ u.main[s] = Least(MainTarget, k + 1)
      BY <1>1, <1>2, <3>4, LeastIs
    <3> QED BY <1>1, <1>2, <1>4, <1>5, <3>3, <3>4, <3>5
  <2>2. CASE ~(t.wave <= MainTarget)
    <3>0. t.wave > MainTarget
      BY <1>1, <2>2
    <3>1. Phase(t.wave) = "extra"
      BY <1>1, <3>0
    <3>2. copies > used
      BY <1>9, <1>10, <3>1
    <3>3. copies > 0 /\ got = 1
      BY <1>1, <3>2
    <3>4. u.main[s] = main /\ k + 1 > MainTarget /\ k >= MainTarget
      BY <1>1, <2>2, <3>0
    <3>5. /\ offers[c] \in Nat
          /\ offers[c] = copies \/ (CopyLimit /\ offers[c] = MaxCopies)
      BY <1>0, <1>1, OffersAre
    <3>6. CopyLimit => ~(pool >= MaxCopies)
      BY <1>9 DEF Capped
    <3> HIDE DEF copies, extras, pool, used, main, offers, got
    <3>7. main = MainTarget /\ u.main[s] = Least(MainTarget, k + 1)
      BY <1>1, <1>2, <3>4, LeastIs
    <3>8. pool + 1 <= offers[c]
      BY <1>1, <1>11, <3>2, <3>5, <3>6
    <3> QED BY <1>1, <1>2, <1>4, <1>5, <3>3, <3>4, <3>7, <3>8
  <2> QED BY <2>1, <2>2
<1>13. \A d \in Names : Copies(u, s, d) > 0 => u.pool[s][d] <= Offers(u, s)[d]
  <2> SUFFICES ASSUME NEW d \in Names, Copies(t, s, d) > 0 PROVE u.pool[s][d] <= offers[d]
    BY <1>6, <1>7
  <2>1. CASE d = c
    BY <1>8, <1>12, <2>1
  <2>2. CASE d # c
    BY <1>2, <1>8, <2>2
  <2> QED BY <2>1, <2>2
<1>14. Count(u, s) = k + 1 /\ Count(u, s) <= Waves
  BY <1>1, <1>2, <1>3, <1>4
<1>15. ASSUME s \in u.finished
       PROVE  k + 1 >= MainTarget /\ Extras(u, s) = Least(ExtraSize, Size(Offers(u, s)))
  <2>1. k + 1 = Waves /\ k + 1 >= MainTarget
    BY <1>1, <1>2, <1>14, <1>15
  <2>2. u.main[s] = MainTarget
    BY <1>1, <1>12, <2>1, LeastIs
  <2>3. Extras(u, s) = ExtraSize
    <3>1. Extras(u, s) \in Nat
      BY <1>1, <1>5
    <3> QED BY <1>1, <1>12, <1>14, <2>1, <2>2, <3>1
  <2>4. Extras(u, s) <= Size(Offers(u, s))
    BY <1>0, <1>13, ExtrasWithin
  <2> HIDE DEF offers
  <2>5. Size(Offers(u, s)) \in Nat
    BY <1>1, <1>7
  <2> QED BY <1>1, <2>1, <2>3, <2>4, <2>5, LeastIs
<1> QED BY <1>12, <1>13, <1>14, <1>15 DEF Account

-----------------------------------------------------------------------------
(* A theme that passed the check lasts for the main rounds.                *)

LEMMA TimesLess ==
  ASSUME NEW a \in Nat, NEW b \in Nat, a < b, NEW p \in Nat, p >= 1
  PROVE  /\ a * p \in Nat /\ b * p \in Nat /\ a * p < b * p
         /\ (a + 1) * p = a * p + p
<1>1. PICK d \in Nat : b = a + 1 + d
  <2>1. b - a - 1 \in Nat /\ b = a + 1 + (b - a - 1)
    OBVIOUS
  <2> QED BY <2>1
<1>2. b * p = a * p + p + d * p /\ (a + 1) * p = a * p + p
  BY <1>1
<1>3. a * p \in Nat /\ b * p \in Nat /\ d * p \in Nat
  OBVIOUS
<1> QED BY <1>2, <1>3

(* The cards of a main pool, as often as a seat may take them. *)
Takable(t, s) ==
    [c \in Names |-> LET copies == themes[t.theme[s]].main[c]
                     IN  IF CopyLimit THEN Least(copies, MaxCopies) ELSE copies]

LEMMA TakableIs ==
  ASSUME config \in Tables, IsTheme, themes \in ThemePools(config),
         NEW t \in Row, t.theme \in Assignments, NEW s \in Seats, LargeEnough(t.theme[s])
  PROVE  /\ Takable(t, s) \in [Names -> Nat] /\ SumFunction(Takable(t, s)) >= Required
         /\ \A c \in Names : /\ Takable(t, s)[c] <= themes[t.theme[s]].main[c]
                             /\ CopyLimit => Takable(t, s)[c] <= MaxCopies
<1> DEFINE E == MainNames \cup ExtraNames
           main == themes[t.theme[s]].main
           least == [c \in DOMAIN main |-> Least(main[c], MaxCopies)]
           takable == Takable(t, s)
<1>1. /\ IsFiniteSet(E) /\ IsFiniteSet(Names) /\ Names \in SUBSET E /\ MaxCopies \in Nat
      /\ CopyLimit \in BOOLEAN
  <2>1. IsFiniteSet(E)
    BY NamesAssumption, FS_Union
  <2> QED BY <2>1, ConfigIs, FiniteSets DEF Names
<1>2. /\ main \in [E -> Nat] /\ \A c \in E \ Names : main[c] = 0
  BY ThemeIs DEF Pool
<1>3. Size(main) >= Required /\ (CopyLimit => Reach(main) >= Required)
  BY DEF LargeEnough
<1>4. \A c \in Names : takable[c] = IF CopyLimit THEN Least(main[c], MaxCopies) ELSE main[c]
  BY DEF Takable
<1>5. Size(main) = SumFunction(main) /\ Reach(main) = SumFunction(least)
  BY DEF Size, Reach
<1>6. DOMAIN main = E /\ DOMAIN takable = Names
  BY <1>2 DEF Takable
<1>7. least = [c \in E |-> Least(main[c], MaxCopies)]
  BY <1>6
<1> HIDE DEF E, main, least
<1>8. \A c \in E : /\ Least(main[c], MaxCopies) \in Nat /\ Least(main[c], MaxCopies) <= main[c]
                   /\ Least(main[c], MaxCopies) <= MaxCopies
                   /\ main[c] = 0 => Least(main[c], MaxCopies) = 0
  BY <1>1, <1>2, LeastIs DEF Least
<1>9. least \in [E -> Nat] /\ \A c \in E \ Names : least[c] = 0
  BY <1>2, <1>7, <1>8
<1>10. \A c \in Names : takable[c] \in Nat
  BY <1>1, <1>2, <1>4, <1>8
<1>11. takable \in [Names -> Nat]
  BY <1>10 DEF Takable
<1> HIDE DEF takable
<1>12. CASE CopyLimit
  <2>1. \A c \in Names : takable[c] = least[c]
    BY <1>1, <1>4, <1>7, <1>12
  <2>2. SumFunction(least) = SumFunction(takable)
    BY <1>1, <1>9, <1>11, <2>1, SumsWithin
  <2>3. \A c \in Names : takable[c] <= main[c] /\ takable[c] <= MaxCopies
    BY <1>1, <1>4, <1>8, <1>12
  <2> QED BY <1>3, <1>5, <1>11, <1>12, <2>2, <2>3 DEF takable, main
<1>13. CASE ~CopyLimit
  <2>1. \A c \in Names : takable[c] = main[c] /\ main[c] \in Nat
    BY <1>1, <1>2, <1>4, <1>13
  <2>2. SumFunction(main) = SumFunction(takable)
    BY <1>1, <1>2, <1>11, <2>1, SumsWithin
  <2>3. \A c \in Names : takable[c] <= main[c]
    BY <2>1
  <2> QED BY <1>3, <1>5, <1>11, <1>13, <2>2, <2>3 DEF takable, main
<1> QED BY <1>12, <1>13

LEMMA MainLasts ==
  ASSUME config \in Tables, IsTheme, themes \in ThemePools(config),
         NEW t \in Wholes, Themed(t), t.theme \in Assignments, NEW s \in Seats,
         LargeEnough(t.theme[s]), t.wave <= MainTarget,
         ~Burn => Count(t, s) <= t.wave - 1,
         Burn => /\ Before(t, s) <= (t.wave - 1) * PackSize
                 /\ \A c \in Names : t.pool[s][c] <= Used(t, s, c)
  PROVE  Candidates(t, s) # {}
<1> DEFINE used == [c \in Names |-> Used(t, s, c)]
           takable == Takable(t, s)
<1>0. t \in Row /\ t.wave \in Nat \ {0} /\ t.wave - 1 \in Nat
  BY PartsOf, RoundsAre
<1>1. /\ MainTarget \in Nat /\ PackSize \in Nat /\ PackSize >= 1 /\ MaxCopies \in Nat
      /\ IsFiniteSet(Names) /\ Phase(t.wave) = "main"
  <2>1. /\ MainTarget \in Nat /\ PackSize \in Nat /\ PackSize >= 1 /\ MaxCopies \in Nat
    BY ConfigIs
  <2>2. Phase(t.wave) = "main"
    BY <1>0, <2>1, ThemeIs
  <2> QED BY <2>1, <2>2, FiniteSets
<1>2. /\ takable \in [Names -> Nat] /\ SumFunction(takable) >= Required
      /\ \A c \in Names : /\ takable[c] <= themes[t.theme[s]].main[c]
                          /\ CopyLimit => takable[c] <= MaxCopies
  BY <1>0, TakableIs
<1>3. used \in [Names -> Nat] /\ \A c \in Names : used[c] = Used(t, s, c)
  BY UsedIs
<1>4. SumFunction(used) < Required
  <2>1. CASE Burn
    <3>1. SumFunction(used) <= (t.wave - 1) * PackSize
      BY <2>1 DEF Before
    <3>2. Required = MainTarget * PackSize
      BY <2>1 DEF Required
    <3>3. SumFunction(used) \in Nat
      BY <1>1, <1>3, SumsNat
    <3> DEFINE k == t.wave - 1
    <3>4. k \in Nat /\ k < MainTarget
      BY <1>0, <1>1
    <3> HIDE DEF k
    <3>5. k * PackSize < MainTarget * PackSize /\ k * PackSize \in Nat /\ MainTarget * PackSize \in Nat
      BY <1>1, <3>4, TimesLess
    <3> HIDE DEF used
    <3>6. SumFunction(used) <= k * PackSize
      BY <3>1 DEF k
    <3> QED BY <3>2, <3>3, <3>5, <3>6
  <2>2. CASE ~Burn
    <3>1. \A c \in Names : used[c] = t.pool[s][c]
      BY <1>3, <2>2, UsedIs
    <3>2. t.pool[s] \in [Names -> Nat]
      BY <1>0 DEF Row, Bag
    <3>3. Count(t, s) = SumFunction(t.pool[s])
      BY DEF Count, Size
    <3> HIDE DEF used
    <3>4. SumFunction(used) = Count(t, s) /\ Count(t, s) \in Nat
      BY <1>1, <1>3, <3>1, <3>2, <3>3, SumsSame, SumsNat
    <3>5. Required = MainTarget + PackSize - 1
      BY <2>2 DEF Required
    <3> QED BY <1>0, <1>1, <2>2, <3>4, <3>5
  <2> QED BY <2>1, <2>2
<1>5. PICK c \in Names : used[c] < takable[c]
  <2>1. SumFunction(used) < SumFunction(takable)
    <3>1. SumFunction(used) \in Nat /\ SumFunction(takable) \in Nat
      BY <1>1, <1>2, <1>3, SumsNat
    <3>2. Required \in Nat
      <4>1. CASE Burn
        BY <1>1, <4>1 DEF Required
      <4>2. CASE ~Burn
        BY <1>1, <4>2 DEF Required
      <4> QED BY <4>1, <4>2
    <3> HIDE DEF used, takable
    <3> QED BY <1>2, <1>4, <3>1, <3>2
  <2> HIDE DEF used, takable
  <2> QED BY <1>1, <1>2, <1>3, <2>1, SumsLarger
<1>6. /\ used[c] = Used(t, s, c) /\ used[c] \in Nat /\ takable[c] \in Nat
      /\ takable[c] <= themes[t.theme[s]].main[c] /\ (CopyLimit => takable[c] <= MaxCopies)
      /\ themes[t.theme[s]].main[c] \in Nat
  <2>1. themes[t.theme[s]].main[c] \in Nat
    BY ThemeIs
  <2> HIDE DEF used, takable
  <2> QED BY <1>2, <1>3, <2>1
<1>7. t.pool[s][c] <= Used(t, s, c) /\ t.pool[s][c] \in Nat
  <2>1. t.pool[s][c] \in Nat
    BY <1>0 DEF Row, Bag
  <2>2. ~Burn => Used(t, s, c) = t.pool[s][c]
    BY UsedIs
  <2> QED BY <2>1, <2>2
<1> HIDE DEF used, takable
<1>8. themes[t.theme[s]]["main"][c] > Used(t, s, c)
  BY <1>5, <1>6
<1>9. ~Capped(t, s, c)
  BY <1>1, <1>5, <1>6, <1>7 DEF Capped
<1> QED BY <1>1, <1>8, <1>9 DEF Candidates

-----------------------------------------------------------------------------
(* A round is opened, and packs are dealt.                                 *)

LEMMA BaredRound ==
  ASSUME config \in Tables, IsTheme, NEW w \in 1..Waves, NEW t, Between(t, w), Carried(t, w)
  PROVE  InRound(Bared(t, w))
<1> DEFINE u == Bared(t, w)
<1>1. /\ u \in Wholes /\ u.picked = {} /\ u.wave = w /\ u.pool = t.pool /\ u.theme = t.theme
      /\ u.deal = With(t.deal, w, Nothing)
  BY BaredWhole
<1>2. DOMAIN t.deal = 1..(w - 1) /\ t \in Row
  BY DEF Between
<1>3. u.main = t.main /\ u.finished = t.finished
  BY <1>2 DEF Bared, Row
<1>4. w \in Nat \ {0} /\ PackSize \in Nat
  BY RoundsAre, ConfigIs
<1>5. /\ DOMAIN u.deal = 1..w /\ u.deal[w] = Nothing
      /\ \A v \in 1..(w - 1) : u.deal[v] = t.deal[v]
  BY <1>1, <1>2, <1>4, WithIs
<1> HIDE DEF u
<1>6. \A s \in Seats : u.deal[u.wave][s] = Empty
  BY <1>1, <1>5 DEF Nothing
<1>7. ASSUME Burn, NEW s \in Seats, NEW c \in Names PROVE Used(u, s, c) = Given(t, s, c)
  <2>1. [v \in 1..(w - 1) |-> u.deal[v][s][c]] = [v \in DOMAIN t.deal |-> t.deal[v][s][c]]
    BY <1>2, <1>5
  <2> QED BY <1>1, <1>7, <2>1 DEF Used, Given
<1>8. ASSUME NEW s \in Seats PROVE Metered(u, s) /\ Waits(u, s)
  <2>1. /\ Account(t, s, w - 1)
        /\ Burn => /\ \A c \in Names : t.pool[s][c] <= Given(t, s, c)
                   /\ Altogether(t, s) <= (w - 1) * PackSize
    BY DEF Carried
  <2>2. Account(u, s, w - 1)
    BY <1>1, <1>3, <2>1, AccountSame
  <2>3. OnOffer(u, s)
    BY <1>6 DEF OnOffer, Empty
  <2>4. Burn => \A c \in Names : u.pool[s][c] <= Used(u, s, c)
    BY <1>1, <1>7, <2>1
  <2>5. Burn => Before(u, s) = Altogether(t, s)
    BY <1>7 DEF Before, Altogether
  <2>6. Size(Empty) = 0
    BY BlankIs
  <2> QED BY <1>1, <1>4, <1>6, <2>1, <2>2, <2>3, <2>4, <2>5, <2>6 DEF Metered, Waits
<1>9. Suited(u)
  BY <1>1 DEF Carried, Suited
<1> QED BY <1>1, <1>8, <1>9 DEF InRound, u

(* A pack has no more cards than the pack size, all of them on offer, and   *)
(* it is empty only when the theme offers nothing or the seat has finished. *)
LEMMA PackFits ==
  ASSUME config \in Tables, NEW t, NEW s, NEW pack \in PacksFor(t, s)
  PROVE  /\ Size(pack) <= PackSize
         /\ \A c \in Names : pack[c] > 0 => c \in Candidates(t, s)
         /\ pack = Empty => s \in t.finished \/ Candidates(t, s) = {}
<1> DEFINE names == IF s \in t.finished THEN {} ELSE Candidates(t, s)
           size == Least(PackSize, Cardinality(names))
<1>1. PICK chosen \in kSubset(size, names) : pack = [c \in Names |-> IF c \in chosen THEN 1 ELSE 0]
  BY DEF PacksFor
<1>2. names \subseteq Names /\ IsFiniteSet(Names) /\ PackSize \in Nat /\ PackSize >= 1
  BY FiniteSets, ConfigIs DEF Candidates
<1>3. chosen \subseteq names /\ Cardinality(chosen) = size
  BY <1>1 DEF kSubset
<1>4. IsFiniteSet(names) /\ Cardinality(names) \in Nat
  BY <1>2, FS_Subset, FS_CardinalityType
<1>5. size <= PackSize /\ (size = PackSize \/ size = Cardinality(names)) /\ size \in Nat
  BY <1>2, <1>4, LeastIs
<1>6. pack \in [Names -> Nat] /\ \A c \in Names : pack[c] = IF c \in chosen THEN 1 ELSE 0
  BY <1>1
<1> HIDE DEF size
<1>7. SumFunction(pack) = Cardinality(chosen)
  <2>1. chosen \in SUBSET Names
    BY <1>2, <1>3
  <2> HIDE DEF names
  <2> QED BY <1>2, <1>6, <2>1, SumsOnes
<1>8. \A c \in Names : pack[c] > 0 => c \in Candidates(t, s)
  <2>1. \A c \in Names : pack[c] > 0 => c \in chosen
    BY <1>6
  <2> QED BY <1>3, <2>1
<1>9. ASSUME pack = Empty PROVE names = {}
  <2>1. \A c \in Names : c \notin chosen
    BY <1>6, <1>9 DEF Empty
  <2>2. chosen = {}
    BY <1>2, <1>3, <2>1
  <2>3. size = 0
    BY <1>3, <2>2, FS_EmptySet
  <2>4. Cardinality(names) = 0
    BY <1>2, <1>5, <2>3
  <2> HIDE DEF names
  <2> QED BY <1>4, <2>4, FS_EmptySet
<1> QED BY <1>3, <1>5, <1>7, <1>8, <1>9 DEF Size

LEMMA DealtRound ==
  ASSUME config \in Tables, IsTheme, themes \in ThemePools(config),
         NEW t \in Wholes, Themed(t), t.picked = {}, InRound(t), NEW s \in Seats,
         NEW u \in DealPack(t, s)
  PROVE  InRound(u) /\ Served(u, s) /\ \A q \in Seats : Served(t, q) => Served(u, q)
<1>1. PICK pack \in PacksFor(t, s) :
         u = [t EXCEPT !.deal[t.wave][s] = pack,
                       !.packs[t.wave][s].cards = pack,
                       !.finished = IF (Phase(t.wave) = "extra" \/ ExtraSize = 0) /\ pack = Empty
                                    THEN @ \cup {s} ELSE @]
  BY DEF DealPack
<1>0. themes \in [config.themes -> Theme]
  BY ThemeIs
<1>2. /\ u \in Wholes /\ Themed(u) /\ u.picked = {} /\ u.wave = t.wave
      /\ u.pool = t.pool /\ u.theme = t.theme
  BY <1>0, DealPackIs
<1>3. pack \in Bag
  BY <1>0, PacksForIs
<1>4. /\ t \in Row /\ Running(t) /\ DOMAIN t.deal = 1..t.wave /\ t.wave \in 1..Waves
      /\ t.theme \in Assignments /\ t.wave \in DOMAIN t.deal
  BY PartsOf DEF Themed, Running
<1>5. /\ u.deal = DealWith(t, s, pack) /\ u.main = t.main
      /\ u.finished = IF (Phase(t.wave) = "extra" \/ ExtraSize = 0) /\ pack = Empty
                      THEN t.finished \cup {s} ELSE t.finished
  BY <1>1, <1>4 DEF Row, DealWith
<1>6. /\ DOMAIN u.deal = DOMAIN t.deal
      /\ \A w \in DOMAIN t.deal, q \in Seats :
            u.deal[w][q] = IF w = t.wave /\ q = s THEN pack ELSE t.deal[w][q]
  BY <1>3, <1>4, <1>5, DealWithIs
<1>7. t.wave \in Nat \ {0} /\ t.wave - 1 \in Nat /\ MainTarget \in Nat
  BY <1>4, RoundsAre, ConfigIs
<1>8. \A q \in Seats : u.deal[u.wave][q] = IF q = s THEN pack ELSE t.deal[t.wave][q]
  BY <1>2, <1>4, <1>6
<1>9. \A q \in Seats, c \in Names : Used(u, q, c) = Used(t, q, c)
  <2>1. \A v \in 1..(t.wave - 1) : v \in 1..t.wave /\ v # t.wave
    BY <1>7
  <2>2. \A q \in Seats, v \in 1..(t.wave - 1) : u.deal[v][q] = t.deal[v][q]
    BY <1>4, <1>6, <2>1
  <2>3. \A q \in Seats, c \in Names :
           [v \in 1..(t.wave - 1) |-> u.deal[v][q][c]] = [v \in 1..(t.wave - 1) |-> t.deal[v][q][c]]
    BY <2>2
  <2> QED BY <1>2, <2>3 DEF Used
<1>10. \A q \in Seats : Candidates(u, q) = Candidates(t, q)
  BY <1>2, <1>9 DEF Candidates, Capped
<1>11. \A q \in Seats : Before(u, q) = Before(t, q)
  BY <1>9 DEF Before
<1>12. /\ Size(pack) <= PackSize
       /\ \A c \in Names : pack[c] > 0 => c \in Candidates(t, s)
       /\ pack = Empty => s \in t.finished \/ Candidates(t, s) = {}
  BY PackFits
<1>13. \A q \in Seats : Metered(t, q) /\ Waits(t, q) /\ LargeEnough(t.theme[q])
  BY DEF InRound, Suited
<1>14. ASSUME s \notin t.finished, pack = Empty
       PROVE  Candidates(t, s) = {} /\ Phase(t.wave) = "extra" /\ t.wave - 1 >= MainTarget
  <2>1. Candidates(t, s) = {}
    BY <1>12, <1>14
  <2>2. Count(t, s) = t.wave - 1
    BY <1>13, <1>14 DEF Waits, Account
  <2>3. ASSUME t.wave <= MainTarget PROVE FALSE
    <3>1. Count(t, s) <= t.wave - 1
      BY <1>7, <2>2
    <3>2. Burn => /\ Before(t, s) <= (t.wave - 1) * PackSize
                  /\ \A c \in Names : t.pool[s][c] <= Used(t, s, c)
      BY <1>13 DEF Waits, Metered
    <3> QED BY <1>4, <1>13, <2>1, <2>3, <3>1, <3>2, MainLasts
  <2>4. t.wave > MainTarget
    BY <1>7, <2>3
  <2> QED BY <1>7, <2>1, <2>4, ThemeIs
<1>15. Account(u, s, t.wave - 1)
  <2>1. Account(t, s, t.wave - 1)
    BY <1>13 DEF Waits
  <2>2. CASE s \notin t.finished /\ pack = Empty
    BY <1>2, <1>4, <1>5, <1>7, <1>14, <2>1, <2>2, AccountDry
  <2>3. CASE ~(s \notin t.finished /\ pack = Empty)
    <3>1. s \in u.finished <=> s \in t.finished
      BY <1>5, <2>3
    <3> QED BY <1>2, <1>5, <2>1, <3>1, AccountSame
  <2> QED BY <2>2, <2>3
<1>16. ASSUME NEW q \in Seats, q # s PROVE Metered(u, q) /\ Waits(u, q)
  <2>1. u.deal[u.wave][q] = t.deal[t.wave][q]
    BY <1>8, <1>16
  <2>2. Metered(u, q)
    BY <1>2, <1>11, <1>13, <2>1 DEF Metered
  <2>3. OnOffer(u, q)
    BY <1>10, <1>13, <2>1 DEF Waits, OnOffer
  <2>4. Account(u, q, t.wave - 1)
    <3>1. q \in u.finished <=> q \in t.finished
      BY <1>5, <1>16
    <3>2. Account(t, q, t.wave - 1)
      BY <1>13 DEF Waits
    <3> QED BY <1>2, <1>5, <3>1, <3>2, AccountSame
  <2> QED BY <1>2, <1>9, <1>13, <2>2, <2>3, <2>4 DEF Waits
<1>17. Metered(u, s) /\ Waits(u, s)
  <2>1. u.deal[u.wave][s] = pack
    BY <1>8
  <2>2. Metered(u, s)
    BY <1>2, <1>11, <1>12, <1>13, <2>1 DEF Metered
  <2>3. OnOffer(u, s)
    BY <1>10, <1>12, <2>1 DEF OnOffer
  <2> QED BY <1>2, <1>9, <1>13, <1>15, <2>2, <2>3 DEF Waits
<1>18. InRound(u)
  <2>1. Suited(u)
    BY <1>2, <1>13 DEF Suited
  <2>2. \A q \in Seats : q \notin u.picked
    BY <1>2
  <2> QED BY <1>16, <1>17, <2>1, <2>2 DEF InRound
<1>19. Served(u, s)
  <2>1. CASE pack # Empty
    BY <1>8, <2>1 DEF Served
  <2>2. CASE pack = Empty /\ s \in t.finished
    BY <1>5, <2>2 DEF Served
  <2>3. CASE pack = Empty /\ s \notin t.finished
    BY <1>5, <1>14, <2>3 DEF Served
  <2> QED BY <2>1, <2>2, <2>3
<1>20. ASSUME NEW q \in Seats, Served(t, q), q # s PROVE Served(u, q)
  <2>1. u.deal[u.wave][q] = t.deal[t.wave][q]
    BY <1>8, <1>20
  <2> QED BY <1>5, <1>20, <2>1 DEF Served
<1> QED BY <1>18, <1>19, <1>20

LEMMA OpenedRound ==
  ASSUME config \in Tables, IsTheme, themes \in ThemePools(config), NEW w \in 1..Waves,
         NEW t, Between(t, w), Carried(t, w), NEW u \in OpenRound(t, w)
  PROVE  u \in Wholes /\ Themed(u) /\ u.picked = {} /\ u.wave = w /\ Provided(u)
<1> DEFINE R == {v \in Wholes : Themed(v) /\ v.picked = {} /\ v.wave = w /\ InRound(v)}
           Some(i) == {v \in R : \A j \in 1..i : Served(v, Joined[j])}
           X == [i \in 0..N |-> Some(i)]
<1>0. themes \in [config.themes -> Theme]
  BY ThemeIs
<1>1. N \in Nat /\ Joined \in [1..N -> Seats]
  BY ConfigIs
<1>2. Bared(t, w) \in X[0]
  <2>1. Bared(t, w) \in R
    BY BaredWhole, BaredRound
  <2>2. 0 \in 0..N /\ \A j \in 1..0 : FALSE
    BY <1>1
  <2> QED BY <2>1, <2>2
<1>3. ASSUME NEW i \in 1..N, NEW v \in X[i - 1], NEW x \in DealPack(v, Joined[i])
      PROVE  x \in X[i]
  <2>1. i - 1 \in 0..N /\ i \in 0..N /\ i \in Nat
    BY <1>1
  <2>2. v \in Some(i - 1)
    BY <2>1
  <2>3. /\ v \in Wholes /\ Themed(v) /\ v.picked = {} /\ v.wave = w /\ InRound(v)
        /\ \A j \in 1..(i - 1) : Served(v, Joined[j])
    BY <2>2
  <2>4. X[i] = Some(i)
    BY <2>1
  <2>5. \A j \in 1..N : Joined[j] \in Seats
    BY <1>1
  <2>6. (x \in R /\ \A j \in 1..i : Served(x, Joined[j])) => x \in X[i]
    BY <2>4
  <2> HIDE DEF X, R, Some
  <2>7. x \in Wholes /\ Themed(x) /\ x.picked = {} /\ x.wave = w
    BY <1>0, <2>3, <2>5, DealPackIs
  <2>8. InRound(x) /\ Served(x, Joined[i]) /\ \A q \in Seats : Served(v, q) => Served(x, q)
    BY <2>3, <2>5, DealtRound
  <2>9. x \in R
    BY <2>7, <2>8 DEF R
  <2>10. ASSUME NEW j \in 1..i PROVE Served(x, Joined[j])
    <3>1. CASE j = i
      BY <2>8, <3>1
    <3>2. CASE j # i
      <4>1. j \in 1..(i - 1) /\ j \in 1..N
        BY <1>1, <2>1, <3>2
      <4> QED BY <2>3, <2>5, <2>8, <4>1
    <3> QED BY <3>1, <3>2
  <2> QED BY <2>6, <2>9, <2>10
<1>4. X[N] = Some(N)
  BY <1>1
<1> HIDE DEF X
<1>5. \A i \in 1..N : \A v \in X[i - 1] : DealPack(v, Joined[i]) \subseteq X[i]
  BY <1>3
<1>6. OpenRound(t, w) \subseteq X[N]
  BY <1>2, <1>5, OpenRoundIn
<1>7. u \in R /\ \A j \in 1..N : Served(u, Joined[j])
  BY <1>4, <1>6
<1>8. \A s \in Seats : Served(u, s)
  BY <1>7, JoinedOnce
<1> QED BY <1>7, <1>8 DEF Provided

(* A round in which everybody picked who was dealt a pack is followed by    *)
(* the next round, or by the end.                                          *)
LEMMA RoundOver ==
  ASSUME config \in Tables, IsTheme, themes \in ThemePools(config),
         NEW t \in Wholes, Themed(t), Provided(t), DealtTo(t) \subseteq t.picked
  PROVE  /\ t.wave < Waves => Between(t, t.wave + 1) /\ Carried(t, t.wave + 1)
         /\ t.wave = Waves => \A s \in Seats : Enough(t, s)
<1>1. /\ t \in Row /\ t.status = "active" /\ Running(t) /\ t.passed = {} /\ Apart(t) /\ Unfilled(t)
      /\ DOMAIN t.deal = 1..t.wave /\ DOMAIN t.packs = 1..t.wave /\ t.theme \in Assignments
      /\ t.wave \in 1..Waves
  BY PartsOf DEF Themed, Running
<1>2. /\ t.wave \in Nat \ {0} /\ t.wave - 1 \in Nat /\ (t.wave - 1) + 1 = t.wave
      /\ (t.wave + 1) - 1 = t.wave /\ Waves \in Nat /\ PackSize \in Nat /\ PackSize >= 1
      /\ IsFiniteSet(Names)
  BY <1>1, RoundsAre, ConfigIs, FiniteSets
<1>3. ASSUME NEW s \in Seats, s \notin t.picked
      PROVE  s \in t.finished /\ Waits(t, s)
  <2>1. t.deal[t.wave][s] = Empty
    BY <1>3 DEF DealtTo
  <2>2. Served(t, s)
    BY DEF Provided
  <2> QED BY <1>3, <2>1, <2>2 DEF Served, Provided, InRound
<1>4. ASSUME NEW s \in Seats, s \in t.picked PROVE Chose(t, s)
  BY <1>4 DEF Provided, InRound
<1>5. \A s \in Seats : Account(t, s, t.wave)
  <2> TAKE s \in Seats
  <2>1. CASE s \in t.picked
    BY <1>4, <2>1 DEF Chose
  <2>2. CASE s \notin t.picked
    <3>1. s \in t.finished /\ Account(t, s, t.wave - 1)
      BY <1>3, <2>2 DEF Waits
    <3> DEFINE k == t.wave - 1
    <3>2. k \in Nat /\ k + 1 = t.wave /\ Account(t, s, k)
      BY <1>2, <3>1
    <3> HIDE DEF k
    <3>3. Account(t, s, k + 1)
      BY <3>1, <3>2, AccountOn
    <3> QED BY <3>2, <3>3
  <2> QED BY <2>1, <2>2
<1>6. ASSUME Burn, NEW s \in Seats
      PROVE  /\ \A c \in Names : t.pool[s][c] <= Given(t, s, c)
             /\ Altogether(t, s) <= t.wave * PackSize
  <2> DEFINE used == [c \in Names |-> Used(t, s, c)]
             deal == t.deal[t.wave][s]
             given == [c \in Names |-> Given(t, s, c)]
  <2>1. \A c \in Names : /\ Used(t, s, c) \in Nat /\ t.deal[t.wave][s][c] \in Nat
                         /\ Given(t, s, c) = Used(t, s, c) + t.deal[t.wave][s][c]
    BY <1>6, UsedIs
  <2>2. \A c \in Names : t.pool[s][c] \in Nat
    BY <1>1 DEF Row, Bag
  <2>3. ASSUME NEW c \in Names PROVE t.pool[s][c] <= Given(t, s, c)
    <3>1. CASE s \in t.picked
      BY <1>4, <1>6, <3>1 DEF Chose
    <3>2. CASE s \notin t.picked
      <4>1. t.pool[s][c] <= Used(t, s, c)
        BY <1>3, <1>6, <3>2 DEF Waits
      <4> QED BY <2>1, <2>2, <4>1
    <3> QED BY <3>1, <3>2
  <2>4. used \in [Names -> Nat] /\ given \in [Names -> Nat] /\ deal \in [Names -> Nat]
    <3>1. deal \in Bag
      BY <1>1, PartsOf
    <3> QED BY <2>1, <3>1 DEF Bag
  <2>5. \A c \in Names : given[c] = used[c] + deal[c]
    BY <2>1
  <2>6. Before(t, s) <= (t.wave - 1) * PackSize /\ Size(deal) <= PackSize
    BY <1>6 DEF Provided, InRound, Metered
  <2>7. Before(t, s) = SumFunction(used) /\ Altogether(t, s) = SumFunction(given)
        /\ Size(deal) = SumFunction(deal)
    BY DEF Before, Altogether, Size
  <2> HIDE DEF used, deal, given
  <2>8. SumFunction(given) = SumFunction(used) + SumFunction(deal)
    BY <1>2, <2>4, <2>5, SumsPlus
  <2>9. SumFunction(used) \in Nat /\ SumFunction(deal) \in Nat
    BY <1>2, <2>4, SumsNat
  <2> DEFINE k == t.wave - 1
             a == k * PackSize
  <2>10. k \in Nat /\ k < t.wave /\ k + 1 = t.wave
    BY <1>2
  <2>11. Before(t, s) <= a
    BY <2>6
  <2> HIDE DEF k
  <2>12. a \in Nat /\ (k + 1) * PackSize = a + PackSize
    BY <1>2, <2>10, TimesLess
  <2>13. t.wave * PackSize = a + PackSize
    BY <2>10, <2>12
  <2> HIDE DEF a
  <2>14. Altogether(t, s) <= t.wave * PackSize
    BY <1>2, <2>6, <2>7, <2>8, <2>9, <2>11, <2>12, <2>13
  <2> QED BY <2>3, <2>14
<1>7. ASSUME t.wave < Waves PROVE Between(t, t.wave + 1) /\ Carried(t, t.wave + 1)
  <2> DEFINE w == t.wave + 1
  <2>1. w - 1 = t.wave
    BY <1>2
  <2> HIDE DEF w
  <2>2. Between(t, w)
    BY <1>1, <2>1 DEF Between
  <2>3. Carried(t, w)
    BY <1>5, <1>6, <2>1 DEF Carried, Provided, InRound
  <2> QED BY <2>2, <2>3 DEF w
<1>8. ASSUME t.wave = Waves, NEW s \in Seats PROVE Enough(t, s)
  <2>1. s \in t.finished
    <3>1. ASSUME s \notin t.finished PROVE FALSE
      <4>1. Count(t, s) = t.wave
        BY <1>5, <3>1 DEF Account
      <4>2. Count(t, s) < Waves
        BY <1>1, <3>1 DEF Unfilled
      <4> QED BY <1>2, <1>8, <4>1, <4>2
    <3> QED BY <3>1
  <2> QED BY <1>1, <1>2, <1>5, <2>1, AccountEnds
<1> QED BY <1>7, <1>8

LEMMA CompleteGood ==
  ASSUME config \in Tables, NEW t \in Wholes, \A s \in Seats : Enough(t, s)
  PROVE  Good(Complete(t))
<1> DEFINE u == Complete(t)
<1>1. /\ u.status = "completed" /\ u.main = t.main /\ u.pool = t.pool /\ u.theme = t.theme
  <2>1. t \in Row
    BY PartsOf
  <2> QED BY <2>1 DEF Complete, Row
<1> HIDE DEF u
<1>2. \A s \in Seats : Enough(u, s)
  BY <1>1 DEF Enough, Count, Offers
<1> QED BY <1>1, <1>2 DEF Good, u

(* Rounds opened one after the other end in one that is provided for, or    *)
(* with everybody having enough.                                           *)
LEMMA RoundsProvide ==
  ASSUME config \in Tables, IsTheme, themes \in ThemePools(config), NEW w \in 1..Waves,
         NEW t, Between(t, w), Carried(t, w), NEW x \in RoundsFrom(t, w)
  PROVE  Good(x)
<1> DEFINE R == {u \in Wholes : Themed(u) /\ u.picked = {} /\ Provided(u)}
           At(v) == {u \in R : DealtTo(u) = {} => u.wave = v}
           X == [v \in w..Waves |-> At(v)]
<1>1. w \in Nat /\ Waves \in Nat /\ w >= 1 /\ w <= Waves /\ w \in w..Waves /\ Waves \in w..Waves
  BY RoundsAre
<1>2. OpenRound(t, w) \subseteq X[w]
  <2>1. ASSUME NEW u \in OpenRound(t, w) PROVE u \in At(w)
    BY OpenedRound
  <2>2. X[w] = At(w)
    BY <1>1
  <2> QED BY <2>1, <2>2
<1>3. ASSUME NEW v \in (w + 1)..Waves, NEW u \in X[v - 1]
      PROVE  /\ DealtTo(u) = {} => OpenRound(u, v) \subseteq X[v]
             /\ DealtTo(u) # {} => u \in X[v]
  <2>1. v \in w..Waves /\ v - 1 \in w..Waves /\ v \in 1..Waves /\ v \in Nat
    BY <1>1
  <2>2. u \in At(v - 1) /\ X[v] = At(v)
    BY <2>1
  <2>3. u \in Wholes /\ Themed(u) /\ u.picked = {} /\ Provided(u) /\ u \in R
        /\ (DealtTo(u) = {} => u.wave = v - 1)
    BY <2>2
  <2>4. ASSUME NEW y, y \in R, DealtTo(y) = {} => y.wave = v PROVE y \in X[v]
    BY <2>2, <2>4
  <2>5. ASSUME NEW y, y \in Wholes, Themed(y), y.picked = {}, Provided(y) PROVE y \in R
    BY <2>5
  <2> HIDE DEF X, R, At
  <2>6. ASSUME DealtTo(u) = {}, NEW y \in OpenRound(u, v) PROVE y \in X[v]
    <3>1. u.wave = v - 1 /\ u.wave < Waves /\ u.wave + 1 = v
      BY <1>1, <2>1, <2>3, <2>6
    <3>2. Between(u, u.wave + 1) /\ Carried(u, u.wave + 1)
      BY <2>3, <2>6, <3>1, RoundOver
    <3>3. y \in Wholes /\ Themed(y) /\ y.picked = {} /\ y.wave = v /\ Provided(y)
      BY <2>1, <2>6, <3>1, <3>2, OpenedRound
    <3> QED BY <2>4, <2>5, <3>3
  <2> QED BY <2>3, <2>4, <2>6
<1>4. X[Waves] = At(Waves)
  BY <1>1
<1> HIDE DEF X
<1>5. \A v \in (w + 1)..Waves : \A u \in X[v - 1] :
         (IF DealtTo(u) # {} THEN {u} ELSE OpenRound(u, v)) \subseteq X[v]
  BY <1>3
<1>6. OpensIn(t, w, X)
  BY <1>2, <1>5 DEF OpensIn
<1>7. PICK u \in X[Waves] : x = IF DealtTo(u) = {} THEN Complete(u) ELSE u
  <2> HIDE DEF R, At
  <2> QED BY <1>6, RoundsFromIn
<1>8. u \in Wholes /\ Themed(u) /\ u.picked = {} /\ Provided(u) /\ (DealtTo(u) = {} => u.wave = Waves)
  BY <1>4
<1>9. CASE DealtTo(u) = {}
  <2>1. \A s \in Seats : Enough(u, s)
    <3>1. DealtTo(u) \subseteq u.picked /\ u.wave = Waves
      BY <1>8, <1>9
    <3> QED BY <1>8, <3>1, RoundOver
  <2> QED BY <1>7, <1>8, <1>9, <2>1, CompleteGood
<1>10. CASE DealtTo(u) # {}
  <2>1. u.status = "active"
    BY <1>8 DEF Themed
  <2> QED BY <1>7, <1>8, <1>10, <2>1 DEF Good
<1> QED BY <1>9, <1>10

(* A pick keeps the round provided for. *)
LEMMA PickProvides ==
  ASSUME config \in Tables, IsTheme, themes \in ThemePools(config),
         NEW t \in Wholes, Themed(t), Provided(t), NEW s \in Seats, s \in Waiting(t),
         NEW c \in Legal(t, s)
  PROVE  Provided(Taken(t, s, c, Waves))
<1> DEFINE u == Taken(t, s, c, Waves)
<1>1. /\ Kept(t, u) /\ Themed(u) /\ u.pool = PoolWith(t, s, c) /\ u.wave = t.wave
      /\ u.picked = t.picked \cup {s} /\ u.deal = t.deal
  BY OwnPick
<1>2. /\ t \in Row /\ t.theme \in Assignments /\ u \in Wholes /\ u.theme = t.theme /\ u \in Row
      /\ t.wave \in 1..Waves /\ t.finished \subseteq Seats
  BY <1>1, PartsOf DEF Themed, Running, Kept
<1>3. /\ u.finished = IF Count(t, s) + 1 >= Waves THEN t.finished \cup {s} ELSE t.finished
      /\ u.main = [t.main EXCEPT ![s] = IF t.wave <= MainRounds THEN @ + 1 ELSE @]
  BY <1>2 DEF Taken, Row
<1>4. t.main \in [Seats -> Nat]
  BY <1>2 DEF Row
<1>5. /\ u.main[s] = IF t.wave <= MainRounds THEN t.main[s] + 1 ELSE t.main[s]
      /\ \A q \in Seats \ {s} : u.main[q] = t.main[q]
  BY <1>3, <1>4
<1> HIDE DEF u
<1>6. t.wave \in Nat \ {0} /\ t.wave - 1 \in Nat /\ (t.wave - 1) + 1 = t.wave
  BY <1>2, RoundsAre
<1>7. s \notin t.picked /\ s \notin t.finished
  BY DEF Waiting, Drafting, Acted
<1>8. c \in Names /\ t.deal[t.wave][s][c] > 0
  <2>1. Running(t) /\ PacksAt(t, s) # {} /\ c \in InPack(t, s)
    BY DEF Themed, Running, Waiting, Legal
  <2>2. PackAt(t, s) \in Seats /\ t.packs[t.wave][PackAt(t, s)].at = s
        /\ InPack(t, s) = {d \in Names : t.packs[t.wave][PackAt(t, s)].cards[d] > 0}
    BY <2>1, PackInFront
  <2>3. PackAt(t, s) = s
    BY <2>2 DEF Themed
  <2>4. t.packs[t.wave][s].cards = t.deal[t.wave][s]
    BY <1>7 DEF Themed, Private
  <2> QED BY <2>1, <2>2, <2>3, <2>4
<1>9. Waits(t, s) /\ Suited(t) /\ \A q \in Seats : Metered(t, q)
  BY <1>7 DEF Provided, InRound
<1>10. c \in Candidates(t, s)
  BY <1>8, <1>9 DEF Waits, OnOffer
<1>11. Account(u, s, t.wave)
  <2> DEFINE k == t.wave - 1
  <2>1. k \in Nat /\ t.wave = k + 1 /\ Account(t, s, k)
    BY <1>6, <1>9 DEF Waits
  <2> HIDE DEF k
  <2>2. Burn => \A d \in Names : t.pool[s][d] <= Used(t, s, d)
    BY <1>9 DEF Waits
  <2>3. s \in u.finished <=> Count(t, s) + 1 >= Waves
    BY <1>3, <1>7
  <2>4. Account(u, s, k + 1)
    BY <1>1, <1>2, <1>5, <1>7, <1>8, <1>10, <2>1, <2>2, <2>3, AccountTakes
  <2> QED BY <2>1, <2>4
<1>12. \A q \in Seats, d \in Names : /\ t.pool[q][d] \in Nat
             /\ u.pool[q][d] = t.pool[q][d] + (IF q = s /\ d = c THEN 1 ELSE 0)
  BY <1>1, <1>8, PoolIs
<1>13. \A q \in Seats \ {s} : u.pool[q] = t.pool[q]
  BY <1>1, <1>8, PoolIs
<1>14. \A q \in Seats, d \in Names : Given(u, q, d) = Given(t, q, d)
  BY <1>1 DEF Given
<1>15. Chose(u, s)
  <2>1. u.deal[u.wave][s] # Empty
    BY <1>1, <1>8 DEF Empty
  <2>2. ASSUME Burn, NEW d \in Names PROVE u.pool[s][d] <= Given(u, s, d)
    <3>1. /\ Used(t, s, d) \in Nat /\ t.deal[t.wave][s][d] \in Nat
          /\ Given(t, s, d) = Used(t, s, d) + t.deal[t.wave][s][d]
      BY <2>2, UsedIs
    <3>2. t.pool[s][d] <= Used(t, s, d)
      BY <1>9, <2>2 DEF Waits
    <3> QED BY <1>8, <1>12, <1>14, <3>1, <3>2
  <2> QED BY <1>1, <1>11, <2>1, <2>2 DEF Chose
<1>16. \A q \in Seats : Burn => Before(u, q) = Before(t, q)
  BY <1>1 DEF Before, Used
<1>17. \A q \in Seats : Metered(u, q)
  BY <1>1, <1>9, <1>16 DEF Metered
<1>18. ASSUME NEW q \in Seats, q # s
       PROVE  IF q \in u.picked THEN Chose(u, q) ELSE Waits(u, q)
  <2>1. IF q \in t.picked THEN Chose(t, q) ELSE Waits(t, q)
    BY DEF Provided, InRound
  <2>2. u.pool[q] = t.pool[q] /\ u.main[q] = t.main[q] /\ (q \in u.finished <=> q \in t.finished)
        /\ (q \in u.picked <=> q \in t.picked)
    BY <1>1, <1>3, <1>5, <1>13, <1>18
  <2>3. \A k : Account(u, q, k) <=> Account(t, q, k)
    BY <1>2, <2>2, AccountSame
  <2>4. \A d \in Names : Used(u, q, d) = Used(t, q, d)
    BY <1>1, <2>2 DEF Used
  <2>5. Candidates(u, q) = Candidates(t, q)
    BY <1>1, <1>2, <2>2, <2>4 DEF Candidates, Capped
  <2>6. CASE q \in t.picked
    BY <1>1, <1>14, <2>1, <2>2, <2>3, <2>6 DEF Chose
  <2>7. CASE q \notin t.picked
    <3>1. OnOffer(u, q)
      BY <1>1, <2>1, <2>5, <2>7 DEF OnOffer, Waits
    <3> QED BY <1>1, <2>1, <2>2, <2>3, <2>4, <2>7, <3>1 DEF Waits
  <2> QED BY <2>6, <2>7
<1>19. \A q \in Seats : Served(u, q)
  BY <1>1, <1>3 DEF Provided, Served
<1>20. Suited(u)
  BY <1>2, <1>9 DEF Suited
<1>21. s \in u.picked
  BY <1>1
<1> QED BY <1>15, <1>17, <1>18, <1>19, <1>20, <1>21 DEF Provided, InRound, u

LEMMA TakeOwnGood ==
  ASSUME config \in Tables, IsTheme, themes \in ThemePools(config),
         NEW t \in Wholes, Ready(t), Good(t), NEW s, NEW c, NEW v \in TakeOwn(t, s, c)
  PROVE  Good(v)
<1> DEFINE u == Taken(t, s, c, Waves)
<1>1. t.status = "active" /\ s \in Waiting(t) /\ c \in Legal(t, s)
  BY DEF TakeOwn
<1>2. v \in IF Cardinality(u.picked) < Cardinality(DealtTo(u)) THEN {u}
            ELSE IF u.wave >= Waves THEN {Complete(u)}
            ELSE RoundsFrom(u, u.wave + 1)
  BY <1>1 DEF TakeOwn
<1>3. s \in Seats /\ Themed(t) /\ Provided(t)
  BY <1>1 DEF Ready, Good, Waiting, Drafting
<1>4. Kept(t, u) /\ Themed(u)
  BY <1>1, <1>3, OwnPick
<1>5. Provided(u)
  BY <1>1, <1>3, PickProvides
<1> HIDE DEF u
<1>6. u \in Wholes /\ u.status = "active" /\ u.picked \subseteq Seats /\ u.wave \in 1..Waves
  BY <1>4, PartsOf DEF Kept, Themed
<1>7. CASE Cardinality(u.picked) < Cardinality(DealtTo(u))
  BY <1>2, <1>5, <1>6, <1>7 DEF Good
<1>8. ASSUME ~(Cardinality(u.picked) < Cardinality(DealtTo(u))) PROVE DealtTo(u) \subseteq u.picked
  <2>1. u.picked \subseteq DealtTo(u) /\ DealtTo(u) \subseteq Seats
    BY <1>5, <1>6 DEF Provided, InRound, Chose, DealtTo
  <2>2. IsFiniteSet(DealtTo(u)) /\ IsFiniteSet(u.picked)
    BY <1>6, <2>1, FiniteSets, FS_Subset
  <2>3. Cardinality(u.picked) <= Cardinality(DealtTo(u))
        /\ Cardinality(u.picked) \in Nat /\ Cardinality(DealtTo(u)) \in Nat
    BY <2>1, <2>2, FS_Subset, FS_CardinalityType
  <2>4. Cardinality(DealtTo(u)) = Cardinality(u.picked)
    BY <1>8, <2>3
  <2> QED BY <2>1, <2>2, <2>4, FS_Subset
<1>9. CASE ~(Cardinality(u.picked) < Cardinality(DealtTo(u))) /\ u.wave >= Waves
  <2>1. v = Complete(u) /\ u.wave = Waves
    BY <1>2, <1>6, <1>9, RoundsAre
  <2>2. \A q \in Seats : Enough(u, q)
    BY <1>4, <1>5, <1>6, <1>8, <1>9, <2>1, RoundOver
  <2> QED BY <1>6, <2>1, <2>2, CompleteGood
<1>10. CASE ~(Cardinality(u.picked) < Cardinality(DealtTo(u))) /\ ~(u.wave >= Waves)
  <2> DEFINE w == u.wave + 1
  <2>1. v \in RoundsFrom(u, w) /\ u.wave < Waves /\ w \in 1..Waves
    BY <1>2, <1>6, <1>10, RoundsAre
  <2>2. Between(u, w) /\ Carried(u, w)
    BY <1>4, <1>5, <1>6, <1>8, <1>10, <2>1, RoundOver
  <2> HIDE DEF w
  <2> QED BY <2>1, <2>2, RoundsProvide
<1> QED BY <1>7, <1>9, <1>10

(* A draft that the check let start. *)
LEMMA StartedGood ==
  ASSUME config \in Tables, IsTheme, themes \in ThemePools(config),
         NEW a \in Assignments, NEW v \in StartedWith(Blank, a)
  PROVE  Good(v)
<1> DEFINE r == [Blank EXCEPT !.status = "active", !.theme = a]
<1>1. v \in RoundsFrom(r, 1) /\ \A s \in Seats : LargeEnough(a[s])
  BY DEF StartedWith
<1>2. /\ Blank \in Row /\ Apart(Blank) /\ Blank.pool = [s \in Seats |-> Empty]
      /\ Blank.packs = << >> /\ Blank.deal = << >> /\ Blank.passed = {}
      /\ Empty \in Bag /\ \A s \in Seats : Size(Empty) = 0
  BY BlankIs
<1>3. /\ r \in Row /\ r.packs = << >> /\ r.deal = << >> /\ r.passed = {} /\ r.theme = a
      /\ r.pool = Blank.pool /\ r.status = "active" /\ r.finished = {}
      /\ \A s \in Seats : r.main[s] = 0
  <2>1. r \in Row /\ r.packs = << >> /\ r.deal = << >> /\ r.passed = {} /\ r.theme = a
        /\ r.pool = Blank.pool /\ r.status = "active"
    BY <1>2 DEF Row, Statuses
  <2>2. r.finished = {} /\ r.main = [s \in Seats |-> 0]
    BY DEF Blank
  <2> QED BY <2>1, <2>2
<1>4. DOMAIN r.deal = {} /\ DOMAIN r.packs = {}
  BY <1>3, NoneOf
<1> HIDE DEF r
<1>5. \A s \in Seats, c \in Names : r.pool[s][c] = 0
  BY <1>2, <1>3 DEF Empty
<1>6. \A s \in Seats : Count(r, s) = 0
  BY <1>2, <1>3 DEF Count
<1>7. Waves \in Nat \ {0} /\ MainTarget \in Nat /\ PackSize \in Nat /\ IsFiniteSet(Names)
      /\ 1 \in 1..Waves
  BY RoundsAre, ConfigIs, FiniteSets
<1>8. Between(r, 1)
  <2>1. Apart(r)
    BY <1>4 DEF Apart
  <2>2. Unfilled(r)
    BY <1>6, <1>7 DEF Unfilled
  <2>3. 1..(1 - 1) = {}
    OBVIOUS
  <2> QED BY <1>3, <1>4, <2>1, <2>2, <2>3 DEF Between
<1>9. ASSUME NEW s \in Seats PROVE Account(r, s, 0)
  <2> DEFINE has == [c \in Names |-> IF Copies(r, s, c) > 0 THEN r.pool[s][c] ELSE 0]
  <2>1. /\ has \in [Names -> Nat] /\ Extras(r, s) = SumFunction(has)
        /\ \A c \in Names : Offers(r, s)[c] \in Nat
    BY <1>3, OffersAre DEF Extras
  <2>2. \A c \in Names : has[c] = 0
    BY <1>5
  <2> HIDE DEF has
  <2>3. Extras(r, s) = 0
    BY <1>7, <2>1, <2>2, SumsZero
  <2>4. Least(MainTarget, 0) = 0
    BY <1>7, LeastIs
  <2>5. \A c \in Names : r.pool[s][c] <= Offers(r, s)[c]
    BY <1>5, <2>1
  <2> QED BY <1>3, <1>6, <1>7, <2>3, <2>4, <2>5 DEF Account
<1>10. ASSUME NEW s \in Seats
       PROVE  /\ \A c \in Names : r.pool[s][c] <= Given(r, s, c)
              /\ Altogether(r, s) <= (1 - 1) * PackSize
  <2>1. ASSUME NEW c \in Names PROVE Given(r, s, c) = 0
    <3> DEFINE fun == [w \in DOMAIN r.deal |-> r.deal[w][s][c]]
    <3>1. fun \in [DOMAIN r.deal -> Nat] /\ IsFiniteSet(DOMAIN r.deal)
      BY <1>3, GivenIs
    <3>2. \A w \in DOMAIN r.deal : fun[w] = 0
      BY <1>4
    <3> HIDE DEF fun
    <3>3. SumFunction(fun) = 0
      BY <3>1, <3>2, SumsZero
    <3> QED BY <3>3 DEF Given, fun
  <2> DEFINE given == [c \in Names |-> Given(r, s, c)]
  <2>2. given \in [Names -> Nat] /\ \A c \in Names : given[c] = 0
    BY <2>1
  <2>3. Altogether(r, s) = SumFunction(given)
    BY DEF Altogether
  <2> HIDE DEF given
  <2>4. SumFunction(given) = 0
    BY <1>7, <2>2, SumsZero
  <2>5. (1 - 1) * PackSize = 0
    BY <1>7
  <2> QED BY <1>5, <2>1, <2>3, <2>4, <2>5
<1>11. Carried(r, 1)
  BY <1>1, <1>3, <1>9, <1>10 DEF Carried, Suited
<1> QED BY <1>1, <1>7, <1>8, <1>11, RoundsProvide

-----------------------------------------------------------------------------
(* The steps of a theme draft whose themes nobody changes.                  *)

GoodTables == {t \in Wholes : Ready(t) /\ Good(t)}

LEMMA ExpiredGood ==
  ASSUME config \in Tables, IsTheme, themes \in ThemePools(config), NEW t \in GoodTables
  PROVE  Expired(t) \subseteq GoodTables
<1>1. ASSUME NEW u \in GoodTables, NEW s \in Seats, NEW c \in Names, NEW v \in Take(u, s, c)
      PROVE  v \in GoodTables
  <2>1. u \in Wholes /\ Ready(u) /\ Good(u) /\ v \in TakeOwn(u, s, c)
    BY <1>1 DEF GoodTables, Take
  <2>2. themes \in [config.themes -> Theme]
    BY ThemeIs
  <2>3. v \in Wholes /\ Ready(v)
    BY <2>1, <2>2, TakeOwnIs DEF Kept
  <2>4. Good(v)
    BY <2>1, TakeOwnGood
  <2> QED BY <2>3, <2>4 DEF GoodTables
<1>2. \A u \in GoodTables : \A s \in Seats, c \in Names : Take(u, s, c) \subseteq GoodTables
  BY <1>1
<1> QED BY <1>2, ExpiredIn

LEMMA GoodStep ==
  ASSUME Inductive, IsTheme, themes \in ThemePools(config), Good(table), [Next]_vars,
         NEW v, v = table'
  PROVE  Good(v)
<1>1. config \in Tables /\ table \in Wholes /\ Ready(table) /\ table \in GoodTables
  BY DEF Inductive, GoodTables
<1>2. \A t \in GoodTables : \A s, c : \A u \in Take(t, s, c) : Good(u)
  BY <1>1, TakeOwnGood DEF GoodTables, Take
<1>3. \A t \in Expired(table) : t \in GoodTables
  BY <1>1, ExpiredGood
<1>4. CASE Start
  <2>1. table = Blank
    BY <1>4 DEF Start, Inductive
  <2>2. PICK a \in Assignments : v \in StartedWith(Blank, a)
    BY <1>4, <2>1 DEF Start, Commit
  <2> QED BY <1>1, <2>2, StartedGood
<1>5. ASSUME NEW s \in Seats, View(s) PROVE FALSE
  BY <1>5 DEF View
<1>6. ASSUME NEW s \in Seats \ Bots, NEW c \in Names, Pick(s, c) PROVE Good(v)
  <2>1. PICK t \in IF due THEN Expired(table) ELSE {table} :
         IF s \in table.picked \/ Count(t, s) > Count(table, s) THEN v = t
         ELSE v \in Take(t, s, c)
    BY <1>6 DEF Pick, Commit
  <2>2. t \in GoodTables
    BY <1>1, <1>3, <2>1
  <2>3. Good(t)
    BY <2>2 DEF GoodTables
  <2> QED BY <1>2, <2>1, <2>2, <2>3
<1>7. ASSUME NEW s \in Bots, NEW c \in Names, BotPick(s, c) PROVE Good(v)
  <2>1. v \in Take(table, s, c)
    BY <1>7 DEF BotPick, Commit
  <2> QED BY <1>1, <1>2, <2>1
<1>8. CASE Expire
  <2>1. v \in Expired(table)
    BY <1>8 DEF Expire, Commit
  <2> QED BY <1>3, <2>1 DEF GoodTables
<1>9. CASE Cancel
  <2>1. v = [Blank EXCEPT !.status = "cancelled", !.wave = table.wave, !.step = table.step]
    BY <1>9 DEF Cancel
  <2>2. Blank \in Row
    BY <1>1, BlankIs
  <2>3. v.status = "cancelled"
    BY <2>1, <2>2 DEF Row
  <2> QED BY <2>3 DEF Good
<1>10. CASE TimeUp \/ UNCHANGED vars
  BY <1>10 DEF TimeUp, vars
<1>11. CASE \E k \in config.themes :
              \/ \E c \in MainNames, copies \in 0..MaxCopies : EditCard(k, "main", c, copies)
              \/ \E c \in ExtraNames, copies \in 0..MaxCopies : EditCard(k, "extra", c, copies)
              \/ DeleteTheme(k)
  <2>1. table' = table
    BY <1>11, EditStep
  <2> QED BY <2>1
<1> QED BY <1>4, <1>5, <1>6, <1>7, <1>8, <1>9, <1>10, <1>11 DEF Next

(* What is good depends on the table's configuration and the themes alone. *)
LEMMA GoodFrozen ==
  ASSUME config' = config, themes' = themes
  PROVE  \A t : Good(t)' <=> Good(t)
<1>1. /\ N' = N /\ IsTheme' = IsTheme /\ MainTarget' = MainTarget /\ PackSize' = PackSize
      /\ ExtraSize' = ExtraSize /\ CopyLimit' = CopyLimit /\ MaxCopies' = MaxCopies /\ Burn' = Burn
  BY DEF N, IsTheme, MainTarget, PackSize, ExtraSize, CopyLimit, MaxCopies, Burn
<1>2. Seats' = Seats /\ Names' = Names
  BY <1>1 DEF Seats, Names
<1>3. MainRounds' = MainRounds /\ Empty' = Empty
  BY <1>1, <1>2 DEF MainRounds, Empty
<1>4. Waves' = Waves
  BY <1>1, <1>3 DEF Waves
<1>5. \A w : Phase(w)' = Phase(w)
  BY <1>3 DEF Phase
<1>6. \A t, s, c : Capped(t, s, c)' <=> Capped(t, s, c)
  BY <1>1 DEF Capped
<1>7. \A t, s, c : Used(t, s, c)' = Used(t, s, c)
  BY <1>1 DEF Used
<1>8. \A t, s : Candidates(t, s)' = Candidates(t, s)
  BY <1>2, <1>5, <1>6, <1>7 DEF Candidates
<1>9. \A t, s : Offers(t, s)' = Offers(t, s)
  BY <1>1, <1>2 DEF Offers
<1>10. \A t, s : Extras(t, s)' = Extras(t, s)
  BY <1>2 DEF Extras, Copies
<1>11. \A t, s, k : Account(t, s, k)' <=> Account(t, s, k)
  BY <1>1, <1>2, <1>4, <1>9, <1>10 DEF Account, Copies
<1>12. \A t, s : Before(t, s)' = Before(t, s)
  BY <1>2, <1>7 DEF Before
<1>13. \A t, s : OnOffer(t, s)' <=> OnOffer(t, s)
  BY <1>2, <1>8 DEF OnOffer
<1>14. \A t, s : Waits(t, s)' <=> Waits(t, s)
  BY <1>1, <1>2, <1>7, <1>11, <1>13 DEF Waits
<1>15. \A t, s : Chose(t, s)' <=> Chose(t, s)
  BY <1>1, <1>2, <1>3, <1>11 DEF Chose
<1>16. \A t, s : Metered(t, s)' <=> Metered(t, s)
  BY <1>1, <1>12 DEF Metered
<1>17. \A t : Suited(t)' <=> Suited(t)
  <2>1. Required' = Required
    BY <1>1 DEF Required
  <2>2. \A pool : Reach(pool)' = Reach(pool)
    BY <1>1 DEF Reach
  <2>3. \A k : LargeEnough(k)' <=> LargeEnough(k)
    BY <1>1, <2>1, <2>2 DEF LargeEnough
  <2> QED BY <1>2, <2>3 DEF Suited
<1>18. \A t : InRound(t)' <=> InRound(t)
  BY <1>2, <1>14, <1>15, <1>16, <1>17 DEF InRound
<1>19. \A t : Provided(t)' <=> Provided(t)
  BY <1>2, <1>3, <1>18 DEF Provided, Served
<1>20. \A t, s : Enough(t, s)' <=> Enough(t, s)
  BY <1>1, <1>9 DEF Enough
<1> QED BY <1>2, <1>19, <1>20 DEF Good

LEMMA LastingStep ==
  ASSUME Inductive, Lasting, [Next]_vars
  PROVE  Lasting'
<1>1. PICK v : v = table'
  OBVIOUS
<1>2. config' = config /\ (edits' = 0 => themes' = themes /\ edits = 0)
  BY <1>1, StepIs
<1>3. IsTheme' = IsTheme
  BY <1>2, Frozen
<1>4. ASSUME IsTheme, edits' = 0 PROVE themes' \in ThemePools(config') /\ Good(table)'
  <2>1. edits = 0 /\ themes' = themes /\ themes \in ThemePools(config) /\ Good(table)
    BY <1>2, <1>4 DEF Lasting
  <2>2. Good(v)
    BY <1>1, <1>4, <2>1, GoodStep
  <2>3. Good(v)' <=> Good(v)
    BY <1>2, <2>1, GoodFrozen
  <2> QED BY <1>1, <1>2, <2>1, <2>2, <2>3
<1> QED BY <1>3, <1>4 DEF Lasting

LEMMA LastingInit ==
  ASSUME Init
  PROVE  Lasting
<1>1. Blank.status = "pending" /\ config \in Tables /\ themes \in ThemePools(config) /\ table = Blank
  BY BlankIs DEF Init
<1> QED BY <1>1 DEF Lasting, Good

LEMMA ThemesLast == Spec => []Lasting
<1>1. Init => Lasting
  BY LastingInit
<1>2. Inductive /\ Lasting /\ [Next]_vars => Lasting'
  BY LastingStep
<1> QED BY <1>1, <1>2, Invariance, PTL DEF Spec

(* A theme that passed preflightThemes lasts: whatever packs are dealt and  *)
(* burned and whoever takes what, every player gets a card of the main pool *)
(* in every main round and at the end the whole deck, with the extra deck  *)
(* that the theme has cards for.                                           *)
THEOREM ThemesAreEnough == Spec => [](IsTheme => ThemesSuffice)
<1>1. Inductive /\ Lasting => (IsTheme => ThemesSuffice)
  <2> SUFFICES ASSUME Lasting, IsTheme, table.status = "completed", edits = 0 PROVE ThemesSuffice
    BY DEF ThemesSuffice
  <2>1. \A s \in Seats : Enough(table, s)
    BY DEF Lasting, Good
  <2> QED BY <2>1 DEF ThemesSuffice, Enough, Offers
<1> QED BY <1>1, Invariance, ThemesLast, PTL
-----------------------------------------------------------------------------
(* The prediction that the room shows, as a sequence of states.             *)

(* What it follows: who holds a pack, what is left of it, and the totals.   *)
WalkState == [at : [Seats -> Seats], rest : [Seats -> Nat], total : [Seats -> Nat]]

(* f lists the states of wave w, entered with these totals.                 *)
Walks(f, deal, w, total) ==
    /\ f \in [0..WaveSteps -> WalkState]
    /\ f[0] = Unstarted(deal, w, total)
    /\ \A k \in 1..WaveSteps : f[k] = ReachStep(f[k - 1], w, k)

LEMMA WaveStepsAre ==
  ASSUME config \in Tables
  PROVE  WaveSteps \in Nat /\ WaveSteps = N * (PackSize + PicksPerStep) /\ PicksPerStep \in {1, 2}
<1>1. N \in Nat /\ PackSize \in Nat /\ PicksPerStep \in {1, 2}
  BY ConfigIs
<1>2. PackSize + PicksPerStep \in Nat
  BY <1>1
<1>3. N * (PackSize + PicksPerStep) \in Nat
  BY <1>1, <1>2
<1> QED BY <1>1, <1>3 DEF WaveSteps

LEMMA ReachStepIs ==
  ASSUME config \in Tables, NEW x \in WalkState, NEW w \in Nat, NEW k \in Nat
  PROVE  /\ ReachStep(x, w, k) \in WalkState
         /\ \A o \in Seats :
               /\ ReachStep(x, w, k).at[o] =
                     IF k % PicksPerStep = 0 THEN (x.at[o] + Direction(w)) % N ELSE x.at[o]
               /\ ReachStep(x, w, k).rest[o] =
                     IF x.rest[o] > 0 /\ x.total[x.at[o]] < MainTarget THEN x.rest[o] - 1 ELSE x.rest[o]
         /\ \A s \in Seats : ReachStep(x, w, k).total[s] =
               IF \E o \in Seats : x.rest[o] > 0 /\ x.at[o] = s /\ x.total[s] < MainTarget
               THEN x.total[s] + 1 ELSE x.total[s]
<1> DEFINE taken == {o \in Seats : x.rest[o] > 0 /\ x.total[x.at[o]] < MainTarget}
           at == [o \in Seats |->
                    IF k % PicksPerStep = 0 THEN (x.at[o] + Direction(w)) % N ELSE x.at[o]]
           rest == [o \in Seats |-> x.rest[o] - (IF o \in taken THEN 1 ELSE 0)]
           total == [s \in Seats |-> x.total[s] + (IF \E o \in taken : x.at[o] = s THEN 1 ELSE 0)]
<1>1. x.at \in [Seats -> Seats] /\ x.rest \in [Seats -> Nat] /\ x.total \in [Seats -> Nat]
  BY DEF WalkState
<1>2. at \in [Seats -> Seats]
  BY <1>1, Rotation
<1>3. ASSUME NEW o \in Seats
      PROVE  /\ rest[o] \in Nat
             /\ rest[o] = IF x.rest[o] > 0 /\ x.total[x.at[o]] < MainTarget
                          THEN x.rest[o] - 1 ELSE x.rest[o]
  <2>1. rest[o] = x.rest[o] - (IF o \in taken THEN 1 ELSE 0) /\ x.rest[o] \in Nat
    BY <1>1
  <2>2. o \in taken <=> x.rest[o] > 0 /\ x.total[x.at[o]] < MainTarget
    OBVIOUS
  <2> HIDE DEF rest, taken
  <2> QED BY <2>1, <2>2
<1>4. ASSUME NEW s \in Seats
      PROVE  /\ total[s] \in Nat
             /\ total[s] = IF \E o \in Seats : x.rest[o] > 0 /\ x.at[o] = s /\ x.total[s] < MainTarget
                           THEN x.total[s] + 1 ELSE x.total[s]
  <2>1. total[s] = x.total[s] + (IF \E o \in taken : x.at[o] = s THEN 1 ELSE 0) /\ x.total[s] \in Nat
    BY <1>1
  <2>2. (\E o \in taken : x.at[o] = s)
          <=> \E o \in Seats : x.rest[o] > 0 /\ x.at[o] = s /\ x.total[s] < MainTarget
    OBVIOUS
  <2> HIDE DEF total, taken
  <2> QED BY <2>1, <2>2
<1>5. ReachStep(x, w, k) = [at |-> at, rest |-> rest, total |-> total]
  BY DEF ReachStep
<1>6. rest \in [Seats -> Nat] /\ total \in [Seats -> Nat]
  BY <1>3, <1>4
<1>7. \A o \in Seats : at[o] = IF k % PicksPerStep = 0 THEN (x.at[o] + Direction(w)) % N ELSE x.at[o]
  OBVIOUS
<1> HIDE DEF at, rest, total, taken
<1>8. [at |-> at, rest |-> rest, total |-> total] \in WalkState
  BY <1>2, <1>6 DEF WalkState
<1> QED BY <1>3, <1>4, <1>5, <1>7, <1>8

LEMMA StepTakes ==
  ASSUME config \in Tables, NEW x \in WalkState, NEW w \in Nat, NEW k \in Nat,
         NEW y, y = ReachStep(x, w, k)
  PROVE  /\ \A o \in Seats : y.rest[o] =
               IF x.rest[o] > 0 /\ x.total[x.at[o]] < MainTarget THEN x.rest[o] - 1 ELSE x.rest[o]
         /\ \A s \in Seats : y.total[s] =
               IF \E o \in Seats : x.rest[o] > 0 /\ x.at[o] = s /\ x.total[s] < MainTarget
               THEN x.total[s] + 1 ELSE x.total[s]
         /\ \A o \in Seats : y.rest[o] = x.rest[o] \/ y.rest[o] = x.rest[o] - 1
         /\ \A s \in Seats : y.total[s] = x.total[s] \/ y.total[s] = x.total[s] + 1
<1>1. /\ \A o \in Seats : y.rest[o] =
               IF x.rest[o] > 0 /\ x.total[x.at[o]] < MainTarget THEN x.rest[o] - 1 ELSE x.rest[o]
      /\ \A s \in Seats : y.total[s] =
               IF \E o \in Seats : x.rest[o] > 0 /\ x.at[o] = s /\ x.total[s] < MainTarget
               THEN x.total[s] + 1 ELSE x.total[s]
  <2>1. LET z == ReachStep(x, w, k)
        IN  /\ \A o \in Seats : z.rest[o] =
               IF x.rest[o] > 0 /\ x.total[x.at[o]] < MainTarget THEN x.rest[o] - 1 ELSE x.rest[o]
            /\ \A s \in Seats : z.total[s] =
               IF \E o \in Seats : x.rest[o] > 0 /\ x.at[o] = s /\ x.total[s] < MainTarget
               THEN x.total[s] + 1 ELSE x.total[s]
    BY ReachStepIs
  <2> QED BY <2>1
<1> QED BY <1>1

(* A deal whose packs are bags, of PackSize cards in the main waves.        *)
Dealing(deal) ==
    /\ deal \in [1..Waves -> [Seats -> Bag]]
    /\ \A w \in 1..MainRounds, o \in Seats : Size(deal[w][o]) <= PackSize

LEMMA UnstartedIs ==
  ASSUME config \in Tables, NEW deal, Dealing(deal), NEW w \in 1..MainRounds,
         NEW total \in [Seats -> Nat]
  PROVE  /\ Unstarted(deal, w, total) \in WalkState
         /\ \A o \in Seats : /\ Unstarted(deal, w, total).at[o] = o
                             /\ Unstarted(deal, w, total).rest[o] = Size(deal[w][o])
                             /\ Size(deal[w][o]) \in Nat /\ Size(deal[w][o]) <= PackSize
         /\ Unstarted(deal, w, total).total = total
<1>1. w \in 1..Waves
  BY RoundsAre
<1>2. ASSUME NEW o \in Seats PROVE Size(deal[w][o]) \in Nat
  <2>1. deal[w][o] \in [Names -> Nat]
    BY <1>1 DEF Dealing, Bag
  <2> QED BY <2>1, FiniteSets, SumsNat DEF Size
<1> QED BY <1>2 DEF Dealing, Unstarted, WalkState

LEMMA WalkIs ==
  ASSUME config \in Tables, NEW deal, Dealing(deal), NEW w \in 1..MainRounds,
         NEW total \in [Seats -> Nat]
  PROVE  \E f : /\ Walks(f, deal, w, total)
                /\ \A k \in 0..WaveSteps : Walk(deal, w, total)[k] = {f[k]}
<1> DEFINE G == [p \in (1..WaveSteps) \X WalkState |-> ReachStep(p[2], w, p[1])]
           x0 == Unstarted(deal, w, total)
<1>1. WaveSteps \in Nat
  BY WaveStepsAre
<1>2. x0 \in WalkState
  BY UnstartedIs
<1>3. w \in Nat
  BY RoundsAre
<1>4. \A i \in 1..WaveSteps, x \in WalkState : G[<<i, x>>] = ReachStep(x, w, i) /\ i \in Nat
  BY <1>1
<1> HIDE DEF G, x0
<1>5. StepsIn(G, WaveSteps, WalkState)
  BY <1>3, <1>4, ReachStepIs DEF StepsIn
<1>6. PICK f : Follows(f, x0, G, WaveSteps, WalkState)
  BY <1>1, <1>2, <1>5, Recursion
<1>7. f \in [0..WaveSteps -> WalkState] /\ f[0] = x0
      /\ \A k \in 1..WaveSteps : f[k] = ReachStep(f[k - 1], w, k)
  <2>1. f \in [0..WaveSteps -> WalkState] /\ f[0] = x0
        /\ \A i \in 1..WaveSteps : f[i] = G[<<i, f[i - 1]>>]
    BY <1>6 DEF Follows
  <2>2. ASSUME NEW k \in 1..WaveSteps PROVE f[k] = ReachStep(f[k - 1], w, k)
    <3>1. k - 1 \in 0..WaveSteps
      BY <1>1
    <3> QED BY <1>4, <2>1, <3>1
  <2> QED BY <2>1, <2>2
<1>8. Walks(f, deal, w, total)
  BY <1>7 DEF Walks, x0
<1> DEFINE walk == CHOOSE walk : walk = [k \in 0..WaveSteps |->
                      IF k = 0 THEN {Unstarted(deal, w, total)}
                      ELSE {ReachStep(x, w, k) : x \in walk[k - 1]}]
           Next1(S, k) == {ReachStep(x, w, k) : x \in S}
<1>9. Walk(deal, w, total) = walk
  BY DEF Walk
<1>10. walk = [k \in 0..WaveSteps |-> IF k = 0 THEN {x0} ELSE Next1(walk[k - 1], k)]
  <2> DEFINE g == [k \in 0..WaveSteps |-> {f[k]}]
  <2>1. ASSUME NEW k \in 0..WaveSteps
        PROVE  g[k] = IF k = 0 THEN {x0} ELSE Next1(g[k - 1], k)
    <3>1. CASE k = 0
      BY <1>7, <3>1
    <3>2. CASE k # 0
      <4>1. k - 1 \in 0..WaveSteps /\ k \in 1..WaveSteps
        BY <1>1, <3>2
      <4>2. g[k] = {f[k]} /\ g[k - 1] = {f[k - 1]}
        BY <4>1
      <4> HIDE DEF g
      <4>3. Next1({f[k - 1]}, k) = {ReachStep(f[k - 1], w, k)}
        OBVIOUS
      <4> QED BY <1>7, <3>2, <4>1, <4>2, <4>3
    <3> QED BY <3>1, <3>2
  <2>2. g = [k \in 0..WaveSteps |-> IF k = 0 THEN {x0} ELSE Next1(g[k - 1], k)]
    <3>1. g = [k \in 0..WaveSteps |-> g[k]]
      OBVIOUS
    <3> HIDE DEF g, Next1
    <3> QED BY <2>1, <3>1
  <2> HIDE DEF g
  <2>3. \E h : h = [k \in 0..WaveSteps |-> IF k = 0 THEN {x0} ELSE Next1(h[k - 1], k)]
    BY <2>2
  <2>4. \E h : h = [k \in 0..WaveSteps |-> IF k = 0 THEN {Unstarted(deal, w, total)}
                      ELSE {ReachStep(x, w, k) : x \in h[k - 1]}]
    BY <2>3 DEF x0, Next1
  <2> QED BY <2>4 DEF x0, Next1
<1> HIDE DEF walk
<1> DEFINE T == {k \in Nat : k <= WaveSteps => walk[k] = {f[k]}}
<1>11. 0 \in T
  BY <1>1, <1>7, <1>10
<1>12. ASSUME NEW k \in Nat, k \in T PROVE k + 1 \in T
  <2> SUFFICES ASSUME k + 1 <= WaveSteps PROVE walk[k + 1] = {f[k + 1]}
    OBVIOUS
  <2> DEFINE j == k + 1
  <2>1. j \in 0..WaveSteps /\ j # 0 /\ j - 1 = k /\ walk[k] = {f[k]} /\ j \in 1..WaveSteps
    BY <1>1, <1>12
  <2> HIDE DEF j, T
  <2>2. walk[j] = Next1({f[k]}, j)
    BY <1>10, <2>1
  <2>3. walk[j] = {f[j]}
    BY <1>7, <2>1, <2>2
  <2> QED BY <2>3 DEF j
<1> HIDE DEF T
<1>13. \A k \in Nat : k \in T
  BY <1>11, <1>12, Induction
<1>14. \A k \in 0..WaveSteps : walk[k] = {f[k]}
  BY <1>1, <1>13 DEF T
<1> QED BY <1>8, <1>9, <1>14

(* Packs only shrink and totals only grow.                                 *)
LEMMA WalkMore ==
  ASSUME config \in Tables, NEW f, NEW deal, NEW w \in Nat, NEW total, Walks(f, deal, w, total),
         NEW i \in 0..WaveSteps, NEW j \in i..WaveSteps
  PROVE  /\ \A o \in Seats : f[j].rest[o] <= f[i].rest[o] /\ f[j].rest[o] \in Nat /\ f[i].rest[o] \in Nat
         /\ \A s \in Seats : f[j].total[s] >= f[i].total[s] /\ f[j].total[s] \in Nat /\ f[i].total[s] \in Nat
<1>1. WaveSteps \in Nat
  BY WaveStepsAre
<1> DEFINE Less(k) == /\ \A o \in Seats : f[k].rest[o] <= f[i].rest[o]
                      /\ \A s \in Seats : f[k].total[s] >= f[i].total[s]
           T == {d \in Nat : i + d <= WaveSteps => Less(i + d)}
<1>2. \A k \in 0..WaveSteps : f[k] \in WalkState
  BY DEF Walks
<1>3. \A k \in 0..WaveSteps, o \in Seats : f[k].rest[o] \in Nat /\ f[k].total[o] \in Nat
  BY <1>2 DEF WalkState
<1>4. 0 \in T
  BY <1>1, <1>3
<1>5. ASSUME NEW d \in Nat, d \in T PROVE d + 1 \in T
  <2> SUFFICES ASSUME i + (d + 1) <= WaveSteps PROVE Less(i + (d + 1))
    OBVIOUS
  <2> DEFINE k == i + (d + 1)
  <2>1. k \in 1..WaveSteps /\ k - 1 = i + d /\ k - 1 \in 0..WaveSteps /\ k \in 0..WaveSteps /\ k \in Nat
    BY <1>1
  <2>2. Less(k - 1)
    BY <1>1, <1>5, <2>1
  <2>3. f[k] = ReachStep(f[k - 1], w, k) /\ f[k - 1] \in WalkState
    BY <1>2, <2>1 DEF Walks
  <2> HIDE DEF k
  <2>4. /\ \A o \in Seats : f[k].rest[o] = f[k - 1].rest[o] \/ f[k].rest[o] = f[k - 1].rest[o] - 1
        /\ \A s \in Seats : f[k].total[s] = f[k - 1].total[s] \/ f[k].total[s] = f[k - 1].total[s] + 1
    BY <2>1, <2>3, StepTakes
  <2>5. Less(k)
    BY <1>3, <2>1, <2>2, <2>4
  <2> QED BY <2>5 DEF k
<1> HIDE DEF T
<1>6. \A d \in Nat : d \in T
  BY <1>4, <1>5, Induction
<1>7. j - i \in Nat /\ i + (j - i) = j
  BY <1>1
<1>8. Less(j)
  <2> DEFINE d == j - i
  <2>1. d \in Nat /\ i + d = j
    BY <1>7
  <2> HIDE DEF d
  <2>2. d \in T
    BY <1>6, <2>1
  <2>3. i + d <= WaveSteps
    BY <1>1, <2>1
  <2>4. Less(i + d)
    BY <2>2, <2>3 DEF T
  <2> QED BY <2>1, <2>4
<1>9. i \in 0..WaveSteps /\ j \in 0..WaveSteps
  BY <1>1
<1> QED BY <1>3, <1>8, <1>9

(* Nothing is taken any more: nothing is left, or everybody has enough.     *)
Still(x) == (\A o \in Seats : x.rest[o] = 0) \/ (\A s \in Seats : x.total[s] >= MainTarget)

LEMMA WalkRests ==
  ASSUME config \in Tables, NEW f, NEW deal, NEW w \in Nat, NEW total, Walks(f, deal, w, total),
         NEW i \in 0..WaveSteps, Still(f[i])
  PROVE  f[WaveSteps].total = f[i].total
<1>1. WaveSteps \in Nat
  BY WaveStepsAre
<1> DEFINE Same(k) == f[k].total = f[i].total /\ Still(f[k])
           T == {d \in Nat : i + d <= WaveSteps => Same(i + d)}
<1>2. 0 \in T
  BY <1>1
<1>3. ASSUME NEW d \in Nat, d \in T PROVE d + 1 \in T
  <2> SUFFICES ASSUME i + (d + 1) <= WaveSteps PROVE Same(i + (d + 1))
    OBVIOUS
  <2> DEFINE k == i + (d + 1)
             x == f[k - 1]
             y == f[k]
  <2>1. k \in 1..WaveSteps /\ k - 1 = i + d /\ k - 1 \in 0..WaveSteps /\ k \in 0..WaveSteps /\ k \in Nat
    BY <1>1
  <2>2. Same(k - 1)
    BY <1>1, <1>3, <2>1
  <2>3. y = ReachStep(x, w, k) /\ x \in WalkState /\ y \in WalkState
    BY <2>1 DEF Walks
  <2>4. x.total = f[i].total /\ Still(x)
    BY <2>2
  <2> HIDE DEF k, x, y
  <2>5. /\ x.total \in [Seats -> Nat] /\ y.total \in [Seats -> Nat]
        /\ x.rest \in [Seats -> Nat] /\ x.at \in [Seats -> Seats] /\ MainTarget \in Nat
    BY <2>3, ConfigIs DEF WalkState
  <2>6. /\ \A o \in Seats : y.rest[o] =
              IF x.rest[o] > 0 /\ x.total[x.at[o]] < MainTarget THEN x.rest[o] - 1 ELSE x.rest[o]
        /\ \A s \in Seats : y.total[s] =
              IF \E o \in Seats : x.rest[o] > 0 /\ x.at[o] = s /\ x.total[s] < MainTarget
              THEN x.total[s] + 1 ELSE x.total[s]
    BY <2>1, <2>3, StepTakes
  <2>7. \A o \in Seats : ~(x.rest[o] > 0 /\ x.total[x.at[o]] < MainTarget)
    BY <2>4, <2>5 DEF Still
  <2>8. \A s \in Seats : y.total[s] = x.total[s]
    BY <2>5, <2>6, <2>7
  <2>9. y.total = x.total
    BY <2>5, <2>8
  <2>10. \A o \in Seats : y.rest[o] = x.rest[o]
    BY <2>6, <2>7
  <2>11. Still(y)
    BY <2>4, <2>8, <2>10 DEF Still
  <2>12. y.total = f[i].total /\ Still(y)
    BY <2>4, <2>9, <2>11
  <2> QED BY <2>12 DEF k, y
<1> HIDE DEF T
<1>4. \A d \in Nat : d \in T
  BY <1>2, <1>3, Induction
<1> DEFINE d == WaveSteps - i
<1>5. d \in Nat /\ i + d = WaveSteps
  BY <1>1
<1> HIDE DEF d
<1>6. d \in T
  BY <1>4, <1>5
<1>7. i + d <= WaveSteps => Same(i + d)
  BY <1>6 DEF T
<1> QED BY <1>1, <1>5, <1>7

(* Where a pack is after d moves.                                          *)
Spin(w, a, d) ==
    IF Direction(w) = 1 THEN (IF a + d < N THEN a + d ELSE a + d - N)
    ELSE (IF a - d >= 0 THEN a - d ELSE a - d + N)

LEMMA SpinIs ==
  ASSUME config \in Tables, NEW w \in Nat, NEW a \in Seats
  PROVE  /\ Spin(w, a, 0) = a
         /\ \A d \in 0..(N - 1) : /\ Spin(w, a, d) \in Seats
                                  /\ (Spin(w, a, d) + Direction(w)) % N = Spin(w, a, d + 1)
         /\ \A s \in Seats : \E d \in 0..(N - 1) : Spin(w, a, d) = s
<1>1. N \in Nat /\ N >= 2 /\ Seats = 0..(N - 1) /\ Direction(w) \in {1, -1}
  BY ConfigIs DEF Direction
<1>2. a \in 0..(N - 1)
  BY <1>1
<1>3. Spin(w, a, 0) = a
  BY <1>1, <1>2 DEF Spin
<1>4. ASSUME NEW d \in 0..(N - 1)
      PROVE  /\ Spin(w, a, d) \in Seats
             /\ (Spin(w, a, d) + Direction(w)) % N = Spin(w, a, d + 1)
  <2> DEFINE b == Spin(w, a, d)
  <2>1. b \in 0..(N - 1)
    BY <1>1, <1>2 DEF Spin
  <2>2. /\ (b + 1) % N = IF b = N - 1 THEN 0 ELSE b + 1
        /\ (b + -1) % N = IF b = 0 THEN N - 1 ELSE b - 1
    <3> HIDE DEF b
    <3> QED BY <1>1, <2>1, NextSeat
  <2>3. CASE Direction(w) = 1
    <3>1. b = IF a + d < N THEN a + d ELSE a + d - N
      BY <2>3 DEF Spin
    <3>2. Spin(w, a, d + 1) = IF a + (d + 1) < N THEN a + (d + 1) ELSE a + (d + 1) - N
      BY <2>3 DEF Spin
    <3>3. (b + Direction(w)) % N = (b + 1) % N
      BY <2>3
    <3> HIDE DEF b
    <3>4. Spin(w, a, d + 1) = IF b = N - 1 THEN 0 ELSE b + 1
      BY <1>1, <1>2, <3>1, <3>2
    <3> QED BY <1>1, <2>1, <2>2, <3>3, <3>4 DEF b
  <2>4. CASE Direction(w) = -1
    <3>0. Direction(w) # 1
      BY <2>4
    <3>1. b = IF a - d >= 0 THEN a - d ELSE a - d + N
      BY <3>0 DEF Spin
    <3>2. Spin(w, a, d + 1) = IF a - (d + 1) >= 0 THEN a - (d + 1) ELSE a - (d + 1) + N
      BY <3>0 DEF Spin
    <3>3. (b + Direction(w)) % N = (b + -1) % N
      BY <2>4
    <3> HIDE DEF b
    <3>4. Spin(w, a, d + 1) = IF b = 0 THEN N - 1 ELSE b - 1
      BY <1>1, <1>2, <3>1, <3>2
    <3> QED BY <1>1, <2>1, <2>2, <3>3, <3>4 DEF b
  <2> QED BY <1>1, <2>3, <2>4
<1>5. ASSUME NEW s \in Seats PROVE \E d \in 0..(N - 1) : Spin(w, a, d) = s
  <2>1. s \in 0..(N - 1)
    BY <1>1
  <2>2. CASE Direction(w) = 1
    <3> DEFINE d == IF s >= a THEN s - a ELSE s - a + N
    <3>1. d \in 0..(N - 1)
      BY <1>1, <1>2, <2>1
    <3>2. Spin(w, a, d) = s
      BY <1>1, <1>2, <2>1, <2>2 DEF Spin
    <3> HIDE DEF d
    <3> QED BY <3>1, <3>2
  <2>3. CASE Direction(w) = -1
    <3> DEFINE d == IF a >= s THEN a - s ELSE a - s + N
    <3>1. d \in 0..(N - 1)
      BY <1>1, <1>2, <2>1
    <3>2. Spin(w, a, d) = s
      BY <1>1, <1>2, <2>1, <2>3 DEF Spin
    <3> HIDE DEF d
    <3> QED BY <3>1, <3>2
  <2> QED BY <1>1, <2>2, <2>3
<1> QED BY <1>3, <1>4, <1>5

(* From the start of a turn, a pack is at the next seat every PicksPerStep  *)
(* steps, and stays there until then.                                      *)
LEMMA WalkSpins ==
  ASSUME config \in Tables, NEW f, NEW deal, NEW w \in Nat, NEW total, Walks(f, deal, w, total),
         NEW k \in 0..WaveSteps, k % PicksPerStep = 0, NEW o \in Seats,
         NEW d \in 0..(N - 1), k + d * PicksPerStep <= WaveSteps
  PROVE  /\ k + d * PicksPerStep \in 0..WaveSteps
         /\ f[k + d * PicksPerStep].at[o] = Spin(w, f[k].at[o], d)
         /\ PicksPerStep = 2 /\ k + d * PicksPerStep + 1 <= WaveSteps =>
               f[k + d * PicksPerStep + 1].at[o] = Spin(w, f[k].at[o], d)
<1> DEFINE P == PicksPerStep
           a == f[k].at[o]
           T == {e \in Nat : e <= N - 1 /\ k + e * P <= WaveSteps => f[k + e * P].at[o] = Spin(w, a, e)}
<1>1. WaveSteps \in Nat /\ P \in {1, 2} /\ N \in Nat /\ N >= 2
  BY WaveStepsAre, ConfigIs
<1>2. \A j \in 0..WaveSteps : f[j] \in WalkState
  BY DEF Walks
<1>3. a \in Seats
  BY <1>2 DEF WalkState
<1>4. \A j \in 1..WaveSteps : f[j].at[o] =
          IF j % P = 0 THEN (f[j - 1].at[o] + Direction(w)) % N ELSE f[j - 1].at[o]
  <2> TAKE j \in 1..WaveSteps
  <2>1. j - 1 \in 0..WaveSteps /\ j \in Nat /\ f[j] = ReachStep(f[j - 1], w, j)
    BY <1>1 DEF Walks
  <2>2. f[j - 1] \in WalkState
    BY <1>2, <2>1
  <2>3. ReachStep(f[j - 1], w, j).at[o] =
          IF j % P = 0 THEN (f[j - 1].at[o] + Direction(w)) % N ELSE f[j - 1].at[o]
    BY <2>1, <2>2, ReachStepIs
  <2> QED BY <2>1, <2>3
<1> HIDE DEF a
<1>5. /\ Spin(w, a, 0) = a
      /\ \A e \in 0..(N - 1) : (Spin(w, a, e) + Direction(w)) % N = Spin(w, a, e + 1)
  BY <1>3, SpinIs
<1>6. 0 \in T
  <2>1. k + 0 * P = k
    BY <1>1
  <2> QED BY <1>5, <2>1 DEF a
<1>7. ASSUME NEW e \in Nat, e \in T PROVE e + 1 \in T
  <2> SUFFICES ASSUME e + 1 <= N - 1, k + (e + 1) * P <= WaveSteps
               PROVE  f[k + (e + 1) * P].at[o] = Spin(w, a, e + 1)
    OBVIOUS
  <2>1. CASE P = 1
    <3> DEFINE j == k + e + 1
    <3>1. j \in 1..WaveSteps /\ j - 1 = k + e * P /\ j = k + (e + 1) * P /\ e \in 0..(N - 1)
      BY <1>1, <2>1
    <3>2. k + e * P <= WaveSteps
      BY <1>1, <3>1
    <3>3. f[k + e * P].at[o] = Spin(w, a, e)
      BY <1>1, <1>7, <3>1, <3>2
    <3>4. j % P = 0
      BY <2>1, <3>1
    <3> HIDE DEF j, T, P
    <3> QED BY <1>4, <1>5, <3>1, <3>3, <3>4
  <2>2. CASE P = 2
    <3> DEFINE j == k + 2 * e + 2
               i == k + 2 * e + 1
    <3>1. /\ j \in 1..WaveSteps /\ j = k + (e + 1) * P /\ e \in 0..(N - 1)
          /\ i \in 1..WaveSteps /\ i = j - 1 /\ i - 1 = k + e * P
      BY <1>1, <2>2
    <3>2. k + e * P <= WaveSteps
      BY <1>1, <3>1
    <3>3. f[k + e * P].at[o] = Spin(w, a, e)
      BY <1>1, <1>7, <3>1, <3>2
    <3>4. j % P = 0 /\ i % P # 0
      <4>1. k % 2 = 0
        BY <2>2
      <4> QED BY <1>1, <2>2, <4>1
    <3> HIDE DEF j, i, T, P
    <3>5. f[i].at[o] = Spin(w, a, e)
      BY <1>4, <3>1, <3>3, <3>4
    <3>6. f[j].at[o] = Spin(w, a, e + 1)
      BY <1>4, <1>5, <3>1, <3>4, <3>5
    <3> QED BY <3>1, <3>6
  <2> QED BY <1>1, <2>1, <2>2
<1> HIDE DEF T
<1>8. \A e \in Nat : e \in T
  BY <1>6, <1>7, Induction
<1>9. k + d * P \in 0..WaveSteps
  <2>1. CASE P = 1
    BY <1>1, <2>1
  <2>2. CASE P = 2
    BY <1>1, <2>2
  <2> QED BY <1>1, <2>1, <2>2
<1>10. f[k + d * P].at[o] = Spin(w, a, d)
  <2>1. d \in T /\ d <= N - 1
    BY <1>1, <1>8
  <2> QED BY <1>9, <2>1 DEF T
<1>11. ASSUME P = 2, k + d * P + 1 <= WaveSteps
       PROVE  f[k + d * P + 1].at[o] = Spin(w, a, d)
  <2> DEFINE i == k + d * P + 1
  <2>1. i \in 1..WaveSteps /\ i - 1 = k + d * P
    BY <1>1, <1>11
  <2>2. i % P # 0
    <3>1. k % 2 = 0 /\ i = k + 2 * d + 1
      BY <1>1, <1>11
    <3> QED BY <1>1, <1>11, <3>1
  <2> HIDE DEF i, P
  <2>3. f[i].at[o] = Spin(w, a, d)
    BY <1>4, <1>10, <2>1, <2>2
  <2> QED BY <2>3 DEF i
<1> QED BY <1>9, <1>10, <1>11 DEF a

(* Within one turn of the table every pack is at every seat.                *)
LEMMA WalkVisits ==
  ASSUME config \in Tables, NEW f, NEW deal, NEW w \in Nat, NEW total, Walks(f, deal, w, total),
         NEW k \in 0..WaveSteps, k % PicksPerStep = 0, k + N * PicksPerStep <= WaveSteps,
         NEW o \in Seats, NEW s \in Seats
  PROVE  \E j \in k..(k + (N - 1) * PicksPerStep) :
            /\ j \in 0..(WaveSteps - PicksPerStep) /\ f[j].at[o] = s
            /\ PicksPerStep = 2 => f[j + 1].at[o] = s
<1>1. WaveSteps \in Nat /\ PicksPerStep \in {1, 2} /\ N \in Nat /\ N >= 2
  BY WaveStepsAre, ConfigIs
<1>2. f[k].at[o] \in Seats
  BY DEF Walks, WalkState
<1>3. PICK d \in 0..(N - 1) : Spin(w, f[k].at[o], d) = s
  <2> DEFINE a == f[k].at[o]
  <2>1. a \in Seats
    BY <1>2
  <2> HIDE DEF a
  <2>2. \A q \in Seats : \E d \in 0..(N - 1) : Spin(w, a, d) = q
    BY <2>1, SpinIs
  <2> QED BY <2>2 DEF a
<1> DEFINE j == k + d * PicksPerStep
<1>4. /\ j \in k..(k + (N - 1) * PicksPerStep) /\ j + PicksPerStep <= WaveSteps /\ j \in Nat
  <2>1. CASE PicksPerStep = 1
    BY <1>1, <2>1
  <2>2. CASE PicksPerStep = 2
    BY <1>1, <2>2
  <2> QED BY <1>1, <2>1, <2>2
<1>5. k + d * PicksPerStep <= WaveSteps
  BY <1>1, <1>4
<1>6. /\ f[k + d * PicksPerStep].at[o] = Spin(w, f[k].at[o], d)
      /\ PicksPerStep = 2 /\ k + d * PicksPerStep + 1 <= WaveSteps =>
               f[k + d * PicksPerStep + 1].at[o] = Spin(w, f[k].at[o], d)
  BY <1>5, WalkSpins
<1>7. f[j].at[o] = s /\ (PicksPerStep = 2 /\ j + 1 <= WaveSteps => f[j + 1].at[o] = s)
  BY <1>3, <1>6
<1> HIDE DEF j
<1>8. j \in 0..(WaveSteps - PicksPerStep)
  BY <1>1, <1>4
<1>9. PicksPerStep = 2 => f[j + 1].at[o] = s
  BY <1>1, <1>4, <1>7
<1> QED BY <1>4, <1>7, <1>8, <1>9

(* A visit to a seat that still drafts costs the pack as many cards as are  *)
(* picked of it there.                                                     *)
Shrinks(f, o, j) ==
    \/ f[j + PicksPerStep].rest[o] = 0
    \/ f[j + PicksPerStep].rest[o] + PicksPerStep = f[j].rest[o]

LEMMA VisitTakes ==
  ASSUME config \in Tables, NEW f, NEW deal, NEW w \in Nat, NEW total, Walks(f, deal, w, total),
         NEW j \in 0..(WaveSteps - PicksPerStep), NEW o \in Seats, NEW s \in Seats,
         f[j].at[o] = s, PicksPerStep = 2 => f[j + 1].at[o] = s,
         f[WaveSteps].total[s] < MainTarget
  PROVE  Shrinks(f, o, j)
<1> USE DEF Shrinks
<1>1. WaveSteps \in Nat /\ PicksPerStep \in {1, 2} /\ MainTarget \in Nat
  BY WaveStepsAre, ConfigIs
<1>2. ASSUME NEW i \in 0..(WaveSteps - 1), f[i].at[o] = s
      PROVE  /\ f[i].rest[o] \in Nat /\ f[i + 1].rest[o] \in Nat
             /\ f[i + 1].rest[o] = IF f[i].rest[o] > 0 THEN f[i].rest[o] - 1 ELSE f[i].rest[o]
  <2> DEFINE h == i + 1
  <2>1. h \in 1..WaveSteps /\ h - 1 = i /\ h \in Nat /\ i \in 0..WaveSteps /\ h \in 0..WaveSteps
    BY <1>1
  <2>2. WaveSteps \in i..WaveSteps
    BY <1>1, <2>1
  <2> HIDE DEF h
  <2> DEFINE x == f[i]
             y == f[h]
  <2>3. y = ReachStep(x, w, h) /\ x \in WalkState /\ y \in WalkState
    BY <2>1 DEF Walks
  <2>4. f[WaveSteps].total[s] >= x.total[s] /\ x.total[s] \in Nat /\ f[WaveSteps].total[s] \in Nat
    BY <2>1, <2>2, WalkMore
  <2>5. x.at[o] = s
    BY <1>2
  <2> HIDE DEF x, y
  <2>6. y.rest[o] = IF x.rest[o] > 0 /\ x.total[x.at[o]] < MainTarget THEN x.rest[o] - 1 ELSE x.rest[o]
    BY <2>1, <2>3, StepTakes
  <2>7. y.rest[o] \in Nat /\ x.rest[o] \in Nat
    BY <2>3 DEF WalkState
  <2>8. x.total[s] < MainTarget
    BY <1>1, <2>4
  <2>9. y.rest[o] = IF x.rest[o] > 0 THEN x.rest[o] - 1 ELSE x.rest[o]
    BY <2>5, <2>6, <2>8
  <2> QED BY <2>7, <2>9 DEF x, y, h
<1>3. CASE PicksPerStep = 1
  <2>1. j \in 0..(WaveSteps - 1)
    BY <1>1, <1>3
  <2>2. /\ f[j].rest[o] \in Nat /\ f[j + 1].rest[o] \in Nat
        /\ f[j + 1].rest[o] = IF f[j].rest[o] > 0 THEN f[j].rest[o] - 1 ELSE f[j].rest[o]
    BY <1>2, <2>1
  <2>3. f[j + PicksPerStep] = f[j + 1]
    BY <1>3
  <2> QED BY <1>3, <2>2, <2>3
<1>4. CASE PicksPerStep = 2
  <2> DEFINE i == j + 1
  <2>1. j \in 0..(WaveSteps - 1) /\ i \in 0..(WaveSteps - 1) /\ i + 1 = j + 2
    BY <1>1, <1>4
  <2>2. f[i].at[o] = s
    BY <1>4
  <2>3. /\ f[j].rest[o] \in Nat /\ f[j + 1].rest[o] \in Nat
        /\ f[j + 1].rest[o] = IF f[j].rest[o] > 0 THEN f[j].rest[o] - 1 ELSE f[j].rest[o]
    BY <1>2, <2>1
  <2>4. f[j + 1] = f[i]
    OBVIOUS
  <2> HIDE DEF i
  <2>5. /\ f[i + 1].rest[o] \in Nat
        /\ f[i + 1].rest[o] = IF f[i].rest[o] > 0 THEN f[i].rest[o] - 1 ELSE f[i].rest[o]
    BY <1>2, <2>1, <2>2
  <2>6. f[j + PicksPerStep] = f[i + 1]
    BY <1>4, <2>1
  <2> QED BY <1>4, <2>3, <2>4, <2>5, <2>6
<1> QED BY <1>1, <1>3, <1>4

(* The promise behind WaveSteps: while somebody drafts, a wave is over by   *)
(* then.                                                                   *)
LEMMA WalkEnds ==
  ASSUME config \in Tables, NEW deal, Dealing(deal), NEW w \in 1..MainRounds,
         NEW total \in [Seats -> Nat], NEW f, Walks(f, deal, w, total),
         NEW s \in Seats, f[WaveSteps].total[s] < MainTarget, NEW o \in Seats
  PROVE  f[WaveSteps].rest[o] = 0
<1> DEFINE P == PicksPerStep
           at(m) == m * N * P
           T == {m \in Nat : at(m) <= WaveSteps =>
                    f[at(m)].rest[o] = 0 \/ f[at(m)].rest[o] + m * P <= PackSize}
<1>1. /\ WaveSteps \in Nat /\ P \in {1, 2} /\ N \in Nat /\ N >= 2 /\ PackSize \in Nat
      /\ WaveSteps = N * (PackSize + P) /\ w \in Nat
  BY WaveStepsAre, ConfigIs, RoundsAre
<1>2. \A j \in 0..WaveSteps : f[j].rest[o] \in Nat
  BY DEF Walks, WalkState
<1>3. \A m \in Nat : at(m) \in Nat /\ at(m) % P = 0 /\ at(m + 1) = at(m) + N * P /\ N * P \in Nat
  <2> TAKE m \in Nat
  <2> DEFINE z == m * N
  <2>1. z \in Nat /\ (m + 1) * N = z + N
    BY <1>1
  <2>2. at(m) = z * P /\ at(m + 1) = ((m + 1) * N) * P
    OBVIOUS
  <2> HIDE DEF z, at
  <2>3. CASE P = 1
    BY <1>1, <2>1, <2>2, <2>3
  <2>4. CASE P = 2
    BY <1>1, <2>1, <2>2, <2>4
  <2> QED BY <1>1, <2>3, <2>4
<1>4. 0 \in T
  <2>1. at(0) = 0 /\ 0 * P = 0
    BY <1>1
  <2>2. f[0].rest[o] = Size(deal[w][o]) /\ Size(deal[w][o]) \in Nat /\ Size(deal[w][o]) <= PackSize
    <3>1. f[0] = Unstarted(deal, w, total)
      BY DEF Walks
    <3> QED BY <3>1, UnstartedIs
  <2> HIDE DEF at
  <2> QED BY <1>1, <2>1, <2>2
<1> HIDE DEF at
<1>12. ASSUME NEW j \in 0..(WaveSteps - PicksPerStep), f[j].at[o] = s,
              PicksPerStep = 2 => f[j + 1].at[o] = s
       PROVE  Shrinks(f, o, j)
  BY <1>1, <1>12, VisitTakes
<1>5. ASSUME NEW m \in Nat, m \in T PROVE m + 1 \in T
  <2> SUFFICES ASSUME at(m + 1) <= WaveSteps
               PROVE  f[at(m + 1)].rest[o] = 0 \/ f[at(m + 1)].rest[o] + (m + 1) * P <= PackSize
    OBVIOUS
  <2> DEFINE k == at(m)
             e == at(m + 1)
  <2>1. k \in 0..WaveSteps /\ k % P = 0 /\ k + N * P <= WaveSteps /\ e = k + N * P /\ e \in 0..WaveSteps
    <3> DEFINE np == N * P
    <3>1. at(m) \in Nat /\ at(m) % P = 0 /\ at(m + 1) = at(m) + np /\ np \in Nat
      BY <1>3
    <3> HIDE DEF np
    <3>2. k \in Nat /\ k % P = 0 /\ e = k + np /\ e <= WaveSteps
      BY <3>1
    <3> HIDE DEF k, e, P
    <3>3. k \in 0..WaveSteps /\ k + np <= WaveSteps /\ e \in 0..WaveSteps
      BY <1>1, <3>1, <3>2
    <3> QED BY <3>2, <3>3 DEF np
  <2>2. f[k].rest[o] = 0 \/ f[k].rest[o] + m * P <= PackSize
    BY <1>1, <1>5, <2>1
  <2> HIDE DEF k, e, T
  <2>3. PICK j \in k..(k + (N - 1) * P) : /\ j \in 0..(WaveSteps - P) /\ f[j].at[o] = s
                                          /\ P = 2 => f[j + 1].at[o] = s
    <3>1. /\ k \in 0..WaveSteps /\ k % PicksPerStep = 0 /\ k + N * PicksPerStep <= WaveSteps
          /\ w \in Nat
      BY <1>1, <2>1
    <3>2. \E j \in k..(k + (N - 1) * PicksPerStep) :
            /\ j \in 0..(WaveSteps - PicksPerStep) /\ f[j].at[o] = s
            /\ PicksPerStep = 2 => f[j + 1].at[o] = s
      BY <3>1, WalkVisits
    <3> QED BY <3>2
  <2>4. f[j + P].rest[o] = 0 \/ f[j + P].rest[o] + P = f[j].rest[o]
    <3>1. /\ w \in Nat /\ j \in 0..(WaveSteps - PicksPerStep) /\ f[j].at[o] = s
          /\ (PicksPerStep = 2 => f[j + 1].at[o] = s)
      BY <1>1, <2>3
    <3>2. Shrinks(f, o, j)
      BY <1>12, <3>1
    <3> QED BY <3>2 DEF Shrinks
  <2>5. j \in k..WaveSteps /\ j + P \in 0..WaveSteps /\ e \in (j + P)..WaveSteps /\ j \in 0..WaveSteps
    <3>1. k + (N - 1) * P + P = k + N * P
      BY <1>1, <2>1
    <3> DEFINE l == (N - 1) * P
    <3>2. l \in Nat /\ j \in k..(k + l) /\ k + l + P = e
      BY <1>1, <2>1, <2>3, <3>1
    <3> HIDE DEF l
    <3> QED BY <1>1, <2>1, <2>3, <3>2
  <2>6. f[j].rest[o] <= f[k].rest[o]
    BY <1>1, <2>1, <2>5, WalkMore
  <2>7. f[e].rest[o] <= f[j + P].rest[o]
    <3> DEFINE i == j + P
    <3>1. i \in 0..WaveSteps /\ e \in i..WaveSteps
      BY <2>5
    <3> HIDE DEF i
    <3>2. f[e].rest[o] <= f[i].rest[o]
      BY <1>1, <3>1, WalkMore
    <3> QED BY <3>2 DEF i
  <2>8. f[e].rest[o] \in Nat /\ f[k].rest[o] \in Nat /\ f[j].rest[o] \in Nat /\ f[j + P].rest[o] \in Nat
    BY <1>2, <2>1, <2>5
  <2>9. (m + 1) * P = m * P + P /\ m * P \in Nat
    BY <1>1
  <2> DEFINE r0 == f[k].rest[o]
             r1 == f[j].rest[o]
             r2 == f[j + P].rest[o]
             r3 == f[e].rest[o]
             mp == m * P
  <2>10. /\ r0 = 0 \/ r0 + mp <= PackSize
         /\ r2 = 0 \/ r2 + P = r1
         /\ r1 <= r0 /\ r3 <= r2 /\ r0 \in Nat /\ r1 \in Nat /\ r2 \in Nat /\ r3 \in Nat /\ mp \in Nat
    BY <2>2, <2>4, <2>6, <2>7, <2>8, <2>9
  <2> HIDE DEF r0, r1, r2, r3, mp
  <2>11. r3 = 0 \/ r3 + (mp + P) <= PackSize
    BY <1>1, <2>10
  <2>12. f[e].rest[o] = 0 \/ f[e].rest[o] + (m + 1) * P <= PackSize
    BY <2>9, <2>11 DEF r3, mp
  <2> QED BY <2>12 DEF e
<1> HIDE DEF T
<1>6. \A m \in Nat : m \in T
  BY <1>4, <1>5, Induction
<1>7. \E m \in Nat : at(m) <= WaveSteps /\ m * P > PackSize
  <2>1. CASE P = 1
    <3> DEFINE m == PackSize + 1
    <3>1. m \in Nat /\ m * P > PackSize /\ m * N * P = N * (PackSize + P)
      <4>1. m * N * P = m * N
        BY <1>1, <2>1
      <4>2. m * N = N * m
        BY <1>1
      <4> QED BY <1>1, <2>1, <4>1, <4>2
    <3> HIDE DEF m
    <3> QED BY <1>1, <3>1 DEF at
  <2>2. CASE P = 2
    <3> DEFINE m == PackSize \div 2 + 1
    <3>1. m \in Nat /\ m * 2 > PackSize /\ m * 2 <= PackSize + 2
      BY <1>1
    <3> HIDE DEF m
    <3>2. m * N * P = N * (m * 2)
      BY <1>1, <2>2, <3>1
    <3>3. PICK d \in Nat : PackSize + P = m * 2 + d
      <4>1. PackSize + P - m * 2 \in Nat
        BY <1>1, <2>2, <3>1
      <4>2. PackSize + P = m * 2 + (PackSize + P - m * 2)
        BY <1>1, <3>1, <2>2
      <4> QED BY <4>1, <4>2
    <3>4. N * (PackSize + P) = N * (m * 2) + N * d /\ N * d \in Nat /\ N * (m * 2) \in Nat
      BY <1>1, <3>1, <3>3
    <3>5. at(m) <= WaveSteps
      BY <1>1, <3>2, <3>4 DEF at
    <3> QED BY <2>2, <3>1, <3>5
  <2> QED BY <1>1, <2>1, <2>2
<1>8. PICK m \in Nat : at(m) <= WaveSteps /\ m * P > PackSize
  BY <1>7
<1>9. at(m) \in 0..WaveSteps /\ WaveSteps \in at(m)..WaveSteps
  BY <1>1, <1>3, <1>8
<1>10. f[at(m)].rest[o] = 0
  <2>1. f[at(m)].rest[o] = 0 \/ f[at(m)].rest[o] + m * P <= PackSize
    BY <1>6, <1>8 DEF T
  <2>2. f[at(m)].rest[o] \in Nat /\ m * P \in Nat
    BY <1>1, <1>2, <1>9
  <2> QED BY <1>1, <1>8, <2>1, <2>2
<1>11. f[WaveSteps].rest[o] <= f[at(m)].rest[o]
  <2> DEFINE i == at(m)
  <2>1. i \in 0..WaveSteps /\ WaveSteps \in i..WaveSteps
    BY <1>9
  <2> HIDE DEF i
  <2>2. f[WaveSteps].rest[o] <= f[i].rest[o]
    BY <1>1, <2>1, WalkMore
  <2> QED BY <2>2 DEF i
<1> QED BY <1>2, <1>9, <1>10, <1>11

(* The predicted totals after wave w, and the states of a wave entered with  *)
(* those of the wave before.                                               *)
After(deal, w) == CHOOSE total \in Totals(deal)[w] : TRUE
Course(f, deal, w) ==
    Walks(f, deal, w, After(deal, w - 1)) /\ After(deal, w) = f[WaveSteps].total

LEMMA TotalsAre ==
  ASSUME config \in Tables, NEW deal, Dealing(deal)
  PROVE  /\ After(deal, 0) = [s \in Seats |-> 0]
         /\ \A w \in 0..MainRounds : After(deal, w) \in [Seats -> Nat]
         /\ \A w \in 1..MainRounds : \E f : Course(f, deal, w)
<1> DEFINE X == [Seats -> Nat]
           n == MainRounds
           ends(w, total) == {x.total : x \in Walk(deal, w, total)[WaveSteps]}
           G == [p \in (1..n) \X X |-> CHOOSE total : total \in ends(p[1], p[2])]
           x0 == [s \in Seats |-> 0]
<1>1. n \in Nat /\ WaveSteps \in Nat
  BY RoundsAre, WaveStepsAre
<1>2. ASSUME NEW w \in 1..n, NEW total \in X
      PROVE  \E f : Walks(f, deal, w, total) /\ f[WaveSteps].total \in X
                    /\ ends(w, total) = {f[WaveSteps].total} /\ G[<<w, total>>] = f[WaveSteps].total
  <2>1. PICK f : /\ Walks(f, deal, w, total)
                 /\ \A k \in 0..WaveSteps : Walk(deal, w, total)[k] = {f[k]}
    BY <1>2, WalkIs
  <2>2. f[WaveSteps] \in WalkState /\ Walk(deal, w, total)[WaveSteps] = {f[WaveSteps]}
    BY <1>1, <2>1 DEF Walks
  <2>3. ends(w, total) = {f[WaveSteps].total}
    BY <2>2
  <2>4. f[WaveSteps].total \in X
    BY <2>2 DEF WalkState
  <2>5. G[<<w, total>>] = CHOOSE y : y \in ends(w, total)
    <3> HIDE DEF X, ends
    <3> QED OBVIOUS
  <2> HIDE DEF G, ends, X
  <2>6. G[<<w, total>>] = f[WaveSteps].total
    BY <2>3, <2>5
  <2> QED BY <2>1, <2>3, <2>4, <2>6
<1>3. x0 \in X
  OBVIOUS
<1> HIDE DEF G, X, ends, x0
<1>4. StepsIn(G, n, X)
  BY <1>2 DEF StepsIn
<1>5. PICK g : Follows(g, x0, G, n, X)
  BY <1>1, <1>3, <1>4, Recursion
<1>6. g \in [0..n -> X] /\ g[0] = x0 /\ \A i \in 1..n : g[i] = G[<<i, g[i - 1]>>]
  BY <1>5 DEF Follows
<1>7. \A w \in 1..n : g[w - 1] \in X /\ w - 1 \in 0..n
  BY <1>1, <1>6
<1>8. ASSUME NEW w \in 1..n
      PROVE  \E f : Walks(f, deal, w, g[w - 1]) /\ ends(w, g[w - 1]) = {g[w]} /\ g[w] = f[WaveSteps].total
  <2>1. g[w - 1] \in X /\ g[w] = G[<<w, g[w - 1]>>]
    BY <1>6, <1>7
  <2> DEFINE h == g[w - 1]
  <2> HIDE DEF h
  <2>2. \E f : Walks(f, deal, w, h) /\ ends(w, h) = {f[WaveSteps].total}
               /\ G[<<w, h>>] = f[WaveSteps].total
    BY <1>2, <2>1 DEF h
  <2> QED BY <2>1, <2>2 DEF h
<1> DEFINE after == CHOOSE after : after = [w \in 0..MainRounds |->
                      IF w = 0 THEN {[s \in Seats |-> 0]}
                      ELSE UNION {{x.total : x \in Walk(deal, w, total)[WaveSteps]} : total \in after[w - 1]}]
           Next1(S, w) == UNION {ends(w, total) : total \in S}
<1>9. Totals(deal) = after
  BY DEF Totals
<1>10. after = [w \in 0..n |-> IF w = 0 THEN {x0} ELSE Next1(after[w - 1], w)]
  <2> DEFINE h == [w \in 0..n |-> {g[w]}]
  <2>1. ASSUME NEW w \in 0..n
        PROVE  h[w] = IF w = 0 THEN {x0} ELSE Next1(h[w - 1], w)
    <3>1. CASE w = 0
      BY <1>6, <3>1
    <3>2. CASE w # 0
      <4>1. w - 1 \in 0..n /\ w \in 1..n
        BY <1>1, <3>2
      <4>2. h[w] = {g[w]} /\ h[w - 1] = {g[w - 1]}
        BY <4>1
      <4> HIDE DEF h
      <4>3. Next1({g[w - 1]}, w) = ends(w, g[w - 1])
        OBVIOUS
      <4>4. ends(w, g[w - 1]) = {g[w]}
        BY <1>8, <4>1
      <4> QED BY <3>2, <4>2, <4>3, <4>4
    <3> QED BY <3>1, <3>2
  <2>2. h = [w \in 0..n |-> IF w = 0 THEN {x0} ELSE Next1(h[w - 1], w)]
    <3>1. h = [w \in 0..n |-> h[w]]
      OBVIOUS
    <3> HIDE DEF h, Next1
    <3> QED BY <2>1, <3>1
  <2> HIDE DEF h
  <2>3. \E e : e = [w \in 0..n |-> IF w = 0 THEN {x0} ELSE Next1(e[w - 1], w)]
    BY <2>2
  <2>4. \E e : e = [w \in 0..MainRounds |-> IF w = 0 THEN {[s \in Seats |-> 0]}
                      ELSE UNION {{x.total : x \in Walk(deal, w, total)[WaveSteps]} : total \in e[w - 1]}]
    BY <2>3 DEF x0, ends
  <2> QED BY <2>4 DEF x0, ends
<1> HIDE DEF after
<1> DEFINE T == {w \in Nat : w <= n => after[w] = {g[w]}}
<1>11. 0 \in T
  BY <1>1, <1>6, <1>10
<1>12. ASSUME NEW k \in Nat, k \in T PROVE k + 1 \in T
  <2> SUFFICES ASSUME k + 1 <= n PROVE after[k + 1] = {g[k + 1]}
    OBVIOUS
  <2> DEFINE j == k + 1
  <2>1. j \in 0..n /\ j # 0 /\ j - 1 = k /\ after[k] = {g[k]} /\ j \in 1..n
    BY <1>1, <1>12
  <2> HIDE DEF j, T
  <2>2. after[j] = Next1({g[k]}, j)
    BY <1>10, <2>1
  <2>3. Next1({g[k]}, j) = ends(j, g[j - 1])
    BY <2>1
  <2>4. after[j] = {g[j]}
    BY <1>8, <2>1, <2>2, <2>3
  <2> QED BY <2>4 DEF j
<1> HIDE DEF T
<1>13. \A k \in Nat : k \in T
  BY <1>11, <1>12, Induction
<1>14. \A w \in 0..n : Totals(deal)[w] = {g[w]}
  BY <1>1, <1>9, <1>13 DEF T
<1>15. \A w \in 0..n : After(deal, w) = g[w]
  BY <1>14 DEF After
<1>16. 0 \in 0..n /\ \A w \in 1..n : w \in 0..n
  BY <1>1
<1>17. ASSUME NEW w \in 1..n PROVE \E f : Course(f, deal, w)
  <2>1. PICK f : Walks(f, deal, w, g[w - 1]) /\ g[w] = f[WaveSteps].total
    BY <1>8
  <2>2. After(deal, w) = g[w] /\ After(deal, w - 1) = g[w - 1]
    BY <1>7, <1>15, <1>16
  <2>3. Course(f, deal, w)
    BY <2>1, <2>2 DEF Course
  <2> QED BY <2>3
<1>18. After(deal, 0) = x0
  BY <1>6, <1>15, <1>16
<1> QED BY <1>6, <1>15, <1>17, <1>18 DEF x0, X
-----------------------------------------------------------------------------
(* The course of a booster draft.                                          *)

(* The prediction for all main waves: the totals after each, and the states *)
(* of each.                                                                *)
Charts(g, f, deal) ==
    /\ g \in [0..MainRounds -> [Seats -> Nat]] /\ g[0] = [s \in Seats |-> 0]
    /\ \A w \in 1..MainRounds :
          Walks(f[w], deal, w, g[w - 1]) /\ g[w] = f[w][WaveSteps].total

LEMMA ChartsAre ==
  ASSUME config \in Tables, NEW deal, Dealing(deal)
  PROVE  \E g, f : Charts(g, f, deal) /\ g[MainRounds] = After(deal, MainRounds)
<1> DEFINE g == [w \in 0..MainRounds |-> After(deal, w)]
           f == [w \in 1..MainRounds |-> CHOOSE f : Course(f, deal, w)]
<1>1. /\ After(deal, 0) = [s \in Seats |-> 0]
      /\ \A w \in 0..MainRounds : After(deal, w) \in [Seats -> Nat]
      /\ \A w \in 1..MainRounds : \E h : Course(h, deal, w)
  BY TotalsAre
<1>2. MainRounds \in Nat /\ 0 \in 0..MainRounds /\ MainRounds \in 0..MainRounds
      /\ \A w \in 1..MainRounds : w \in 0..MainRounds /\ w - 1 \in 0..MainRounds
  BY RoundsAre
<1>3. \A w \in 0..MainRounds : g[w] = After(deal, w)
  OBVIOUS
<1>4. g \in [0..MainRounds -> [Seats -> Nat]]
  BY <1>1
<1>5. ASSUME NEW w \in 1..MainRounds PROVE Course(f[w], deal, w)
  <2>1. f[w] = CHOOSE h : Course(h, deal, w)
    OBVIOUS
  <2>2. \E h : Course(h, deal, w)
    BY <1>1
  <2> HIDE DEF f
  <2> QED BY <2>1, <2>2
<1> HIDE DEF g, f
<1>6. Charts(g, f, deal)
  BY <1>1, <1>2, <1>3, <1>4, <1>5 DEF Charts, Course
<1>7. g[MainRounds] = After(deal, MainRounds)
  BY <1>2, <1>3
<1> QED BY <1>6, <1>7

(* There is one prediction. *)
LEMMA ChartsAgree ==
  ASSUME config \in Tables, NEW deal, NEW g, NEW f, Charts(g, f, deal),
         NEW h, NEW e, Charts(h, e, deal)
  PROVE  \A w \in 0..MainRounds : g[w] = h[w]
<1>1. MainRounds \in Nat /\ WaveSteps \in Nat /\ WaveSteps \in 0..WaveSteps
  BY RoundsAre, WaveStepsAre
<1> DEFINE T == {w \in Nat : w <= MainRounds => g[w] = h[w]}
<1>2. 0 \in T
  BY DEF Charts
<1>3. ASSUME NEW v \in Nat, v \in T PROVE v + 1 \in T
  <2> SUFFICES ASSUME v + 1 <= MainRounds PROVE g[v + 1] = h[v + 1]
    OBVIOUS
  <2> DEFINE w == v + 1
  <2>1. w \in 1..MainRounds /\ w - 1 = v /\ g[v] = h[v]
    BY <1>1, <1>3
  <2> HIDE DEF w, T
  <2>2. /\ Walks(f[w], deal, w, g[v]) /\ g[w] = f[w][WaveSteps].total
        /\ Walks(e[w], deal, w, g[v]) /\ h[w] = e[w][WaveSteps].total
    BY <2>1 DEF Charts
  <2> DEFINE a == f[w]
             b == e[w]
  <2> HIDE DEF a, b
  <2>3. Walks(a, deal, w, g[v]) /\ Walks(b, deal, w, g[v])
    BY <2>2 DEF a, b
  <2> DEFINE S == {k \in Nat : k <= WaveSteps => a[k] = b[k]}
  <2>4. 0 \in S
    BY <2>3 DEF Walks
  <2>5. ASSUME NEW k \in Nat, k \in S PROVE k + 1 \in S
    <3> SUFFICES ASSUME k + 1 <= WaveSteps PROVE a[k + 1] = b[k + 1]
      OBVIOUS
    <3> DEFINE j == k + 1
    <3>1. j \in 1..WaveSteps /\ j - 1 = k /\ a[k] = b[k]
      BY <1>1, <2>5
    <3> HIDE DEF j, S
    <3>2. a[j] = ReachStep(a[k], w, j) /\ b[j] = ReachStep(b[k], w, j)
      BY <2>3, <3>1 DEF Walks
    <3>3. a[j] = b[j]
      BY <3>1, <3>2
    <3> QED BY <3>3 DEF j
  <2> HIDE DEF S
  <2>6. WaveSteps \in S
    BY <1>1, <2>4, <2>5, Induction
  <2>7. a[WaveSteps] = b[WaveSteps]
    BY <1>1, <2>6 DEF S
  <2>8. g[w] = h[w]
    BY <2>2, <2>7 DEF a, b
  <2> QED BY <2>8 DEF w
<1> HIDE DEF T
<1>4. \A w \in Nat : w \in T
  BY <1>2, <1>3, Induction
<1> QED BY <1>1, <1>4 DEF T
-----------------------------------------------------------------------------
(* Sizes of packs.                                                         *)

LEMMA SizeIs ==
  ASSUME config \in Tables, NEW bag \in Bag
  PROVE  /\ Size(bag) \in Nat
         /\ Size(bag) = 0 <=> bag = Empty
<1>1. bag \in [Names -> Nat] /\ IsFiniteSet(Names)
  BY FiniteSets DEF Bag
<1>2. Size(bag) \in Nat
  BY <1>1, SumsNat DEF Size
<1>3. ASSUME bag = Empty PROVE Size(bag) = 0
  <2>1. \A c \in Names : bag[c] = 0
    BY <1>3 DEF Empty
  <2> QED BY <1>1, <2>1, SumsZero DEF Size
<1>4. ASSUME bag # Empty PROVE Size(bag) # 0
  <2>1. PICK c \in Names : bag[c] # 0
    BY <1>1, <1>4 DEF Empty
  <2> DEFINE less == [d \in Names |-> IF d = c THEN 0 ELSE bag[d]]
  <2>2. less \in [Names -> Nat] /\ less[c] = 0 /\ (\A d \in Names \ {c} : bag[d] = less[d])
        /\ bag[c] \in Nat
    BY <1>1
  <2> HIDE DEF less
  <2>3. SumFunction(bag) = SumFunction(less) + bag[c] - less[c]
    BY <1>1, <2>2, SumsChange
  <2>4. SumFunction(less) \in Nat
    BY <1>1, <2>2, SumsNat
  <2>5. SumFunction(bag) > 0
    BY <2>1, <2>2, <2>3, <2>4
  <2> QED BY <2>5 DEF Size
<1> QED BY <1>2, <1>3, <1>4

(* Bags that differ at one card. *)
LEMMA SizeChange ==
  ASSUME config \in Tables, NEW bag \in Bag, NEW new \in Bag, NEW c \in Names,
         \A d \in Names \ {c} : new[d] = bag[d]
  PROVE  Size(new) = Size(bag) + new[c] - bag[c]
<1>1. bag \in [Names -> Nat] /\ new \in [Names -> Nat] /\ IsFiniteSet(Names)
  BY FiniteSets DEF Bag
<1>2. SumFunction(new) = SumFunction(bag) + new[c] - bag[c]
  BY <1>1, SumsChange
<1> QED BY <1>2 DEF Size

(* Another card of the same bag. *)
LEMMA SizeTraded ==
  ASSUME config \in Tables, NEW bag \in Bag, NEW out \in Names, bag[out] > 0, NEW in \in Names,
         Traded(bag, out, in) \in Bag
  PROVE  Size(Traded(bag, out, in)) = Size(bag)
<1> DEFINE less == [d \in Names |-> bag[d] - (IF d = out THEN 1 ELSE 0)]
           new == Traded(bag, out, in)
<1>1. bag \in [Names -> Nat] /\ \A d \in Names : bag[d] \in Nat
  BY DEF Bag
<1>2. /\ less \in Bag /\ less[out] = bag[out] - 1 /\ \A d \in Names \ {out} : less[d] = bag[d]
  BY <1>1 DEF Bag
<1>3. \A d \in Names : new[d] = bag[d] - (IF d = out THEN 1 ELSE 0) + (IF d = in THEN 1 ELSE 0)
  BY DEF Traded
<1>4. \A d \in Names : less[d] = bag[d] - (IF d = out THEN 1 ELSE 0) /\ less[d] \in Nat
  BY <1>1
<1> HIDE DEF less, new
<1>5. new[in] = less[in] + 1 /\ \A d \in Names \ {in} : new[d] = less[d]
  BY <1>1, <1>3, <1>4
<1>6. new \in Bag
  BY DEF new
<1>7. Size(less) = Size(bag) + less[out] - bag[out]
  BY <1>2, SizeChange
<1>8. Size(new) = Size(less) + new[in] - less[in]
  BY <1>2, <1>5, <1>6, SizeChange
<1>9. Size(bag) \in Nat
  BY SizeIs
<1>10. Size(new) = Size(bag)
  BY <1>1, <1>2, <1>4, <1>5, <1>7, <1>8, <1>9
<1> QED BY <1>10 DEF new

(* A bag has no more cards than the sequence it is made of, and as many     *)
(* when all of them have a name.                                           *)
LEMMA BagOfSize ==
  ASSUME config \in Tables, NEW n \in Nat, NEW q, DOMAIN q = 1..n
  PROVE  /\ Size(BagOf(q)) \in Nat /\ Size(BagOf(q)) <= n /\ BagOf(q) \in Bag
         /\ (\A i \in 1..n : q[i] \in Names) => Size(BagOf(q)) = n
<1> DEFINE at(k, c) == {i \in 1..k : q[i] = c}
           bag(k) == [c \in Names |-> Cardinality(at(k, c))]
           AllNamed(k) == \A i \in 1..k : q[i] \in Names
           T == {k \in Nat : /\ bag(k) \in Bag /\ Size(bag(k)) <= k
                             /\ AllNamed(k) => Size(bag(k)) = k}
<1>0. ASSUME NEW k \in Nat, NEW c PROVE IsFiniteSet(at(k, c)) /\ Cardinality(at(k, c)) \in Nat
  <2>1. IsFiniteSet(1..k)
    BY FS_Interval
  <2>2. IsFiniteSet(at(k, c))
    BY <2>1, FS_Subset
  <2> QED BY <2>2, FS_CardinalityType
<1>1. \A k \in Nat : bag(k) \in Bag
  BY <1>0 DEF Bag
<1>2. 0 \in T
  <2>1. \A c : at(0, c) = {}
    OBVIOUS
  <2>2. bag(0) = Empty
    <3> HIDE DEF at
    <3> QED BY <2>1, FS_EmptySet DEF Empty
  <2>3. bag(0) \in Bag
    BY <1>1
  <2> HIDE DEF bag
  <2>4. Size(bag(0)) = 0
    BY <2>2, <2>3, SizeIs
  <2> QED BY <2>3, <2>4
<1>3. ASSUME NEW k \in Nat, k \in T PROVE k + 1 \in T
  <2> DEFINE j == k + 1
             a == bag(k)
             b == bag(j)
  <2>1. a \in Bag /\ b \in Bag /\ j \in Nat
    BY <1>1
  <2>2. \A c : at(j, c) = IF q[j] = c THEN at(k, c) \cup {j} ELSE at(k, c)
    OBVIOUS
  <2>3. \A c : j \notin at(k, c)
    OBVIOUS
  <2>4. \A c \in Names : a[c] = Cardinality(at(k, c)) /\ b[c] = Cardinality(at(j, c))
    OBVIOUS
  <2>5. /\ Size(a) <= k /\ (AllNamed(k) => Size(a) = k)
    BY <1>3
  <2>6. AllNamed(j) <=> AllNamed(k) /\ q[j] \in Names
    <3>1. \A i : i \in 1..j <=> i \in 1..k \/ i = j
      OBVIOUS
    <3> QED BY <3>1
  <2>7. Size(a) \in Nat /\ Size(b) \in Nat
    <3> HIDE DEF a, b
    <3> QED BY <2>1, SizeIs
  <2> HIDE DEF at, bag, a, b, AllNamed, T
  <2>8. CASE q[j] \in Names
    <3> DEFINE c == q[j]
    <3>1. at(j, c) = at(k, c) \cup {j} /\ j \notin at(k, c) /\ IsFiniteSet(at(k, c))
          /\ Cardinality(at(k, c)) \in Nat
      BY <1>0, <2>2, <2>3
    <3>2. Cardinality(at(j, c)) = Cardinality(at(k, c)) + 1
      BY <3>1, FS_AddElement
    <3>3. \A d \in Names \ {c} : b[d] = a[d]
      BY <2>2, <2>4
    <3>4. b[c] = a[c] + 1 /\ a[c] \in Nat
      BY <2>4, <2>8, <3>1, <3>2
    <3> HIDE DEF c
    <3>5. Size(b) = Size(a) + b[c] - a[c]
      BY <2>1, <2>8, <3>3, SizeChange DEF c
    <3>6. Size(b) = Size(a) + 1
      BY <2>7, <3>4, <3>5
    <3>7. Size(b) <= j /\ (AllNamed(j) => Size(b) = j)
      BY <2>5, <2>6, <2>7, <3>6 DEF j
    <3> QED BY <2>1, <3>7 DEF T, j, b
  <2>9. CASE q[j] \notin Names
    <3>1. b = a
      <4>1. \A d \in Names : b[d] = a[d]
        BY <2>2, <2>4, <2>9
      <4> QED BY <2>1, <4>1 DEF Bag
    <3>2. Size(b) <= j /\ (AllNamed(j) => Size(b) = j)
      BY <2>5, <2>6, <2>7, <2>9, <3>1 DEF j
    <3> QED BY <2>1, <3>2 DEF T, j, b
  <2> QED BY <2>8, <2>9
<1>4. BagOf(q) = bag(n)
  BY DEF BagOf
<1> HIDE DEF T, bag, at
<1>5. n \in T
  BY <1>2, <1>3, Induction
<1> USE DEF T
<1>6. BagOf(q) \in Bag /\ Size(BagOf(q)) <= n
      /\ ((\A i \in 1..n : q[i] \in Names) => Size(BagOf(q)) = n)
  BY <1>4, <1>5
<1>7. Size(BagOf(q)) \in Nat
  BY <1>6, SizeIs
<1> QED BY <1>6, <1>7
(* No pack has more than PackSize cards. *)
LEMMA ShareFits ==
  ASSUME NEW n \in Nat \ {0}, NEW m \in Nat, NEW r \in Nat, r <= n * m, NEW o \in Nat
  PROVE  /\ r \div n \in Nat /\ r % n \in Nat
         /\ r \div n + (IF o < r % n THEN 1 ELSE 0) <= m
<1> DEFINE d == r \div n
           e == r % n
<1>1. r = n * d + e /\ d \in Nat /\ e \in 0..(n - 1)
  OBVIOUS
<1> HIDE DEF d, e
<1>2. d <= m
  <2> SUFFICES ASSUME d >= m + 1 PROVE FALSE
    BY <1>1
  <2> DEFINE x == d - (m + 1)
  <2>1. x \in Nat /\ d = m + 1 + x
    BY <1>1
  <2> HIDE DEF x
  <2>2. n * d = n * m + n + n * x /\ n * x \in Nat
    BY <2>1
  <2>3. n * d > n * m
    <3> DEFINE a == n * d
               b == n * m
               c == n * x
    <3>1. a = b + n + c /\ c \in Nat /\ b \in Nat
      BY <2>2
    <3> HIDE DEF a, b, c
    <3> QED BY <3>1 DEF a, b
  <2> DEFINE a == n * d
             b == n * m
  <2>4. a > b /\ a \in Int /\ b \in Int /\ r <= b /\ r = a + e
    BY <1>1, <2>3
  <2> HIDE DEF a, b
  <2> QED BY <1>1, <2>4
<1>3. ASSUME d = m PROVE e = 0
  <2> DEFINE a == n * d
  <2>1. a \in Int /\ r <= a /\ r = a + e
    BY <1>1, <1>3
  <2> HIDE DEF a
  <2> QED BY <1>1, <2>1
<1>4. d + (IF o < e THEN 1 ELSE 0) <= m
  <2>1. CASE d = m
    BY <1>1, <1>3, <2>1
  <2>2. CASE d # m
    BY <1>1, <1>2, <2>2
  <2> QED BY <2>1, <2>2
<1> QED BY <1>1, <1>4 DEF d, e

LEMMA CountFits ==
  ASSUME config \in Tables, NEW main \in Seq(MainNames), NEW w \in 1..Waves, NEW o \in Seats
  PROVE  /\ PackStart(main, w, o) \in Nat
         /\ PackCount(main, w, o) \in Nat /\ PackCount(main, w, o) <= PackSize
<1> DEFINE start == WaveStart(main, w)
           rest == Least(Len(main) - start, N * PackSize)
<1>1. N \in Nat \ {0} /\ PackSize \in Nat /\ o \in Nat /\ Len(main) \in Nat /\ w - 1 \in Nat
  BY ConfigIs, RoundsAre
<1>2. N * PackSize \in Nat
  BY <1>1
<1>3. start \in Nat /\ start <= Len(main)
  <2>1. (w - 1) * N * PackSize \in Nat
    BY <1>1
  <2> DEFINE z == (w - 1) * N * PackSize
  <2>2. start = Least(Len(main), z) /\ z \in Nat
    BY <2>1 DEF WaveStart
  <2> HIDE DEF z, start
  <2> QED BY <1>1, <2>2, LeastIs
<1>4. PackCount(main, w, o) = rest \div N + (IF o < rest % N THEN 1 ELSE 0)
      /\ PackStart(main, w, o) = start + o * (rest \div N) + Least(o, rest % N)
  BY DEF PackCount, PackStart
<1>5. rest \in Nat /\ rest <= N * PackSize
  <2> DEFINE a == Len(main) - start
             b == N * PackSize
  <2>1. a \in Nat /\ b \in Nat /\ rest = Least(a, b)
    BY <1>1, <1>2, <1>3
  <2> HIDE DEF a, b, rest
  <2>2. rest \in Nat /\ rest <= b
    BY <2>1, LeastIs
  <2> QED BY <2>2 DEF b
<1> HIDE DEF rest, start
<1>6. /\ rest \div N \in Nat /\ rest % N \in Nat
      /\ rest \div N + (IF o < rest % N THEN 1 ELSE 0) <= PackSize
  BY <1>1, <1>5, ShareFits
<1> DEFINE d == rest \div N
           e == rest % N
<1>7. d \in Nat /\ e \in Nat /\ PackCount(main, w, o) = d + (IF o < e THEN 1 ELSE 0)
      /\ d + (IF o < e THEN 1 ELSE 0) <= PackSize /\ PackStart(main, w, o) = start + o * d + Least(o, e)
  BY <1>4, <1>6
<1> HIDE DEF d, e
<1>8. o * d \in Nat /\ Least(o, e) \in Nat
  BY <1>1, <1>7, LeastIs
<1> QED BY <1>1, <1>3, <1>7, <1>8

(* Every seat gets at most PackSize cards of the main pool a wave, and in   *)
(* the last wave exactly ExtraSize cards of the extra pool.                *)
LEMMA DealIs ==
  ASSUME config \in Tables, ~IsTheme, NEW main \in MainDecks(config), NEW extra \in ExtraDecks(config),
         ~(Len(extra) < N * ExtraSize)
  PROVE  LET deal == Packs(main, extra)
         IN  /\ Dealing(deal)
             /\ ExtraSize > 0 => \A o \in Seats : Size(deal[Waves][o]) = ExtraSize
<1> DEFINE mains(w, o) == SubSeq(main, PackStart(main, w, o) + 1,
                                       PackStart(main, w, o) + PackCount(main, w, o))
           extras(o) == SubSeq(extra, o * ExtraSize + 1, (o + 1) * ExtraSize)
           deal == Packs(main, extra)
<1>1. /\ N \in Nat /\ N >= 2 /\ Seats = 0..(N - 1) /\ ExtraSize \in Nat /\ PackSize \in Nat
      /\ MainRounds \in Nat \ {0} /\ Waves \in Nat \ {0} /\ MainRounds <= Waves
      /\ (ExtraSize > 0 => Waves = MainRounds + 1) /\ (ExtraSize = 0 => Waves = MainRounds)
  BY ConfigIs, RoundsAre
<1>2. main \in Seq(MainNames)
      /\ (ExtraSize > 0 => extra \in Seq(ExtraNames) /\ ExtraNames \subseteq Names)
  <2>1. /\ MainDecks(config) \subseteq Seq(MainNames)
        /\ ExtraDecks(config) \subseteq IF config.extraSize > 0 THEN Seq(ExtraNames) ELSE {<< >>}
    BY TableAssumption
  <2> QED BY <2>1 DEF ExtraSize, Names
<1>3. ASSUME NEW w \in 1..Waves, NEW o \in Seats
      PROVE  BagOf(mains(w, o)) \in Bag /\ Size(BagOf(mains(w, o))) <= PackSize
  <2>1. /\ PackStart(main, w, o) \in Nat
        /\ PackCount(main, w, o) \in Nat /\ PackCount(main, w, o) <= PackSize
    BY <1>2, CountFits
  <2>2. DOMAIN mains(w, o) = 1..PackCount(main, w, o)
    BY <2>1
  <2> DEFINE q == mains(w, o)
  <2> HIDE DEF q
  <2>3. Size(BagOf(q)) \in Nat /\ Size(BagOf(q)) <= PackCount(main, w, o) /\ BagOf(q) \in Bag
    BY <2>1, <2>2, BagOfSize DEF q
  <2> QED BY <1>1, <2>1, <2>3 DEF q
<1>4. ASSUME ExtraSize > 0, NEW o \in Seats
      PROVE  BagOf(extras(o)) \in Bag /\ Size(BagOf(extras(o))) = ExtraSize
  <2> DEFINE a == o * ExtraSize
             q == extras(o)
  <2>1. a \in Nat /\ (o + 1) * ExtraSize = a + ExtraSize /\ a + ExtraSize <= N * ExtraSize
    <3> DEFINE x == N - 1 - o
    <3>1. x \in Nat /\ N = o + 1 + x /\ o \in Nat
      BY <1>1
    <3> HIDE DEF x
    <3>2. (o + 1) * ExtraSize = o * ExtraSize + ExtraSize
      BY <1>1, <3>1
    <3>3. N * ExtraSize = o * ExtraSize + ExtraSize + x * ExtraSize /\ x * ExtraSize \in Nat
          /\ o * ExtraSize \in Nat
      BY <1>1, <3>1
    <3> DEFINE b == N * ExtraSize
               c == x * ExtraSize
    <3>4. b = a + ExtraSize + c /\ c \in Nat /\ a \in Nat
      BY <3>3
    <3> HIDE DEF a, b, c
    <3>5. a + ExtraSize <= b
      BY <1>1, <3>4
    <3> QED BY <3>2, <3>4, <3>5 DEF a, b
  <2>2. Len(extra) \in Nat /\ a + ExtraSize <= Len(extra)
    <3> DEFINE b == N * ExtraSize
    <3>1. ~(Len(extra) < b) /\ b \in Nat /\ a + ExtraSize <= b /\ Len(extra) \in Nat
      BY <1>1, <1>2, <1>4, <2>1
    <3> HIDE DEF a, b
    <3> QED BY <1>1, <2>1, <3>1
  <2>3. q = SubSeq(extra, a + 1, a + ExtraSize)
    BY <2>1
  <2> HIDE DEF a, q
  <2>4. DOMAIN q = 1..ExtraSize /\ \A i \in 1..ExtraSize : q[i] \in Names
    <3>1. DOMAIN q = 1..ExtraSize /\ \A i \in 1..ExtraSize : q[i] = extra[a + i]
      BY <1>1, <2>1, <2>3
    <3>2. \A i \in 1..ExtraSize : a + i \in 1..Len(extra)
      BY <1>1, <2>1, <2>2
    <3>3. \A i \in 1..Len(extra) : extra[i] \in Names
      BY <1>2, <1>4
    <3> QED BY <3>1, <3>2, <3>3
  <2>5. BagOf(q) \in Bag /\ Size(BagOf(q)) = ExtraSize
    BY <1>1, <2>4, BagOfSize
  <2> QED BY <2>5 DEF q
<1>5. deal = [w \in 1..Waves |-> [o \in Seats |->
                IF Phase(w) = "extra" THEN BagOf(extras(o)) ELSE BagOf(mains(w, o))]]
  BY DEF Packs
<1> HIDE DEF mains, extras, deal
<1>6. \A w \in 1..Waves : Phase(w) = "extra" <=> ExtraSize > 0 /\ w = Waves
  BY <1>1 DEF Phase
<1>7. deal \in [1..Waves -> [Seats -> Bag]]
  BY <1>3, <1>4, <1>5, <1>6
<1>8. ASSUME NEW w \in 1..MainRounds, NEW o \in Seats PROVE Size(deal[w][o]) <= PackSize
  <2>1. w \in 1..Waves /\ Phase(w) # "extra"
    BY <1>1 DEF Phase
  <2> QED BY <1>3, <1>5, <2>1
<1>9. ASSUME ExtraSize > 0, NEW o \in Seats PROVE Size(deal[Waves][o]) = ExtraSize
  <2>1. Waves \in 1..Waves /\ Phase(Waves) = "extra"
    BY <1>1, <1>6, <1>9
  <2>2. deal[Waves][o] = BagOf(extras(o))
    BY <1>5, <2>1
  <2> QED BY <1>4, <1>9, <2>2
<1> QED BY <1>7, <1>8, <1>9 DEF Dealing, deal
-----------------------------------------------------------------------------
(* How the table follows the prediction.                                   *)

(* What pack o and seat s had when the step began.                         *)
Left(t, o) ==
    Size(t.packs[t.wave][o].cards) + (IF t.packs[t.wave][o].at \in t.picked THEN 1 ELSE 0)
Had(t, s) == Count(t, s) - (IF s \in t.picked THEN 1 ELSE 0)

(* The step began at state x of the prediction.                            *)
Meets(t, x) ==
    /\ \A o \in Seats : x.at[o] = t.packs[t.wave][o].at /\ x.rest[o] = Left(t, o)
    /\ \A s \in Seats : x.total[s] = Had(t, s)

InMain(t, f) ==
    /\ t.step \in 1..WaveSteps /\ Meets(t, f[t.wave][t.step - 1])
    /\ \A s \in Seats : t.main[s] = Count(t, s) /\ Count(t, s) <= MainTarget

(* In the extra phase everybody takes a card each step.                    *)
InExtra(t, g) ==
    /\ t.step \in 1..ExtraSize /\ t.passed = {}
    /\ \A o \in Seats : Left(t, o) = ExtraSize - (t.step - 1)
    /\ \A s \in Seats : t.main[s] = g[MainRounds][s] /\ Had(t, s) = t.main[s] + t.step - 1

(* A pack is in front of everybody, nobody finished early, and who passed   *)
(* has nothing to take.                                                    *)
Seated(t) ==
    /\ \A s \in Seats : \E o \in Seats : t.packs[t.wave][o].at = s
    /\ \A s \in t.finished : Count(t, s) >= CardsToDraft(t, s)
    /\ \A s \in t.passed : PacksAt(t, s) = {}

FullDeal(deal) ==
    Dealing(deal) /\ (ExtraSize > 0 => \A o \in Seats : Size(deal[Waves][o]) = ExtraSize)

OnCourse(t, g, f) ==
    /\ FullDeal(t.deal) /\ Charts(g, f, t.deal) /\ Seated(t)
    /\ IF Phase(t.wave) = "main" THEN InMain(t, f) ELSE InExtra(t, g)

Ended(t, g, f) ==
    /\ FullDeal(t.deal) /\ Charts(g, f, t.deal)
    /\ \A s \in Seats : t.main[s] = g[MainRounds][s] /\ Count(t, s) = t.main[s] + ExtraSize

Tracked(t, g, f) ==
    /\ t.status = "active" => OnCourse(t, g, f)
    /\ t.status = "completed" => Ended(t, g, f)

LEMMA CountIs ==
  ASSUME config \in Tables, NEW t \in Wholes, NEW s \in Seats
  PROVE  Count(t, s) \in Nat /\ t.main[s] \in Nat
<1>1. t.pool[s] \in Bag /\ t.main[s] \in Nat
  BY PartsOf
<1> QED BY <1>1, SizeIs DEF Count

LEMMA RowsAre ==
  ASSUME config \in Tables, NEW t \in Wholes, Running(t)
  PROVE  /\ \A o \in Seats :
               /\ t.packs[t.wave][o] \in PackRow
               /\ t.packs[t.wave][o].at \in Seats /\ t.packs[t.wave][o].cards \in Bag
               /\ Size(t.packs[t.wave][o].cards) \in Nat
               /\ Size(t.packs[t.wave][o].cards) = 0 <=> t.packs[t.wave][o].cards = Empty
               /\ Left(t, o) \in Nat
         /\ \A s \in Seats : Count(t, s) \in Nat /\ Had(t, s) \in Int /\ t.main[s] \in Nat
         /\ \A o, q \in Seats : t.packs[t.wave][o].at = t.packs[t.wave][q].at => o = q
         /\ \A s \in Seats : PacksAt(t, s) = {} <=>
               \A o \in Seats : t.packs[t.wave][o].at = s => t.packs[t.wave][o].cards = Empty
         /\ t.step \in Nat \ {0} /\ t.wave \in 1..Waves /\ t.wave \in DOMAIN t.packs
<1>1. /\ t.wave \in DOMAIN t.packs /\ t.packs \in [DOMAIN t.packs -> [Seats -> PackRow]]
      /\ t.step \in Nat \ {0} /\ t.wave \in 1..Waves /\ Apart(t)
  BY PartsOf
<1>2. ASSUME NEW o \in Seats
      PROVE  /\ t.packs[t.wave][o] \in PackRow
             /\ t.packs[t.wave][o].at \in Seats /\ t.packs[t.wave][o].cards \in Bag
             /\ Size(t.packs[t.wave][o].cards) \in Nat
             /\ Size(t.packs[t.wave][o].cards) = 0 <=> t.packs[t.wave][o].cards = Empty
             /\ Left(t, o) \in Nat
  <2> DEFINE row == t.packs[t.wave][o]
             cards == row.cards
  <2>1. row \in PackRow
    BY <1>1
  <2>2. row.at \in Seats /\ row.cards \in Bag
    BY <2>1 DEF PackRow
  <2>3. Size(row.cards) \in Nat /\ (Size(row.cards) = 0 <=> row.cards = Empty)
    BY <2>2, SizeIs
  <2> HIDE DEF row
  <2>4. Size(row.cards) + (IF row.at \in t.picked THEN 1 ELSE 0) \in Nat
    BY <2>3
  <2> QED BY <2>1, <2>2, <2>3, <2>4 DEF Left, row
<1>3. ASSUME NEW s \in Seats PROVE Count(t, s) \in Nat /\ Had(t, s) \in Int /\ t.main[s] \in Nat
  <2>1. Count(t, s) \in Nat /\ t.main[s] \in Nat
    BY CountIs
  <2> QED BY <2>1 DEF Had
<1>4. \A o, q \in Seats : t.packs[t.wave][o].at = t.packs[t.wave][q].at => o = q
  BY <1>1 DEF Apart
<1>5. \A s \in Seats : PacksAt(t, s) = {} <=>
               \A o \in Seats : t.packs[t.wave][o].at = s => t.packs[t.wave][o].cards = Empty
  BY DEF PacksAt
<1> QED BY <1>1, <1>2, <1>3, <1>4, <1>5

(* Whom the draft still waits for depends on the counts alone. *)
LEMMA DraftingIs ==
  ASSUME config \in Tables, ~IsTheme, NEW t \in Wholes, Running(t), Seated(t)
  PROVE  /\ \A s \in Seats : s \in Drafting(t) <=> Count(t, s) < Target(t, s)
         /\ Phase(t.wave) = "main" => \A s \in Seats : Target(t, s) = MainTarget
         /\ Phase(t.wave) # "main" => \A s \in Seats : Target(t, s) = t.main[s] + ExtraSize
         /\ Drafting(t) \subseteq Seats
<1>1. MainTarget \in Nat /\ ExtraSize \in Nat /\ Phase(t.wave) \in {"main", "extra"}
  BY ConfigIs, RoundsAre
<1>2. /\ Phase(t.wave) = "main" => \A s \in Seats : Target(t, s) = MainTarget
      /\ Phase(t.wave) # "main" => \A s \in Seats : Target(t, s) = t.main[s] + ExtraSize
  BY <1>1 DEF Target
<1>3. ASSUME NEW s \in Seats, s \in t.finished PROVE ~(Count(t, s) < Target(t, s))
  <2>1. Count(t, s) \in Nat /\ t.main[s] \in Nat
    BY CountIs
  <2>2. Count(t, s) >= CardsToDraft(t, s)
    BY <1>3 DEF Seated
  <2>3. CASE Phase(t.wave) = "main"
    <3>1. CardsToDraft(t, s) = MainTarget + ExtraSize /\ Target(t, s) = MainTarget
      BY <1>2, <2>3 DEF CardsToDraft
    <3> QED BY <1>1, <2>1, <2>2, <3>1
  <2>4. CASE Phase(t.wave) # "main"
    <3>1. CardsToDraft(t, s) = Target(t, s) /\ Target(t, s) = t.main[s] + ExtraSize
      BY <1>1, <1>2, <2>4 DEF CardsToDraft
    <3> QED BY <1>1, <2>1, <2>2, <3>1
  <2> QED BY <2>3, <2>4
<1> QED BY <1>2, <1>3 DEF Drafting

(* Noting who has nothing to take. *)
LEMMA PassOn ==
  ASSUME config \in Tables, ~IsTheme, NEW t \in Wholes, t.status = "active",
         NEW g, NEW f, OnCourse(t, g, f)
  PROVE  LET u == PassEmptyHanded(t)
         IN  /\ OnCourse(u, g, f) /\ u.step = t.step /\ u.packs = t.packs /\ u.pool = t.pool
             /\ u.wave = t.wave /\ u.picked = t.picked /\ u.deal = t.deal /\ u.main = t.main
             /\ u.status = "active" /\ u \in Wholes
             /\ u.passed = t.passed \cup {s \in Drafting(t) \ Acted(t) : PacksAt(t, s) = {}}
<1> DEFINE u == PassEmptyHanded(t)
           late == {s \in Drafting(t) \ Acted(t) : PacksAt(t, s) = {}}
<1>0. Running(t)
  BY DEF Running
<1>1. t \in Row
  BY PartsOf
<1>2. /\ u.status = "active" /\ u.wave = t.wave /\ u.finished = t.finished /\ u.step = t.step
      /\ u.packs = t.packs /\ u.main = t.main /\ u.picked = t.picked /\ u.pool = t.pool
      /\ u.passed = t.passed \cup late /\ u.deal = t.deal
  BY <1>1 DEF PassEmptyHanded, Row
<1>3. u \in Wholes
  BY PassWhole
<1> HIDE DEF u
<1>4. /\ \A s : Count(u, s) = Count(t, s) /\ Had(u, s) = Had(t, s)
      /\ \A o : Left(u, o) = Left(t, o)
      /\ \A s : PacksAt(u, s) = PacksAt(t, s) /\ CardsToDraft(u, s) = CardsToDraft(t, s)
  BY <1>2 DEF Count, Had, Left, PacksAt, CardsToDraft, Target
<1>5. Seated(u)
  BY <1>2, <1>4 DEF Seated, OnCourse
<1>6. Phase(u.wave) = "main" => InMain(u, f)
  BY <1>2, <1>4 DEF OnCourse, InMain, Meets
<1>7. ASSUME Phase(t.wave) # "main", NEW s \in late PROVE FALSE
  <2>1. InExtra(t, g) /\ ExtraSize \in Nat /\ s \in Seats /\ s \notin t.picked /\ PacksAt(t, s) = {}
    BY <1>7, ConfigIs DEF OnCourse, Drafting, Acted
  <2>2. PICK o \in Seats : t.packs[t.wave][o].at = s
    BY <2>1 DEF OnCourse, Seated
  <2>3. t.packs[t.wave][o].cards = Empty /\ Size(t.packs[t.wave][o].cards) = 0
    BY <1>0, <2>1, <2>2, RowsAre
  <2>4. Left(t, o) = 0
    BY <2>1, <2>2, <2>3 DEF Left
  <2>5. Left(t, o) = ExtraSize - (t.step - 1) /\ t.step \in 1..ExtraSize
    BY <2>1 DEF InExtra
  <2> QED BY <2>1, <2>4, <2>5
<1>8. Phase(u.wave) # "main" => InExtra(u, g)
  <2> SUFFICES ASSUME Phase(t.wave) # "main" PROVE InExtra(u, g)
    BY <1>2
  <2>1. late = {}
    BY <1>7
  <2>2. u.passed = {}
    BY <1>2, <2>1 DEF OnCourse, InExtra
  <2> QED BY <1>2, <1>4, <2>2 DEF OnCourse, InExtra
<1>9. OnCourse(u, g, f)
  BY <1>2, <1>5, <1>6, <1>8 DEF OnCourse
<1> QED BY <1>2, <1>3, <1>9 DEF u
(* A pick takes a card from the pack in front of the seat. *)
LEMMA PickOn ==
  ASSUME config \in Tables, ~IsTheme, NEW t \in Wholes, t.status = "active",
         NEW g, NEW f, OnCourse(t, g, f), NEW s \in Waiting(t), NEW c \in InPack(t, s)
  PROVE  LET u == Taken(t, s, c, CardsToDraft(t, s))
         IN  OnCourse(u, g, f) /\ u \in Wholes /\ u.status = "active" /\ u.deal = t.deal
<1> DEFINE last == CardsToDraft(t, s)
           u == Taken(t, s, c, last)
           o == PackAt(t, s)
           pack == t.packs[t.wave][o].cards
           cards == PackWithout(t, o, c)
<1>0. Running(t) /\ s \in Seats /\ s \notin t.picked /\ s \notin t.passed /\ PacksAt(t, s) # {}
      /\ s \in Drafting(t) /\ t \in Row
  BY PartsOf DEF Running, Waiting, Drafting, Acted
<1>1. /\ u \in Wholes /\ c \in Names /\ cards \in Bag
      /\ u.packs = PacksWith(t, o, cards) /\ u.pool = PoolWith(t, s, c)
      /\ u.status = "active" /\ u.wave = t.wave /\ u.step = t.step /\ u.deal = t.deal
      /\ u.picked = t.picked \cup {s} /\ u.passed = t.passed
  <2> HIDE DEF last
  <2> QED BY <1>0, TakenIs
<1>2. /\ u.main = [t.main EXCEPT ![s] = IF t.wave <= MainRounds THEN @ + 1 ELSE @]
      /\ u.finished = IF Count(t, s) + 1 >= last THEN t.finished \cup {s} ELSE t.finished
  <2> HIDE DEF last
  <2> QED BY <1>0 DEF Taken, Row
<1>3. o \in Seats /\ pack \in Bag /\ t.packs[t.wave][o].at = s /\ pack[c] > 0
  BY <1>0, PackInFront
<1>4. Size(cards) = Size(pack) - 1 /\ Size(pack) \in Nat
  <2>1. /\ cards[c] = pack[c] - 1 /\ pack[c] \in Nat /\ \A d \in Names \ {c} : cards[d] = pack[d]
    <3>1. pack \in [Names -> Nat] /\ c \in Names /\ cards = [pack EXCEPT ![c] = @ - 1]
      BY <1>1, <1>3 DEF Bag, PackWithout
    <3> HIDE DEF pack, cards
    <3> QED BY <3>1
  <2> HIDE DEF pack, cards
  <2>2. Size(cards) = Size(pack) + cards[c] - pack[c] /\ Size(pack) \in Nat
    BY <1>1, <1>3, <2>1, SizeChange, SizeIs
  <2> QED BY <2>1, <2>2
<1>5. \A q \in Seats : /\ u.packs[u.wave][q].at = t.packs[t.wave][q].at
                       /\ u.packs[u.wave][q].cards = IF q = o THEN cards ELSE t.packs[t.wave][q].cards
  <2>1. t.wave \in DOMAIN t.packs
    BY <1>0, RowsAre
  <2> HIDE DEF cards, o, u
  <2> QED BY <1>0, <1>1, <1>3, <2>1, PackChange
<1>6. \A q \in Seats : q # o => t.packs[t.wave][q].at # s
  BY <1>0, <1>3, RowsAre
<1>7. /\ \A q \in Seats : Count(t, q) \in Nat
      /\ Count(u, s) = Count(t, s) + 1
      /\ \A q \in Seats \ {s} : Count(u, q) = Count(t, q)
  BY <1>0, <1>1, CountWith
<1>8. MainRounds \in Nat /\ t.wave \in Nat /\ MainTarget \in Nat /\ ExtraSize \in Nat
      /\ Phase(t.wave) \in {"main", "extra"} /\ (t.wave <= MainRounds <=> Phase(t.wave) = "main")
  BY ConfigIs, RoundsAre, PartsOf DEF Phase
<1>9. t.main \in [Seats -> Nat]
  BY PartsOf
<1> HIDE DEF u, cards, pack, o, last
<1>10. /\ \A q \in Seats : u.main[q] = IF q = s /\ Phase(t.wave) = "main" THEN t.main[q] + 1 ELSE t.main[q]
       /\ \A q \in Seats : CardsToDraft(u, q) = CardsToDraft(t, q)
  <2>1. \A q \in Seats : u.main[q] = IF q = s /\ t.wave <= MainRounds THEN t.main[q] + 1 ELSE t.main[q]
    BY <1>2, <1>9
  <2>2. \A q \in Seats : u.main[q] = IF q = s /\ Phase(t.wave) = "main" THEN t.main[q] + 1 ELSE t.main[q]
    BY <1>8, <2>1
  <2> QED BY <1>1, <1>8, <2>2 DEF CardsToDraft, Target
<1>11. ASSUME NEW q \in Seats PROVE Left(u, q) = Left(t, q)
  <2>1. CASE q = o
    <3>1. Left(u, q) = Size(cards) + 1
      BY <1>1, <1>3, <1>5, <2>1 DEF Left
    <3>2. Left(t, q) = Size(pack) + 0
      BY <1>0, <1>3, <2>1 DEF Left, pack
    <3> QED BY <1>4, <3>1, <3>2
  <2>2. CASE q # o
    BY <1>1, <1>5, <1>6, <2>2 DEF Left
  <2> QED BY <2>1, <2>2
<1>12. ASSUME NEW q \in Seats PROVE Had(u, q) = Had(t, q)
  <2>1. CASE q = s
    BY <1>0, <1>1, <1>7, <2>1 DEF Had
  <2>2. CASE q # s
    BY <1>1, <1>7, <2>2 DEF Had
  <2> QED BY <2>1, <2>2
<1>13. Seated(u)
  <2>1. \A q \in Seats : \E p \in Seats : u.packs[u.wave][p].at = q
    BY <1>5 DEF OnCourse, Seated
  <2>2. ASSUME NEW q \in u.finished PROVE Count(u, q) >= CardsToDraft(u, q)
    <3>1. q \in Seats
      BY <1>1, PartsOf
    <3>2. CASE q \in t.finished
      <4>1. Count(t, q) >= CardsToDraft(t, q) /\ Count(t, q) \in Nat
        BY <1>7, <3>1, <3>2 DEF OnCourse, Seated
      <4>2. Count(u, q) \in {Count(t, q), Count(t, q) + 1}
        BY <1>7, <3>1
      <4>3. CardsToDraft(t, q) \in Int
        BY <1>8, <1>9, <3>1 DEF CardsToDraft, Target
      <4> QED BY <1>10, <3>1, <4>1, <4>2, <4>3
    <3>3. CASE q \notin t.finished
      <4>1. q = s /\ Count(t, s) + 1 >= last
        BY <1>2, <3>3
      <4> QED BY <1>0, <1>7, <1>10, <4>1 DEF last
    <3> QED BY <3>2, <3>3
  <2>3. ASSUME NEW q \in u.passed PROVE PacksAt(u, q) = {}
    <3>1. q \in t.passed /\ q # s /\ PacksAt(t, q) = {}
      BY <1>0, <1>1, <2>3 DEF OnCourse, Seated
    <3>2. \A p \in Seats : t.packs[t.wave][p].at = q => p # o
      BY <1>3, <3>1
    <3> QED BY <1>5, <3>1, <3>2 DEF PacksAt
  <2> QED BY <2>1, <2>2, <2>3 DEF Seated
<1>14. ASSUME Phase(t.wave) = "main" PROVE InMain(u, f)
  <2>1. InMain(t, f)
    BY <1>14 DEF OnCourse
  <2>2. Meets(u, f[u.wave][u.step - 1])
    BY <1>1, <1>5, <1>11, <1>12, <2>1 DEF InMain, Meets
  <2>3. \A q \in Seats : u.main[q] = Count(u, q)
    BY <1>7, <1>10, <1>14, <2>1 DEF InMain
  <2>4. Count(t, s) < MainTarget
    BY <1>0, <1>14, DraftingIs DEF OnCourse
  <2>5. \A q \in Seats : Count(u, q) <= MainTarget
    BY <1>0, <1>7, <1>8, <2>1, <2>4 DEF InMain
  <2> QED BY <1>1, <2>1, <2>2, <2>3, <2>5 DEF InMain
<1>15. ASSUME Phase(t.wave) # "main" PROVE InExtra(u, g)
  BY <1>1, <1>10, <1>11, <1>12, <1>15 DEF OnCourse, InExtra
<1>16. OnCourse(u, g, f)
  BY <1>1, <1>13, <1>14, <1>15 DEF OnCourse
<1> QED BY <1>1, <1>16 DEF u, last

(* A swap keeps the size of the pack. *)
LEMMA SwapOn ==
  ASSUME config \in Tables, ~IsTheme, NEW t \in Wholes, t.status = "active",
         NEW g, NEW f, OnCourse(t, g, f), NEW s, NEW u \in Swap(t, s)
  PROVE  OnCourse(u, g, f) /\ u \in Wholes /\ u.status = "active" /\ u.deal = t.deal
         /\ Waiting(u) = Waiting(t)
<1>1. /\ u \in Wholes
      /\ IF Swaps(t, s)
         THEN \E out \in InPack(t, s) : Swapped(t, s, u, Min(Replacements(t, s)), out)
         ELSE u = t
      /\ u.pool = t.pool /\ u.status = "active" /\ u.wave = t.wave /\ u.step = t.step
      /\ u.deal = t.deal /\ u.picked = t.picked /\ u.passed = t.passed
      /\ u.main = t.main /\ u.finished = t.finished
  BY SwapIs
<1>2. Waiting(u) = Waiting(t) /\ \A q : PacksAt(u, q) = PacksAt(t, q)
  BY SwapLeads
<1>3. CASE ~Swaps(t, s)
  BY <1>1, <1>3
<1>4. CASE Swaps(t, s)
  <2> DEFINE i == Min(Replacements(t, s))
             o == PackAt(t, s)
             pack == t.packs[t.wave][o].cards
             in == t.undealt[i]
  <2>1. PICK out \in InPack(t, s) : Swapped(t, s, u, i, out)
    BY <1>1, <1>4
  <2> DEFINE cards == Traded(pack, out, in)
  <2>2. Running(t) /\ PacksAt(t, s) # {}
    BY <1>4 DEF Running, Swaps
  <2>3. o \in Seats /\ pack \in Bag /\ out \in Names /\ pack[out] > 0
    BY <2>2, PackInFront
  <2>4. in \in Names
    <3>1. t.undealt \in Seq(Names)
      BY PartsOf
    <3>2. Replacements(t, s) \subseteq DOMAIN t.undealt /\ DOMAIN t.undealt \subseteq Nat
      BY <3>1 DEF Replacements, Remainder
    <3>3. i \in Replacements(t, s)
      BY <1>4, <3>2, MinOf DEF Swaps
    <3> QED BY <3>1, <3>2, <3>3
  <2>5. u.packs = PacksWith(t, o, cards) /\ cards \in Bag
    BY <2>1 DEF Swapped
  <2> HIDE DEF i, o, pack, in
  <2>6. Size(cards) = Size(pack)
    BY <2>3, <2>4, <2>5, SizeTraded
  <2> HIDE DEF cards
  <2>7. \A q \in Seats : /\ u.packs[u.wave][q].at = t.packs[t.wave][q].at
                         /\ u.packs[u.wave][q].cards = IF q = o THEN cards ELSE t.packs[t.wave][q].cards
    <3>1. t.wave \in DOMAIN t.packs
      BY <2>2, RowsAre
    <3> QED BY <1>1, <2>2, <2>3, <2>5, <3>1, PackChange
  <2>8. \A q \in Seats : Left(u, q) = Left(t, q)
    BY <1>1, <2>6, <2>7 DEF Left, pack
  <2>9. \A q : Count(u, q) = Count(t, q) /\ Had(u, q) = Had(t, q)
               /\ CardsToDraft(u, q) = CardsToDraft(t, q)
    BY <1>1 DEF Count, Had, CardsToDraft, Target
  <2>10. Seated(u)
    BY <1>1, <1>2, <2>7, <2>9 DEF OnCourse, Seated
  <2>11. Phase(u.wave) = "main" => InMain(u, f)
    BY <1>1, <2>7, <2>8, <2>9 DEF OnCourse, InMain, Meets
  <2>12. Phase(u.wave) # "main" => InExtra(u, g)
    BY <1>1, <2>8, <2>9 DEF OnCourse, InExtra
  <2>13. OnCourse(u, g, f)
    BY <1>1, <2>10, <2>11, <2>12 DEF OnCourse
  <2> QED BY <1>1, <1>2, <2>13
<1> QED BY <1>1, <1>2, <1>3, <1>4
(* What a rotation changes. *)
LEMMA AdvanceParts ==
  ASSUME config \in Tables, NEW t \in Wholes, t.status = "active"
  PROVE  LET v == Advance(t)
         IN  /\ v \in Wholes /\ v.status = "active" /\ v.wave = t.wave /\ v.step = t.step + 1
             /\ v.picked = {} /\ v.passed = {} /\ v.pool = t.pool /\ v.main = t.main
             /\ v.finished = t.finished /\ v.deal = t.deal
             /\ \A o \in Seats :
                   /\ v.packs[v.wave][o].cards = t.packs[t.wave][o].cards
                   /\ v.packs[v.wave][o].at = IF t.step % PicksPerStep = 0
                                              THEN (t.packs[t.wave][o].at + Direction(t.wave)) % N
                                              ELSE t.packs[t.wave][o].at
<1> DEFINE v == Advance(t)
           old == t.packs[t.wave]
           turned == [o \in Seats |-> [old[o] EXCEPT !.at = (@ + Direction(t.wave)) % N]]
           new == IF t.step % PicksPerStep # 0 THEN old ELSE turned
           packs == [t.packs EXCEPT ![t.wave] = new]
<1>0. Running(t)
  BY DEF Running
<1>1. /\ t \in Row /\ t.wave \in DOMAIN t.packs /\ t.packs \in [DOMAIN t.packs -> [Seats -> PackRow]]
      /\ old \in [Seats -> PackRow]
  BY <1>0, PartsOf
<1>2. v \in Wholes /\ OnlyMoved(t, v)
  BY AdvanceIs
<1>3. v = [t EXCEPT !.packs = packs, !.step = t.step + 1, !.picked = {}, !.passed = {}]
  <2>1. CASE t.step % PicksPerStep # 0
    BY <1>1, <2>1 DEF Advance, Row
  <2>2. CASE t.step % PicksPerStep = 0
    BY <1>1, <2>2 DEF Advance, Row
  <2> QED BY <2>1, <2>2
<1>4. ASSUME NEW o \in Seats
      PROVE  turned[o].cards = old[o].cards /\ turned[o].at = (old[o].at + Direction(t.wave)) % N
  <2>1. old[o] \in [at : Seats, cards : Bag]
    BY <1>1 DEF PackRow
  <2>2. turned[o] = [old[o] EXCEPT !.at = (old[o].at + Direction(t.wave)) % N]
    OBVIOUS
  <2> HIDE DEF turned, old, N, Seats
  <2> QED BY <2>1, <2>2
<1> HIDE DEF v, turned
<1>5. v.step = t.step + 1 /\ v.picked = {} /\ v.passed = {} /\ v.packs = packs
  BY <1>1, <1>3 DEF Row
<1>6. packs[t.wave] = new
  BY <1>1
<1> HIDE DEF packs
<1>7. ASSUME NEW o \in Seats
      PROVE  /\ new[o].cards = old[o].cards
             /\ new[o].at = IF t.step % PicksPerStep = 0
                            THEN (old[o].at + Direction(t.wave)) % N ELSE old[o].at
  <2>1. CASE t.step % PicksPerStep # 0
    BY <2>1
  <2>2. CASE t.step % PicksPerStep = 0
    BY <1>4, <2>2
  <2> QED BY <2>1, <2>2
<1> HIDE DEF new, old
<1>8. v.wave = t.wave
  BY <1>2 DEF OnlyMoved
<1>9. \A o \in Seats :
        /\ v.packs[v.wave][o].cards = t.packs[t.wave][o].cards
        /\ v.packs[v.wave][o].at = IF t.step % PicksPerStep = 0
                                   THEN (t.packs[t.wave][o].at + Direction(t.wave)) % N
                                   ELSE t.packs[t.wave][o].at
  BY <1>5, <1>6, <1>7, <1>8 DEF old
<1> QED BY <1>2, <1>5, <1>9 DEF OnlyMoved, v

(* When everybody acted the table is at the next state of the prediction.   *)
LEMMA StepOver ==
  ASSUME config \in Tables, ~IsTheme, NEW t \in Wholes, t.status = "active",
         NEW g, NEW f, OnCourse(t, g, f), Phase(t.wave) = "main", Drafting(t) \subseteq Acted(t),
         NEW x, x = f[t.wave][t.step]
  PROVE  /\ t.wave \in 1..MainRounds /\ t.step \in 1..WaveSteps
         /\ Walks(f[t.wave], t.deal, t.wave, g[t.wave - 1]) /\ x \in WalkState
         /\ g[t.wave - 1] \in [Seats -> Nat]
         /\ \A o \in Seats :
               /\ x.at[o] = IF t.step % PicksPerStep = 0
                            THEN (t.packs[t.wave][o].at + Direction(t.wave)) % N
                            ELSE t.packs[t.wave][o].at
               /\ x.rest[o] = Size(t.packs[t.wave][o].cards)
         /\ \A s \in Seats : x.total[s] = Count(t, s)
<1>0. Running(t) /\ Seated(t) /\ InMain(t, f) /\ Charts(g, f, t.deal)
  BY DEF Running, OnCourse
<1>1. /\ MainRounds \in Nat /\ Waves \in Nat /\ WaveSteps \in Nat /\ MainTarget \in Nat
      /\ t.step \in 1..WaveSteps
  BY <1>0, RoundsAre, WaveStepsAre, ConfigIs DEF InMain
<1>2. t.wave \in 1..MainRounds /\ t.wave \in Nat /\ t.wave - 1 \in 0..MainRounds
  BY <1>1, PartsOf DEF Phase
<1>3. Walks(f[t.wave], t.deal, t.wave, g[t.wave - 1]) /\ g[t.wave - 1] \in [Seats -> Nat]
  BY <1>0, <1>2 DEF Charts
<1> DEFINE w == t.wave
           k == t.step
           y == f[w][k - 1]
<1>4. y \in WalkState /\ x = ReachStep(y, w, k) /\ x \in WalkState
  <2>1. k \in 1..WaveSteps /\ k - 1 \in 0..WaveSteps /\ k \in 0..WaveSteps
    BY <1>1
  <2> QED BY <1>3, <2>1 DEF Walks
<1>5. /\ \A o \in Seats : y.at[o] = t.packs[t.wave][o].at /\ y.rest[o] = Left(t, o)
      /\ \A s \in Seats : y.total[s] = Had(t, s)
  BY <1>0 DEF InMain, Meets
<1>6. k \in Nat /\ w \in Nat
  BY <1>1, <1>2
<1> HIDE DEF w, k, y
<1>7. LET z == ReachStep(y, w, k)
      IN  /\ \A o \in Seats : z.at[o] =
                IF k % PicksPerStep = 0 THEN (y.at[o] + Direction(w)) % N ELSE y.at[o]
          /\ \A o \in Seats : z.rest[o] =
                IF y.rest[o] > 0 /\ y.total[y.at[o]] < MainTarget THEN y.rest[o] - 1 ELSE y.rest[o]
          /\ \A s \in Seats : z.total[s] =
                IF \E o \in Seats : y.rest[o] > 0 /\ y.at[o] = s /\ y.total[s] < MainTarget
                THEN y.total[s] + 1 ELSE y.total[s]
  BY <1>4, <1>6, ReachStepIs
<1>8. \A s \in Seats : s \in Drafting(t) <=> Count(t, s) < MainTarget
  BY <1>0, DraftingIs
(* A pack is picked from when it has cards and its holder still drafts. *)
<1>9. ASSUME NEW o \in Seats, NEW s, s = t.packs[t.wave][o].at
      PROVE  /\ s \in Seats
             /\ Left(t, o) > 0 /\ Had(t, s) < MainTarget <=> s \in t.picked
             /\ Left(t, o) = Size(t.packs[t.wave][o].cards) + (IF s \in t.picked THEN 1 ELSE 0)
             /\ Size(t.packs[t.wave][o].cards) \in Nat
  <2> DEFINE cards == t.packs[t.wave][o].cards
  <2>1. s \in Seats /\ Size(cards) \in Nat /\ (Size(cards) = 0 <=> cards = Empty) /\ Count(t, s) \in Nat
        /\ (PacksAt(t, s) = {} => cards = Empty)
    BY <1>0, <1>9, RowsAre
  <2>2. Left(t, o) = Size(cards) + (IF s \in t.picked THEN 1 ELSE 0)
    BY <1>9 DEF Left
  <2> HIDE DEF cards
  <2>3. CASE s \in t.picked
    <3>1. Had(t, s) = Count(t, s) - 1 /\ Count(t, s) <= MainTarget
      BY <1>0, <2>1, <2>3 DEF Had, InMain
    <3> QED BY <1>1, <2>1, <2>2, <2>3, <3>1 DEF cards
  <2>4. CASE s \notin t.picked
    <3>1. Had(t, s) = Count(t, s) - 0 /\ Left(t, o) = Size(cards) + 0
      BY <2>2, <2>4 DEF Had
    <3>2. ASSUME Left(t, o) > 0, Had(t, s) < MainTarget PROVE FALSE
      <4>1. s \in Drafting(t)
        BY <1>1, <1>8, <2>1, <3>1, <3>2
      <4>2. s \in t.passed
        BY <2>4, <4>1 DEF Acted
      <4>3. PacksAt(t, s) = {}
        BY <1>0, <4>2 DEF Seated
      <4> QED BY <2>1, <3>1, <3>2, <4>3
    <3> QED BY <2>1, <2>2, <2>4, <3>2 DEF cards
  <2> QED BY <2>3, <2>4
<1>10. ASSUME NEW o \in Seats
       PROVE  /\ x.at[o] = IF t.step % PicksPerStep = 0
                           THEN (t.packs[t.wave][o].at + Direction(t.wave)) % N
                           ELSE t.packs[t.wave][o].at
              /\ x.rest[o] = Size(t.packs[t.wave][o].cards)
  <2>1. x.at[o] = IF t.step % PicksPerStep = 0
                  THEN (t.packs[t.wave][o].at + Direction(t.wave)) % N ELSE t.packs[t.wave][o].at
    BY <1>4, <1>5, <1>7 DEF w, k
  <2> DEFINE s == t.packs[t.wave][o].at
             size == Size(t.packs[t.wave][o].cards)
  <2>2. /\ s \in Seats
        /\ Left(t, o) > 0 /\ Had(t, s) < MainTarget <=> s \in t.picked
        /\ Left(t, o) = size + (IF s \in t.picked THEN 1 ELSE 0) /\ size \in Nat
    BY <1>9
  <2>3. x.rest[o] = IF y.rest[o] > 0 /\ y.total[y.at[o]] < MainTarget THEN y.rest[o] - 1 ELSE y.rest[o]
    BY <1>4, <1>7
  <2>4. y.at[o] = s /\ y.rest[o] = Left(t, o) /\ y.total[s] = Had(t, s)
    BY <1>5, <2>2
  <2> HIDE DEF s, size
  <2>5. x.rest[o] = size
    BY <2>2, <2>3, <2>4
  <2> QED BY <2>1, <2>5 DEF size
<1>11. ASSUME NEW s \in Seats PROVE x.total[s] = Count(t, s)
  <2>1. x.total[s] = IF \E o \in Seats : y.rest[o] > 0 /\ y.at[o] = s /\ y.total[s] < MainTarget
                     THEN y.total[s] + 1 ELSE y.total[s]
    BY <1>4, <1>7
  <2>2. (\E o \in Seats : y.rest[o] > 0 /\ y.at[o] = s /\ y.total[s] < MainTarget) <=> s \in t.picked
    <3>1. ASSUME NEW o \in Seats, y.rest[o] > 0, y.at[o] = s, y.total[s] < MainTarget
          PROVE  s \in t.picked
      <4>1. s = t.packs[t.wave][o].at /\ Left(t, o) > 0 /\ Had(t, s) < MainTarget
        BY <1>5, <3>1
      <4> QED BY <1>9, <4>1
    <3>2. ASSUME s \in t.picked
          PROVE  \E o \in Seats : y.rest[o] > 0 /\ y.at[o] = s /\ y.total[s] < MainTarget
      <4>1. PICK o \in Seats : t.packs[t.wave][o].at = s
        BY <1>0 DEF Seated
      <4>2. Left(t, o) > 0 /\ Had(t, s) < MainTarget
        BY <1>9, <3>2, <4>1
      <4>3. y.at[o] = s /\ y.rest[o] = Left(t, o) /\ y.total[s] = Had(t, s)
        BY <1>5, <4>1
      <4> QED BY <4>2, <4>3
    <3> QED BY <3>1, <3>2
  <2>3. y.total[s] = Count(t, s) - (IF s \in t.picked THEN 1 ELSE 0) /\ Count(t, s) \in Nat
    BY <1>0, <1>5, RowsAre DEF Had
  <2> QED BY <2>1, <2>2, <2>3
<1> QED BY <1>1, <1>2, <1>3, <1>4, <1>10, <1>11

(* Every seat has a neighbour whose pack comes to it. *)
LEMMA TurnBack ==
  ASSUME config \in Tables, NEW w \in Nat, NEW s \in Seats
  PROVE  \E a \in Seats : (a + Direction(w)) % N = s
<1>1. N \in Nat /\ N >= 2 /\ Seats = 0..(N - 1)
  BY ConfigIs
<1>2. Direction(w) = 1 \/ Direction(w) = -1
  BY DEF Direction
<1>3. \A a \in Seats : /\ (a + 1) % N = IF a = N - 1 THEN 0 ELSE a + 1
                       /\ (a + -1) % N = IF a = 0 THEN N - 1 ELSE a - 1
  BY <1>1, NextSeat
<1> HIDE DEF N, Seats
<1>4. CASE Direction(w) = 1
  <2> DEFINE a == IF s = 0 THEN N - 1 ELSE s - 1
  <2>1. a \in Seats
    BY <1>1
  <2>2. (IF a = N - 1 THEN 0 ELSE a + 1) = s
    BY <1>1
  <2> HIDE DEF a
  <2> QED BY <1>3, <1>4, <2>1, <2>2
<1>5. CASE Direction(w) = -1
  <2> DEFINE a == IF s = N - 1 THEN 0 ELSE s + 1
  <2>1. a \in Seats
    BY <1>1
  <2>2. (IF a = 0 THEN N - 1 ELSE a - 1) = s
    BY <1>1
  <2> HIDE DEF a
  <2> QED BY <1>3, <1>5, <2>1, <2>2
<1> QED BY <1>2, <1>4, <1>5

LEMMA SeatedOn ==
  ASSUME config \in Tables, NEW t \in Wholes, t.status = "active", Seated(t)
  PROVE  Seated(Advance(t))
<1> DEFINE v == Advance(t)
<1>1. /\ v.wave = t.wave /\ v.passed = {} /\ v.pool = t.pool /\ v.main = t.main
      /\ v.finished = t.finished
      /\ \A o \in Seats : v.packs[v.wave][o].at = IF t.step % PicksPerStep = 0
                                                  THEN (t.packs[t.wave][o].at + Direction(t.wave)) % N
                                                  ELSE t.packs[t.wave][o].at
  BY AdvanceParts
<1>2. t.wave \in Nat
  BY RoundsAre, PartsOf
<1> HIDE DEF v
<1>3. ASSUME NEW s \in Seats PROVE \E o \in Seats : v.packs[v.wave][o].at = s
  <2>1. CASE t.step % PicksPerStep = 0
    <3>1. PICK a \in Seats : (a + Direction(t.wave)) % N = s
      BY <1>2, TurnBack
    <3>2. PICK o \in Seats : t.packs[t.wave][o].at = a
      BY DEF Seated
    <3> QED BY <1>1, <2>1, <3>1, <3>2
  <2>2. CASE ~(t.step % PicksPerStep = 0)
    <3>1. PICK o \in Seats : t.packs[t.wave][o].at = s
      BY DEF Seated
    <3> QED BY <1>1, <2>2, <3>1
  <2> QED BY <2>1, <2>2
<1>4. \A s : Count(v, s) = Count(t, s) /\ CardsToDraft(v, s) = CardsToDraft(t, s)
  BY <1>1 DEF Count, CardsToDraft, Target
<1>5. Seated(v)
  BY <1>1, <1>3, <1>4 DEF Seated
<1> QED BY <1>5 DEF v

(* A turn of the table in a main wave. *)
LEMMA TurnMain ==
  ASSUME config \in Tables, ~IsTheme, NEW t \in Wholes, t.status = "active",
         NEW g, NEW f, OnCourse(t, g, f), Phase(t.wave) = "main",
         Drafting(t) # {}, Drafting(t) \subseteq Acted(t),
         NEW q \in Seats, t.packs[t.wave][q].cards # Empty
  PROVE  OnCourse(Advance(t), g, f)
<1> DEFINE v == Advance(t)
           w == t.wave
           k == t.step
           x == f[w][k]
<1>0. Running(t) /\ Seated(t) /\ InMain(t, f) /\ Charts(g, f, t.deal) /\ FullDeal(t.deal)
  BY DEF Running, OnCourse
<1>1. /\ v.wave = w /\ v.step = k + 1 /\ v.picked = {} /\ v.passed = {} /\ v.pool = t.pool
      /\ v.main = t.main /\ v.deal = t.deal
      /\ \A o \in Seats :
            /\ v.packs[v.wave][o].cards = t.packs[w][o].cards
            /\ v.packs[v.wave][o].at = IF k % PicksPerStep = 0
                                       THEN (t.packs[w][o].at + Direction(w)) % N
                                       ELSE t.packs[w][o].at
  BY AdvanceParts
<1>2. /\ w \in 1..MainRounds /\ k \in 1..WaveSteps
      /\ Walks(f[w], t.deal, w, g[w - 1])
      /\ g[w - 1] \in [Seats -> Nat]
      /\ \A o \in Seats :
            /\ x.at[o] = IF k % PicksPerStep = 0
                         THEN (t.packs[w][o].at + Direction(w)) % N ELSE t.packs[w][o].at
            /\ x.rest[o] = Size(t.packs[w][o].cards)
      /\ \A s \in Seats : x.total[s] = Count(t, s)
  BY StepOver
<1>3. WaveSteps \in Nat
  BY WaveStepsAre
<1>4. k # WaveSteps
  <2> SUFFICES ASSUME k = WaveSteps PROVE FALSE
    OBVIOUS
  <2>1. PICK s \in Drafting(t) : s \in Seats /\ Count(t, s) < MainTarget
    BY <1>0, DraftingIs
  <2> DEFINE h == f[w]
             total == g[w - 1]
             deal == t.deal
  <2>2. /\ Walks(h, deal, w, total) /\ total \in [Seats -> Nat] /\ Dealing(deal)
        /\ h[WaveSteps].total[s] < MainTarget /\ w \in 1..MainRounds
    BY <1>0, <1>2, <2>1 DEF FullDeal
  <2> HIDE DEF h, total, deal, w, x
  <2>3. h[WaveSteps].rest[q] = 0
    BY <2>1, <2>2, WalkEnds
  <2>4. Size(t.packs[w][q].cards) = 0
    BY <1>2, <2>3 DEF h, x
  <2> QED BY <1>0, <2>4, RowsAre DEF w
<1>6. Seated(v)
  BY <1>0, SeatedOn
<1> HIDE DEF v, x
<1>5. v.step \in 1..WaveSteps /\ v.step - 1 = k
  <2>1. v.step = k + 1 /\ k \in 1..WaveSteps
    BY <1>1, <1>2
  <2> HIDE DEF k
  <2> QED BY <1>3, <1>4, <2>1
<1>7. \A o \in Seats : Left(v, o) = Size(t.packs[w][o].cards)
  <2> TAKE o \in Seats
  <2>1. Left(v, o) = Size(t.packs[w][o].cards) + 0
    BY <1>1 DEF Left
  <2> QED BY <1>0, <2>1, RowsAre
<1>8. \A s \in Seats : Count(v, s) = Count(t, s) /\ Had(v, s) = Count(t, s)
  <2> TAKE s \in Seats
  <2>1. Count(v, s) = Count(t, s)
    BY <1>1 DEF Count
  <2>2. Had(v, s) = Count(t, s) - 0
    BY <1>1, <2>1 DEF Had
  <2> QED BY <2>1, <2>2, CountIs
<1>9. Meets(v, x)
  BY <1>1, <1>2, <1>7, <1>8 DEF Meets
<1>10. InMain(v, f)
  <2>1. f[v.wave][v.step - 1] = x
    BY <1>1, <1>5 DEF x
  <2>2. \A s \in Seats : v.main[s] = Count(v, s) /\ Count(v, s) <= MainTarget
    BY <1>0, <1>1, <1>8 DEF InMain
  <2> QED BY <1>5, <1>9, <2>1, <2>2 DEF InMain
<1>11. OnCourse(v, g, f)
  BY <1>0, <1>1, <1>6, <1>10 DEF OnCourse
<1> QED BY <1>11 DEF v

(* In the extra phase nobody waits in vain, so everybody picked. *)
LEMMA ExtraStep ==
  ASSUME config \in Tables, ~IsTheme, NEW t \in Wholes, t.status = "active",
         NEW g, NEW f, OnCourse(t, g, f), Phase(t.wave) # "main", Drafting(t) \subseteq Acted(t)
  PROVE  /\ Drafting(t) # {} =>
               /\ t.picked = Seats /\ t.step < ExtraSize
               /\ \A o \in Seats : Size(t.packs[t.wave][o].cards) = ExtraSize - t.step
                                   /\ t.packs[t.wave][o].cards # Empty
               /\ \A s \in Seats : Count(t, s) = t.main[s] + t.step
         /\ Drafting(t) = {} => \A s \in Seats : Count(t, s) = t.main[s] + ExtraSize
<1>0. Running(t) /\ Seated(t) /\ InExtra(t, g)
  BY DEF Running, OnCourse
<1>1. ExtraSize \in Nat /\ t.step \in 1..ExtraSize /\ t.passed = {} /\ t.picked \subseteq Seats
  BY <1>0, ConfigIs, PartsOf DEF InExtra
<1>2. \A s \in Seats : /\ s \in Drafting(t) <=> Count(t, s) < t.main[s] + ExtraSize
                       /\ Count(t, s) \in Nat /\ t.main[s] \in Nat
                       /\ Count(t, s) = t.main[s] + t.step - 1 + (IF s \in t.picked THEN 1 ELSE 0)
  <2> TAKE s \in Seats
  <2>1. s \in Drafting(t) <=> Count(t, s) < t.main[s] + ExtraSize
    BY <1>0, DraftingIs
  <2>2. Count(t, s) \in Nat /\ t.main[s] \in Nat
    BY CountIs
  <2>3. Count(t, s) - (IF s \in t.picked THEN 1 ELSE 0) = t.main[s] + t.step - 1
    BY <1>0 DEF InExtra, Had
  <2> QED BY <1>1, <2>1, <2>2, <2>3
<1>3. Drafting(t) \subseteq t.picked /\ Drafting(t) \subseteq Seats
  BY <1>1 DEF Acted, Drafting
<1>4. CASE Drafting(t) # {}
  <2>1. PICK s \in Drafting(t) : s \in Seats /\ s \in t.picked
    BY <1>3, <1>4
  <2>2. t.step < ExtraSize
    BY <1>1, <1>2, <2>1
  <2>3. \A r \in Seats : r \in Drafting(t)
    BY <1>1, <1>2, <2>2
  <2>4. t.picked = Seats
    BY <1>1, <1>3, <2>3
  <2>5. \A r \in Seats : Count(t, r) = t.main[r] + t.step
    BY <1>1, <1>2, <2>4
  <2>6. \A o \in Seats : Size(t.packs[t.wave][o].cards) = ExtraSize - t.step
                         /\ t.packs[t.wave][o].cards # Empty
    <3> TAKE o \in Seats
    <3> DEFINE cards == t.packs[t.wave][o].cards
    <3>1. Size(cards) \in Nat /\ (Size(cards) = 0 <=> cards = Empty) /\ t.packs[t.wave][o].at \in Seats
      BY <1>0, RowsAre
    <3>2. Left(t, o) = Size(cards) + 1
      BY <2>4, <3>1 DEF Left
    <3>3. Left(t, o) = ExtraSize - (t.step - 1)
      BY <1>0 DEF InExtra
    <3> HIDE DEF cards
    <3>4. Size(cards) = ExtraSize - t.step /\ cards # Empty
      BY <1>1, <2>2, <3>1, <3>2, <3>3
    <3> QED BY <3>4 DEF cards
  <2> QED BY <1>4, <2>2, <2>4, <2>5, <2>6
<1>5. CASE Drafting(t) = {}
  BY <1>1, <1>2, <1>5
<1> QED BY <1>4, <1>5

(* A turn of the table in the extra phase. *)
LEMMA TurnExtra ==
  ASSUME config \in Tables, ~IsTheme, NEW t \in Wholes, t.status = "active",
         NEW g, NEW f, OnCourse(t, g, f), Phase(t.wave) # "main",
         Drafting(t) # {}, Drafting(t) \subseteq Acted(t)
  PROVE  OnCourse(Advance(t), g, f)
<1> DEFINE v == Advance(t)
<1>0. Running(t) /\ Seated(t) /\ InExtra(t, g) /\ Charts(g, f, t.deal) /\ FullDeal(t.deal)
  BY DEF Running, OnCourse
<1>1. /\ v.wave = t.wave /\ v.step = t.step + 1 /\ v.picked = {} /\ v.passed = {} /\ v.pool = t.pool
      /\ v.main = t.main /\ v.deal = t.deal
      /\ \A o \in Seats : v.packs[v.wave][o].cards = t.packs[t.wave][o].cards
  BY AdvanceParts
<1>2. /\ t.step < ExtraSize
      /\ \A o \in Seats : Size(t.packs[t.wave][o].cards) = ExtraSize - t.step
      /\ \A s \in Seats : Count(t, s) = t.main[s] + t.step
  BY ExtraStep
<1>3. ExtraSize \in Nat /\ t.step \in Nat \ {0}
  BY ConfigIs, PartsOf
<1>4. Seated(v)
  BY <1>0, SeatedOn
<1> HIDE DEF v
<1>5. \A o \in Seats : Left(v, o) = ExtraSize - (v.step - 1)
  <2> TAKE o \in Seats
  <2>1. Left(v, o) = Size(t.packs[t.wave][o].cards) + 0
    BY <1>1 DEF Left
  <2> QED BY <1>1, <1>2, <1>3, <2>1
<1>6. \A s \in Seats : v.main[s] = g[MainRounds][s] /\ Had(v, s) = v.main[s] + v.step - 1
  <2> TAKE s \in Seats
  <2>1. Had(v, s) = Count(t, s) - 0
    BY <1>1 DEF Count, Had
  <2>2. Count(t, s) \in Nat /\ t.main[s] \in Nat /\ t.main[s] = g[MainRounds][s]
    BY <1>0, CountIs DEF InExtra
  <2> QED BY <1>1, <1>2, <1>3, <2>1, <2>2
<1>7. v.step \in 1..ExtraSize
  BY <1>1, <1>2, <1>3
<1>8. OnCourse(v, g, f)
  BY <1>0, <1>1, <1>4, <1>5, <1>6, <1>7 DEF OnCourse, InExtra
<1> QED BY <1>8 DEF v
-----------------------------------------------------------------------------
(* The end of a wave.                                                      *)

(* A main wave that is over has the totals of the prediction. *)
LEMMA WaveOver ==
  ASSUME config \in Tables, ~IsTheme, NEW t \in Wholes, t.status = "active",
         NEW g, NEW f, OnCourse(t, g, f), Phase(t.wave) = "main", Drafting(t) \subseteq Acted(t),
         Drafting(t) = {} \/ \A o \in Seats : t.packs[t.wave][o].cards = Empty
  PROVE  \A s \in Seats : Count(t, s) = g[t.wave][s]
<1> DEFINE w == t.wave
           k == t.step
           h == f[w]
           x == h[k]
           total == g[w - 1]
           deal == t.deal
<1>0. Running(t) /\ Seated(t) /\ Charts(g, f, deal)
  BY DEF Running, OnCourse
<1>1. /\ w \in 1..MainRounds /\ k \in 1..WaveSteps /\ Walks(h, deal, w, total)
      /\ \A o \in Seats : x.rest[o] = Size(t.packs[w][o].cards)
      /\ \A s \in Seats : x.total[s] = Count(t, s)
  BY StepOver
<1>2. Still(x)
  <2>1. CASE Drafting(t) = {}
    <3>1. \A s \in Seats : ~(Count(t, s) < MainTarget) /\ Count(t, s) \in Nat /\ MainTarget \in Nat
      BY <1>0, <2>1, DraftingIs, CountIs, ConfigIs
    <3>2. \A s \in Seats : x.total[s] >= MainTarget
      BY <1>1, <3>1
    <3> QED BY <3>2 DEF Still
  <2>2. CASE \A o \in Seats : t.packs[w][o].cards = Empty
    <3>1. \A o \in Seats : Size(t.packs[w][o].cards) = 0
      BY <1>0, <2>2, RowsAre
    <3>2. \A o \in Seats : x.rest[o] = 0
      BY <1>1, <3>1
    <3> QED BY <3>2 DEF Still
  <2> QED BY <2>1, <2>2
<1>3. k \in 0..WaveSteps /\ w \in Nat
  BY <1>1, WaveStepsAre, RoundsAre
<1>4. g[w] = h[WaveSteps].total
  BY <1>0, <1>1 DEF Charts
<1> HIDE DEF w, k, h, total, deal
<1>5. h[WaveSteps].total = h[k].total
  BY <1>1, <1>2, <1>3, WalkRests
<1>6. \A s \in Seats : Count(t, s) = g[w][s]
  BY <1>1, <1>4, <1>5
<1> QED BY <1>6 DEF w

(* When everybody is full the later waves add nothing. *)
LEMMA LaterSame ==
  ASSUME config \in Tables, NEW deal, NEW g, NEW f, Charts(g, f, deal),
         NEW w \in 0..MainRounds, \A s \in Seats : g[w][s] >= MainTarget
  PROVE  g[MainRounds] = g[w]
<1>1. MainRounds \in Nat /\ WaveSteps \in Nat /\ 0 \in 0..WaveSteps
  BY RoundsAre, WaveStepsAre
<1> DEFINE T == {d \in Nat : w + d <= MainRounds => g[w + d] = g[w]}
<1>2. 0 \in T
  BY <1>1
<1>3. ASSUME NEW d \in Nat, d \in T PROVE d + 1 \in T
  <2> SUFFICES ASSUME w + (d + 1) <= MainRounds PROVE g[w + (d + 1)] = g[w]
    OBVIOUS
  <2> DEFINE v == w + (d + 1)
             u == v - 1
             h == f[v]
             total == g[u]
  <2>1. v \in 1..MainRounds /\ u = w + d /\ v \in Nat /\ g[u] = g[w]
    BY <1>1, <1>3
  <2> HIDE DEF v, T
  <2>2. Walks(h, deal, v, total) /\ g[v] = h[WaveSteps].total
    BY <2>1 DEF Charts
  <2> HIDE DEF h, u, total
  <2>3. h[0].total = total
    BY <2>2 DEF Walks, Unstarted
  <2>4. Still(h[0])
    BY <2>1, <2>3 DEF Still, total
  <2>5. h[WaveSteps].total = h[0].total
    BY <1>1, <2>1, <2>2, <2>4, WalkRests
  <2>6. g[v] = g[w]
    BY <2>1, <2>2, <2>3, <2>5 DEF total
  <2> QED BY <2>6 DEF v
<1> HIDE DEF T
<1>4. \A d \in Nat : d \in T
  BY <1>2, <1>3, Induction
<1> DEFINE d == MainRounds - w
<1>5. d \in Nat /\ w + d = MainRounds
  BY <1>1
<1> HIDE DEF d
<1>6. d \in T
  BY <1>4, <1>5
<1>7. w + d <= MainRounds => g[w + d] = g[w]
  BY <1>6 DEF T
<1> QED BY <1>1, <1>5, <1>7

(* The main phase is over.                                                 *)
Through(t, g, f) ==
    /\ FullDeal(t.deal) /\ Charts(g, f, t.deal) /\ Phase(t.wave) = "main"
    /\ \A s \in Seats : /\ t.main[s] = Count(t, s) /\ Count(t, s) = g[MainRounds][s]
                        /\ Count(t, s) <= MainTarget
    /\ \A s \in t.finished : Count(t, s) >= MainTarget + ExtraSize

LEMMA MainOver ==
  ASSUME config \in Tables, ~IsTheme, NEW t \in Wholes, t.status = "active",
         NEW g, NEW f, OnCourse(t, g, f), Phase(t.wave) = "main", Drafting(t) \subseteq Acted(t),
         \/ Drafting(t) = {}
         \/ t.wave = MainRounds /\ \A o \in Seats : t.packs[t.wave][o].cards = Empty
  PROVE  LET u == FinishMain(t)
         IN  Through(u, g, f) /\ u \in Wholes /\ u.status = "active" /\ u.wave = t.wave
             /\ u.deal = t.deal
<1> DEFINE u == FinishMain(t)
<1>0. Running(t) /\ Seated(t) /\ Charts(g, f, t.deal) /\ FullDeal(t.deal) /\ InMain(t, f)
  BY DEF Running, OnCourse
<1>1. t.wave \in 1..MainRounds /\ t.wave \in 0..MainRounds
  BY StepOver, RoundsAre
<1>2. \A s \in Seats : Count(t, s) = g[t.wave][s]
  BY WaveOver
<1>3. g[MainRounds] = g[t.wave]
  <2>1. CASE Drafting(t) = {}
    <3>1. \A s \in Seats : ~(Count(t, s) < MainTarget) /\ Count(t, s) \in Nat /\ MainTarget \in Nat
      BY <1>0, <2>1, DraftingIs, CountIs, ConfigIs
    <3>2. \A s \in Seats : g[t.wave][s] >= MainTarget
      BY <1>2, <3>1
    <3> DEFINE w == t.wave
    <3> HIDE DEF w
    <3>3. w \in 0..MainRounds /\ \A s \in Seats : g[w][s] >= MainTarget
      BY <1>1, <3>2 DEF w
    <3>4. g[MainRounds] = g[w]
      BY <1>0, <3>3, LaterSame
    <3> QED BY <3>4 DEF w
  <2>2. CASE t.wave = MainRounds
    BY <2>2
  <2> QED BY <2>1, <2>2
<1>4. /\ Leads(t, u) /\ u.status = "active" /\ u.wave = t.wave /\ u.finished = t.finished
      /\ u.main = t.main
  BY FinishMainIs
<1> HIDE DEF u
<1>5. u \in Wholes /\ u.pool = t.pool /\ u.deal = t.deal
  BY <1>4 DEF Leads
<1>6. \A s : Count(u, s) = Count(t, s)
  BY <1>5 DEF Count
<1>7. \A s \in t.finished : Count(t, s) >= MainTarget + ExtraSize
  BY <1>0 DEF Seated, CardsToDraft
<1>8. Through(u, g, f)
  BY <1>0, <1>2, <1>3, <1>4, <1>5, <1>6, <1>7 DEF Through, InMain
<1> QED BY <1>4, <1>5, <1>8 DEF u

LEMMA OpenedAre ==
  ASSUME config \in Tables, ~IsTheme, NEW t \in Wholes, t.status = "active",
         NEW w \in 1..Waves, t.wave < w
  PROVE  LET u == OpenWave(t, w)
         IN  /\ u \in Wholes /\ u.status = "active" /\ u.wave = w /\ u.step = 1
             /\ u.pool = t.pool /\ u.deal = t.deal /\ u.main = t.main /\ u.finished = t.finished
             /\ u.picked = {} /\ u.passed = {}
             /\ \A o \in Seats : u.packs[w][o].at = o /\ u.packs[w][o].cards = t.deal[w][o]
<1> DEFINE u == OpenWave(t, w)
           opened == [o \in Seats |-> [at |-> o, cards |-> t.deal[w][o]]]
<1>0. t \in Row
  BY PartsOf
<1>1. u \in Wholes /\ u.status = "active" /\ u.wave = w /\ u.pool = t.pool /\ u.deal = t.deal
      /\ u.main = t.main /\ u.finished = t.finished
  BY OpenWaveLeads DEF Leads
<1>2. u.step = 1 /\ u.picked = {} /\ u.passed = {} /\ u.packs = With(t.packs, w, opened)
  BY <1>0 DEF OpenWave, Row
<1>3. \A o \in Seats : opened[o].at = o /\ opened[o].cards = t.deal[w][o]
  OBVIOUS
<1> HIDE DEF u, opened
<1>4. u.packs[w] = opened
  BY <1>2 DEF With
<1>5. \A o \in Seats : u.packs[w][o].at = o /\ u.packs[w][o].cards = t.deal[w][o]
  BY <1>3, <1>4
<1> QED BY <1>1, <1>2, <1>5 DEF u

(* The next main wave, and the extra phase. *)
LEMMA OpenMainOn ==
  ASSUME config \in Tables, ~IsTheme, NEW t \in Wholes, t.status = "active",
         NEW g, NEW f, OnCourse(t, g, f), Phase(t.wave) = "main", t.wave < MainRounds,
         \A s \in Seats : Count(t, s) = g[t.wave][s]
  PROVE  OnCourse(OpenWave(t, t.wave + 1), g, f)
<1> DEFINE w == t.wave + 1
           u == OpenWave(t, w)
<1>0. Running(t) /\ Seated(t) /\ Charts(g, f, t.deal) /\ FullDeal(t.deal) /\ InMain(t, f)
  BY DEF Running, OnCourse
<1>1. /\ w \in 1..Waves /\ w \in 1..MainRounds /\ t.wave < w /\ w - 1 = t.wave /\ t.wave \in Nat
      /\ Phase(w) = "main" /\ w \in Nat /\ MainRounds \in Nat
  BY RoundsAre, PartsOf DEF Phase
<1> HIDE DEF w
<1>2. /\ u \in Wholes /\ u.status = "active" /\ u.wave = w /\ u.step = 1
      /\ u.pool = t.pool /\ u.deal = t.deal /\ u.main = t.main /\ u.finished = t.finished
      /\ u.picked = {} /\ u.passed = {}
      /\ \A o \in Seats : u.packs[w][o].at = o /\ u.packs[w][o].cards = t.deal[w][o]
  BY <1>1, OpenedAre
<1>3. 1 \in 1..WaveSteps
  <2>1. t.step \in 1..WaveSteps /\ WaveSteps \in Nat
    BY <1>0, WaveStepsAre DEF InMain
  <2> QED BY <2>1
<1> HIDE DEF u
<1>4. f[w][0] = Unstarted(t.deal, w, g[t.wave])
  BY <1>0, <1>1 DEF Charts, Walks
<1>5. \A o \in Seats : Left(u, o) = Size(t.deal[w][o])
  <2> TAKE o \in Seats
  <2>1. Left(u, o) = Size(u.packs[w][o].cards) + 0
    BY <1>2 DEF Left
  <2>2. Size(u.packs[w][o].cards) \in Nat
    BY <1>2, RowsAre DEF Running
  <2> QED BY <1>2, <2>1, <2>2
<1>6. \A s \in Seats : Count(u, s) = Count(t, s) /\ Had(u, s) = Count(t, s)
  <2> TAKE s \in Seats
  <2>1. Count(u, s) = Count(t, s)
    BY <1>2 DEF Count
  <2>2. Had(u, s) = Count(t, s) - 0
    BY <1>2, <2>1 DEF Had
  <2> QED BY <2>1, <2>2, CountIs
<1>7. Meets(u, f[w][0])
  BY <1>2, <1>4, <1>5, <1>6 DEF Meets, Unstarted
<1>8. InMain(u, f)
  <2>1. \A s \in Seats : u.main[s] = Count(u, s) /\ Count(u, s) <= MainTarget
    BY <1>0, <1>2, <1>6 DEF InMain
  <2>2. u.step - 1 = 0
    BY <1>2
  <2> QED BY <1>2, <1>3, <1>7, <2>1, <2>2 DEF InMain
<1>9. Seated(u)
  <2>1. \A s \in u.finished : Count(u, s) >= CardsToDraft(u, s)
    <3> TAKE s \in u.finished
    <3>1. s \in Seats /\ Count(t, s) >= CardsToDraft(t, s)
      BY <1>0, <1>2, PartsOf DEF Seated
    <3>2. CardsToDraft(u, s) = CardsToDraft(t, s)
      BY <1>1, <1>2 DEF CardsToDraft
    <3> QED BY <1>6, <3>1, <3>2
  <2> QED BY <1>2, <2>1 DEF Seated
<1>10. OnCourse(u, g, f)
  BY <1>0, <1>1, <1>2, <1>8, <1>9 DEF OnCourse
<1> QED BY <1>10 DEF u, w

LEMMA OpenExtraOn ==
  ASSUME config \in Tables, ~IsTheme, NEW t \in Wholes, t.status = "active",
         NEW g, NEW f, Through(t, g, f), ExtraSize > 0
  PROVE  OnCourse(OpenWave(t, MainRounds + 1), g, f)
<1> DEFINE w == MainRounds + 1
           u == OpenWave(t, w)
<1>1. /\ w \in 1..Waves /\ w = Waves /\ t.wave < w /\ Phase(w) = "extra" /\ ExtraSize \in Nat
      /\ MainTarget \in Nat
  BY RoundsAre, PartsOf, ConfigIs DEF Phase, Through
<1> HIDE DEF w
<1>2. /\ u \in Wholes /\ u.status = "active" /\ u.wave = w /\ u.step = 1
      /\ u.pool = t.pool /\ u.deal = t.deal /\ u.main = t.main /\ u.finished = t.finished
      /\ u.picked = {} /\ u.passed = {}
      /\ \A o \in Seats : u.packs[w][o].at = o /\ u.packs[w][o].cards = t.deal[w][o]
  BY <1>1, OpenedAre
<1> HIDE DEF u
<1>3. \A o \in Seats : Left(u, o) = ExtraSize
  <2> TAKE o \in Seats
  <2>1. Left(u, o) = Size(t.deal[Waves][o]) + 0
    BY <1>1, <1>2 DEF Left
  <2>2. Size(t.deal[Waves][o]) = ExtraSize
    BY DEF Through, FullDeal
  <2> QED BY <1>1, <2>1, <2>2
<1>4. \A s \in Seats : u.main[s] = g[MainRounds][s] /\ Had(u, s) = u.main[s]
  <2> TAKE s \in Seats
  <2>1. Had(u, s) = Count(t, s) - 0
    BY <1>2 DEF Had, Count
  <2> QED BY <1>2, <2>1, CountIs DEF Through
<1>5. t.finished = {}
  <2> SUFFICES ASSUME NEW s \in t.finished PROVE FALSE
    OBVIOUS
  <2>1. s \in Seats
    BY PartsOf
  <2>2. Count(t, s) \in Nat /\ Count(t, s) >= MainTarget + ExtraSize /\ Count(t, s) <= MainTarget
    BY <2>1, CountIs DEF Through
  <2> QED BY <1>1, <2>2
<1>6. InExtra(u, g)
  <2>1. u.step \in 1..ExtraSize
    BY <1>1, <1>2
  <2>2. \A o \in Seats : Left(u, o) = ExtraSize - (u.step - 1)
    BY <1>1, <1>2, <1>3
  <2>3. \A s \in Seats : Had(u, s) = u.main[s] + u.step - 1
    <3> TAKE s \in Seats
    <3>1. u.main[s] \in Nat
      BY <1>2, CountIs
    <3> QED BY <1>2, <1>4, <3>1
  <2> QED BY <1>2, <1>4, <2>1, <2>2, <2>3 DEF InExtra
<1>7. Seated(u)
  BY <1>2, <1>5 DEF Seated
<1>8. OnCourse(u, g, f)
  BY <1>1, <1>2, <1>6, <1>7 DEF OnCourse, Through
<1> QED BY <1>8 DEF u, w

(* The end of the draft. *)
LEMMA CompleteParts ==
  ASSUME config \in Tables, NEW t \in Wholes
  PROVE  LET u == Complete(t)
         IN  u.deal = t.deal /\ u.main = t.main /\ \A s : Count(u, s) = Count(t, s)
<1> DEFINE u == Complete(t)
<1>1. t \in Row
  BY PartsOf
<1>2. u.deal = t.deal /\ u.main = t.main /\ u.pool = t.pool
  BY <1>1 DEF Complete, Row
<1> QED BY <1>2 DEF Count

LEMMA EndedMain ==
  ASSUME config \in Tables, ~IsTheme, NEW t \in Wholes,
         NEW g, NEW f, Through(t, g, f), ExtraSize = 0
  PROVE  Ended(Complete(t), g, f)
<1> DEFINE u == Complete(t)
<1>1. u.deal = t.deal /\ u.main = t.main /\ \A s : Count(u, s) = Count(t, s)
  BY CompleteParts
<1> HIDE DEF u
<1>2. \A s \in Seats : Count(t, s) + 0 = Count(t, s)
  BY CountIs
<1>3. Ended(u, g, f)
  BY <1>1, <1>2 DEF Ended, Through
<1> QED BY <1>3 DEF u

LEMMA EndedExtra ==
  ASSUME config \in Tables, ~IsTheme, NEW t \in Wholes, t.status = "active",
         NEW g, NEW f, OnCourse(t, g, f), Phase(t.wave) # "main", Drafting(t) = {}
  PROVE  Ended(Complete(FinishMain(t)), g, f) /\ FinishMain(t) = t
<1>1. FinishMain(t) = t
  BY RoundsAre DEF FinishMain
<1> DEFINE u == Complete(t)
<1>2. u.deal = t.deal /\ u.main = t.main /\ \A s : Count(u, s) = Count(t, s)
  BY CompleteParts
<1> HIDE DEF u
<1>3. \A s \in Seats : Count(t, s) = t.main[s] + ExtraSize
  BY ExtraStep
<1>4. Ended(u, g, f)
  BY <1>2, <1>3 DEF Ended, OnCourse, InExtra
<1> QED BY <1>1, <1>4 DEF u
-----------------------------------------------------------------------------
(* The settling loop stays on course.                                      *)

(* Rounds without a pick: whoever held a pack with cards in them is full.   *)
FullAt(t, f, first, last) ==
    \A j \in first..last, o \in Seats :
        t.packs[t.wave][o].cards # Empty => Count(t, f[t.wave][j].at[o]) >= MainTarget
Idled(x, f) ==
    /\ ~x.repaired
    /\ x.idle >= 1 =>
          /\ x.t.picked = {} /\ x.t.passed = {} /\ x.idle < x.t.step
          /\ \E o \in Seats : x.t.packs[x.t.wave][o].cards # Empty
          /\ Phase(x.t.wave) = "main" => FullAt(x.t, f, x.t.step - x.idle, x.t.step - 2)

OnLoop(x, g, f) ==
    /\ x.running => OnCourse(x.t, g, f) /\ Idled(x, f)
    /\ ~x.running => Tracked(x.t, g, f)

(* In a whole turn a pack with cards meets everybody, who drafts or is full. *)
LEMMA NotStuck ==
  ASSUME config \in Tables, ~IsTheme, NEW t \in Wholes, t.status = "active",
         NEW g, NEW f, OnCourse(t, g, f), Phase(t.wave) = "main",
         Drafting(t) # {}, Drafting(t) \subseteq Acted(t),
         NEW q \in Seats, t.packs[t.wave][q].cards # Empty,
         NEW m \in Nat, m < t.step, FullAt(t, f, t.step - m, t.step - 1)
  PROVE  m < Turn
<1> DEFINE w == t.wave
           k == t.step
           h == f[w]
           total == g[w - 1]
           deal == t.deal
           p == PicksPerStep
           np == N * p
           a == k - m
           b == IF p = 1 \/ a % 2 = 0 THEN a ELSE a + 1
<1>1. Running(t) /\ Seated(t)
  BY DEF Running, OnCourse
<1>2. w \in 1..MainRounds /\ k \in 1..WaveSteps /\ Walks(h, deal, w, total)
  BY StepOver
<1>3. WaveSteps \in Nat /\ p \in {1, 2} /\ N \in Nat /\ w \in Nat
  BY <1>2, WaveStepsAre, ConfigIs, RoundsAre
<1>4. np \in Nat /\ Turn = np + p /\ (N - 1) * p = np - p
  <2>1. CASE p = 1
    BY <1>3, <2>1 DEF Turn
  <2>2. CASE p = 2
    BY <1>3, <2>2 DEF Turn
  <2> QED BY <1>3, <2>1, <2>2
<1>5. PICK s \in Seats : Count(t, s) < MainTarget /\ Count(t, s) \in Nat /\ MainTarget \in Nat
  BY <1>1, DraftingIs, CountIs, ConfigIs
<1>6. FullAt(t, f, a, k - 1)
  OBVIOUS
<1>7. a \in Nat /\ m = k - a
  BY <1>2, <1>3
<1> HIDE DEF w, k, h, total, deal, p, np, a
<1> SUFFICES ASSUME ~(m < Turn) PROVE FALSE
  OBVIOUS
<1>8. b \in Nat /\ b % p = 0 /\ a <= b /\ b <= a + p - 1
  <2>1. CASE p = 1
    BY <1>7, <2>1
  <2>2. CASE p = 2
    BY <1>7, <2>2
  <2> QED BY <1>3, <2>1, <2>2
<1> HIDE DEF b
<1>9. b + np <= k - 1 /\ b + np <= WaveSteps /\ b \in 0..WaveSteps
  <2>1. k \in Nat /\ k <= WaveSteps
    BY <1>2, <1>3
  <2>2. k - a >= np + p
    BY <1>4, <1>7, <1>3, <2>1
  <2> QED BY <1>3, <1>4, <1>7, <1>8, <2>1, <2>2
<1>10. PICK j \in b..(b + (np - p)) : h[j].at[q] = s
  <2>1. b % PicksPerStep = 0 /\ b + N * PicksPerStep <= WaveSteps
    BY <1>8, <1>9 DEF p, np
  <2>2. \E j \in b..(b + (N - 1) * PicksPerStep) :
           /\ j \in 0..(WaveSteps - PicksPerStep) /\ h[j].at[q] = s
           /\ PicksPerStep = 2 => h[j + 1].at[q] = s
    BY <1>2, <1>3, <1>5, <1>9, <2>1, WalkVisits
  <2> QED BY <1>4, <2>2 DEF p
<1>11. j \in a..(k - 1)
  <2>1. k \in Nat
    BY <1>2, <1>3
  <2> QED BY <1>3, <1>4, <1>7, <1>8, <1>9, <2>1
<1>12. Count(t, s) >= MainTarget
  <2>1. Count(t, h[j].at[q]) >= MainTarget
    BY <1>6, <1>11 DEF FullAt, h, w
  <2> QED BY <1>10, <2>1
<1> QED BY <1>5, <1>12

LEMMA OnLoopFresh ==
  ASSUME NEW t, NEW g, NEW f, OnCourse(t, g, f)
  PROVE  OnLoop(Fresh(t), g, f)
<1> DEFINE y == Fresh(t)
<1>1. y.t = t /\ y.idle = 0 /\ y.repaired = FALSE /\ y.running = TRUE
  BY DEF Fresh
<1> HIDE DEF y
<1>2. OnLoop(y, g, f)
  BY <1>1 DEF OnLoop, Idled
<1> QED BY <1>2 DEF y

LEMMA OnLoopStop ==
  ASSUME NEW t, NEW g, NEW f, Tracked(t, g, f)
  PROVE  OnLoop(Stop(t), g, f)
<1> DEFINE y == Stop(t)
<1>1. y.t = t /\ y.running = FALSE
  BY DEF Stop
<1> HIDE DEF y
<1>2. OnLoop(y, g, f)
  BY <1>1 DEF OnLoop
<1> QED BY <1>2 DEF y

(* The draft ended as predicted. *)
LEMMA OnLoopEnd ==
  ASSUME config \in Tables, NEW t \in Wholes, t.status = "active", NEW g, NEW f,
         Ended(Complete(t), g, f)
  PROVE  OnLoop(Stop(Complete(t)), g, f)
<1>1. Complete(t).status = "completed"
  BY CompleteLeads
<1>2. Tracked(Complete(t), g, f)
  BY <1>1 DEF Tracked
<1> QED BY <1>2, OnLoopStop

LEMMA RoundOn ==
  ASSUME config \in Tables, ~IsTheme, NEW t0 \in Wholes, NEW x \in LoopStates(t0), x.running,
         NEW g, NEW f, OnLoop(x, g, f)
  PROVE  OnLoop(Round(x), g, f)
<1> DEFINE t == PassEmptyHanded(x.t)
           m == x.idle
           k == t.step
           idle == m + 1
           stuck == idle > (N + 1) * PicksPerStep
           exhausted == \A o \in Seats : t.packs[t.wave][o].cards = Empty
           swept == IF t.wave = MainRounds THEN FinishMain(t) ELSE t
           ended == Drafting(t) = {}
           main == Phase(t.wave) = "main"
           extra == main /\ ExtraSize > 0
           waits == ~(Drafting(t) \subseteq Acted(t))
<1>0. x.t \in Wholes /\ x.t.status = "active" /\ m \in 0..Turn
      /\ x \in [t : Wholes, idle : 0..Turn, repaired : BOOLEAN, running : BOOLEAN]
      /\ OnCourse(x.t, g, f) /\ Idled(x, f) /\ ~x.repaired
  BY DEF LoopStates, OnLoop, Idled
<1>1. /\ OnCourse(t, g, f) /\ k = x.t.step /\ t.packs = x.t.packs /\ t.pool = x.t.pool
      /\ t.wave = x.t.wave /\ t.picked = x.t.picked /\ t.deal = x.t.deal /\ t.main = x.t.main
      /\ t.status = "active" /\ t \in Wholes
  BY <1>0, PassOn
<1>2. /\ MainRounds \in Nat /\ Waves \in Nat /\ MainRounds <= Waves /\ t.wave \in 1..Waves
      /\ (ExtraSize > 0 => Waves = MainRounds + 1) /\ (ExtraSize = 0 => Waves = MainRounds)
      /\ ExtraSize \in Nat /\ Turn \in Nat /\ k \in Nat \ {0} /\ m \in Nat /\ Turn >= 3
  <2>1. Turn \in Nat /\ m \in Nat
    BY <1>0, BoundIs
  <2>2. Turn >= 3
    <3>1. N \in Nat /\ N >= 2 /\ PicksPerStep \in {1, 2}
      BY ConfigIs
    <3>2. CASE PicksPerStep = 1
      BY <3>1, <3>2 DEF Turn
    <3>3. CASE PicksPerStep = 2
      BY <3>1, <3>3 DEF Turn
    <3> QED BY <3>1, <3>2, <3>3
  <2> QED BY <1>1, <2>1, <2>2, RoundsAre, ConfigIs, PartsOf
<1>3. Round(x) = CASE ended /\ extra -> Fresh(OpenWave(FinishMain(t), MainRounds + 1))
                   [] ended /\ ~extra -> Stop(Complete(FinishMain(t)))
                   [] ~ended /\ waits -> Stop(t)
                   [] OTHER -> IF stuck /\ ~x.repaired
                               THEN [Fresh(Rewind(t)) EXCEPT !.repaired = TRUE]
                               ELSE IF ~stuck /\ ~exhausted
                               THEN [x EXCEPT !.t = Advance(t), !.idle = idle]
                               ELSE IF t.wave >= Waves THEN Stop(Complete(swept))
                               ELSE Fresh(OpenWave(swept, t.wave + 1))
  BY DEF Round
<1>4. stuck <=> m >= Turn
  <2> DEFINE turn == (N + 1) * PicksPerStep
  <2>1. turn = Turn
    BY DEF Turn
  <2> HIDE DEF turn
  <2>2. m + 1 > turn <=> m >= Turn
    BY <1>2, <2>1
  <2> QED BY <2>2 DEF turn
<1>5. \A s \in Seats : Count(t, s) = Count(x.t, s)
  BY <1>1 DEF Count
<1>6. Running(t) /\ Seated(t)
  BY <1>1 DEF Running, OnCourse
<1> HIDE DEF t, exhausted, stuck
(* Who had nothing to take with the packs as they are is full. *)
<1>7. ASSUME ~ended, ~waits, main, m >= 1 PROVE m < k /\ FullAt(t, f, k - m, k - 1)
  <2>1. /\ t.picked = {} /\ m < k
        /\ FullAt(x.t, f, k - m, k - 2)
    BY <1>0, <1>1, <1>7 DEF Idled
  <2>2. InMain(t, f)
    BY <1>1, <1>7 DEF OnCourse
  <2> SUFFICES ASSUME NEW j \in (k - m)..(k - 1), NEW o \in Seats, t.packs[t.wave][o].cards # Empty
               PROVE  Count(t, f[t.wave][j].at[o]) >= MainTarget
    BY <2>1 DEF FullAt
  <2>3. CASE j = k - 1
    <3>1. f[t.wave][j].at[o] = t.packs[t.wave][o].at
      BY <2>2, <2>3 DEF InMain, Meets
    <3> DEFINE s == t.packs[t.wave][o].at
    <3>2. s \in Seats /\ PacksAt(t, s) # {}
      <4>1. s \in Seats
        BY <1>6, <1>1, RowsAre
      <4>2. o \in PacksAt(t, s)
        BY DEF PacksAt
      <4> QED BY <4>1, <4>2
    <3>3. s \notin Acted(t)
      BY <1>6, <2>1, <3>2 DEF Acted, Seated
    <3>4. s \notin Drafting(t)
      BY <1>7, <3>3
    <3>5. ~(Count(t, s) < MainTarget) /\ Count(t, s) \in Nat /\ MainTarget \in Nat
      BY <1>1, <1>6, <1>7, <3>2, <3>4, DraftingIs, CountIs, ConfigIs
    <3> HIDE DEF s
    <3>6. Count(t, s) >= MainTarget
      BY <3>5
    <3> QED BY <3>1, <3>6 DEF s
  <2>4. CASE j # k - 1
    <3>1. j \in (k - m)..(k - 2)
      BY <1>2, <2>4
    <3>2. Count(x.t, f[t.wave][j].at[o]) >= MainTarget
      BY <1>1, <2>1, <3>1 DEF FullAt
    <3> QED BY <1>1, <3>2 DEF Count
  <2> QED BY <2>3, <2>4
<1>8. ASSUME ~ended, ~waits PROVE ~stuck
  <2> SUFFICES ASSUME m >= Turn PROVE FALSE
    BY <1>4
  <2>1. m >= 1
    BY <1>2
  <2>2. CASE main
    <3>1. PICK q \in Seats : t.packs[t.wave][q].cards # Empty
      BY <1>0, <1>1, <2>1 DEF Idled
    <3>2. m < k /\ FullAt(t, f, k - m, k - 1)
      BY <1>7, <1>8, <2>1, <2>2
    <3>3. m < Turn
      BY <1>1, <1>2, <1>8, <2>2, <3>1, <3>2, NotStuck
    <3> QED BY <1>2, <3>3
  <2>3. CASE ~main
    <3>1. t.picked = {} /\ t.passed = {}
      BY <1>0, <1>1, <2>1, <2>3 DEF Idled, OnCourse, InExtra
    <3> QED BY <1>8, <3>1 DEF Acted
  <2> QED BY <2>2, <2>3
<1>9. main => t.wave <= MainRounds
  BY <1>2 DEF Phase
<1>10. CASE ended /\ extra
  <2> DEFINE u == FinishMain(t)
  <2>1. Round(x) = Fresh(OpenWave(u, MainRounds + 1))
    BY <1>3, <1>10
  <2>2. Through(u, g, f) /\ u \in Wholes /\ u.status = "active"
    BY <1>1, <1>10, MainOver
  <2> HIDE DEF u
  <2>3. OnCourse(OpenWave(u, MainRounds + 1), g, f)
    BY <1>10, <2>2, OpenExtraOn
  <2> QED BY <2>1, <2>3, OnLoopFresh
<1>11. CASE ended /\ ~extra
  <2> DEFINE u == FinishMain(t)
  <2>1. Round(x) = Stop(Complete(u))
    BY <1>3, <1>11
  <2>2. CASE main
    <3>1. Through(u, g, f) /\ u \in Wholes /\ u.status = "active"
      BY <1>1, <1>11, <2>2, MainOver
    <3> HIDE DEF u
    <3>2. ExtraSize = 0
      BY <1>2, <1>11, <2>2
    <3>3. Ended(Complete(u), g, f)
      BY <3>1, <3>2, EndedMain
    <3> QED BY <2>1, <3>1, <3>3, OnLoopEnd
  <2>3. CASE ~main
    <3>1. Ended(Complete(u), g, f) /\ u = t
      BY <1>1, <1>11, <2>3, EndedExtra
    <3> QED BY <1>1, <2>1, <3>1, OnLoopEnd
  <2> QED BY <2>2, <2>3
<1>12. CASE ~ended /\ waits
  <2>1. Round(x) = Stop(t)
    BY <1>3, <1>12
  <2>2. Tracked(t, g, f)
    BY <1>1 DEF Tracked
  <2> QED BY <2>1, <2>2, OnLoopStop
<1>13. CASE ~ended /\ ~waits /\ ~exhausted
  <2> DEFINE v == Advance(t)
             y == [x EXCEPT !.t = v, !.idle = idle]
  <2>1. Round(x) = y
    BY <1>3, <1>8, <1>13
  <2>2. PICK q \in Seats : t.packs[t.wave][q].cards # Empty
    BY <1>13 DEF exhausted
  <2>3. OnCourse(v, g, f)
    <3>1. CASE main
      BY <1>1, <1>13, <2>2, <3>1, TurnMain
    <3>2. CASE ~main
      BY <1>1, <1>13, <3>2, TurnExtra
    <3> QED BY <3>1, <3>2
  <2>4. /\ v.wave = t.wave /\ v.step = k + 1 /\ v.picked = {} /\ v.passed = {} /\ v.pool = t.pool
        /\ \A o \in Seats : v.packs[v.wave][o].cards = t.packs[t.wave][o].cards
    BY <1>1, AdvanceParts
  <2> HIDE DEF v
  <2>5. y.t = v /\ y.idle = m + 1 /\ y.repaired = x.repaired /\ y.running = x.running
    BY <1>0
  <2> HIDE DEF y
  <2>6. m + 1 < v.step
    <3>1. CASE m = 0
      BY <1>2, <2>4, <3>1
    <3>2. CASE m # 0
      <4>1. m >= 1
        BY <1>2, <3>2
      <4>2. m < k
        BY <1>0, <1>1, <4>1 DEF Idled
      <4> QED BY <1>2, <2>4, <4>2
    <3> QED BY <3>1, <3>2
  <2>7. main => FullAt(v, f, v.step - (m + 1), v.step - 2)
    <3> SUFFICES ASSUME main, NEW j \in (v.step - (m + 1))..(v.step - 2), NEW o \in Seats,
                        t.packs[t.wave][o].cards # Empty
                 PROVE  Count(t, f[t.wave][j].at[o]) >= MainTarget
      BY <2>4 DEF FullAt, Count
    <3>1. m >= 1 /\ j \in (k - m)..(k - 1)
      BY <1>2, <2>4
    <3> QED BY <1>7, <1>13, <3>1 DEF FullAt
  <2>8. Idled(y, f)
    <3>1. \E o \in Seats : v.packs[v.wave][o].cards # Empty
      BY <2>2, <2>4
    <3>2. Phase(v.wave) = "main" => FullAt(v, f, v.step - (m + 1), v.step - 2)
      BY <2>4, <2>7
    <3> QED BY <1>0, <2>4, <2>5, <2>6, <3>1, <3>2 DEF Idled
  <2>9. OnLoop(y, g, f)
    BY <2>3, <2>5, <2>8 DEF OnLoop
  <2> QED BY <2>1, <2>9
<1>14. CASE ~ended /\ ~waits /\ exhausted
  <2>1. main
    <3> SUFFICES ASSUME ~main PROVE FALSE
      OBVIOUS
    <3>1. \A o \in Seats : t.packs[t.wave][o].cards # Empty
      BY <1>1, <1>14, ExtraStep
    <3>2. Seats # {}
      BY ConfigIs
    <3> QED BY <1>14, <3>1, <3>2 DEF exhausted
  <2>2. Round(x) = IF t.wave >= Waves THEN Stop(Complete(swept)) ELSE Fresh(OpenWave(swept, t.wave + 1))
    BY <1>3, <1>8, <1>14
  <2>3. CASE t.wave = MainRounds
    <3> DEFINE u == FinishMain(t)
    <3>1. Through(u, g, f) /\ u \in Wholes /\ u.status = "active"
      BY <1>1, <1>14, <2>1, <2>3, MainOver DEF exhausted
    <3>2. swept = u
      BY <2>3
    <3> HIDE DEF u, swept
    <3>3. CASE ExtraSize = 0
      <4>1. Ended(Complete(u), g, f)
        BY <3>1, <3>3, EndedMain
      <4>2. Round(x) = Stop(Complete(u))
        BY <1>2, <2>2, <2>3, <3>2, <3>3
      <4> QED BY <3>1, <4>1, <4>2, OnLoopEnd
    <3>4. CASE ExtraSize # 0
      <4>1. ExtraSize > 0
        BY <1>2, <3>4
      <4>2. OnCourse(OpenWave(u, MainRounds + 1), g, f)
        BY <3>1, <4>1, OpenExtraOn
      <4>3. Round(x) = Fresh(OpenWave(u, MainRounds + 1))
        BY <1>2, <2>2, <2>3, <3>2, <4>1
      <4> QED BY <4>2, <4>3, OnLoopFresh
    <3> QED BY <3>3, <3>4
  <2>4. CASE t.wave # MainRounds
    <3>1. t.wave < MainRounds /\ ~(t.wave >= Waves)
      BY <1>2, <1>9, <2>1, <2>4
    <3>2. swept = t
      BY <2>4
    <3>3. \A s \in Seats : Count(t, s) = g[t.wave][s]
      BY <1>1, <1>14, <2>1, WaveOver DEF exhausted
    <3>4. OnCourse(OpenWave(t, t.wave + 1), g, f)
      BY <1>1, <2>1, <3>1, <3>3, OpenMainOn
    <3>5. Round(x) = Fresh(OpenWave(t, t.wave + 1))
      BY <2>2, <3>1, <3>2
    <3> QED BY <3>4, <3>5, OnLoopFresh
  <2> QED BY <2>3, <2>4
<1> QED BY <1>10, <1>11, <1>12, <1>13, <1>14
-----------------------------------------------------------------------------
(* What the loop and the calls lead to.                                    *)

(* The loop stays in a set that its rounds do not leave. *)
LEMMA LoopedIn ==
  ASSUME config \in Tables, NEW t, NEW X, Fresh(t) \in X, \A x \in X : x.running => Round(x) \in X
  PROVE  Looped(t) \subseteq X
<1> DEFINE Y == SUBSET X
           step(S) == {IF x.running THEN Round(x) ELSE x : x \in S}
           G == [p \in (1..LoopBound) \X Y |-> step(p[2])]
           x0 == {Fresh(t)}
<1>1. LoopBound \in Nat
  BY BoundIs
<1>2. x0 \in Y /\ \A S \in Y : step(S) \in Y
  OBVIOUS
<1>3. \A i \in 1..LoopBound, S \in Y : G[<<i, S>>] = step(S)
  <2> HIDE DEF Y, step
  <2> QED OBVIOUS
<1> HIDE DEF G, Y, step, x0
<1>4. PICK f : Follows(f, x0, G, LoopBound, Y)
  <2>1. StepsIn(G, LoopBound, Y)
    BY <1>2, <1>3, Zenon DEF StepsIn
  <2> QED BY <1>1, <1>2, <2>1, Recursion
<1>5. f \in [0..LoopBound -> Y] /\ f[0] = x0 /\ \A i \in 1..LoopBound : f[i] = step(f[i - 1])
  <2>1. f \in [0..LoopBound -> Y] /\ f[0] = x0 /\ \A i \in 1..LoopBound : f[i] = G[<<i, f[i - 1]>>]
    BY <1>4 DEF Follows
  <2>2. ASSUME NEW i \in 1..LoopBound PROVE f[i] = step(f[i - 1])
    <3>1. i - 1 \in 0..LoopBound
      BY <1>1
    <3> QED BY <1>3, <2>1, <3>1
  <2> QED BY <2>1, <2>2
<1> DEFINE loop == CHOOSE loop : loop = [i \in 0..LoopBound |->
                      IF i = 0 THEN {Fresh(t)}
                      ELSE {IF x.running THEN Round(x) ELSE x : x \in loop[i - 1]}]
<1>6. Looped(t) = loop[LoopBound]
  BY DEF Looped
<1>7. loop = [i \in 0..LoopBound |-> IF i = 0 THEN x0 ELSE step(loop[i - 1])]
  <2>1. \A i \in 0..LoopBound : f[i] = IF i = 0 THEN x0 ELSE step(f[i - 1])
    BY <1>1, <1>5
  <2>2. f = [i \in 0..LoopBound |-> IF i = 0 THEN x0 ELSE step(f[i - 1])]
    BY <1>5, <2>1
  <2>3. \E g : g = [i \in 0..LoopBound |-> IF i = 0 THEN x0 ELSE step(g[i - 1])]
    BY <2>2
  <2>4. \E g : g = [i \in 0..LoopBound |-> IF i = 0 THEN {Fresh(t)}
                      ELSE {IF x.running THEN Round(x) ELSE x : x \in g[i - 1]}]
    BY <2>3 DEF step, x0
  <2>5. loop = [i \in 0..LoopBound |-> IF i = 0 THEN {Fresh(t)}
                      ELSE {IF x.running THEN Round(x) ELSE x : x \in loop[i - 1]}]
    BY <2>4
  <2> QED BY <2>5 DEF step, x0
<1> HIDE DEF loop
<1> DEFINE Z == [i \in 0..LoopBound |-> Y]
<1>8. loop[0] \in Z[0]
  BY <1>1, <1>2, <1>7
<1>9. ASSUME NEW i \in 1..LoopBound, loop[i - 1] \in Z[i - 1] PROVE loop[i] \in Z[i]
  <2>1. i \in 0..LoopBound /\ i # 0 /\ i - 1 \in 0..LoopBound
    BY <1>1
  <2>2. loop[i] = step(loop[i - 1]) /\ loop[i - 1] \in Y
    BY <1>7, <1>9, <2>1
  <2> QED BY <1>2, <2>1, <2>2
<1>10. Z[LoopBound] = Y
  BY <1>1
<1> HIDE DEF Z
<1>11. loop[LoopBound] \in Z[LoopBound]
  BY <1>1, <1>8, <1>9, Along
<1> QED BY <1>6, <1>10, <1>11 DEF Y

(* So does settling, which asks every seat. *)
LEMMA SettleIn ==
  ASSUME config \in Tables, NEW t, t.status = "active", NEW X, \A x \in Looped(t) : x.t \in X,
         \A u \in X, s \in Seats : u.status = "active" /\ s \in Waiting(u) => Swap(u, s) \subseteq X
  PROVE  Settle(t) \subseteq X
<1> DEFINE Y == SUBSET X
           start == {x.t : x \in Looped(t)}
           G == [p \in (1..N) \X Y |-> SwapFor(p[2], Joined[p[1]])]
<1>1. N \in Nat /\ 0 \in 0..N /\ N \in 0..N /\ (\A i \in 1..N : i \in 0..N /\ i - 1 \in 0..N)
      /\ \A i \in 1..N : Joined[i] \in Seats
  BY ConfigIs
<1>2. start \in Y
  OBVIOUS
<1>3. ASSUME NEW i \in 1..N, NEW S \in Y PROVE SwapFor(S, Joined[i]) \in Y
  <2>1. Joined[i] \in Seats
    BY <1>1
  <2> QED BY <2>1 DEF SwapFor
<1>4. \A i \in 1..N, S \in Y : G[<<i, S>>] = SwapFor(S, Joined[i])
  <2> HIDE DEF Y
  <2> QED OBVIOUS
<1> HIDE DEF G, Y, start
<1>5. PICK f : Follows(f, start, G, N, Y)
  <2>1. StepsIn(G, N, Y)
    BY <1>3, <1>4, Zenon DEF StepsIn
  <2> QED BY <1>1, <1>2, <2>1, Recursion
<1>6. f \in [0..N -> Y] /\ f[0] = start /\ \A i \in 1..N : f[i] = SwapFor(f[i - 1], Joined[i])
  <2>1. f \in [0..N -> Y] /\ f[0] = start /\ \A i \in 1..N : f[i] = G[<<i, f[i - 1]>>]
    BY <1>5 DEF Follows
  <2>2. ASSUME NEW i \in 1..N PROVE f[i] = SwapFor(f[i - 1], Joined[i])
    BY <1>1, <1>4, <2>1
  <2> QED BY <2>1, <2>2
<1> DEFINE asked == CHOOSE asked : asked =
              [i \in 0..N |-> IF i = 0 THEN {x.t : x \in Looped(t)}
                              ELSE SwapFor(asked[i - 1], Joined[i])]
<1>7. asked = [i \in 0..N |-> IF i = 0 THEN start ELSE SwapFor(asked[i - 1], Joined[i])]
  <2>1. \A i \in 0..N : f[i] = IF i = 0 THEN start ELSE SwapFor(f[i - 1], Joined[i])
    BY <1>1, <1>6
  <2>2. f = [i \in 0..N |-> IF i = 0 THEN start ELSE SwapFor(f[i - 1], Joined[i])]
    BY <1>6, <2>1
  <2>3. \E g : g = [i \in 0..N |-> IF i = 0 THEN start ELSE SwapFor(g[i - 1], Joined[i])]
    BY <2>2
  <2> QED BY <2>3 DEF start
<1>8. Settle(t) = asked[N]
  BY DEF Settle
<1> HIDE DEF asked
<1> DEFINE Z == [i \in 0..N |-> Y]
<1>9. asked[0] \in Z[0]
  BY <1>1, <1>2, <1>7
<1>10. ASSUME NEW i \in 1..N, asked[i - 1] \in Z[i - 1] PROVE asked[i] \in Z[i]
  <2>1. i \in 0..N /\ i # 0 /\ asked[i - 1] \in Y
    BY <1>1, <1>10
  <2>2. asked[i] = SwapFor(asked[i - 1], Joined[i])
    BY <1>7, <2>1
  <2> QED BY <1>3, <2>1, <2>2
<1>12. Z[N] = Y
  BY <1>1
<1> HIDE DEF Z
<1>11. asked[N] \in Z[N]
  BY <1>1, <1>9, <1>10, Along
<1> QED BY <1>8, <1>11, <1>12 DEF Y

(* Tables that follow the prediction.                                      *)
Trackers(g, f) == {t \in Wholes : Running(t) /\ Tracked(t, g, f)}

LEMMA SettleOn ==
  ASSUME config \in Tables, ~IsTheme, NEW g, NEW f, NEW t \in Trackers(g, f)
  PROVE  Settle(t) \subseteq Trackers(g, f)
<1>1. t \in Wholes /\ Running(t) /\ Tracked(t, g, f)
  BY DEF Trackers
<1>2. CASE t.status # "active"
  BY <1>2 DEF Settle
<1>3. CASE t.status = "active"
  <2> DEFINE X == {x \in LoopStates(t) : OnLoop(x, g, f)}
  <2>1. Fresh(t) \in X
    <3>1. Leads(t, t)
      BY <1>1, LeadsSame DEF SameCards
    <3>2. OnLoop(Fresh(t), g, f)
      BY <1>1, <1>3, OnLoopFresh DEF Tracked
    <3> QED BY <1>1, <1>3, <3>1, <3>2, FreshIs
  <2>2. \A x \in X : x.running => Round(x) \in X
    <3> TAKE x \in X
    <3>1. x \in LoopStates(t) /\ OnLoop(x, g, f)
      OBVIOUS
    <3> SUFFICES ASSUME x.running PROVE Round(x) \in X
      OBVIOUS
    <3>2. Round(x) \in LoopStates(t)
      BY <1>1, <3>1, RoundIs
    <3>3. OnLoop(Round(x), g, f)
      BY <1>1, <3>1, RoundOn
    <3> QED BY <3>2, <3>3
  <2> HIDE DEF X
  <2>3. Looped(t) \subseteq X
    BY <2>1, <2>2, LoopedIn
  <2>4. ASSUME NEW x \in Looped(t) PROVE x.t \in Trackers(g, f)
    <3>1. x \in LoopStates(t) /\ ~x.running
      BY <1>1, <1>3, LoopedIs
    <3>2. OnLoop(x, g, f)
      BY <2>3 DEF X
    <3>3. Tracked(x.t, g, f)
      BY <3>1, <3>2 DEF OnLoop
    <3>4. x.t \in Wholes /\ Leads(t, x.t)
      BY <3>1 DEF LoopStates
    <3> QED BY <3>3, <3>4 DEF Trackers, Leads
  <2>5. ASSUME NEW u \in Trackers(g, f), NEW s \in Seats, u.status = "active", s \in Waiting(u),
               NEW v \in Swap(u, s)
        PROVE  v \in Trackers(g, f)
    <3>1. u \in Wholes /\ OnCourse(u, g, f)
      BY <2>5 DEF Trackers, Tracked
    <3>2. OnCourse(v, g, f) /\ v \in Wholes /\ v.status = "active"
      BY <2>5, <3>1, SwapOn
    <3> QED BY <3>2 DEF Trackers, Tracked, Running
  <2> QED BY <1>3, <2>4, <2>5, SettleIn
<1> QED BY <1>2, <1>3

LEMMA TakePassedOn ==
  ASSUME config \in Tables, ~IsTheme, NEW g, NEW f, NEW t \in Trackers(g, f), NEW s, NEW c
  PROVE  TakePassed(t, s, c) \subseteq Trackers(g, f)
<1> SUFFICES ASSUME NEW v \in TakePassed(t, s, c) PROVE v \in Trackers(g, f)
  OBVIOUS
<1>1. t.status = "active" /\ s \in Waiting(t)
  BY DEF TakePassed
<1>2. t \in Wholes /\ OnCourse(t, g, f)
  BY <1>1 DEF Trackers, Tracked
<1>3. PICK u \in Swap(t, s) : c \in Options(u, s) /\ v \in Settle(Taken(u, s, c, CardsToDraft(u, s)))
  BY <1>1 DEF TakePassed
<1>4. OnCourse(u, g, f) /\ u \in Wholes /\ u.status = "active" /\ s \in Waiting(u)
  BY <1>1, <1>2, <1>3, SwapOn
<1>5. c \in InPack(u, s)
  BY <1>3 DEF Options, Legal
<1> DEFINE w == Taken(u, s, c, CardsToDraft(u, s))
<1>6. OnCourse(w, g, f) /\ w \in Wholes /\ w.status = "active"
  BY <1>4, <1>5, PickOn
<1>7. v \in Settle(w)
  BY <1>3
<1> HIDE DEF w
<1>8. w \in Trackers(g, f)
  BY <1>6 DEF Trackers, Tracked, Running
<1> QED BY <1>7, <1>8, SettleOn

LEMMA ExpiredOn ==
  ASSUME config \in Tables, ~IsTheme, NEW g, NEW f, NEW t \in Trackers(g, f)
  PROVE  Expired(t) \subseteq Trackers(g, f)
<1> DEFINE X == Trackers(g, f)
<1>1. \A u \in X : \A s \in Seats, c \in Names : Take(u, s, c) \subseteq X
  BY TakePassedOn DEF Take
<1>2. \A u \in X : Settle(u) \subseteq X
  BY SettleOn
<1> HIDE DEF X
<1>3. t \in X
  BY DEF X
<1>4. Expired(t) \subseteq X
  BY <1>1, <1>2, <1>3, ExpiredIn
<1> QED BY <1>4 DEF X

(* A draft starts on course. *)
LEMMA StartedOn ==
  ASSUME config \in Tables, ~IsTheme, NEW main \in MainDecks(config), NEW extra \in ExtraDecks(config),
         NEW v \in StartedFrom(Blank, main, extra)
  PROVE  \E g, f : v \in Trackers(g, f)
<1> DEFINE deal == Packs(main, extra)
           r == [Blank EXCEPT !.status = "active", !.deal = deal, !.undealt = Undealt(main, extra)]
<1>1. ~(Len(extra) < N * ExtraSize) /\ v = OpenWave(r, 1)
  BY DEF StartedFrom
<1>2. v \in Wholes /\ v.status = "active" /\ v.pool = Blank.pool
  BY StartedFromIs
<1>3. Dealing(deal) /\ (ExtraSize > 0 => \A o \in Seats : Size(deal[Waves][o]) = ExtraSize)
  BY <1>1, DealIs
<1>4. FullDeal(deal)
  BY <1>3 DEF FullDeal
<1> HIDE DEF deal
<1>5. PICK g, f : Charts(g, f, deal)
  BY <1>3, ChartsAre
<1> DEFINE opened == [o \in Seats |-> [at |-> o, cards |-> deal[1][o]]]
<1>6. r.deal = deal /\ r.packs = Blank.packs /\ r.main = Blank.main /\ r.finished = Blank.finished
  BY DEF Blank
<1>7. /\ v.wave = 1 /\ v.step = 1 /\ v.picked = {} /\ v.passed = {} /\ v.deal = deal
      /\ v.main = Blank.main /\ v.finished = {} /\ v.packs = With(Blank.packs, 1, opened)
  BY <1>1, <1>6, BlankIs DEF OpenWave, Blank
<1>8. v.packs[1] = opened
  BY <1>7 DEF With
<1>9. \A o \in Seats : v.packs[1][o].at = o /\ v.packs[1][o].cards = deal[1][o]
  BY <1>8
<1> HIDE DEF opened, r
<1>10. 1 \in 1..MainRounds /\ Phase(1) = "main" /\ 1 - 1 = 0 /\ 1 \in 1..WaveSteps /\ MainTarget \in Nat
  <2>1. MainRounds \in Nat \ {0} /\ MainTarget \in Nat
    BY RoundsAre, ConfigIs
  <2>2. WaveSteps \in Nat /\ WaveSteps >= 1
    <3> DEFINE a == PackSize + PicksPerStep
    <3>1. N \in Nat /\ N >= 2 /\ a \in Nat /\ a >= 1
      BY ConfigIs
    <3>2. WaveSteps = N * a /\ WaveSteps \in Nat
      BY WaveStepsAre
    <3> HIDE DEF a
    <3>3. N * a >= 1
      BY <3>1
    <3> QED BY <3>2, <3>3
  <2> QED BY <2>1, <2>2 DEF Phase
<1>11. f[1][0] = Unstarted(deal, 1, g[0]) /\ g[0] = [s \in Seats |-> 0]
  BY <1>5, <1>10 DEF Charts, Walks
<1>12. \A s \in Seats : Count(v, s) = 0 /\ Had(v, s) = 0 /\ v.main[s] = 0
  <2> TAKE s \in Seats
  <2>1. v.pool[s] = Empty /\ Size(Empty) = 0
    BY <1>2, BlankIs
  <2>2. Count(v, s) = 0
    BY <2>1 DEF Count
  <2>3. Had(v, s) = 0 - 0
    BY <1>7, <2>2 DEF Had
  <2>4. v.main[s] = 0
    BY <1>7 DEF Blank
  <2> QED BY <2>2, <2>3, <2>4
<1>13. \A o \in Seats : Left(v, o) = Size(deal[1][o])
  <2> TAKE o \in Seats
  <2>1. Left(v, o) = Size(v.packs[1][o].cards) + 0
    BY <1>7 DEF Left
  <2>2. Size(v.packs[1][o].cards) \in Nat
    BY <1>2, <1>7, RowsAre DEF Running
  <2> QED BY <1>9, <2>1, <2>2
<1>14. Meets(v, f[1][0])
  BY <1>7, <1>9, <1>11, <1>12, <1>13 DEF Meets, Unstarted
<1>15. InMain(v, f)
  BY <1>7, <1>10, <1>12, <1>14 DEF InMain
<1>16. Seated(v)
  BY <1>7, <1>9 DEF Seated
<1>17. OnCourse(v, g, f)
  BY <1>4, <1>5, <1>7, <1>10, <1>15, <1>16 DEF OnCourse
<1> QED BY <1>2, <1>17 DEF Trackers, Tracked, Running

-----------------------------------------------------------------------------
(* The steps of a booster draft.                                           *)

Predicted(t) == Running(t) => \E g, f : Tracked(t, g, f)
Paced == ~IsTheme => Predicted(table)

LEMMA PredictedStep ==
  ASSUME Inductive, ~IsTheme, Predicted(table), [Next]_vars, NEW v, v = table'
  PROVE  Predicted(v)
<1>1. config \in Tables /\ table \in Wholes
  BY DEF Inductive
<1>2. ASSUME Running(table) PROVE \E g, f : table \in Trackers(g, f)
  BY <1>1, <1>2 DEF Predicted, Trackers
<1>3. \A t, g, f : t \in Trackers(g, f) => Predicted(t)
  BY DEF Predicted, Trackers
<1>4. CASE Start
  <2>1. table = Blank
    BY <1>4 DEF Start, Inductive
  <2>2. PICK main \in MainDecks(config), extra \in ExtraDecks(config) : v \in StartedFrom(Blank, main, extra)
    BY <1>4, <2>1 DEF Start, Commit
  <2>3. \E g, f : v \in Trackers(g, f)
    BY <1>1, <2>2, StartedOn
  <2> QED BY <1>3, <2>3
<1>5. ASSUME NEW s \in Seats, View(s) PROVE Predicted(v)
  <2>1. table.status = "active" /\ v \in Swap(table, s)
    BY <1>5 DEF View
  <2>2. PICK g, f : table \in Trackers(g, f)
    BY <1>2, <2>1 DEF Running
  <2>3. OnCourse(table, g, f)
    BY <2>1, <2>2 DEF Trackers, Tracked
  <2>4. OnCourse(v, g, f) /\ v.status = "active"
    BY <1>1, <2>1, <2>3, SwapOn
  <2> QED BY <2>4 DEF Predicted, Tracked
<1>6. ASSUME NEW s \in Seats \ Bots, NEW c \in Names, Pick(s, c) PROVE Predicted(v)
  <2>1. PICK t \in IF due THEN Expired(table) ELSE {table} :
         IF s \in table.picked \/ Count(t, s) > Count(table, s) THEN v = t
         ELSE v \in Take(t, s, c)
    BY <1>6 DEF Pick, Commit
  <2>2. PICK g, f : table \in Trackers(g, f)
    BY <1>2, <1>6 DEF Pick, Running
  <2>3. t \in Trackers(g, f)
    BY <1>1, <2>1, <2>2, ExpiredOn
  <2>4. v \in Take(t, s, c) => v \in Trackers(g, f)
    BY <1>1, <2>3, TakePassedOn DEF Take
  <2> QED BY <1>3, <2>1, <2>3, <2>4
<1>7. ASSUME NEW s \in Bots, NEW c \in Names, BotPick(s, c) PROVE Predicted(v)
  <2>1. v \in TakePassed(table, s, c)
    BY <1>7 DEF BotPick, Commit, Take
  <2>2. Running(table)
    BY <2>1 DEF TakePassed, Running
  <2>3. PICK g, f : table \in Trackers(g, f)
    BY <1>2, <2>2
  <2>4. v \in Trackers(g, f)
    BY <1>1, <2>1, <2>3, TakePassedOn
  <2> QED BY <1>3, <2>4
<1>8. CASE Expire
  <2>1. v \in Expired(table) /\ Running(table)
    BY <1>8 DEF Expire, Commit, Running
  <2>2. PICK g, f : table \in Trackers(g, f)
    BY <1>2, <2>1
  <2>3. v \in Trackers(g, f)
    BY <1>1, <2>1, <2>2, ExpiredOn
  <2> QED BY <1>3, <2>3
<1>9. CASE Cancel
  <2>1. v = [Blank EXCEPT !.status = "cancelled", !.wave = table.wave, !.step = table.step]
    BY <1>9 DEF Cancel
  <2>2. Blank \in Row
    BY <1>1, BlankIs
  <2>3. v.status = "cancelled"
    BY <2>1, <2>2 DEF Row
  <2> QED BY <2>3 DEF Predicted, Running
<1>10. CASE TimeUp \/ UNCHANGED vars
  BY <1>10 DEF TimeUp, vars
<1>11. CASE \E k \in config.themes :
              \/ \E c \in MainNames, copies \in 0..MaxCopies : EditCard(k, "main", c, copies)
              \/ \E c \in ExtraNames, copies \in 0..MaxCopies : EditCard(k, "extra", c, copies)
              \/ DeleteTheme(k)
  <2>1. table' = table
    BY <1>11, EditStep
  <2> QED BY <2>1
<1> QED BY <1>4, <1>5, <1>6, <1>7, <1>8, <1>9, <1>10, <1>11 DEF Next

(* Whether a table follows its prediction depends on the configuration     *)
(* alone.                                                                  *)
LEMMA PredictedFrozen ==
  ASSUME config' = config
  PROVE  \A t : Predicted(t)' <=> Predicted(t)
<1>1. /\ N' = N /\ IsTheme' = IsTheme /\ MainTarget' = MainTarget /\ PackSize' = PackSize
      /\ ExtraSize' = ExtraSize /\ PicksPerStep' = PicksPerStep /\ Alternate' = Alternate
  BY DEF N, IsTheme, MainTarget, PackSize, ExtraSize, PicksPerStep, Alternate
<1>2. Seats' = Seats /\ Names' = Names
  BY <1>1 DEF Seats, Names
<1>3. MainRounds' = MainRounds /\ Empty' = Empty /\ WaveSteps' = WaveSteps
  BY <1>1, <1>2 DEF MainRounds, Empty, WaveSteps
<1>4. Waves' = Waves /\ Bag' = Bag
  BY <1>1, <1>2, <1>3 DEF Waves, Bag
<1>5. \A w : Phase(w)' = Phase(w) /\ Direction(w)' = Direction(w)
  BY <1>1, <1>3 DEF Phase, Direction
<1>6. \A x, w, k : ReachStep(x, w, k)' = ReachStep(x, w, k)
  BY <1>1, <1>2, <1>5 DEF ReachStep
<1>7. WalkState' = WalkState /\ \A deal, w, total : Unstarted(deal, w, total)' = Unstarted(deal, w, total)
  BY <1>2 DEF WalkState, Unstarted
<1>8. \A f, deal, w, total : Walks(f, deal, w, total)' <=> Walks(f, deal, w, total)
  BY <1>3, <1>6, <1>7 DEF Walks
<1>9. \A g, f, deal : Charts(g, f, deal)' <=> Charts(g, f, deal)
  BY <1>2, <1>3, <1>8 DEF Charts
<1>10. \A deal : FullDeal(deal)' <=> FullDeal(deal)
  <2>1. \A deal : Dealing(deal)' <=> Dealing(deal)
    BY <1>1, <1>2, <1>3, <1>4 DEF Dealing
  <2> QED BY <1>1, <1>2, <1>4, <2>1 DEF FullDeal
<1>11. \A t, s : Target(t, s)' = Target(t, s) /\ CardsToDraft(t, s)' = CardsToDraft(t, s)
  BY <1>1, <1>4, <1>5 DEF Target, CardsToDraft
<1>12. \A t, s : PacksAt(t, s)' = PacksAt(t, s)
  BY <1>2, <1>3 DEF PacksAt
<1>13. \A t : Seated(t)' <=> Seated(t)
  BY <1>2, <1>11, <1>12 DEF Seated
<1>14. \A t, f : InMain(t, f)' <=> InMain(t, f)
  BY <1>1, <1>2, <1>3 DEF InMain, Meets
<1>15. \A t, g : InExtra(t, g)' <=> InExtra(t, g)
  BY <1>1, <1>2, <1>3 DEF InExtra
<1>16. \A t, g, f : OnCourse(t, g, f)' <=> OnCourse(t, g, f)
  BY <1>5, <1>9, <1>10, <1>13, <1>14, <1>15 DEF OnCourse
<1>17. \A t, g, f : Ended(t, g, f)' <=> Ended(t, g, f)
  BY <1>1, <1>2, <1>3, <1>9, <1>10 DEF Ended
<1> QED BY <1>16, <1>17 DEF Predicted, Tracked

LEMMA PacedStep ==
  ASSUME Inductive, Paced, [Next]_vars
  PROVE  Paced'
<1>1. PICK v : v = table'
  OBVIOUS
<1>2. config' = config
  BY <1>1, StepIs
<1>3. IsTheme' = IsTheme
  BY <1>2, Frozen
<1>4. ASSUME ~IsTheme PROVE Predicted(table)'
  <2>1. Predicted(v)
    BY <1>1, <1>4, PredictedStep DEF Paced
  <2>2. Predicted(v)' <=> Predicted(v)
    BY <1>2, PredictedFrozen
  <2> QED BY <1>1, <2>1, <2>2
<1> QED BY <1>3, <1>4 DEF Paced

LEMMA PacedInit ==
  ASSUME Init
  PROVE  Paced
<1>1. Blank.status = "pending" /\ config \in Tables /\ table = Blank
  BY BlankIs DEF Init
<1> QED BY <1>1 DEF Paced, Predicted, Running

LEMMA AlwaysPaced == Spec => []Paced
<1>1. Init => Paced
  BY PacedInit
<1>2. Inductive /\ Paced /\ [Next]_vars => Paced'
  BY PacedStep
<1> QED BY <1>1, <1>2, Invariance, PTL DEF Spec

(* What the room shows of the draft is the only chart of its deal. *)
LEMMA ReachableIs ==
  ASSUME config \in Tables, NEW g, NEW f, Dealing(table.deal), Charts(g, f, table.deal)
  PROVE  Reachable = g[MainRounds]
<1> DEFINE deal == table.deal
<1>1. Reachable = After(deal, MainRounds)
  BY DEF Reachable, After
<1>2. PICK h, e : Charts(h, e, deal) /\ h[MainRounds] = After(deal, MainRounds)
  BY ChartsAre
<1>3. MainRounds \in 0..MainRounds
  BY RoundsAre
<1> HIDE DEF deal
<1>4. Charts(g, f, deal)
  BY DEF deal
<1>5. g[MainRounds] = h[MainRounds]
  BY <1>2, <1>3, <1>4, ChartsAgree
<1> QED BY <1>1, <1>2, <1>5

(* The totals that reachableBoosterMainPicks computes from the sizes of the *)
(* packs are the totals of the draft: whoever picks what and when, through  *)
(* capped packs, swaps, forced and late picks, every seat ends the main     *)
(* waves with as many main cards as the room showed, and the draft with a   *)
(* full extra deck; and a theme draft with what the check of its themes     *)
(* promised.                                                               *)
THEOREM TotalsAlwaysAsShown == Spec => []TotalsAsShown
<1>1. Inductive /\ Paced /\ (IsTheme => ThemesSuffice) => TotalsAsShown
  <2> SUFFICES ASSUME Inductive, Paced, ~IsTheme PROVE MainTotalsAsShown /\ ExtraFull
    BY DEF TotalsAsShown
  <2>1. config \in Tables /\ table \in Wholes
    BY DEF Inductive
  <2>2. ASSUME table.status = "active", Phase(table.wave) = "extra"
        PROVE  \A s \in Seats : table.main[s] = Reachable[s]
    <3>1. PICK g, f : OnCourse(table, g, f)
      BY <2>2 DEF Paced, Predicted, Running, Tracked
    <3>2. Reachable = g[MainRounds]
      BY <2>1, <3>1, ReachableIs DEF OnCourse, FullDeal
    <3> QED BY <2>2, <3>1, <3>2 DEF OnCourse, InExtra
  <2>3. ASSUME table.status = "completed"
        PROVE  \A s \in Seats : table.main[s] = Reachable[s] /\ Count(table, s) = table.main[s] + ExtraSize
    <3>1. PICK g, f : Ended(table, g, f)
      BY <2>3 DEF Paced, Predicted, Running, Tracked
    <3>2. Reachable = g[MainRounds]
      BY <2>1, <3>1, ReachableIs DEF Ended, FullDeal
    <3> QED BY <3>1, <3>2 DEF Ended
  <2> QED BY <2>2, <2>3 DEF MainTotalsAsShown, ExtraFull
<1> QED BY <1>1, Invariance, AlwaysPaced, ThemesAreEnough, PTL
=============================================================================
