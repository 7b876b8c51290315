-------------------------- MODULE TournamentProofs --------------------------
EXTENDS Tournament, FiniteSetTheorems, WellFoundedInduction, TLAPS

(* A set of numbers with a member has a least one.                         *)
LEMMA MinOf ==
  ASSUME NEW S \in SUBSET Nat, S # {}
  PROVE  Min(S) \in S /\ \A y \in S : Min(S) <= y
<1> DEFINE R == OpToRel(<, Nat)
<1>3. IsWellFoundedOn(R, Nat)
  BY NatLessThanWellFounded
<1>4. \A y, x \in Nat : y < x => <<y, x>> \in R
  BY DEF OpToRel
<1> HIDE DEF R
<1>1. PICK x \in S : \A y \in S : ~(<<y, x>> \in R)
  BY <1>3, WFMin
<1>2. ASSUME NEW y \in S PROVE x <= y
  <2>1. y \in Nat /\ x \in Nat /\ ~(y < x)
    BY <1>1, <1>4
  <2> QED BY <2>1
<1> QED BY <1>2 DEF Min

LEMMA MaxOf ==
  ASSUME NEW S \in SUBSET Nat, S # {}, NEW n \in Nat, \A y \in S : y <= n
  PROVE  Max(S) \in S /\ \A y \in S : y <= Max(S)
<1> DEFINE T == {n - y : y \in S}
<1>1. T \in SUBSET Nat /\ T # {}
  <2>1. \A y \in S : n - y \in Nat
    OBVIOUS
  <2> QED BY <2>1
<1>2. PICK t \in T : \A y \in T : t <= y
  BY <1>1, MinOf
<1>3. PICK x \in S : t = n - x
  OBVIOUS
<1>4. ASSUME NEW y \in S PROVE y <= x
  <2>1. n - x <= n - y /\ x \in Nat /\ y \in Nat
    BY <1>2, <1>3
  <2> QED BY <2>1
<1> QED BY <1>4 DEF Max

(* Division with a rest, by numbers that are not literals.                 *)
LEMMA Times ==
  ASSUME NEW m \in Nat, NEW a \in Nat, NEW b \in Nat, a >= b
  PROVE  a * m >= b * m
<1>1. PICK c \in Nat : a = b + c
  <2>1. a = b + (a - b) /\ a - b \in Nat
    OBVIOUS
  <2> QED BY <2>1
<1>2. a * m = b * m + c * m /\ c * m \in Nat /\ b * m \in Nat
  BY <1>1
<1> QED BY <1>2

LEMMA DivMod ==
  ASSUME NEW m \in Nat \ {0}, NEW x \in Nat
  PROVE  /\ x \div m \in Nat /\ x % m \in 0..(m - 1)
         /\ x = (x \div m) * m + (x % m)
<1>1. x \div m \in Int /\ x % m \in Int
  OBVIOUS
<1>2. x = m * (x \div m) + (x % m)
  OBVIOUS
<1>3. 0 <= x % m /\ x % m < m
  OBVIOUS
<1>4. x \div m >= 0
  OBVIOUS
<1> QED BY <1>1, <1>2, <1>3, <1>4

LEMMA DivModOf ==
  ASSUME NEW m \in Nat \ {0}, NEW n \in Nat, NEW x \in 0..(n * m - 1)
  PROVE  /\ x \in Nat /\ x \div m \in 0..(n - 1) /\ x % m \in 0..(m - 1)
         /\ x = (x \div m) * m + (x % m)
<1> DEFINE q == x \div m
<1>1. q \in Nat /\ x = q * m + (x % m) /\ x % m \in 0..(m - 1) /\ n * m \in Nat
  <2>1. n * m \in Nat /\ x \in Nat
    OBVIOUS
  <2> QED BY <2>1, DivMod
<1> HIDE DEF q
<1>2. q >= n => q * m >= n * m
  BY <1>1, Times
<1>3. q * m \in Nat /\ q * m <= x /\ x < n * m
  BY <1>1
<1> QED BY <1>1, <1>2, <1>3 DEF q

LEMMA ModOf ==
  ASSUME NEW m \in Nat \ {0}, NEW x \in 0..(2 * m - 1)
  PROVE  x % m = IF x < m THEN x ELSE x - m
<1> DEFINE n == 2
<1>1. n \in Nat /\ n - 1 = 1 /\ x \in 0..(n * m - 1)
  OBVIOUS
<1> HIDE DEF n
<1>4. x \in Nat /\ x \div m \in 0..1 /\ x % m \in 0..(m - 1) /\ x = (x \div m) * m + (x % m)
  BY <1>1, DivModOf
<1>2. CASE x \div m = 0
  BY <1>2, <1>4
<1>3. CASE x \div m = 1
  BY <1>3, <1>4
<1> QED BY <1>2, <1>3, <1>4

LEMMA DivModBack ==
  ASSUME NEW m \in Nat \ {0}, NEW q \in Nat, NEW r \in 0..(m - 1)
  PROVE  (q * m + r) \div m = q /\ (q * m + r) % m = r
OBVIOUS

(* Sequences by their members.                                             *)
LEMMA Joined ==
  ASSUME NEW S, NEW s \in Seq(S), NEW t \in Seq(S)
  PROVE  /\ s \o t \in Seq(S) /\ Len(s \o t) = Len(s) + Len(t)
         /\ DOMAIN (s \o t) = 1..(Len(s) + Len(t))
         /\ \A j \in 1..(Len(s) + Len(t)) :
               (s \o t)[j] = IF j <= Len(s) THEN s[j] ELSE t[j - Len(s)]
<1>1. Len(s) \in Nat /\ Len(t) \in Nat
  OBVIOUS
<1>2. s \o t \in Seq(S) /\ Len(s \o t) = Len(s) + Len(t)
  OBVIOUS
<1>3. \A u : u \in Seq(S) => DOMAIN u = 1..Len(u)
  OBVIOUS
<1>4. \A j \in 1..(Len(s) + Len(t)) : (s \o t)[j] = IF j <= Len(s) THEN s[j] ELSE t[j - Len(s)]
  BY <1>1
<1> QED BY <1>1, <1>2, <1>3, <1>4

-----------------------------------------------------------------------------
(* Pairings.                                                               *)

(* A row as it is drawn: nobody reported it, and only who sits out is done. *)
NewRows == {s \in Slot : /\ s.match = 0 /\ Cardinality(s.pair) \in {1, 2}
                         /\ s.status = "open" \/ (s.status = "completed" /\ IsBye(s))}

LEMMA PairOf ==
  ASSUME NEW x, NEW y
  PROVE  /\ IsFiniteSet({x, y}) /\ Cardinality({x, y}) \in {1, 2}
         /\ x # y => Cardinality({x, y}) = 2
<1>1. IsFiniteSet({x}) /\ Cardinality({x}) = 1
  BY FS_Singleton
<1>2. {x, y} = {x} \cup {y}
  OBVIOUS
<1> QED BY <1>1, <1>2, FS_AddElement

LEMMA PlayersCount ==
  ASSUME event \in Events
  PROVE  Players \subseteq Nat \ {0} /\ roster \in Seq(Players) /\ Len(roster) >= 2
         /\ IsInjective(roster) /\ IsFiniteSet(Players)
         /\ format \in {"round_robin", "single_elim"} /\ MaxFaults \in Nat
<1>1. event \in Event /\ Len(roster) >= 2 /\ IsInjective(roster)
  BY TournamentAssumption DEF TournamentAssumption, roster
<1>2. roster \in Seq(Nat \ {0}) /\ format \in {"round_robin", "single_elim"} /\ MaxFaults \in Nat
  BY <1>1 DEF Event, roster, format, MaxFaults
<1>3. Players = {roster[i] : i \in 1..Len(roster)} /\ Len(roster) \in Nat
  BY <1>2 DEF Players, ToSet
<1>4. Players \subseteq Nat \ {0} /\ roster \in Seq(Players)
  BY <1>2, <1>3
<1>5. IsFiniteSet(1..Len(roster))
  BY <1>3, FS_Interval
<1>6. IsFiniteSet(Players)
  <2> DEFINE f == [i \in 1..Len(roster) |-> roster[i]]
  <2>1. f \in Surjection(1..Len(roster), Players)
    BY <1>3 DEF Surjection
  <2> QED BY <2>1, <1>5, FS_Surjection
<1> QED BY <1>1, <1>2, <1>4, <1>6

LEMMA ByeIsNew ==
  ASSUME NEW p \in Players, NEW round \in Nat \ {0}
  PROVE  ByeSlot(p, round) \in NewRows /\ ByeSlot(p, round).round = round
         /\ ByeSlot(p, round).pair = {p}
<1>1. Cardinality({p}) = 1
  BY FS_Singleton
<1>2. ByeSlot(p, round) = [pair |-> {p}, round |-> round, status |-> "completed", match |-> 0]
  BY DEF ByeSlot, OpenSlot
<1> QED BY <1>1, <1>2 DEF NewRows, Slot, IsBye

LEMMA OpenIsNew ==
  ASSUME NEW pair \in SUBSET Players, Cardinality(pair) \in {1, 2}, NEW round \in Nat \ {0}
  PROVE  OpenSlot(pair, round) \in NewRows /\ OpenSlot(pair, round).round = round
         /\ OpenSlot(pair, round).pair = pair
<1>1. OpenSlot(pair, round) = [pair |-> pair, round |-> round, status |-> "open", match |-> 0]
  BY DEF OpenSlot
<1>2. OpenSlot(pair, round) \in Slot
  BY <1>1 DEF Slot
<1> QED BY <1>1, <1>2 DEF NewRows

LEMMA Half ==
  ASSUME NEW n \in Nat
  PROVE  /\ n % 2 \in {0, 1} /\ n \div 2 \in Nat
         /\ n = 2 * (n \div 2) + (n % 2)
         /\ (n - (n % 2)) \div 2 = n \div 2
OBVIOUS

(* Rows of a round, told by their positions.                               *)
LEMMA SingleElimRow ==
  ASSUME NEW players \in Seq(Players), Len(players) >= 2, NEW round \in Nat \ {0}
  PROVE  LET b == Len(players) % 2
             h == Len(players) \div 2
             rows == SingleElim(players, round)
         IN  /\ b \in {0, 1} /\ h \in Nat \ {0} /\ Len(players) = b + 2 * h
             /\ rows \in Seq(NewRows) /\ Len(rows) = b + h
             /\ \A j \in 1..(b + h) :
                  rows[j] = IF j <= b THEN ByeSlot(players[1], round)
                            ELSE OpenSlot({players[j], players[Len(players) + 1 + b - j]}, round)
<1> DEFINE n == Len(players)
           b == n % 2
           h == n \div 2
           rest == SubSeq(players, b + 1, n)
           first == [j \in 1..b |-> ByeSlot(players[1], round)]
           second == [j \in 1..(Len(rest) \div 2) |-> OpenSlot({rest[j], rest[Len(rest) + 1 - j]}, round)]
<1>1. n \in Nat /\ b \in {0, 1} /\ h \in Nat \ {0} /\ n = b + 2 * h /\ (n - b) \div 2 = h
  BY Half
<1>2. SingleElim(players, round) = first \o second
  BY DEF SingleElim
<1> HIDE DEF b, h
<1>3. Len(rest) = n - b /\ \A j \in 1..(n - b) : rest[j] = players[j + b]
  BY <1>1
<1>4. Len(first) = b /\ first \in Seq(NewRows)
  <2>1. players[1] \in Players
    OBVIOUS
  <2>2. ByeSlot(players[1], round) \in NewRows
    BY <2>1, ByeIsNew
  <2> QED BY <1>1, <2>2
<1>5. Len(rest) \div 2 = h
  BY <1>1, <1>3
<1>6. second = [j \in 1..h |-> OpenSlot({players[j + b], players[n + 1 - j]}, round)]
  <2>1. \A j \in 1..h : rest[j] = players[j + b] /\ rest[Len(rest) + 1 - j] = players[n + 1 - j]
    <3> SUFFICES ASSUME NEW j \in 1..h
                 PROVE  rest[j] = players[j + b] /\ rest[Len(rest) + 1 - j] = players[n + 1 - j]
      OBVIOUS
    <3>1. j \in 1..(n - b) /\ n - b + 1 - j \in 1..(n - b) /\ n - b + 1 - j + b = n + 1 - j
      BY <1>1
    <3> HIDE DEF rest, n
    <3> QED BY <3>1, <1>3
  <2> HIDE DEF rest, n
  <2> QED BY <2>1, <1>5
<1> HIDE DEF second, rest
<1>7. second \in Seq(NewRows) /\ Len(second) = h
  <2>1. ASSUME NEW j \in 1..h
        PROVE  OpenSlot({players[j + b], players[n + 1 - j]}, round) \in NewRows
    <3>1. j + b \in 1..n /\ n + 1 - j \in 1..n
      BY <1>1
    <3>2. players[j + b] \in Players /\ players[n + 1 - j] \in Players
      BY <3>1
    <3>3. Cardinality({players[j + b], players[n + 1 - j]}) \in {1, 2}
      BY PairOf
    <3>4. {players[j + b], players[n + 1 - j]} \in SUBSET Players
      BY <3>2
    <3> HIDE DEF n
    <3> QED BY <3>3, <3>4, OpenIsNew
  <2>2. second \in [1..h -> NewRows] /\ h \in Nat
    <3> HIDE DEF n
    <3> QED BY <1>1, <1>6, <2>1
  <2> QED BY <2>2
<1> DEFINE rows == first \o second
<1>8. /\ rows \in Seq(NewRows) /\ Len(rows) = b + h
      /\ \A j \in 1..(b + h) : rows[j] = IF j <= b THEN first[j] ELSE second[j - b]
  <2> HIDE DEF first
  <2> QED BY <1>4, <1>7, Joined
<1> HIDE DEF rows
<1>9. ASSUME NEW j \in 1..(b + h)
      PROVE  rows[j] = IF j <= b THEN ByeSlot(players[1], round)
                       ELSE OpenSlot({players[j], players[n + 1 + b - j]}, round)
  <2>1. CASE j <= b
    <3>1. first[j] = ByeSlot(players[1], round)
      BY <1>1, <2>1
    <3> HIDE DEF first
    <3> QED BY <2>1, <3>1, <1>8
  <2>2. CASE ~(j <= b)
    <3>1. j - b \in 1..h /\ (j - b) + b = j /\ n + 1 - (j - b) = n + 1 + b - j
      BY <1>1, <2>2
    <3> HIDE DEF n
    <3>2. second[j - b] = OpenSlot({players[j], players[n + 1 + b - j]}, round)
      BY <3>1, <1>6
    <3> QED BY <2>2, <3>2, <1>8
  <2> QED BY <2>1, <2>2
<1> HIDE DEF first
<1> QED BY <1>1, <1>2, <1>8, <1>9 DEF b, h, rows

(* The circle of a round robin: who sits where.                            *)
Ring(players) == IF Len(players) % 2 = 1 THEN Append(players, Ghost) ELSE players
Place1(m, r, k) == IF k = 1 THEN 1 ELSE 2 + ((k + r - 3) % m)
Seated(ids, r, k) == ids[Place1(Len(ids) - 1, r, k)]
Met(ids, r, i) == {Seated(ids, r, i), Seated(ids, r, Len(ids) + 1 - i)} \ {Ghost}

LEMMA PlaceIs ==
  ASSUME NEW m \in Nat \ {0}, NEW r \in 1..m, NEW k \in 2..(m + 1)
  PROVE  Place1(m, r, k) = IF k + r < m + 3 THEN k + r - 1 ELSE k + r - 1 - m
<1> DEFINE x == k + r - 3
<1>1. x \in 0..(2 * m - 1)
  OBVIOUS
<1>2. x % m = IF x < m THEN x ELSE x - m
  <2> HIDE DEF x
  <2> QED BY <1>1, ModOf
<1>3. Place1(m, r, k) = 2 + (x % m)
  BY DEF Place1
<1> QED BY <1>2, <1>3

LEMMA PlacesDiffer ==
  ASSUME NEW m \in Nat \ {0}, NEW r \in 1..m
  PROVE  /\ \A k \in 1..(m + 1) : Place1(m, r, k) \in 1..(m + 1)
         /\ \A k, l \in 1..(m + 1) : Place1(m, r, k) = Place1(m, r, l) => k = l
<1>1. ASSUME NEW k \in 1..(m + 1)
      PROVE  Place1(m, r, k) = IF k = 1 THEN 1 ELSE IF k + r < m + 3 THEN k + r - 1 ELSE k + r - 1 - m
  <2>1. CASE k = 1
    BY <2>1 DEF Place1
  <2>2. CASE k # 1
    <3>1. k \in 2..(m + 1)
      BY <2>2
    <3> QED BY <2>2, <3>1, PlaceIs
  <2> QED BY <2>1, <2>2
<1>2. ASSUME NEW k \in 1..(m + 1)
      PROVE  Place1(m, r, k) \in 1..(m + 1)
  BY <1>1
<1>3. ASSUME NEW k \in 1..(m + 1), NEW l \in 1..(m + 1), Place1(m, r, k) = Place1(m, r, l)
      PROVE  k = l
  <2>1. /\ Place1(m, r, k) = IF k = 1 THEN 1 ELSE IF k + r < m + 3 THEN k + r - 1 ELSE k + r - 1 - m
        /\ Place1(m, r, l) = IF l = 1 THEN 1 ELSE IF l + r < m + 3 THEN l + r - 1 ELSE l + r - 1 - m
    BY <1>1
  <2> DEFINE a == Place1(m, r, k)
             c == Place1(m, r, l)
  <2>2. a = c
    BY <1>3
  <2> HIDE DEF a, c
  <2>3. CASE k = 1 \/ l = 1
    BY <2>1, <2>2, <2>3 DEF a, c
  <2>4. CASE k # 1 /\ l # 1 /\ (k + r < m + 3 <=> l + r < m + 3)
    BY <2>1, <2>2, <2>4 DEF a, c
  <2>5. CASE k # 1 /\ l # 1 /\ k + r < m + 3 /\ ~(l + r < m + 3)
    BY <2>1, <2>2, <2>5 DEF a, c
  <2>6. CASE k # 1 /\ l # 1 /\ ~(k + r < m + 3) /\ l + r < m + 3
    BY <2>1, <2>2, <2>6 DEF a, c
  <2> QED BY <2>3, <2>4, <2>5, <2>6
<1> QED BY <1>2, <1>3

LEMMA RingIs ==
  ASSUME NEW players \in Seq(Players), Len(players) >= 2, IsInjective(players),
         Players \subseteq Nat \ {0}
  PROVE  LET ids == Ring(players)
             n == Len(ids)
         IN  /\ ids \in Seq(Players \cup {Ghost}) /\ IsInjective(ids)
             /\ n \in Nat /\ n >= 2 /\ n = 2 * (n \div 2) /\ n \div 2 \in Nat \ {0}
             /\ \A p \in Players : (\E j \in DOMAIN ids : ids[j] = p) <=> p \in ToSet(players)
<1> DEFINE n == Len(players)
<1>1. n \in Nat /\ n % 2 \in {0, 1} /\ n = 2 * (n \div 2) + (n % 2) /\ n \div 2 \in Nat
  BY Half
<1>2. DOMAIN players = 1..n /\ \A i \in 1..n : players[i] \in Players /\ players[i] # 0
  OBVIOUS
<1>3. \A i, j \in 1..n : players[i] = players[j] => i = j
  BY <1>2 DEF IsInjective
<1>4. CASE n % 2 = 0
  <2>1. Ring(players) = players
    BY <1>4 DEF Ring
  <2> QED BY <1>1, <1>2, <1>4, <2>1 DEF ToSet
<1>5. CASE n % 2 = 1
  <2> DEFINE ids == Append(players, Ghost)
  <2>1. Ring(players) = ids
    BY <1>5 DEF Ring
  <2>2. /\ ids \in Seq(Players \cup {Ghost}) /\ Len(ids) = n + 1 /\ DOMAIN ids = 1..(n + 1)
        /\ ids[n + 1] = 0 /\ \A i \in 1..n : ids[i] = players[i]
    BY DEF Ghost
  <2> HIDE DEF ids
  <2>3. IsInjective(ids)
    BY <1>1, <1>2, <1>3, <2>2 DEF IsInjective
  <2>4. (n + 1) \div 2 = (n \div 2) + 1
    BY <1>1, <1>5
  <2>5. ASSUME NEW p \in Players PROVE (\E j \in DOMAIN ids : ids[j] = p) <=> p \in ToSet(players)
    <3>1. p # 0 /\ \A j \in DOMAIN ids : j \in 1..n \/ j = n + 1
      BY <1>1, <2>2
    <3>2. ToSet(players) = {players[i] : i \in 1..n}
      BY DEF ToSet
    <3>3. (\E i \in 1..n : players[i] = p) <=> p \in ToSet(players)
      BY <3>2
    <3>4. 1..n \subseteq DOMAIN ids /\ ids[n + 1] # p
      BY <1>1, <2>2, <3>1
    <3> HIDE DEF n
    <3> QED BY <2>2, <3>1, <3>3, <3>4
  <2> QED BY <1>1, <1>5, <2>1, <2>2, <2>3, <2>4, <2>5
<1> QED BY <1>1, <1>4, <1>5

LEMMA MetIs ==
  ASSUME NEW ids \in Seq(Players \cup {Ghost}), IsInjective(ids), Players \subseteq Nat \ {0},
         Len(ids) >= 2, Len(ids) = 2 * (Len(ids) \div 2),
         NEW r \in 1..(Len(ids) - 1), NEW i \in 1..(Len(ids) \div 2)
  PROVE  /\ Met(ids, r, i) \in SUBSET Players /\ Cardinality(Met(ids, r, i)) \in {1, 2}
         /\ Seated(ids, r, i) # Seated(ids, r, Len(ids) + 1 - i)
<1> DEFINE n == Len(ids)
           x == Seated(ids, r, i)
           y == Seated(ids, r, n + 1 - i)
<1>1. n \in Nat /\ n - 1 \in Nat \ {0} /\ i \in 1..n /\ n + 1 - i \in 1..n /\ i # n + 1 - i
      /\ (n - 1) + 1 = n /\ r \in 1..(n - 1)
  OBVIOUS
<1> HIDE DEF n
<1>2. /\ Place1(n - 1, r, i) \in 1..n /\ Place1(n - 1, r, n + 1 - i) \in 1..n
      /\ Place1(n - 1, r, i) # Place1(n - 1, r, n + 1 - i)
  <2> DEFINE m == n - 1
  <2>1. m \in Nat \ {0} /\ r \in 1..m /\ i \in 1..(m + 1) /\ n + 1 - i \in 1..(m + 1) /\ m + 1 = n
    BY <1>1
  <2> HIDE DEF m
  <2>2. /\ Place1(m, r, i) \in 1..(m + 1) /\ Place1(m, r, n + 1 - i) \in 1..(m + 1)
        /\ Place1(m, r, i) # Place1(m, r, n + 1 - i)
    BY <1>1, <2>1, PlacesDiffer
  <2> QED BY <2>1, <2>2 DEF m
<1>3. DOMAIN ids = 1..n /\ \A a \in 1..n : ids[a] \in Players \cup {0}
  BY DEF n, Ghost
<1>4. x = ids[Place1(n - 1, r, i)] /\ y = ids[Place1(n - 1, r, n + 1 - i)]
  BY DEF Seated, n
<1>5. x \in Players \cup {0} /\ y \in Players \cup {0} /\ x # y
  BY <1>2, <1>3, <1>4 DEF IsInjective
<1>6. Met(ids, r, i) = {x, y} \ {0} /\ 0 \notin Players
  BY DEF Met, Ghost, n
<1> HIDE DEF x, y
<1>7. CASE x = 0
  <2>1. Met(ids, r, i) = {y}
    BY <1>5, <1>6, <1>7
  <2> QED BY <1>5, <1>7, <2>1, FS_Singleton DEF x, y, n
<1>8. CASE y = 0
  <2>1. Met(ids, r, i) = {x}
    BY <1>5, <1>6, <1>8
  <2> QED BY <1>5, <1>8, <2>1, FS_Singleton DEF x, y, n
<1>9. CASE x # 0 /\ y # 0
  <2>1. Met(ids, r, i) = {x, y}
    BY <1>5, <1>6, <1>9
  <2> QED BY <1>5, <1>9, <2>1, PairOf DEF x, y, n
<1> QED BY <1>7, <1>8, <1>9

LEMMA RoundRobinRow ==
  ASSUME NEW players \in Seq(Players), Len(players) >= 2, IsInjective(players),
         Players \subseteq Nat \ {0}, IsFiniteSet(Players)
  PROVE  LET ids == Ring(players)
             n == Len(ids)
             half == n \div 2
             rows == RoundRobin(players)
         IN  /\ rows \in Seq(NewRows) /\ Len(rows) = (n - 1) * half /\ Len(rows) >= 1
             /\ \A j \in 1..((n - 1) * half) :
                   /\ ((j - 1) \div half) + 1 \in 1..(n - 1) /\ ((j - 1) % half) + 1 \in 1..half
                   /\ rows[j].pair = Met(ids, ((j - 1) \div half) + 1, ((j - 1) % half) + 1)
                   /\ rows[j].round = ((j - 1) \div half) + 1
<1> DEFINE ids == Ring(players)
           n == Len(ids)
           half == n \div 2
           count == (n - 1) * half
           rd(j) == ((j - 1) \div half) + 1
           at(j) == ((j - 1) % half) + 1
           ps(j) == Met(ids, rd(j), at(j))
           rows == [j \in 1..count |-> IF Cardinality(ps(j)) = 1
                                       THEN ByeSlot(Min(ps(j)), rd(j)) ELSE OpenSlot(ps(j), rd(j))]
<1>1. /\ ids \in Seq(Players \cup {Ghost}) /\ IsInjective(ids) /\ n \in Nat /\ n >= 2
      /\ n = 2 * half /\ half \in Nat \ {0}
  BY RingIs
<1>2. RoundRobin(players) = rows
  <2> DEFINE seated(r, k) == IF k = 1 THEN ids[1] ELSE ids[2 + ((k + r - 3) % (n - 1))]
             pair(r, i) == {seated(r, i), seated(r, n + 1 - i)} \ {Ghost}
  <2>1. ASSUME NEW r, NEW i PROVE pair(r, i) = Met(ids, r, i)
    BY DEF Met, Seated, Place1
  <2>2. RoundRobin(players) =
          [j \in 1..count |-> IF Cardinality(pair(rd(j), at(j))) = 1
                              THEN ByeSlot(Min(pair(rd(j), at(j))), rd(j))
                              ELSE OpenSlot(pair(rd(j), at(j)), rd(j))]
    BY DEF RoundRobin, Ring
  <2> HIDE DEF pair, rd, at, count
  <2> QED BY <2>1, <2>2
<1>3. count \in Nat /\ count >= 1
  <2>1. n - 1 \in Nat /\ n - 1 >= 1 /\ 1 \in Nat /\ half \in Nat
    BY <1>1
  <2> HIDE DEF n, half
  <2>2. (n - 1) * half >= 1 * half
    BY <2>1, Times
  <2> QED BY <1>1, <2>1, <2>2
<1> HIDE DEF ids, half
<1>4. ASSUME NEW j \in 1..count
      PROVE  rd(j) \in 1..(n - 1) /\ at(j) \in 1..half
  <2>1. j - 1 \in 0..((n - 1) * half - 1) /\ n - 1 \in Nat /\ half \in Nat \ {0}
    BY <1>1, <1>3
  <2>2. (j - 1) \div half \in 0..(n - 1 - 1) /\ (j - 1) % half \in 0..(half - 1)
    BY <2>1, DivModOf
  <2> HIDE DEF n
  <2> QED BY <1>1, <2>2
<1> HIDE DEF rd, at
<1>5. ASSUME NEW j \in 1..count
      PROVE  ps(j) \in SUBSET Players /\ Cardinality(ps(j)) \in {1, 2}
  BY <1>1, <1>4, MetIs DEF half
<1> HIDE DEF n, ps
<1>6. ASSUME NEW j \in 1..count
      PROVE  rows[j] \in NewRows /\ rows[j].round = rd(j) /\ rows[j].pair = ps(j)
  <2>1. rd(j) \in Nat \ {0}
    BY <1>1, <1>4
  <2>2. CASE Cardinality(ps(j)) = 1
    <3>1. IsFiniteSet(ps(j))
      BY <1>5, FS_Subset
    <3>2. PICK p : ps(j) = {p}
      BY <2>2, <3>1, FS_Singleton
    <3>3. p \in Players /\ Min({p}) = p
      BY <3>2, <1>5, MinOf
    <3>4. rows[j] = ByeSlot(p, rd(j))
      BY <2>2, <3>2, <3>3
    <3> HIDE DEF rows
    <3> QED BY <2>1, <3>2, <3>3, <3>4, ByeIsNew
  <2>3. CASE Cardinality(ps(j)) # 1
    <3>1. rows[j] = OpenSlot(ps(j), rd(j))
      BY <2>3
    <3> HIDE DEF rows
    <3> QED BY <1>5, <2>1, <3>1, OpenIsNew
  <2> QED BY <2>2, <2>3
<1>7. rows \in Seq(NewRows) /\ Len(rows) = count
  <2>1. rows \in [1..count -> NewRows]
    BY <1>6
  <2> HIDE DEF rows, count
  <2> QED BY <1>3, <2>1
<1> HIDE DEF rows
<1> QED BY <1>2, <1>3, <1>4, <1>6, <1>7 DEF ids, n, half, rd, at, ps

LEMMA SingleElimRows ==
  ASSUME NEW players \in Seq(Players), Len(players) >= 2, NEW round \in Nat \ {0}
  PROVE  /\ SingleElim(players, round) \in Seq(NewRows) /\ Len(SingleElim(players, round)) >= 1
         /\ \A j \in DOMAIN SingleElim(players, round) : SingleElim(players, round)[j].round = round
<1> DEFINE n == Len(players)
           b == n % 2
           h == n \div 2
           rows == SingleElim(players, round)
<1>1. /\ b \in {0, 1} /\ h \in Nat \ {0} /\ n = b + 2 * h /\ rows \in Seq(NewRows) /\ Len(rows) = b + h
      /\ \A j \in 1..(b + h) : rows[j] = IF j <= b THEN ByeSlot(players[1], round)
                                         ELSE OpenSlot({players[j], players[n + 1 + b - j]}, round)
  BY SingleElimRow
<1> HIDE DEF rows, b, h
<1>2. Len(rows) >= 1 /\ DOMAIN rows = 1..(b + h)
  BY <1>1
<1>3. ASSUME NEW j \in 1..(b + h) PROVE rows[j].round = round
  BY <1>1 DEF ByeSlot, OpenSlot
<1> QED BY <1>1, <1>2, <1>3 DEF rows

LEMMA FirstRowsAre ==
  ASSUME event \in Events
  PROVE  /\ FirstRows \in Seq(NewRows) /\ Len(FirstRows) >= 1
         /\ format = "single_elim" => \A j \in DOMAIN FirstRows : FirstRows[j].round = 1
<1>1. /\ roster \in Seq(Players) /\ Len(roster) >= 2 /\ IsInjective(roster) /\ IsFiniteSet(Players)
      /\ Players \subseteq Nat \ {0}
  BY PlayersCount
<1>2. CASE format = "round_robin"
  <2>1. RoundRobin(roster) \in Seq(NewRows) /\ Len(RoundRobin(roster)) >= 1
    BY <1>1, RoundRobinRow
  <2> QED BY <1>2, <2>1 DEF FirstRows
<1>3. CASE format # "round_robin"
  <2>1. 1 \in Nat \ {0}
    OBVIOUS
  <2> QED BY <1>1, <1>3, <2>1, SingleElimRows DEF FirstRows
<1> QED BY <1>2, <1>3

(* The members of a finite set of numbers can be counted off.              *)
Rank(D, i) == Cardinality({k \in D : k <= i})

LEMMA RanksCountOff ==
  ASSUME NEW D \in SUBSET Nat, IsFiniteSet(D)
  PROVE  /\ Cardinality(D) \in Nat
         /\ \A i \in D : Rank(D, i) \in 1..Cardinality(D)
         /\ \A i, k \in D : Rank(D, i) = Rank(D, k) => i = k
         /\ \A j \in 1..Cardinality(D) : \E i \in D : Rank(D, i) = j
<1> DEFINE n == Cardinality(D)
           Upto(i) == {k \in D : k <= i}
           rank == [i \in D |-> Rank(D, i)]
<1>1. n \in Nat
  BY FS_CardinalityType
<1>2. ASSUME NEW i \in D
      PROVE  /\ IsFiniteSet(Upto(i)) /\ Cardinality(Upto(i)) \in 1..n /\ Rank(D, i) = Cardinality(Upto(i))
  <2>1. Upto(i) \subseteq D /\ i \in Upto(i)
    OBVIOUS
  <2>2. Rank(D, i) = Cardinality(Upto(i))
    BY DEF Rank
  <2> HIDE DEF Upto
  <2>3. IsFiniteSet(Upto(i)) /\ Cardinality(Upto(i)) <= n /\ Cardinality(Upto(i)) \in Nat
    BY <2>1, FS_Subset, FS_CardinalityType
  <2>4. Cardinality(Upto(i)) # 0
    BY <2>1, <2>3, FS_EmptySet
  <2> QED BY <1>1, <2>2, <2>3, <2>4
<1>3. ASSUME NEW i \in D, NEW k \in D, i < k
      PROVE  Rank(D, i) < Rank(D, k)
  <2>1. Upto(i) \subseteq Upto(k) /\ k \in Upto(k) /\ k \notin Upto(i)
    <3>1. i \in Nat /\ k \in Nat /\ \A z \in D : z \in Nat /\ (z <= i => z <= k)
      BY <1>3
    <3>2. k <= k /\ ~(k <= i)
      BY <1>3, <3>1
    <3> QED BY <3>1, <3>2
  <2>2. IsFiniteSet(Upto(i)) /\ IsFiniteSet(Upto(k)) /\ Cardinality(Upto(i)) \in Nat /\ Cardinality(Upto(k)) \in Nat
        /\ Rank(D, i) = Cardinality(Upto(i)) /\ Rank(D, k) = Cardinality(Upto(k))
    BY <1>1, <1>2
  <2> HIDE DEF Upto
  <2>3. Cardinality(Upto(i)) <= Cardinality(Upto(k)) /\ Cardinality(Upto(i)) # Cardinality(Upto(k))
    BY <2>1, <2>2, FS_Subset
  <2> QED BY <2>2, <2>3
<1> HIDE DEF Upto, n
<1>4. ASSUME NEW i \in D, NEW k \in D, Rank(D, i) = Rank(D, k)
      PROVE  i = k
  <2>1. i \in Nat /\ k \in Nat /\ Rank(D, i) \in Nat /\ Rank(D, k) \in Nat
    BY <1>1, <1>2
  <2>2. ~(i < k) /\ ~(k < i)
    BY <1>3, <1>4, <2>1
  <2> QED BY <2>1, <2>2
<1>5. rank \in Injection(D, 1..n)
  <2>1. rank \in [D -> 1..n]
    BY <1>2
  <2>2. \A i, k \in D : rank[i] = rank[k] => i = k
    BY <1>4
  <2> HIDE DEF rank
  <2> QED BY <2>1, <2>2 DEF Injection, IsInjective
<1>6. IsFiniteSet(1..n) /\ Cardinality(1..n) = n
  BY <1>1, FS_Interval
<1>7. rank \in Surjection(D, 1..n)
  <2> HIDE DEF rank
  <2> QED BY <1>5, <1>6, FS_Injection DEF n
<1>8. \A j \in 1..n : \E i \in D : Rank(D, i) = j
  BY <1>7 DEF Surjection
<1> QED BY <1>1, <1>2, <1>4, <1>8 DEF n

LEMMA FirstIsLeast ==
  ASSUME NEW p \in Nat
  PROVE  Min({p}) = p
BY MinOf

-----------------------------------------------------------------------------
(* The database.                                                           *)

Db == [status : {"pending", "active", "completed", "cancelled"},
       slots : Seq(Slot), matches : Seq(Match), series : Seq(Series), awards : SUBSET Nat,
       places : [Players -> {"none", "champion", "runnerUp", "top4"}]]

(* A pairing points at a report or a result of its own, and no two pairings *)
(* at the same; an open pairing points at none, and only a reported match   *)
(* waits for an answer.                                                    *)
SlotFits(d, s) ==
    /\ Cardinality(s.pair) \in {1, 2}
    /\ s.match # 0 => s.match \in DOMAIN d.matches /\ d.matches[s.match].pair = s.pair
    /\ s.status = "open" => s.match = 0
    /\ s.status = "pending_approval" => s.match # 0 /\ d.matches[s.match].reported

LinksFit(d) ==
    /\ \A i \in DOMAIN d.slots : SlotFits(d, d.slots[i])
    /\ \A i, j \in DOMAIN d.slots :
          d.slots[i].match # 0 /\ d.slots[i].match = d.slots[j].match => i = j
    /\ \A m \in DOMAIN d.matches : /\ d.matches[m].winner \in d.matches[m].pair
                                   /\ d.matches[m].status = "pending" => d.matches[m].reported
    /\ d.awards \subseteq DOMAIN d.matches

(* A series plays an existing pairing; it is open only while it is the      *)
(* latest of its pairing and no report waits.                              *)
SeriesFits(d, k) ==
    LET s == d.series[k]
    IN  /\ s.slot \in DOMAIN d.slots /\ s.mark <= Len(d.matches)
        /\ s.match # 0 => s.match \in DOMAIN d.matches /\ d.matches[s.match].winner = s.winner
        /\ s.status = "completed" => s.winner \in d.slots[s.slot].pair
        /\ s.status = "open" => s.match = 0 /\ d.slots[s.slot].status # "pending_approval"
        /\ s.status = "open" => \A l \in DOMAIN d.series : l > k => d.series[l].slot # s.slot

Books(d) == d \in Db /\ LinksFit(d) /\ \A k \in DOMAIN d.series : SeriesFits(d, k)

(* Rows are added and never taken away, and a match keeps its players.     *)
Grows(d, e) ==
    /\ Len(d.slots) <= Len(e.slots) /\ Len(d.matches) <= Len(e.matches)
    /\ \A i \in DOMAIN d.slots : e.slots[i].pair = d.slots[i].pair /\ e.slots[i].round = d.slots[i].round
    /\ \A m \in DOMAIN d.matches : /\ e.matches[m].pair = d.matches[m].pair
                                   /\ e.matches[m].winner = d.matches[m].winner
                                   /\ e.matches[m].reported = d.matches[m].reported

(* Changes of the slots alone: each stays what it was or is a new row.     *)
LEMMA SlotsChange ==
  ASSUME NEW d, Books(d), NEW e \in Db,
         e.matches = d.matches, e.series = d.series, e.awards = d.awards,
         Grows(d, e),
         \A i \in DOMAIN e.slots :
            \/ i \in DOMAIN d.slots /\ e.slots[i] = d.slots[i]
            \/ /\ SlotFits(d, e.slots[i]) /\ e.slots[i].status # "pending_approval"
               /\ e.slots[i].match = 0 \/ (i \in DOMAIN d.slots /\ e.slots[i].match = d.slots[i].match)
  PROVE  Books(e)
<1>1. /\ d \in Db /\ LinksFit(d) /\ \A k \in DOMAIN d.series : SeriesFits(d, k)
  BY DEF Books
<1>2. DOMAIN d.slots = 1..Len(d.slots) /\ DOMAIN e.slots = 1..Len(e.slots) /\ Len(d.slots) \in Nat /\ Len(e.slots) \in Nat
  BY <1>1 DEF Db
<1>3. ASSUME NEW i \in DOMAIN e.slots PROVE SlotFits(e, e.slots[i])
  BY <1>1 DEF LinksFit, SlotFits
<1>4. ASSUME NEW i \in DOMAIN e.slots, NEW j \in DOMAIN e.slots,
             e.slots[i].match # 0, e.slots[i].match = e.slots[j].match
      PROVE  i = j
  BY <1>1, <1>4 DEF LinksFit
<1>5. LinksFit(e)
  BY <1>1, <1>3, <1>4 DEF LinksFit
<1>6. ASSUME NEW k \in DOMAIN e.series PROVE SeriesFits(e, k)
  <2>1. SeriesFits(d, k) /\ d.series[k].slot \in DOMAIN d.slots
    BY <1>1 DEF SeriesFits
  <2>2. d.series[k].slot \in DOMAIN e.slots
    BY <1>2, <2>1 DEF Grows
  <2> QED BY <2>1, <2>2 DEF SeriesFits, Grows
<1> QED BY <1>5, <1>6 DEF Books

(* Who goes on plays in the pairing.                                       *)
LEMMA WinnerPlays ==
  ASSUME event \in Events, NEW d, Books(d), NEW i \in DOMAIN d.slots
  PROVE  LET s == d.slots[i]
         IN  /\ WinnerOf(d, s) # Nobody => WinnerOf(d, s) \in s.pair
             /\ s.match # 0 \/ IsBye(s) => WinnerOf(d, s) # Nobody
             /\ s.pair \subseteq Players /\ WinnerOf(d, s) \in Players \cup {Nobody}
<1> DEFINE s == d.slots[i]
<1>1. Players \subseteq Nat \ {0} /\ IsFiniteSet(Players)
  BY PlayersCount
<1>2. s \in Slot /\ SlotFits(d, s)
  BY DEF Books, LinksFit, Db
<1>3. s.pair \in SUBSET Players
  BY <1>2 DEF Slot
<1>4. CASE s.match # 0
  <2>1. s.match \in DOMAIN d.matches /\ d.matches[s.match].pair = s.pair
    BY <1>2, <1>4 DEF SlotFits
  <2>2. d.matches[s.match].winner \in s.pair
    BY <2>1 DEF Books, LinksFit
  <2> HIDE DEF s
  <2> QED BY <1>1, <1>3, <1>4, <2>2 DEF WinnerOf, Nobody, s
<1>5. CASE s.match = 0 /\ IsBye(s)
  <2>1. IsFiniteSet(s.pair)
    BY <1>1, <1>3, FS_Subset
  <2>2. PICK p : s.pair = {p}
    BY <1>5, <2>1, FS_Singleton DEF IsBye
  <2>3. p \in Nat \ {0} /\ p \in Players
    BY <1>1, <1>3, <2>2
  <2>4. Min(s.pair) = p
    BY <2>2, <2>3, FirstIsLeast
  <2> HIDE DEF s
  <2> QED BY <1>3, <1>5, <2>2, <2>3, <2>4 DEF WinnerOf, Nobody, s
<1>6. CASE s.match = 0 /\ ~IsBye(s)
  <2> HIDE DEF s
  <2> QED BY <1>3, <1>6 DEF WinnerOf, Nobody, s
<1> QED BY <1>4, <1>5, <1>6

(* The decided pairings of a round, and their winners in order.            *)
Decided(d, round) == {i \in DOMAIN d.slots : d.slots[i].round = round
                                             /\ WinnerOf(d, d.slots[i]) # Nobody}

LEMMA WinnersAre ==
  ASSUME event \in Events, NEW d, Books(d), NEW round
  PROVE  LET D == Decided(d, round)
             winners == Winners(d, round)
         IN  /\ winners \in Seq(Players) /\ Len(winners) \in Nat
             /\ \A j \in 1..Len(winners) : \E i \in D : winners[j] = WinnerOf(d, d.slots[i]) /\ Rank(D, i) = j
             /\ \A i \in D : Rank(D, i) \in 1..Len(winners)
                             /\ winners[Rank(D, i)] = WinnerOf(d, d.slots[i])
<1> DEFINE D == Decided(d, round)
           n == Cardinality(D)
           nth(j) == CHOOSE i \in D : Rank(D, i) = j
           winners == [j \in 1..n |-> WinnerOf(d, d.slots[nth(j)])]
<1>1. Winners(d, round) = winners
  BY DEF Winners, Decided, Rank
<1>2. DOMAIN d.slots = 1..Len(d.slots) /\ Len(d.slots) \in Nat
  BY DEF Books, Db
<1>3. D \in SUBSET Nat /\ D \subseteq DOMAIN d.slots
  BY <1>2 DEF Decided
<1>4. IsFiniteSet(D)
  <2>1. IsFiniteSet(1..Len(d.slots))
    BY <1>2, FS_Interval
  <2> HIDE DEF D
  <2> QED BY <1>2, <1>3, <2>1, FS_Subset
<1>5. /\ n \in Nat /\ \A i \in D : Rank(D, i) \in 1..n
      /\ \A i, k \in D : Rank(D, i) = Rank(D, k) => i = k
      /\ \A j \in 1..n : \E i \in D : Rank(D, i) = j
  BY <1>3, <1>4, RanksCountOff
<1>6. ASSUME NEW j \in 1..n PROVE nth(j) \in D /\ Rank(D, nth(j)) = j
  BY <1>5
<1>7. \A i \in D : nth(Rank(D, i)) = i
  BY <1>5, <1>6
<1>8. \A i \in D : WinnerOf(d, d.slots[i]) \in Players
  BY <1>3, WinnerPlays DEF Decided
<1> HIDE DEF D, nth, n
<1>9. winners \in [1..n -> Players]
  BY <1>6, <1>8
<1>10. winners \in Seq(Players) /\ Len(winners) = n
  <2> HIDE DEF winners
  <2> QED BY <1>5, <1>9
<1>11. \A i \in D : winners[Rank(D, i)] = WinnerOf(d, d.slots[i])
  BY <1>5, <1>7
<1>12. \A j \in 1..n : winners[j] = WinnerOf(d, d.slots[nth(j)])
  OBVIOUS
<1> HIDE DEF winners
<1> QED BY <1>1, <1>5, <1>6, <1>10, <1>11, <1>12 DEF D

LEMMA FollowIs ==
  ASSUME event \in Events, NEW d, Books(d), NEW i \in DOMAIN d.slots
  PROVE  \/ Follow(d, i) = Score \/ Follow(d, i) = Close
         \/ /\ Follow(d, i).pc = "draw" /\ Follow(d, i).rows \in Seq(NewRows) /\ Len(Follow(d, i).rows) >= 1
<1> DEFINE next == d.slots[i].round + 1
           winners == Winners(d, next - 1)
<1>1. next \in Nat \ {0}
  <2>1. d.slots[i] \in Slot
    BY DEF Books, Db
  <2> QED BY <2>1 DEF Slot
<1>2. winners \in Seq(Players) /\ Len(winners) \in Nat
  BY WinnersAre
<1>3. Follow(d, i) = Score \/ Follow(d, i) = Close
      \/ (Len(winners) > 1 /\ Follow(d, i) = [pc |-> "draw", rows |-> SingleElim(winners, next)])
  <2> HIDE DEF winners
  <2>1. Len(winners) <= 1 \/ Len(winners) > 1
    BY <1>2
  <2> QED BY <2>1 DEF Follow, winners
<1>4. Len(winners) > 1 => SingleElim(winners, next) \in Seq(NewRows) /\ Len(SingleElim(winners, next)) >= 1
  <2> HIDE DEF next, winners
  <2>1. Len(winners) > 1 => Len(winners) >= 2
    BY <1>2
  <2> QED BY <1>1, <1>2, <2>1, SingleElimRows
<1> HIDE DEF next, winners
<1> QED BY <1>3, <1>4

(* Rows added to the slots.                                                *)
LEMMA SlotsAdded ==
  ASSUME NEW d, Books(d), NEW rows \in Seq(NewRows), NEW e \in Db,
         e.slots = d.slots \o rows,
         e.matches = d.matches, e.series = d.series, e.awards = d.awards
  PROVE  /\ Books(e) /\ Grows(d, e) /\ Len(e.slots) = Len(d.slots) + Len(rows)
         /\ \A i \in DOMAIN d.slots : i \in DOMAIN e.slots /\ e.slots[i] = d.slots[i]
         /\ \A i \in DOMAIN e.slots : i \notin DOMAIN d.slots =>
               i - Len(d.slots) \in DOMAIN rows /\ e.slots[i] = rows[i - Len(d.slots)]
<1>1. d.slots \in Seq(Slot) /\ rows \in Seq(Slot) /\ Len(rows) \in Nat /\ Len(d.slots) \in Nat
      /\ DOMAIN d.slots = 1..Len(d.slots) /\ DOMAIN rows = 1..Len(rows)
  <2>1. NewRows \subseteq Slot
    BY DEF NewRows
  <2>2. d.slots \in Seq(Slot)
    BY DEF Books, Db
  <2> QED BY <2>1, <2>2
<1>2. /\ Len(e.slots) = Len(d.slots) + Len(rows) /\ DOMAIN e.slots = 1..(Len(d.slots) + Len(rows))
      /\ \A j \in 1..(Len(d.slots) + Len(rows)) :
            e.slots[j] = IF j <= Len(d.slots) THEN d.slots[j] ELSE rows[j - Len(d.slots)]
  BY <1>1, Joined
<1>3. \A i \in DOMAIN d.slots : i \in DOMAIN e.slots /\ e.slots[i] = d.slots[i]
  BY <1>1, <1>2
<1>4. \A i \in DOMAIN e.slots : i \notin DOMAIN d.slots =>
         i - Len(d.slots) \in DOMAIN rows /\ e.slots[i] = rows[i - Len(d.slots)]
  BY <1>1, <1>2
<1>5. Grows(d, e)
  BY <1>1, <1>2, <1>3 DEF Grows
<1>6. ASSUME NEW i \in DOMAIN e.slots, i \notin DOMAIN d.slots
      PROVE  SlotFits(d, e.slots[i]) /\ e.slots[i].status # "pending_approval" /\ e.slots[i].match = 0
  <2>1. e.slots[i] \in NewRows
    BY <1>4, <1>6
  <2> QED BY <2>1 DEF NewRows, SlotFits
<1>7. Books(e)
  BY <1>3, <1>5, <1>6, SlotsChange
<1> QED BY <1>2, <1>3, <1>4, <1>5, <1>7

LEMMA PlacedFits ==
  ASSUME NEW d, d \in Db
  PROVE  Placed(d) \in Db /\ Placed(d).slots = d.slots /\ Placed(d).matches = d.matches
         /\ Placed(d).series = d.series /\ Placed(d).awards = d.awards /\ Placed(d).status = d.status
<1>1. \A p : Tier(d, p) \in {"none", "champion", "runnerUp", "top4"}
  BY DEF Tier
<1>2. d.places \in [Players -> {"none", "champion", "runnerUp", "top4"}]
  BY DEF Db
<1> DEFINE f == [p \in Players |-> IF d.places[p] = "none" THEN Tier(d, p) ELSE d.places[p]]
<1>3. f \in [Players -> {"none", "champion", "runnerUp", "top4"}]
  BY <1>1, <1>2
<1>4. Placed(d) = [d EXCEPT !.places = f]
  BY DEF Placed
<1> HIDE DEF f
<1> QED BY <1>3, <1>4 DEF Db

(* The same rows with another status, other awards or other places.        *)
LEMMA RowsStay ==
  ASSUME NEW d, Books(d), NEW e \in Db, e.slots = d.slots, e.matches = d.matches,
         e.series = d.series, e.awards \subseteq DOMAIN d.matches
  PROVE  Books(e) /\ Grows(d, e)
<1>1. Len(d.slots) \in Nat /\ Len(d.matches) \in Nat
  BY DEF Books, Db
<1> QED BY <1>1 DEF Books, LinksFit, SlotFits, SeriesFits, Grows

LEMMA AdvancedIs ==
  ASSUME event \in Events, NEW d, Books(d), NEW i \in DOMAIN d.slots
  PROVE  LET e == Advanced(d, i)
         IN  /\ Books(e) /\ Grows(d, e) /\ e.matches = d.matches /\ e.series = d.series /\ e.awards = d.awards
             /\ \A j \in DOMAIN d.slots : j \in DOMAIN e.slots /\ e.slots[j] = d.slots[j]
             /\ \A j \in DOMAIN e.slots : j \notin DOMAIN d.slots => e.slots[j] \in NewRows
<1> DEFINE e == Advanced(d, i)
<1>1. d \in Db /\ d.awards \subseteq DOMAIN d.matches
  BY DEF Books, LinksFit
<1>2. CASE Follow(d, i) = Score
  <2>1. e = d
    BY <1>2 DEF Advanced, Score
  <2> HIDE DEF e
  <2> QED BY <1>1, <2>1, RowsStay DEF e
<1>3. CASE Follow(d, i) = Close
  <2>1. e = Placed(Closed(d))
    BY <1>3 DEF Advanced, Close
  <2>2. Closed(d) \in Db /\ Closed(d).slots = d.slots /\ Closed(d).matches = d.matches
        /\ Closed(d).series = d.series /\ Closed(d).awards = d.awards
    BY <1>1 DEF Closed, Db
  <2>3. e \in Db /\ e.slots = d.slots /\ e.matches = d.matches /\ e.series = d.series /\ e.awards = d.awards
    BY <2>1, <2>2, PlacedFits
  <2> HIDE DEF e
  <2> QED BY <1>1, <2>3, RowsStay DEF e
<1>4. CASE Follow(d, i).pc = "draw" /\ Follow(d, i).rows \in Seq(NewRows)
  <2> DEFINE rows == Follow(d, i).rows
  <2>1. e = [d EXCEPT !.slots = d.slots \o rows]
    BY <1>4 DEF Advanced
  <2> HIDE DEF e
  <2>2. d.slots \o rows \in Seq(Slot)
    <3>1. rows \in Seq(Slot) /\ d.slots \in Seq(Slot)
      BY <1>1, <1>4 DEF Db, NewRows
    <3> QED BY <3>1, Joined
  <2> HIDE DEF rows
  <2>3. e \in Db /\ e.slots = d.slots \o rows /\ e.matches = d.matches /\ e.series = d.series /\ e.awards = d.awards
    BY <1>1, <2>1, <2>2 DEF Db
  <2>4. rows \in Seq(NewRows)
    BY <1>4 DEF rows
  <2>5. \A j \in DOMAIN rows : rows[j] \in NewRows
    BY <2>4
  <2>6. /\ Books(e) /\ Grows(d, e)
        /\ \A j \in DOMAIN d.slots : j \in DOMAIN e.slots /\ e.slots[j] = d.slots[j]
        /\ \A j \in DOMAIN e.slots : j \notin DOMAIN d.slots =>
              j - Len(d.slots) \in DOMAIN rows /\ e.slots[j] = rows[j - Len(d.slots)]
    BY <2>3, <2>4, SlotsAdded
  <2>7. \A j \in DOMAIN e.slots : j \notin DOMAIN d.slots => e.slots[j] \in NewRows
    BY <2>5, <2>6
  <2> QED BY <2>3, <2>6, <2>7 DEF e
<1> QED BY <1>2, <1>3, <1>4, FollowIs

(* A row of matches for slot i, and the slot that shows it.                *)
Shown(s, m, status) == [pair |-> s.pair, round |-> s.round, status |-> status, match |-> m]

RowAdded(d, e, i, row, st) ==
    /\ e \in Db /\ e.matches = Append(d.matches, row) /\ e.series = d.series
    /\ e.slots = [d.slots EXCEPT ![i] = Shown(d.slots[i], Len(d.matches) + 1, st)]
    /\ e.awards \subseteq d.awards \cup {Len(d.matches) + 1}
    /\ d.slots[i].match = 0 /\ row \in Match
    /\ row.pair = d.slots[i].pair /\ row.winner \in row.pair
    /\ row.status = "pending" => row.reported
    /\ st = "completed" \/ (st = "pending_approval" /\ row.reported /\ OpenSeries(d, i) = {})

LEMMA MatchAdded ==
  ASSUME NEW d, Books(d), NEW i \in DOMAIN d.slots, NEW row, NEW st, NEW e,
         RowAdded(d, e, i, row, st)
  PROVE  /\ Books(e) /\ Grows(d, e) /\ Len(e.matches) = Len(d.matches) + 1
         /\ DOMAIN e.slots = DOMAIN d.slots
         /\ e.matches[Len(d.matches) + 1] = row
         /\ \A m \in DOMAIN d.matches : m \in DOMAIN e.matches /\ m # Len(d.matches) + 1
                                        /\ e.matches[m] = d.matches[m]
         /\ \A m \in DOMAIN e.matches : m \in DOMAIN d.matches \/ m = Len(d.matches) + 1
<1> USE DEF RowAdded
<1> DEFINE n == Len(d.matches)
<1>1. /\ d \in Db /\ LinksFit(d) /\ \A k \in DOMAIN d.series : SeriesFits(d, k)
  BY DEF Books
<1>2. d.matches \in Seq(Match) /\ n \in Nat /\ DOMAIN d.matches = 1..n /\ d.slots \in Seq(Slot)
  BY <1>1 DEF Db
<1>3. /\ Len(e.matches) = n + 1 /\ e.matches[n + 1] = row /\ DOMAIN e.matches = 1..(n + 1)
      /\ \A m \in 1..n : e.matches[m] = d.matches[m]
  BY <1>2
<1>4. \A m \in DOMAIN e.matches : m \in DOMAIN d.matches \/ m = n + 1
  BY <1>2, <1>3
<1>5. \A m \in DOMAIN d.matches : m \in DOMAIN e.matches /\ m # n + 1 /\ e.matches[m] = d.matches[m]
  BY <1>2, <1>3
<1>6. n + 1 \in DOMAIN e.matches /\ n + 1 # 0
  BY <1>2, <1>3
<1>7. /\ DOMAIN e.slots = DOMAIN d.slots /\ e.slots[i] = Shown(d.slots[i], n + 1, st)
      /\ \A j \in DOMAIN d.slots : j # i => e.slots[j] = d.slots[j]
  OBVIOUS
<1> HIDE DEF n
<1>8. ASSUME NEW j \in DOMAIN e.slots PROVE SlotFits(e, e.slots[j])
  <2>1. SlotFits(d, d.slots[j])
    BY <1>1, <1>7 DEF LinksFit
  <2>2. CASE j = i
    BY <1>3, <1>6, <1>7, <2>1, <2>2 DEF SlotFits, Shown
  <2>3. CASE j # i
    <3>1. d.slots[j].match # 0 => e.matches[d.slots[j].match] = d.matches[d.slots[j].match]
                                 /\ d.slots[j].match \in DOMAIN e.matches
      BY <1>5, <2>1 DEF SlotFits
    <3>2. e.slots[j] = d.slots[j]
      BY <1>7, <2>3
    <3> QED BY <2>1, <3>1, <3>2 DEF SlotFits
  <2> QED BY <2>2, <2>3
<1>9. \A j \in DOMAIN d.slots : d.slots[j].match # n + 1
  BY <1>1, <1>5, <1>6 DEF LinksFit, SlotFits
<1>10. ASSUME NEW j \in DOMAIN e.slots, NEW l \in DOMAIN e.slots,
              e.slots[j].match # 0, e.slots[j].match = e.slots[l].match
       PROVE  j = l
  BY <1>1, <1>7, <1>9, <1>10 DEF LinksFit, Shown
<1>11. LinksFit(e)
  <2>1. \A m \in DOMAIN e.matches : /\ e.matches[m].winner \in e.matches[m].pair
                                    /\ e.matches[m].status = "pending" => e.matches[m].reported
    BY <1>1, <1>3, <1>4, <1>5 DEF LinksFit
  <2>2. e.awards \subseteq DOMAIN e.matches
    BY <1>1, <1>5, <1>6 DEF LinksFit, n
  <2> QED BY <1>8, <1>10, <2>1, <2>2 DEF LinksFit
<1>12. Grows(d, e)
  <2>1. Len(e.slots) = Len(d.slots)
    BY <1>1, <1>7 DEF Db
  <2>2. \A j \in DOMAIN d.slots : e.slots[j].pair = d.slots[j].pair /\ e.slots[j].round = d.slots[j].round
    BY <1>7 DEF Shown
  <2>3. Len(d.slots) \in Nat
    BY <1>2
  <2> QED BY <1>2, <1>3, <1>5, <2>1, <2>2, <2>3 DEF Grows, n
<1>13. ASSUME NEW k \in DOMAIN e.series PROVE SeriesFits(e, k)
  <2>1. SeriesFits(d, k) /\ d.series[k] \in Series
    BY <1>1 DEF Db
  <2>2. d.series[k].mark <= Len(e.matches)
    BY <1>2, <1>3, <2>1 DEF SeriesFits, n, Series
  <2>3. d.series[k].match # 0 => d.series[k].match \in DOMAIN e.matches
                                /\ e.matches[d.series[k].match].winner = d.series[k].winner
    BY <1>5, <2>1 DEF SeriesFits
  <2>4. d.series[k].slot \in DOMAIN e.slots /\ e.slots[d.series[k].slot].pair = d.slots[d.series[k].slot].pair
    BY <1>7, <2>1 DEF SeriesFits, Shown
  <2>5. d.series[k].status = "open" => e.slots[d.series[k].slot].status # "pending_approval"
    <3>1. CASE d.series[k].slot = i
      BY <1>7, <3>1 DEF OpenSeries, Shown
    <3>2. CASE d.series[k].slot # i
      BY <1>7, <2>1, <3>2 DEF SeriesFits
    <3> QED BY <3>1, <3>2
  <2> QED BY <2>1, <2>2, <2>3, <2>4, <2>5 DEF SeriesFits
<1> QED BY <1>3, <1>4, <1>5, <1>7, <1>11, <1>12, <1>13 DEF Books, n

(* recordConfirmedResult: an approved result that nobody reported.         *)
Result(d, i, w) == [pair |-> d.slots[i].pair, winner |-> w, status |-> "approved",
                    reported |-> FALSE]
Linked(d, i, w) ==
    Completed([d EXCEPT !.matches = Append(@, Result(d, i, w)),
                        !.slots[i].match = Len(d.matches) + 1], i)

(* A slot that shows another match. *)
LEMMA SlotWithMatch ==
  ASSUME NEW q \in Slot, NEW n
  PROVE  [q EXCEPT !.match = n] = [pair |-> q.pair, round |-> q.round, status |-> q.status,
                                   match |-> n]
BY DEF Slot

LEMMA LinkedIs ==
  ASSUME event \in Events, NEW d, Books(d), NEW i \in DOMAIN d.slots, NEW w \in d.slots[i].pair
  PROVE  LET e == Linked(d, i, w)
         IN  /\ e \in Db /\ e.matches = Append(d.matches, Result(d, i, w)) /\ e.series = d.series
             /\ e.slots = [d.slots EXCEPT ![i] = Shown(d.slots[i], Len(d.matches) + 1, "completed")]
             /\ e.awards = d.awards /\ e.status = d.status /\ e.places = d.places
             /\ Result(d, i, w) \in Match
<1> DEFINE n == Len(d.matches) + 1
           row == Result(d, i, w)
           more == Append(d.matches, row)
           slots == [d.slots EXCEPT ![i] = [d.slots[i] EXCEPT !.match = n]]
           e == Linked(d, i, w)
<1>1. d \in Db /\ d.slots \in Seq(Slot) /\ d.matches \in Seq(Match) /\ d.slots[i] \in Slot
  BY DEF Books, Db
<1>2. row \in Match
  BY <1>1 DEF Match, Slot, Result
<1>3. n \in Nat /\ more \in Seq(Match)
  BY <1>1, <1>2
<1>4. [d.slots[i] EXCEPT !.match = n] = [pair |-> d.slots[i].pair, round |-> d.slots[i].round,
                                         status |-> d.slots[i].status, match |-> n]
  BY <1>1, SlotWithMatch
<1>5. slots \in Seq(Slot) /\ DOMAIN slots = DOMAIN d.slots
      /\ slots[i] = [d.slots[i] EXCEPT !.match = n]
  BY <1>1, <1>3, <1>4 DEF Slot
<1> DEFINE f == [d EXCEPT !.matches = more, !.slots = slots]
<1> HIDE DEF row, n
<1>6. e = Completed(f, i)
  BY DEF Linked, row, n
<1>7. f \in Db /\ f.slots = slots /\ f.matches = more /\ f.series = d.series /\ f.awards = d.awards
      /\ f.status = d.status /\ f.places = d.places
  <2> HIDE DEF more, slots
  <2> QED BY <1>1, <1>3, <1>5 DEF Db
<1> HIDE DEF f, more
<1>8. [slots[i] EXCEPT !.status = "completed"] = Shown(d.slots[i], n, "completed")
  BY <1>4, <1>5 DEF Shown
<1>9. Shown(d.slots[i], n, "completed") \in Slot
  BY <1>1, <1>3 DEF Shown, Slot
<1> DEFINE done == [d.slots EXCEPT ![i] = Shown(d.slots[i], n, "completed")]
<1>10. done \in Seq(Slot)
  BY <1>1, <1>9
<1>11. done = [slots EXCEPT ![i].status = "completed"]
  BY <1>1, <1>5, <1>8
<1> HIDE DEF slots, done
<1>12. e = [f EXCEPT !.slots = done]
  BY <1>6, <1>7, <1>11 DEF Completed
<1>13. e \in Db /\ e.slots = done /\ e.matches = more /\ e.series = d.series /\ e.awards = d.awards
       /\ e.status = d.status /\ e.places = d.places
  BY <1>7, <1>10, <1>12 DEF Db
<1> QED BY <1>2, <1>13 DEF more, done, row, n

LEMMA ConfirmedIs ==
  ASSUME event \in Events, NEW d, Books(d), NEW i \in DOMAIN d.slots, NEW w \in d.slots[i].pair,
         NEW e \in Confirmed(d, i, w)
  PROVE  LET n == Len(d.matches) + 1
         IN  /\ d.slots[i].status # "completed" /\ d.slots[i].match = 0
             /\ Books(e) /\ Grows(d, e) /\ e.series = d.series /\ e.awards = d.awards \cup {n}
             /\ n \in Nat /\ n # 0 /\ Len(e.matches) = n /\ e.matches[n] = Result(d, i, w)
             /\ \A m \in DOMAIN d.matches : m \in DOMAIN e.matches /\ m # n /\ e.matches[m] = d.matches[m]
             /\ \A m \in DOMAIN e.matches : m \in DOMAIN d.matches \/ m = n
             /\ e.slots[i] = Shown(d.slots[i], n, "completed")
             /\ \A j \in DOMAIN d.slots : j \in DOMAIN e.slots /\ (j # i => e.slots[j] = d.slots[j])
             /\ \A j \in DOMAIN e.slots : j \notin DOMAIN d.slots => e.slots[j] \in NewRows
<1> DEFINE n == Len(d.matches) + 1
           c == Linked(d, i, w)
           a == Advanced(c, i)
<1>1. d.slots[i].status # "completed" /\ d.slots[i].match = 0 /\ e = Scored(a, n)
  BY DEF Confirmed, Linked, Result
<1>2. /\ c \in Db /\ c.matches = Append(d.matches, Result(d, i, w)) /\ c.series = d.series
      /\ c.slots = [d.slots EXCEPT ![i] = Shown(d.slots[i], n, "completed")]
      /\ c.awards = d.awards /\ Result(d, i, w) \in Match
  BY LinkedIs
<1>3. d \in Db /\ d.matches \in Seq(Match) /\ n \in Nat /\ n # 0
  <2>1. d \in Db /\ d.matches \in Seq(Match)
    BY DEF Books, Db
  <2> QED BY <2>1
<1> HIDE DEF c
<1>4. /\ Books(c) /\ Grows(d, c) /\ Len(c.matches) = n /\ DOMAIN c.slots = DOMAIN d.slots
      /\ c.matches[n] = Result(d, i, w)
      /\ \A m \in DOMAIN d.matches : m \in DOMAIN c.matches /\ m # n /\ c.matches[m] = d.matches[m]
      /\ \A m \in DOMAIN c.matches : m \in DOMAIN d.matches \/ m = n
  <2> DEFINE row == Result(d, i, w)
  <2>1. row.pair = d.slots[i].pair /\ row.winner \in row.pair /\ row.status # "pending"
    BY DEF Result
  <2>2. RowAdded(d, c, i, row, "completed")
    <3>1. row \in Match
      BY <1>2
    <3> HIDE DEF row
    <3> QED BY <1>1, <1>2, <2>1, <3>1 DEF RowAdded, row
  <2>3. /\ Books(c) /\ Grows(d, c) /\ Len(c.matches) = n /\ DOMAIN c.slots = DOMAIN d.slots
        /\ c.matches[n] = row
        /\ \A m \in DOMAIN d.matches : m \in DOMAIN c.matches /\ m # n /\ c.matches[m] = d.matches[m]
        /\ \A m \in DOMAIN c.matches : m \in DOMAIN d.matches \/ m = n
    <3> HIDE DEF row
    <3> QED BY <2>2, MatchAdded
  <2> QED BY <2>3
<1>5. /\ Books(a) /\ Grows(c, a) /\ a.matches = c.matches /\ a.series = c.series /\ a.awards = c.awards
      /\ \A j \in DOMAIN c.slots : j \in DOMAIN a.slots /\ a.slots[j] = c.slots[j]
      /\ \A j \in DOMAIN a.slots : j \notin DOMAIN c.slots => a.slots[j] \in NewRows
  BY <1>4, AdvancedIs
<1> HIDE DEF a
<1>6. e = [a EXCEPT !.awards = a.awards \cup {n}]
  BY <1>1, <1>4, <1>5 DEF Scored, Approved, Result
<1>7. /\ e \in Db /\ e.slots = a.slots /\ e.matches = a.matches /\ e.series = a.series
      /\ e.awards = d.awards \cup {n}
  <2>1. a \in Db
    BY <1>5 DEF Books
  <2>2. a.awards \cup {n} \in SUBSET Nat
    BY <2>1, <1>3 DEF Db
  <2> HIDE DEF n
  <2>3. /\ e \in Db /\ e.slots = a.slots /\ e.matches = a.matches /\ e.series = a.series
        /\ e.awards = a.awards \cup {n}
    BY <1>6, <2>1, <2>2 DEF Db
  <2> QED BY <2>3, <1>2, <1>5
<1>8. e.awards \subseteq DOMAIN a.matches
  <2>1. n \in DOMAIN c.matches
    <3>1. DOMAIN c.matches = 1..Len(c.matches)
      BY <1>2 DEF Db
    <3> QED BY <3>1, <1>3, <1>4
  <2> HIDE DEF n
  <2> QED BY <2>1, <1>2, <1>4, <1>5, <1>7 DEF Books, LinksFit
<1>9. Books(e) /\ Grows(a, e)
  <2> HIDE DEF n
  <2> QED BY <1>5, <1>7, <1>8, RowsStay
<1>10. Grows(d, e)
  <2>1. Len(d.slots) \in Nat /\ Len(c.slots) \in Nat /\ Len(a.slots) \in Nat /\ Len(e.slots) \in Nat
        /\ Len(d.matches) \in Nat /\ Len(c.matches) \in Nat
        /\ DOMAIN d.slots = 1..Len(d.slots) /\ DOMAIN c.slots = 1..Len(c.slots) /\ DOMAIN a.slots = 1..Len(a.slots)
    BY <1>2, <1>3, <1>5, <1>7 DEF Books, Db
  <2> QED BY <2>1, <1>4, <1>5, <1>7, <1>9 DEF Grows
<1>11. c.slots[i] = Shown(d.slots[i], n, "completed") /\ \A j \in DOMAIN d.slots : j # i => c.slots[j] = d.slots[j]
  BY <1>2
<1> HIDE DEF n
<1> QED BY <1>1, <1>2, <1>3, <1>4, <1>5, <1>7, <1>9, <1>10, <1>11 DEF n

(* Matches decided otherwise.                                              *)
Redecided(d, e) ==
    /\ e \in Db /\ e.slots = d.slots /\ e.series = d.series /\ e.awards \subseteq d.awards
    /\ DOMAIN e.matches = DOMAIN d.matches
    /\ \A m \in DOMAIN d.matches :
          /\ e.matches[m].pair = d.matches[m].pair /\ e.matches[m].winner = d.matches[m].winner
          /\ e.matches[m].reported = d.matches[m].reported
          /\ e.matches[m].status = "pending" => d.matches[m].status = "pending"

LEMMA RedecidedFits ==
  ASSUME NEW d, Books(d), NEW e, Redecided(d, e)
  PROVE  Books(e) /\ Grows(d, e)
<1>1. /\ d \in Db /\ LinksFit(d) /\ \A k \in DOMAIN d.series : SeriesFits(d, k)
  BY DEF Books
<1>2. Len(d.matches) \in Nat /\ Len(e.matches) = Len(d.matches) /\ Len(d.slots) \in Nat
  <2>1. d.matches \in Seq(Match) /\ e.matches \in Seq(Match) /\ d.slots \in Seq(Slot)
    BY <1>1 DEF Db, Redecided
  <2> QED BY <2>1 DEF Redecided
<1>3. LinksFit(e)
  BY <1>1 DEF LinksFit, SlotFits, Redecided
<1>4. ASSUME NEW k \in DOMAIN e.series PROVE SeriesFits(e, k)
  <2>1. SeriesFits(d, k)
    BY <1>1 DEF Redecided
  <2> QED BY <1>2, <2>1 DEF SeriesFits, Redecided
<1>5. Grows(d, e)
  BY <1>2 DEF Grows, Redecided
<1> QED BY <1>3, <1>4, <1>5 DEF Books, Redecided

Redone(d, m, st) == [d EXCEPT !.matches[m].status = st]

LEMMA DecidedIs ==
  ASSUME NEW d, Books(d), NEW m \in DOMAIN d.matches, NEW st \in {"approved", "denied"}
  PROVE  LET e == Redone(d, m, st)
         IN  /\ Redecided(d, e) /\ e.awards = d.awards /\ e.status = d.status /\ e.places = d.places
             /\ e.matches[m].status = st
             /\ \A n \in DOMAIN d.matches : n # m => e.matches[n] = d.matches[n]
<1> DEFINE row == [pair |-> d.matches[m].pair, winner |-> d.matches[m].winner,
                   reported |-> d.matches[m].reported, status |-> st]
           f == [d.matches EXCEPT ![m] = row]
           e == [d EXCEPT !.matches = f]
<1>1. d \in Db /\ d.matches \in Seq(Match) /\ d.matches[m] \in Match
  BY DEF Books, Db
<1>2. row \in Match /\ [d.matches[m] EXCEPT !.status = st] = row
  BY <1>1 DEF Match
<1> HIDE DEF row
<1>3. f \in Seq(Match) /\ DOMAIN f = DOMAIN d.matches /\ f[m] = row
      /\ \A n \in DOMAIN d.matches : n # m => f[n] = d.matches[n]
  BY <1>1, <1>2
<1>4. Redone(d, m, st) = e
  BY <1>2 DEF Redone
<1> HIDE DEF f
<1>5. e \in Db /\ e.matches = f /\ e.slots = d.slots /\ e.series = d.series /\ e.awards = d.awards
      /\ e.status = d.status /\ e.places = d.places
  BY <1>1, <1>3 DEF Db
<1> HIDE DEF e
<1>6. \A n \in DOMAIN d.matches :
         /\ f[n].pair = d.matches[n].pair /\ f[n].winner = d.matches[n].winner
         /\ f[n].reported = d.matches[n].reported
         /\ f[n].status = "pending" => d.matches[n].status = "pending"
  <2> SUFFICES ASSUME NEW n \in DOMAIN d.matches
               PROVE  /\ f[n].pair = d.matches[n].pair /\ f[n].winner = d.matches[n].winner
                      /\ f[n].reported = d.matches[n].reported
                      /\ f[n].status = "pending" => d.matches[n].status = "pending"
    OBVIOUS
  <2>1. CASE n = m
    BY <1>3, <2>1 DEF row
  <2>2. CASE n # m
    BY <1>3, <2>2
  <2> QED BY <2>1, <2>2
<1>7. Redecided(d, e)
  BY <1>3, <1>5, <1>6 DEF Redecided
<1>8. e.matches[m].status = st
  BY <1>3, <1>5 DEF row
<1> QED BY <1>3, <1>4, <1>5, <1>7, <1>8

(* Slots that become open again.                                           *)
SlotsFreed(d, e, S) ==
    /\ e \in Db /\ e.matches = d.matches /\ e.series = d.series /\ e.awards = d.awards
    /\ DOMAIN e.slots = DOMAIN d.slots
    /\ \A i \in DOMAIN d.slots : e.slots[i] = IF i \in S THEN Shown(d.slots[i], 0, "open") ELSE d.slots[i]

LEMMA FreedFits ==
  ASSUME NEW d, Books(d), NEW e, NEW S, SlotsFreed(d, e, S)
  PROVE  Books(e) /\ Grows(d, e)
<1>1. d \in Db /\ LinksFit(d) /\ d.slots \in Seq(Slot) /\ e.slots \in Seq(Slot)
      /\ Len(e.slots) = Len(d.slots) /\ Len(d.slots) \in Nat /\ Len(d.matches) \in Nat
  <2>1. d \in Db /\ LinksFit(d) /\ e \in Db /\ d.slots \in Seq(Slot) /\ e.slots \in Seq(Slot) /\ d.matches \in Seq(Match)
    BY DEF Books, Db, SlotsFreed
  <2> QED BY <2>1 DEF SlotsFreed
<1>2. Grows(d, e)
  <2>1. \A i \in DOMAIN d.slots : e.slots[i].pair = d.slots[i].pair /\ e.slots[i].round = d.slots[i].round
    <3> SUFFICES ASSUME NEW i \in DOMAIN d.slots
                 PROVE  e.slots[i].pair = d.slots[i].pair /\ e.slots[i].round = d.slots[i].round
      OBVIOUS
    <3>1. e.slots[i] = Shown(d.slots[i], 0, "open") \/ e.slots[i] = d.slots[i]
      BY DEF SlotsFreed
    <3> QED BY <3>1 DEF Shown
  <2> QED BY <1>1, <2>1 DEF Grows, SlotsFreed
<1>3. ASSUME NEW i \in DOMAIN e.slots, e.slots[i] # d.slots[i]
      PROVE  SlotFits(d, e.slots[i]) /\ e.slots[i].status # "pending_approval" /\ e.slots[i].match = 0
  <2>1. e.slots[i] = Shown(d.slots[i], 0, "open") /\ SlotFits(d, d.slots[i])
    BY <1>1, <1>3 DEF SlotsFreed, LinksFit
  <2> QED BY <2>1 DEF SlotFits, Shown
<1> QED BY <1>2, <1>3, SlotsChange DEF SlotsFreed

(* CompleteSlot.                                                           *)
LEMMA CompletedIs ==
  ASSUME NEW d, Books(d), NEW i \in DOMAIN d.slots
  PROVE  LET e == Completed(d, i)
         IN  /\ Books(e) /\ Grows(d, e) /\ e.matches = d.matches /\ e.series = d.series /\ e.awards = d.awards
             /\ e.status = d.status /\ e.places = d.places
             /\ DOMAIN e.slots = DOMAIN d.slots
             /\ e.slots[i] = Shown(d.slots[i], d.slots[i].match, "completed")
             /\ \A j \in DOMAIN d.slots : j # i => e.slots[j] = d.slots[j]
<1> DEFINE row == Shown(d.slots[i], d.slots[i].match, "completed")
           f == [d.slots EXCEPT ![i] = row]
           e == [d EXCEPT !.slots = f]
<1>1. d \in Db /\ d.slots \in Seq(Slot) /\ d.slots[i] \in Slot /\ SlotFits(d, d.slots[i])
      /\ Len(d.slots) \in Nat /\ Len(d.matches) \in Nat
  <2>1. d \in Db /\ d.slots \in Seq(Slot) /\ d.slots[i] \in Slot /\ d.matches \in Seq(Match)
    BY DEF Books, Db
  <2> QED BY <2>1 DEF Books, LinksFit
<1>2. row \in Slot /\ [d.slots[i] EXCEPT !.status = "completed"] = row
  BY <1>1 DEF Slot, Shown
<1>3. SlotFits(d, row) /\ row.status # "pending_approval" /\ row.match = d.slots[i].match
      /\ row.pair = d.slots[i].pair /\ row.round = d.slots[i].round
  BY <1>1 DEF SlotFits, Shown
<1>4. Completed(d, i) = e
  BY <1>2 DEF Completed
<1> HIDE DEF row
<1>5. f \in Seq(Slot) /\ DOMAIN f = DOMAIN d.slots /\ f[i] = row /\ Len(f) = Len(d.slots)
      /\ \A j \in DOMAIN d.slots : j # i => f[j] = d.slots[j]
  BY <1>1, <1>2
<1> HIDE DEF f
<1>6. e \in Db /\ e.slots = f /\ e.matches = d.matches /\ e.series = d.series /\ e.awards = d.awards
      /\ e.status = d.status /\ e.places = d.places
  BY <1>1, <1>5 DEF Db
<1> HIDE DEF e
<1>7. Grows(d, e)
  BY <1>1, <1>3, <1>5, <1>6 DEF Grows
<1>8. Books(e)
  BY <1>3, <1>5, <1>6, <1>7, SlotsChange
<1> QED BY <1>4, <1>5, <1>6, <1>7, <1>8 DEF row

(* Series that go on, end or are recorded.                                 *)
SeriesMoved(d, e) ==
    /\ e \in Db /\ e.slots = d.slots /\ e.matches = d.matches /\ e.awards = d.awards
    /\ DOMAIN e.series = DOMAIN d.series
    /\ \A k \in DOMAIN d.series :
          LET s == d.series[k]
              t == e.series[k]
          IN  /\ t.slot = s.slot /\ t.mark <= Len(d.matches)
              /\ t.status = "open" => t = s
              /\ t.match # 0 => t.match \in DOMAIN d.matches /\ d.matches[t.match].winner = t.winner
              /\ t.status = "completed" => t.winner \in d.slots[s.slot].pair

LEMMA MovedFits ==
  ASSUME NEW d, Books(d), NEW e, SeriesMoved(d, e)
  PROVE  Books(e) /\ Grows(d, e)
<1>1. /\ d \in Db /\ LinksFit(d) /\ \A k \in DOMAIN d.series : SeriesFits(d, k)
  BY DEF Books
<1>2. Len(d.matches) \in Nat /\ Len(d.slots) \in Nat
  <2>1. d.matches \in Seq(Match) /\ d.slots \in Seq(Slot)
    BY <1>1 DEF Db
  <2> QED BY <2>1
<1>3. LinksFit(e)
  BY <1>1 DEF LinksFit, SlotFits, SeriesMoved
<1>4. ASSUME NEW k \in DOMAIN e.series PROVE SeriesFits(e, k)
  BY <1>1 DEF SeriesFits, SeriesMoved
<1>5. Grows(d, e)
  BY <1>2 DEF Grows, SeriesMoved
<1> QED BY <1>3, <1>4, <1>5 DEF Books, SeriesMoved

LEMMA SeriesOf ==
  ASSUME NEW d, Books(d), NEW k \in DOMAIN d.series
  PROVE  /\ d.series \in Seq(Series) /\ d.series[k] \in Series /\ d.series[k].slot \in DOMAIN d.slots
         /\ d.series[k].mark <= Len(d.matches)
         /\ d.series[k].match # 0 => d.series[k].match \in DOMAIN d.matches
               /\ d.matches[d.series[k].match].winner = d.series[k].winner
         /\ d.series[k].status = "completed" => d.series[k].winner \in d.slots[d.series[k].slot].pair
         /\ d.series[k].status = "open" => d.series[k].match = 0
         /\ d.series[k].slot \in Nat /\ d.series[k].match \in Nat /\ d.series[k].mark \in Nat
<1>1. d \in Db /\ SeriesFits(d, k)
  BY DEF Books
<1>2. d.series \in Seq(Series) /\ d.series[k] \in Series
  BY <1>1 DEF Db
<1> QED BY <1>1, <1>2 DEF SeriesFits, Series

(* A series with other status, winner, match and mark.                     *)
Now(s, status, winner, match, mark) ==
    [slot |-> s.slot, status |-> status, winner |-> winner, match |-> match, mark |-> mark]

SeriesSet(d, e, k, status, winner, match, mark) ==
    /\ e = [d EXCEPT !.series = [d.series EXCEPT ![k] = Now(d.series[k], status, winner, match, mark)]]
    /\ status \in {"completed", "cancelled"} /\ winner \in Players \cup {Nobody}
    /\ match \in Nat /\ mark \in Nat /\ mark <= Len(d.matches)
    /\ match # 0 => match \in DOMAIN d.matches /\ d.matches[match].winner = winner
    /\ status = "completed" => winner \in d.slots[d.series[k].slot].pair

LEMMA OneSeriesMoved ==
  ASSUME NEW d, Books(d), NEW k \in DOMAIN d.series, NEW e, NEW status, NEW winner,
         NEW match, NEW mark, SeriesSet(d, e, k, status, winner, match, mark)
  PROVE  /\ SeriesMoved(d, e) /\ e.status = d.status /\ e.places = d.places
         /\ e.series[k] = Now(d.series[k], status, winner, match, mark)
         /\ \A l \in DOMAIN d.series : l # k => e.series[l] = d.series[l]
<1> USE DEF SeriesSet
<1> DEFINE row == Now(d.series[k], status, winner, match, mark)
           f == [d.series EXCEPT ![k] = row]
<1>1. d \in Db /\ d.series \in Seq(Series) /\ d.series[k] \in Series
  BY SeriesOf DEF Books
<1>2. row \in Series
  BY <1>1 DEF Now, Series
<1>3. row.slot = d.series[k].slot /\ row.mark = mark /\ row.status = status /\ row.match = match
      /\ row.winner = winner
  BY DEF Now
<1> HIDE DEF row
<1>4. f \in Seq(Series) /\ DOMAIN f = DOMAIN d.series /\ f[k] = row
      /\ \A l \in DOMAIN d.series : l # k => f[l] = d.series[l]
  BY <1>1, <1>2
<1>5. e = [d EXCEPT !.series = f]
  BY DEF row
<1> HIDE DEF f
<1>6. e \in Db /\ e.slots = d.slots /\ e.matches = d.matches /\ e.awards = d.awards /\ e.series = f
      /\ e.status = d.status /\ e.places = d.places
  BY <1>1, <1>4, <1>5 DEF Db
<1>7. SeriesMoved(d, e)
  <2> SUFFICES ASSUME NEW l \in DOMAIN d.series
               PROVE  /\ f[l].slot = d.series[l].slot /\ f[l].mark <= Len(d.matches)
                      /\ f[l].status = "open" => f[l] = d.series[l]
                      /\ f[l].match # 0 => f[l].match \in DOMAIN d.matches /\ d.matches[f[l].match].winner = f[l].winner
                      /\ f[l].status = "completed" => f[l].winner \in d.slots[d.series[l].slot].pair
    BY <1>4, <1>6 DEF SeriesMoved
  <2>1. CASE l = k
    BY <1>3, <1>4, <2>1
  <2>2. CASE l # k
    BY <1>4, <2>2, SeriesOf
  <2> QED BY <2>1, <2>2
<1> QED BY <1>4, <1>6, <1>7 DEF row

LEMMA CancelledIs ==
  ASSUME NEW d, Books(d), NEW S
  PROVE  LET e == SeriesCancelled(d, S)
         IN  /\ SeriesMoved(d, e) /\ e.status = d.status /\ e.places = d.places
             /\ \A k \in DOMAIN d.series :
                   /\ d.series[k].status = "open" /\ d.series[k].slot \in S => e.series[k].status = "cancelled"
                   /\ ~(d.series[k].status = "open" /\ d.series[k].slot \in S) => e.series[k] = d.series[k]
<1> DEFINE row(k) == [d.series[k] EXCEPT !.status = "cancelled"]
           f == [k \in DOMAIN d.series |->
                   IF d.series[k].status = "open" /\ d.series[k].slot \in S THEN row(k) ELSE d.series[k]]
           e == SeriesCancelled(d, S)
<1>1. d \in Db /\ d.series \in Seq(Series)
  BY DEF Books, Db
<1>2. e = [d EXCEPT !.series = f]
  BY DEF SeriesCancelled
<1>3. ASSUME NEW k \in DOMAIN d.series
      PROVE  /\ row(k) \in Series /\ row(k).slot = d.series[k].slot /\ row(k).mark = d.series[k].mark
             /\ row(k).status = "cancelled" /\ row(k).match = d.series[k].match /\ row(k).winner = d.series[k].winner
  <2>1. d.series[k] \in Series
    BY <1>1
  <2> QED BY <2>1 DEF Series
<1> HIDE DEF row
<1>4. f \in Seq(Series) /\ DOMAIN f = DOMAIN d.series
  <2>1. DOMAIN d.series = 1..Len(d.series) /\ Len(d.series) \in Nat /\ \A k \in DOMAIN d.series : d.series[k] \in Series
    BY <1>1
  <2>2. f \in [1..Len(d.series) -> Series]
    BY <1>3, <2>1
  <2> HIDE DEF f
  <2> QED BY <2>1, <2>2
<1>5. \A k \in DOMAIN d.series :
         f[k] = IF d.series[k].status = "open" /\ d.series[k].slot \in S THEN row(k) ELSE d.series[k]
  OBVIOUS
<1> HIDE DEF f, e
<1>6. e \in Db /\ e.slots = d.slots /\ e.matches = d.matches /\ e.awards = d.awards /\ e.series = f
      /\ e.status = d.status /\ e.places = d.places
  BY <1>1, <1>2, <1>4 DEF Db
<1>7. SeriesMoved(d, e)
  <2> SUFFICES ASSUME NEW l \in DOMAIN d.series
               PROVE  /\ f[l].slot = d.series[l].slot /\ f[l].mark <= Len(d.matches)
                      /\ f[l].status = "open" => f[l] = d.series[l]
                      /\ f[l].match # 0 => f[l].match \in DOMAIN d.matches /\ d.matches[f[l].match].winner = f[l].winner
                      /\ f[l].status = "completed" => f[l].winner \in d.slots[d.series[l].slot].pair
    BY <1>4, <1>6 DEF SeriesMoved
  <2> QED BY <1>3, <1>5, SeriesOf
<1> QED BY <1>3, <1>5, <1>6, <1>7 DEF e

(* A decided series and the result it records.                             *)
LEMMA RecordedIs ==
  ASSUME event \in Events, NEW d, Books(d), NEW k \in DOMAIN d.series,
         d.series[k].status = "completed", NEW e \in Recorded(d, k)
  PROVE  \E c \in Confirmed(d, d.series[k].slot, d.series[k].winner) :
            /\ Books(c) /\ Grows(d, c) /\ c.series = d.series
            /\ SeriesMoved(c, e) /\ e.status = c.status /\ e.places = c.places
            /\ e.series[k] = Now(d.series[k], "completed", d.series[k].winner, Len(c.matches), d.series[k].mark)
            /\ \A l \in DOMAIN d.series : l # k => e.series[l] = d.series[l]
<1> DEFINE s == d.series[k]
<1>1. PICK c \in Confirmed(d, s.slot, s.winner) : e = [c EXCEPT !.series[k].match = Len(c.matches)]
  BY DEF Recorded
<1>2. /\ d.series \in Seq(Series) /\ s \in Series /\ s.slot \in DOMAIN d.slots
      /\ s.winner \in d.slots[s.slot].pair /\ s.mark <= Len(d.matches) /\ s.mark \in Nat
  BY SeriesOf
<1>3. /\ Books(c) /\ Grows(d, c) /\ c.series = d.series /\ Len(c.matches) = Len(d.matches) + 1
      /\ c.matches[Len(d.matches) + 1] = Result(d, s.slot, s.winner)
  <2> HIDE DEF s
  <2> QED BY <1>1, <1>2, ConfirmedIs
<1>4. Len(d.matches) \in Nat /\ DOMAIN c.matches = 1..Len(c.matches)
  <2>1. d.matches \in Seq(Match) /\ c.matches \in Seq(Match)
    BY <1>3 DEF Books, Db
  <2> QED BY <2>1
<1>5. [s EXCEPT !.match = Len(c.matches)] = Now(s, "completed", s.winner, Len(c.matches), s.mark)
  BY <1>2 DEF Now, Series
<1>6. e = [c EXCEPT !.series = [c.series EXCEPT ![k] = Now(s, "completed", s.winner, Len(c.matches), s.mark)]]
  BY <1>1, <1>3, <1>5
<1>7. /\ Len(c.matches) \in Nat /\ Len(c.matches) \in DOMAIN c.matches /\ s.mark <= Len(c.matches)
      /\ c.matches[Len(c.matches)].winner = s.winner
  BY <1>2, <1>3, <1>4 DEF Result
<1>8. s.winner \in Players \cup {Nobody} /\ s.winner \in c.slots[s.slot].pair
  BY <1>2, <1>3 DEF Grows, Series
<1>9. c.series[k] = s /\ k \in DOMAIN c.series
  BY <1>3
<1> DEFINE n == Len(c.matches)
           w == s.winner
           mark == s.mark
<1>10. /\ n \in Nat /\ n \in DOMAIN c.matches /\ mark <= n /\ c.matches[n].winner = w /\ mark \in Nat
       /\ w \in Players \cup {Nobody} /\ w \in c.slots[c.series[k].slot].pair
       /\ e = [c EXCEPT !.series = [c.series EXCEPT ![k] = Now(c.series[k], "completed", w, n, mark)]]
  BY <1>2, <1>6, <1>7, <1>8, <1>9
<1> HIDE DEF n, w, mark, s
<1>11. /\ SeriesMoved(c, e) /\ e.status = c.status /\ e.places = c.places
       /\ e.series[k] = Now(c.series[k], "completed", w, n, mark)
       /\ \A l \in DOMAIN c.series : l # k => e.series[l] = c.series[l]
  <2>1. SeriesSet(c, e, k, "completed", w, n, mark)
    <3>1. n <= n
      BY <1>10
    <3> QED BY <1>10, <3>1 DEF SeriesSet, n
  <2> QED BY <1>3, <1>9, <2>1, OneSeriesMoved
<1> QED BY <1>1, <1>3, <1>9, <1>11 DEF n, w, mark, s

Started(d, i) ==
    [d EXCEPT !.series = Append(@, [slot |-> i, status |-> "open", winner |-> Nobody,
                                    match |-> 0, mark |-> 0])]

LEMMA StartedIs ==
  ASSUME event \in Events, NEW d, Books(d), NEW i \in DOMAIN d.slots, d.slots[i].status = "open",
         OpenSeries(d, i) = {}, NEW e, e = Started(d, i)
  PROVE  /\ Books(e) /\ Grows(d, e) /\ e.slots = d.slots /\ e.matches = d.matches /\ e.awards = d.awards
         /\ e.status = d.status /\ e.places = d.places
         /\ DOMAIN e.series = 1..(Len(d.series) + 1) /\ DOMAIN d.series = 1..Len(d.series) /\ Len(d.series) \in Nat
         /\ e.series[Len(d.series) + 1].slot = i /\ e.series[Len(d.series) + 1].status = "open"
         /\ \A k \in DOMAIN d.series : e.series[k] = d.series[k]
<1> DEFINE row == [slot |-> i, status |-> "open", winner |-> Nobody, match |-> 0, mark |-> 0]
           f == Append(d.series, row)
           n == Len(d.series)
<1>1. d \in Db /\ d.series \in Seq(Series) /\ n \in Nat /\ DOMAIN d.series = 1..n /\ i \in Nat
      /\ Len(d.matches) \in Nat /\ Len(d.slots) \in Nat
  <2>1. d \in Db /\ d.series \in Seq(Series) /\ d.slots \in Seq(Slot) /\ d.matches \in Seq(Match)
    BY DEF Books, Db
  <2> QED BY <2>1
<1>2. row \in Series
  BY <1>1 DEF Series
<1>3. row.slot = i /\ row.status = "open" /\ row.match = 0 /\ row.mark = 0
  OBVIOUS
<1> HIDE DEF row
<1>4. f \in Seq(Series) /\ DOMAIN f = 1..(n + 1) /\ f[n + 1] = row /\ \A k \in 1..n : f[k] = d.series[k]
  BY <1>1, <1>2
<1>5. e = [d EXCEPT !.series = f]
  BY DEF row, Started
<1> HIDE DEF f
<1>6. e \in Db /\ e.slots = d.slots /\ e.matches = d.matches /\ e.awards = d.awards /\ e.series = f
      /\ e.status = d.status /\ e.places = d.places
  BY <1>1, <1>4, <1>5 DEF Db
<1>7. LinksFit(e)
  BY <1>6 DEF Books, LinksFit, SlotFits
<1>8. ASSUME NEW k \in DOMAIN e.series PROVE SeriesFits(e, k)
  <2>1. CASE k = n + 1
    <3>1. e.series[k] = row /\ \A l \in DOMAIN e.series : ~(l > k)
      <4> HIDE DEF n
      <4>1. DOMAIN e.series = 1..(n + 1) /\ e.series[k] = row
        BY <1>4, <1>6, <2>1
      <4> QED BY <1>1, <2>1, <4>1
    <3> QED BY <1>1, <1>3, <1>6, <3>1 DEF SeriesFits
  <2>2. CASE k # n + 1
    <3>1. k \in 1..n /\ e.series[k] = d.series[k] /\ SeriesFits(d, k)
      BY <1>1, <1>4, <1>6, <2>2 DEF Books
    <3>2. d.series[k].status = "open" => d.series[k].slot # i
      BY <1>1, <3>1 DEF OpenSeries
    <3>3. \A l \in DOMAIN e.series : (l \in DOMAIN d.series /\ e.series[l] = d.series[l]) \/ e.series[l].slot = i
      <4> HIDE DEF n
      <4>1. DOMAIN e.series = 1..(n + 1) /\ e.series[n + 1] = row /\ \A l \in 1..n : e.series[l] = d.series[l]
        BY <1>4, <1>6
      <4>2. DOMAIN d.series = 1..n /\ n \in Nat /\ row.slot = i
        BY <1>1, <1>3
      <4> QED BY <4>1, <4>2
    <3> QED BY <1>1, <1>6, <3>1, <3>2, <3>3 DEF SeriesFits
  <2> QED BY <2>1, <2>2
<1>9. Grows(d, e)
  BY <1>1, <1>6 DEF Grows
<1> HIDE DEF n
<1> QED BY <1>1, <1>3, <1>4, <1>6, <1>7, <1>8, <1>9 DEF Books, n

(* A pairing that loses its match, which gets another verdict.             *)
Unlinked(d, i, st) ==
    [d EXCEPT !.matches[d.slots[i].match].status = st,
              !.slots[i].status = "open", !.slots[i].match = 0]

LEMMA UnlinkedIs ==
  ASSUME NEW d, Books(d), NEW i \in DOMAIN d.slots, d.slots[i].match # 0,
         NEW st \in {"approved", "denied"}
  PROVE  LET e == Unlinked(d, i, st)
             m == d.slots[i].match
         IN  /\ Books(e) /\ Grows(d, e) /\ e.series = d.series /\ e.awards = d.awards
             /\ e.status = d.status /\ e.places = d.places
             /\ DOMAIN e.slots = DOMAIN d.slots /\ e.slots[i] = Shown(d.slots[i], 0, "open")
             /\ \A j \in DOMAIN d.slots : j # i => e.slots[j] = d.slots[j]
             /\ DOMAIN e.matches = DOMAIN d.matches /\ m \in DOMAIN d.matches /\ e.matches[m].status = st
             /\ \A n \in DOMAIN d.matches : n # m => e.matches[n] = d.matches[n]
<1> DEFINE m == d.slots[i].match
           c == Redone(d, m, st)
           row == Shown(d.slots[i], 0, "open")
           f == [d.slots EXCEPT ![i] = row]
           e == [c EXCEPT !.slots = f]
<1>1. d \in Db /\ d.slots \in Seq(Slot) /\ d.matches \in Seq(Match) /\ d.slots[i] \in Slot /\ m \in DOMAIN d.matches
  BY DEF Books, Db, LinksFit, SlotFits
<1>2. /\ Redecided(d, c) /\ c.awards = d.awards /\ c.status = d.status /\ c.places = d.places
      /\ c.matches[m].status = st /\ \A n \in DOMAIN d.matches : n # m => c.matches[n] = d.matches[n]
  <2> HIDE DEF m
  <2> QED BY <1>1, DecidedIs
<1>3. row \in Slot /\ [[d.slots[i] EXCEPT !.status = "open"] EXCEPT !.match = 0] = row
  <2> DEFINE s == d.slots[i]
  <2>1. s \in Slot
    BY <1>1
  <2> HIDE DEF s
  <2>2. [s EXCEPT !.status = "open"] = [pair |-> s.pair, round |-> s.round, status |-> "open", match |-> s.match]
    BY <2>1 DEF Slot
  <2>3. [[s EXCEPT !.status = "open"] EXCEPT !.match = 0]
           = [pair |-> s.pair, round |-> s.round, status |-> "open", match |-> 0]
    <3> DEFINE t == [pair |-> s.pair, round |-> s.round, status |-> "open", match |-> s.match]
    <3>1. [t EXCEPT !.match = 0] = [pair |-> s.pair, round |-> s.round, status |-> "open", match |-> 0]
      OBVIOUS
    <3> HIDE DEF t
    <3>2. [s EXCEPT !.status = "open"] = t
      BY <2>2 DEF t
    <3> QED BY <3>1, <3>2
  <2>4. Shown(s, 0, "open") \in Slot
    BY <2>1 DEF Slot, Shown
  <2> QED BY <2>3, <2>4 DEF s, Shown
<1>4. f = [[d.slots EXCEPT ![i].status = "open"] EXCEPT ![i].match = 0]
  BY <1>1, <1>3
<1> HIDE DEF row
<1>5. f \in Seq(Slot) /\ DOMAIN f = DOMAIN d.slots /\ f[i] = row /\ \A j \in DOMAIN d.slots : j # i => f[j] = d.slots[j]
  BY <1>1, <1>3
<1> HIDE DEF f
<1>6. c \in Db /\ c.slots = d.slots /\ c.series = d.series
  BY <1>2 DEF Redecided
<1>7. Unlinked(d, i, st) = e
  <2> DEFINE g == [d.matches EXCEPT ![m].status = st]
  <2>1. c = [d EXCEPT !.matches = g]
    BY DEF Redone
  <2>2. Unlinked(d, i, st) = [[[d EXCEPT !.matches = g] EXCEPT !.slots = [@ EXCEPT ![i].status = "open"]]
                                EXCEPT !.slots = [@ EXCEPT ![i].match = 0]]
    BY DEF Unlinked
  <2> HIDE DEF c, g
  <2>3. Unlinked(d, i, st) = [[c EXCEPT !.slots = [d.slots EXCEPT ![i].status = "open"]]
                                EXCEPT !.slots = [@ EXCEPT ![i].match = 0]]
    BY <1>6, <2>1, <2>2
  <2> DEFINE h == [d.slots EXCEPT ![i].status = "open"]
  <2>4. [c EXCEPT !.slots = h].slots = h
    BY <1>6 DEF Db
  <2>5. f = [h EXCEPT ![i].match = 0]
    BY <1>4
  <2> HIDE DEF h
  <2>6. Unlinked(d, i, st) = [[c EXCEPT !.slots = h] EXCEPT !.slots = f]
    BY <2>3, <2>4, <2>5 DEF h
  <2> QED BY <1>6, <2>6 DEF Db
<1> HIDE DEF c
<1>8. e \in Db /\ e.slots = f /\ e.matches = c.matches /\ e.series = c.series /\ e.awards = c.awards
      /\ e.status = c.status /\ e.places = c.places
  BY <1>5, <1>6 DEF Db
<1> HIDE DEF e
<1>9. SlotsFreed(c, e, {i})
  BY <1>5, <1>6, <1>8 DEF SlotsFreed, row
<1>10. Books(c) /\ Grows(d, c) /\ Books(e) /\ Grows(c, e)
  BY <1>2, <1>9, RedecidedFits, FreedFits
<1>11. Grows(d, e)
  <2>1. DOMAIN c.matches = DOMAIN d.matches
    BY <1>2 DEF Redecided
  <2>2. Len(d.slots) \in Nat /\ Len(c.slots) \in Nat /\ Len(e.slots) \in Nat
        /\ Len(d.matches) \in Nat /\ Len(c.matches) \in Nat /\ Len(e.matches) \in Nat
    BY <1>1, <1>6, <1>8 DEF Db
  <2> QED BY <1>6, <1>10, <2>1, <2>2 DEF Grows
<1> QED BY <1>1, <1>2, <1>5, <1>6, <1>7, <1>8, <1>10, <1>11 DEF Redecided, row

(* What setResultByOrganizer and reopenTournamentMatch clear away.         *)
Cleared(d, i) ==
    LET held == d.slots[i].status = "pending_approval" /\ d.slots[i].match # 0
        m == d.slots[i].match
        idle == SeriesCancelled(d, {i})
    IN  IF ~held THEN idle
        ELSE [idle EXCEPT
                !.matches[m].status = IF @ = "pending" THEN "denied" ELSE @,
                !.slots[i].status = "open", !.slots[i].match = 0]

Verdict(d, m) == IF d.matches[m].status = "pending" THEN "denied" ELSE d.matches[m].status

LEMMA ClearedIs ==
  ASSUME NEW d, Books(d), NEW i \in DOMAIN d.slots, d.slots[i].status \in {"open", "pending_approval"}
  PROVE  LET e == Cleared(d, i)
             m == d.slots[i].match
         IN  /\ Books(e) /\ Grows(d, e) /\ e.series = SeriesCancelled(d, {i}).series /\ e.awards = d.awards
             /\ e.status = d.status /\ e.places = d.places
             /\ DOMAIN e.slots = DOMAIN d.slots /\ e.slots[i] = Shown(d.slots[i], 0, "open")
             /\ \A j \in DOMAIN d.slots : j # i => e.slots[j] = d.slots[j]
             /\ DOMAIN e.matches = DOMAIN d.matches
             /\ m # 0 => m \in DOMAIN d.matches /\ e.matches[m].status = Verdict(d, m)
                         /\ d.slots[i].status = "pending_approval"
             /\ \A n \in DOMAIN d.matches : n # m => e.matches[n] = d.matches[n]
<1> DEFINE m == d.slots[i].match
           c == SeriesCancelled(d, {i})
           e == Cleared(d, i)
           S == {i}
<1>1. /\ SeriesMoved(d, c) /\ c.status = d.status /\ c.places = d.places /\ Books(c) /\ Grows(d, c)
  <2> HIDE DEF S
  <2>1. SeriesMoved(d, SeriesCancelled(d, S)) /\ SeriesCancelled(d, S).status = d.status
        /\ SeriesCancelled(d, S).places = d.places
    BY CancelledIs
  <2>2. Books(SeriesCancelled(d, S)) /\ Grows(d, SeriesCancelled(d, S))
    BY <2>1, MovedFits
  <2> QED BY <2>1, <2>2 DEF S
<1>2. c.slots = d.slots /\ c.matches = d.matches /\ c.awards = d.awards
  BY <1>1 DEF SeriesMoved
<1>3. d.slots[i] \in Slot /\ SlotFits(d, d.slots[i]) /\ d.matches \in Seq(Match)
  BY DEF Books, Db, LinksFit
<1> HIDE DEF c
<1>4. CASE d.slots[i].status = "open"
  <2>1. e = c /\ m = 0
    BY <1>3, <1>4 DEF Cleared, SlotFits, c
  <2>2. d.slots[i] = Shown(d.slots[i], 0, "open")
    BY <1>3, <1>4, <2>1 DEF Shown, Slot
  <2> HIDE DEF e
  <2> QED BY <1>1, <1>2, <2>1, <2>2 DEF e, c
<1>5. CASE d.slots[i].status = "pending_approval"
  <2> DEFINE st == Verdict(d, m)
  <2>1. m # 0 /\ m \in DOMAIN d.matches
    BY <1>3, <1>5 DEF SlotFits
  <2>2. st \in {"approved", "denied"}
    <3>1. d.matches[m] \in Match
      BY <1>3, <2>1
    <3> QED BY <3>1 DEF Match, Verdict
  <2>3. e = Unlinked(c, i, st)
    <3>1. e = [c EXCEPT !.matches[m].status = IF @ = "pending" THEN "denied" ELSE @,
                        !.slots[i].status = "open", !.slots[i].match = 0]
      BY <1>5, <2>1 DEF Cleared, c
    <3>2. c.matches[m].status = d.matches[m].status /\ c.slots[i].match = m
      BY <1>2
    <3> QED BY <1>2, <3>1, <3>2 DEF Unlinked, Verdict
  <2> HIDE DEF st
  <2>4. /\ Books(Unlinked(c, i, st)) /\ Grows(c, Unlinked(c, i, st))
        /\ LET u == Unlinked(c, i, st)
           IN  /\ u.series = c.series /\ u.awards = c.awards /\ u.status = c.status /\ u.places = c.places
               /\ DOMAIN u.slots = DOMAIN c.slots /\ u.slots[i] = Shown(c.slots[i], 0, "open")
               /\ \A j \in DOMAIN c.slots : j # i => u.slots[j] = c.slots[j]
               /\ DOMAIN u.matches = DOMAIN c.matches /\ u.matches[m].status = st
               /\ \A n \in DOMAIN c.matches : n # m => u.matches[n] = c.matches[n]
    BY <1>1, <1>2, <2>1, <2>2, UnlinkedIs
  <2> HIDE DEF e, m
  <2>5. Grows(d, e)
    <3>1. Len(d.slots) \in Nat /\ Len(c.slots) \in Nat /\ Len(e.slots) \in Nat
          /\ Len(d.matches) \in Nat /\ Len(c.matches) \in Nat /\ Len(e.matches) \in Nat
      BY <1>1, <2>3, <2>4 DEF Books, Db
    <3> QED BY <1>1, <1>2, <2>3, <2>4, <3>1 DEF Grows
  <2> QED BY <1>1, <1>2, <1>5, <2>1, <2>3, <2>4, <2>5 DEF e, m, st, c
<1> QED BY <1>4, <1>5

Reopened(d, i) ==
    LET m == d.slots[i].match
        open == [d EXCEPT !.matches[m].status = "denied",
                          !.slots[i].status = "open", !.slots[i].match = 0,
                          !.status = IF @ = "completed" THEN "active" ELSE @]
    IN  IF Approved(d, m) \/ m \in d.awards
        THEN [open EXCEPT !.awards = {a \in @ : Approved(open, a)}, !.places = NoPlaces]
        ELSE open

LEMMA ReopenedIs ==
  ASSUME NEW d, Books(d), NEW i \in DOMAIN d.slots, d.slots[i].match # 0
  PROVE  LET e == Reopened(d, i)
             m == d.slots[i].match
         IN  /\ Books(e) /\ Grows(d, e) /\ e.series = d.series
             /\ e.status = IF d.status = "completed" THEN "active" ELSE d.status
             /\ DOMAIN e.slots = DOMAIN d.slots /\ e.slots[i] = Shown(d.slots[i], 0, "open")
             /\ \A j \in DOMAIN d.slots : j # i => e.slots[j] = d.slots[j]
             /\ DOMAIN e.matches = DOMAIN d.matches /\ m \in DOMAIN d.matches /\ e.matches[m].status = "denied"
             /\ \A n \in DOMAIN d.matches : n # m => e.matches[n] = d.matches[n]
             /\ e.awards = IF Approved(d, m) \/ m \in d.awards THEN {a \in d.awards : Approved(e, a)} ELSE d.awards
             /\ e.places = IF Approved(d, m) \/ m \in d.awards THEN NoPlaces ELSE d.places
<1> DEFINE m == d.slots[i].match
           u == Unlinked(d, i, "denied")
           st == IF d.status = "completed" THEN "active" ELSE d.status
           o == [u EXCEPT !.status = st]
           lost == Approved(d, m) \/ m \in d.awards
           e == Reopened(d, i)
<1>1. /\ Books(u) /\ Grows(d, u) /\ u.series = d.series /\ u.awards = d.awards
      /\ u.status = d.status /\ u.places = d.places
      /\ DOMAIN u.slots = DOMAIN d.slots /\ u.slots[i] = Shown(d.slots[i], 0, "open")
      /\ \A j \in DOMAIN d.slots : j # i => u.slots[j] = d.slots[j]
      /\ DOMAIN u.matches = DOMAIN d.matches /\ m \in DOMAIN d.matches /\ u.matches[m].status = "denied"
      /\ \A n \in DOMAIN d.matches : n # m => u.matches[n] = d.matches[n]
  <2> DEFINE v == "denied"
  <2>1. v \in {"approved", "denied"}
    OBVIOUS
  <2> HIDE DEF v
  <2>2. LET w == Unlinked(d, i, v)
        IN  /\ Books(w) /\ Grows(d, w) /\ w.series = d.series /\ w.awards = d.awards
            /\ w.status = d.status /\ w.places = d.places
            /\ DOMAIN w.slots = DOMAIN d.slots /\ w.slots[i] = Shown(d.slots[i], 0, "open")
            /\ \A j \in DOMAIN d.slots : j # i => w.slots[j] = d.slots[j]
            /\ DOMAIN w.matches = DOMAIN d.matches /\ m \in DOMAIN d.matches /\ w.matches[m].status = v
            /\ \A n \in DOMAIN d.matches : n # m => w.matches[n] = d.matches[n]
    BY <2>1, UnlinkedIs
  <2> QED BY <2>2 DEF v
<1>2. d \in Db /\ u \in Db
  BY <1>1 DEF Books
<1>3. [d EXCEPT !.matches[m].status = "denied", !.slots[i].status = "open", !.slots[i].match = 0,
                !.status = IF @ = "completed" THEN "active" ELSE @] = o
  BY <1>1 DEF Unlinked
<1> HIDE DEF u
<1>4. st \in {"pending", "active", "completed", "cancelled"}
  BY <1>2 DEF Db
<1> HIDE DEF st
<1>5. o \in Db /\ o.status = st /\ o.slots = u.slots /\ o.matches = u.matches /\ o.series = u.series
      /\ o.awards = u.awards /\ o.places = u.places
  BY <1>2, <1>4 DEF Db
<1> HIDE DEF o
<1> DEFINE A == {a \in o.awards : Approved(o, a)}
<1>6. e = IF lost THEN [o EXCEPT !.awards = A, !.places = NoPlaces] ELSE o
  BY <1>3 DEF Reopened
<1>7. A \in SUBSET Nat /\ A \subseteq d.awards
  BY <1>1, <1>5 DEF Db
<1>8. NoPlaces \in [Players -> {"none", "champion", "runnerUp", "top4"}]
  BY DEF NoPlaces
<1> HIDE DEF A, e, lost
<1>9. /\ e \in Db /\ e.status = st /\ e.slots = u.slots /\ e.matches = u.matches /\ e.series = u.series
      /\ e.awards = (IF lost THEN A ELSE d.awards)
      /\ e.places = (IF lost THEN NoPlaces ELSE d.places)
  <2>1. CASE lost
    BY <1>1, <1>5, <1>6, <1>7, <1>8, <2>1 DEF Db
  <2>2. CASE ~lost
    BY <1>1, <1>5, <1>6, <2>2
  <2> QED BY <2>1, <2>2
<1>10. A = {a \in d.awards : Approved(e, a)}
  BY <1>1, <1>5, <1>9 DEF A, Approved
<1>11. Books(e) /\ Grows(u, e)
  <2>1. d.awards \subseteq DOMAIN u.matches
    BY <1>1 DEF Books, LinksFit
  <2> QED BY <1>1, <1>7, <1>9, <2>1, RowsStay
<1>12. Grows(d, e)
  <2>1. Len(d.slots) \in Nat /\ Len(u.slots) \in Nat /\ Len(e.slots) \in Nat
        /\ Len(d.matches) \in Nat /\ Len(u.matches) \in Nat /\ Len(e.matches) \in Nat
    BY <1>2, <1>9 DEF Db
  <2> QED BY <1>1, <1>9, <1>11, <2>1 DEF Grows
<1> QED BY <1>1, <1>9, <1>10, <1>11, <1>12 DEF e, lost, st

-----------------------------------------------------------------------------
(* Calls in the middle.                                                    *)

(* A call that decides a report carries it to its end; a call that draws    *)
(* has rows left.                                                          *)
Carrying == {"approve", "deny", "find", "free", "complete", "survey", "close", "place",
             "score", "award"}

TaskFits(d, t) ==
    /\ t \in Task
    /\ t.report # 0 => t.report \in DOMAIN d.matches /\ d.matches[t.report].reported
    /\ t.pc \in Carrying => t.report # 0
    /\ t.pc \in {"idle", "activate"} => t.report = 0
    /\ t.pc \in {"complete", "survey"} => t.slot \in DOMAIN d.slots
    /\ t.pc = "draw" => t.rows \in Seq(NewRows) /\ Len(t.rows) >= 1

Whole ==
    /\ event \in Events /\ Books(db)
    /\ task \in [Procs -> Task] /\ \A p \in Procs : TaskFits(db, task[p])
    /\ overdue \subseteq DOMAIN db.matches /\ faults \in 0..MaxFaults /\ torn \in BOOLEAN

LEMMA DbIs ==
  ASSUME NEW d, Books(d)
  PROVE  /\ d \in Db /\ LinksFit(d) /\ d.slots \in Seq(Slot) /\ d.matches \in Seq(Match) /\ d.series \in Seq(Series)
         /\ Len(d.slots) \in Nat /\ Len(d.matches) \in Nat /\ Len(d.series) \in Nat
         /\ DOMAIN d.slots = 1..Len(d.slots) /\ DOMAIN d.matches = 1..Len(d.matches)
         /\ DOMAIN d.series = 1..Len(d.series)
<1>1. d \in Db /\ LinksFit(d) /\ d.slots \in Seq(Slot) /\ d.matches \in Seq(Match) /\ d.series \in Seq(Series)
  BY DEF Books, Db
<1> QED BY <1>1

LEMMA TaskStays ==
  ASSUME NEW d, Books(d), NEW e, Books(e), Grows(d, e), NEW t, TaskFits(d, t)
  PROVE  TaskFits(e, t)
<1>1. DOMAIN d.slots \subseteq DOMAIN e.slots /\ DOMAIN d.matches \subseteq DOMAIN e.matches
  BY DbIs DEF Grows
<1> QED BY <1>1 DEF TaskFits, Grows

LEMMA NothingChanges ==
  ASSUME NEW d, Books(d)
  PROVE  Grows(d, d)
BY DbIs DEF Grows

(* Where a call goes next.                                                 *)
LEMMA CallGoesOn ==
  ASSUME NEW d, NEW t, TaskFits(d, t), t.report # 0, NEW pc \in Carrying,
         pc \in {"complete", "survey"} => t.slot \in DOMAIN d.slots
  PROVE  TaskFits(d, [t EXCEPT !.pc = pc])
<1> DEFINE u == [t EXCEPT !.pc = pc]
<1>1. t \in Task
  BY DEF TaskFits
<1>2. u \in Task /\ u.pc = pc /\ u.report = t.report /\ u.slot = t.slot /\ u.rows = t.rows
  BY <1>1 DEF Task, Carrying
<1> HIDE DEF u
<1>3. pc # "draw" /\ pc # "idle" /\ pc # "activate"
  BY DEF Carrying
<1>4. t.report \in DOMAIN d.matches /\ d.matches[t.report].reported
  BY DEF TaskFits
<1>5. u.report # 0 => u.report \in DOMAIN d.matches /\ d.matches[u.report].reported
  BY <1>2, <1>4
<1>6. /\ u.pc \in Carrying => u.report # 0
      /\ u.pc \in {"idle", "activate"} => u.report = 0
      /\ u.pc \in {"complete", "survey"} => u.slot \in DOMAIN d.slots
      /\ u.pc = "draw" => u.rows \in Seq(NewRows) /\ Len(u.rows) >= 1
  BY <1>2, <1>3
<1>7. TaskFits(d, u)
  BY <1>2, <1>5, <1>6 DEF TaskFits
<1> QED BY <1>7 DEF u

LEMMA IdleFits ==
  ASSUME NEW d
  PROVE  TaskFits(d, Idle)
<1>1. Idle \in Task
  BY DEF Idle, Task
<1>2. Idle.pc = "idle" /\ Idle.report = 0
  BY DEF Idle
<1>3. Idle.pc \notin Carrying /\ Idle.pc \notin {"complete", "survey"} /\ Idle.pc # "draw"
  BY <1>2 DEF Carrying
<1> QED BY <1>1, <1>2, <1>3 DEF TaskFits

LEMMA CallBegins ==
  ASSUME NEW d, NEW m \in DOMAIN d.matches, DOMAIN d.matches \subseteq Nat \ {0},
         d.matches[m].reported, NEW pc \in {"approve", "deny"}
  PROVE  TaskFits(d, [Idle EXCEPT !.pc = pc, !.report = m])
<1> DEFINE u == [Idle EXCEPT !.pc = pc, !.report = m]
<1> DEFINE v == [Idle EXCEPT !.pc = pc]
<1>1. Idle \in Task
  BY DEF Idle, Task
<1>2. v \in Task /\ v.pc = pc
  BY <1>1 DEF Task
<1> HIDE DEF v
<1>3. u = [v EXCEPT !.report = m] /\ m \in Nat
  BY DEF v
<1>4. u \in Task /\ u.pc = pc /\ u.report = m /\ m # 0
  BY <1>2, <1>3 DEF Task
<1>5. pc # "idle" /\ pc # "activate" /\ pc # "draw" /\ pc \notin {"complete", "survey"}
  OBVIOUS
<1> HIDE DEF u
<1>6. u.report # 0 => u.report \in DOMAIN d.matches /\ d.matches[u.report].reported
  BY <1>4
<1>7. /\ u.pc \in Carrying => u.report # 0
      /\ u.pc \in {"idle", "activate"} => u.report = 0
      /\ u.pc \in {"complete", "survey"} => u.slot \in DOMAIN d.slots
      /\ u.pc = "draw" => u.rows \in Seq(NewRows) /\ Len(u.rows) >= 1
  BY <1>4, <1>5
<1>8. TaskFits(d, u)
  BY <1>4, <1>6, <1>7 DEF TaskFits
<1> QED BY <1>8 DEF u

(* What a process has done when it goes on alone.                          *)
Moved(p) ==
    /\ Books(db') /\ Grows(db, db') /\ task' = [task EXCEPT ![p] = task'[p]]
    /\ TaskFits(db', task'[p]) /\ event' = event

LEMMA InsertPairingFits ==
  ASSUME Whole, NEW p \in Procs, InsertPairing(p)
  PROVE  /\ Moved(p) /\ db'.slots = Append(db.slots, Head(task[p].rows)) /\ Head(task[p].rows) \in NewRows
         /\ db'.matches = db.matches /\ db'.series = db.series /\ db'.awards = db.awards
         /\ db'.status = db.status /\ db'.places = db.places
<1> DEFINE t == task[p]
           row == Head(t.rows)
<1>1. Books(db) /\ TaskFits(db, t) /\ t.pc = "draw" /\ t \in Task
  BY DEF Whole, InsertPairing, At, TaskFits
<1>2. t.rows \in Seq(NewRows) /\ Len(t.rows) \in Nat /\ Len(t.rows) >= 1
  BY <1>1 DEF TaskFits
<1>3. row \in NewRows /\ Tail(t.rows) \in Seq(NewRows) /\ Len(Tail(t.rows)) = Len(t.rows) - 1
  BY <1>2
<1>4. db' = [db EXCEPT !.slots = Append(db.slots, row)]
  BY DEF InsertPairing
<1>5. Append(db.slots, row) \in Seq(Slot) /\ Append(db.slots, row) = db.slots \o <<row>>
      /\ <<row>> \in Seq(NewRows) /\ db \in Db
  <2>1. row \in Slot
    BY <1>3 DEF NewRows
  <2> HIDE DEF row
  <2> QED BY <1>1, <1>3, <2>1, DbIs
<1> DEFINE rows == <<row>>
<1>6. /\ db' \in Db /\ db'.slots = db.slots \o rows /\ db'.slots = Append(db.slots, row)
      /\ db'.matches = db.matches /\ db'.series = db.series
      /\ db'.awards = db.awards /\ db'.status = db.status /\ db'.places = db.places
  <2> HIDE DEF row
  <2> QED BY <1>4, <1>5 DEF Db
<1>7. rows \in Seq(NewRows)
  BY <1>5
<1>8. Books(db') /\ Grows(db, db')
  <2> HIDE DEF rows, row
  <2> QED BY <1>1, <1>6, <1>7, SlotsAdded
<1> DEFINE u == [t EXCEPT !.rows = Tail(t.rows),
                          !.pc = IF Len(t.rows) # 1 THEN "draw" ELSE IF t.report = 0 THEN "activate" ELSE "score"]
<1>9. task' = [task EXCEPT ![p] = u] /\ event' = event
  BY DEF InsertPairing, Goto, DbAndTask, Fixed
<1>10. Tail(t.rows) \in Seq(Slot)
  BY <1>3 DEF NewRows
<1>11. /\ u \in Task /\ u.report = t.report /\ u.rows = Tail(t.rows)
       /\ u.pc = IF Len(t.rows) # 1 THEN "draw" ELSE IF t.report = 0 THEN "activate" ELSE "score"
  <2> HIDE DEF t
  <2> QED BY <1>1, <1>10 DEF Task
<1>12. task'[p] = u
  BY <1>9 DEF Whole
<1> HIDE DEF u
<1>13. TaskFits(db, u)
  <2>1. u.pc = "draw" => u.rows \in Seq(NewRows) /\ Len(u.rows) >= 1
    <3> DEFINE n == Len(t.rows)
               rest == Tail(t.rows)
    <3>1. n \in Nat /\ n >= 1 /\ rest \in Seq(NewRows) /\ Len(rest) = n - 1
      BY <1>2, <1>3
    <3>2. u.rows = rest /\ (u.pc = "draw" => n # 1)
      BY <1>11
    <3> HIDE DEF n, rest, t
    <3> QED BY <3>1, <3>2
  <2>2. u.report # 0 => u.report \in DOMAIN db.matches /\ db.matches[u.report].reported
    BY <1>1, <1>11 DEF TaskFits
  <2>3. u.pc \in {"draw", "activate", "score"} /\ (u.pc = "activate" => u.report = 0)
        /\ (u.pc = "score" => u.report # 0)
    BY <1>11
  <2>4. u.pc \in Carrying => u.report # 0
    BY <2>3 DEF Carrying
  <2>5. u.pc \notin {"idle", "complete", "survey"}
    BY <2>3
  <2> QED BY <1>11, <2>1, <2>2, <2>3, <2>4, <2>5 DEF TaskFits
<1>14. TaskFits(db', u)
  BY <1>1, <1>8, <1>13, TaskStays
<1> QED BY <1>3, <1>6, <1>8, <1>9, <1>12, <1>14 DEF Moved

(* A call goes on to its next statement, or ends.                          *)
LEMMA Continues ==
  ASSUME Whole, NEW p \in Procs, Books(db'), Grows(db, db'), event' = event, task[p].report # 0,
         NEW pc \in Carrying, Continue(p, pc), pc \in {"complete", "survey"} => task[p].slot \in DOMAIN db.slots
  PROVE  Moved(p) /\ task'[p] = [task[p] EXCEPT !.pc = pc]
<1> DEFINE u == [task[p] EXCEPT !.pc = pc]
<1>1. Books(db) /\ TaskFits(db, task[p]) /\ task \in [Procs -> Task]
  BY DEF Whole
<1>2. TaskFits(db, u)
  BY <1>1, CallGoesOn
<1>3. task' = [task EXCEPT ![p] = u]
  BY DEF Continue, Goto
<1> HIDE DEF u
<1>4. TaskFits(db', u)
  BY <1>1, <1>2, TaskStays
<1>5. task'[p] = u
  BY <1>1, <1>3
<1> QED BY <1>3, <1>4, <1>5 DEF Moved, u

LEMMA Ends ==
  ASSUME Whole, NEW p \in Procs, Books(db'), Grows(db, db'), event' = event, Goto(p, Idle)
  PROVE  Moved(p) /\ task'[p] = Idle
<1>1. task \in [Procs -> Task]
  BY DEF Whole
<1>2. task' = [task EXCEPT ![p] = Idle] /\ task'[p] = Idle
  BY <1>1 DEF Goto
<1>3. TaskFits(db', Idle)
  BY IdleFits
<1> QED BY <1>2, <1>3 DEF Moved

(* The statuses, the places and the awards are none of the rows' business. *)
LEMMA StatusSet ==
  ASSUME NEW d, Books(d), NEW st \in {"pending", "active", "completed", "cancelled"}
  PROVE  LET e == [d EXCEPT !.status = st]
         IN  /\ Books(e) /\ Grows(d, e) /\ e.status = st /\ e.slots = d.slots /\ e.matches = d.matches
             /\ e.series = d.series /\ e.awards = d.awards /\ e.places = d.places
<1> DEFINE e == [d EXCEPT !.status = st]
<1>1. d \in Db /\ d.awards \subseteq DOMAIN d.matches
  BY DEF Books, LinksFit
<1>2. e \in Db /\ e.status = st /\ e.slots = d.slots /\ e.matches = d.matches
      /\ e.series = d.series /\ e.awards = d.awards /\ e.places = d.places
  BY <1>1 DEF Db
<1> HIDE DEF e
<1>3. Books(e) /\ Grows(d, e)
  BY <1>1, <1>2, RowsStay
<1> QED BY <1>2, <1>3 DEF e

LEMMA PlacedIs ==
  ASSUME NEW d, Books(d)
  PROVE  LET e == Placed(d)
         IN  /\ Books(e) /\ Grows(d, e) /\ e.slots = d.slots /\ e.matches = d.matches
             /\ e.series = d.series /\ e.awards = d.awards /\ e.status = d.status
<1> DEFINE e == Placed(d)
<1>1. d \in Db /\ d.awards \subseteq DOMAIN d.matches
  BY DEF Books, LinksFit
<1>2. e \in Db /\ e.slots = d.slots /\ e.matches = d.matches
      /\ e.series = d.series /\ e.awards = d.awards /\ e.status = d.status
  BY <1>1, PlacedFits
<1> HIDE DEF e
<1>3. Books(e) /\ Grows(d, e)
  BY <1>1, <1>2, RowsStay
<1> QED BY <1>2, <1>3 DEF e

LEMMA AwardIs ==
  ASSUME NEW d, Books(d), NEW m \in DOMAIN d.matches
  PROVE  LET e == [d EXCEPT !.awards = @ \cup {m}]
         IN  /\ Books(e) /\ Grows(d, e) /\ e.slots = d.slots /\ e.matches = d.matches
             /\ e.series = d.series /\ e.awards = d.awards \cup {m} /\ e.status = d.status
             /\ e.places = d.places
<1> DEFINE e == [d EXCEPT !.awards = @ \cup {m}]
<1>1. d \in Db /\ d.awards \subseteq DOMAIN d.matches /\ m \in Nat
  BY DbIs DEF Books, LinksFit
<1>2. e \in Db /\ e.slots = d.slots /\ e.matches = d.matches /\ e.places = d.places
      /\ e.series = d.series /\ e.awards = d.awards \cup {m} /\ e.status = d.status
  BY <1>1 DEF Db
<1> HIDE DEF e
<1>3. Books(e) /\ Grows(d, e)
  BY <1>1, <1>2, RowsStay
<1> QED BY <1>2, <1>3 DEF e

LEMMA Opened ==
  ASSUME NEW s \in Slot
  PROVE  [s EXCEPT !.status = "open", !.match = 0] = Shown(s, 0, "open") /\ Shown(s, 0, "open") \in Slot
<1> DEFINE t == [pair |-> s.pair, round |-> s.round, status |-> "open", match |-> s.match]
<1>1. [s EXCEPT !.status = "open"] = t
  BY DEF Slot
<1>2. [t EXCEPT !.match = 0] = [pair |-> s.pair, round |-> s.round, status |-> "open", match |-> 0]
  OBVIOUS
<1>3. Shown(s, 0, "open") \in Slot
  BY DEF Slot, Shown
<1> HIDE DEF t
<1>4. [s EXCEPT !.status = "open", !.match = 0] = [t EXCEPT !.match = 0]
  BY <1>1
<1> QED BY <1>2, <1>3, <1>4 DEF Shown

Freed(d, m) ==
    [d EXCEPT !.slots = [i \in DOMAIN @ |->
        IF @[i].match = m THEN [@[i] EXCEPT !.status = "open", !.match = 0] ELSE @[i]]]

LEMMA FreeIs ==
  ASSUME NEW d, Books(d), NEW m
  PROVE  LET e == Freed(d, m)
         IN  SlotsFreed(d, e, SlotsOf(d, m)) /\ e.status = d.status /\ e.places = d.places
<1> DEFINE e == Freed(d, m)
           f == [i \in DOMAIN d.slots |->
                    IF d.slots[i].match = m THEN [d.slots[i] EXCEPT !.status = "open", !.match = 0]
                    ELSE d.slots[i]]
<1>1. d \in Db /\ d.slots \in Seq(Slot) /\ DOMAIN d.slots = 1..Len(d.slots) /\ Len(d.slots) \in Nat
  BY DbIs
<1>2. ASSUME NEW s \in Slot
      PROVE  [s EXCEPT !.status = "open", !.match = 0] = Shown(s, 0, "open") /\ Shown(s, 0, "open") \in Slot
  BY <1>2, Opened
<1> HIDE DEF e
<1>3. ASSUME NEW i \in DOMAIN d.slots
      PROVE  /\ f[i] = IF i \in SlotsOf(d, m) THEN Shown(d.slots[i], 0, "open") ELSE d.slots[i]
             /\ f[i] \in Slot
  <2>1. d.slots[i] \in Slot
    BY <1>1
  <2> DEFINE s == d.slots[i]
  <2>2. f[i] = IF s.match = m THEN [s EXCEPT !.status = "open", !.match = 0] ELSE s
    OBVIOUS
  <2> HIDE DEF s, f
  <2>3. [s EXCEPT !.status = "open", !.match = 0] = Shown(s, 0, "open") /\ Shown(s, 0, "open") \in Slot
    BY <1>2, <2>1 DEF s
  <2>4. i \in SlotsOf(d, m) <=> s.match = m
    BY DEF SlotsOf, s
  <2> QED BY <2>1, <2>2, <2>3, <2>4 DEF s
<1>4. f \in Seq(Slot) /\ DOMAIN f = DOMAIN d.slots
  <2>1. DOMAIN f = 1..Len(d.slots) /\ DOMAIN f = DOMAIN d.slots
    BY <1>1
  <2> DEFINE n == Len(d.slots)
  <2>2. n \in Nat /\ DOMAIN f = 1..n /\ f \in [1..n -> Slot]
    <3>1. f = [i \in 1..n |-> f[i]]
      BY <2>1
    <3>2. \A i \in 1..n : f[i] \in Slot
      BY <1>1, <1>3
    <3> HIDE DEF f
    <3> QED BY <1>1, <2>1, <3>1, <3>2
  <2> HIDE DEF f, n
  <2>3. f \in Seq(Slot)
    BY <2>2
  <2> QED BY <2>1, <2>3
<1>5. e = [d EXCEPT !.slots = f]
  BY DEF Freed, e
<1> HIDE DEF f
<1>6. e \in Db /\ e.slots = f /\ e.matches = d.matches /\ e.series = d.series /\ e.awards = d.awards
      /\ e.status = d.status /\ e.places = d.places
  BY <1>1, <1>4, <1>5 DEF Db
<1> QED BY <1>3, <1>4, <1>6 DEF SlotsFreed, e

(* One lemma for each statement.                                           *)
LEMMA TaskOf ==
  ASSUME Whole, NEW p \in Procs
  PROVE  /\ Books(db) /\ event \in Events /\ task \in [Procs -> Task] /\ TaskFits(db, task[p]) /\ task[p] \in Task
         /\ task[p].pc \in Carrying => task[p].report \in DOMAIN db.matches /\ task[p].report # 0
                                       /\ db.matches[task[p].report].reported
         /\ task[p].pc \in {"complete", "survey"} => task[p].slot \in DOMAIN db.slots
BY DEF Whole, TaskFits

LEMMA ActivateFits ==
  ASSUME Whole, NEW p \in Procs, Activate(p)
  PROVE  Moved(p) /\ db' = [db EXCEPT !.status = "active"] /\ task'[p] = Idle
<1> DEFINE st == "active"
<1>1. st \in {"pending", "active", "completed", "cancelled"} /\ db' = [db EXCEPT !.status = st]
      /\ Goto(p, Idle) /\ event' = event /\ Books(db)
  BY TaskOf DEF Activate, DbAndTask, Fixed
<1> HIDE DEF st
<1>2. Books(db') /\ Grows(db, db')
  BY <1>1, StatusSet
<1> QED BY <1>1, <1>2, Ends DEF st

LEMMA DecideFits ==
  ASSUME Whole, NEW p \in Procs, Decide(p)
  PROVE  /\ Moved(p) /\ task[p].report \in DOMAIN db.matches
         /\ \/ task[p].pc = "approve" /\ db' = Redone(db, task[p].report, "approved")
               /\ task'[p] = [task[p] EXCEPT !.pc = "find"]
            \/ task[p].pc = "deny" /\ db' = Redone(db, task[p].report, "denied")
               /\ task'[p] = [task[p] EXCEPT !.pc = "free"]
<1> DEFINE m == task[p].report
           pc == IF task[p].pc = "approve" THEN "find" ELSE "free"
           st == IF task[p].pc = "approve" THEN "approved" ELSE "denied"
<1>1. task[p].pc \in {"approve", "deny"} /\ event' = event
  BY DEF Decide, DbAndTask, Fixed
<1>2. pc \in Carrying /\ pc \notin {"complete", "survey"} /\ task[p].pc \in Carrying
  BY <1>1 DEF Carrying
<1>3. Books(db) /\ m \in DOMAIN db.matches /\ m # 0
  BY <1>2, TaskOf
<1>4. st \in {"approved", "denied"} /\ db' = Redone(db, m, st) /\ Continue(p, pc)
  BY DEF Decide, Redone, At
<1> HIDE DEF st, pc, m
<1>5. Books(db') /\ Grows(db, db')
  BY <1>3, <1>4, DecidedIs, RedecidedFits
<1>6. Moved(p) /\ task'[p] = [task[p] EXCEPT !.pc = pc]
  BY <1>1, <1>2, <1>3, <1>4, <1>5, Continues DEF m
<1> QED BY <1>1, <1>3, <1>4, <1>6 DEF m, st, pc

LEMMA FreeSlotFits ==
  ASSUME Whole, NEW p \in Procs, FreeSlot(p)
  PROVE  /\ Moved(p) /\ task[p].pc = "free" /\ task'[p] = Idle
         /\ db' = Freed(db, task[p].report)
<1>1. task[p].pc = "free" /\ Goto(p, Idle) /\ db' = Freed(db, task[p].report) /\ event' = event /\ Books(db)
  BY TaskOf DEF FreeSlot, At, Freed, DbAndTask, Fixed
<1>2. SlotsFreed(db, db', SlotsOf(db, task[p].report))
  BY <1>1, FreeIs
<1>3. Books(db') /\ Grows(db, db')
  BY <1>1, <1>2, FreedFits
<1> QED BY <1>1, <1>3, Ends

LEMMA FindSlotFits ==
  ASSUME Whole, NEW p \in Procs, FindSlot(p)
  PROVE  /\ Moved(p) /\ db' = db /\ task[p].pc = "find"
         /\ \/ SlotsOf(db, task[p].report) = {} /\ task'[p] = [task[p] EXCEPT !.pc = "score"]
            \/ \E i \in SlotsOf(db, task[p].report) :
                  task'[p] = [task[p] EXCEPT !.pc = "complete", !.slot = i]
<1> DEFINE t == task[p]
           m == t.report
           S == SlotsOf(db, m)
<1>1. t.pc = "find" /\ db' = db /\ event' = event
  BY DEF FindSlot, At, OnlyTask, Fixed
<1>2. t.pc \in Carrying
  BY <1>1 DEF Carrying
<1>3. Books(db) /\ m \in DOMAIN db.matches /\ m # 0 /\ TaskFits(db, t) /\ t \in Task /\ task \in [Procs -> Task]
      /\ db.matches[m].reported
  BY <1>2, TaskOf
<1>4. Books(db') /\ Grows(db, db')
  BY <1>1, <1>3, NothingChanges
<1>5. CASE S = {}
  <2> DEFINE pc == "score"
  <2>1. Continue(p, pc) /\ pc \in Carrying /\ pc \notin {"complete", "survey"}
    BY <1>5 DEF FindSlot, Carrying
  <2> HIDE DEF pc
  <2>2. Moved(p) /\ task'[p] = [task[p] EXCEPT !.pc = pc]
    BY <1>1, <1>3, <1>4, <2>1, Continues
  <2> QED BY <1>1, <1>5, <2>2 DEF pc
<1>6. CASE S # {}
  <2> DEFINE i == Min(S)
             v == [t EXCEPT !.pc = "complete"]
             u == [v EXCEPT !.slot = i]
  <2>1. i \in S /\ i \in DOMAIN db.slots /\ i \in Nat
    <3>1. S \subseteq 1..Len(db.slots) /\ Len(db.slots) \in Nat /\ S \subseteq DOMAIN db.slots
      BY <1>3, DbIs DEF SlotsOf
    <3>2. S \in SUBSET Nat
      BY <3>1
    <3> HIDE DEF S
    <3>3. i \in S
      BY <1>6, <3>2, MinOf
    <3> QED BY <3>1, <3>2, <3>3
  <2>2. task' = [task EXCEPT ![p] = u]
    BY <1>6 DEF FindSlot, Goto
  <2>3. v \in Task /\ v.pc = "complete" /\ v.report = m
    <3> HIDE DEF t
    <3> QED BY <1>3 DEF Task
  <2> HIDE DEF i, v
  <2>4. u \in Task /\ u.pc = "complete" /\ u.report = m /\ u.slot = i
    BY <2>1, <2>3 DEF Task
  <2>5. u = [task[p] EXCEPT !.pc = "complete", !.slot = i]
    BY DEF v
  <2> HIDE DEF u
  <2>6. TaskFits(db, u)
    <3>1. u.report # 0 => u.report \in DOMAIN db.matches /\ db.matches[u.report].reported
      BY <1>3, <2>4
    <3>2. /\ u.pc \in Carrying => u.report # 0
          /\ u.pc \in {"idle", "activate"} => u.report = 0
          /\ u.pc \in {"complete", "survey"} => u.slot \in DOMAIN db.slots
          /\ u.pc = "draw" => u.rows \in Seq(NewRows) /\ Len(u.rows) >= 1
      BY <1>3, <2>1, <2>4
    <3> QED BY <2>4, <3>1, <3>2 DEF TaskFits
  <2>7. task'[p] = u
    BY <1>3, <2>2
  <2> QED BY <1>1, <1>4, <2>1, <2>2, <2>5, <2>6, <2>7 DEF Moved
<1> QED BY <1>5, <1>6

LEMMA CompleteSlotFits ==
  ASSUME Whole, NEW p \in Procs, CompleteSlot(p)
  PROVE  /\ Moved(p) /\ task[p].pc = "complete" /\ task'[p] = [task[p] EXCEPT !.pc = "survey"]
         /\ db' = Completed(db, task[p].slot) /\ task[p].slot \in DOMAIN db.slots
<1> DEFINE pc == "survey"
<1>1. task[p].pc = "complete" /\ event' = event /\ db' = Completed(db, task[p].slot) /\ Continue(p, pc)
  BY DEF CompleteSlot, At, DbAndTask, Fixed
<1>2. pc \in Carrying /\ task[p].pc \in Carrying /\ task[p].pc \in {"complete", "survey"}
  BY <1>1 DEF Carrying
<1>3. Books(db) /\ task[p].report # 0 /\ task[p].slot \in DOMAIN db.slots
  BY <1>2, TaskOf
<1> HIDE DEF pc
<1>4. Books(db') /\ Grows(db, db')
  BY <1>1, <1>3, CompletedIs
<1>5. Moved(p) /\ task'[p] = [task[p] EXCEPT !.pc = pc]
  BY <1>1, <1>2, <1>3, <1>4, Continues
<1> QED BY <1>1, <1>3, <1>5 DEF pc

LEMMA SurveyFits ==
  ASSUME Whole, NEW p \in Procs, Survey(p)
  PROVE  /\ Moved(p) /\ db' = db /\ task[p].pc = "survey" /\ task[p].slot \in DOMAIN db.slots
         /\ task'[p] = [task[p] EXCEPT !.pc = Follow(db, task[p].slot).pc, !.rows = Follow(db, task[p].slot).rows]
<1> DEFINE t == task[p]
           f == Follow(db, t.slot)
           v == [t EXCEPT !.pc = f.pc]
           u == [v EXCEPT !.rows = f.rows]
<1>1. t.pc = "survey" /\ db' = db /\ event' = event /\ task' = [task EXCEPT ![p] = u]
  BY DEF Survey, At, OnlyTask, Fixed, Goto
<1>2. t.pc \in Carrying /\ t.pc \in {"complete", "survey"}
  BY <1>1 DEF Carrying
<1>3. Books(db) /\ event \in Events /\ t.slot \in DOMAIN db.slots /\ t.report \in DOMAIN db.matches /\ t.report # 0
      /\ t \in Task /\ TaskFits(db, t) /\ task \in [Procs -> Task] /\ db.matches[t.report].reported
  BY <1>2, TaskOf
<1>4. Books(db') /\ Grows(db, db')
  BY <1>1, <1>3, NothingChanges
<1>5. /\ f.pc \in {"score", "close", "draw"} /\ f.rows \in Seq(Slot)
      /\ f.pc = "draw" => f.rows \in Seq(NewRows) /\ Len(f.rows) >= 1
  <2>1. \/ f = Score \/ f = Close
        \/ (f.pc = "draw" /\ f.rows \in Seq(NewRows) /\ Len(f.rows) >= 1)
    BY <1>3, FollowIs
  <2>2. Score.pc = "score" /\ Close.pc = "close" /\ Score.rows = << >> /\ Close.rows = << >>
    BY DEF Score, Close
  <2>3. << >> \in Seq(Slot)
    OBVIOUS
  <2> HIDE DEF f
  <2>4. f.rows \in Seq(NewRows) => f.rows \in Seq(Slot)
    <3>1. NewRows \subseteq Slot
      BY DEF NewRows
    <3> HIDE DEF t
    <3> QED BY <3>1
  <2> QED BY <2>1, <2>2, <2>3, <2>4
<1>6. u = [task[p] EXCEPT !.pc = f.pc, !.rows = f.rows]
  OBVIOUS
<1> HIDE DEF f
<1>7. v \in Task /\ v.pc = f.pc /\ v.report = t.report
  <2> HIDE DEF t
  <2> QED BY <1>3, <1>5 DEF Task
<1> HIDE DEF v
<1>8. u \in Task /\ u.pc = f.pc /\ u.report = t.report /\ u.rows = f.rows
  BY <1>5, <1>7 DEF Task
<1> HIDE DEF u
<1>9. TaskFits(db, u)
  <2>1. u.report # 0 => u.report \in DOMAIN db.matches /\ db.matches[u.report].reported
    BY <1>3, <1>8
  <2>2. /\ u.pc \in Carrying => u.report # 0
        /\ u.pc \in {"idle", "activate"} => u.report = 0
        /\ u.pc \in {"complete", "survey"} => u.slot \in DOMAIN db.slots
        /\ u.pc = "draw" => u.rows \in Seq(NewRows) /\ Len(u.rows) >= 1
    BY <1>3, <1>5, <1>8
  <2> QED BY <1>8, <2>1, <2>2 DEF TaskFits
<1>10. task'[p] = u
  BY <1>1, <1>3
<1> QED BY <1>1, <1>3, <1>4, <1>6, <1>9, <1>10 DEF Moved, f

LEMMA CloseFits ==
  ASSUME Whole, NEW p \in Procs, CloseTournament(p)
  PROVE  /\ Moved(p) /\ task[p].pc = "close" /\ task'[p] = [task[p] EXCEPT !.pc = "place"]
         /\ db' = [db EXCEPT !.status = "completed"]
<1> DEFINE pc == "place"
           st == "completed"
<1>1. task[p].pc = "close" /\ event' = event /\ db' = [db EXCEPT !.status = st] /\ Continue(p, pc)
      /\ st \in {"pending", "active", "completed", "cancelled"}
  BY DEF CloseTournament, Closed, At, DbAndTask, Fixed
<1>2. pc \in Carrying /\ task[p].pc \in Carrying /\ pc \notin {"complete", "survey"}
  BY <1>1 DEF Carrying
<1>3. Books(db) /\ task[p].report # 0
  BY <1>2, TaskOf
<1> HIDE DEF pc, st
<1>4. Books(db') /\ Grows(db, db')
  BY <1>1, <1>3, StatusSet
<1>5. Moved(p) /\ task'[p] = [task[p] EXCEPT !.pc = pc]
  BY <1>1, <1>2, <1>3, <1>4, Continues
<1> QED BY <1>1, <1>5 DEF pc, st

LEMMA PlaceFits ==
  ASSUME Whole, NEW p \in Procs, Place(p)
  PROVE  /\ Moved(p) /\ task[p].pc = "place" /\ task'[p] = [task[p] EXCEPT !.pc = "score"]
         /\ db' = Placed(db)
<1> DEFINE pc == "score"
<1>1. task[p].pc = "place" /\ event' = event /\ db' = Placed(db) /\ Continue(p, pc)
  BY DEF Place, At, DbAndTask, Fixed
<1>2. pc \in Carrying /\ task[p].pc \in Carrying /\ pc \notin {"complete", "survey"}
  BY <1>1 DEF Carrying
<1>3. Books(db) /\ task[p].report # 0
  BY <1>2, TaskOf
<1> HIDE DEF pc
<1>4. Books(db') /\ Grows(db, db')
  BY <1>1, <1>3, PlacedIs
<1>5. Moved(p) /\ task'[p] = [task[p] EXCEPT !.pc = pc]
  BY <1>1, <1>2, <1>3, <1>4, Continues
<1> QED BY <1>1, <1>5 DEF pc

LEMMA ReadScoreFits ==
  ASSUME Whole, NEW p \in Procs, ReadScore(p)
  PROVE  /\ Moved(p) /\ db' = db /\ task[p].pc = "score"
         /\ \/ Approved(db, task[p].report) /\ task'[p] = [task[p] EXCEPT !.pc = "award"]
            \/ ~(Approved(db, task[p].report) /\ task[p].report \notin db.awards) /\ task'[p] = Idle
<1> DEFINE m == task[p].report
           pc == "award"
           due == Approved(db, m) /\ m \notin db.awards
<1>1. task[p].pc = "score" /\ db' = db /\ event' = event
  BY DEF ReadScore, At, OnlyTask, Fixed
<1>2. pc \in Carrying /\ task[p].pc \in Carrying /\ pc \notin {"complete", "survey"}
  BY <1>1 DEF Carrying
<1>3. Books(db) /\ task[p].report # 0 /\ task \in [Procs -> Task]
  BY <1>2, TaskOf
<1>4. Books(db') /\ Grows(db, db')
  BY <1>1, <1>3, NothingChanges
<1>5. CASE due
  <2>1. Continue(p, pc)
    BY <1>5 DEF ReadScore
  <2> HIDE DEF pc
  <2>2. Moved(p) /\ task'[p] = [task[p] EXCEPT !.pc = pc]
    BY <1>1, <1>2, <1>3, <1>4, <2>1, Continues
  <2> QED BY <1>1, <1>5, <2>2 DEF pc
<1>6. CASE ~due
  <2>1. Goto(p, Idle)
    BY <1>6 DEF ReadScore
  <2>2. Moved(p) /\ task'[p] = Idle
    BY <1>1, <1>4, <2>1, Ends
  <2> QED BY <1>1, <1>6, <2>2
<1> QED BY <1>5, <1>6

LEMMA AwardFits ==
  ASSUME Whole, NEW p \in Procs, Award(p)
  PROVE  /\ Moved(p) /\ task[p].pc = "award" /\ task'[p] = Idle /\ task[p].report \in DOMAIN db.matches
         /\ db' = [db EXCEPT !.awards = @ \cup {task[p].report}]
<1> DEFINE m == task[p].report
<1>1. task[p].pc = "award" /\ event' = event /\ db' = [db EXCEPT !.awards = @ \cup {m}] /\ Goto(p, Idle)
  BY DEF Award, At, DbAndTask, Fixed
<1>2. task[p].pc \in Carrying
  BY <1>1 DEF Carrying
<1>3. Books(db) /\ m \in DOMAIN db.matches
  BY <1>2, TaskOf
<1> HIDE DEF m
<1>4. Books(db') /\ Grows(db, db')
  BY <1>1, <1>3, AwardIs
<1>5. Moved(p) /\ task'[p] = Idle
  BY <1>1, <1>4, Ends
<1> QED BY <1>1, <1>3, <1>5 DEF m

LEMMA StartFits ==
  ASSUME Whole, NEW p \in Procs, Start(p)
  PROVE  /\ Moved(p) /\ db' = db /\ db.status = "pending" /\ task[p].pc = "idle"
         /\ task'[p] = [Idle EXCEPT !.pc = "draw", !.rows = FirstRows]
<1> DEFINE rows == FirstRows
           v == [Idle EXCEPT !.pc = "draw"]
           u == [v EXCEPT !.rows = rows]
<1>1. db' = db /\ event' = event /\ db.status = "pending" /\ task[p].pc = "idle" /\ task' = [task EXCEPT ![p] = u]
  BY DEF Start, OnlyTask, Fixed, Goto, At
<1>2. Books(db) /\ event \in Events /\ task \in [Procs -> Task]
  BY TaskOf
<1>3. Grows(db, db') /\ Books(db')
  BY <1>1, <1>2, NothingChanges
<1>4. rows \in Seq(NewRows) /\ Len(rows) >= 1 /\ rows \in Seq(Slot)
  <2>1. rows \in Seq(NewRows) /\ Len(rows) >= 1
    BY <1>2, FirstRowsAre
  <2>2. NewRows \subseteq Slot
    BY DEF NewRows
  <2> HIDE DEF rows
  <2> QED BY <2>1, <2>2
<1> HIDE DEF rows
<1>5. v \in Task /\ v.pc = "draw" /\ v.report = 0
  <2>1. Idle \in Task /\ Idle.report = 0
    BY DEF Idle, Task
  <2> QED BY <2>1 DEF Task
<1>6. u = [Idle EXCEPT !.pc = "draw", !.rows = rows]
  OBVIOUS
<1> HIDE DEF v
<1>7. u \in Task /\ u.pc = "draw" /\ u.report = 0 /\ u.rows = rows
  BY <1>4, <1>5 DEF Task
<1> HIDE DEF u
<1>8. TaskFits(db, u)
  <2>1. "draw" \notin Carrying
    BY DEF Carrying
  <2> QED BY <1>4, <1>7, <2>1 DEF TaskFits
<1>9. task'[p] = u
  BY <1>1, <1>2
<1> QED BY <1>1, <1>3, <1>6, <1>8, <1>9 DEF Moved, rows

LEMMA ReportRead ==
  ASSUME Whole, NEW p \in Procs, NEW m \in DOMAIN db.matches, db.matches[m].status = "pending",
         NEW pc \in {"approve", "deny"}, Goto(p, [Idle EXCEPT !.pc = pc, !.report = m]),
         db' = db, event' = event
  PROVE  Moved(p) /\ task'[p] = [Idle EXCEPT !.pc = pc, !.report = m]
<1> DEFINE u == [Idle EXCEPT !.pc = pc, !.report = m]
<1>1. Books(db) /\ task \in [Procs -> Task]
  BY TaskOf
<1>2. Grows(db, db') /\ Books(db')
  BY <1>1, NothingChanges
<1>3. DOMAIN db.matches \subseteq Nat \ {0}
  BY <1>1, DbIs
<1>4. db.matches[m].reported
  BY <1>1 DEF Books, LinksFit
<1>5. TaskFits(db, u)
  BY <1>3, <1>4, CallBegins
<1>6. task' = [task EXCEPT ![p] = u]
  BY DEF Goto
<1> HIDE DEF u
<1>7. task'[p] = u
  BY <1>1, <1>6
<1> QED BY <1>2, <1>5, <1>6, <1>7 DEF Moved, u

LEMMA ReadOverdueFits ==
  ASSUME Whole, ReadOverdue
  PROVE  /\ Moved(Worker) /\ db' = db /\ task[Worker].pc = "idle" /\ overdue' \subseteq DOMAIN db.matches
         /\ \/ task'[Worker] = Idle
            \/ \E m \in DOMAIN db.matches : /\ db.matches[m].status = "pending"
                                            /\ task'[Worker] = [Idle EXCEPT !.pc = "approve", !.report = m]
<1> DEFINE m == Min(overdue)
           pc == "approve"
<1>1. /\ task[Worker].pc = "idle" /\ db' = db /\ event' = event /\ overdue # {} /\ overdue' = overdue \ {m}
      /\ Goto(Worker, IF db.matches[m].status = "pending" THEN [Idle EXCEPT !.pc = pc, !.report = m] ELSE Idle)
  BY DEF ReadOverdue, At, Fixed
<1>2. overdue \subseteq DOMAIN db.matches /\ Books(db) /\ Worker \in Procs
  BY DEF Whole, Procs
<1>3. m \in overdue
  <2>1. overdue \in SUBSET Nat
    BY <1>2, DbIs
  <2> QED BY <1>1, <2>1, MinOf
<1>4. m \in DOMAIN db.matches
  BY <1>2, <1>3
<1>5. Grows(db, db') /\ Books(db')
  BY <1>1, <1>2, NothingChanges
<1> HIDE DEF m, pc
<1>6. CASE db.matches[m].status = "pending"
  <2>1. pc \in {"approve", "deny"}
    BY DEF pc
  <2>2. Goto(Worker, [Idle EXCEPT !.pc = pc, !.report = m])
    BY <1>1, <1>6
  <2>3. Moved(Worker) /\ task'[Worker] = [Idle EXCEPT !.pc = pc, !.report = m]
    BY <1>1, <1>2, <1>4, <1>6, <2>1, <2>2, ReportRead
  <2> QED BY <1>1, <1>2, <1>4, <1>6, <2>3 DEF pc
<1>7. CASE db.matches[m].status # "pending"
  <2>1. Goto(Worker, Idle)
    BY <1>1, <1>7
  <2>2. Moved(Worker) /\ task'[Worker] = Idle
    BY <1>1, <1>2, <1>5, <2>1, Ends
  <2> QED BY <1>1, <1>2, <2>2
<1> QED BY <1>6, <1>7

LEMMA CrashFits ==
  ASSUME Whole, NEW p \in Procs, Crash(p)
  PROVE  Moved(p) /\ db' = db /\ task'[p] = Idle /\ overdue' \subseteq overdue /\ faults' \in 0..MaxFaults
         /\ task[p].pc # "idle"
<1>1. Goto(p, Idle) /\ db' = db /\ event' = event /\ faults < MaxFaults /\ faults' = faults + 1 /\ task[p].pc # "idle"
      /\ overdue' = IF p = Worker THEN {} ELSE overdue
  BY DEF Crash, At
<1>2. Books(db) /\ faults \in 0..MaxFaults /\ event \in Events
  BY DEF Whole
<1>3. MaxFaults \in Nat
  BY <1>2, TournamentAssumption DEF MaxFaults, Event
<1>4. Grows(db, db') /\ Books(db')
  BY <1>1, <1>2, NothingChanges
<1>5. Moved(p) /\ task'[p] = Idle
  BY <1>1, <1>4, Ends
<1> QED BY <1>1, <1>2, <1>3, <1>5

LEMMA GrowsOn ==
  ASSUME NEW d, Books(d), NEW c, Books(c), NEW e, Books(e), Grows(d, c), Grows(c, e)
  PROVE  Grows(d, e)
<1>1. /\ Len(d.slots) \in Nat /\ DOMAIN d.slots = 1..Len(d.slots) /\ Len(d.matches) \in Nat
      /\ DOMAIN d.matches = 1..Len(d.matches)
  BY DbIs
<1>2. /\ Len(c.slots) \in Nat /\ DOMAIN c.slots = 1..Len(c.slots) /\ Len(c.matches) \in Nat
      /\ DOMAIN c.matches = 1..Len(c.matches)
  BY DbIs
<1>3. Len(e.slots) \in Nat /\ Len(e.matches) \in Nat
  BY DbIs
<1>4. DOMAIN d.slots \subseteq DOMAIN c.slots /\ DOMAIN d.matches \subseteq DOMAIN c.matches
  BY <1>1, <1>2 DEF Grows
<1> QED BY <1>1, <1>2, <1>3, <1>4 DEF Grows

-----------------------------------------------------------------------------
(* Transactions.                                                           *)

LEMMA ReportFits ==
  ASSUME Whole, NEW i \in DOMAIN db.slots, NEW w \in db.slots[i].pair, Report(i, w)
  PROVE  LET row == [pair |-> db.slots[i].pair, winner |-> w, status |-> "pending", reported |-> TRUE]
         IN  /\ RowAdded(db, db', i, row, "pending_approval") /\ Books(db') /\ Grows(db, db')
             /\ db.status = "active" /\ db'.status = db.status /\ db'.places = db.places
             /\ db'.awards = db.awards /\ db.slots[i].status = "open"
<1> DEFINE s == db.slots[i]
           n == Len(db.matches) + 1
           row == [pair |-> s.pair, winner |-> w, status |-> "pending", reported |-> TRUE]
           f == Append(db.matches, row)
           g == [db.slots EXCEPT ![i] = Shown(s, n, "pending_approval")]
           v == [db EXCEPT !.matches = f]
<1>1. /\ Books(db) /\ db \in Db /\ s \in Slot /\ SlotFits(db, s) /\ n \in Nat /\ db.matches \in Seq(Match)
      /\ db.slots \in Seq(Slot)
  BY DbIs DEF Whole, LinksFit
<1>2. db.status = "active" /\ s.status = "open" /\ s.match = 0 /\ OpenSeries(db, i) = {}
  BY <1>1 DEF Report, SlotFits
<1>3. w \in Players /\ s.pair \in SUBSET Players
  BY <1>1 DEF Slot
<1>4. row \in Match /\ row.pair = s.pair /\ row.winner \in row.pair /\ row.reported
  BY <1>1, <1>3 DEF Match
<1>5. Shown(s, n, "pending_approval") \in Slot
  BY <1>1 DEF Slot, Shown
<1>6. [[s EXCEPT !.match = n] EXCEPT !.status = "pending_approval"] = Shown(s, n, "pending_approval")
  <2> DEFINE t == [pair |-> s.pair, round |-> s.round, status |-> s.status, match |-> n]
  <2>1. [s EXCEPT !.match = n] = t
    <3> HIDE DEF s, n
    <3> QED BY <1>1 DEF Slot
  <2>2. [t EXCEPT !.status = "pending_approval"]
           = [pair |-> s.pair, round |-> s.round, status |-> "pending_approval", match |-> n]
    <3> HIDE DEF s, n
    <3> QED OBVIOUS
  <2> HIDE DEF t, s, n
  <2> QED BY <2>1, <2>2 DEF Shown
<1>7. db' = [v EXCEPT !.slots = [[db.slots EXCEPT ![i].match = n] EXCEPT ![i].status = "pending_approval"]]
  <2>1. v.slots = db.slots
    BY <1>1 DEF Db
  <2>2. db' = [[v EXCEPT !.slots = [@ EXCEPT ![i].match = n]] EXCEPT !.slots = [@ EXCEPT ![i].status = "pending_approval"]]
    BY DEF Report
  <2> HIDE DEF v
  <2> DEFINE h == [db.slots EXCEPT ![i].match = n]
  <2>3. db' = [[v EXCEPT !.slots = h] EXCEPT !.slots = [@ EXCEPT ![i].status = "pending_approval"]]
    BY <2>1, <2>2
  <2>4. v \in Db
    <3>1. f \in Seq(Match)
      BY <1>1, <1>4
    <3> HIDE DEF f
    <3> QED BY <1>1, <3>1 DEF v, Db
  <2> HIDE DEF h
  <2>5. [v EXCEPT !.slots = h].slots = h
    BY <2>4 DEF Db
  <2>6. db' = [[v EXCEPT !.slots = h] EXCEPT !.slots = [h EXCEPT ![i].status = "pending_approval"]]
    BY <2>3, <2>5
  <2> QED BY <2>4, <2>6 DEF Db, h
<1>8. [[db.slots EXCEPT ![i].match = n] EXCEPT ![i].status = "pending_approval"] = g
  BY <1>1, <1>6
<1>9. f \in Seq(Match) /\ g \in Seq(Slot)
  BY <1>1, <1>4, <1>5
<1>10. db' = [v EXCEPT !.slots = g]
  BY <1>7, <1>8
<1> HIDE DEF f, g
<1>11. /\ db' \in Db /\ db'.matches = f /\ db'.slots = g /\ db'.series = db.series /\ db'.awards = db.awards
       /\ db'.status = db.status /\ db'.places = db.places
  BY <1>1, <1>9, <1>10 DEF Db
<1> DEFINE st == "pending_approval"
<1>12. RowAdded(db, db', i, row, st)
  BY <1>2, <1>4, <1>11 DEF RowAdded, f, g
<1> HIDE DEF st, row
<1>13. Books(db') /\ Grows(db, db')
  BY <1>1, <1>12, MatchAdded
<1> QED BY <1>2, <1>11, <1>12, <1>13 DEF st, row

LEMMA SetResultFits ==
  ASSUME Whole, NEW i \in DOMAIN db.slots, NEW w \in db.slots[i].pair, SetResult(i, w)
  PROVE  /\ Books(db') /\ Grows(db, db') /\ db.status = "active"
         /\ db.slots[i].status \in {"open", "pending_approval"}
         /\ db' \in Confirmed(Cleared(db, i), i, w)
<1> DEFINE c == Cleared(db, i)
<1>1. Books(db) /\ event \in Events
  BY DEF Whole
<1>2. db.status = "active" /\ db.slots[i].status \in {"open", "pending_approval"} /\ db' \in Confirmed(c, i, w)
  BY DEF SetResult, Cleared
<1>3. Books(c) /\ Grows(db, c) /\ DOMAIN c.slots = DOMAIN db.slots
  BY <1>1, <1>2, ClearedIs
<1> HIDE DEF c
<1>4. w \in c.slots[i].pair
  BY <1>3 DEF Grows
<1>5. Books(db') /\ Grows(c, db')
  BY <1>1, <1>2, <1>3, <1>4, ConfirmedIs
<1>6. Grows(db, db')
  BY <1>1, <1>3, <1>5, GrowsOn
<1> QED BY <1>2, <1>5, <1>6 DEF c

LEMMA ReopenFits ==
  ASSUME Whole, NEW i \in DOMAIN db.slots, Reopen(i)
  PROVE  /\ Books(db') /\ Grows(db, db') /\ format = "round_robin" /\ db' = Reopened(db, i)
         /\ db.slots[i].status = "completed" /\ db.slots[i].match # 0
<1>1. Books(db) /\ db.slots[i].status = "completed" /\ db.slots[i].match # 0 /\ format = "round_robin"
  BY DEF Whole, Reopen
<1>2. db' = Reopened(db, i)
  BY DEF Reopen, Reopened
<1> QED BY <1>1, <1>2, ReopenedIs

(* What Cancel and EndAsIs do.                                             *)
Ended(d, st) == [SeriesCancelled(d, DOMAIN d.slots) EXCEPT !.status = st]

LEMMA EndedIs ==
  ASSUME NEW d, Books(d), NEW st \in {"pending", "active", "completed", "cancelled"}
  PROVE  LET e == Ended(d, st)
         IN  /\ Books(e) /\ Grows(d, e) /\ e.status = st /\ e.slots = d.slots /\ e.matches = d.matches
             /\ e.awards = d.awards /\ e.places = d.places /\ DOMAIN e.series = DOMAIN d.series
             /\ \A k \in DOMAIN d.series :
                   /\ d.series[k].status = "open" => e.series[k].status = "cancelled"
                   /\ d.series[k].status # "open" => e.series[k] = d.series[k]
<1> DEFINE S == DOMAIN d.slots
           c == SeriesCancelled(d, S)
           e == [c EXCEPT !.status = st]
<1>1. \A k \in DOMAIN d.series : d.series[k].slot \in S
  BY DEF Books, SeriesFits
<1> HIDE DEF S
<1>2. /\ SeriesMoved(d, c) /\ c.places = d.places
      /\ \A k \in DOMAIN d.series :
            /\ d.series[k].status = "open" => c.series[k].status = "cancelled"
            /\ d.series[k].status # "open" => c.series[k] = d.series[k]
  BY <1>1, CancelledIs
<1>3. Books(c) /\ Grows(d, c)
  BY <1>2, MovedFits
<1> HIDE DEF c
<1>4. /\ Books(e) /\ Grows(c, e) /\ e.status = st /\ e.slots = c.slots /\ e.matches = c.matches
      /\ e.series = c.series /\ e.awards = c.awards /\ e.places = c.places
  BY <1>3, StatusSet
<1> HIDE DEF e
<1>5. Grows(d, e)
  BY <1>3, <1>4, GrowsOn
<1>6. Ended(d, st) = e
  BY DEF Ended, S, c, e
<1> QED BY <1>2, <1>4, <1>5, <1>6 DEF SeriesMoved

LEMMA EndFits ==
  ASSUME Whole, Cancel \/ EndAsIs
  PROVE  /\ Books(db') /\ Grows(db, db')
         /\ \E st \in {"cancelled", "completed"} :
               /\ db' = Ended(db, st) /\ db.status # "completed"
               /\ db'.status = st /\ db'.slots = db.slots /\ db'.matches = db.matches
               /\ db'.awards = db.awards /\ db'.places = db.places /\ DOMAIN db'.series = DOMAIN db.series
               /\ \A k \in DOMAIN db.series :
                     /\ db.series[k].status = "open" => db'.series[k].status = "cancelled"
                     /\ db.series[k].status # "open" => db'.series[k] = db.series[k]
<1>1. PICK st \in {"cancelled", "completed"} : db' = Ended(db, st) /\ db.status # "completed"
  BY DEF Cancel, EndAsIs, End, Ended
<1>2. Books(db) /\ st \in {"pending", "active", "completed", "cancelled"}
  BY DEF Whole
<1> QED BY <1>1, <1>2, EndedIs

LEMMA StartSeriesFits ==
  ASSUME Whole, NEW i \in DOMAIN db.slots, StartSeries(i)
  PROVE  /\ Books(db') /\ Grows(db, db') /\ db'.slots = db.slots /\ db'.matches = db.matches
         /\ db'.awards = db.awards /\ db'.status = db.status /\ db'.places = db.places
         /\ db.slots[i].status = "open" /\ db.slots[i].match = 0
         /\ DOMAIN db'.series = 1..(Len(db.series) + 1)
         /\ db'.series[Len(db.series) + 1].slot = i /\ db'.series[Len(db.series) + 1].status = "open"
         /\ \A k \in DOMAIN db.series : db'.series[k] = db.series[k]
<1>1. Books(db) /\ event \in Events /\ db.slots[i].status = "open" /\ db.slots[i].match = 0
      /\ OpenSeries(db, i) = {} /\ db' = Started(db, i)
  BY DEF Whole, StartSeries, Started
<1> QED BY <1>1, StartedIs

(* A series whose status changes.                                          *)
SeriesStatus(d, k, st) == [d EXCEPT !.series[k].status = st]

LEMMA StatusOfSeries ==
  ASSUME NEW d, Books(d), NEW k \in DOMAIN d.series, NEW st \in {"completed", "cancelled"}, NEW e,
         e = SeriesStatus(d, k, st),
         st = "completed" => d.series[k].winner \in d.slots[d.series[k].slot].pair
  PROVE  SeriesSet(d, e, k, st, d.series[k].winner, d.series[k].match, d.series[k].mark)
<1> DEFINE s == d.series[k]
<1>1. /\ s \in Series /\ s.mark <= Len(d.matches) /\ d \in Db /\ d.series \in Seq(Series)
      /\ s.match # 0 => s.match \in DOMAIN d.matches /\ d.matches[s.match].winner = s.winner
  BY SeriesOf DEF Books
<1>2. [s EXCEPT !.status = st] = Now(s, st, s.winner, s.match, s.mark)
  <2> HIDE DEF s
  <2> QED BY <1>1 DEF Now, Series
<1>3. s.winner \in Players \cup {Nobody} /\ s.match \in Nat /\ s.mark \in Nat
  BY <1>1 DEF Series
<1>4. e = [d EXCEPT !.series = [d.series EXCEPT ![k] = Now(s, st, s.winner, s.match, s.mark)]]
  BY <1>1, <1>2 DEF SeriesStatus
<1> QED BY <1>1, <1>3, <1>4 DEF SeriesSet

LEMMA CancelSeriesFits ==
  ASSUME Whole, NEW k \in DOMAIN db.series, db.series[k].status = "open",
         db' = SeriesStatus(db, k, "cancelled")
  PROVE  /\ Books(db') /\ Grows(db, db') /\ db'.slots = db.slots /\ db'.matches = db.matches
         /\ db'.awards = db.awards /\ db'.status = db.status /\ db'.places = db.places
         /\ DOMAIN db'.series = DOMAIN db.series /\ db'.series[k].status = "cancelled"
         /\ \A l \in DOMAIN db.series : l # k => db'.series[l] = db.series[l]
<1> DEFINE st == "cancelled"
           s == db.series[k]
<1>1. Books(db) /\ st \in {"completed", "cancelled"} /\ db' = SeriesStatus(db, k, st) /\ st # "completed"
  BY DEF Whole
<1> HIDE DEF st
<1>2. SeriesSet(db, db', k, st, s.winner, s.match, s.mark)
  BY <1>1, StatusOfSeries
<1> DEFINE winner == s.winner
           match == s.match
           mark == s.mark
<1>3. SeriesSet(db, db', k, st, winner, match, mark)
  BY <1>2
<1> HIDE DEF winner, match, mark
<1>4. /\ SeriesMoved(db, db') /\ db'.status = db.status /\ db'.places = db.places
      /\ db'.series[k] = Now(db.series[k], st, winner, match, mark)
      /\ \A l \in DOMAIN db.series : l # k => db'.series[l] = db.series[l]
  BY <1>1, <1>3, OneSeriesMoved
<1>5. Books(db') /\ Grows(db, db')
  BY <1>1, <1>4, MovedFits
<1> QED BY <1>4, <1>5 DEF SeriesMoved, Now, st

(* A series that is won, whatever is recorded then.                        *)
Won(d, k, w) ==
    [d EXCEPT !.series[k].status = "completed", !.series[k].winner = w, !.series[k].mark = Len(d.matches)]

LEMMA WonRow ==
  ASSUME NEW s \in Series, NEW w, NEW n
  PROVE  [[[s EXCEPT !.status = "completed"] EXCEPT !.winner = w] EXCEPT !.mark = n]
            = Now(s, "completed", w, s.match, n)
<1> DEFINE t == [slot |-> s.slot, status |-> "completed", winner |-> s.winner, match |-> s.match, mark |-> s.mark]
           u == [slot |-> s.slot, status |-> "completed", winner |-> w, match |-> s.match, mark |-> s.mark]
<1>1. [s EXCEPT !.status = "completed"] = t
  BY DEF Series
<1>2. [t EXCEPT !.winner = w] = u
  OBVIOUS
<1>3. [u EXCEPT !.mark = n] = Now(s, "completed", w, s.match, n)
  BY DEF Now
<1> HIDE DEF t, u
<1> QED BY <1>1, <1>2, <1>3

LEMMA WonIs ==
  ASSUME NEW d, Books(d), NEW k \in DOMAIN d.series, d.series[k].status = "open",
         NEW w \in d.slots[d.series[k].slot].pair
  PROVE  LET e == Won(d, k, w)
         IN  /\ Books(e) /\ Grows(d, e) /\ e.slots = d.slots /\ e.matches = d.matches
             /\ e.awards = d.awards /\ e.status = d.status /\ e.places = d.places
             /\ DOMAIN e.series = DOMAIN d.series
             /\ e.series[k] = Now(d.series[k], "completed", w, 0, Len(d.matches))
             /\ \A l \in DOMAIN d.series : l # k => e.series[l] = d.series[l]
<1> DEFINE s == d.series[k]
           n == Len(d.matches)
           e == Won(d, k, w)
           st == "completed"
           none == 0
<1>1. /\ s \in Series /\ s.match = 0 /\ d \in Db /\ d.series \in Seq(Series) /\ n \in Nat
      /\ s.slot \in DOMAIN d.slots /\ d.slots[s.slot] \in Slot
  BY SeriesOf, DbIs
<1>2. w \in Players \cup {Nobody}
  BY <1>1 DEF Slot
<1>3. e = [d EXCEPT !.series = [d.series EXCEPT ![k] = Now(s, st, w, none, n)]]
  <2> DEFINE f1 == [d.series EXCEPT ![k].status = "completed"]
             f2 == [f1 EXCEPT ![k].winner = w]
             f3 == [f2 EXCEPT ![k].mark = n]
             d1 == [d EXCEPT !.series = f1]
             d2 == [d1 EXCEPT !.series = f2]
  <2>1. f3 = [d.series EXCEPT ![k] = Now(s, st, w, none, n)]
    <3>1. [[[s EXCEPT !.status = "completed"] EXCEPT !.winner = w] EXCEPT !.mark = n] = Now(s, st, w, none, n)
      BY <1>1, WonRow
    <3>2. f1 = [d.series EXCEPT ![k] = [s EXCEPT !.status = "completed"]]
      OBVIOUS
    <3> DEFINE r1 == [s EXCEPT !.status = "completed"]
               r2 == [r1 EXCEPT !.winner = w]
               r3 == [r2 EXCEPT !.mark = n]
    <3> HIDE DEF r1, f1
    <3>3. f1[k] = r1 /\ f2 = [f1 EXCEPT ![k] = r2]
      BY <1>1, <3>2 DEF r1
    <3> HIDE DEF r2, f2
    <3>4. f2[k] = r2 /\ f3 = [f2 EXCEPT ![k] = r3]
      BY <1>1, <3>2, <3>3 DEF r2
    <3> HIDE DEF r3, f3
    <3>5. f3 = [d.series EXCEPT ![k] = r3]
      BY <1>1, <3>2, <3>3, <3>4
    <3>6. r3 = Now(s, st, w, none, n)
      BY <3>1 DEF r1, r2, r3
    <3> QED BY <3>5, <3>6
  <2>2. e = [[[d EXCEPT !.series = f1] EXCEPT !.series = [@ EXCEPT ![k].winner = w]]
               EXCEPT !.series = [@ EXCEPT ![k].mark = n]]
    BY DEF Won
  <2> HIDE DEF f1, e
  <2>3. d1.series = f1 /\ e = [[d1 EXCEPT !.series = [f1 EXCEPT ![k].winner = w]] EXCEPT !.series = [@ EXCEPT ![k].mark = n]]
    <3>1. d1.series = f1
      BY <1>1 DEF Db
    <3> QED BY <2>2, <3>1
  <2>4. e = [[d1 EXCEPT !.series = f2] EXCEPT !.series = [@ EXCEPT ![k].mark = n]]
    BY <2>3
  <2> HIDE DEF f2
  <2>5. [d1 EXCEPT !.series = f2] = [d EXCEPT !.series = f2] /\ [d EXCEPT !.series = f2].series = f2
    BY <1>1 DEF Db
  <2> HIDE DEF d1
  <2>6. e = [[d EXCEPT !.series = f2] EXCEPT !.series = f3]
    BY <2>4, <2>5
  <2> HIDE DEF f3
  <2>7. e = [d EXCEPT !.series = f3]
    BY <1>1, <2>6 DEF Db
  <2> QED BY <2>1, <2>7
<1>4. SeriesSet(d, e, k, st, w, none, n)
  BY <1>1, <1>2, <1>3 DEF SeriesSet
<1> HIDE DEF e, st, none, n
<1>5. /\ SeriesMoved(d, e) /\ e.status = d.status /\ e.places = d.places
      /\ e.series[k] = Now(d.series[k], st, w, none, n)
      /\ \A l \in DOMAIN d.series : l # k => e.series[l] = d.series[l]
  BY <1>4, OneSeriesMoved
<1>6. Books(e) /\ Grows(d, e)
  BY <1>5, MovedFits
<1> QED BY <1>5, <1>6 DEF SeriesMoved, e, st, none, n

(* What a series records: the result of its pairing, as its latest match.  *)
LEMMA RecordFits ==
  ASSUME event \in Events, NEW d, Books(d), NEW k \in DOMAIN d.series, d.series[k].status = "completed",
         NEW e \in Recorded(d, k)
  PROVE  LET i == d.series[k].slot
             n == Len(d.matches) + 1
         IN  /\ Books(e) /\ Grows(d, e) /\ i \in DOMAIN d.slots /\ d.slots[i].status # "completed" /\ d.slots[i].match = 0
             /\ \E c \in Confirmed(d, i, d.series[k].winner) :
                   /\ c.series = d.series /\ e.slots = c.slots /\ e.matches = c.matches /\ e.awards = c.awards
                   /\ e.status = c.status /\ e.places = c.places
             /\ DOMAIN e.series = DOMAIN d.series
             /\ e.series[k].status = "completed" /\ e.series[k].match = n /\ e.series[k].slot = i
             /\ \A l \in DOMAIN d.series : l # k => e.series[l] = d.series[l]
             /\ n \in Nat /\ n # 0 /\ e.matches[n] = Result(d, i, d.series[k].winner)
             /\ \A m \in DOMAIN d.matches : m \in DOMAIN e.matches /\ m # n /\ e.matches[m] = d.matches[m]
             /\ \A m \in DOMAIN e.matches : m \in DOMAIN d.matches \/ m = n
             /\ e.awards = d.awards \cup {n}
             /\ e.slots[i] = Shown(d.slots[i], n, "completed")
             /\ \A j \in DOMAIN d.slots : j \in DOMAIN e.slots /\ (j # i => e.slots[j] = d.slots[j])
             /\ \A j \in DOMAIN e.slots : j \notin DOMAIN d.slots => e.slots[j] \in NewRows
<1> DEFINE i == d.series[k].slot
           w == d.series[k].winner
           n == Len(d.matches) + 1
           st == "completed"
           mark == d.series[k].mark
<1>1. i \in DOMAIN d.slots /\ w \in d.slots[i].pair /\ d.series[k] \in Series
  BY SeriesOf
<1>2. PICK c \in Confirmed(d, i, w) :
         /\ Books(c) /\ Grows(d, c) /\ c.series = d.series
         /\ SeriesMoved(c, e) /\ e.status = c.status /\ e.places = c.places
         /\ e.series[k] = Now(d.series[k], st, w, Len(c.matches), mark)
         /\ \A l \in DOMAIN d.series : l # k => e.series[l] = d.series[l]
  BY RecordedIs
<1> HIDE DEF i, w, n, mark
<1>3. LET x == Len(d.matches) + 1
      IN  /\ d.slots[i].status # "completed" /\ d.slots[i].match = 0
          /\ c.awards = d.awards \cup {x}
          /\ x \in Nat /\ x # 0 /\ Len(c.matches) = x /\ c.matches[x] = Result(d, i, w)
          /\ \A m \in DOMAIN d.matches : m \in DOMAIN c.matches /\ m # x /\ c.matches[m] = d.matches[m]
          /\ \A m \in DOMAIN c.matches : m \in DOMAIN d.matches \/ m = x
          /\ c.slots[i] = Shown(d.slots[i], x, "completed")
          /\ \A j \in DOMAIN d.slots : j \in DOMAIN c.slots /\ (j # i => c.slots[j] = d.slots[j])
          /\ \A j \in DOMAIN c.slots : j \notin DOMAIN d.slots => c.slots[j] \in NewRows
  BY <1>1, <1>2, ConfirmedIs
<1>4. Books(e) /\ Grows(c, e)
  BY <1>2, MovedFits
<1>5. Grows(d, e)
  BY <1>2, <1>4, GrowsOn
<1>6. e.series[k].status = "completed" /\ e.series[k].match = Len(c.matches) /\ e.series[k].slot = d.series[k].slot
  BY <1>2 DEF Now
<1>7. /\ e.slots = c.slots /\ e.matches = c.matches /\ e.awards = c.awards /\ DOMAIN e.series = DOMAIN d.series
  BY <1>2 DEF SeriesMoved
<1> QED BY <1>1, <1>2, <1>3, <1>4, <1>5, <1>6, <1>7 DEF i, w, n

LEMMA SeriesDecidedFits ==
  ASSUME Whole, NEW k \in DOMAIN db.series, NEW w, SeriesDecided(k, w)
  PROVE  /\ Books(db') /\ Grows(db, db') /\ event' = event /\ task' = task /\ overdue' = overdue
         /\ faults' \in 0..MaxFaults /\ db.series[k].status = "open" /\ w \in db.slots[db.series[k].slot].pair
         /\ Books(Won(db, k, w))
         /\ \/ db' = SeriesStatus(db, k, "cancelled")
            \/ db.status = "active" /\ db' \in Recorded(Won(db, k, w), k)
            \/ db.status = "active" /\ db' = Won(db, k, w)
<1> DEFINE d == Won(db, k, w)
<1>1. /\ db.series[k].status = "open" /\ w \in db.slots[db.series[k].slot].pair
      /\ event' = event /\ task' = task /\ overdue' = overdue
      /\ faults' = faults \/ (faults < MaxFaults /\ faults' = faults + 1)
      /\ \/ db' = SeriesStatus(db, k, "cancelled")
         \/ db.status = "active" /\ db' \in Recorded(d, k)
         \/ db.status = "active" /\ db' = d
  BY DEF SeriesDecided, SeriesStatus, Won
<1>2. Books(db) /\ event \in Events /\ faults \in 0..MaxFaults
  BY DEF Whole
<1>3. faults' \in 0..MaxFaults
  <2>1. MaxFaults \in Nat
    BY <1>2, TournamentAssumption DEF MaxFaults, Event
  <2> QED BY <1>1, <1>2, <2>1
<1>4. Books(d) /\ Grows(db, d) /\ DOMAIN d.series = DOMAIN db.series /\ d.series[k].status = "completed"
  <2>1. /\ Books(d) /\ Grows(db, d) /\ DOMAIN d.series = DOMAIN db.series
        /\ d.series[k] = Now(db.series[k], "completed", w, 0, Len(db.matches))
    BY <1>1, <1>2, WonIs
  <2> HIDE DEF d
  <2> QED BY <2>1 DEF Now
<1> HIDE DEF d
<1>5. CASE db' = SeriesStatus(db, k, "cancelled")
  BY <1>1, <1>3, <1>4, <1>5, CancelSeriesFits DEF d
<1>6. CASE db' \in Recorded(d, k)
  <2>1. Books(db') /\ Grows(d, db')
    BY <1>2, <1>4, <1>6, RecordFits
  <2>2. Grows(db, db')
    BY <1>2, <1>4, <2>1, GrowsOn
  <2> QED BY <1>1, <1>3, <1>4, <2>1, <2>2 DEF d
<1>7. CASE db' = d
  BY <1>1, <1>3, <1>4, <1>7 DEF d
<1> QED BY <1>1, <1>5, <1>6, <1>7

LEMMA RetryFits ==
  ASSUME Whole, NEW k \in DOMAIN db.series, RetryResult(k)
  PROVE  Books(db') /\ Grows(db, db') /\ db' \in Recorded(db, k) /\ db.series[k].status = "completed" /\ Unrecorded(db, k)
<1>1. Books(db) /\ event \in Events /\ db' \in Recorded(db, k) /\ db.series[k].status = "completed"
      /\ Unrecorded(db, k)
  BY DEF Whole, RetryResult, Unrecorded
<1> QED BY <1>1, RecordFits

-----------------------------------------------------------------------------
(* The rows stay whole.                                                    *)

(* The tournament is decided once, so what a row may be is.                *)
LEMMA SameRows ==
  ASSUME event' = event
  PROVE  /\ Players' = Players /\ Slot' = Slot /\ Match' = Match /\ Series' = Series /\ Task' = Task
         /\ NewRows' = NewRows /\ format' = format /\ Db' = Db /\ NoPlaces' = NoPlaces
<1>1. Players' = Players /\ format' = format
  BY DEF Players, roster, format
<1>2. Slot' = Slot /\ Match' = Match /\ Series' = Series /\ NoPlaces' = NoPlaces
  BY <1>1 DEF Slot, Match, Series, NoPlaces
<1>3. Task' = Task /\ NewRows' = NewRows
  BY <1>2 DEF Task, NewRows, IsBye
<1>4. Db' = Db
  BY <1>1, <1>2 DEF Db
<1> QED BY <1>1, <1>2, <1>3, <1>4

LEMMA SameBooks ==
  ASSUME event' = event, Books(db')
  PROVE  Books(db)'
<1>1. Db' = Db
  BY SameRows
<1>2. LinksFit(db)' <=> LinksFit(db')
  BY DEF LinksFit, SlotFits
<1>3. ASSUME NEW k PROVE SeriesFits(db, k)' <=> SeriesFits(db', k)
  BY DEF SeriesFits
<1> QED BY <1>1, <1>2, <1>3 DEF Books

LEMMA SameTask ==
  ASSUME event' = event, NEW p, TaskFits(db', task'[p])
  PROVE  TaskFits(db, task[p])'
BY SameRows DEF TaskFits

LEMMA StaysWhole ==
  ASSUME Whole, event' = event, Books(db'), Grows(db, db'), task' \in [Procs -> Task],
         \A p \in Procs : TaskFits(db', task'[p]),
         overdue' \subseteq DOMAIN db'.matches, faults' \in 0..MaxFaults, torn' \in BOOLEAN
  PROVE  Whole'
<1>1. event' \in Events /\ Task' = Task /\ MaxFaults' = MaxFaults /\ Procs' = Procs
  BY SameRows DEF Whole, MaxFaults, Procs
<1>2. Books(db)'
  BY SameBooks
<1>3. \A p \in Procs : TaskFits(db, task[p])'
  BY SameTask
<1> QED BY <1>1, <1>2, <1>3 DEF Whole

LEMMA MovedWhole ==
  ASSUME Whole, NEW p \in Procs, Moved(p), overdue' \subseteq DOMAIN db.matches,
         faults' \in 0..MaxFaults, torn' \in BOOLEAN
  PROVE  Whole'
<1>1. Books(db) /\ task \in [Procs -> Task] /\ \A q \in Procs : TaskFits(db, task[q])
  BY DEF Whole
<1>2. event' = event /\ Books(db') /\ Grows(db, db') /\ task' = [task EXCEPT ![p] = task'[p]] /\ TaskFits(db', task'[p])
  BY DEF Moved
<1>3. overdue' \subseteq DOMAIN db'.matches
  BY <1>1, <1>2, DbIs DEF Grows
<1>4. ASSUME NEW q \in Procs PROVE TaskFits(db', task'[q])
  <2>1. CASE q = p
    BY <1>2, <2>1
  <2>2. CASE q # p
    <3>1. task'[q] = task[q]
      BY <1>1, <1>2, <2>2
    <3> QED BY <1>1, <1>2, <3>1, TaskStays
  <2> QED BY <2>1, <2>2
<1>5. task' \in [Procs -> Task]
  <2>1. task'[p] \in Task
    BY <1>4 DEF TaskFits
  <2> QED BY <1>1, <1>2, <2>1
<1> QED BY <1>2, <1>3, <1>4, <1>5, StaysWhole

LEMMA RowsMovedWhole ==
  ASSUME Whole, event' = event, task' = task, Books(db'), Grows(db, db'), overdue' \subseteq DOMAIN db.matches,
         faults' \in 0..MaxFaults, torn' \in BOOLEAN
  PROVE  Whole'
<1>1. Books(db) /\ task \in [Procs -> Task] /\ \A q \in Procs : TaskFits(db, task[q])
  BY DEF Whole
<1>2. overdue' \subseteq DOMAIN db'.matches
  BY <1>1, DbIs DEF Grows
<1>3. \A p \in Procs : TaskFits(db', task'[p])
  BY <1>1, TaskStays
<1> QED BY <1>1, <1>2, <1>3, StaysWhole

LEMMA InitWhole ==
  ASSUME Init
  PROVE  Whole
<1>1. event \in Events /\ task = [p \in Procs |-> Idle] /\ overdue = {} /\ faults = 0 /\ torn = FALSE
      /\ db = [status |-> "pending", slots |-> << >>, matches |-> << >>, series |-> << >>,
               awards |-> {}, places |-> NoPlaces]
  BY DEF Init
<1>2. db.status = "pending" /\ db.slots = << >> /\ db.matches = << >> /\ db.series = << >> /\ db.awards = {}
      /\ db.places = NoPlaces
  BY <1>1
<1>3. NoPlaces \in [Players -> {"none", "champion", "runnerUp", "top4"}]
  BY DEF NoPlaces
<1>4. db \in Db
  BY <1>1, <1>3 DEF Db
<1>5. Books(db)
  <2>1. DOMAIN db.slots = {} /\ DOMAIN db.matches = {} /\ DOMAIN db.series = {}
    BY <1>2
  <2> QED BY <1>2, <1>4, <2>1 DEF Books, LinksFit
<1>6. \A p \in Procs : TaskFits(db, task[p]) /\ task[p] = Idle
  BY <1>1, IdleFits
<1>7. task \in [Procs -> Task]
  <2>1. Idle \in Task
    BY DEF Idle, Task
  <2> QED BY <1>1, <2>1
<1>8. faults \in 0..MaxFaults
  BY <1>1, TournamentAssumption DEF MaxFaults, Event
<1> QED BY <1>1, <1>5, <1>6, <1>7, <1>8 DEF Whole

LEMMA StatementMoves ==
  ASSUME Whole, NEW p \in Procs, Statement(p)
  PROVE  Moved(p) /\ overdue' = overdue /\ faults' = faults
<1>1. CASE InsertPairing(p)
  BY <1>1, InsertPairingFits DEF InsertPairing, DbAndTask, Fixed
<1>2. CASE Activate(p)
  BY <1>2, ActivateFits DEF Activate, DbAndTask, Fixed
<1>3. CASE Decide(p)
  BY <1>3, DecideFits DEF Decide, DbAndTask, Fixed
<1>4. CASE FreeSlot(p)
  BY <1>4, FreeSlotFits DEF FreeSlot, DbAndTask, Fixed
<1>5. CASE FindSlot(p)
  BY <1>5, FindSlotFits DEF FindSlot, OnlyTask, Fixed
<1>6. CASE CompleteSlot(p)
  BY <1>6, CompleteSlotFits DEF CompleteSlot, DbAndTask, Fixed
<1>7. CASE Survey(p)
  BY <1>7, SurveyFits DEF Survey, OnlyTask, Fixed
<1>8. CASE CloseTournament(p)
  BY <1>8, CloseFits DEF CloseTournament, DbAndTask, Fixed
<1>9. CASE Place(p)
  BY <1>9, PlaceFits DEF Place, DbAndTask, Fixed
<1>10. CASE ReadScore(p)
  BY <1>10, ReadScoreFits DEF ReadScore, OnlyTask, Fixed
<1>11. CASE Award(p)
  BY <1>11, AwardFits DEF Award, DbAndTask, Fixed
<1> QED BY <1>1, <1>2, <1>3, <1>4, <1>5, <1>6, <1>7, <1>8, <1>9, <1>10, <1>11 DEF Statement

LEMMA TransactionMoves ==
  ASSUME Whole, Transaction
  PROVE  Books(db') /\ Grows(db, db') /\ event' = event /\ task' = task /\ overdue' = overdue
         /\ faults' \in 0..MaxFaults
<1> DEFINE Goal == Books(db') /\ Grows(db, db') /\ event' = event /\ task' = task /\ overdue' = overdue
                   /\ faults' \in 0..MaxFaults
<1>0. faults \in 0..MaxFaults /\ (OnlyDb => event' = event /\ task' = task /\ overdue' = overdue /\ faults' \in 0..MaxFaults)
  BY DEF Whole, OnlyDb, Fixed
<1>1. ASSUME NEW i \in RealSlots(db), NEW w \in db.slots[i].pair, Report(i, w) PROVE Goal
  <2>1. i \in DOMAIN db.slots /\ OnlyDb
    BY <1>1 DEF RealSlots, Report
  <2> QED BY <1>0, <1>1, <2>1, ReportFits
<1>2. ASSUME NEW i \in RealSlots(db), NEW w \in db.slots[i].pair, SetResult(i, w) PROVE Goal
  <2>1. i \in DOMAIN db.slots /\ OnlyDb
    BY <1>2 DEF RealSlots, SetResult
  <2> QED BY <1>0, <1>2, <2>1, SetResultFits
<1>3. ASSUME NEW i \in RealSlots(db), Reopen(i) PROVE Goal
  <2>1. i \in DOMAIN db.slots /\ OnlyDb
    BY <1>3 DEF RealSlots, Reopen
  <2> QED BY <1>0, <1>3, <2>1, ReopenFits
<1>4. ASSUME NEW i \in RealSlots(db), StartSeries(i) PROVE Goal
  <2>1. i \in DOMAIN db.slots /\ OnlyDb
    BY <1>4 DEF RealSlots, StartSeries
  <2> QED BY <1>0, <1>4, <2>1, StartSeriesFits
<1>5. ASSUME NEW k \in DOMAIN db.series, CancelSeries(k) PROVE Goal
  <2>1. db.series[k].status = "open" /\ db' = SeriesStatus(db, k, "cancelled") /\ OnlyDb
    BY <1>5 DEF CancelSeries, SeriesStatus
  <2> QED BY <1>0, <2>1, CancelSeriesFits
<1>6. ASSUME NEW k \in DOMAIN db.series, RetryResult(k) PROVE Goal
  <2>1. OnlyDb
    BY <1>6 DEF RetryResult
  <2> QED BY <1>0, <1>6, <2>1, RetryFits
<1>7. ASSUME NEW k \in DOMAIN db.series, NEW w \in Players, SeriesDecided(k, w) PROVE Goal
  BY <1>7, SeriesDecidedFits
<1>8. ASSUME Cancel \/ EndAsIs PROVE Goal
  <2>1. OnlyDb
    BY <1>8 DEF Cancel, EndAsIs
  <2> QED BY <1>0, <1>8, <2>1, EndFits
<1> HIDE DEF Goal
<1>9. Goal
  <2>1. CASE \E i \in RealSlots(db) : \/ \E w \in db.slots[i].pair : Report(i, w) \/ SetResult(i, w)
                                     \/ Reopen(i) \/ StartSeries(i)
    <3>1. PICK i \in RealSlots(db) : \/ \E w \in db.slots[i].pair : Report(i, w) \/ SetResult(i, w)
                                     \/ Reopen(i) \/ StartSeries(i)
      BY <2>1
    <3>2. CASE \E w \in db.slots[i].pair : Report(i, w) \/ SetResult(i, w)
      BY <1>1, <1>2, <3>2
    <3> QED BY <1>3, <1>4, <3>1, <3>2
  <2>2. CASE \E k \in DOMAIN db.series : \/ CancelSeries(k) \/ RetryResult(k)
                                         \/ \E w \in Players : SeriesDecided(k, w)
    BY <1>5, <1>6, <1>7, <2>2
  <2> QED BY <1>8, <2>1, <2>2 DEF Transaction
<1> QED BY <1>9 DEF Goal

LEMMA StepStaysWhole ==
  ASSUME Whole, [Next]_vars
  PROVE  Whole'
<1>0. /\ Books(db) /\ Grows(db, db) /\ overdue \subseteq DOMAIN db.matches /\ faults \in 0..MaxFaults /\ torn \in BOOLEAN
      /\ Worker \in Procs /\ Frontends \subseteq Procs
  BY NothingChanges DEF Whole, Procs
<1>1. Watch => torn' \in BOOLEAN
  BY DEF Watch
<1>2. ASSUME NEW p \in Frontends, Start(p) /\ Watch PROVE Whole'
  BY <1>0, <1>1, <1>2, StartFits, MovedWhole DEF Start, OnlyTask, Fixed
<1>3. ASSUME NEW p \in Frontends, NEW m \in DOMAIN db.matches, NEW v \in {"approve", "deny"}, ReadReport(p, m, v) /\ Watch
      PROVE  Whole'
  <2>0. p \in Procs /\ ReadReport(p, m, v)
    BY <1>0, <1>3
  <2>2. db.matches[m].status = "pending" /\ Goto(p, [Idle EXCEPT !.pc = v, !.report = m]) /\ db' = db /\ event' = event
    BY <2>0 DEF ReadReport, OnlyTask, Fixed
  <2>1. Moved(p)
    BY <2>0, <2>2, ReportRead
  <2> QED BY <1>0, <1>1, <1>3, <2>1, MovedWhole DEF ReadReport, OnlyTask, Fixed
<1>4. ASSUME NEW late \in SUBSET DOMAIN db.matches, Tick(late) /\ Watch PROVE Whole'
  <2>1. db' = db /\ task' = task /\ event' = event /\ overdue' = late /\ faults' = faults
    BY <1>4 DEF Tick, Fixed
  <2>2. Books(db') /\ Grows(db, db') /\ overdue' \subseteq DOMAIN db.matches /\ faults' \in 0..MaxFaults /\ torn' \in BOOLEAN
    BY <1>0, <1>1, <1>4, <2>1
  <2> QED BY <2>1, <2>2, RowsMovedWhole
<1>5. CASE ReadOverdue /\ Watch
  <2>1. Moved(Worker) /\ overdue' \subseteq DOMAIN db.matches /\ faults' = faults
    BY <1>5, ReadOverdueFits DEF ReadOverdue, Fixed
  <2> QED BY <1>0, <1>1, <1>5, <2>1, MovedWhole
<1>6. ASSUME NEW p \in Procs, Statement(p) /\ Watch PROVE Whole'
  <2>1. Moved(p) /\ overdue' = overdue /\ faults' = faults
    BY <1>6, StatementMoves
  <2> QED BY <1>0, <1>1, <1>6, <2>1, MovedWhole
<1>7. CASE Transaction /\ Watch
  BY <1>0, <1>1, <1>7, TransactionMoves, RowsMovedWhole
<1>8. ASSUME NEW p \in Procs, Crash(p), torn' = (torn \/ task[p].pc \notin {"approve", "deny"}) PROVE Whole'
  <2>1. Moved(p) /\ overdue' \subseteq overdue /\ faults' \in 0..MaxFaults
    BY <1>8, CrashFits
  <2>2. torn' \in BOOLEAN
    BY <1>8
  <2> QED BY <1>0, <2>1, <2>2, MovedWhole
<1>9. CASE UNCHANGED vars
  <2>1. db' = db /\ task' = task /\ event' = event /\ overdue' = overdue /\ faults' = faults /\ torn' = torn
    BY <1>9 DEF vars
  <2>2. Books(db') /\ Grows(db, db') /\ overdue' \subseteq DOMAIN db.matches /\ faults' \in 0..MaxFaults /\ torn' \in BOOLEAN
    BY <1>0, <2>1
  <2> QED BY <2>1, <2>2, RowsMovedWhole
<1> QED BY <1>2, <1>3, <1>4, <1>5, <1>6, <1>7, <1>8, <1>9 DEF Next

LEMMA AlwaysWhole == Spec => []Whole
<1>1. Init => Whole
  BY InitWhole
<1>2. Whole /\ [Next]_vars => Whole'
  BY StepStaysWhole
<1> QED BY <1>1, <1>2, PTL DEF Spec

(* The rows of the database keep their shape and the links between them,   *)
(* whatever the order of reports, decisions, results and restarts.         *)
THEOREM TournamentTypeCorrect == Spec => []TypeOK
<1>1. Whole => TypeOK
  <2> SUFFICES ASSUME Whole PROVE TypeOK
    OBVIOUS
  <2>1. Books(db) /\ db \in Db /\ LinksFit(db) /\ \A k \in DOMAIN db.series : SeriesFits(db, k)
    BY DEF Whole, Books
  <2>2. /\ db.status \in {"pending", "active", "completed", "cancelled"}
        /\ db.slots \in Seq(Slot) /\ db.matches \in Seq(Match) /\ db.series \in Seq(Series)
        /\ db.awards \subseteq DOMAIN db.matches
        /\ db.places \in [Players -> {"none", "champion", "runnerUp", "top4"}]
    BY <2>1 DEF Db, LinksFit
  <2>3. \A i \in DOMAIN db.slots :
           LET s == db.slots[i]
           IN  Cardinality(s.pair) \in {1, 2}
               /\ s.match # 0 => s.match \in DOMAIN db.matches /\ db.matches[s.match].pair = s.pair
    BY <2>1 DEF LinksFit, SlotFits
  <2>4. \A k \in DOMAIN db.series :
           LET s == db.series[k]
           IN  s.match # 0 => s.match \in DOMAIN db.matches
                              /\ db.matches[s.match].winner = s.winner
    BY <2>1 DEF SeriesFits
  <2> QED BY <2>2, <2>3, <2>4 DEF TypeOK, Whole
<1> QED BY <1>1, AlwaysWhole, PTL

-----------------------------------------------------------------------------
(* What transactions do to the pairings and their matches.                 *)

(* A report of pairing i.                                                  *)
Reported(d, e, i) ==
    LET n == Len(d.matches) + 1
    IN  /\ i \in DOMAIN d.slots /\ d.slots[i].status = "open" /\ d.slots[i].match = 0
        /\ d.status = "active" /\ OpenSeries(d, i) = {}
        /\ e.slots[i] = Shown(d.slots[i], n, "pending_approval") /\ DOMAIN e.slots = DOMAIN d.slots
        /\ \A j \in DOMAIN d.slots : j # i => e.slots[j] = d.slots[j]
        /\ n \in DOMAIN e.matches /\ e.matches[n].status = "pending" /\ e.matches[n].reported
        /\ e.matches[n].pair = d.slots[i].pair
        /\ \A m \in DOMAIN d.matches : m \in DOMAIN e.matches /\ m # n /\ e.matches[m] = d.matches[m]
        /\ \A m \in DOMAIN e.matches : m \in DOMAIN d.matches \/ m = n
        /\ e.awards = d.awards /\ e.series = d.series /\ e.status = d.status /\ e.places = d.places

(* A result of pairing i that nobody has to approve.                       *)
Settled(d, e, i) ==
    LET n == Len(d.matches) + 1
    IN  /\ i \in DOMAIN d.slots /\ d.slots[i].status \in {"open", "pending_approval"}
        /\ e.slots[i] = Shown(d.slots[i], n, "completed")
        /\ \A j \in DOMAIN d.slots : j \in DOMAIN e.slots /\ (j # i => e.slots[j] = d.slots[j])
        /\ \A j \in DOMAIN e.slots : j \notin DOMAIN d.slots => e.slots[j] \in NewRows
        /\ n \in DOMAIN e.matches /\ n # 0 /\ e.matches[n].status = "approved" /\ ~e.matches[n].reported
        /\ e.matches[n].pair = d.slots[i].pair
        /\ \A m \in DOMAIN d.matches : /\ m \in DOMAIN e.matches /\ m # n
                                       /\ m # d.slots[i].match => e.matches[m] = d.matches[m]
        /\ d.slots[i].match # 0 => e.matches[d.slots[i].match].status = Verdict(d, d.slots[i].match)
        /\ \A m \in DOMAIN e.matches : m \in DOMAIN d.matches \/ m = n
        /\ e.awards = d.awards \cup {n}

LEMMA ReportIs ==
  ASSUME Whole, NEW i \in DOMAIN db.slots, NEW w \in db.slots[i].pair, Report(i, w)
  PROVE  Reported(db, db', i)
<1> DEFINE row == [pair |-> db.slots[i].pair, winner |-> w, status |-> "pending", reported |-> TRUE]
           st == "pending_approval"
           n == Len(db.matches) + 1
<1>1. /\ RowAdded(db, db', i, row, st) /\ Books(db') /\ Books(db)
      /\ db.status = "active" /\ db'.status = db.status /\ db'.places = db.places
      /\ db'.awards = db.awards /\ db.slots[i].status = "open"
  BY ReportFits DEF Whole
<1>2. row.status = "pending" /\ row.reported /\ row.pair = db.slots[i].pair
  OBVIOUS
<1> HIDE DEF row, st
<1>3. /\ DOMAIN db'.slots = DOMAIN db.slots /\ Len(db'.matches) = n /\ db'.matches[n] = row
      /\ \A m \in DOMAIN db.matches : m \in DOMAIN db'.matches /\ m # n /\ db'.matches[m] = db.matches[m]
      /\ \A m \in DOMAIN db'.matches : m \in DOMAIN db.matches \/ m = n
  BY <1>1, MatchAdded
<1>4. n \in DOMAIN db'.matches /\ n \in Nat
  <2>1. Len(db.matches) \in Nat /\ DOMAIN db'.matches = 1..Len(db'.matches)
    BY <1>1, DbIs
  <2> QED BY <1>3, <2>1
<1>5. /\ db'.slots = [db.slots EXCEPT ![i] = Shown(db.slots[i], n, st)] /\ db.slots[i].match = 0
      /\ db'.series = db.series /\ OpenSeries(db, i) = {}
  BY <1>1 DEF RowAdded, st
<1>6. db'.slots[i] = Shown(db.slots[i], n, st) /\ \A j \in DOMAIN db.slots : j # i => db'.slots[j] = db.slots[j]
  BY <1>5
<1> HIDE DEF n
<1> QED BY <1>1, <1>2, <1>3, <1>4, <1>5, <1>6 DEF Reported, st, n

(* A result by the organizer, and one that a series records.               *)
LEMMA ClearedThenConfirmed ==
  ASSUME event \in Events, NEW d, Books(d), NEW i \in DOMAIN d.slots, NEW w \in d.slots[i].pair,
         NEW c, Books(c), Grows(d, c), c.awards = d.awards, DOMAIN c.slots = DOMAIN d.slots,
         d.slots[i].status \in {"open", "pending_approval"},
         c.slots[i] = Shown(d.slots[i], 0, "open"),
         \A j \in DOMAIN d.slots : j # i => c.slots[j] = d.slots[j],
         DOMAIN c.matches = DOMAIN d.matches,
         d.slots[i].match # 0 => c.matches[d.slots[i].match].status = Verdict(d, d.slots[i].match),
         \A m \in DOMAIN d.matches : m # d.slots[i].match => c.matches[m] = d.matches[m],
         NEW e \in Confirmed(c, i, w)
  PROVE  Settled(d, e, i)
<1> DEFINE n == Len(d.matches) + 1
<1>1. Len(d.matches) \in Nat /\ Len(c.matches) = Len(d.matches)
  <2>1. DOMAIN c.matches = 1..Len(c.matches) /\ DOMAIN d.matches = 1..Len(d.matches) /\ Len(c.matches) \in Nat
        /\ Len(d.matches) \in Nat
    BY DbIs
  <2> DEFINE a == Len(c.matches)
             b == Len(d.matches)
  <2>2. a \in Nat /\ b \in Nat /\ 1..a = 1..b
    BY <2>1
  <2> HIDE DEF a, b
  <2>3. a \in 1..b \/ a = 0
    BY <2>2
  <2>4. b \in 1..a \/ b = 0
    BY <2>2
  <2>5. a = b
    BY <2>2, <2>3, <2>4
  <2> QED BY <2>2, <2>5 DEF a, b
<1>2. w \in c.slots[i].pair
  BY DEF Grows
<1>3. /\ Books(e) /\ e.awards = c.awards \cup {n}
      /\ n \in Nat /\ n # 0 /\ Len(e.matches) = n /\ e.matches[n] = Result(c, i, w)
      /\ \A m \in DOMAIN c.matches : m \in DOMAIN e.matches /\ m # n /\ e.matches[m] = c.matches[m]
      /\ \A m \in DOMAIN e.matches : m \in DOMAIN c.matches \/ m = n
      /\ e.slots[i] = Shown(c.slots[i], n, "completed")
      /\ \A j \in DOMAIN c.slots : j \in DOMAIN e.slots /\ (j # i => e.slots[j] = c.slots[j])
      /\ \A j \in DOMAIN e.slots : j \notin DOMAIN c.slots => e.slots[j] \in NewRows
  <2> DEFINE x == Len(c.matches) + 1
  <2>1. /\ Books(e) /\ e.awards = c.awards \cup {x}
        /\ x \in Nat /\ x # 0 /\ Len(e.matches) = x /\ e.matches[x] = Result(c, i, w)
        /\ \A m \in DOMAIN c.matches : m \in DOMAIN e.matches /\ m # x /\ e.matches[m] = c.matches[m]
        /\ \A m \in DOMAIN e.matches : m \in DOMAIN c.matches \/ m = x
        /\ e.slots[i] = Shown(c.slots[i], x, "completed")
        /\ \A j \in DOMAIN c.slots : j \in DOMAIN e.slots /\ (j # i => e.slots[j] = c.slots[j])
        /\ \A j \in DOMAIN e.slots : j \notin DOMAIN c.slots => e.slots[j] \in NewRows
    BY <1>2, ConfirmedIs
  <2>2. n = x
    BY <1>1
  <2> HIDE DEF n, x
  <2> QED BY <2>1, <2>2
<1>4. n \in DOMAIN e.matches
  BY <1>3, DbIs
<1>5. e.matches[n].status = "approved" /\ ~e.matches[n].reported /\ e.matches[n].pair = d.slots[i].pair
  <2>1. Result(c, i, w).status = "approved" /\ ~Result(c, i, w).reported /\ Result(c, i, w).pair = c.slots[i].pair
    BY DEF Result
  <2> QED BY <1>3, <2>1 DEF Grows
<1>6. e.slots[i] = Shown(d.slots[i], n, "completed")
  BY <1>3 DEF Shown
<1>7. d.slots[i].match # 0 => d.slots[i].match \in DOMAIN d.matches
  BY DEF Books, LinksFit, SlotFits
<1> HIDE DEF n
<1> QED BY <1>3, <1>4, <1>5, <1>6, <1>7 DEF Settled, n

LEMMA SetResultIs ==
  ASSUME Whole, NEW i \in DOMAIN db.slots, NEW w \in db.slots[i].pair, SetResult(i, w)
  PROVE  Settled(db, db', i)
<1> DEFINE c == Cleared(db, i)
<1>1. Books(db) /\ event \in Events
  BY DEF Whole
<1>2. db.status = "active" /\ db.slots[i].status \in {"open", "pending_approval"} /\ db' \in Confirmed(c, i, w)
  BY SetResultFits
<1>3. LET m == db.slots[i].match
      IN  /\ Books(c) /\ Grows(db, c) /\ c.awards = db.awards
          /\ DOMAIN c.slots = DOMAIN db.slots /\ c.slots[i] = Shown(db.slots[i], 0, "open")
          /\ \A j \in DOMAIN db.slots : j # i => c.slots[j] = db.slots[j]
          /\ DOMAIN c.matches = DOMAIN db.matches
          /\ m # 0 => m \in DOMAIN db.matches /\ c.matches[m].status = Verdict(db, m)
          /\ \A n \in DOMAIN db.matches : n # m => c.matches[n] = db.matches[n]
  BY <1>1, <1>2, ClearedIs
<1> HIDE DEF c
<1>4. db.slots[i].match # 0 => c.matches[db.slots[i].match].status = Verdict(db, db.slots[i].match)
  BY <1>3
<1> QED BY <1>1, <1>2, <1>3, <1>4, ClearedThenConfirmed

LEMMA RecordedSettles ==
  ASSUME event \in Events, NEW d, Books(d), NEW k \in DOMAIN d.series,
         d.series[k].status = "completed", NEW e \in Recorded(d, k)
  PROVE  Settled(d, e, d.series[k].slot)
<1> DEFINE i == d.series[k].slot
           w == d.series[k].winner
           n == Len(d.matches) + 1
<1>1. /\ Books(e) /\ i \in DOMAIN d.slots /\ d.slots[i].status # "completed" /\ d.slots[i].match = 0
      /\ n \in Nat /\ n # 0 /\ e.matches[n] = Result(d, i, w)
      /\ \A m \in DOMAIN d.matches : m \in DOMAIN e.matches /\ m # n /\ e.matches[m] = d.matches[m]
      /\ \A m \in DOMAIN e.matches : m \in DOMAIN d.matches \/ m = n
      /\ e.awards = d.awards \cup {n}
      /\ e.slots[i] = Shown(d.slots[i], n, "completed")
      /\ \A j \in DOMAIN d.slots : j \in DOMAIN e.slots /\ (j # i => e.slots[j] = d.slots[j])
      /\ \A j \in DOMAIN e.slots : j \notin DOMAIN d.slots => e.slots[j] \in NewRows
  BY RecordFits
<1>2. Result(d, i, w).status = "approved" /\ ~Result(d, i, w).reported /\ Result(d, i, w).pair = d.slots[i].pair
  BY DEF Result
<1>3. n \in DOMAIN e.matches
  <2>1. e.awards \subseteq DOMAIN e.matches
    BY <1>1 DEF Books, LinksFit
  <2> QED BY <1>1, <2>1
<1>4. d.slots[i].status \in {"open", "pending_approval"}
  <2>1. d.slots[i] \in Slot
    BY <1>1, DbIs
  <2> QED BY <1>1, <2>1 DEF Slot
<1> HIDE DEF i, w, n
<1> QED BY <1>1, <1>2, <1>3, <1>4 DEF Settled, i, n

(* A reopened pairing.                                                     *)
Reopening(d, e, i) ==
    LET m == d.slots[i].match
    IN  /\ i \in DOMAIN d.slots /\ d.slots[i].status = "completed" /\ m # 0
        /\ e.slots[i] = Shown(d.slots[i], 0, "open") /\ DOMAIN e.slots = DOMAIN d.slots
        /\ \A j \in DOMAIN d.slots : j # i => e.slots[j] = d.slots[j]
        /\ m \in DOMAIN d.matches /\ e.matches[m].status = "denied" /\ DOMAIN e.matches = DOMAIN d.matches
        /\ \A n \in DOMAIN d.matches : n # m => e.matches[n] = d.matches[n]
        /\ e.awards \subseteq d.awards /\ m \notin e.awards
        /\ \A a \in d.awards : a # m /\ Approved(d, a) => a \in e.awards
        /\ e.series = d.series
        /\ e.status = IF d.status = "completed" THEN "active" ELSE d.status

LEMMA ReopenedReopens ==
  ASSUME NEW d, Books(d), NEW i \in DOMAIN d.slots, d.slots[i].match # 0, d.slots[i].status = "completed"
  PROVE  Reopening(d, Reopened(d, i), i)
<1> DEFINE e == Reopened(d, i)
           m == d.slots[i].match
           kept == {a \in d.awards : Approved(e, a)}
           lost == Approved(d, m) \/ m \in d.awards
<1>1. /\ e.series = d.series /\ e.status = IF d.status = "completed" THEN "active" ELSE d.status
      /\ DOMAIN e.slots = DOMAIN d.slots /\ e.slots[i] = Shown(d.slots[i], 0, "open")
      /\ \A j \in DOMAIN d.slots : j # i => e.slots[j] = d.slots[j]
      /\ DOMAIN e.matches = DOMAIN d.matches /\ m \in DOMAIN d.matches /\ e.matches[m].status = "denied"
      /\ \A n \in DOMAIN d.matches : n # m => e.matches[n] = d.matches[n]
      /\ e.awards = IF lost THEN kept ELSE d.awards
  BY ReopenedIs
<1>2. d.awards \subseteq DOMAIN d.matches
  BY DEF Books, LinksFit
<1>3. \A a : a \in kept <=> a \in d.awards /\ Approved(e, a)
  OBVIOUS
<1> HIDE DEF kept, e
<1>4. ~Approved(e, m) /\ \A a \in d.awards : a # m => (Approved(e, a) <=> Approved(d, a))
  BY <1>1, <1>2 DEF Approved
<1>5. /\ e.awards \subseteq d.awards /\ m \notin e.awards
      /\ \A a \in d.awards : a # m /\ Approved(d, a) => a \in e.awards
  BY <1>1, <1>3, <1>4
<1> HIDE DEF lost, m
<1> QED BY <1>1, <1>5 DEF Reopening, e, m

LEMMA ReopenIs ==
  ASSUME Whole, NEW i \in DOMAIN db.slots, Reopen(i)
  PROVE  Reopening(db, db', i)
<1>1. Books(db) /\ db' = Reopened(db, i) /\ db.slots[i].match # 0 /\ db.slots[i].status = "completed"
  BY ReopenFits DEF Whole
<1> QED BY <1>1, ReopenedReopens

(* The pairings, the matches and the awards stay as they are.              *)
Untouched(d, e) == e.slots = d.slots /\ e.matches = d.matches /\ e.awards = d.awards

LEMMA SeriesDecidedIs ==
  ASSUME Whole, NEW k \in DOMAIN db.series, NEW w, SeriesDecided(k, w)
  PROVE  Untouched(db, db') \/ \E i \in DOMAIN db.slots : Settled(db, db', i)
<1> DEFINE d == Won(db, k, w)
<1>1. /\ db.series[k].status = "open" /\ w \in db.slots[db.series[k].slot].pair /\ Books(d)
      /\ \/ db' = SeriesStatus(db, k, "cancelled")
         \/ db.status = "active" /\ db' \in Recorded(d, k)
         \/ db.status = "active" /\ db' = d
  BY SeriesDecidedFits
<1>2. Books(db) /\ event \in Events /\ db.series[k].slot \in DOMAIN db.slots
  BY SeriesOf DEF Whole
<1>3. /\ d.slots = db.slots /\ d.matches = db.matches /\ d.awards = db.awards /\ d.status = db.status
      /\ DOMAIN d.series = DOMAIN db.series /\ d.series[k] = Now(db.series[k], "completed", w, 0, Len(db.matches))
  BY <1>1, <1>2, WonIs
<1> HIDE DEF d
<1>4. CASE db' = SeriesStatus(db, k, "cancelled")
  BY <1>1, <1>4, CancelSeriesFits DEF Untouched
<1>5. CASE db.status = "active" /\ db' \in Recorded(d, k)
  <2>1. d.series[k].status = "completed" /\ d.series[k].slot = db.series[k].slot
    BY <1>3 DEF Now
  <2>2. Settled(d, db', d.series[k].slot)
    BY <1>1, <1>2, <1>3, <1>5, <2>1, RecordedSettles
  <2>3. Settled(db, db', d.series[k].slot)
    BY <1>3, <2>2 DEF Settled, Verdict
  <2> QED BY <1>2, <2>1, <2>3
<1>6. CASE db' = d
  BY <1>3, <1>6 DEF Untouched
<1> QED BY <1>1, <1>4, <1>5, <1>6

LEMMA TransactionIs ==
  ASSUME Whole, Transaction
  PROVE  \/ Untouched(db, db')
         \/ \E i \in DOMAIN db.slots : \/ Reported(db, db', i) \/ Settled(db, db', i) \/ Reopen(i)
<1> DEFINE Goal == \/ Untouched(db, db')
                   \/ \E i \in DOMAIN db.slots : \/ Reported(db, db', i) \/ Settled(db, db', i) \/ Reopen(i)
<1>0. RealSlots(db) \subseteq DOMAIN db.slots /\ Books(db) /\ event \in Events
  BY DEF RealSlots, Whole
<1>1. ASSUME NEW i \in RealSlots(db), NEW w \in db.slots[i].pair, Report(i, w) PROVE Goal
  BY <1>0, <1>1, ReportIs
<1>2. ASSUME NEW i \in RealSlots(db), NEW w \in db.slots[i].pair, SetResult(i, w) PROVE Goal
  BY <1>0, <1>2, SetResultIs
<1>3. ASSUME NEW i \in RealSlots(db), Reopen(i) PROVE Goal
  BY <1>0, <1>3
<1>4. ASSUME NEW i \in RealSlots(db), StartSeries(i) PROVE Goal
  BY <1>0, <1>4, StartSeriesFits DEF Untouched
<1>5. ASSUME NEW k \in DOMAIN db.series, CancelSeries(k) PROVE Goal
  <2>1. db.series[k].status = "open" /\ db' = SeriesStatus(db, k, "cancelled")
    BY <1>5 DEF CancelSeries, SeriesStatus
  <2> QED BY <2>1, CancelSeriesFits DEF Untouched
<1>6. ASSUME NEW k \in DOMAIN db.series, RetryResult(k) PROVE Goal
  <2>1. db' \in Recorded(db, k) /\ db.series[k].status = "completed" /\ db.series[k].slot \in DOMAIN db.slots
    BY <1>0, <1>6, RetryFits, SeriesOf
  <2>2. Settled(db, db', db.series[k].slot)
    BY <1>0, <2>1, RecordedSettles
  <2> QED BY <2>1, <2>2
<1>7. ASSUME NEW k \in DOMAIN db.series, NEW w \in Players, SeriesDecided(k, w) PROVE Goal
  BY <1>7, SeriesDecidedIs
<1>8. ASSUME Cancel \/ EndAsIs PROVE Goal
  BY <1>8, EndFits DEF Untouched
<1> HIDE DEF Goal
<1>9. Goal
  <2>1. CASE \E i \in RealSlots(db) : \/ \E w \in db.slots[i].pair : Report(i, w) \/ SetResult(i, w)
                                     \/ Reopen(i) \/ StartSeries(i)
    <3>1. PICK i \in RealSlots(db) : \/ \E w \in db.slots[i].pair : Report(i, w) \/ SetResult(i, w)
                                     \/ Reopen(i) \/ StartSeries(i)
      BY <2>1
    <3>2. CASE \E w \in db.slots[i].pair : Report(i, w) \/ SetResult(i, w)
      BY <1>1, <1>2, <3>2
    <3> QED BY <1>3, <1>4, <3>1, <3>2
  <2>2. CASE \E k \in DOMAIN db.series : \/ CancelSeries(k) \/ RetryResult(k)
                                         \/ \E w \in Players : SeriesDecided(k, w)
    BY <1>5, <1>6, <1>7, <2>2
  <2> QED BY <1>8, <2>1, <2>2 DEF Transaction
<1> QED BY <1>9 DEF Goal

-----------------------------------------------------------------------------
(* A confirmed result stands.                                              *)

LEMMA StandsOn ==
  ASSUME NEW d, NEW e, NEW i, Stands(d, i), e.slots[i] = d.slots[i],
         e.matches[d.slots[i].match] = d.matches[d.slots[i].match]
  PROVE  Stands(e, i)
BY DEF Stands, Approved

LEMMA StandingRow ==
  ASSUME NEW d, Books(d), NEW i \in DOMAIN d.slots, Stands(d, i)
  PROVE  /\ d.slots[i].match \in DOMAIN d.matches /\ d.slots[i].match # 0 /\ ~d.matches[d.slots[i].match].reported
         /\ d.slots[i].status = "completed" /\ d.slots[i] \in Slot
         /\ \A j \in DOMAIN d.slots : j # i => d.slots[j].match # d.slots[i].match
<1>1. d.slots[i].match # 0 /\ ~d.matches[d.slots[i].match].reported /\ d.slots[i].status = "completed"
  BY DEF Stands
<1>2. d.slots[i].match \in DOMAIN d.matches
  BY <1>1 DEF Books, LinksFit, SlotFits
<1>3. \A j \in DOMAIN d.slots : j # i => d.slots[j].match # d.slots[i].match
  BY <1>1 DEF Books, LinksFit
<1> QED BY <1>1, <1>2, <1>3, DbIs

LEMMA StatementLetsStand ==
  ASSUME Whole, NEW p \in Procs, Statement(p), NEW i \in DOMAIN db.slots, Stands(db, i)
  PROVE  Stands(db', i) /\ db'.slots[i] = db.slots[i]
<1> DEFINE n == db.slots[i].match
           t == task[p]
           Same == db'.slots[i] = db.slots[i] /\ db'.matches[n] = db.matches[n]
<1>1. /\ Books(db) /\ n \in DOMAIN db.matches /\ n # 0 /\ ~db.matches[n].reported
      /\ db.slots[i].status = "completed" /\ db.slots[i] \in Slot
      /\ db.slots \in Seq(Slot) /\ i \in 1..Len(db.slots) /\ Len(db.slots) \in Nat
  BY StandingRow, DbIs DEF Whole
<1>2. t.pc \in Carrying => t.report \in DOMAIN db.matches /\ db.matches[t.report].reported
  BY TaskOf
<1>3. ASSUME InsertPairing(p) PROVE Same
  <2>1. db'.slots = Append(db.slots, Head(t.rows)) /\ db'.matches = db.matches
    BY <1>3, InsertPairingFits
  <2> QED BY <1>1, <2>1
<1>4. ASSUME Activate(p) PROVE Same
  <2> DEFINE st == "active"
  <2>1. db' = [db EXCEPT !.status = st] /\ st \in {"pending", "active", "completed", "cancelled"}
    BY <1>4, ActivateFits
  <2> HIDE DEF st
  <2> QED BY <1>1, <2>1, StatusSet
<1>5. ASSUME Decide(p) PROVE Same
  <2>1. PICK st \in {"approved", "denied"} : db' = Redone(db, t.report, st) /\ t.report \in DOMAIN db.matches
    BY <1>5, DecideFits
  <2>2. t.pc \in Carrying
    BY <1>5, DecideFits DEF Carrying
  <2>3. db'.slots = db.slots /\ \A m \in DOMAIN db.matches : m # t.report => db'.matches[m] = db.matches[m]
    BY <1>1, <2>1, DecidedIs DEF Redecided
  <2> QED BY <1>1, <1>2, <2>2, <2>3
<1>6. ASSUME FreeSlot(p) PROVE Same
  <2>1. t.pc = "free" /\ db' = Freed(db, t.report)
    BY <1>6, FreeSlotFits
  <2>2. SlotsFreed(db, db', SlotsOf(db, t.report))
    BY <1>1, <2>1, FreeIs
  <2>3. i \notin SlotsOf(db, t.report)
    BY <1>1, <1>2, <2>1 DEF SlotsOf, Carrying
  <2> QED BY <2>2, <2>3 DEF SlotsFreed
<1>7. ASSUME FindSlot(p) PROVE Same
  BY <1>7, FindSlotFits
<1>8. ASSUME CompleteSlot(p) PROVE Same
  <2>1. db' = Completed(db, t.slot) /\ t.slot \in DOMAIN db.slots
    BY <1>8, CompleteSlotFits
  <2>2. /\ db'.matches = db.matches /\ db'.slots[t.slot] = Shown(db.slots[t.slot], db.slots[t.slot].match, "completed")
        /\ \A j \in DOMAIN db.slots : j # t.slot => db'.slots[j] = db.slots[j]
    BY <1>1, <2>1, CompletedIs
  <2>3. Shown(db.slots[i], db.slots[i].match, "completed") = db.slots[i]
    BY <1>1 DEF Shown, Slot
  <2> QED BY <2>2, <2>3
<1>9. ASSUME Survey(p) PROVE Same
  BY <1>9, SurveyFits
<1>10. ASSUME CloseTournament(p) PROVE Same
  <2> DEFINE st == "completed"
  <2>1. db' = [db EXCEPT !.status = st] /\ st \in {"pending", "active", "completed", "cancelled"}
    BY <1>10, CloseFits
  <2> HIDE DEF st
  <2> QED BY <1>1, <2>1, StatusSet
<1>11. ASSUME Place(p) PROVE Same
  <2>1. db' = Placed(db)
    BY <1>11, PlaceFits
  <2> QED BY <1>1, <2>1, PlacedIs
<1>12. ASSUME ReadScore(p) PROVE Same
  BY <1>12, ReadScoreFits
<1>13. ASSUME Award(p) PROVE Same
  <2>1. db' = [db EXCEPT !.awards = @ \cup {t.report}] /\ t.report \in DOMAIN db.matches
    BY <1>13, AwardFits
  <2> QED BY <1>1, <2>1, AwardIs
<1>14. Same
  BY <1>3, <1>4, <1>5, <1>6, <1>7, <1>8, <1>9, <1>10, <1>11, <1>12, <1>13 DEF Statement
<1> QED BY <1>14, StandsOn

LEMMA TransactionLetsStand ==
  ASSUME Whole, Transaction, NEW i \in DOMAIN db.slots, Stands(db, i)
  PROVE  (Stands(db', i) /\ db'.slots[i] = db.slots[i]) \/ Reopen(i)
<1> DEFINE n == db.slots[i].match
           Same == db'.slots[i] = db.slots[i] /\ db'.matches[n] = db.matches[n]
<1>1. /\ Books(db) /\ n \in DOMAIN db.matches /\ n # 0 /\ db.slots[i].status = "completed"
      /\ \A j \in DOMAIN db.slots : j # i => db.slots[j].match # n
  BY StandingRow DEF Whole
<1>2. ASSUME Untouched(db, db') PROVE Same
  BY <1>2 DEF Untouched
<1>3. ASSUME NEW j \in DOMAIN db.slots, Reported(db, db', j) PROVE Same
  BY <1>1, <1>3 DEF Reported
<1>4. ASSUME NEW j \in DOMAIN db.slots, Settled(db, db', j) PROVE Same
  BY <1>1, <1>4 DEF Settled
<1>5. ASSUME NEW j \in DOMAIN db.slots, Reopen(j), j # i PROVE Same
  <2>1. Reopening(db, db', j)
    BY <1>5, ReopenIs
  <2> QED BY <1>1, <1>5, <2>1 DEF Reopening
<1>6. Same \/ Reopen(i)
  BY <1>2, <1>3, <1>4, <1>5, TransactionIs
<1> HIDE DEF n
<1> QED BY <1>6, StandsOn DEF n

(* A result that the engine or the organizer recorded is undone only by a   *)
(* reopening.                                                              *)
THEOREM ConfirmedResultsStand == Spec => ConfirmedResultStands
<1> DEFINE A == \A i \in DOMAIN db.slots :
                   Stands(db, i) => \/ Stands(db', i) /\ db'.slots[i] = db.slots[i]
                                    \/ Reopen(i)
<1>1. ASSUME Whole, [Next]_vars PROVE [A]_vars
  <2>1. SUFFICES ASSUME Next, NEW i \in DOMAIN db.slots, Stands(db, i)
                 PROVE (Stands(db', i) /\ db'.slots[i] = db.slots[i]) \/ Reopen(i)
    BY <1>1
  <2>2. CASE db' = db
    BY <2>1, <2>2
  <2>3. CASE \E p \in Procs : Statement(p)
    BY <1>1, <2>1, <2>3, StatementLetsStand
  <2>4. CASE Transaction
    BY <1>1, <2>1, <2>4, TransactionLetsStand
  <2>5. db' = db \/ (\E p \in Procs : Statement(p)) \/ Transaction
    BY <2>1 DEF Next, Start, ReadReport, OnlyTask, Tick, ReadOverdue, Crash
  <2> QED BY <2>2, <2>3, <2>4, <2>5
<1> QED BY <1>1, AlwaysWhole, PTL DEF Spec, ConfirmedResultStands

-----------------------------------------------------------------------------
(* The pairings, the matches and the ratings tell one story.               *)

(* A call at one of these is going to rate the match it approved.          *)
Rating == {"find", "complete", "survey", "close", "draw", "place", "score", "award"}

(* What is played has an approved result; a report that was answered while *)
(* its pairing still waits is in the hands of a call.                      *)
Answers(d, t, m) ==
    /\ t.report = m
    /\ \/ t.pc \in {"find", "complete"} /\ Approved(d, m)
       \/ t.pc = "free" /\ d.matches[m].status = "denied"

SlotAgrees(d, tk, i) ==
    LET s == d.slots[i]
    IN  /\ s.status = "completed" => \/ s.match = 0 /\ IsBye(s)
                                     \/ s.match # 0 /\ Approved(d, s.match)
        /\ s.status = "pending_approval" => \/ d.matches[s.match].status = "pending"
                                            \/ \E p \in Procs : Answers(d, tk[p], s.match)

(* A report that is not denied is shown by a pairing, and an approved one   *)
(* is rated or about to be.                                                *)
Rates(t, m) == t.report = m /\ t.pc \in Rating

MatchAgrees(d, tk, m) ==
    /\ d.matches[m].status \in {"pending", "approved"} => \E i \in DOMAIN d.slots : d.slots[i].match = m
    /\ Approved(d, m) => m \in d.awards \/ \E p \in Procs : Rates(tk[p], m)

(* What a call has read is still so.                                       *)
CallAgrees(d, t) ==
    /\ t.pc \in {"approve", "deny"} => d.matches[t.report].status = "pending"
    /\ t.pc = "free" => d.matches[t.report].status = "denied"
    /\ t.pc \in {"find", "complete", "award"} => Approved(d, t.report)
    /\ t.pc = "complete" => d.slots[t.slot].match = t.report

Agree(d, tk) ==
    /\ \A i \in DOMAIN d.slots : SlotAgrees(d, tk, i)
    /\ \A m \in DOMAIN d.matches : MatchAgrees(d, tk, m)
    /\ \A a \in d.awards : Approved(d, a)
    /\ \A p \in Procs : CallAgrees(d, tk[p])

(* The opposite of Overtaken, for its first part.                          *)
Undisturbed(d, e, t) ==
    t.pc \in {"approve", "deny", "find", "complete", "free", "award"} =>
        /\ e.matches[t.report] = d.matches[t.report]
        /\ \A i \in SlotsOf(d, t.report) : e.slots[i] = d.slots[i]

LEMMA CallStays ==
  ASSUME NEW d, NEW e, NEW t, TaskFits(d, t), CallAgrees(d, t), Undisturbed(d, e, t)
  PROVE  CallAgrees(e, t)
<1>1. t.pc = "complete" => t.slot \in SlotsOf(d, t.report)
  BY DEF TaskFits, CallAgrees, SlotsOf
<1> QED BY <1>1 DEF CallAgrees, Undisturbed, Approved

(* Rows that are as they were agree as they did.                           *)
LEMMA SlotStays ==
  ASSUME NEW d, NEW e, NEW tk, NEW i, SlotAgrees(d, tk, i), e.slots[i] = d.slots[i],
         d.slots[i].match # 0 => e.matches[d.slots[i].match] = d.matches[d.slots[i].match],
         SlotFits(d, d.slots[i])
  PROVE  SlotAgrees(e, tk, i)
<1> DEFINE s == d.slots[i]
<1>1. s.status = "pending_approval" => s.match # 0
  BY DEF SlotFits
<1>2. s.match # 0 => /\ e.matches[s.match].status = d.matches[s.match].status
                     /\ Approved(e, s.match) <=> Approved(d, s.match)
                     /\ \A p \in Procs : Answers(d, tk[p], s.match) => Answers(e, tk[p], s.match)
  BY DEF Approved, Answers
<1> HIDE DEF s
<1>3. /\ s.status = "completed" => \/ s.match = 0 /\ IsBye(s)
                                   \/ s.match # 0 /\ Approved(d, s.match)
      /\ s.status = "pending_approval" => \/ d.matches[s.match].status = "pending"
                                          \/ \E p \in Procs : Answers(d, tk[p], s.match)
  BY DEF SlotAgrees, s
<1>4. /\ s.status = "completed" => \/ s.match = 0 /\ IsBye(s)
                                   \/ s.match # 0 /\ Approved(e, s.match)
      /\ s.status = "pending_approval" => \/ e.matches[s.match].status = "pending"
                                          \/ \E p \in Procs : Answers(e, tk[p], s.match)
  BY <1>1, <1>2, <1>3
<1>5. e.slots[i] = s
  BY DEF s
<1> QED BY <1>4, <1>5 DEF SlotAgrees

LEMMA MatchStays ==
  ASSUME NEW d, NEW e, NEW tk, NEW m, MatchAgrees(d, tk, m), e.matches[m] = d.matches[m],
         m \in d.awards /\ Approved(d, m) => m \in e.awards,
         \A i \in DOMAIN d.slots : d.slots[i].match = m => i \in DOMAIN e.slots /\ e.slots[i].match = m
  PROVE  MatchAgrees(e, tk, m)
<1>1. d.matches[m].status \in {"pending", "approved"} => \E i \in DOMAIN e.slots : e.slots[i].match = m
  BY DEF MatchAgrees
<1> QED BY <1>1 DEF MatchAgrees, Approved

LEMMA ReportedAgrees ==
  ASSUME NEW d, Books(d), NEW e, Books(e), NEW tk, Agree(d, tk), NEW i, Reported(d, e, i),
         \A p \in Procs : TaskFits(d, tk[p]) /\ Undisturbed(d, e, tk[p])
  PROVE  Agree(e, tk)
<1> DEFINE n == Len(d.matches) + 1
<1>1. /\ i \in DOMAIN d.slots /\ d.slots[i].match = 0
      /\ e.slots[i] = Shown(d.slots[i], n, "pending_approval") /\ DOMAIN e.slots = DOMAIN d.slots
      /\ \A j \in DOMAIN d.slots : j # i => e.slots[j] = d.slots[j]
      /\ n \in DOMAIN e.matches /\ e.matches[n].status = "pending"
      /\ \A m \in DOMAIN d.matches : m \in DOMAIN e.matches /\ m # n /\ e.matches[m] = d.matches[m]
      /\ \A m \in DOMAIN e.matches : m \in DOMAIN d.matches \/ m = n
      /\ e.awards = d.awards
  BY DEF Reported
<1>2. /\ \A j \in DOMAIN d.slots : SlotFits(d, d.slots[j]) /\ SlotAgrees(d, tk, j)
      /\ \A m \in DOMAIN d.matches : m # 0 /\ MatchAgrees(d, tk, m)
      /\ \A j \in DOMAIN d.slots : d.slots[j].match # 0 => d.slots[j].match \in DOMAIN d.matches
      /\ d.awards \subseteq DOMAIN d.matches
  BY DbIs DEF Books, LinksFit, SlotFits, Agree
<1> HIDE DEF n
<1>3. ASSUME NEW j \in DOMAIN e.slots PROVE SlotAgrees(e, tk, j)
  <2>1. CASE j = i
    <3>1. e.slots[j].status = "pending_approval" /\ e.slots[j].match = n
      BY <1>1, <2>1 DEF Shown
    <3> QED BY <1>1, <3>1 DEF SlotAgrees
  <2>2. CASE j # i
    BY <1>1, <1>2, <2>2, SlotStays
  <2> QED BY <2>1, <2>2
<1>4. ASSUME NEW m \in DOMAIN e.matches PROVE MatchAgrees(e, tk, m)
  <2>1. CASE m = n
    <3>1. e.slots[i].match = n /\ e.matches[m].status = "pending"
      BY <1>1, <2>1 DEF Shown
    <3> QED BY <1>1, <2>1, <3>1 DEF MatchAgrees, Approved
  <2>2. CASE m # n
    <3>1. m \in DOMAIN d.matches /\ e.matches[m] = d.matches[m] /\ MatchAgrees(d, tk, m) /\ m # 0
      BY <1>1, <1>2, <2>2
    <3>2. \A j \in DOMAIN d.slots : d.slots[j].match = m => j \in DOMAIN e.slots /\ e.slots[j].match = m
      BY <1>1, <3>1
    <3> QED BY <1>1, <3>1, <3>2, MatchStays
  <2> QED BY <2>1, <2>2
<1>5. \A a \in e.awards : Approved(e, a)
  BY <1>1, <1>2 DEF Agree, Approved
<1>6. \A p \in Procs : CallAgrees(e, tk[p])
  BY CallStays DEF Agree
<1> QED BY <1>3, <1>4, <1>5, <1>6 DEF Agree

LEMMA SettledAgrees ==
  ASSUME NEW d, Books(d), NEW e, Books(e), NEW tk, Agree(d, tk), NEW i, Settled(d, e, i),
         \A p \in Procs : TaskFits(d, tk[p]) /\ Undisturbed(d, e, tk[p])
  PROVE  Agree(e, tk)
<1> DEFINE n == Len(d.matches) + 1
           m == d.slots[i].match
<1>1. /\ i \in DOMAIN d.slots /\ d.slots[i].status \in {"open", "pending_approval"}
      /\ e.slots[i] = Shown(d.slots[i], n, "completed")
      /\ \A j \in DOMAIN d.slots : j \in DOMAIN e.slots /\ (j # i => e.slots[j] = d.slots[j])
      /\ \A j \in DOMAIN e.slots : j \notin DOMAIN d.slots => e.slots[j] \in NewRows
      /\ n \in DOMAIN e.matches /\ n # 0 /\ e.matches[n].status = "approved"
      /\ \A k \in DOMAIN d.matches : /\ k \in DOMAIN e.matches /\ k # n
                                     /\ k # m => e.matches[k] = d.matches[k]
      /\ m # 0 => e.matches[m].status = Verdict(d, m)
      /\ \A k \in DOMAIN e.matches : k \in DOMAIN d.matches \/ k = n
      /\ e.awards = d.awards \cup {n}
  BY DEF Settled
<1>2. /\ \A j \in DOMAIN d.slots : SlotFits(d, d.slots[j]) /\ SlotAgrees(d, tk, j)
      /\ \A k \in DOMAIN d.matches : k # 0 /\ MatchAgrees(d, tk, k)
      /\ \A j \in DOMAIN d.slots : d.slots[j].match # 0 => d.slots[j].match \in DOMAIN d.matches
      /\ \A j \in DOMAIN d.slots : j # i /\ d.slots[j].match # 0 => d.slots[j].match # m
      /\ d.awards \subseteq DOMAIN d.matches
  BY <1>1, DbIs DEF Books, LinksFit, SlotFits, Agree
<1>3. e.slots[i].match = n /\ e.slots[i].status = "completed"
  BY <1>1 DEF Shown
<1>4. m # 0 => d.matches[m].status = "pending" /\ e.matches[m].status = "denied"
  <2>1. SUFFICES ASSUME m # 0 PROVE d.matches[m].status = "pending"
    BY <1>1 DEF Verdict
  <2>2. d.slots[i].status = "pending_approval" /\ m # n /\ SlotAgrees(d, tk, i)
    BY <1>1, <1>2, <2>1 DEF SlotFits
  <2>3. ASSUME NEW p \in Procs, Answers(d, tk[p], m) PROVE FALSE
    <3>1. tk[p].report = m /\ tk[p].pc \in {"find", "complete", "free"}
      BY <2>3 DEF Answers
    <3>2. i \in SlotsOf(d, m)
      BY <1>1 DEF SlotsOf
    <3>3. e.slots[i] = d.slots[i]
      BY <3>1, <3>2 DEF Undisturbed
    <3> QED BY <1>3, <2>2, <3>3
  <2> QED BY <2>2, <2>3 DEF SlotAgrees
<1> HIDE DEF n, m
<1>5. ASSUME NEW j \in DOMAIN e.slots PROVE SlotAgrees(e, tk, j)
  <2>1. CASE j = i
    BY <1>1, <1>3, <2>1 DEF SlotAgrees, Approved
  <2>2. CASE j \in DOMAIN d.slots /\ j # i
    <3>1. d.slots[j].match # 0 => e.matches[d.slots[j].match] = d.matches[d.slots[j].match]
      BY <1>1, <1>2, <2>2
    <3> QED BY <1>1, <1>2, <2>2, <3>1, SlotStays
  <2>3. CASE j \notin DOMAIN d.slots
    BY <1>1, <2>3 DEF SlotAgrees, NewRows
  <2> QED BY <2>1, <2>2, <2>3
<1>6. ASSUME NEW k \in DOMAIN e.matches PROVE MatchAgrees(e, tk, k)
  <2>1. CASE k = n
    BY <1>1, <1>3, <2>1 DEF MatchAgrees
  <2>2. CASE k = m /\ m # 0
    BY <1>4, <2>2 DEF MatchAgrees, Approved
  <2>3. CASE k # n /\ (k # m \/ m = 0)
    <3>1. k \in DOMAIN d.matches /\ k # 0 /\ MatchAgrees(d, tk, k) /\ k # m
      BY <1>1, <1>2, <2>3
    <3>2. e.matches[k] = d.matches[k]
      BY <1>1, <3>1
    <3>3. \A j \in DOMAIN d.slots : d.slots[j].match = k => j \in DOMAIN e.slots /\ e.slots[j].match = k
      BY <1>1, <3>1 DEF m
    <3> QED BY <1>1, <3>1, <3>2, <3>3, MatchStays
  <2> QED BY <2>1, <2>2, <2>3
<1>7. \A a \in e.awards : Approved(e, a)
  <2>1. \A a \in d.awards : Approved(d, a) /\ a \in DOMAIN d.matches /\ a # 0
    BY <1>2 DEF Agree
  <2>2. \A a \in d.awards : a # m
    BY <1>4, <2>1 DEF Approved
  <2> QED BY <1>1, <2>1, <2>2 DEF Approved
<1>8. \A p \in Procs : CallAgrees(e, tk[p])
  BY CallStays DEF Agree
<1> QED BY <1>5, <1>6, <1>7, <1>8 DEF Agree

LEMMA ReopeningAgrees ==
  ASSUME NEW d, Books(d), NEW e, Books(e), NEW tk, Agree(d, tk), NEW i, Reopening(d, e, i),
         \A p \in Procs : TaskFits(d, tk[p]) /\ Undisturbed(d, e, tk[p])
  PROVE  Agree(e, tk)
<1> DEFINE m == d.slots[i].match
<1>1. /\ i \in DOMAIN d.slots /\ d.slots[i].status = "completed" /\ m # 0
      /\ e.slots[i] = Shown(d.slots[i], 0, "open") /\ DOMAIN e.slots = DOMAIN d.slots
      /\ \A j \in DOMAIN d.slots : j # i => e.slots[j] = d.slots[j]
      /\ m \in DOMAIN d.matches /\ e.matches[m].status = "denied" /\ DOMAIN e.matches = DOMAIN d.matches
      /\ \A n \in DOMAIN d.matches : n # m => e.matches[n] = d.matches[n]
      /\ e.awards \subseteq d.awards /\ m \notin e.awards
      /\ \A a \in d.awards : a # m /\ Approved(d, a) => a \in e.awards
  BY DEF Reopening
<1>2. /\ \A j \in DOMAIN d.slots : SlotFits(d, d.slots[j]) /\ SlotAgrees(d, tk, j)
      /\ \A k \in DOMAIN d.matches : k # 0 /\ MatchAgrees(d, tk, k)
      /\ \A j \in DOMAIN d.slots : d.slots[j].match # 0 => d.slots[j].match \in DOMAIN d.matches
      /\ \A j \in DOMAIN d.slots : j # i /\ d.slots[j].match # 0 => d.slots[j].match # m
      /\ d.awards \subseteq DOMAIN d.matches
  BY <1>1, DbIs DEF Books, LinksFit, SlotFits, Agree
<1> HIDE DEF m
<1>3. ASSUME NEW j \in DOMAIN e.slots PROVE SlotAgrees(e, tk, j)
  <2>1. CASE j = i
    <3>1. e.slots[j].status = "open"
      BY <1>1, <2>1 DEF Shown
    <3> QED BY <3>1 DEF SlotAgrees
  <2>2. CASE j # i
    <3>1. d.slots[j].match # 0 => e.matches[d.slots[j].match] = d.matches[d.slots[j].match]
      BY <1>1, <1>2, <2>2
    <3> QED BY <1>1, <1>2, <2>2, <3>1, SlotStays
  <2> QED BY <2>1, <2>2
<1>4. ASSUME NEW k \in DOMAIN e.matches PROVE MatchAgrees(e, tk, k)
  <2>1. CASE k = m
    BY <1>1, <2>1 DEF MatchAgrees, Approved
  <2>2. CASE k # m
    <3>1. \A j \in DOMAIN d.slots : d.slots[j].match = k => j \in DOMAIN e.slots /\ e.slots[j].match = k
      BY <1>1, <2>2 DEF m
    <3> QED BY <1>1, <1>2, <2>2, <3>1, MatchStays
  <2> QED BY <2>1, <2>2
<1>5. \A a \in e.awards : Approved(e, a)
  BY <1>1, <1>2 DEF Agree, Approved
<1>6. \A p \in Procs : CallAgrees(e, tk[p])
  BY CallStays DEF Agree
<1> QED BY <1>3, <1>4, <1>5, <1>6 DEF Agree

LEMMA UntouchedAgrees ==
  ASSUME NEW d, NEW e, NEW tk, Agree(d, tk), Untouched(d, e)
  PROVE  Agree(e, tk)
BY DEF Agree, Untouched, SlotAgrees, MatchAgrees, CallAgrees, Approved, Answers

LEMMA TransactionAgrees ==
  ASSUME Whole, Agree(db, task), Transaction, \A p \in Procs : Undisturbed(db, db', task[p])
  PROVE  Agree(db', task')
<1>1. Books(db) /\ Books(db') /\ task' = task /\ \A p \in Procs : TaskFits(db, task[p])
  BY TransactionMoves DEF Whole
<1>2. CASE Untouched(db, db')
  BY <1>1, <1>2, UntouchedAgrees
<1>3. ASSUME NEW i \in DOMAIN db.slots, Reported(db, db', i) PROVE Agree(db', task')
  BY <1>1, <1>3, ReportedAgrees
<1>4. ASSUME NEW i \in DOMAIN db.slots, Settled(db, db', i) PROVE Agree(db', task')
  BY <1>1, <1>4, SettledAgrees
<1>5. ASSUME NEW i \in DOMAIN db.slots, Reopen(i) PROVE Agree(db', task')
  BY <1>1, <1>5, ReopenIs, ReopeningAgrees
<1> QED BY <1>2, <1>3, <1>4, <1>5, TransactionIs

(* A call that only reads, or whose write is done, goes on.                *)
Others(tk, uk, p) == \A q \in Procs : q # p => uk[q] = tk[q]

LEMMA CallMoves ==
  ASSUME NEW d, NEW tk, NEW uk, Agree(d, tk), NEW p \in Procs, Others(tk, uk, p), CallAgrees(d, uk[p]),
         \A m \in DOMAIN d.matches : Answers(d, tk[p], m) =>
            \/ Answers(d, uk[p], m)
            \/ \A i \in DOMAIN d.slots : d.slots[i].match = m => d.slots[i].status # "pending_approval",
         \A m \in DOMAIN d.matches : Rates(tk[p], m) /\ Approved(d, m) => Rates(uk[p], m) \/ m \in d.awards,
         \A i \in DOMAIN d.slots : d.slots[i].status = "pending_approval" => d.slots[i].match \in DOMAIN d.matches
  PROVE  Agree(d, uk)
<1>1. ASSUME NEW i \in DOMAIN d.slots PROVE SlotAgrees(d, uk, i)
  <2>1. SlotAgrees(d, tk, i)
    BY DEF Agree
  <2>2. ASSUME d.slots[i].status = "pending_approval", d.matches[d.slots[i].match].status # "pending"
        PROVE  \E q \in Procs : Answers(d, uk[q], d.slots[i].match)
    <3>1. PICK q \in Procs : Answers(d, tk[q], d.slots[i].match)
      BY <2>1, <2>2 DEF SlotAgrees
    <3>2. CASE q = p
      BY <2>2, <3>1, <3>2
    <3>3. CASE q # p
      BY <3>1, <3>3 DEF Others
    <3> QED BY <3>2, <3>3
  <2> QED BY <2>1, <2>2 DEF SlotAgrees
<1>2. ASSUME NEW m \in DOMAIN d.matches PROVE MatchAgrees(d, uk, m)
  <2>1. MatchAgrees(d, tk, m)
    BY DEF Agree
  <2>2. ASSUME Approved(d, m), m \notin d.awards
        PROVE  \E q \in Procs : Rates(uk[q], m)
    <3>1. PICK q \in Procs : Rates(tk[q], m)
      BY <2>1, <2>2 DEF MatchAgrees
    <3>2. CASE q = p
      BY <2>2, <3>1, <3>2
    <3>3. CASE q # p
      BY <3>1, <3>3 DEF Others
    <3> QED BY <3>2, <3>3
  <2> QED BY <2>1, <2>2 DEF MatchAgrees
<1>3. \A q \in Procs : CallAgrees(d, uk[q])
  BY DEF Agree, Others
<1> QED BY <1>1, <1>2, <1>3 DEF Agree

(* One decision.                                                           *)
LEMMA DecisionAgrees ==
  ASSUME NEW d, Books(d), NEW tk, NEW uk, Agree(d, tk), NEW p \in Procs, Others(tk, uk, p),
         NEW m \in DOMAIN d.matches, NEW st, tk[p].report = m, uk[p].report = m, m # 0,
         \/ tk[p].pc = "approve" /\ uk[p].pc = "find" /\ st = "approved"
         \/ tk[p].pc = "deny" /\ uk[p].pc = "free" /\ st = "denied",
         \A q \in Procs : TaskFits(d, tk[q]) /\ (q # p => Undisturbed(d, Redone(d, m, st), tk[q]))
  PROVE  Agree(Redone(d, m, st), uk)
<1> DEFINE e == Redone(d, m, st)
<1>1. /\ e.slots = d.slots /\ e.awards = d.awards /\ DOMAIN e.matches = DOMAIN d.matches
      /\ e.matches[m].status = st
      /\ \A n \in DOMAIN d.matches : n # m => e.matches[n] = d.matches[n]
  BY DecidedIs DEF Redecided
<1> HIDE DEF e
<1>2. d.matches[m].status = "pending"
  BY DEF Agree, CallAgrees
<1>3. Answers(e, uk[p], m) /\ (st = "approved" => Rates(uk[p], m))
  BY <1>1 DEF Answers, Rates, Rating, Approved
<1>4. \A n : ~Answers(d, tk[p], n) /\ ~Rates(tk[p], n)
  BY DEF Answers, Rates, Rating
<1>5. ASSUME NEW i \in DOMAIN e.slots PROVE SlotAgrees(e, uk, i)
  <2> DEFINE s == d.slots[i]
  <2>1. SlotAgrees(d, tk, i) /\ e.slots[i] = s /\ SlotFits(d, s)
    BY <1>1 DEF Agree, Books, LinksFit
  <2>2. CASE s.match = m
    <3>1. s.status # "completed"
      BY <1>2, <2>1, <2>2 DEF SlotAgrees, Approved
    <3> QED BY <1>3, <2>1, <2>2, <3>1 DEF SlotAgrees
  <2>3. CASE s.match # m
    <3>1. s.match # 0 => e.matches[s.match] = d.matches[s.match]
      BY <1>1, <2>1, <2>3 DEF SlotFits
    <3>2. SlotAgrees(e, tk, i)
      BY <1>1, <2>1, <3>1, SlotStays
    <3>3. ASSUME s.status = "pending_approval", e.matches[s.match].status # "pending"
          PROVE  \E q \in Procs : Answers(e, uk[q], s.match)
      <4>0. s.match # 0 /\ d.matches[s.match].status # "pending" /\ e.matches[s.match] = d.matches[s.match]
        BY <2>1, <3>1, <3>3 DEF SlotFits
      <4>1. PICK q \in Procs : Answers(d, tk[q], s.match)
        BY <2>1, <3>3, <4>0 DEF SlotAgrees
      <4>2. q # p
        BY <1>4, <4>1
      <4>3. Answers(e, tk[q], s.match)
        BY <4>0, <4>1 DEF Answers, Approved
      <4> QED BY <4>2, <4>3 DEF Others
    <3> QED BY <2>1, <3>2, <3>3 DEF SlotAgrees
  <2> QED BY <2>2, <2>3
<1>6. ASSUME NEW n \in DOMAIN e.matches PROVE MatchAgrees(e, uk, n)
  <2>1. MatchAgrees(d, tk, n)
    BY <1>1 DEF Agree
  <2>2. CASE n = m
    <3>1. \E i \in DOMAIN e.slots : e.slots[i].match = n
      BY <1>1, <1>2, <2>1, <2>2 DEF MatchAgrees
    <3>2. Approved(e, n) => Rates(uk[p], n)
      BY <1>1, <1>3, <2>2 DEF Approved
    <3> QED BY <3>1, <3>2 DEF MatchAgrees
  <2>3. CASE n # m
    <3>1. e.matches[n] = d.matches[n] /\ (Approved(e, n) <=> Approved(d, n))
      BY <1>1, <2>3 DEF Approved
    <3>2. ASSUME Approved(d, n), n \notin d.awards PROVE \E q \in Procs : Rates(uk[q], n)
      <4>1. PICK q \in Procs : Rates(tk[q], n)
        BY <2>1, <3>2 DEF MatchAgrees
      <4> QED BY <1>4, <4>1 DEF Others
    <3> QED BY <1>1, <2>1, <3>1, <3>2 DEF MatchAgrees
  <2> QED BY <2>2, <2>3
<1>7. \A a \in e.awards : Approved(e, a)
  <2>1. \A a \in d.awards : Approved(d, a) /\ a \in DOMAIN d.matches
    BY DEF Agree, Books, LinksFit
  <2> QED BY <1>1, <1>2, <2>1 DEF Approved
<1>8. ASSUME NEW q \in Procs PROVE CallAgrees(e, uk[q])
  <2>1. CASE q = p
    BY <1>1, <2>1 DEF CallAgrees, Approved
  <2>2. CASE q # p
    <3>1. uk[q] = tk[q] /\ Undisturbed(d, e, tk[q]) /\ TaskFits(d, tk[q]) /\ CallAgrees(d, tk[q])
      BY <2>2 DEF Others, Agree, e
    <3> QED BY <3>1, CallStays
  <2> QED BY <2>1, <2>2
<1>9. Agree(e, uk)
  BY <1>5, <1>6, <1>7, <1>8 DEF Agree
<1> QED BY <1>9 DEF e

(* Pairings that are drawn, freed or completed, and ratings.               *)
LEMMA DrawnAgrees ==
  ASSUME NEW d, Books(d), NEW e, NEW tk, Agree(d, tk), \A q \in Procs : TaskFits(d, tk[q]),
         NEW row \in NewRows, e.slots = Append(d.slots, row), e.matches = d.matches, e.awards = d.awards
  PROVE  Agree(e, tk)
<1>1. /\ \A i \in DOMAIN d.slots : i \in DOMAIN e.slots /\ e.slots[i] = d.slots[i]
      /\ \A i \in DOMAIN e.slots : i \notin DOMAIN d.slots => e.slots[i] = row
  <2>1. d.slots \in Seq(Slot) /\ row \in Slot
    BY DbIs DEF NewRows
  <2> QED BY <2>1
<1>2. ASSUME NEW i \in DOMAIN e.slots PROVE SlotAgrees(e, tk, i)
  <2>1. CASE i \in DOMAIN d.slots
    <3>1. SlotAgrees(d, tk, i) /\ SlotFits(d, d.slots[i])
      BY <2>1 DEF Agree, Books, LinksFit
    <3> QED BY <1>1, <2>1, <3>1, SlotStays
  <2>2. CASE i \notin DOMAIN d.slots
    BY <1>1, <2>2 DEF SlotAgrees, NewRows
  <2> QED BY <2>1, <2>2
<1>3. ASSUME NEW m \in DOMAIN e.matches PROVE MatchAgrees(e, tk, m)
  <2>1. MatchAgrees(d, tk, m)
    BY DEF Agree
  <2>2. \A i \in DOMAIN d.slots : d.slots[i].match = m => i \in DOMAIN e.slots /\ e.slots[i].match = m
    BY <1>1
  <2> QED BY <2>1, <2>2, MatchStays
<1>4. \A a \in e.awards : Approved(e, a)
  BY DEF Agree, Approved
<1>5. ASSUME NEW q \in Procs PROVE CallAgrees(e, tk[q])
  <2>1. CallAgrees(d, tk[q]) /\ TaskFits(d, tk[q])
    BY DEF Agree
  <2>2. Undisturbed(d, e, tk[q])
    BY <1>1 DEF Undisturbed, SlotsOf
  <2> QED BY <2>1, <2>2, CallStays
<1> QED BY <1>2, <1>3, <1>4, <1>5 DEF Agree

LEMMA FreedAgrees ==
  ASSUME NEW d, Books(d), NEW e, NEW tk, Agree(d, tk), \A q \in Procs : TaskFits(d, tk[q]),
         NEW m \in DOMAIN d.matches, d.matches[m].status = "denied", SlotsFreed(d, e, SlotsOf(d, m))
  PROVE  Agree(e, tk) /\ \A i \in DOMAIN e.slots : e.slots[i].match # m
<1>0. m # 0
  BY DbIs
<1>1. /\ DOMAIN e.slots = DOMAIN d.slots /\ e.matches = d.matches /\ e.awards = d.awards
      /\ \A i \in DOMAIN d.slots : d.slots[i].match = m => e.slots[i].status = "open" /\ e.slots[i].match = 0
      /\ \A i \in DOMAIN d.slots : d.slots[i].match # m => e.slots[i] = d.slots[i]
  <2>1. DOMAIN e.slots = DOMAIN d.slots /\ e.matches = d.matches /\ e.awards = d.awards
    BY DEF SlotsFreed
  <2>2. ASSUME NEW i \in DOMAIN d.slots
        PROVE  /\ d.slots[i].match = m => e.slots[i].status = "open" /\ e.slots[i].match = 0
               /\ d.slots[i].match # m => e.slots[i] = d.slots[i]
    <3>1. e.slots[i] = IF i \in SlotsOf(d, m) THEN Shown(d.slots[i], 0, "open") ELSE d.slots[i]
      BY DEF SlotsFreed
    <3>2. i \in SlotsOf(d, m) <=> d.slots[i].match = m
      BY DEF SlotsOf
    <3>3. Shown(d.slots[i], 0, "open").status = "open" /\ Shown(d.slots[i], 0, "open").match = 0
      BY DEF Shown
    <3> QED BY <3>1, <3>2, <3>3
  <2> QED BY <2>1, <2>2
<1>2. ASSUME NEW i \in DOMAIN e.slots PROVE SlotAgrees(e, tk, i)
  <2>1. CASE d.slots[i].match = m
    BY <1>1, <2>1 DEF SlotAgrees
  <2>2. CASE d.slots[i].match # m
    <3>1. SlotAgrees(d, tk, i) /\ SlotFits(d, d.slots[i])
      BY <1>1 DEF Agree, Books, LinksFit
    <3> QED BY <1>1, <2>2, <3>1, SlotStays
  <2> QED BY <2>1, <2>2
<1>3. ASSUME NEW n \in DOMAIN e.matches PROVE MatchAgrees(e, tk, n)
  <2>1. MatchAgrees(d, tk, n)
    BY <1>1 DEF Agree
  <2>2. CASE n = m
    BY <1>1, <2>2 DEF MatchAgrees, Approved
  <2>3. CASE n # m
    <3>1. \A i \in DOMAIN d.slots : d.slots[i].match = n => i \in DOMAIN e.slots /\ e.slots[i].match = n
      BY <1>1, <2>3
    <3> QED BY <1>1, <2>1, <3>1, MatchStays
  <2> QED BY <2>2, <2>3
<1>4. \A a \in e.awards : Approved(e, a)
  BY <1>1 DEF Agree, Approved
<1>5. ASSUME NEW q \in Procs PROVE CallAgrees(e, tk[q])
  <2>1. CallAgrees(d, tk[q]) /\ TaskFits(d, tk[q])
    BY DEF Agree
  <2>2. tk[q].pc = "complete" => /\ tk[q].slot \in DOMAIN d.slots /\ d.slots[tk[q].slot].match = tk[q].report
                                 /\ tk[q].report # m
    BY <2>1 DEF CallAgrees, TaskFits, Approved
  <2> QED BY <1>1, <2>1, <2>2 DEF CallAgrees, Approved
<1> QED BY <1>0, <1>1, <1>2, <1>3, <1>4, <1>5 DEF Agree

LEMMA CompletedAgrees ==
  ASSUME NEW d, Books(d), NEW tk, Agree(d, tk), NEW i \in DOMAIN d.slots,
         d.slots[i].match # 0, Approved(d, d.slots[i].match), \A q \in Procs : TaskFits(d, tk[q])
  PROVE  Agree(Completed(d, i), tk)
<1> DEFINE e == Completed(d, i)
<1>1. /\ DOMAIN e.slots = DOMAIN d.slots /\ e.matches = d.matches /\ e.awards = d.awards
      /\ e.slots[i].status = "completed" /\ e.slots[i].match = d.slots[i].match
      /\ \A j \in DOMAIN d.slots : j # i => e.slots[j] = d.slots[j]
  <2>1. /\ DOMAIN e.slots = DOMAIN d.slots /\ e.matches = d.matches /\ e.awards = d.awards
        /\ e.slots[i] = Shown(d.slots[i], d.slots[i].match, "completed")
        /\ \A j \in DOMAIN d.slots : j # i => e.slots[j] = d.slots[j]
    BY CompletedIs
  <2> HIDE DEF e
  <2> QED BY <2>1 DEF Shown
<1> HIDE DEF e
<1>2. ASSUME NEW j \in DOMAIN e.slots PROVE SlotAgrees(e, tk, j)
  <2>1. CASE j = i
    BY <1>1, <2>1 DEF SlotAgrees, Approved
  <2>2. CASE j # i
    <3>1. SlotAgrees(d, tk, j) /\ SlotFits(d, d.slots[j])
      BY <1>1 DEF Agree, Books, LinksFit
    <3> QED BY <1>1, <2>2, <3>1, SlotStays
  <2> QED BY <2>1, <2>2
<1>3. ASSUME NEW n \in DOMAIN e.matches PROVE MatchAgrees(e, tk, n)
  <2>1. MatchAgrees(d, tk, n)
    BY <1>1 DEF Agree
  <2>2. \A j \in DOMAIN d.slots : d.slots[j].match = n => j \in DOMAIN e.slots /\ e.slots[j].match = n
    BY <1>1
  <2> QED BY <1>1, <2>1, <2>2, MatchStays
<1>4. \A a \in e.awards : Approved(e, a)
  BY <1>1 DEF Agree, Approved
<1>5. ASSUME NEW q \in Procs PROVE CallAgrees(e, tk[q])
  <2>1. CallAgrees(d, tk[q]) /\ (tk[q].pc = "complete" => tk[q].slot \in DOMAIN d.slots)
    BY DEF Agree, TaskFits
  <2>2. \A j \in DOMAIN d.slots : e.slots[j].match = d.slots[j].match
    BY <1>1
  <2> QED BY <1>1, <2>1, <2>2 DEF CallAgrees, Approved
<1>6. Agree(e, tk)
  BY <1>2, <1>3, <1>4, <1>5 DEF Agree
<1> QED BY <1>6 DEF e

LEMMA RatedAgrees ==
  ASSUME NEW d, Books(d), NEW e, NEW tk, Agree(d, tk), NEW m, Approved(d, m),
         e.slots = d.slots, e.matches = d.matches, e.awards = d.awards \cup {m}
  PROVE  Agree(e, tk)
BY DEF Agree, SlotAgrees, MatchAgrees, CallAgrees, Approved, Answers

LEMMA MovedTo ==
  ASSUME Whole, NEW p \in Procs, Moved(p)
  PROVE  Others(task, task', p)
BY DEF Moved, Others, Whole

LEMMA NotOvertaken ==
  ASSUME Watch, ~torn', NEW q \in Procs, task'[q] = task[q]
  PROVE  Undisturbed(db, db', task[q])
BY DEF Watch, Overtaken, Undisturbed

(* Calls that go on without having changed a row of a pairing or a match.   *)
Hands(d, t, u) ==
    /\ CallAgrees(d, u)
    /\ \A m \in DOMAIN d.matches : /\ Answers(d, t, m) => Answers(d, u, m) \/ SlotsOf(d, m) = {}
                                   /\ Rates(t, m) /\ Approved(d, m) => Rates(u, m) \/ m \in d.awards

LEMMA HandsOn ==
  ASSUME Whole, Agree(db, task), NEW p \in Procs, Moved(p), Untouched(db, db'), Hands(db, task[p], task'[p])
  PROVE  Agree(db', task')
<1>1. Books(db) /\ Others(task, task', p)
  BY MovedTo DEF Whole
<1>2. \A i \in DOMAIN db.slots : db.slots[i].status = "pending_approval" => db.slots[i].match \in DOMAIN db.matches
  BY <1>1 DEF Books, LinksFit, SlotFits
<1>3. \A m \in DOMAIN db.matches : Answers(db, task[p], m) =>
         \/ Answers(db, task'[p], m)
         \/ \A i \in DOMAIN db.slots : db.slots[i].match = m => db.slots[i].status # "pending_approval"
  BY DEF Hands, SlotsOf
<1>4. Agree(db, task')
  BY <1>1, <1>2, <1>3, CallMoves DEF Hands
<1> QED BY <1>4, UntouchedAgrees

(* A call that has decided nothing yet, or keeps its report and goes on.   *)
LEMMA EmptyHands ==
  ASSUME NEW d, NEW t, NEW u, CallAgrees(d, u), t.pc \in {"idle", "approve", "deny", "activate"}
  PROVE  Hands(d, t, u)
BY DEF Hands, Answers, Rates, Rating

LEMMA KeepsReport ==
  ASSUME NEW d, NEW t, NEW u, CallAgrees(d, u), t.pc \in Rating \ {"find", "complete"}, u.report = t.report, u.pc \in Rating
  PROVE  Hands(d, t, u)
BY DEF Hands, Answers, Rates, Rating

LEMMA QuietCall ==
  ASSUME NEW d, NEW u, u.pc \notin {"approve", "deny", "free", "find", "complete", "award"}
  PROVE  CallAgrees(d, u)
BY DEF CallAgrees

LEMMA TaskSet ==
  ASSUME NEW t \in Task, NEW pc, NEW u, u = [t EXCEPT !.pc = pc]
  PROVE  u.pc = pc /\ u.report = t.report /\ u.slot = t.slot
BY DEF Task

LEMMA StatementAgrees ==
  ASSUME Whole, Agree(db, task), NEW p \in Procs, Statement(p), Watch, ~torn'
  PROVE  Agree(db', task')
<1> DEFINE t == task[p]
           u == task'[p]
           m == t.report
<1>1. /\ Books(db) /\ t \in Task /\ TaskFits(db, t) /\ CallAgrees(db, t) /\ event \in Events
      /\ t.pc \in Carrying => m \in DOMAIN db.matches /\ m # 0
      /\ \A q \in Procs : TaskFits(db, task[q])
  BY TaskOf DEF Agree, Whole
<1>2. Moved(p) /\ Others(task, task', p)
  BY StatementMoves, MovedTo
<1>3. \A q \in Procs : q # p => Undisturbed(db, db', task[q])
  BY <1>2, NotOvertaken DEF Others
<1>4. Books(db')
  BY <1>2 DEF Moved
<1>5. \A i \in DOMAIN db'.slots : db'.slots[i].status = "pending_approval" => db'.slots[i].match \in DOMAIN db'.matches
  BY <1>4 DEF Books, LinksFit, SlotFits
<1>6. ASSUME InsertPairing(p) PROVE Agree(db', task')
  <2>1. /\ db'.slots = Append(db.slots, Head(t.rows)) /\ Head(t.rows) \in NewRows
        /\ db'.matches = db.matches /\ db'.awards = db.awards
    BY <1>6, InsertPairingFits
  <2>2. Agree(db', task)
    BY <1>1, <2>1, DrawnAgrees
  <2>3. t.pc = "draw" /\ u.report = m /\ u.pc \in {"draw", "activate", "score"} /\ (u.pc = "activate" => m = 0)
    <3> DEFINE pc == IF Len(t.rows) # 1 THEN "draw" ELSE IF t.report = 0 THEN "activate" ELSE "score"
               v == [t EXCEPT !.rows = Tail(t.rows), !.pc = pc]
    <3>1. t.pc = "draw" /\ task' = [task EXCEPT ![p] = v]
      BY <1>6 DEF InsertPairing, At, Goto
    <3>2. u = v
      BY <3>1 DEF Whole
    <3> HIDE DEF t
    <3>3. v.pc = pc /\ v.report = t.report
      BY <1>1 DEF Task
    <3> QED BY <3>1, <3>2, <3>3 DEF t
  <2>4. CallAgrees(db', u)
    BY <2>3, QuietCall
  <2>5. \A n \in DOMAIN db'.matches : n # 0 /\ ~Answers(db', t, n) /\ (Rates(t, n) => Rates(u, n))
    BY <1>4, <2>3, DbIs DEF Answers, Rates, Rating
  <2> HIDE DEF t, u
  <2> QED BY <1>2, <1>5, <2>2, <2>4, <2>5, CallMoves DEF t, u
<1>7. ASSUME Activate(p) PROVE Agree(db', task')
  <2> DEFINE st == "active"
  <2>1. db' = [db EXCEPT !.status = st] /\ st \in {"pending", "active", "completed", "cancelled"} /\ u = Idle
        /\ t.pc = "activate"
    BY <1>7, ActivateFits DEF Activate, At
  <2> HIDE DEF st
  <2>2. Untouched(db, db')
    BY <1>1, <2>1, StatusSet DEF Untouched
  <2>3. CallAgrees(db, u)
    BY <2>1, QuietCall DEF Idle
  <2> QED BY <1>2, <2>1, <2>2, <2>3, EmptyHands, HandsOn
<1>8. ASSUME Decide(p) PROVE Agree(db', task')
  <2>1. t.pc \in Carrying /\ m \in DOMAIN db.matches /\ m # 0
    BY <1>1, <1>8, DecideFits DEF Carrying
  <2>2. ASSUME NEW pc, NEW st, pc = "find" \/ pc = "free", db' = Redone(db, m, st), u = [t EXCEPT !.pc = pc],
               \/ t.pc = "approve" /\ pc = "find" /\ st = "approved"
               \/ t.pc = "deny" /\ pc = "free" /\ st = "denied"
        PROVE  Agree(db', task')
    <3>1. u.pc = pc /\ u.report = m
      BY <1>1, <2>2, TaskSet
    <3>2. \A q \in Procs : TaskFits(db, task[q]) /\ (q # p => Undisturbed(db, Redone(db, m, st), task[q]))
      BY <1>1, <1>3, <2>2
    <3>3. Agree(Redone(db, m, st), task')
      <4> HIDE DEF t, u, m
      <4>1. task[p].report = m /\ task'[p].report = m
        BY <3>1 DEF t, u, m
      <4>2. \/ task[p].pc = "approve" /\ task'[p].pc = "find" /\ st = "approved"
            \/ task[p].pc = "deny" /\ task'[p].pc = "free" /\ st = "denied"
        BY <2>2, <3>1 DEF t, u
      <4> QED BY <1>1, <1>2, <2>1, <3>2, <4>1, <4>2, DecisionAgrees
    <3> QED BY <2>2, <3>3
  <2> QED BY <1>8, <2>2, DecideFits
<1>9. ASSUME FreeSlot(p) PROVE Agree(db', task')
  <2>1. t.pc = "free" /\ u = Idle /\ db' = Freed(db, m)
    BY <1>9, FreeSlotFits
  <2>2. db.matches[m].status = "denied" /\ m \in DOMAIN db.matches
    BY <1>1, <2>1 DEF CallAgrees, Carrying
  <2>3. SlotsFreed(db, db', SlotsOf(db, m))
    BY <1>1, <2>1, FreeIs
  <2>4. Agree(db', task) /\ \A i \in DOMAIN db'.slots : db'.slots[i].match # m
    BY <1>1, <2>2, <2>3, FreedAgrees
  <2>5. CallAgrees(db', u)
    BY <2>1, QuietCall DEF Idle
  <2>6. \A n : Answers(db', t, n) => n = m
    BY DEF Answers
  <2>7. \A n : ~Rates(t, n)
    BY <2>1 DEF Rates, Rating
  <2> HIDE DEF t, u
  <2> QED BY <1>2, <1>5, <2>4, <2>5, <2>6, <2>7, CallMoves DEF t, u
<1>10. ASSUME FindSlot(p) PROVE Agree(db', task')
  <2>1. /\ db' = db /\ t.pc = "find"
        /\ \/ SlotsOf(db, m) = {} /\ u = [t EXCEPT !.pc = "score"]
           \/ \E i \in SlotsOf(db, m) : u = [t EXCEPT !.pc = "complete", !.slot = i]
    BY <1>10, FindSlotFits
  <2>2. Untouched(db, db') /\ Approved(db, m)
    BY <1>1, <2>1 DEF Untouched, CallAgrees
  <2>3. CASE SlotsOf(db, m) = {} /\ u = [t EXCEPT !.pc = "score"]
    <3>1. u.pc = "score" /\ u.report = m
      BY <1>1, <2>3, TaskSet
    <3>2. CallAgrees(db, u)
      BY <3>1, QuietCall
    <3>3. Hands(db, t, u)
      BY <2>3, <3>1, <3>2 DEF Hands, Answers, Rates, Rating
    <3> QED BY <1>2, <2>2, <3>3, HandsOn
  <2>4. ASSUME NEW i \in SlotsOf(db, m), u = [t EXCEPT !.pc = "complete", !.slot = i] PROVE Agree(db', task')
    <3> DEFINE v == [t EXCEPT !.pc = "complete"]
    <3>1. v \in Task /\ v.pc = "complete" /\ v.report = m
      <4> HIDE DEF t
      <4> QED BY <1>1 DEF Task, m
    <3>2. u = [v EXCEPT !.slot = i]
      BY <2>4
    <3> HIDE DEF v
    <3>3. u.pc = "complete" /\ u.report = m /\ u.slot = i
      BY <3>1, <3>2 DEF Task
    <3>4. CallAgrees(db, u)
      BY <2>2, <3>3 DEF CallAgrees, SlotsOf
    <3>5. Hands(db, t, u)
      BY <2>1, <2>2, <3>3, <3>4 DEF Hands, Answers, Rates, Rating
    <3> QED BY <1>2, <2>2, <3>5, HandsOn
  <2> QED BY <2>1, <2>3, <2>4
<1>11. ASSUME CompleteSlot(p) PROVE Agree(db', task')
  <2>1. /\ t.pc = "complete" /\ u = [t EXCEPT !.pc = "survey"] /\ db' = Completed(db, t.slot) /\ t.slot \in DOMAIN db.slots
    BY <1>11, CompleteSlotFits
  <2>2. db.slots[t.slot].match = m /\ m # 0 /\ Approved(db, m)
    BY <1>1, <2>1 DEF CallAgrees, Carrying
  <2> DEFINE i == t.slot
  <2>3. Agree(Completed(db, i), task)
    <3>1. i \in DOMAIN db.slots /\ db.slots[i].match # 0 /\ Approved(db, db.slots[i].match)
      BY <2>1, <2>2
    <3> HIDE DEF i
    <3> QED BY <1>1, <3>1, CompletedAgrees
  <2>4. u.pc = "survey" /\ u.report = m
    BY <1>1, <2>1, TaskSet
  <2>5. CallAgrees(db', u)
    BY <2>4, QuietCall
  <2>6. /\ db'.slots[i].status = "completed" /\ DOMAIN db'.slots = DOMAIN db.slots /\ db'.slots[i].match = m
        /\ \A j \in DOMAIN db.slots : j # i => db'.slots[j] = db.slots[j]
    <3> HIDE DEF i, m
    <3>1. /\ DOMAIN db'.slots = DOMAIN db.slots /\ db'.slots[i] = Shown(db.slots[i], db.slots[i].match, "completed")
          /\ \A j \in DOMAIN db.slots : j # i => db'.slots[j] = db.slots[j]
      BY <1>1, <2>1, CompletedIs DEF i
    <3> QED BY <2>2, <3>1 DEF Shown, i
  <2>7. \A j \in DOMAIN db'.slots : db'.slots[j].match = m => j = i
    BY <1>4, <2>1, <2>2, <2>6 DEF Books, LinksFit
  <2>8. /\ \A n : Answers(db', t, n) => n = m
        /\ \A n : Rates(t, n) => Rates(u, n)
    BY <2>4 DEF Answers, Rates, Rating
  <2> HIDE DEF t, u, i, m
  <2> QED BY <1>2, <1>5, <2>1, <2>3, <2>5, <2>6, <2>7, <2>8, CallMoves DEF t, u, i
<1>12. ASSUME Survey(p) PROVE Agree(db', task')
  <2> DEFINE f == Follow(db, t.slot)
             v == [t EXCEPT !.pc = f.pc]
  <2>1. /\ db' = db /\ t.pc = "survey" /\ t.slot \in DOMAIN db.slots /\ u = [t EXCEPT !.pc = f.pc, !.rows = f.rows]
    BY <1>12, SurveyFits
  <2>2. f.pc \in {"score", "close", "draw"}
    <3>1. f = Score \/ f = Close \/ f.pc = "draw"
      BY <1>1, <2>1, FollowIs
    <3> QED BY <3>1 DEF Score, Close
  <2>3. u = [v EXCEPT !.rows = f.rows]
    BY <2>1
  <2> HIDE DEF f
  <2>4. v \in Task /\ v.pc = f.pc /\ v.report = m
    <3> HIDE DEF t
    <3> QED BY <1>1, <2>2 DEF Task, m
  <2> HIDE DEF v
  <2>5. u.pc = f.pc /\ u.report = m
    BY <2>3, <2>4 DEF Task
  <2>6. CallAgrees(db, u)
    BY <2>2, <2>5, QuietCall
  <2>7. Hands(db, t, u)
    BY <2>1, <2>2, <2>5, <2>6, KeepsReport DEF Rating
  <2> QED BY <1>2, <2>1, <2>7, HandsOn DEF Untouched
<1>13. ASSUME CloseTournament(p) PROVE Agree(db', task')
  <2> DEFINE st == "completed"
  <2>1. /\ db' = [db EXCEPT !.status = st] /\ st \in {"pending", "active", "completed", "cancelled"}
        /\ t.pc = "close" /\ u = [t EXCEPT !.pc = "place"]
    BY <1>13, CloseFits
  <2> HIDE DEF st
  <2>2. Untouched(db, db')
    BY <1>1, <2>1, StatusSet DEF Untouched
  <2>3. u.pc = "place" /\ u.report = m
    BY <1>1, <2>1, TaskSet
  <2>4. CallAgrees(db, u)
    BY <2>3, QuietCall
  <2>5. Hands(db, t, u)
    BY <2>1, <2>3, <2>4, KeepsReport DEF Rating
  <2> QED BY <1>2, <2>2, <2>5, HandsOn
<1>14. ASSUME Place(p) PROVE Agree(db', task')
  <2>1. db' = Placed(db) /\ t.pc = "place" /\ u = [t EXCEPT !.pc = "score"]
    BY <1>14, PlaceFits
  <2>2. Untouched(db, db')
    BY <1>1, <2>1, PlacedIs DEF Untouched
  <2>3. u.pc = "score" /\ u.report = m
    BY <1>1, <2>1, TaskSet
  <2>4. CallAgrees(db, u)
    BY <2>3, QuietCall
  <2>5. Hands(db, t, u)
    BY <2>1, <2>3, <2>4, KeepsReport DEF Rating
  <2> QED BY <1>2, <2>2, <2>5, HandsOn
<1>15. ASSUME ReadScore(p) PROVE Agree(db', task')
  <2>1. /\ db' = db /\ t.pc = "score"
        /\ \/ Approved(db, m) /\ u = [t EXCEPT !.pc = "award"]
           \/ ~(Approved(db, m) /\ m \notin db.awards) /\ u = Idle
    BY <1>15, ReadScoreFits
  <2>2. CASE Approved(db, m) /\ u = [t EXCEPT !.pc = "award"]
    <3>1. u.pc = "award" /\ u.report = m
      BY <1>1, <2>2, TaskSet
    <3>2. CallAgrees(db, u)
      BY <2>2, <3>1 DEF CallAgrees
    <3>3. Hands(db, t, u)
      BY <2>1, <3>1, <3>2, KeepsReport DEF Rating
    <3> QED BY <1>2, <2>1, <3>3, HandsOn DEF Untouched
  <2>3. CASE ~(Approved(db, m) /\ m \notin db.awards) /\ u = Idle
    <3>1. CallAgrees(db, u)
      BY <2>3, QuietCall DEF Idle
    <3>2. Hands(db, t, u)
      BY <2>1, <2>3, <3>1 DEF Hands, Answers, Rates
    <3> QED BY <1>2, <2>1, <3>2, HandsOn DEF Untouched
  <2> QED BY <2>1, <2>2, <2>3
<1>16. ASSUME Award(p) PROVE Agree(db', task')
  <2>1. t.pc = "award" /\ u = Idle /\ m \in DOMAIN db.matches /\ db' = [db EXCEPT !.awards = @ \cup {m}]
    BY <1>16, AwardFits
  <2>2. Approved(db, m)
    BY <1>1, <2>1 DEF CallAgrees
  <2>3. db'.slots = db.slots /\ db'.matches = db.matches /\ db'.awards = db.awards \cup {m}
    BY <1>1, <2>1, AwardIs
  <2>4. Agree(db', task)
    BY <1>1, <2>2, <2>3, RatedAgrees
  <2>5. CallAgrees(db', u)
    BY <2>1, QuietCall DEF Idle
  <2>6. \A n : ~Answers(db', t, n) /\ (Rates(t, n) => n \in db'.awards)
    BY <2>1, <2>3 DEF Answers, Rates
  <2> HIDE DEF t, u
  <2> QED BY <1>2, <1>5, <2>4, <2>5, <2>6, CallMoves DEF t, u
<1> HIDE DEF t, u, m
<1> QED BY <1>6, <1>7, <1>8, <1>9, <1>10, <1>11, <1>12, <1>13, <1>14, <1>15, <1>16 DEF Statement

(* A pairing that counts as played has an approved result, an approved      *)
(* result is shown and rated, unless a call was overtaken.                 *)
LEMMA StepAgrees ==
  ASSUME Whole, torn \/ Agree(db, task), [Next]_vars
  PROVE  (torn \/ Agree(db, task))'
<1> SUFFICES ASSUME ~torn' PROVE Agree(db', task')
  OBVIOUS
<1>0. /\ Books(db) /\ task \in [Procs -> Task] /\ Worker \in Procs /\ Frontends \subseteq Procs /\ torn \in BOOLEAN
  BY DEF Whole, Procs
<1>1. (Watch => ~torn) /\ (torn' = torn => ~torn)
  BY <1>0 DEF Watch
<1>2. ASSUME NEW p \in Frontends, Start(p) /\ Watch PROVE Agree(db', task')
  <2> DEFINE rows == FirstRows
             v == [Idle EXCEPT !.pc = "draw"]
  <2>1. Moved(p) /\ db' = db /\ task[p].pc = "idle" /\ task'[p] = [v EXCEPT !.rows = rows]
    BY <1>0, <1>2, StartFits
  <2> HIDE DEF rows
  <2>2. v \in Task /\ v.pc = "draw"
    <3>1. Idle \in Task
      BY DEF Idle, Task
    <3> QED BY <3>1 DEF Task
  <2> HIDE DEF v
  <2>3. task'[p].pc = "draw"
    BY <2>1, <2>2 DEF Task
  <2>4. CallAgrees(db, task'[p])
    BY <2>3, QuietCall
  <2> QED BY <1>0, <1>1, <1>2, <2>1, <2>4, EmptyHands, HandsOn DEF Untouched
<1>3. ASSUME NEW p \in Procs, NEW m \in DOMAIN db.matches, NEW v, v \in {"approve", "deny"}, Moved(p), db' = db,
             db.matches[m].status = "pending", task[p].pc = "idle", task'[p] = [Idle EXCEPT !.pc = v, !.report = m],
             Watch
      PROVE  Agree(db', task')
  <2>1. m \in Nat
    BY <1>0, DbIs
  <2> DEFINE w == [Idle EXCEPT !.pc = v]
  <2>2. w \in Task /\ w.pc = v
    <3>1. Idle \in Task
      BY DEF Idle, Task
    <3> QED BY <1>3, <3>1 DEF Task
  <2>3. task'[p] = [w EXCEPT !.report = m]
    BY <1>3
  <2> HIDE DEF w
  <2>4. task'[p].pc = v /\ task'[p].report = m
    BY <2>1, <2>2, <2>3 DEF Task
  <2>5. CallAgrees(db, task'[p])
    BY <1>3, <2>4 DEF CallAgrees
  <2> QED BY <1>0, <1>1, <1>3, <2>5, EmptyHands, HandsOn DEF Untouched
<1>4. ASSUME NEW p \in Frontends, NEW m \in DOMAIN db.matches, NEW v \in {"approve", "deny"}, ReadReport(p, m, v) /\ Watch
      PROVE  Agree(db', task')
  <2>1. p \in Procs /\ ReadReport(p, m, v) /\ Watch
    BY <1>0, <1>4
  <2>2. /\ Moved(p) /\ db' = db /\ db.matches[m].status = "pending" /\ task[p].pc = "idle"
        /\ task'[p] = [Idle EXCEPT !.pc = v, !.report = m]
    <3>1. /\ db.matches[m].status = "pending" /\ task[p].pc = "idle" /\ db' = db /\ event' = event
          /\ Goto(p, [Idle EXCEPT !.pc = v, !.report = m])
      BY <2>1 DEF ReadReport, OnlyTask, Fixed, At
    <3> QED BY <1>4, <2>1, <3>1, ReportRead
  <2>3. v \in {"approve", "deny"}
    BY <1>4
  <2> QED BY <1>3, <2>1, <2>2, <2>3
<1>5. ASSUME NEW p \in Procs, Moved(p), db' = db, task[p].pc \in {"idle", "approve", "deny"}, task'[p] = Idle, ~torn
      PROVE  Agree(db', task')
  <2>1. CallAgrees(db, task'[p])
    BY <1>5, QuietCall DEF Idle
  <2> QED BY <1>5, <2>1, EmptyHands, HandsOn DEF Untouched
<1>6. CASE ReadOverdue /\ Watch
  <2> DEFINE v == "approve"
  <2>1. /\ Moved(Worker) /\ db' = db /\ task[Worker].pc = "idle" /\ v \in {"approve", "deny"}
        /\ \/ task'[Worker] = Idle
           \/ \E m \in DOMAIN db.matches : /\ db.matches[m].status = "pending"
                                           /\ task'[Worker] = [Idle EXCEPT !.pc = v, !.report = m]
    BY <1>6, ReadOverdueFits
  <2> HIDE DEF v
  <2>2. CASE task'[Worker] = Idle
    BY <1>0, <1>1, <1>5, <1>6, <2>1, <2>2
  <2>3. CASE \E m \in DOMAIN db.matches : /\ db.matches[m].status = "pending"
                                          /\ task'[Worker] = [Idle EXCEPT !.pc = v, !.report = m]
    BY <1>0, <1>3, <1>6, <2>1, <2>3
  <2> QED BY <2>1, <2>2, <2>3
<1>7. ASSUME NEW late \in SUBSET DOMAIN db.matches, Tick(late) /\ Watch PROVE Agree(db', task')
  BY <1>1, <1>7 DEF Tick
<1>8. ASSUME NEW p \in Procs, Statement(p) /\ Watch PROVE Agree(db', task')
  BY <1>1, <1>8, StatementAgrees
<1>9. CASE Transaction /\ Watch
  <2>1. task' = task
    BY <1>9, TransactionMoves
  <2>2. \A q \in Procs : Undisturbed(db, db', task[q])
    BY <1>9, <2>1, NotOvertaken
  <2> QED BY <1>1, <1>9, <2>2, TransactionAgrees
<1>10. ASSUME NEW p \in Procs, Crash(p), torn' = (torn \/ task[p].pc \notin {"approve", "deny"}) PROVE Agree(db', task')
  <2>1. ~torn /\ task[p].pc \in {"idle", "approve", "deny"}
    BY <1>0, <1>10
  <2>2. Moved(p) /\ db' = db /\ task'[p] = Idle
    BY <1>10, CrashFits
  <2> QED BY <1>5, <2>1, <2>2
<1>11. CASE UNCHANGED vars
  BY <1>1, <1>11 DEF vars
<1> QED BY <1>2, <1>4, <1>6, <1>7, <1>8, <1>9, <1>10, <1>11 DEF Next

LEMMA AlwaysAgrees == Spec => [](torn \/ Agree(db, task))
<1>1. Init => torn \/ Agree(db, task)
  <2> SUFFICES ASSUME Init PROVE Agree(db, task)
    OBVIOUS
  <2>1. db.slots = << >> /\ db.matches = << >> /\ db.awards = {} /\ \A p \in Procs : task[p] = Idle
    BY DEF Init
  <2>2. CallAgrees(db, Idle)
    BY QuietCall DEF Idle
  <2> QED BY <2>1, <2>2 DEF Agree
<1> QED BY <1>1, StepAgrees, AlwaysWhole, PTL DEF Spec

(* Unless a call was cut off, or went on after what it had read changed: a  *)
(* played pairing shows an approved match row, an approved match row is     *)
(* shown by a pairing and is rated or carried by a call, and none but an    *)
(* approved one is rated.                                                  *)
THEOREM BooksAlwaysAgree == Spec => []BooksAgree
<1>1. Whole /\ (torn \/ Agree(db, task)) => BooksAgree
  <2> SUFFICES ASSUME Whole, Agree(db, task), ~torn PROVE BooksAgree
    BY DEF BooksAgree
  <2>1. ASSUME NEW i \in RealSlots(db), db.slots[i].status = "completed"
        PROVE  db.slots[i].match # 0 /\ Approved(db, db.slots[i].match)
    BY <2>1 DEF RealSlots, Agree, SlotAgrees
  <2>2. ASSUME NEW m \in DOMAIN db.matches, Approved(db, m)
        PROVE  SlotsOf(db, m) # {} /\ (m \in db.awards \/ \E p \in Procs : task[p].report = m)
    <3>1. MatchAgrees(db, task, m) /\ db.matches[m].status = "approved"
      BY <2>2 DEF Agree, Approved
    <3> QED BY <2>2, <3>1 DEF MatchAgrees, SlotsOf, Rates
  <2>3. \A a \in db.awards : Approved(db, a)
    BY DEF Agree
  <2> QED BY <2>1, <2>2, <2>3 DEF BooksAgree
<1> QED BY <1>1, AlwaysWhole, AlwaysAgrees, PTL

-----------------------------------------------------------------------------
(* Series that are played, or whose result was not recorded, find their     *)
(* pairing free.                                                           *)

Live(d, k) == d.series[k].status = "open" \/ Unrecorded(d, k)
FreeAt(d, i) == d.slots[i].status = "open" /\ d.slots[i].match = 0
SeriesFree(d) == \A k \in DOMAIN d.series : Live(d, k) => FreeAt(d, d.series[k].slot)

(* Rows that may change without harm to the series.                        *)
SlotOn(d, e, i) ==
    \/ e.slots[i] = d.slots[i]
    \/ FreeAt(e, i)
    \/ e.slots[i].match # 0 /\ OpenSeries(e, i) = {}

SeriesOn(d, e, k) ==
    \/ k \in DOMAIN d.series /\ e.series[k] = d.series[k]
    \/ ~Live(e, k)
    \/ FreeAt(e, e.series[k].slot)

LEMMA LiveBefore ==
  ASSUME NEW d, Books(d), NEW e, Grows(d, e), NEW k \in DOMAIN d.series, e.series[k] = d.series[k], Live(e, k),
         \A l \in DOMAIN d.series : l \in DOMAIN e.series /\ e.series[l].slot = d.series[l].slot,
         \A m \in DOMAIN d.matches : m \in DOMAIN e.matches,
         e.slots[d.series[k].slot] = d.slots[d.series[k].slot]
  PROVE  Live(d, k)
<1>1. SUFFICES ASSUME d.series[k].status # "open", Unrecorded(e, k) PROVE Unrecorded(d, k)
  BY DEF Live
<1>2. Superseded(d, k) => Superseded(e, k)
  BY DEF Superseded, Grows
<1> QED BY <1>1, <1>2 DEF Unrecorded

LEMMA LinkedIsSuperseded ==
  ASSUME NEW e, Books(e), NEW k \in DOMAIN e.series, e.slots[e.series[k].slot].match # 0
  PROVE  ~Unrecorded(e, k)
<1>1. e.series[k].slot \in DOMAIN e.slots
  BY SeriesOf
<1>2. SlotFits(e, e.slots[e.series[k].slot])
  BY <1>1 DEF Books, LinksFit
<1>3. Superseded(e, k)
  BY <1>2 DEF Superseded, SlotFits
<1> QED BY <1>3 DEF Unrecorded

LEMMA FreeOn ==
  ASSUME NEW d, Books(d), NEW e, Books(e), Grows(d, e), SeriesFree(d),
         \A l \in DOMAIN d.series : l \in DOMAIN e.series /\ e.series[l].slot = d.series[l].slot,
         \A i \in DOMAIN d.slots : SlotOn(d, e, i),
         \A k \in DOMAIN e.series : SeriesOn(d, e, k)
  PROVE  SeriesFree(e)
<1> SUFFICES ASSUME NEW k \in DOMAIN e.series, Live(e, k) PROVE FreeAt(e, e.series[k].slot)
  BY DEF SeriesFree
<1>1. SUFFICES ASSUME k \in DOMAIN d.series, e.series[k] = d.series[k] PROVE FreeAt(e, e.series[k].slot)
  BY DEF SeriesOn
<1> DEFINE i == d.series[k].slot
<1>2. i \in DOMAIN d.slots /\ \A m \in DOMAIN d.matches : m \in DOMAIN e.matches
  BY <1>1, SeriesOf, DbIs DEF Grows
<1>3. CASE e.slots[i] = d.slots[i]
  <2>1. Live(d, k)
    BY <1>1, <1>2, <1>3, LiveBefore
  <2> QED BY <1>1, <1>3, <2>1 DEF SeriesFree, FreeAt
<1>4. CASE FreeAt(e, i)
  BY <1>1, <1>4
<1>5. CASE e.slots[i].match # 0 /\ OpenSeries(e, i) = {}
  <2>1. e.series[k].status # "open"
    BY <1>1, <1>5 DEF OpenSeries
  <2>2. ~Unrecorded(e, k)
    BY <1>1, <1>5, LinkedIsSuperseded
  <2> QED BY <2>1, <2>2 DEF Live
<1> QED BY <1>2, <1>3, <1>4, <1>5 DEF SlotOn

(* Nothing happens to the series themselves.                               *)
LEMMA FreeOnSame ==
  ASSUME NEW d, Books(d), NEW e, Books(e), Grows(d, e), SeriesFree(d), e.series = d.series,
         \A i \in DOMAIN d.slots : SlotOn(d, e, i)
  PROVE  SeriesFree(e)
<1>1. \A k \in DOMAIN e.series : SeriesOn(d, e, k)
  BY DEF SeriesOn
<1>2. \A l \in DOMAIN d.series : l \in DOMAIN e.series /\ e.series[l].slot = d.series[l].slot
  OBVIOUS
<1> QED BY <1>1, <1>2, FreeOn

(* Nothing happens to the pairings.                                        *)
LEMMA FreeOnSlots ==
  ASSUME NEW d, Books(d), NEW e, Books(e), Grows(d, e), SeriesFree(d), e.slots = d.slots,
         \A l \in DOMAIN d.series : l \in DOMAIN e.series /\ e.series[l].slot = d.series[l].slot,
         \A k \in DOMAIN e.series : SeriesOn(d, e, k)
  PROVE  SeriesFree(e)
<1>1. \A i \in DOMAIN d.slots : SlotOn(d, e, i)
  BY DEF SlotOn
<1> QED BY <1>1, FreeOn

LEMMA StatementFree ==
  ASSUME Whole, Agree(db, task), SeriesFree(db), NEW p \in Procs, Statement(p)
  PROVE  SeriesFree(db')
<1> DEFINE t == task[p]
<1>0. Books(db) /\ event \in Events /\ Books(db') /\ Grows(db, db') /\ CallAgrees(db, t)
  BY StatementMoves DEF Moved, Whole, Agree
<1>1. SUFFICES db'.series = db.series /\ \A i \in DOMAIN db.slots : SlotOn(db, db', i)
  BY <1>0, FreeOnSame
<1>2. CASE db'.series = db.series /\ db'.slots = db.slots
  BY <1>2 DEF SlotOn
<1>3. ASSUME InsertPairing(p) PROVE db'.series = db.series /\ \A i \in DOMAIN db.slots : SlotOn(db, db', i)
  <2>1. db'.series = db.series /\ db'.slots = Append(db.slots, Head(t.rows)) /\ db.slots \in Seq(Slot)
    BY <1>0, <1>3, InsertPairingFits, DbIs
  <2>2. \A i \in DOMAIN db.slots : db'.slots[i] = db.slots[i]
    BY <2>1
  <2> QED BY <2>1, <2>2 DEF SlotOn
<1>4. ASSUME NEW st \in {"pending", "active", "completed", "cancelled"}, db' = [db EXCEPT !.status = st]
      PROVE  db'.series = db.series /\ db'.slots = db.slots
  BY <1>0, <1>4, StatusSet
<1>5. ASSUME Activate(p) \/ CloseTournament(p) PROVE db'.series = db.series /\ db'.slots = db.slots
  <2> DEFINE a == "active"
             c == "completed"
  <2>1. (db' = [db EXCEPT !.status = a] \/ db' = [db EXCEPT !.status = c])
        /\ a \in {"pending", "active", "completed", "cancelled"} /\ c \in {"pending", "active", "completed", "cancelled"}
    BY <1>5, ActivateFits, CloseFits
  <2> HIDE DEF a, c
  <2> QED BY <1>4, <2>1
<1>6. ASSUME Decide(p) PROVE db'.series = db.series /\ db'.slots = db.slots
  <2>1. PICK st \in {"approved", "denied"} : db' = Redone(db, t.report, st) /\ t.report \in DOMAIN db.matches
    BY <1>6, DecideFits
  <2> QED BY <1>0, <2>1, DecidedIs DEF Redecided
<1>7. ASSUME FreeSlot(p) PROVE db'.series = db.series /\ \A i \in DOMAIN db.slots : SlotOn(db, db', i)
  <2>1. db' = Freed(db, t.report)
    BY <1>7, FreeSlotFits
  <2>2. SlotsFreed(db, db', SlotsOf(db, t.report))
    BY <1>0, <2>1, FreeIs
  <2>3. \A i \in DOMAIN db.slots : db'.slots[i] = db.slots[i] \/ db'.slots[i] = Shown(db.slots[i], 0, "open")
    BY <2>2 DEF SlotsFreed
  <2>4. db'.series = db.series
    BY <2>2 DEF SlotsFreed
  <2>5. ASSUME NEW i \in DOMAIN db.slots PROVE SlotOn(db, db', i)
    <3> DEFINE o == "open"
               z == 0
    <3>1. db'.slots[i] = db.slots[i] \/ db'.slots[i] = Shown(db.slots[i], z, o)
      BY <2>3, <2>5
    <3> HIDE DEF o, z
    <3>2. CASE db'.slots[i] = Shown(db.slots[i], z, o)
      <4>1. db'.slots[i].status = o /\ db'.slots[i].match = z
        BY <3>2 DEF Shown
      <4> QED BY <4>1 DEF SlotOn, FreeAt, o, z
    <3> QED BY <3>1, <3>2 DEF SlotOn
  <2> QED BY <2>4, <2>5
<1>8. ASSUME FindSlot(p) \/ Survey(p) \/ ReadScore(p) PROVE db'.series = db.series /\ db'.slots = db.slots
  BY <1>8, FindSlotFits, SurveyFits, ReadScoreFits
<1>9. ASSUME CompleteSlot(p) PROVE db'.series = db.series /\ \A i \in DOMAIN db.slots : SlotOn(db, db', i)
  <2> DEFINE j == t.slot
  <2>1. t.pc = "complete" /\ db' = Completed(db, j) /\ j \in DOMAIN db.slots /\ t.report # 0
    BY <1>9, CompleteSlotFits, TaskOf DEF Carrying
  <2>2. db.slots[j].match # 0
    BY <1>0, <2>1 DEF CallAgrees
  <2> HIDE DEF j
  <2>3. /\ db'.series = db.series /\ db'.slots[j] = Shown(db.slots[j], db.slots[j].match, "completed")
        /\ \A i \in DOMAIN db.slots : i # j => db'.slots[i] = db.slots[i]
    BY <1>0, <2>1, CompletedIs
  <2>4. OpenSeries(db', j) = {}
    BY <2>2, <2>3 DEF OpenSeries, SeriesFree, Live, FreeAt
  <2>5. db'.slots[j].match # 0
    BY <2>2, <2>3 DEF Shown
  <2> QED BY <2>3, <2>4, <2>5 DEF SlotOn
<1>10. ASSUME Place(p) PROVE db'.series = db.series /\ db'.slots = db.slots
  BY <1>0, <1>10, PlaceFits, PlacedIs
<1>11. ASSUME Award(p) PROVE db'.series = db.series /\ db'.slots = db.slots
  <2>1. db' = [db EXCEPT !.awards = @ \cup {t.report}] /\ t.report \in DOMAIN db.matches
    BY <1>11, AwardFits
  <2> QED BY <1>0, <2>1, AwardIs
<1> HIDE DEF t
<1> QED BY <1>2, <1>3, <1>5, <1>6, <1>7, <1>8, <1>9, <1>10, <1>11 DEF Statement

(* The series that records its result is the latest of its pairing.        *)
LEMMA RecordedFree ==
  ASSUME event \in Events, NEW d, Books(d), SeriesFree(d), NEW k \in DOMAIN d.series, d.series[k].status = "completed",
         \A l \in DOMAIN d.series : l > k => d.series[l].slot # d.series[k].slot,
         NEW e \in Recorded(d, k)
  PROVE  SeriesFree(e)
<1> DEFINE i == d.series[k].slot
           n == Len(d.matches) + 1
<1>1. /\ Books(e) /\ Grows(d, e) /\ i \in DOMAIN d.slots /\ DOMAIN e.series = DOMAIN d.series
      /\ e.series[k].status = "completed" /\ e.series[k].match = n /\ e.series[k].slot = i /\ n # 0
      /\ \A l \in DOMAIN d.series : l # k => e.series[l] = d.series[l]
      /\ e.slots[i] = Shown(d.slots[i], n, "completed")
      /\ \A j \in DOMAIN d.slots : j \in DOMAIN e.slots /\ (j # i => e.slots[j] = d.slots[j])
  BY RecordFits
<1>2. e.slots[i].match # 0
  BY <1>1 DEF Shown
<1>3. OpenSeries(e, i) = {}
  <2> SUFFICES ASSUME NEW l \in DOMAIN e.series, e.series[l].slot = i, e.series[l].status = "open" PROVE FALSE
    BY DEF OpenSeries
  <2>1. l # k /\ l \in DOMAIN d.series /\ d.series[l].slot = i /\ d.series[l].status = "open"
    BY <1>1
  <2>2. l \in Nat /\ k \in Nat
    BY <2>1, DbIs
  <2>3. l < k
    BY <2>1, <2>2
  <2> QED BY <2>1, <2>2, <2>3 DEF Books, SeriesFits
<1> HIDE DEF i, n
<1>4. \A j \in DOMAIN d.slots : SlotOn(d, e, j)
  BY <1>1, <1>2, <1>3 DEF SlotOn
<1>5. \A l \in DOMAIN e.series : SeriesOn(d, e, l)
  BY <1>1 DEF SeriesOn, Live, Unrecorded
<1>6. \A l \in DOMAIN d.series : l \in DOMAIN e.series /\ e.series[l].slot = d.series[l].slot
  BY <1>1 DEF i
<1> QED BY <1>1, <1>4, <1>5, <1>6, FreeOn

LEMMA TransactionFree ==
  ASSUME Whole, SeriesFree(db), Transaction
  PROVE  SeriesFree(db')
<1>0. Books(db) /\ event \in Events /\ Books(db') /\ Grows(db, db')
  BY TransactionMoves DEF Whole
<1>1. ASSUME NEW i \in DOMAIN db.slots, NEW w \in db.slots[i].pair, Report(i, w) PROVE SeriesFree(db')
  <2>1. Reported(db, db', i)
    BY <1>1, ReportIs
  <2>2. /\ db'.series = db.series /\ OpenSeries(db, i) = {} /\ db'.slots[i].match = Len(db.matches) + 1
        /\ \A j \in DOMAIN db.slots : j # i => db'.slots[j] = db.slots[j]
    BY <2>1 DEF Reported, Shown
  <2>3. OpenSeries(db', i) = {} /\ db'.slots[i].match # 0
    BY <1>0, <2>2, DbIs DEF OpenSeries
  <2> QED BY <1>0, <2>2, <2>3, FreeOnSame DEF SlotOn
<1>2. ASSUME NEW i \in DOMAIN db.slots, NEW w \in db.slots[i].pair, SetResult(i, w) PROVE SeriesFree(db')
  <2> DEFINE c == Cleared(db, i)
             S == {i}
             x == SeriesCancelled(db, S)
  <2>1. db.slots[i].status \in {"open", "pending_approval"} /\ db' \in Confirmed(c, i, w)
    BY <1>2, SetResultFits
  <2>2. Books(c) /\ Grows(db, c) /\ c.series = x.series /\ DOMAIN c.slots = DOMAIN db.slots
    BY <1>0, <2>1, ClearedIs
  <2>3. w \in c.slots[i].pair /\ i \in DOMAIN c.slots
    BY <1>2, <2>2 DEF Grows
  <2> HIDE DEF c
  <2>4. db'.series = c.series
    BY <1>0, <2>1, <2>2, <2>3, ConfirmedIs
  <2>5. Settled(db, db', i)
    BY <1>2, SetResultIs
  <2>6. /\ db'.slots[i].match # 0
        /\ \A j \in DOMAIN db.slots : j # i => db'.slots[j] = db.slots[j]
    BY <2>5 DEF Settled, Shown
  <2> HIDE DEF S, x
  <2>7. /\ SeriesMoved(db, x)
        /\ \A k \in DOMAIN db.series :
              /\ db.series[k].status = "open" /\ db.series[k].slot \in S => x.series[k].status = "cancelled"
              /\ ~(db.series[k].status = "open" /\ db.series[k].slot \in S) => x.series[k] = db.series[k]
    BY <1>0, CancelledIs DEF x
  <2>8. \A k \in DOMAIN db.series : k \in DOMAIN db'.series /\ db'.series[k].slot = db.series[k].slot
    BY <2>2, <2>4, <2>7 DEF SeriesMoved
  <2>9. OpenSeries(db', i) = {}
    BY <2>2, <2>4, <2>7 DEF OpenSeries, SeriesMoved, S
  <2>10. \A k \in DOMAIN db'.series : SeriesOn(db, db', k)
    BY <2>2, <2>4, <2>7 DEF SeriesOn, Live, Unrecorded, SeriesMoved
  <2> QED BY <1>0, <2>6, <2>8, <2>9, <2>10, FreeOn DEF SlotOn
<1>3. ASSUME NEW i \in DOMAIN db.slots, Reopen(i) PROVE SeriesFree(db')
  <2>1. Reopening(db, db', i)
    BY <1>3, ReopenIs
  <2>2. /\ db'.series = db.series /\ FreeAt(db', i)
        /\ \A j \in DOMAIN db.slots : j # i => db'.slots[j] = db.slots[j]
    BY <2>1 DEF Reopening, Shown, FreeAt
  <2> QED BY <1>0, <2>2, FreeOnSame DEF SlotOn
<1>4. ASSUME NEW i \in DOMAIN db.slots, StartSeries(i) PROVE SeriesFree(db')
  <2> DEFINE n == Len(db.series)
  <2>1. /\ db'.slots = db.slots /\ FreeAt(db, i) /\ DOMAIN db'.series = 1..(n + 1) /\ db'.series[n + 1].slot = i
        /\ \A k \in DOMAIN db.series : db'.series[k] = db.series[k]
    BY <1>4, StartSeriesFits DEF FreeAt
  <2>2. DOMAIN db.series = 1..n /\ n \in Nat
    BY <1>0, DbIs
  <2> HIDE DEF n
  <2>3. \A k \in DOMAIN db.series : k \in DOMAIN db'.series
    BY <2>1, <2>2
  <2>4. \A k \in DOMAIN db'.series : k \in DOMAIN db.series \/ k = n + 1
    BY <2>1, <2>2
  <2>5. \A k \in DOMAIN db'.series : SeriesOn(db, db', k)
    BY <2>1, <2>4 DEF SeriesOn, FreeAt
  <2> QED BY <1>0, <2>1, <2>3, <2>5, FreeOnSlots
<1>5. ASSUME NEW k \in DOMAIN db.series, db.series[k].status = "open", db' = SeriesStatus(db, k, "cancelled")
      PROVE SeriesFree(db')
  <2>1. /\ db'.slots = db.slots /\ db'.matches = db.matches /\ DOMAIN db'.series = DOMAIN db.series
        /\ db'.series[k].status = "cancelled" /\ \A l \in DOMAIN db.series : l # k => db'.series[l] = db.series[l]
    BY <1>5, CancelSeriesFits
  <2>2. \A l \in DOMAIN db'.series : SeriesOn(db, db', l)
    BY <2>1 DEF SeriesOn, Live, Unrecorded
  <2>3. db'.series[k].slot = db.series[k].slot
    <3> DEFINE st == "cancelled"
               s == db.series[k]
    <3>1. st \in {"completed", "cancelled"} /\ db' = SeriesStatus(db, k, st) /\ st # "completed"
      BY <1>5
    <3> HIDE DEF st
    <3>2. SeriesSet(db, db', k, st, s.winner, s.match, s.mark)
      BY <1>0, <3>1, StatusOfSeries
    <3> DEFINE winner == s.winner
               match == s.match
               mark == s.mark
    <3>3. SeriesSet(db, db', k, st, winner, match, mark)
      BY <3>2
    <3> HIDE DEF winner, match, mark
    <3> QED BY <1>0, <3>3, OneSeriesMoved DEF SeriesMoved
  <2> QED BY <1>0, <2>1, <2>2, <2>3, FreeOnSlots
<1>6. ASSUME NEW k \in DOMAIN db.series, RetryResult(k) PROVE SeriesFree(db')
  <2>1. db' \in Recorded(db, k) /\ Unrecorded(db, k)
    BY <1>6, RetryFits
  <2> QED BY <1>0, <2>1, RecordedFree DEF Unrecorded, Superseded
<1>7. ASSUME NEW k \in DOMAIN db.series, NEW w \in Players, SeriesDecided(k, w) PROVE SeriesFree(db')
  <2> DEFINE d == Won(db, k, w)
  <2>1. /\ db.series[k].status = "open" /\ w \in db.slots[db.series[k].slot].pair
        /\ \/ db' = SeriesStatus(db, k, "cancelled")
           \/ db' \in Recorded(d, k)
           \/ db' = d
    BY <1>7, SeriesDecidedFits
  <2>2. /\ Books(d) /\ Grows(db, d) /\ d.slots = db.slots /\ DOMAIN d.series = DOMAIN db.series
        /\ d.series[k] = Now(db.series[k], "completed", w, 0, Len(db.matches))
        /\ \A l \in DOMAIN db.series : l # k => d.series[l] = db.series[l]
    BY <1>0, <2>1, WonIs
  <2> HIDE DEF d
  <2>3. d.series[k].slot = db.series[k].slot /\ d.series[k].status = "completed"
    BY <2>2 DEF Now
  <2>4. FreeAt(d, d.series[k].slot)
    BY <2>1, <2>2, <2>3 DEF SeriesFree, Live, FreeAt
  <2>5. \A l \in DOMAIN d.series : SeriesOn(db, d, l)
    BY <2>2, <2>4 DEF SeriesOn
  <2>6. SeriesFree(d)
    BY <1>0, <2>2, <2>3, <2>5, FreeOnSlots
  <2>7. \A l \in DOMAIN d.series : l > k => d.series[l].slot # d.series[k].slot
    <3>1. \A l \in DOMAIN db.series : l > k => db.series[l].slot # db.series[k].slot
      BY <1>0, <2>1 DEF Books, SeriesFits
    <3> QED BY <2>2, <2>3, <3>1
  <2>8. CASE db' \in Recorded(d, k)
    BY <1>0, <2>2, <2>3, <2>6, <2>7, <2>8, RecordedFree
  <2> QED BY <1>5, <2>1, <2>6, <2>8
<1>8. ASSUME Cancel \/ EndAsIs PROVE SeriesFree(db')
  <2>1. /\ db'.slots = db.slots /\ DOMAIN db'.series = DOMAIN db.series
        /\ \A k \in DOMAIN db.series :
              /\ db.series[k].status = "open" => db'.series[k].status = "cancelled"
              /\ db.series[k].status # "open" => db'.series[k] = db.series[k]
    BY <1>8, EndFits
  <2>2. \A k \in DOMAIN db'.series : SeriesOn(db, db', k)
    BY <2>1 DEF SeriesOn, Live, Unrecorded
  <2>3. \A k \in DOMAIN db.series : db'.series[k].slot = db.series[k].slot
    <3> DEFINE S == DOMAIN db.slots
               c == SeriesCancelled(db, S)
    <3>1. PICK st \in {"cancelled", "completed"} : db' = Ended(db, st)
      BY <1>8, EndFits
    <3> HIDE DEF S
    <3>2. SeriesMoved(db, c)
      BY <1>0, CancelledIs
    <3>3. Books(c)
      BY <1>0, <3>2, MovedFits
    <3> HIDE DEF c
    <3>4. db' = [c EXCEPT !.status = st] /\ st \in {"pending", "active", "completed", "cancelled"}
      BY <3>1 DEF Ended, c, S
    <3>5. db'.series = c.series
      BY <3>3, <3>4, StatusSet
    <3> QED BY <3>2, <3>5 DEF SeriesMoved
  <2> QED BY <1>0, <2>1, <2>2, <2>3, FreeOnSlots
<1>9. RealSlots(db) \subseteq DOMAIN db.slots
  BY DEF RealSlots
<1>10. CASE \E i \in RealSlots(db) : \/ \E w \in db.slots[i].pair : Report(i, w) \/ SetResult(i, w)
                                     \/ Reopen(i) \/ StartSeries(i)
  <2>1. PICK i \in RealSlots(db) : \/ \E w \in db.slots[i].pair : Report(i, w) \/ SetResult(i, w)
                                   \/ Reopen(i) \/ StartSeries(i)
    BY <1>10
  <2>2. i \in DOMAIN db.slots
    BY <1>9
  <2>3. CASE \E w \in db.slots[i].pair : Report(i, w) \/ SetResult(i, w)
    BY <1>1, <1>2, <2>2, <2>3
  <2> QED BY <1>3, <1>4, <2>1, <2>2, <2>3
<1>11. CASE \E k \in DOMAIN db.series : \/ CancelSeries(k) \/ RetryResult(k)
                                        \/ \E w \in Players : SeriesDecided(k, w)
  <2>1. PICK k \in DOMAIN db.series : \/ CancelSeries(k) \/ RetryResult(k)
                                      \/ \E w \in Players : SeriesDecided(k, w)
    BY <1>11
  <2>2. CASE CancelSeries(k)
    <3>1. db.series[k].status = "open" /\ db' = SeriesStatus(db, k, "cancelled")
      BY <2>2 DEF CancelSeries, SeriesStatus
    <3> QED BY <1>5, <3>1
  <2> QED BY <1>6, <1>7, <2>1, <2>2
<1> QED BY <1>8, <1>10, <1>11 DEF Transaction

LEMMA AlwaysFree == Spec => [](torn \/ SeriesFree(db))
<1>1. Init => torn \/ SeriesFree(db)
  BY DEF Init, SeriesFree
<1>2. ASSUME Whole, torn \/ Agree(db, task), torn \/ SeriesFree(db), [Next]_vars
      PROVE  (torn \/ SeriesFree(db))'
  <2> SUFFICES ASSUME ~torn' PROVE SeriesFree(db')
    OBVIOUS
  <2>0. ~torn
    BY <1>2 DEF Next, Watch, vars, Whole
  <2>1. CASE db' = db
    BY <1>2, <2>0, <2>1
  <2>2. CASE \E p \in Procs : Statement(p)
    BY <1>2, <2>0, <2>2, StatementFree
  <2>3. CASE Transaction
    BY <1>2, <2>0, <2>3, TransactionFree
  <2>4. db' = db \/ (\E p \in Procs : Statement(p)) \/ Transaction
    BY <1>2 DEF Next, Start, ReadReport, OnlyTask, Tick, ReadOverdue, Crash, vars
  <2> QED BY <2>1, <2>2, <2>3, <2>4
<1> QED BY <1>1, <1>2, AlwaysWhole, AlwaysAgrees, PTL DEF Spec

(* A pairing that waits for an answer has no series being played; unless a  *)
(* call was cut off or outdated, a series that is played, or whose result   *)
(* is not recorded and not superseded, finds its pairing free.              *)
THEOREM SeriesResultsFit == Spec => []SeriesResultFits
<1>1. Whole /\ (torn \/ SeriesFree(db)) => SeriesResultFits
  <2> SUFFICES ASSUME Whole, torn \/ SeriesFree(db) PROVE SeriesResultFits
    OBVIOUS
  <2>1. ASSUME NEW i \in DOMAIN db.slots, db.slots[i].status = "pending_approval" PROVE OpenSeries(db, i) = {}
    BY <2>1 DEF Whole, Books, SeriesFits, OpenSeries
  <2>2. ~torn => \A k \in DOMAIN db.series :
           db.series[k].status = "open" \/ Unrecorded(db, k) =>
              db.slots[db.series[k].slot].status = "open"
              /\ db.slots[db.series[k].slot].match = 0
    BY DEF SeriesFree, Live, FreeAt
  <2> QED BY <2>1, <2>2 DEF SeriesResultFits
<1> QED BY <1>1, AlwaysWhole, AlwaysFree, PTL

-----------------------------------------------------------------------------
(* Rounds follow each other, and places are given at the end.              *)

AllPlayed(d) == \A i \in DOMAIN d.slots : d.slots[i].status = "completed"

(* A round of a single elimination starts when all before it are played.   *)
InRounds(d) ==
    format = "single_elim" =>
        /\ \A i, j \in DOMAIN d.slots : d.slots[i].round < d.slots[j].round => d.slots[i].status = "completed"
        /\ \A j \in DOMAIN d.slots : \A r \in Nat \ {0} :
              r < d.slots[j].round => \E i \in DOMAIN d.slots : d.slots[i].round = r
        /\ d.status = "pending" => \A j \in DOMAIN d.slots : d.slots[j].round = 1

Earned(d) ==
    d.places # NoPlaces =>
        d.status = "completed" /\ AllPlayed(d) /\ \A p \in Players : d.places[p] = Tier(d, p)

(* Round r is the latest, or the next one after all that were drawn.       *)
MayDraw(d, r) ==
    /\ \A j \in DOMAIN d.slots : /\ d.slots[j].round <= r
                                 /\ d.slots[j].round < r => d.slots[j].status = "completed"
    /\ \A q \in Nat \ {0} : q < r => \E i \in DOMAIN d.slots : d.slots[i].round = q
    /\ d.status = "pending" => r = 1

RowsFollow(d, rows) ==
    \E r \in Nat \ {0} : MayDraw(d, r) /\ \A j \in DOMAIN rows : rows[j].round = r

(* What a call has read about the tournament is still so.                  *)
CallKnows(d, t) ==
    /\ t.pc = "close" => d.status = "active" /\ AllPlayed(d)
    /\ t.pc = "place" => d.status = "completed" /\ AllPlayed(d)
    /\ t.pc \in {"draw", "activate"} => d.status # "completed"
    /\ t.pc = "draw" /\ format = "single_elim" => RowsFollow(d, t.rows)

LEMMA TierSame ==
  ASSUME NEW d, NEW e, e.slots = d.slots, e.matches = d.matches, NEW p
  PROVE  Tier(e, p) = Tier(d, p)
<1>1. \A q : MatchWins(e, q) = MatchWins(d, q)
  BY DEF MatchWins, Approved
<1> QED BY <1>1 DEF Tier

LEMMA EarnedStays ==
  ASSUME NEW d, Earned(d), NEW e, e.slots = d.slots, e.matches = d.matches, e.places = d.places, e.status = d.status
  PROVE  Earned(e)
BY TierSame DEF Earned, AllPlayed

LEMMA RoundsCount ==
  ASSUME NEW d, Books(d)
  PROVE  \A i \in DOMAIN d.slots : d.slots[i].round \in Nat \ {0}
<1>1. \A i \in DOMAIN d.slots : d.slots[i] \in Slot
  BY DbIs
<1> QED BY <1>1 DEF Slot

LEMMA RoundsStay ==
  ASSUME NEW d, InRounds(d), NEW e, DOMAIN e.slots = DOMAIN d.slots,
         \A i \in DOMAIN d.slots : /\ e.slots[i].round = d.slots[i].round
                                   /\ d.slots[i].status = "completed" => e.slots[i].status = "completed",
         e.status = "pending" => d.status = "pending"
  PROVE  InRounds(e)
<1> SUFFICES ASSUME format = "single_elim"
             PROVE  /\ \A i, j \in DOMAIN e.slots : e.slots[i].round < e.slots[j].round => e.slots[i].status = "completed"
                    /\ \A j \in DOMAIN e.slots : \A r \in Nat \ {0} :
                          r < e.slots[j].round => \E i \in DOMAIN e.slots : e.slots[i].round = r
                    /\ e.status = "pending" => \A j \in DOMAIN e.slots : e.slots[j].round = 1
  BY DEF InRounds
<1> QED BY DEF InRounds

(* A row of round r is added.                                              *)
LEMMA RoundDrawn ==
  ASSUME NEW d, Books(d), InRounds(d), NEW e, Books(e), e.status = d.status,
         \A i \in DOMAIN d.slots : i \in DOMAIN e.slots /\ e.slots[i] = d.slots[i],
         NEW r \in Nat \ {0}, MayDraw(d, r),
         \A i \in DOMAIN e.slots : i \notin DOMAIN d.slots => e.slots[i].round = r
  PROVE  InRounds(e) /\ MayDraw(e, r)
<1>1. /\ \A i \in DOMAIN d.slots : d.slots[i].round \in Nat \ {0}
      /\ \A i \in DOMAIN e.slots : e.slots[i].round \in Nat \ {0}
  BY RoundsCount
<1>2. ASSUME NEW j \in DOMAIN e.slots
      PROVE  e.slots[j].round <= r /\ (e.slots[j].round < r => e.slots[j].status = "completed")
  BY <1>1 DEF MayDraw
<1>3. ASSUME NEW q \in Nat \ {0}, q < r PROVE \E i \in DOMAIN e.slots : e.slots[i].round = q
  BY <1>3 DEF MayDraw
<1>4. MayDraw(e, r)
  BY <1>2, <1>3 DEF MayDraw
<1>5. ASSUME NEW i \in DOMAIN e.slots, NEW j \in DOMAIN e.slots, e.slots[i].round < e.slots[j].round
      PROVE  e.slots[i].status = "completed"
  BY <1>1, <1>2, <1>5
<1>6. ASSUME NEW j \in DOMAIN e.slots, NEW q \in Nat \ {0}, q < e.slots[j].round
      PROVE  \E i \in DOMAIN e.slots : e.slots[i].round = q
  BY <1>1, <1>2, <1>3, <1>6
<1>7. ASSUME e.status = "pending", NEW j \in DOMAIN e.slots PROVE e.slots[j].round = 1
  BY <1>1, <1>2, <1>7 DEF MayDraw
<1> QED BY <1>4, <1>5, <1>6, <1>7 DEF InRounds

LEMMA FollowPlayed ==
  ASSUME event \in Events, NEW d, Books(d), InRounds(d), NEW i \in DOMAIN d.slots
  PROVE  /\ Follow(d, i).pc = "close" => d.status = "active" /\ AllPlayed(d)
         /\ Follow(d, i).pc = "draw" => d.status = "active" /\ format = "single_elim"
                                        /\ RowsFollow(d, Follow(d, i).rows)
<1> DEFINE r == d.slots[i].round
           next == r + 1
           winners == Winners(d, next - 1)
           rows == SingleElim(winners, next)
<1>1. r \in Nat \ {0} /\ next \in Nat \ {0} /\ next = r + 1
      /\ \A j \in DOMAIN d.slots : d.slots[j].round \in Nat \ {0}
  <2>1. \A j \in DOMAIN d.slots : d.slots[j].round \in Nat \ {0}
    BY RoundsCount
  <2> QED BY <2>1
<1>2. winners \in Seq(Players) /\ Len(winners) \in Nat
  BY WinnersAre
<1>3. format \in {"round_robin", "single_elim"}
  BY TournamentAssumption DEF Event, format
<1>4. Follow(d, i).pc \in {"close", "draw"} => /\ d.status = "active" /\ RoundOver(d, i)
         /\ \/ format = "round_robin" /\ Follow(d, i).pc = "close"
            \/ /\ format # "round_robin" /\ \A j \in DOMAIN d.slots : d.slots[j].round # next
               /\ \/ Follow(d, i).pc = "close"
                  \/ Follow(d, i).pc = "draw" /\ Follow(d, i).rows = rows /\ ~(Len(winners) <= 1)
  <2> HIDE DEF winners
  <2> QED BY DEF Follow, Close, Score, winners
<1> HIDE DEF winners, next, r
<1>5. ASSUME d.status = "active", RoundOver(d, i), format = "single_elim", \A j \in DOMAIN d.slots : d.slots[j].round # next
      PROVE  AllPlayed(d) /\ MayDraw(d, next)
  <2>1. ASSUME NEW j \in DOMAIN d.slots PROVE d.slots[j].round < next
    BY <1>1, <1>5, <2>1 DEF InRounds
  <2>2. ASSUME NEW j \in DOMAIN d.slots PROVE d.slots[j].status = "completed"
    <3>1. d.slots[j].round = r \/ d.slots[j].round < r
      BY <1>1, <2>1
    <3> QED BY <1>5, <3>1 DEF InRounds, RoundOver, r
  <2>3. ASSUME NEW q \in Nat \ {0}, q < next PROVE \E k \in DOMAIN d.slots : d.slots[k].round = q
    <3>1. q = r \/ q < r
      BY <1>1, <2>3
    <3> QED BY <1>5, <3>1 DEF InRounds, r
  <2>4. \A j \in DOMAIN d.slots : d.slots[j].round <= next
    BY <1>1, <2>1
  <2> QED BY <1>5, <2>2, <2>3, <2>4 DEF AllPlayed, MayDraw
<1>6. format = "round_robin" /\ RoundOver(d, i) => AllPlayed(d)
  BY DEF RoundOver, AllPlayed
<1>7. ~(Len(winners) <= 1) => \A j \in DOMAIN rows : rows[j].round = next
  <2>1. ~(Len(winners) <= 1) => Len(winners) >= 2
    BY <1>2
  <2> QED BY <1>1, <1>2, <2>1, SingleElimRows
<1> HIDE DEF rows
<1> QED BY <1>1, <1>3, <1>4, <1>5, <1>6, <1>7 DEF RowsFollow

(* The rounds and the places of a tournament.                              *)
InOrder(d) == InRounds(d) /\ Earned(d)

LEMMA OrderStays ==
  ASSUME NEW d, InOrder(d), NEW e, e.slots = d.slots, e.matches = d.matches, e.places = d.places, e.status = d.status
  PROVE  InOrder(e)
BY EarnedStays, RoundsStay DEF InOrder

(* While something is still to be played nobody has a place.               *)
LEMMA NoPlacesYet ==
  ASSUME NEW d, InOrder(d), d.status # "completed" \/ ~AllPlayed(d)
  PROVE  d.places = NoPlaces
BY DEF InOrder, Earned

LEMMA OrderWithoutPlaces ==
  ASSUME NEW d, InRounds(d), d.places = NoPlaces
  PROVE  InOrder(d)
BY DEF InOrder, Earned

LEMMA PlacedOrder ==
  ASSUME NEW d, Books(d), InOrder(d), d.status = "completed", AllPlayed(d)
  PROVE  InOrder(Placed(d))
<1> DEFINE e == Placed(d)
           f == [p \in Players |-> IF d.places[p] = "none" THEN Tier(d, p) ELSE d.places[p]]
<1>1. e.slots = d.slots /\ e.matches = d.matches /\ e.status = d.status
  BY PlacedIs
<1>2. d \in Db
  BY DbIs
<1>3. e = [d EXCEPT !.places = f]
  BY <1>2 DEF Placed, Db
<1>4. e.places = f
  BY <1>2, <1>3 DEF Db
<1> HIDE DEF e, f
<1>5. \A p \in Players : d.places[p] = "none" \/ d.places[p] = Tier(d, p)
  BY DEF InOrder, Earned, NoPlaces
<1>6. \A p \in Players : f[p] = Tier(d, p)
  BY <1>5 DEF f
<1>7. \A p \in Players : e.places[p] = Tier(e, p)
  BY <1>1, <1>4, <1>6, TierSame
<1>8. InRounds(e)
  BY <1>1, RoundsStay DEF InOrder
<1>9. AllPlayed(e) /\ e.status = "completed"
  BY <1>1 DEF AllPlayed
<1>10. InOrder(e)
  BY <1>7, <1>8, <1>9 DEF InOrder, Earned
<1> QED BY <1>10 DEF e

LEMMA AdvancedOrder ==
  ASSUME event \in Events, NEW d, Books(d), InRounds(d), d.places = NoPlaces, NEW i \in DOMAIN d.slots
  PROVE  InOrder(Advanced(d, i))
<1> DEFINE e == Advanced(d, i)
<1>1. CASE Follow(d, i) = Score
  <2>1. e = d
    BY <1>1 DEF Advanced, Score
  <2> HIDE DEF e
  <2> QED BY <2>1, OrderWithoutPlaces DEF e
<1>2. CASE Follow(d, i) = Close
  <2> DEFINE st == "completed"
             c == [d EXCEPT !.status = st]
  <2>1. e = Placed(c)
    BY <1>2 DEF Advanced, Close, Closed
  <2>2. AllPlayed(d)
    BY <1>2, FollowPlayed DEF Close
  <2>3. st \in {"pending", "active", "completed", "cancelled"} /\ st # "pending"
    OBVIOUS
  <2> HIDE DEF st
  <2>4. Books(c) /\ c.status = st /\ c.slots = d.slots /\ c.matches = d.matches /\ c.places = d.places
    BY <2>3, StatusSet
  <2> HIDE DEF c, e
  <2>5. InRounds(c)
    BY <2>3, <2>4, RoundsStay
  <2>6. InOrder(c) /\ AllPlayed(c) /\ c.status = "completed"
    BY <2>2, <2>4, <2>5, OrderWithoutPlaces DEF AllPlayed, st
  <2>7. InOrder(e)
    BY <2>1, <2>4, <2>6, PlacedOrder
  <2> QED BY <2>7 DEF e
<1>3. CASE Follow(d, i).pc = "draw" /\ Follow(d, i).rows \in Seq(NewRows)
  <2> DEFINE rows == Follow(d, i).rows
  <2>1. e = [d EXCEPT !.slots = d.slots \o rows]
    BY <1>3 DEF Advanced
  <2>2. d \in Db /\ RowsFollow(d, rows)
    BY <1>3, DbIs, FollowPlayed
  <2>3. rows \in Seq(NewRows)
    BY <1>3
  <2> HIDE DEF rows
  <2>4. e.slots = d.slots \o rows /\ e.places = d.places /\ e.status = d.status /\ e.matches = d.matches
        /\ e.series = d.series /\ e.awards = d.awards
    BY <2>1, <2>2 DEF Db
  <2>5. Books(e)
    BY AdvancedIs
  <2> HIDE DEF e
  <2>6. e \in Db
    BY <2>5, DbIs
  <2>7. /\ \A j \in DOMAIN d.slots : j \in DOMAIN e.slots /\ e.slots[j] = d.slots[j]
        /\ \A j \in DOMAIN e.slots : j \notin DOMAIN d.slots =>
              j - Len(d.slots) \in DOMAIN rows /\ e.slots[j] = rows[j - Len(d.slots)]
    BY <2>3, <2>4, <2>6, SlotsAdded
  <2>8. PICK r \in Nat \ {0} : MayDraw(d, r) /\ \A j \in DOMAIN rows : rows[j].round = r
    BY <2>2 DEF RowsFollow
  <2>9. \A j \in DOMAIN e.slots : j \notin DOMAIN d.slots => e.slots[j].round = r
    BY <2>7, <2>8
  <2>10. InRounds(e)
    BY <2>4, <2>5, <2>7, <2>8, <2>9, RoundDrawn
  <2>11. InOrder(e)
    BY <2>4, <2>10, OrderWithoutPlaces
  <2> QED BY <2>11 DEF e
<1> QED BY <1>1, <1>2, <1>3, FollowIs

LEMMA ConfirmedOrder ==
  ASSUME event \in Events, NEW d, Books(d), InOrder(d), NEW i \in DOMAIN d.slots, NEW w \in d.slots[i].pair,
         NEW e \in Confirmed(d, i, w)
  PROVE  InOrder(e)
<1> DEFINE n == Len(d.matches) + 1
           c == Linked(d, i, w)
           a == Advanced(c, i)
<1>1. d.slots[i].status # "completed" /\ e = Scored(a, n)
  BY DEF Confirmed, Linked, Result
<1>2. d.places = NoPlaces
  BY <1>1, NoPlacesYet DEF AllPlayed
<1>3. /\ c \in Db /\ c.slots = [d.slots EXCEPT ![i] = Shown(d.slots[i], n, "completed")]
      /\ c.status = d.status /\ c.places = d.places
      /\ c.matches = Append(d.matches, Result(d, i, w)) /\ c.series = d.series /\ c.awards = d.awards
      /\ Result(d, i, w) \in Match /\ d.slots[i].match = 0
  BY LinkedIs DEF Confirmed
<1> HIDE DEF c
<1>4. Books(c)
  <2> DEFINE row == Result(d, i, w)
             st == "completed"
  <2>1. row.pair = d.slots[i].pair /\ row.winner \in row.pair /\ row.status # "pending"
    BY DEF Result
  <2>2. RowAdded(d, c, i, row, st)
    <3>1. row \in Match
      BY <1>3
    <3> HIDE DEF row
    <3> QED BY <1>3, <2>1, <3>1 DEF RowAdded, row
  <2> HIDE DEF row, st
  <2> QED BY <2>2, MatchAdded
<1>5. DOMAIN c.slots = DOMAIN d.slots
      /\ \A j \in DOMAIN d.slots : c.slots[j].round = d.slots[j].round
                                   /\ (d.slots[j].status = "completed" => c.slots[j].status = "completed")
  BY <1>3 DEF Shown
<1>6. InRounds(c)
  BY <1>3, <1>5, RoundsStay DEF InOrder
<1>7. InOrder(a) /\ Books(a)
  BY <1>2, <1>3, <1>4, <1>5, <1>6, AdvancedOrder, AdvancedIs
<1> HIDE DEF a, n
<1>8. e.slots = a.slots /\ e.matches = a.matches /\ e.places = a.places /\ e.status = a.status
  BY <1>1, <1>7, DbIs DEF Scored, Db
<1> QED BY <1>7, <1>8, OrderStays

LEMMA RecordedOrder ==
  ASSUME event \in Events, NEW d, Books(d), InOrder(d), NEW k \in DOMAIN d.series, d.series[k].status = "completed",
         NEW e \in Recorded(d, k)
  PROVE  InOrder(e)
<1>1. d.series[k].slot \in DOMAIN d.slots /\ d.series[k].winner \in d.slots[d.series[k].slot].pair
  BY SeriesOf
<1>2. PICK c \in Confirmed(d, d.series[k].slot, d.series[k].winner) :
         e.slots = c.slots /\ e.matches = c.matches /\ e.status = c.status /\ e.places = c.places
  BY RecordFits
<1>3. InOrder(c)
  BY <1>1, ConfirmedOrder
<1> QED BY <1>2, <1>3, OrderStays

LEMMA ClearedOrder ==
  ASSUME NEW d, Books(d), InOrder(d), d.status = "active", NEW i \in DOMAIN d.slots,
         d.slots[i].status \in {"open", "pending_approval"}
  PROVE  Books(Cleared(d, i)) /\ InOrder(Cleared(d, i))
<1> DEFINE c == Cleared(d, i)
<1>1. /\ Books(c) /\ Grows(d, c) /\ c.status = d.status /\ c.places = d.places
      /\ DOMAIN c.slots = DOMAIN d.slots /\ \A j \in DOMAIN d.slots : j # i => c.slots[j] = d.slots[j]
  BY ClearedIs
<1> HIDE DEF c
<1>2. \A j \in DOMAIN d.slots : c.slots[j].round = d.slots[j].round
                                /\ (d.slots[j].status = "completed" => c.slots[j].status = "completed")
  BY <1>1 DEF Grows
<1>3. InRounds(c)
  BY <1>1, <1>2, RoundsStay DEF InOrder
<1>4. c.places = NoPlaces
  BY <1>1, NoPlacesYet
<1>5. Books(c) /\ InOrder(c)
  BY <1>1, <1>3, <1>4, OrderWithoutPlaces
<1> QED BY <1>5 DEF c

LEMMA TransactionOrder ==
  ASSUME Whole, Agree(db, task), InOrder(db), Transaction
  PROVE  InOrder(db')
<1>0. Books(db) /\ event \in Events /\ Books(db') /\ Grows(db, db') /\ RealSlots(db) \subseteq DOMAIN db.slots
  BY TransactionMoves DEF Whole, RealSlots
<1>1. ASSUME NEW i \in DOMAIN db.slots, NEW w \in db.slots[i].pair, Report(i, w) PROVE InOrder(db')
  <2>1. Reported(db, db', i)
    BY <1>1, ReportIs
  <2>2. /\ db.status = "active" /\ db'.status = db.status /\ db'.places = db.places /\ DOMAIN db'.slots = DOMAIN db.slots
        /\ db.slots[i].status = "open" /\ \A j \in DOMAIN db.slots : j # i => db'.slots[j] = db.slots[j]
    BY <2>1 DEF Reported
  <2>3. \A j \in DOMAIN db.slots : db'.slots[j].round = db.slots[j].round
                                   /\ (db.slots[j].status = "completed" => db'.slots[j].status = "completed")
    BY <1>0, <2>2 DEF Grows
  <2>4. InRounds(db')
    BY <2>2, <2>3, RoundsStay DEF InOrder
  <2>5. db'.places = NoPlaces
    BY <2>2, NoPlacesYet
  <2> QED BY <2>4, <2>5, OrderWithoutPlaces
<1>2. ASSUME NEW i \in DOMAIN db.slots, NEW w \in db.slots[i].pair, SetResult(i, w) PROVE InOrder(db')
  <2> DEFINE c == Cleared(db, i)
  <2>1. db.status = "active" /\ db.slots[i].status \in {"open", "pending_approval"} /\ db' \in Confirmed(c, i, w)
    BY <1>2, SetResultFits
  <2>2. Books(c) /\ InOrder(c) /\ DOMAIN c.slots = DOMAIN db.slots /\ Grows(db, c)
    BY <1>0, <2>1, ClearedOrder, ClearedIs
  <2> HIDE DEF c
  <2>3. i \in DOMAIN c.slots /\ w \in c.slots[i].pair
    BY <1>2, <2>2 DEF Grows
  <2> QED BY <1>0, <2>1, <2>2, <2>3, ConfirmedOrder
<1>3. ASSUME NEW i \in DOMAIN db.slots, Reopen(i) PROVE InOrder(db')
  <2> DEFINE m == db.slots[i].match
  <2>1. format = "round_robin" /\ db' = Reopened(db, i) /\ db.slots[i].status = "completed" /\ m # 0
    BY <1>3, ReopenFits
  <2>2. Approved(db, m)
    BY <2>1 DEF Agree, SlotAgrees
  <2>3. db'.places = NoPlaces
    BY <1>0, <2>1, <2>2, ReopenedIs
  <2>4. InRounds(db')
    BY <2>1 DEF InRounds
  <2> QED BY <2>3, <2>4, OrderWithoutPlaces
<1>4. ASSUME NEW i \in DOMAIN db.slots, StartSeries(i) PROVE InOrder(db')
  BY <1>4, StartSeriesFits, OrderStays
<1>5. ASSUME NEW k \in DOMAIN db.series, db.series[k].status = "open", db' = SeriesStatus(db, k, "cancelled")
      PROVE  InOrder(db')
  BY <1>5, CancelSeriesFits, OrderStays
<1>6. ASSUME NEW k \in DOMAIN db.series, RetryResult(k) PROVE InOrder(db')
  BY <1>0, <1>6, RetryFits, RecordedOrder
<1>7. ASSUME NEW k \in DOMAIN db.series, NEW w \in Players, SeriesDecided(k, w) PROVE InOrder(db')
  <2> DEFINE d == Won(db, k, w)
  <2>1. /\ db.series[k].status = "open" /\ w \in db.slots[db.series[k].slot].pair
        /\ \/ db' = SeriesStatus(db, k, "cancelled")
           \/ db' \in Recorded(d, k)
           \/ db' = d
    BY <1>7, SeriesDecidedFits
  <2>2. /\ Books(d) /\ d.slots = db.slots /\ d.matches = db.matches /\ d.status = db.status /\ d.places = db.places
        /\ DOMAIN d.series = DOMAIN db.series /\ d.series[k] = Now(db.series[k], "completed", w, 0, Len(db.matches))
    BY <1>0, <2>1, WonIs
  <2> HIDE DEF d
  <2>3. InOrder(d) /\ d.series[k].status = "completed"
    BY <2>2, OrderStays DEF Now
  <2>4. CASE db' \in Recorded(d, k)
    BY <1>0, <2>2, <2>3, <2>4, RecordedOrder
  <2> QED BY <1>5, <2>1, <2>3, <2>4
<1>8. ASSUME Cancel \/ EndAsIs PROVE InOrder(db')
  <2>1. PICK st \in {"cancelled", "completed"} : db.status # "completed" /\ db'.status = st
           /\ db'.slots = db.slots /\ db'.places = db.places
    BY <1>8, EndFits
  <2>2. InRounds(db')
    BY <2>1, RoundsStay DEF InOrder
  <2> QED BY <2>1, <2>2, NoPlacesYet, OrderWithoutPlaces
<1>9. CASE \E i \in RealSlots(db) : \/ \E w \in db.slots[i].pair : Report(i, w) \/ SetResult(i, w)
                                    \/ Reopen(i) \/ StartSeries(i)
  <2>1. PICK i \in RealSlots(db) : \/ \E w \in db.slots[i].pair : Report(i, w) \/ SetResult(i, w)
                                   \/ Reopen(i) \/ StartSeries(i)
    BY <1>9
  <2>2. i \in DOMAIN db.slots
    BY <1>0
  <2>3. CASE \E w \in db.slots[i].pair : Report(i, w) \/ SetResult(i, w)
    BY <1>1, <1>2, <2>2, <2>3
  <2> QED BY <1>3, <1>4, <2>1, <2>2, <2>3
<1>10. CASE \E k \in DOMAIN db.series : \/ CancelSeries(k) \/ RetryResult(k)
                                        \/ \E w \in Players : SeriesDecided(k, w)
  <2>1. PICK k \in DOMAIN db.series : \/ CancelSeries(k) \/ RetryResult(k)
                                      \/ \E w \in Players : SeriesDecided(k, w)
    BY <1>10
  <2>2. CASE CancelSeries(k)
    <3>1. db.series[k].status = "open" /\ db' = SeriesStatus(db, k, "cancelled")
      BY <2>2 DEF CancelSeries, SeriesStatus
    <3> QED BY <1>5, <3>1
  <2> QED BY <1>6, <1>7, <2>1, <2>2
<1> QED BY <1>8, <1>9, <1>10 DEF Transaction

(* What an overtaken call would not know is only what another one changed. *)
LEMMA StillKnows ==
  ASSUME Watch, ~torn', NEW q \in Procs, task'[q] = task[q], CallKnows(db, task[q])
  PROVE  CallKnows(db', task[q])
<1>1. task[q].pc \in {"draw", "activate", "close", "place"} => db'.status = db.status /\ db'.slots = db.slots
  BY DEF Watch, Overtaken
<1>2. CASE task[q].pc \in {"draw", "activate", "close", "place"}
  BY <1>1, <1>2 DEF CallKnows, AllPlayed, RowsFollow, MayDraw
<1> QED BY <1>2 DEF CallKnows

LEMMA KnowsNothing ==
  ASSUME NEW d, NEW u, u.pc \notin {"draw", "activate", "close", "place"}
  PROVE  CallKnows(d, u)
BY DEF CallKnows

(* One statement of call p: the tournament stays in order, and p knows what *)
(* it goes on with.                                                        *)
LEMMA StatementOrder ==
  ASSUME Whole, Agree(db, task), InOrder(db), NEW p \in Procs, CallKnows(db, task[p]), Statement(p)
  PROVE  InOrder(db') /\ CallKnows(db', task'[p])
<1> DEFINE t == task[p]
           u == task'[p]
           Goal == InOrder(db') /\ CallKnows(db', u)
<1>0. /\ Books(db) /\ event \in Events /\ Books(db') /\ Grows(db, db') /\ TaskFits(db, t) /\ t \in Task
      /\ CallAgrees(db, t) /\ InRounds(db)
  BY StatementMoves, TaskOf DEF Moved, Agree, InOrder
<1>1. ASSUME InsertPairing(p) PROVE Goal
  <2> DEFINE row == Head(t.rows)
             rest == Tail(t.rows)
             n == Len(db.slots)
  <2>1. /\ db'.slots = Append(db.slots, row) /\ db'.matches = db.matches
        /\ db'.status = db.status /\ db'.places = db.places
    BY <1>1, InsertPairingFits
  <2>2. t.pc = "draw" /\ t.rows \in Seq(NewRows) /\ Len(t.rows) >= 1 /\ Len(t.rows) \in Nat
    BY <1>0, <1>1 DEF InsertPairing, At, TaskFits
  <2>3. /\ u.rows = rest /\ u.pc \in {"draw", "activate", "score"}
    <3> DEFINE pc == IF Len(t.rows) # 1 THEN "draw" ELSE IF t.report = 0 THEN "activate" ELSE "score"
               v == [t EXCEPT !.rows = Tail(t.rows), !.pc = pc]
    <3>1. task' = [task EXCEPT ![p] = v]
      BY <1>1 DEF InsertPairing, Goto
    <3>2. u = v
      BY <3>1 DEF Whole
    <3> HIDE DEF t
    <3>3. v.pc = pc /\ v.rows = Tail(t.rows)
      BY <1>0 DEF Task
    <3> QED BY <3>2, <3>3 DEF t
  <2>4. db.status # "completed" /\ db.places = NoPlaces
    BY <2>2, NoPlacesYet DEF CallKnows
  <2>5. db.slots \in Seq(Slot) /\ n \in Nat /\ DOMAIN db.slots = 1..n
    BY <1>0, DbIs
  <2>6. /\ DOMAIN db'.slots = 1..(n + 1) /\ db'.slots[n + 1] = row
        /\ \A i \in DOMAIN db.slots : i \in DOMAIN db'.slots /\ db'.slots[i] = db.slots[i]
    <3> HIDE DEF row
    <3> QED BY <2>1, <2>5
  <2>7. \A i \in DOMAIN db'.slots : i \notin DOMAIN db.slots => db'.slots[i] = row
    BY <2>5, <2>6
  <2>8. CASE format # "single_elim"
    <3>1. InRounds(db')
      BY <2>8 DEF InRounds
    <3>2. InOrder(db')
      BY <2>1, <2>4, <3>1, OrderWithoutPlaces
    <3>3. CallKnows(db', u)
      BY <2>1, <2>3, <2>4, <2>8 DEF CallKnows
    <3> QED BY <3>2, <3>3
  <2>9. CASE format = "single_elim"
    <3>1. PICK r \in Nat \ {0} : MayDraw(db, r) /\ \A j \in DOMAIN t.rows : t.rows[j].round = r
      BY <2>2, <2>9 DEF CallKnows, RowsFollow
    <3>2. row.round = r /\ \A j \in DOMAIN rest : rest[j].round = r
      <4> DEFINE rows == t.rows
      <4>1. row = rows[1] /\ 1 \in DOMAIN rows /\ \A j \in DOMAIN rest : rest[j] = rows[j + 1] /\ j + 1 \in DOMAIN rows
        <5>1. rows \in Seq(NewRows) /\ Len(rows) >= 1 /\ Len(rows) \in Nat
          BY <2>2
        <5> HIDE DEF rows
        <5>2. Head(rows) = rows[1] /\ 1 \in DOMAIN rows
              /\ \A j \in DOMAIN Tail(rows) : Tail(rows)[j] = rows[j + 1] /\ j + 1 \in DOMAIN rows
          BY <5>1
        <5> QED BY <5>2 DEF rows
      <4> QED BY <3>1, <4>1
    <3> HIDE DEF row, rest
    <3>3. \A i \in DOMAIN db'.slots : i \notin DOMAIN db.slots => db'.slots[i].round = r
      BY <2>7, <3>2
    <3>4. InRounds(db') /\ MayDraw(db', r)
      BY <1>0, <2>1, <2>6, <3>1, <3>3, RoundDrawn
    <3>5. InOrder(db')
      BY <2>1, <2>4, <3>4, OrderWithoutPlaces
    <3>6. RowsFollow(db', u.rows)
      BY <2>3, <3>2, <3>4 DEF RowsFollow
    <3>7. CallKnows(db', u)
      BY <2>1, <2>3, <2>4, <3>6 DEF CallKnows
    <3> QED BY <3>5, <3>7
  <2> QED BY <2>8, <2>9
<1>2. ASSUME Activate(p) PROVE Goal
  <2> DEFINE st == "active"
  <2>1. st \in {"pending", "active", "completed", "cancelled"} /\ db' = [db EXCEPT !.status = st] /\ u = Idle
        /\ t.pc = "activate" /\ st # "pending"
    BY <1>2, ActivateFits DEF Activate, At
  <2> HIDE DEF st
  <2>2. db'.slots = db.slots /\ db'.places = db.places /\ db'.status = st
    BY <1>0, <2>1, StatusSet
  <2>3. db'.places = NoPlaces
    BY <2>1, <2>2, NoPlacesYet DEF CallKnows
  <2>4. InRounds(db')
    BY <1>0, <2>1, <2>2, RoundsStay
  <2>5. InOrder(db')
    BY <2>3, <2>4, OrderWithoutPlaces
  <2>6. u.pc = "idle"
    BY <2>1 DEF Idle
  <2>7. CallKnows(db', u)
    BY <2>6, KnowsNothing
  <2> QED BY <2>5, <2>7
<1>3. ASSUME Decide(p) PROVE Goal
  <2>1. PICK st \in {"approved", "denied"} : db' = Redone(db, t.report, st)
    BY <1>3, DecideFits
  <2>2. t.report \in DOMAIN db.matches /\ t.pc \in {"approve", "deny"}
    BY <1>3, DecideFits
  <2>3. db'.slots = db.slots /\ db'.status = db.status /\ db'.places = db.places
    BY <1>0, <2>1, <2>2, DecidedIs DEF Redecided
  <2>4. db.matches[t.report].status = "pending"
    BY <1>0, <2>2 DEF CallAgrees
  <2>5. PICK i \in DOMAIN db.slots : db.slots[i].match = t.report
    BY <2>2, <2>4 DEF Agree, MatchAgrees
  <2>6. db.slots[i].status # "completed"
    <3>1. t.report # 0
      BY <1>0, <2>2 DEF TaskFits, Carrying
    <3> QED BY <2>4, <2>5, <3>1 DEF Agree, SlotAgrees, Approved
  <2>7. db'.places = NoPlaces
    BY <2>3, <2>6, NoPlacesYet DEF AllPlayed
  <2>8. InRounds(db')
    BY <1>0, <2>3, RoundsStay
  <2>9. u.pc \in {"find", "free"}
    <3> DEFINE f == "find"
               g == "free"
    <3>1. u = [t EXCEPT !.pc = f] \/ u = [t EXCEPT !.pc = g]
      BY <1>3, DecideFits
    <3> HIDE DEF f, g, t, u
    <3>2. u.pc = f \/ u.pc = g
      BY <1>0, <3>1, TaskSet
    <3> QED BY <3>2 DEF f, g
  <2> QED BY <2>7, <2>8, <2>9, OrderWithoutPlaces, KnowsNothing
<1>4. ASSUME FreeSlot(p) PROVE Goal
  <2>1. t.pc = "free" /\ u = Idle /\ db' = Freed(db, t.report)
    BY <1>4, FreeSlotFits
  <2>2. SlotsFreed(db, db', SlotsOf(db, t.report)) /\ db'.status = db.status /\ db'.places = db.places
    BY <1>0, <2>1, FreeIs
  <2>3. t.report # 0 /\ db.matches[t.report].status = "denied"
    BY <1>0, <2>1 DEF TaskFits, Carrying, CallAgrees
  <2>4. \A i \in SlotsOf(db, t.report) : db.slots[i].status # "completed"
    BY <2>3 DEF Agree, SlotAgrees, SlotsOf, Approved
  <2>5. DOMAIN db'.slots = DOMAIN db.slots /\ db'.matches = db.matches
        /\ \A i \in DOMAIN db.slots : i \notin SlotsOf(db, t.report) => db'.slots[i] = db.slots[i]
    BY <2>2 DEF SlotsFreed
  <2>6. \A i \in DOMAIN db.slots : db'.slots[i].round = db.slots[i].round
                                   /\ (db.slots[i].status = "completed" => db'.slots[i].status = "completed")
    BY <1>0, <2>4, <2>5 DEF Grows
  <2>7. InRounds(db')
    BY <1>0, <2>2, <2>5, <2>6, RoundsStay
  <2>8. CASE SlotsOf(db, t.report) = {}
    <3>1. db'.slots = db.slots
      <4>1. db'.slots \in Seq(Slot) /\ db.slots \in Seq(Slot) /\ \A i \in DOMAIN db.slots : db'.slots[i] = db.slots[i]
        BY <1>0, <2>5, <2>8, DbIs
      <4> QED BY <2>5, <4>1
    <3> QED BY <2>1, <2>2, <2>5, <3>1, OrderStays, KnowsNothing DEF Idle
  <2>9. CASE SlotsOf(db, t.report) # {}
    <3>1. db'.places = NoPlaces
      BY <2>2, <2>4, <2>9, NoPlacesYet DEF AllPlayed, SlotsOf
    <3> QED BY <2>1, <2>7, <3>1, OrderWithoutPlaces, KnowsNothing DEF Idle
  <2> QED BY <2>8, <2>9
<1>5. ASSUME FindSlot(p) PROVE Goal
  <2>1. db' = db
    BY <1>5, FindSlotFits
  <2>2. u.pc \in {"score", "complete"}
    <3> DEFINE x == [t EXCEPT !.pc = "score"]
               y == [t EXCEPT !.pc = "complete", !.slot = Min(SlotsOf(db, t.report))]
    <3>1. task' = [task EXCEPT ![p] = x] \/ task' = [task EXCEPT ![p] = y]
      BY <1>5 DEF FindSlot, Goto, Continue
    <3>2. u = x \/ u = y
      BY <3>1 DEF Whole
    <3> HIDE DEF t
    <3>3. x.pc = "score" /\ y.pc = "complete"
      BY <1>0 DEF Task
    <3> QED BY <3>2, <3>3
  <2> QED BY <2>1, <2>2, KnowsNothing
<1>6. ASSUME CompleteSlot(p) PROVE Goal
  <2> DEFINE i == t.slot
             s == "survey"
  <2>1. t.pc = "complete" /\ u = [t EXCEPT !.pc = s] /\ db' = Completed(db, i) /\ i \in DOMAIN db.slots
    BY <1>6, CompleteSlotFits
  <2> HIDE DEF s, i, t, u
  <2>2. u.pc = s
    BY <1>0, <2>1, TaskSet
  <2>3. /\ db'.status = db.status /\ db'.places = db.places /\ db'.matches = db.matches /\ DOMAIN db'.slots = DOMAIN db.slots
        /\ db'.slots[i] = Shown(db.slots[i], db.slots[i].match, "completed")
        /\ \A j \in DOMAIN db.slots : j # i => db'.slots[j] = db.slots[j]
    BY <1>0, <2>1, CompletedIs
  <2>4. db'.slots[i].status = "completed"
    BY <2>3 DEF Shown
  <2>5. \A j \in DOMAIN db.slots : db'.slots[j].round = db.slots[j].round
                                   /\ (db.slots[j].status = "completed" => db'.slots[j].status = "completed")
    BY <1>0, <2>3, <2>4 DEF Grows
  <2>6. InRounds(db')
    BY <1>0, <2>3, <2>5, RoundsStay
  <2>7. ASSUME db.places = NoPlaces PROVE InOrder(db')
    BY <2>3, <2>6, <2>7, OrderWithoutPlaces
  <2>8. ASSUME db.places # NoPlaces PROVE InOrder(db')
    <3>1. db.slots[i].status = "completed"
      BY <2>1, <2>8 DEF InOrder, Earned, AllPlayed
    <3>2. db.slots \in Seq(Slot) /\ db'.slots \in Seq(Slot) /\ db.slots[i] \in Slot
      BY <1>0, <2>1, DbIs
    <3>3. db'.slots[i] = db.slots[i]
      BY <2>3, <3>1, <3>2 DEF Shown, Slot
    <3>4. db'.slots = db.slots
      BY <2>3, <3>2, <3>3
    <3> QED BY <2>3, <3>4, OrderStays
  <2>9. CallKnows(db', u)
    BY <2>2, KnowsNothing DEF s
  <2> QED BY <2>7, <2>8, <2>9 DEF u
<1>7. ASSUME Survey(p) PROVE Goal
  <2> DEFINE f == Follow(db, t.slot)
             pc == f.pc
             rows == f.rows
             v == [t EXCEPT !.pc = pc]
  <2>1. db' = db /\ t.slot \in DOMAIN db.slots /\ u = [v EXCEPT !.rows = rows]
    BY <1>7, SurveyFits
  <2>2. /\ pc = "close" => db.status = "active" /\ AllPlayed(db)
        /\ pc = "draw" => db.status = "active" /\ format = "single_elim" /\ RowsFollow(db, rows)
    BY <1>0, <2>1, FollowPlayed
  <2>3. pc \in {"draw", "close", "score"}
    BY <1>0, <2>1, FollowIs DEF Score, Close
  <2> HIDE DEF pc, rows, f
  <2>4. u.pc = pc /\ u.rows = rows
    <3> HIDE DEF t, u
    <3>1. v.pc = pc /\ u = [v EXCEPT !.rows = rows] /\ DOMAIN v = DOMAIN t
      BY <1>0, <2>1 DEF Task
    <3>2. "rows" \in DOMAIN v /\ v.pc = pc
      BY <1>0, <3>1 DEF Task
    <3> HIDE DEF v
    <3> QED BY <3>1, <3>2
  <2>5. CallKnows(db, u)
    BY <2>2, <2>3, <2>4 DEF CallKnows
  <2> QED BY <2>1, <2>5
<1>8. ASSUME CloseTournament(p) PROVE Goal
  <2> DEFINE st == "completed"
             s == "place"
  <2>1. t.pc = "close" /\ u = [t EXCEPT !.pc = s] /\ db' = [db EXCEPT !.status = st]
        /\ st \in {"pending", "active", "completed", "cancelled"} /\ st # "pending"
    BY <1>8, CloseFits
  <2>2. db.status = "active" /\ AllPlayed(db)
    BY <2>1 DEF CallKnows
  <2> HIDE DEF st, s, t, u
  <2>3. u.pc = s
    BY <1>0, <2>1, TaskSet
  <2>4. db'.slots = db.slots /\ db'.places = db.places /\ db'.status = st
    BY <1>0, <2>1, StatusSet
  <2>5. InRounds(db')
    BY <1>0, <2>1, <2>4, RoundsStay
  <2>6. InOrder(db')
    BY <2>2, <2>4, <2>5, NoPlacesYet, OrderWithoutPlaces
  <2>7. CallKnows(db', u)
    BY <2>2, <2>3, <2>4 DEF CallKnows, AllPlayed, s, st
  <2> QED BY <2>6, <2>7 DEF u
<1>9. ASSUME Place(p) PROVE Goal
  <2> DEFINE s == "score"
  <2>1. t.pc = "place" /\ u = [t EXCEPT !.pc = s] /\ db' = Placed(db)
    BY <1>9, PlaceFits
  <2>2. db.status = "completed" /\ AllPlayed(db)
    BY <2>1 DEF CallKnows
  <2> HIDE DEF s, t, u
  <2>3. u.pc = s
    BY <1>0, <2>1, TaskSet
  <2>4. InOrder(db')
    BY <1>0, <2>1, <2>2, PlacedOrder
  <2>5. CallKnows(db', u)
    BY <2>3, KnowsNothing DEF s
  <2> QED BY <2>4, <2>5 DEF u
<1>10. ASSUME ReadScore(p) PROVE Goal
  <2>1. db' = db
    BY <1>10, ReadScoreFits
  <2>2. u.pc \in {"award", "idle"}
    <3> DEFINE x == [t EXCEPT !.pc = "award"]
    <3>1. task' = [task EXCEPT ![p] = x] \/ task' = [task EXCEPT ![p] = Idle]
      BY <1>10 DEF ReadScore, Goto, Continue
    <3>2. u = x \/ u = Idle
      BY <3>1 DEF Whole
    <3> HIDE DEF t
    <3>3. x.pc = "award" /\ Idle.pc = "idle"
      BY <1>0 DEF Task, Idle
    <3> QED BY <3>2, <3>3
  <2> QED BY <2>1, <2>2, KnowsNothing
<1>11. ASSUME Award(p) PROVE Goal
  <2>1. db' = [db EXCEPT !.awards = @ \cup {t.report}] /\ t.report \in DOMAIN db.matches
    BY <1>11, AwardFits
  <2>2. u = Idle
    <3>1. task' = [task EXCEPT ![p] = Idle]
      BY <1>11 DEF Award, Goto
    <3> QED BY <3>1 DEF Whole
  <2>3. db'.slots = db.slots /\ db'.matches = db.matches /\ db'.status = db.status /\ db'.places = db.places
    BY <1>0, <2>1, AwardIs
  <2> QED BY <2>2, <2>3, OrderStays, KnowsNothing DEF Idle
<1> HIDE DEF Goal
<1>12. Goal
  BY <1>1, <1>2, <1>3, <1>4, <1>5, <1>6, <1>7, <1>8, <1>9, <1>10, <1>11 DEF Statement
<1> QED BY <1>12 DEF Goal

CallsKnow(d, tk) == \A p \in Procs : CallKnows(d, tk[p])

LEMMA StartKnows ==
  ASSUME Whole, InOrder(db), NEW p \in Procs, Start(p)
  PROVE  db' = db /\ CallKnows(db', task'[p])
<1> DEFINE rows == FirstRows
           v == [Idle EXCEPT !.pc = "draw"]
<1>1. db' = db /\ db.status = "pending" /\ task'[p] = [v EXCEPT !.rows = rows] /\ event \in Events /\ Books(db)
  BY StartFits, TaskOf
<1>2. format = "single_elim" => \A j \in DOMAIN rows : rows[j].round = 1
  BY <1>1, FirstRowsAre
<1> HIDE DEF rows
<1>3. task'[p].pc = "draw" /\ task'[p].rows = rows
  BY <1>1 DEF Idle
<1>4. ASSUME format = "single_elim" PROVE RowsFollow(db, rows)
  <2>1. MayDraw(db, 1)
    <3>1. \A j \in DOMAIN db.slots : db.slots[j].round = 1
      BY <1>1, <1>4 DEF InOrder, InRounds
    <3> QED BY <3>1 DEF MayDraw
  <2> QED BY <1>2, <1>4, <2>1 DEF RowsFollow
<1> QED BY <1>1, <1>3, <1>4 DEF CallKnows

LEMMA StepInOrder ==
  ASSUME Whole, torn \/ Agree(db, task), torn \/ (InOrder(db) /\ CallsKnow(db, task)), [Next]_vars
  PROVE  torn' \/ (InOrder(db') /\ CallsKnow(db', task'))
<1> SUFFICES ASSUME ~torn' PROVE InOrder(db') /\ CallsKnow(db', task')
  OBVIOUS
<1>0. ~torn /\ task \in [Procs -> Task] /\ Frontends \subseteq Procs /\ Worker \in Procs
  BY DEF Next, Watch, vars, Whole, Procs
<1>1. Agree(db, task) /\ InOrder(db) /\ \A q \in Procs : CallKnows(db, task[q])
  BY <1>0 DEF CallsKnow
<1>2. ASSUME NEW p \in Procs, \A q \in Procs : q # p => task'[q] = task[q], Watch,
             InOrder(db'), CallKnows(db', task'[p])
      PROVE  InOrder(db') /\ CallsKnow(db', task')
  <2>1. ASSUME NEW q \in Procs PROVE CallKnows(db', task'[q])
    <3>1. CASE q = p
      BY <1>2, <3>1
    <3>2. CASE q # p
      BY <1>1, <1>2, <3>2, StillKnows
    <3> QED BY <3>1, <3>2
  <2> QED BY <1>2, <2>1 DEF CallsKnow
<1>3. ASSUME NEW p \in Procs, Moved(p), db' = db, task'[p].pc \notin {"draw", "activate", "close", "place"}
      PROVE  InOrder(db') /\ CallsKnow(db', task')
  <2>1. \A q \in Procs : q # p => task'[q] = task[q]
    BY <1>3, MovedTo DEF Others
  <2>2. CallKnows(db, task'[p])
    BY <1>3, KnowsNothing
  <2> QED BY <1>1, <1>3, <2>1, <2>2 DEF CallsKnow
<1>4. ASSUME NEW p \in Procs, Start(p) /\ Watch PROVE InOrder(db') /\ CallsKnow(db', task')
  <2>1. Moved(p) /\ db' = db /\ CallKnows(db', task'[p])
    BY <1>1, <1>4, StartFits, StartKnows
  <2>2. \A q \in Procs : q # p => task'[q] = task[q]
    BY <2>1, MovedTo DEF Others
  <2> QED BY <1>1, <1>2, <1>4, <2>1, <2>2
<1>5. ASSUME NEW p \in Procs, NEW m \in DOMAIN db.matches, NEW v \in {"approve", "deny"}, ReadReport(p, m, v)
      PROVE  InOrder(db') /\ CallsKnow(db', task')
  <2>1. Moved(p) /\ db' = db /\ task'[p] = [Idle EXCEPT !.pc = v, !.report = m]
    <3>1. /\ db.matches[m].status = "pending" /\ task[p].pc = "idle" /\ db' = db /\ event' = event
          /\ Goto(p, [Idle EXCEPT !.pc = v, !.report = m])
      BY <1>5 DEF ReadReport, OnlyTask, Fixed, At
    <3>2. Moved(p)
      BY <1>5, <3>1, ReportRead
    <3>3. task'[p] = [Idle EXCEPT !.pc = v, !.report = m]
      BY <1>0, <3>1 DEF Goto
    <3> QED BY <3>1, <3>2, <3>3
  <2>2. task'[p].pc = v
    BY <2>1 DEF Idle
  <2> QED BY <1>3, <1>5, <2>1, <2>2
<1>6. ASSUME ReadOverdue PROVE InOrder(db') /\ CallsKnow(db', task')
  <2>1. Moved(Worker) /\ db' = db
    BY <1>6, ReadOverdueFits
  <2>2. task'[Worker].pc \in {"idle", "approve"}
    <3>1. CASE task'[Worker] = Idle
      BY <3>1 DEF Idle
    <3>2. ASSUME NEW m \in DOMAIN db.matches, task'[Worker] = [Idle EXCEPT !.pc = "approve", !.report = m]
          PROVE  task'[Worker].pc = "approve"
      BY <3>2 DEF Idle
    <3> QED BY <1>6, <3>1, <3>2, ReadOverdueFits
  <2> QED BY <1>0, <1>3, <2>1, <2>2
<1>7. ASSUME NEW late \in SUBSET DOMAIN db.matches, Tick(late) PROVE InOrder(db') /\ CallsKnow(db', task')
  BY <1>1, <1>7 DEF Tick, CallsKnow
<1>8. ASSUME NEW p \in Procs, Statement(p) /\ Watch PROVE InOrder(db') /\ CallsKnow(db', task')
  <2>1. InOrder(db') /\ CallKnows(db', task'[p])
    BY <1>1, <1>8, StatementOrder
  <2>2. \A q \in Procs : q # p => task'[q] = task[q]
    BY <1>8, StatementMoves, MovedTo DEF Others
  <2> QED BY <1>2, <1>8, <2>1, <2>2
<1>9. ASSUME Transaction /\ Watch PROVE InOrder(db') /\ CallsKnow(db', task')
  <2>1. task' = task /\ InOrder(db')
    BY <1>1, <1>9, TransactionMoves, TransactionOrder
  <2>2. \A q \in Procs : CallKnows(db', task'[q])
    BY <1>1, <1>9, <2>1, StillKnows
  <2> QED BY <2>1, <2>2 DEF CallsKnow
<1>10. ASSUME NEW p \in Procs, Crash(p) PROVE InOrder(db') /\ CallsKnow(db', task')
  <2>1. Moved(p) /\ db' = db /\ task'[p] = Idle
    BY <1>10, CrashFits
  <2>2. task'[p].pc = "idle"
    BY <2>1 DEF Idle
  <2> QED BY <1>3, <2>1, <2>2
<1>11. CASE UNCHANGED vars
  BY <1>1, <1>11 DEF vars, CallsKnow
<1> QED BY <1>0, <1>4, <1>5, <1>6, <1>7, <1>8, <1>9, <1>10, <1>11 DEF Next

LEMMA EventStays ==
  ASSUME Whole, [Next]_vars
  PROVE  event' = event
<1>1. ASSUME NEW p \in Procs, Statement(p) PROVE event' = event
  BY <1>1, StatementMoves DEF Moved
<1>2. ASSUME Transaction PROVE event' = event
  BY <1>2, TransactionMoves
<1>3. \/ \E p \in Procs : Statement(p)
      \/ Transaction
      \/ event' = event
  BY DEF Next, Start, ReadReport, Tick, ReadOverdue, Crash, OnlyTask, Fixed, vars
<1> QED BY <1>1, <1>2, <1>3

LEMMA SameOrder ==
  ASSUME event' = event, InOrder(db'), CallsKnow(db', task')
  PROVE  (InOrder(db) /\ CallsKnow(db, task))'
<1>1. NoPlaces' = NoPlaces /\ Players' = Players /\ format' = format /\ Procs' = Procs
  BY SameRows DEF Procs
<1>2. \A p : Tier(db', p) = Tier(db, p)'
  BY <1>1 DEF Tier, MatchWins, Approved
<1>3. Earned(db)'
  BY <1>1, <1>2 DEF InOrder, Earned, AllPlayed
<1>4. InRounds(db)'
  BY <1>1 DEF InOrder, InRounds
<1>5. CallsKnow(db, task)'
  BY <1>1 DEF CallsKnow, CallKnows, AllPlayed, RowsFollow, MayDraw
<1> QED BY <1>3, <1>4, <1>5 DEF InOrder

LEMMA AlwaysInOrder == Spec => [](torn \/ (InOrder(db) /\ CallsKnow(db, task)))
<1>1. Init => torn \/ (InOrder(db) /\ CallsKnow(db, task))
  <2> SUFFICES ASSUME Init PROVE InOrder(db) /\ CallsKnow(db, task)
    OBVIOUS
  <2>1. db.slots = << >> /\ db.places = NoPlaces /\ \A p \in Procs : task[p] = Idle
    BY DEF Init
  <2>2. InRounds(db)
    BY <2>1 DEF InRounds
  <2>3. CallKnows(db, Idle)
    BY KnowsNothing DEF Idle
  <2> QED BY <2>1, <2>2, <2>3, OrderWithoutPlaces DEF CallsKnow
<1>2. ASSUME Whole, torn \/ Agree(db, task), torn \/ (InOrder(db) /\ CallsKnow(db, task)), [Next]_vars
      PROVE  (torn \/ (InOrder(db) /\ CallsKnow(db, task)))'
  <2>1. torn' \/ (InOrder(db') /\ CallsKnow(db', task'))
    BY <1>2, StepInOrder
  <2>2. event' = event
    BY <1>2, EventStays
  <2> QED BY <2>1, <2>2, SameOrder
<1> QED BY <1>1, <1>2, AlwaysWhole, AlwaysAgrees, PTL DEF Spec

(* Unless a call was cut off or outdated, players have places only in a     *)
(* tournament that was played to its end, and the places follow from the   *)
(* results that stand, also after the organizer reopened one of them.      *)
THEOREM PlacesAlwaysEarned == Spec => []PlacesAreEarned
<1>1. torn \/ (InOrder(db) /\ CallsKnow(db, task)) => PlacesAreEarned
  BY DEF InOrder, Earned, AllPlayed, PlacesAreEarned
<1> QED BY <1>1, AlwaysInOrder, PTL
=============================================================================
