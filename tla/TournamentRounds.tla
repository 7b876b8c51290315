-------------------------- MODULE TournamentRounds --------------------------
(* The rounds of a tournament follow each other: that the circle of a round *)
(* robin lets everybody meet once, and that a single elimination is drawn   *)
(* from the winners of the round before, for any field and any order of     *)
(* reports, decisions and draws.                                           *)
EXTENDS TournamentProofs

-----------------------------------------------------------------------------
(* The circle: m seats turn around the first one.                          *)

LEMMA PlaceFrom ==
  ASSUME NEW m \in Nat \ {0}, NEW r \in 1..m, NEW k \in 1..(m + 1)
  PROVE  Place1(m, r, k) = IF k = 1 THEN 1 ELSE IF k + r < m + 3 THEN k + r - 1 ELSE k + r - 1 - m
<1>1. CASE k = 1
  BY <1>1 DEF Place1
<1>2. CASE k # 1
  <2>1. k \in 2..(m + 1)
    BY <1>2
  <2> QED BY <1>2, <2>1, PlaceIs
<1> QED BY <1>1, <1>2

(* Two pairs of opposite seats at the same two places are the same pair.    *)
LEMMA MeetOnce ==
  ASSUME NEW h \in Nat \ {0}, NEW m, m = 2 * h - 1,
         NEW r \in 1..m, NEW s \in 1..m, NEW i \in 1..h, NEW l \in 1..h,
         \/ /\ Place1(m, r, i) = Place1(m, s, l)
            /\ Place1(m, r, m + 2 - i) = Place1(m, s, m + 2 - l)
         \/ /\ Place1(m, r, i) = Place1(m, s, m + 2 - l)
            /\ Place1(m, r, m + 2 - i) = Place1(m, s, l)
  PROVE  r = s /\ i = l
<1>1. m \in Nat \ {0} /\ i \in 1..(m + 1) /\ l \in 1..(m + 1)
      /\ m + 2 - i \in 1..(m + 1) /\ m + 2 - l \in 1..(m + 1) /\ m + 2 - i # 1 /\ m + 2 - l # 1
      /\ m + 2 - i # i /\ m + 2 - l # l
  OBVIOUS
<1> DEFINE a == Place1(m, r, i)
           b == Place1(m, r, m + 2 - i)
           c == Place1(m, s, l)
           d == Place1(m, s, m + 2 - l)
<1>2. /\ a = IF i = 1 THEN 1 ELSE IF i + r < m + 3 THEN i + r - 1 ELSE i + r - 1 - m
      /\ c = IF l = 1 THEN 1 ELSE IF l + s < m + 3 THEN l + s - 1 ELSE l + s - 1 - m
  BY <1>1, PlaceFrom
<1>3. /\ b = IF (m + 2 - i) + r < m + 3 THEN (m + 2 - i) + r - 1 ELSE (m + 2 - i) + r - 1 - m
      /\ d = IF (m + 2 - l) + s < m + 3 THEN (m + 2 - l) + s - 1 ELSE (m + 2 - l) + s - 1 - m
  <2>1. /\ b = IF m + 2 - i = 1 THEN 1 ELSE IF (m + 2 - i) + r < m + 3 THEN (m + 2 - i) + r - 1 ELSE (m + 2 - i) + r - 1 - m
        /\ d = IF m + 2 - l = 1 THEN 1 ELSE IF (m + 2 - l) + s < m + 3 THEN (m + 2 - l) + s - 1 ELSE (m + 2 - l) + s - 1 - m
    BY <1>1, PlaceFrom
  <2> QED BY <1>1, <2>1
<1>4. (a = c /\ b = d) \/ (a = d /\ b = c)
  OBVIOUS
<1> HIDE DEF a, b, c, d
<1>5. a + b = c + d /\ {a, b, c, d} \subseteq Int
  BY <1>1, <1>2, <1>3, <1>4
<1>6. CASE i = 1 \/ l = 1
  BY <1>1, <1>2, <1>3, <1>4, <1>6
<1>7. CASE i # 1 /\ l # 1
  <2>1. r = s
    <3>1. \E x \in {0, 1, 2} : a + b = m + 2 + 2 * r - 2 - x * m
      <4>1. a = i + r - 1 \/ a = i + r - 1 - m
        BY <1>2, <1>7
      <4>2. b = (m + 2 - i) + r - 1 \/ b = (m + 2 - i) + r - 1 - m
        BY <1>3
      <4> QED BY <1>1, <4>1, <4>2
    <3>2. \E x \in {0, 1, 2} : c + d = m + 2 + 2 * s - 2 - x * m
      <4>1. c = l + s - 1 \/ c = l + s - 1 - m
        BY <1>2, <1>7
      <4>2. d = (m + 2 - l) + s - 1 \/ d = (m + 2 - l) + s - 1 - m
        BY <1>3
      <4> QED BY <1>1, <4>1, <4>2
    <3> QED BY <1>1, <1>5, <3>1, <3>2
  <2>2. i = l \/ i = m + 2 - l
    <3>1. \A k, j \in 1..(m + 1) : Place1(m, r, k) = Place1(m, r, j) => k = j
      BY <1>1, PlacesDiffer
    <3> QED BY <1>1, <1>4, <2>1, <3>1 DEF a, b, c, d
  <2> QED BY <2>1, <2>2
<1> QED BY <1>6, <1>7

(* Any two places are opposite in some round.                              *)
LEMMA AllMeet ==
  ASSUME NEW h \in Nat \ {0}, NEW m, m = 2 * h - 1, NEW x \in 1..(m + 1), NEW y \in 1..(m + 1), x < y
  PROVE  \E r \in 1..m, i \in 1..h :
            \/ Place1(m, r, i) = x /\ Place1(m, r, m + 2 - i) = y
            \/ Place1(m, r, i) = y /\ Place1(m, r, m + 2 - i) = x
<1>1. m \in Nat \ {0}
  OBVIOUS
<1>2. ASSUME NEW r \in 1..m, NEW k \in 1..(m + 1), NEW l \in 1..(m + 1), k + l = m + 2,
             Place1(m, r, k) = x, Place1(m, r, l) = y
      PROVE  \E i \in 1..h :
                \/ Place1(m, r, i) = x /\ Place1(m, r, m + 2 - i) = y
                \/ Place1(m, r, i) = y /\ Place1(m, r, m + 2 - i) = x
  <2>1. l = m + 2 - k /\ k = m + 2 - l
    BY <1>2
  <2>2. k \in 1..h \/ l \in 1..h
    BY <1>2
  <2> QED BY <1>2, <2>1, <2>2
<1>3. \E r \in 1..m, k, l \in 1..(m + 1) : k + l = m + 2 /\ Place1(m, r, k) = x /\ Place1(m, r, l) = y
  <2>1. CASE x = 1
    <3> DEFINE r == IF y = m + 1 THEN 1 ELSE y
    <3>1. r \in 1..m /\ 1 \in 1..(m + 1) /\ m + 1 \in 1..(m + 1) /\ 1 + (m + 1) = m + 2
      BY <1>1, <2>1
    <3>2. Place1(m, r, 1) = x
      BY <2>1 DEF Place1
    <3>3. Place1(m, r, m + 1) = IF (m + 1) + r < m + 3 THEN (m + 1) + r - 1 ELSE (m + 1) + r - 1 - m
      <4> HIDE DEF r
      <4> QED BY <1>1, <3>1, PlaceFrom
    <3>4. Place1(m, r, m + 1) = y
      BY <1>1, <2>1, <3>3
    <3> HIDE DEF r
    <3> QED BY <3>1, <3>2, <3>4
  <2>2. ASSUME x # 1, NEW r \in 1..m, NEW k \in 2..(m + 1), NEW l \in 2..(m + 1), k + l = m + 2,
               x = IF k + r < m + 3 THEN k + r - 1 ELSE k + r - 1 - m,
               y = IF l + r < m + 3 THEN l + r - 1 ELSE l + r - 1 - m
        PROVE  \E q \in 1..m, j, n \in 1..(m + 1) : j + n = m + 2 /\ Place1(m, q, j) = x /\ Place1(m, q, n) = y
    <3>1. Place1(m, r, k) = x /\ Place1(m, r, l) = y
      BY <1>1, <2>2, PlaceIs
    <3> QED BY <1>1, <2>2, <3>1
  <2>3. (x + y) % 2 \in {0, 1} /\ (x + y) \div 2 \in Nat /\ x + y = 2 * ((x + y) \div 2) + ((x + y) % 2)
    <3>1. x + y \in Nat
      OBVIOUS
    <3> QED BY <3>1, Half
  <2>4. CASE x # 1 /\ (x + y) % 2 = 0
    <3>1. PICK r \in Nat : 2 * r = x + y
      BY <2>3, <2>4
    <3>2. r \in 1..m /\ x < r /\ r < y
      BY <3>1, <2>4
    <3>3. x + 1 - r + m \in 2..(m + 1) /\ y + 1 - r \in 2..(m + 1) /\ (x + 1 - r + m) + (y + 1 - r) = m + 2
      BY <3>1, <3>2, <2>4, <1>1
    <3> DEFINE k == x + 1 - r + m
               l == y + 1 - r
    <3>4. /\ x = IF k + r < m + 3 THEN k + r - 1 ELSE k + r - 1 - m
          /\ y = IF l + r < m + 3 THEN l + r - 1 ELSE l + r - 1 - m
      BY <3>1, <3>2, <2>4, <1>1
    <3>5. k \in 2..(m + 1) /\ l \in 2..(m + 1) /\ k + l = m + 2
      BY <3>3
    <3> HIDE DEF k, l
    <3> QED BY <2>2, <2>4, <3>2, <3>4, <3>5
  <2>5. CASE x # 1 /\ (x + y) % 2 = 1 /\ x + y > m
    <3>1. PICK r \in Int : 2 * r = x + y - m
      <4>1. PICK q \in Nat : x + y = 2 * q + 1
        BY <2>3, <2>5
      <4>2. 2 * (q - h + 1) = x + y - m /\ q - h + 1 \in Int
        BY <4>1
      <4> QED BY <4>2
    <3>2. r \in 1..m /\ r < x
      BY <3>1, <2>5, <1>1
    <3>3. x + 1 - r \in 2..(m + 1) /\ y + 1 - r \in 2..(m + 1) /\ (x + 1 - r) + (y + 1 - r) = m + 2
      BY <3>1, <3>2, <2>5, <1>1
    <3> DEFINE k == x + 1 - r
               l == y + 1 - r
    <3>4. /\ x = IF k + r < m + 3 THEN k + r - 1 ELSE k + r - 1 - m
          /\ y = IF l + r < m + 3 THEN l + r - 1 ELSE l + r - 1 - m
      BY <3>1, <3>2, <2>5, <1>1
    <3>5. k \in 2..(m + 1) /\ l \in 2..(m + 1) /\ k + l = m + 2
      BY <3>3
    <3> HIDE DEF k, l
    <3> QED BY <2>2, <2>5, <3>2, <3>4, <3>5
  <2>6. CASE x # 1 /\ (x + y) % 2 = 1 /\ ~(x + y > m)
    <3>1. PICK r \in Int : 2 * r = x + y + m
      <4>1. PICK q \in Nat : x + y = 2 * q + 1
        BY <2>3, <2>6
      <4>2. 2 * (q + h) = x + y + m /\ q + h \in Int
        BY <4>1
      <4> QED BY <4>2
    <3>2. r \in 1..m /\ y < r
      BY <3>1, <2>6, <1>1
    <3>3. x + 1 - r + m \in 2..(m + 1) /\ y + 1 - r + m \in 2..(m + 1) /\ (x + 1 - r + m) + (y + 1 - r + m) = m + 2
      BY <3>1, <3>2, <2>6, <1>1
    <3> DEFINE k == x + 1 - r + m
               l == y + 1 - r + m
    <3>4. /\ x = IF k + r < m + 3 THEN k + r - 1 ELSE k + r - 1 - m
          /\ y = IF l + r < m + 3 THEN l + r - 1 ELSE l + r - 1 - m
      BY <3>1, <3>2, <2>6, <1>1
    <3>5. k \in 2..(m + 1) /\ l \in 2..(m + 1) /\ k + l = m + 2
      BY <3>3
    <3> HIDE DEF k, l
    <3> QED BY <2>2, <2>6, <3>2, <3>4, <3>5
  <2> QED BY <2>1, <2>3, <2>4, <2>5, <2>6
<1> QED BY <1>2, <1>3

(* The same of the players who sit on the places.                          *)
IsRing(ids, h) ==
    /\ ids \in Seq(Players \cup {Ghost}) /\ IsInjective(ids) /\ Players \subseteq Nat \ {0}
    /\ h \in Nat \ {0} /\ Len(ids) = 2 * h

LEMMA SeatsOf ==
  ASSUME NEW ids, NEW h, IsRing(ids, h), NEW r \in 1..(2 * h - 1), NEW i \in 1..h
  PROVE  LET m == 2 * h - 1
             a == Place1(m, r, i)
             b == Place1(m, r, m + 2 - i)
         IN  /\ a \in DOMAIN ids /\ b \in DOMAIN ids /\ a # b
             /\ ids[a] \in Players \cup {0} /\ ids[b] \in Players \cup {0} /\ ids[a] # ids[b]
             /\ Met(ids, r, i) = {ids[a], ids[b]} \ {0}
<1> USE DEF IsRing
<1> DEFINE m == 2 * h - 1
<1>1. Len(ids) = m + 1 /\ Len(ids) - 1 = m /\ Len(ids) + 1 - i = m + 2 - i /\ m \in Nat \ {0} /\ r \in 1..m
      /\ i \in 1..(m + 1) /\ m + 2 - i \in 1..(m + 1) /\ i # m + 2 - i
  OBVIOUS
<1>2. DOMAIN ids = 1..(m + 1) /\ \A j \in DOMAIN ids : ids[j] \in Players \cup {0}
  <2>1. DOMAIN ids = 1..Len(ids) /\ \A j \in DOMAIN ids : ids[j] \in Players \cup {Ghost}
    OBVIOUS
  <2> QED BY <1>1, <2>1 DEF Ghost
<1>3. Met(ids, r, i) = {ids[Place1(m, r, i)], ids[Place1(m, r, m + 2 - i)]} \ {0}
  BY <1>1 DEF Met, Seated, Ghost
<1> HIDE DEF m
<1>4. /\ Place1(m, r, i) \in 1..(m + 1) /\ Place1(m, r, m + 2 - i) \in 1..(m + 1)
      /\ Place1(m, r, i) # Place1(m, r, m + 2 - i)
  BY <1>1, PlacesDiffer
<1>5. \A j, k \in DOMAIN ids : ids[j] = ids[k] => j = k
  BY DEF IsInjective
<1> QED BY <1>2, <1>3, <1>4, <1>5 DEF m

LEMMA MetOnce ==
  ASSUME NEW ids, NEW h, IsRing(ids, h), NEW r \in 1..(2 * h - 1), NEW s \in 1..(2 * h - 1),
         NEW i \in 1..h, NEW l \in 1..h
  PROVE  /\ Met(ids, r, i) = Met(ids, s, l) => r = s /\ i = l
         /\ r = s /\ i # l => Met(ids, r, i) \cap Met(ids, s, l) = {}
<1> DEFINE m == 2 * h - 1
           a == Place1(m, r, i)
           b == Place1(m, r, m + 2 - i)
           c == Place1(m, s, l)
           d == Place1(m, s, m + 2 - l)
<1>0. h \in Nat \ {0} /\ m \in Nat \ {0} /\ m = 2 * h - 1 /\ r \in 1..m /\ s \in 1..m
      /\ i \in 1..(m + 1) /\ l \in 1..(m + 1) /\ m + 2 - i \in 1..(m + 1) /\ m + 2 - l \in 1..(m + 1)
      /\ i # m + 2 - l /\ l # m + 2 - i
  BY DEF IsRing
<1>1. /\ {a, b, c, d} \subseteq DOMAIN ids
      /\ ids[a] \in Players \cup {0} /\ ids[b] \in Players \cup {0} /\ ids[a] # ids[b]
      /\ ids[c] \in Players \cup {0} /\ ids[d] \in Players \cup {0} /\ ids[c] # ids[d]
      /\ Met(ids, r, i) = {ids[a], ids[b]} \ {0} /\ Met(ids, s, l) = {ids[c], ids[d]} \ {0}
  BY SeatsOf
<1>2. \A j, k \in DOMAIN ids : ids[j] = ids[k] => j = k
  BY DEF IsRing, IsInjective
<1>3. ASSUME Met(ids, r, i) = Met(ids, s, l) PROVE r = s /\ i = l
  <2>1. \A z : (z \in {ids[a], ids[b]} /\ z # 0) <=> (z \in {ids[c], ids[d]} /\ z # 0)
    BY <1>1, <1>3
  <2>2. (ids[a] = ids[c] /\ ids[b] = ids[d]) \/ (ids[a] = ids[d] /\ ids[b] = ids[c])
    <3> HIDE DEF a, b, c, d
    <3> QED BY <1>1, <2>1
  <2>3. (a = c /\ b = d) \/ (a = d /\ b = c)
    <3> HIDE DEF a, b, c, d
    <3> QED BY <1>1, <1>2, <2>2
  <2> HIDE DEF m
  <2> QED BY <1>0, <2>3, MeetOnce
<1>4. ASSUME r = s, i # l PROVE Met(ids, r, i) \cap Met(ids, s, l) = {}
  <2>1. a # c /\ a # d /\ b # c /\ b # d
    <3> HIDE DEF m
    <3>1. \A k, j \in 1..(m + 1) : Place1(m, r, k) = Place1(m, r, j) => k = j
      BY <1>0, PlacesDiffer
    <3>2. m + 2 - i # m + 2 - l
      BY <1>0, <1>4
    <3> QED BY <1>0, <1>4, <3>1, <3>2
  <2>2. ids[a] # ids[c] /\ ids[a] # ids[d] /\ ids[b] # ids[c] /\ ids[b] # ids[d]
    <3> HIDE DEF a, b, c, d
    <3> QED BY <1>1, <1>2, <2>1
  <2> HIDE DEF a, b, c, d
  <2> QED BY <1>1, <2>2
<1> QED BY <1>3, <1>4

TheyMeet(ids, h, p, q) == \E r \in 1..(2 * h - 1), i \in 1..h : Met(ids, r, i) = {p, q}

LEMMA MetAll ==
  ASSUME NEW ids, NEW h, IsRing(ids, h), NEW x \in DOMAIN ids, NEW y \in DOMAIN ids,
         ids[x] \in Players, ids[y] \in Players, ids[x] # ids[y]
  PROVE  TheyMeet(ids, h, ids[x], ids[y])
<1> DEFINE m == 2 * h - 1
<1>1. h \in Nat \ {0} /\ m = 2 * h - 1 /\ m + 1 = Len(ids) /\ 0 \notin Players
  BY DEF IsRing
<1>2. DOMAIN ids = 1..(m + 1)
  BY <1>1 DEF IsRing
<1> HIDE DEF m
<1>3. x < y \/ y < x
  BY <1>1, <1>2
<1>4. PICK r \in 1..m, i \in 1..h :
         \/ Place1(m, r, i) = x /\ Place1(m, r, m + 2 - i) = y
         \/ Place1(m, r, i) = y /\ Place1(m, r, m + 2 - i) = x
  <2>1. CASE x < y
    <3>1. x \in 1..(m + 1) /\ y \in 1..(m + 1)
      BY <1>2
    <3>2. h \in Nat \ {0} /\ m = 2 * h - 1
      BY <1>1
    <3> HIDE <1>1, <1>2
    <3> QED BY <2>1, <3>1, <3>2, AllMeet, SMTT(40)
  <2>2. CASE y < x
    BY <1>1, <1>2, <2>2, AllMeet
  <2> QED BY <1>3, <2>1, <2>2
<1>5. Met(ids, r, i) = {ids[Place1(m, r, i)], ids[Place1(m, r, m + 2 - i)]} \ {0}
  BY SeatsOf DEF m
<1>6. Met(ids, r, i) = {ids[x], ids[y]}
  BY <1>1, <1>4, <1>5
<1> QED BY <1>6 DEF m, TheyMeet

(* The rows of a round robin: no pairing twice, nobody twice in a round,    *)
(* and everybody meets everybody.                                          *)
LEMMA RobinMeets ==
  ASSUME NEW players \in Seq(Players), Len(players) >= 2, IsInjective(players),
         Players \subseteq Nat \ {0}, IsFiniteSet(Players)
  PROVE  LET rows == RoundRobin(players)
         IN  /\ \A j, k \in DOMAIN rows : j # k =>
                   /\ rows[j].pair # rows[k].pair
                   /\ rows[j].round = rows[k].round => rows[j].pair \cap rows[k].pair = {}
             /\ \A p, q \in ToSet(players) : p # q => \E j \in DOMAIN rows : rows[j].pair = {p, q}
<1> DEFINE ids == Ring(players)
           n == Len(ids)
           h == n \div 2
           rows == RoundRobin(players)
           rd(j) == ((j - 1) \div h) + 1
           at(j) == ((j - 1) % h) + 1
<1>1. /\ ids \in Seq(Players \cup {Ghost}) /\ IsInjective(ids) /\ n \in Nat /\ n = 2 * h /\ h \in Nat \ {0}
      /\ \A p \in Players : (\E j \in DOMAIN ids : ids[j] = p) <=> p \in ToSet(players)
  BY RingIs
<1>2. /\ rows \in Seq(NewRows) /\ Len(rows) = (n - 1) * h /\ Len(rows) >= 1
      /\ \A j \in 1..((n - 1) * h) : /\ rd(j) \in 1..(n - 1) /\ at(j) \in 1..h
                                     /\ rows[j].pair = Met(ids, rd(j), at(j)) /\ rows[j].round = rd(j)
  BY RoundRobinRow
<1> HIDE DEF ids, h, rows
<1>3. IsRing(ids, h) /\ n - 1 = 2 * h - 1 /\ (n - 1) * h \in Nat
  <2>1. n - 1 \in Nat
    BY <1>1
  <2>2. (n - 1) * h \in Nat
    <3> HIDE DEF n
    <3> QED BY <1>1, <2>1
  <2> QED BY <1>1, <2>2 DEF IsRing, n
<1> HIDE DEF n
<1>4. DOMAIN rows = 1..((n - 1) * h)
  BY <1>2
<1>5. ASSUME NEW j \in DOMAIN rows, NEW k \in DOMAIN rows, rd(j) = rd(k), at(j) = at(k)
      PROVE  j = k
  <2>1. ASSUME NEW x \in DOMAIN rows
        PROVE  x - 1 \in Nat /\ x - 1 = ((x - 1) \div h) * h + ((x - 1) % h)
               /\ (x - 1) \div h \in Nat /\ (x - 1) % h \in Nat
    <3>1. x - 1 \in Nat
      BY <1>3, <1>4
    <3>2. x - 1 = ((x - 1) \div h) * h + ((x - 1) % h) /\ (x - 1) \div h \in Nat /\ (x - 1) % h \in 0..(h - 1)
      BY <1>1, <3>1, DivMod
    <3> QED BY <1>1, <3>1, <3>2
  <2>2. /\ j - 1 = ((j - 1) \div h) * h + ((j - 1) % h) /\ k - 1 = ((k - 1) \div h) * h + ((k - 1) % h)
        /\ (j - 1) \div h \in Nat /\ (k - 1) \div h \in Nat /\ (j - 1) % h \in Nat /\ (k - 1) % h \in Nat
        /\ j - 1 \in Nat /\ k - 1 \in Nat
    BY <2>1
  <2>3. (j - 1) \div h = (k - 1) \div h /\ (j - 1) % h = (k - 1) % h
    BY <1>5, <2>2
  <2> QED BY <1>3, <1>4, <2>2, <2>3
<1>6. ASSUME NEW r \in 1..(n - 1), NEW i \in 1..h
      PROVE  \E j \in DOMAIN rows : rd(j) = r /\ at(j) = i
  <2> DEFINE x == (r - 1) * h + (i - 1)
  <2>1. r - 1 \in Nat /\ i - 1 \in 0..(h - 1) /\ r \in Nat /\ n - 1 \in Nat /\ n - 1 >= r
    BY <1>1
  <2>2. x \div h = r - 1 /\ x % h = i - 1
    BY <1>1, <2>1, DivModBack
  <2>3. (n - 1) * h >= r * h
    BY <1>1, <2>1, Times
  <2>4. (r - 1) * h \in Nat /\ r * h = (r - 1) * h + h
    BY <1>1, <2>1
  <2>5. x \in Nat /\ x + 1 <= (n - 1) * h
    BY <1>1, <1>3, <2>1, <2>3, <2>4
  <2> HIDE DEF x
  <2>6. x + 1 \in DOMAIN rows /\ (x + 1) - 1 = x
    BY <1>3, <1>4, <2>5
  <2>7. rd(x + 1) = r /\ at(x + 1) = i
    BY <2>1, <2>2, <2>6
  <2> QED BY <2>6, <2>7
<1> HIDE DEF rd, at
<1>7. ASSUME NEW j \in DOMAIN rows, NEW k \in DOMAIN rows, j # k
      PROVE  /\ rows[j].pair # rows[k].pair
             /\ rows[j].round = rows[k].round => rows[j].pair \cap rows[k].pair = {}
  <2>1. rd(j) \in 1..(2 * h - 1) /\ rd(k) \in 1..(2 * h - 1) /\ at(j) \in 1..h /\ at(k) \in 1..h
        /\ rows[j].pair = Met(ids, rd(j), at(j)) /\ rows[k].pair = Met(ids, rd(k), at(k))
        /\ rows[j].round = rd(j) /\ rows[k].round = rd(k)
    BY <1>2, <1>3, <1>4
  <2>2. ~(rd(j) = rd(k) /\ at(j) = at(k))
    BY <1>5, <1>7
  <2> QED BY <1>3, <2>1, <2>2, MetOnce
<1>8. ASSUME NEW p \in ToSet(players), NEW q \in ToSet(players), p # q
      PROVE  \E j \in DOMAIN rows : rows[j].pair = {p, q}
  <2>1. p \in Players /\ q \in Players
    BY DEF ToSet
  <2>2. PICK x \in DOMAIN ids, y \in DOMAIN ids : ids[x] = p /\ ids[y] = q
    BY <1>1, <2>1
  <2>3. PICK r \in 1..(2 * h - 1), i \in 1..h : Met(ids, r, i) = {p, q}
    <3>1. ids[x] \in Players /\ ids[y] \in Players /\ ids[x] # ids[y]
      BY <1>8, <2>1, <2>2
    <3>2. TheyMeet(ids, h, ids[x], ids[y])
      BY <1>3, <2>2, <3>1, MetAll
    <3> QED BY <2>2, <3>2 DEF TheyMeet
  <2>4. PICK j \in DOMAIN rows : rd(j) = r /\ at(j) = i
    BY <1>3, <1>6
  <2> QED BY <1>2, <1>4, <2>3, <2>4
<1> QED BY <1>7, <1>8 DEF rows

-----------------------------------------------------------------------------
(* The bracket of a single elimination.                                    *)

(* The rows of a round: nobody plays twice, and everybody who is in it.     *)
LEMMA SingleElimSeats ==
  ASSUME NEW players \in Seq(Players), Len(players) >= 2, IsInjective(players), NEW round \in Nat \ {0}
  PROVE  LET rows == SingleElim(players, round)
         IN  /\ rows \in Seq(NewRows) /\ \A j \in DOMAIN rows : rows[j].round = round
             /\ \A j, k \in DOMAIN rows : j # k => rows[j].pair \cap rows[k].pair = {}
             /\ \A j \in DOMAIN rows : \A p \in rows[j].pair : \E x \in DOMAIN players : players[x] = p
             /\ \A x \in DOMAIN players : \E j \in DOMAIN rows : players[x] \in rows[j].pair
<1> DEFINE n == Len(players)
           b == n % 2
           h == n \div 2
           rows == SingleElim(players, round)
           other(j) == n + 1 + b - j
<1>1. /\ b \in {0, 1} /\ h \in Nat \ {0} /\ n = b + 2 * h /\ rows \in Seq(NewRows) /\ Len(rows) = b + h
      /\ \A j \in 1..(b + h) : rows[j] = IF j <= b THEN ByeSlot(players[1], round)
                                         ELSE OpenSlot({players[j], players[n + 1 + b - j]}, round)
  BY SingleElimRow
<1>2. \A j \in DOMAIN rows : rows[j].round = round
  BY SingleElimRows
<1> HIDE DEF rows, b, h
<1>3. DOMAIN rows = 1..(b + h) /\ n \in Nat /\ DOMAIN players = 1..n
  BY <1>1
<1>4. \A x, y \in 1..n : players[x] = players[y] => x = y
  BY <1>3 DEF IsInjective
<1> HIDE DEF n
<1>5. ASSUME NEW j \in 1..(b + h)
      PROVE  \/ j = 1 /\ b = 1 /\ rows[j].pair = {players[1]}
             \/ j > b /\ j \in 1..n /\ other(j) \in 1..n /\ rows[j].pair = {players[j], players[other(j)]}
  <2>1. CASE j <= b
    <3>1. j = 1 /\ b = 1
      BY <1>1, <2>1
    <3>2. rows[j].pair = {players[1]}
      BY <1>1, <2>1 DEF ByeSlot, OpenSlot
    <3> QED BY <3>1, <3>2
  <2>2. CASE ~(j <= b)
    <3>1. j > b /\ j \in 1..n /\ other(j) \in 1..n
      BY <1>1, <2>2
    <3>2. rows[j].pair = {players[j], players[other(j)]}
      BY <1>1, <2>2 DEF OpenSlot
    <3> QED BY <3>1, <3>2
  <2> QED BY <2>1, <2>2
<1>6. ASSUME NEW j \in DOMAIN rows, NEW k \in DOMAIN rows, j # k
      PROVE  rows[j].pair \cap rows[k].pair = {}
  <2>1. j \in 1..(b + h) /\ k \in 1..(b + h)
    BY <1>3
  <2>2. 1 \in 1..n
    BY <1>1
  <2>3. CASE j = 1 /\ b = 1 /\ rows[j].pair = {players[1]}
    <3>1. k > b /\ k \in 1..n /\ other(k) \in 1..n /\ rows[k].pair = {players[k], players[other(k)]}
      BY <1>5, <1>6, <2>1, <2>3
    <3>2. k # 1 /\ other(k) # 1
      BY <1>1, <1>6, <2>1, <2>3
    <3>3. players[1] # players[k] /\ players[1] # players[other(k)]
      BY <1>4, <2>2, <3>1, <3>2
    <3> QED BY <2>3, <3>1, <3>3
  <2>4. CASE k = 1 /\ b = 1 /\ rows[k].pair = {players[1]}
    <3>1. j > b /\ j \in 1..n /\ other(j) \in 1..n /\ rows[j].pair = {players[j], players[other(j)]}
      BY <1>5, <1>6, <2>1, <2>4
    <3>2. j # 1 /\ other(j) # 1
      BY <1>1, <1>6, <2>1, <2>4
    <3>3. players[1] # players[j] /\ players[1] # players[other(j)]
      BY <1>4, <2>2, <3>1, <3>2
    <3> QED BY <2>4, <3>1, <3>3
  <2>5. CASE /\ j > b /\ j \in 1..n /\ other(j) \in 1..n /\ rows[j].pair = {players[j], players[other(j)]}
             /\ k > b /\ k \in 1..n /\ other(k) \in 1..n /\ rows[k].pair = {players[k], players[other(k)]}
    <3>1. j # k /\ j # other(k) /\ other(j) # k /\ other(j) # other(k)
      BY <1>1, <1>3, <1>6, <2>1, <2>5
    <3> HIDE DEF other
    <3>2. /\ players[j] # players[k] /\ players[j] # players[other(k)]
          /\ players[other(j)] # players[k] /\ players[other(j)] # players[other(k)]
      BY <1>4, <2>5, <3>1
    <3> QED BY <2>5, <3>2
  <2> QED BY <1>5, <2>1, <2>3, <2>4, <2>5
<1>7. ASSUME NEW j \in DOMAIN rows, NEW p \in rows[j].pair
      PROVE  \E x \in DOMAIN players : players[x] = p
  <2>1. 1 \in 1..n
    BY <1>1
  <2> QED BY <1>3, <1>5, <2>1
<1>8. ASSUME NEW x \in DOMAIN players
      PROVE  \E j \in DOMAIN rows : players[x] \in rows[j].pair
  <2>1. CASE x <= b + h
    <3>1. x \in 1..(b + h)
      BY <1>1, <1>3, <2>1
    <3>2. players[x] \in rows[x].pair
      BY <1>5, <3>1
    <3> QED BY <1>3, <3>1, <3>2
  <2>2. CASE ~(x <= b + h)
    <3> DEFINE j == other(x)
    <3>1. j \in 1..(b + h) /\ j > b /\ other(j) = x
      BY <1>1, <1>3, <2>2
    <3>2. players[x] \in rows[j].pair
      <4> HIDE DEF j, other
      <4>1. rows[j].pair = {players[j], players[other(j)]}
        BY <1>1, <1>5, <3>1
      <4> QED BY <3>1, <4>1
    <3> QED BY <1>3, <3>1, <3>2
  <2> QED BY <2>1, <2>2, <1>1, <1>3
<1> QED BY <1>1, <1>2, <1>6, <1>7, <1>8 DEF rows

(* In a round nobody has two pairings, who plays in a later one has won in  *)
(* every round before it, and who has won plays in the next one.           *)
InOnePlace(d) ==
    \A i, j \in DOMAIN d.slots :
        i # j /\ d.slots[i].round = d.slots[j].round => d.slots[i].pair \cap d.slots[j].pair = {}

WinnerIn(d, round, p) ==
    \E k \in DOMAIN d.slots : d.slots[k].round = round /\ WinnerOf(d, d.slots[k]) = p

FromWinners(d) ==
    \A i, j \in DOMAIN d.slots : d.slots[i].round < d.slots[j].round =>
        \A p \in d.slots[j].pair : WinnerIn(d, d.slots[i].round, p)

PlaysIn(d, round, p) == \E k \in DOMAIN d.slots : d.slots[k].round = round /\ p \in d.slots[k].pair

WinnersGoOn(d) ==
    \A i, j \in DOMAIN d.slots : d.slots[j].round = d.slots[i].round + 1 =>
        WinnerOf(d, d.slots[i]) # Nobody /\ PlaysIn(d, d.slots[j].round, WinnerOf(d, d.slots[i]))

Bracket(d) == InOnePlace(d) /\ FromWinners(d)

(* What is played has a winner.                                            *)
Played(d) ==
    \A i \in DOMAIN d.slots : d.slots[i].status = "completed" => d.slots[i].match # 0 \/ IsBye(d.slots[i])

Drawn(d, rows) == [d EXCEPT !.slots = @ \o rows]

LEMMA DrawnIs ==
  ASSUME NEW d, Books(d), NEW rows \in Seq(NewRows)
  PROVE  LET e == Drawn(d, rows)
             n == Len(d.slots)
         IN  /\ e.slots = d.slots \o rows /\ e.matches = d.matches /\ e.status = d.status
             /\ n \in Nat /\ DOMAIN d.slots = 1..n /\ DOMAIN rows = 1..Len(rows) /\ Len(rows) \in Nat
             /\ DOMAIN e.slots = 1..(n + Len(rows))
             /\ \A i \in 1..n : e.slots[i] = d.slots[i]
             /\ \A k \in 1..Len(rows) : n + k \in DOMAIN e.slots /\ e.slots[n + k] = rows[k]
             /\ \A i \in DOMAIN e.slots : i \notin 1..n => i - n \in 1..Len(rows) /\ e.slots[i] = rows[i - n]
             /\ \A s : WinnerOf(e, s) = WinnerOf(d, s)
<1> DEFINE e == Drawn(d, rows)
           n == Len(d.slots)
<1>1. d \in Db /\ d.slots \in Seq(Slot) /\ n \in Nat /\ DOMAIN d.slots = 1..n
  BY DbIs
<1>2. rows \in Seq(Slot) /\ DOMAIN rows = 1..Len(rows) /\ Len(rows) \in Nat
  <2>1. NewRows \subseteq Slot
    BY DEF NewRows
  <2> QED BY <2>1
<1>3. e.slots = d.slots \o rows /\ e.matches = d.matches /\ e.status = d.status
  BY <1>1 DEF Drawn, Db
<1>4. /\ DOMAIN (d.slots \o rows) = 1..(n + Len(rows))
      /\ \A j \in 1..(n + Len(rows)) : (d.slots \o rows)[j] = IF j <= n THEN d.slots[j] ELSE rows[j - n]
  BY <1>1, <1>2, Joined
<1>5. \A s : WinnerOf(e, s) = WinnerOf(d, s)
  BY <1>3 DEF WinnerOf
<1> HIDE DEF e, n
<1>6. \A i \in 1..n : e.slots[i] = d.slots[i]
  BY <1>1, <1>2, <1>3, <1>4
<1>7. ASSUME NEW k \in 1..Len(rows)
      PROVE  n + k \in DOMAIN e.slots /\ e.slots[n + k] = rows[k]
  <2>1. n + k \in 1..(n + Len(rows)) /\ ~(n + k <= n) /\ (n + k) - n = k
    BY <1>1, <1>2
  <2>2. e.slots[n + k] = rows[(n + k) - n]
    BY <1>3, <1>4, <2>1
  <2> QED BY <1>3, <1>4, <2>1, <2>2
<1>8. ASSUME NEW i \in DOMAIN e.slots, i \notin 1..n
      PROVE  i - n \in 1..Len(rows) /\ e.slots[i] = rows[i - n]
  <2>1. i \in 1..(n + Len(rows))
    BY <1>3, <1>4
  <2>2. e.slots[i] = IF i <= n THEN d.slots[i] ELSE rows[i - n]
    BY <1>3, <1>4, <2>1
  <2> QED BY <1>1, <1>2, <1>8, <2>1, <2>2
<1> QED BY <1>1, <1>2, <1>3, <1>4, <1>5, <1>6, <1>7, <1>8 DEF e, n

(* The winners of a round that was played: once each, and all of them.      *)
LEMMA WinnersOnce ==
  ASSUME event \in Events, NEW d, Books(d), InOnePlace(d), NEW round
  PROVE  IsInjective(Winners(d, round))
<1> DEFINE D == Decided(d, round)
           winners == Winners(d, round)
<1>1. /\ winners \in Seq(Players) /\ Len(winners) \in Nat
      /\ \A j \in 1..Len(winners) : \E i \in D : winners[j] = WinnerOf(d, d.slots[i]) /\ Rank(D, i) = j
  BY WinnersAre
<1> HIDE DEF winners
<1>2. ASSUME NEW i \in D, NEW k \in D, WinnerOf(d, d.slots[i]) = WinnerOf(d, d.slots[k])
      PROVE  i = k
  <2>1. i \in DOMAIN d.slots /\ k \in DOMAIN d.slots /\ d.slots[i].round = d.slots[k].round
        /\ WinnerOf(d, d.slots[i]) # Nobody /\ WinnerOf(d, d.slots[k]) # Nobody
    BY DEF Decided
  <2>2. WinnerOf(d, d.slots[i]) \in d.slots[i].pair /\ WinnerOf(d, d.slots[k]) \in d.slots[k].pair
    BY <2>1, WinnerPlays
  <2> QED BY <1>2, <2>1, <2>2 DEF InOnePlace
<1> HIDE DEF D
<1>3. ASSUME NEW j \in 1..Len(winners), NEW l \in 1..Len(winners), winners[j] = winners[l]
      PROVE  j = l
  <2>1. PICK i \in D : winners[j] = WinnerOf(d, d.slots[i]) /\ Rank(D, i) = j
    BY <1>1
  <2>2. PICK k \in D : winners[l] = WinnerOf(d, d.slots[k]) /\ Rank(D, k) = l
    BY <1>1
  <2>3. i = k
    BY <1>2, <1>3, <2>1, <2>2
  <2> QED BY <2>1, <2>2, <2>3
<1>4. DOMAIN winners = 1..Len(winners)
  BY <1>1
<1> QED BY <1>3, <1>4 DEF IsInjective, winners

LEMMA WinnersAll ==
  ASSUME event \in Events, NEW d, Books(d), NEW round, NEW p
  PROVE  (\E x \in DOMAIN Winners(d, round) : Winners(d, round)[x] = p) <=> p # Nobody /\ WinnerIn(d, round, p)
<1> DEFINE D == Decided(d, round)
           winners == Winners(d, round)
<1>1. /\ winners \in Seq(Players) /\ Len(winners) \in Nat
      /\ \A j \in 1..Len(winners) : \E i \in D : winners[j] = WinnerOf(d, d.slots[i]) /\ Rank(D, i) = j
      /\ \A i \in D : Rank(D, i) \in 1..Len(winners) /\ winners[Rank(D, i)] = WinnerOf(d, d.slots[i])
  BY WinnersAre
<1>2. DOMAIN winners = 1..Len(winners)
  BY <1>1
<1> HIDE DEF winners
<1>3. (\E x \in DOMAIN winners : winners[x] = p) <=> \E i \in D : WinnerOf(d, d.slots[i]) = p
  <2> HIDE DEF D
  <2> QED BY <1>1, <1>2
<1>4. (\E i \in D : WinnerOf(d, d.slots[i]) = p) <=> p # Nobody /\ WinnerIn(d, round, p)
  BY DEF Decided, WinnerIn
<1> QED BY <1>3, <1>4 DEF winners

(* The next round, drawn from the winners of the latest.                   *)
LEMMA RoundFollows ==
  ASSUME event \in Events, NEW d, Books(d), InOnePlace(d), FromWinners(d), WinnersGoOn(d), Played(d), AllPlayed(d),
         NEW r \in Nat \ {0}, \A j \in DOMAIN d.slots : d.slots[j].round <= r,
         NEW rows \in Seq(NewRows), \A j \in DOMAIN rows : rows[j].round = r + 1,
         \A j, k \in DOMAIN rows : j # k => rows[j].pair \cap rows[k].pair = {},
         \A j \in DOMAIN rows : \A p \in rows[j].pair : p # Nobody /\ WinnerIn(d, r, p),
         \A p : p # Nobody /\ WinnerIn(d, r, p) => \E j \in DOMAIN rows : p \in rows[j].pair
  PROVE  Bracket(Drawn(d, rows)) /\ WinnersGoOn(Drawn(d, rows))
<1> DEFINE e == Drawn(d, rows)
           n == Len(d.slots)
<1>1. /\ n \in Nat /\ DOMAIN d.slots = 1..n /\ DOMAIN rows = 1..Len(rows)
      /\ \A i \in 1..n : i \in DOMAIN e.slots /\ e.slots[i] = d.slots[i]
      /\ \A k \in DOMAIN rows : n + k \in DOMAIN e.slots /\ e.slots[n + k] = rows[k]
      /\ \A i \in DOMAIN e.slots : i \notin 1..n => i - n \in DOMAIN rows /\ e.slots[i] = rows[i - n]
      /\ \A s : WinnerOf(e, s) = WinnerOf(d, s)
  <2>1. \A i \in 1..n : i \in DOMAIN e.slots
    BY DrawnIs
  <2> HIDE DEF e, n
  <2> QED BY <2>1, DrawnIs DEF e, n
<1>2. /\ \A i \in DOMAIN d.slots : d.slots[i].round \in Nat \ {0}
      /\ \A i \in DOMAIN e.slots : e.slots[i].round \in Nat \ {0}
  <2>1. \A i \in DOMAIN d.slots : d.slots[i].round \in Nat \ {0}
    BY RoundsCount
  <2> HIDE DEF e
  <2> QED BY <1>1, <2>1
<1> HIDE DEF e, n
<1>7. ASSUME NEW i \in DOMAIN e.slots
      PROVE  IF i \in 1..n THEN e.slots[i].round <= r ELSE e.slots[i].round = r + 1
  BY <1>1
<1>3. \A q, p : WinnerIn(d, q, p) => WinnerIn(e, q, p)
  BY <1>1 DEF WinnerIn
<1>4. InOnePlace(e)
  <2> SUFFICES ASSUME NEW i \in DOMAIN e.slots, NEW j \in DOMAIN e.slots, i # j, e.slots[i].round = e.slots[j].round
               PROVE  e.slots[i].pair \cap e.slots[j].pair = {}
    BY DEF InOnePlace
  <2>1. CASE i \in 1..n /\ j \in 1..n
    BY <1>1, <2>1 DEF InOnePlace
  <2>2. CASE i \notin 1..n /\ j \notin 1..n
    <3>1. i - n \in DOMAIN rows /\ j - n \in DOMAIN rows /\ i - n # j - n
      <4>1. i \in DOMAIN e.slots /\ j \in DOMAIN e.slots /\ DOMAIN e.slots = 1..(n + Len(rows)) /\ Len(rows) \in Nat
        BY DrawnIs DEF e, n
      <4> QED BY <1>1, <2>2, <4>1
    <3> QED BY <1>1, <2>2, <3>1
  <2>3. CASE (i \in 1..n /\ j \notin 1..n) \/ (i \notin 1..n /\ j \in 1..n)
    BY <1>2, <1>7, <2>3
  <2> QED BY <2>1, <2>2, <2>3
<1>5. FromWinners(e)
  <2> SUFFICES ASSUME NEW i \in DOMAIN e.slots, NEW j \in DOMAIN e.slots, e.slots[i].round < e.slots[j].round,
                      NEW p \in e.slots[j].pair
               PROVE  WinnerIn(e, e.slots[i].round, p)
    BY DEF FromWinners
  <2>1. i \in 1..n
    BY <1>2, <1>7
  <2>2. CASE j \in 1..n
    BY <1>1, <1>3, <2>1, <2>2 DEF FromWinners
  <2>3. CASE j \notin 1..n
    <3>1. p # Nobody /\ WinnerIn(d, r, p)
      BY <1>1, <2>3
    <3>2. CASE e.slots[i].round = r
      BY <1>3, <3>1, <3>2
    <3>3. CASE e.slots[i].round # r
      <4>1. PICK k \in DOMAIN d.slots : d.slots[k].round = r /\ WinnerOf(d, d.slots[k]) = p
        BY <3>1 DEF WinnerIn
      <4>2. p \in d.slots[k].pair
        BY <3>1, <4>1, WinnerPlays
      <4>3. d.slots[i].round < d.slots[k].round
        BY <1>1, <1>2, <2>1, <3>3, <4>1
      <4>4. WinnerIn(d, d.slots[i].round, p)
        BY <1>1, <2>1, <4>2, <4>3 DEF FromWinners
      <4> QED BY <1>1, <1>3, <2>1, <4>4
    <3> QED BY <3>2, <3>3
  <2> QED BY <2>2, <2>3
<1>6. WinnersGoOn(e)
  <2> SUFFICES ASSUME NEW i \in DOMAIN e.slots, NEW j \in DOMAIN e.slots, e.slots[j].round = e.slots[i].round + 1
               PROVE  /\ WinnerOf(e, e.slots[i]) # Nobody
                      /\ PlaysIn(e, e.slots[j].round, WinnerOf(e, e.slots[i]))
    BY DEF WinnersGoOn
  <2>1. i \in 1..n
    BY <1>2, <1>7
  <2>2. CASE j \in 1..n
    <3>1. /\ WinnerOf(d, d.slots[i]) # Nobody
          /\ PlaysIn(d, d.slots[j].round, WinnerOf(d, d.slots[i]))
      BY <1>1, <2>1, <2>2 DEF WinnersGoOn
    <3>2. PlaysIn(e, d.slots[j].round, WinnerOf(d, d.slots[i]))
      BY <1>1, <3>1 DEF PlaysIn
    <3> QED BY <1>1, <2>1, <2>2, <3>1, <3>2
  <2>3. CASE j \notin 1..n
    <3>1. d.slots[i].round = r /\ e.slots[j].round = r + 1
      BY <1>1, <1>2, <2>1, <2>3
    <3> DEFINE p == WinnerOf(d, d.slots[i])
    <3>2. p # Nobody
      BY <1>1, <2>1, WinnerPlays DEF AllPlayed, Played
    <3>3. WinnerIn(d, r, p)
      BY <1>1, <2>1, <3>1 DEF WinnerIn
    <3>4. WinnerOf(e, e.slots[i]) = p
      BY <1>1, <2>1
    <3> HIDE DEF p
    <3>5. PICK k \in DOMAIN rows : p \in rows[k].pair
      BY <3>2, <3>3
    <3>6. PlaysIn(e, r + 1, p)
      BY <1>1, <3>5 DEF PlaysIn
    <3> QED BY <3>1, <3>2, <3>4, <3>6
  <2> QED BY <2>2, <2>3
<1> QED BY <1>4, <1>5, <1>6 DEF Bracket, e

(* completeTournamentMatch draws the next round of a bracket.              *)
LEMMA FollowDraws ==
  ASSUME event \in Events, NEW d, Books(d), InRounds(d), Bracket(d), WinnersGoOn(d), Played(d),
         NEW i \in DOMAIN d.slots, Follow(d, i).pc = "draw"
  PROVE  Bracket(Drawn(d, Follow(d, i).rows)) /\ WinnersGoOn(Drawn(d, Follow(d, i).rows))
<1> DEFINE r == d.slots[i].round
           players == Winners(d, r)
           rows == SingleElim(players, r + 1)
<1>1. r \in Nat \ {0} /\ r + 1 \in Nat \ {0} /\ (r + 1) - 1 = r
      /\ \A j \in DOMAIN d.slots : d.slots[j].round \in Nat \ {0}
  BY RoundsCount
<1>2. players \in Seq(Players) /\ Len(players) \in Nat /\ Players \subseteq Nat \ {0}
  BY WinnersAre, PlayersCount
<1>3. /\ d.status = "active" /\ RoundOver(d, i) /\ format # "round_robin"
      /\ \A j \in DOMAIN d.slots : d.slots[j].round # r + 1
      /\ ~(Len(players) <= 1) /\ Follow(d, i).rows = rows
  <2> HIDE DEF players
  <2> QED BY <1>1 DEF Follow, Close, Score, players
<1>4. IsInjective(players) /\ Len(players) >= 2
  BY <1>2, <1>3, WinnersOnce DEF Bracket
<1>5. \A p : (\E x \in DOMAIN players : players[x] = p) <=> p # Nobody /\ WinnerIn(d, r, p)
  BY WinnersAll
<1> HIDE DEF players
<1>6. /\ rows \in Seq(NewRows) /\ \A j \in DOMAIN rows : rows[j].round = r + 1
      /\ \A j, k \in DOMAIN rows : j # k => rows[j].pair \cap rows[k].pair = {}
      /\ \A j \in DOMAIN rows : \A p \in rows[j].pair : \E x \in DOMAIN players : players[x] = p
      /\ \A x \in DOMAIN players : \E j \in DOMAIN rows : players[x] \in rows[j].pair
  BY <1>1, <1>2, <1>4, SingleElimSeats
<1> HIDE DEF rows
<1>7. \A j \in DOMAIN d.slots : d.slots[j].round <= r /\ d.slots[j].status = "completed"
  <2>1. format = "single_elim"
    BY <1>3 , PlayersCount
  <2>2. ASSUME NEW j \in DOMAIN d.slots PROVE d.slots[j].round <= r
    <3>1. d.slots[j].round > r + 1 => \E k \in DOMAIN d.slots : d.slots[k].round = r + 1
      BY <1>1, <2>1 DEF InRounds
    <3> QED BY <1>1, <1>3, <3>1
  <2>3. ASSUME NEW j \in DOMAIN d.slots PROVE d.slots[j].status = "completed"
    <3>1. d.slots[j].round = r \/ d.slots[j].round < r
      BY <1>1, <2>2
    <3> QED BY <1>3, <2>1, <3>1 DEF InRounds, RoundOver
  <2> QED BY <2>2, <2>3
<1>8. Bracket(Drawn(d, rows)) /\ WinnersGoOn(Drawn(d, rows))
  <2>1. \A j \in DOMAIN rows : \A p \in rows[j].pair : p # Nobody /\ WinnerIn(d, r, p)
    BY <1>5, <1>6
  <2>2. \A p : p # Nobody /\ WinnerIn(d, r, p) => \E j \in DOMAIN rows : p \in rows[j].pair
    BY <1>5, <1>6
  <2>3. AllPlayed(d)
    BY <1>7 DEF AllPlayed
  <2> HIDE DEF r
  <2> QED BY <1>1, <1>6, <1>7, <2>1, <2>2, <2>3, RoundFollows DEF Bracket
<1> QED BY <1>3, <1>8

-----------------------------------------------------------------------------
(* Steps that draw nothing: what was played stays played, and a tournament  *)
(* is not opened.                                                          *)
StatusOn(d, e) ==
    \/ e.status = d.status \/ e.status = "cancelled"
    \/ d.status \in {"active", "completed"} /\ e.status \in {"active", "completed"}

GoesOn(d, e) ==
    /\ Grows(d, e) /\ DOMAIN e.slots = DOMAIN d.slots /\ StatusOn(d, e)
    /\ format = "single_elim" => \A i \in DOMAIN d.slots : d.slots[i].status = "completed" =>
          e.slots[i].status = "completed" /\ e.slots[i].match = d.slots[i].match

LEMMA GoesOnSame ==
  ASSUME NEW d, NEW e, Grows(d, e), e.slots = d.slots, StatusOn(d, e)
  PROVE  GoesOn(d, e)
BY DEF GoesOn

LEMMA GoesOnOn ==
  ASSUME NEW d, Books(d), NEW c, Books(c), NEW e, Books(e), GoesOn(d, c), GoesOn(c, e)
  PROVE  GoesOn(d, e)
<1>1. Grows(d, e)
  BY GrowsOn DEF GoesOn
<1>2. StatusOn(d, e)
  BY DEF GoesOn, StatusOn
<1> QED BY <1>1, <1>2 DEF GoesOn

LEMMA WinnerStays ==
  ASSUME NEW d, Books(d), NEW e, Grows(d, e), NEW i \in DOMAIN d.slots, e.slots[i].match = d.slots[i].match
  PROVE  WinnerOf(e, e.slots[i]) = WinnerOf(d, d.slots[i])
<1>1. SlotFits(d, d.slots[i])
  BY DEF Books, LinksFit
<1>2. d.slots[i].match # 0 => e.matches[d.slots[i].match].winner = d.matches[d.slots[i].match].winner
  BY <1>1 DEF SlotFits, Grows
<1>3. e.slots[i].pair = d.slots[i].pair
  BY DEF Grows
<1> QED BY <1>2, <1>3 DEF WinnerOf, IsBye

LEMMA BracketGoesOn ==
  ASSUME NEW d, Books(d), InRounds(d), NEW e, GoesOn(d, e), format = "single_elim"
  PROVE  Bracket(d) => Bracket(e) /\ (WinnersGoOn(d) => WinnersGoOn(e))
<1>1. /\ DOMAIN e.slots = DOMAIN d.slots
      /\ \A i \in DOMAIN d.slots : e.slots[i].pair = d.slots[i].pair /\ e.slots[i].round = d.slots[i].round
  BY DEF GoesOn, Grows
<1>2. ASSUME NEW i \in DOMAIN d.slots, d.slots[i].status = "completed"
      PROVE  WinnerOf(e, e.slots[i]) = WinnerOf(d, d.slots[i])
  BY <1>2, WinnerStays DEF GoesOn
<1>3. ASSUME NEW i \in DOMAIN d.slots, NEW j \in DOMAIN d.slots, d.slots[i].round < d.slots[j].round
      PROVE  d.slots[i].status = "completed"
  BY <1>3 DEF InRounds
<1>4. \A i \in DOMAIN d.slots : d.slots[i].round \in Nat \ {0}
  BY RoundsCount
<1>5. InOnePlace(d) => InOnePlace(e)
  BY <1>1 DEF InOnePlace
<1>6. ASSUME FromWinners(d) PROVE FromWinners(e)
  <2> SUFFICES ASSUME NEW i \in DOMAIN e.slots, NEW j \in DOMAIN e.slots, e.slots[i].round < e.slots[j].round,
                      NEW p \in e.slots[j].pair
               PROVE  WinnerIn(e, e.slots[i].round, p)
    BY DEF FromWinners
  <2>1. PICK k \in DOMAIN d.slots : d.slots[k].round = d.slots[i].round /\ WinnerOf(d, d.slots[k]) = p
    BY <1>1, <1>6 DEF FromWinners, WinnerIn
  <2>2. d.slots[k].status = "completed"
    BY <1>1, <1>3, <2>1
  <2> QED BY <1>1, <1>2, <2>1, <2>2 DEF WinnerIn
<1>7. ASSUME WinnersGoOn(d) PROVE WinnersGoOn(e)
  <2> SUFFICES ASSUME NEW i \in DOMAIN e.slots, NEW j \in DOMAIN e.slots, e.slots[j].round = e.slots[i].round + 1
               PROVE  /\ WinnerOf(e, e.slots[i]) # Nobody
                      /\ PlaysIn(e, e.slots[j].round, WinnerOf(e, e.slots[i]))
    BY DEF WinnersGoOn
  <2>1. d.slots[i].round < d.slots[j].round /\ d.slots[j].round = d.slots[i].round + 1
    BY <1>1, <1>4
  <2>2. WinnerOf(e, e.slots[i]) = WinnerOf(d, d.slots[i])
    BY <1>1, <1>2, <1>3, <2>1
  <2>3. WinnerOf(d, d.slots[i]) # Nobody /\ PlaysIn(d, d.slots[j].round, WinnerOf(d, d.slots[i]))
    BY <1>1, <1>7, <2>1 DEF WinnersGoOn
  <2> QED BY <1>1, <2>2, <2>3 DEF PlaysIn
<1> QED BY <1>5, <1>6, <1>7 DEF Bracket

(* A transaction that draws a round in the end, after c.                   *)
DrawsAfter(d, c, e, i) ==
    /\ Books(c) /\ InRounds(c) /\ Played(c) /\ GoesOn(d, c) /\ i \in DOMAIN c.slots
    /\ format = "single_elim" /\ c.status = "active" /\ Follow(c, i).pc = "draw"
    /\ e.slots = Drawn(c, Follow(c, i).rows).slots /\ e.matches = c.matches /\ e.status = c.status

Draws(d, e) == \E c, i : DrawsAfter(d, c, e, i)

LEMMA ConfirmedGoes ==
  ASSUME event \in Events, NEW d, Books(d), InOrder(d), Played(d),
         NEW i \in DOMAIN d.slots, NEW w \in d.slots[i].pair, NEW e \in Confirmed(d, i, w)
  PROVE  GoesOn(d, e) \/ Draws(d, e)
<1> DEFINE n == Len(d.matches) + 1
           c == Linked(d, i, w)
           a == Advanced(c, i)
<1>1. d.slots[i].status # "completed" /\ e = Scored(a, n)
  BY DEF Confirmed, Linked, Result
<1>2. /\ c \in Db /\ c.slots = [d.slots EXCEPT ![i] = Shown(d.slots[i], n, "completed")]
      /\ c.status = d.status /\ c.places = d.places
      /\ c.matches = Append(d.matches, Result(d, i, w)) /\ c.series = d.series /\ c.awards = d.awards
      /\ Result(d, i, w) \in Match /\ d.slots[i].match = 0
  BY LinkedIs DEF Confirmed
<1> HIDE DEF c
<1>3. Books(c) /\ Grows(d, c)
  <2> DEFINE row == Result(d, i, w)
             st == "completed"
  <2>1. row.pair = d.slots[i].pair /\ row.winner \in row.pair /\ row.status # "pending"
    BY DEF Result
  <2>2. RowAdded(d, c, i, row, st)
    <3>1. row \in Match
      BY <1>2
    <3> HIDE DEF row
    <3> QED BY <1>2, <2>1, <3>1 DEF RowAdded, row
  <2> HIDE DEF row, st
  <2> QED BY <2>2, MatchAdded
<1>4. /\ DOMAIN c.slots = DOMAIN d.slots /\ c.slots[i] = Shown(d.slots[i], n, "completed")
      /\ \A j \in DOMAIN d.slots : j # i => c.slots[j] = d.slots[j]
  BY <1>2
<1>5. GoesOn(d, c)
  BY <1>1, <1>2, <1>3, <1>4 DEF GoesOn, StatusOn
<1>6. \A j \in DOMAIN d.slots : c.slots[j].round = d.slots[j].round
                                /\ (d.slots[j].status = "completed" => c.slots[j].status = "completed")
  BY <1>4 DEF Shown
<1>7. InRounds(c)
  BY <1>2, <1>4, <1>6, RoundsStay DEF InOrder
<1>8. Played(c)
  <2>1. n # 0
    BY DbIs
  <2> QED BY <1>4, <2>1 DEF Played, Shown
<1>9. Books(a) /\ Grows(c, a) /\ a.matches = c.matches
  BY <1>3, <1>4, AdvancedIs
<1>10. Grows(d, a)
  BY <1>3, <1>9, GrowsOn
<1>11. (a.slots = c.slots /\ StatusOn(c, a)) \/ DrawsAfter(d, c, a, i)
  <2>1. CASE Follow(c, i) = Score
    BY <2>1 DEF Advanced, Score, StatusOn
  <2>2. CASE Follow(c, i) = Close
    <3> DEFINE st == "completed"
               f == [c EXCEPT !.status = st]
    <3>1. a = Placed(f)
      BY <2>2 DEF Advanced, Close, Closed
    <3>2. st \in {"pending", "active", "completed", "cancelled"} /\ c.status = "active"
      BY <1>3, <1>4, <1>7, <2>2, FollowPlayed DEF Close
    <3> HIDE DEF st
    <3>3. Books(f) /\ f.status = st /\ f.slots = c.slots
      BY <1>3, <3>2, StatusSet
    <3> HIDE DEF f, a
    <3>4. a.slots = c.slots /\ a.status = st
      BY <3>1, <3>3, PlacedIs
    <3> QED BY <3>2, <3>4 DEF StatusOn, st
  <2>3. CASE Follow(c, i).pc = "draw" /\ Follow(c, i).rows \in Seq(NewRows)
    <3> DEFINE rows == Follow(c, i).rows
    <3>1. a = Drawn(c, rows)
      BY <2>3 DEF Advanced, Drawn
    <3>2. format = "single_elim" /\ c.status = "active"
      BY <1>3, <1>4, <1>7, <2>3, FollowPlayed
    <3>3. a.slots = Drawn(c, rows).slots /\ a.matches = c.matches /\ a.status = c.status
      <4>1. rows \in Seq(NewRows)
        BY <2>3
      <4> HIDE DEF rows, a
      <4> QED BY <1>3, <3>1, <4>1, DrawnIs
    <3> HIDE DEF a
    <3> QED BY <1>3, <1>4, <1>5, <1>7, <1>8, <2>3, <3>2, <3>3 DEF DrawsAfter
  <2> QED BY <1>3, <1>4, <2>1, <2>2, <2>3, FollowIs
<1> HIDE DEF a, n
<1>12. e.slots = a.slots /\ e.matches = a.matches /\ e.status = a.status
  BY <1>1, <1>9, DbIs DEF Scored, Db
<1>13. CASE a.slots = c.slots /\ StatusOn(c, a)
  <2>1. Grows(d, e)
    BY <1>10, <1>12 DEF Grows
  <2> QED BY <1>2, <1>5, <1>12, <1>13, <2>1 DEF GoesOn, StatusOn
<1>14. CASE DrawsAfter(d, c, a, i)
  BY <1>12, <1>14 DEF DrawsAfter, Draws
<1> QED BY <1>11, <1>13, <1>14

LEMMA DrawsLater ==
  ASSUME NEW d, Books(d), NEW c, Books(c), GoesOn(d, c), NEW e, Draws(c, e)
  PROVE  Draws(d, e)
<1>1. PICK b, i : DrawsAfter(c, b, e, i)
  BY DEF Draws
<1>2. GoesOn(d, b)
  BY <1>1, GoesOnOn DEF DrawsAfter
<1> QED BY <1>1, <1>2 DEF DrawsAfter, Draws

LEMMA RecordedGoes ==
  ASSUME event \in Events, NEW d, Books(d), InOrder(d), Played(d),
         NEW k \in DOMAIN d.series, d.series[k].status = "completed", NEW e \in Recorded(d, k)
  PROVE  GoesOn(d, e) \/ Draws(d, e)
<1>1. d.series[k].slot \in DOMAIN d.slots /\ d.series[k].winner \in d.slots[d.series[k].slot].pair
  BY SeriesOf
<1>2. PICK c \in Confirmed(d, d.series[k].slot, d.series[k].winner) :
         e.slots = c.slots /\ e.matches = c.matches /\ e.status = c.status /\ e.places = c.places
  BY RecordFits
<1>3. GoesOn(d, c) \/ Draws(d, c)
  BY <1>1, ConfirmedGoes
<1>4. GoesOn(d, c) => GoesOn(d, e)
  BY <1>2 DEF GoesOn, Grows, StatusOn
<1>5. Draws(d, c) => Draws(d, e)
  BY <1>2 DEF Draws, DrawsAfter
<1> QED BY <1>3, <1>4, <1>5

LEMMA TransactionGoes ==
  ASSUME Whole, Agree(db, task), InOrder(db), Transaction
  PROVE  GoesOn(db, db') \/ Draws(db, db')
<1>0. Books(db) /\ event \in Events /\ Books(db') /\ Grows(db, db') /\ RealSlots(db) \subseteq DOMAIN db.slots
  BY TransactionMoves DEF Whole, RealSlots
<1>p. Played(db)
  BY DEF Agree, SlotAgrees, Played
<1>1. ASSUME NEW i \in DOMAIN db.slots, NEW w \in db.slots[i].pair, Report(i, w) PROVE GoesOn(db, db')
  <2>1. Reported(db, db', i)
    BY <1>1, ReportIs
  <2>2. /\ db'.status = db.status /\ DOMAIN db'.slots = DOMAIN db.slots
        /\ db.slots[i].status = "open" /\ \A j \in DOMAIN db.slots : j # i => db'.slots[j] = db.slots[j]
    BY <2>1 DEF Reported
  <2> QED BY <1>0, <2>2 DEF GoesOn, StatusOn
<1>2. ASSUME NEW i \in DOMAIN db.slots, NEW w \in db.slots[i].pair, SetResult(i, w)
      PROVE  GoesOn(db, db') \/ Draws(db, db')
  <2> DEFINE c == Cleared(db, i)
  <2>1. db.status = "active" /\ db.slots[i].status \in {"open", "pending_approval"} /\ db' \in Confirmed(c, i, w)
    BY <1>2, SetResultFits
  <2>2. /\ Books(c) /\ InOrder(c) /\ DOMAIN c.slots = DOMAIN db.slots /\ Grows(db, c) /\ c.status = db.status
        /\ c.slots[i] = Shown(db.slots[i], 0, "open")
        /\ \A j \in DOMAIN db.slots : j # i => c.slots[j] = db.slots[j]
    BY <1>0, <2>1, ClearedOrder, ClearedIs
  <2> HIDE DEF c
  <2>3. i \in DOMAIN c.slots /\ w \in c.slots[i].pair
    BY <1>2, <2>2 DEF Grows
  <2>4. GoesOn(db, c)
    BY <2>1, <2>2 DEF GoesOn, StatusOn
  <2>5. Played(c)
    BY <1>p, <2>2 DEF Played, Shown
  <2>6. GoesOn(c, db') \/ Draws(c, db')
    BY <1>0, <2>1, <2>2, <2>3, <2>5, ConfirmedGoes
  <2> QED BY <1>0, <2>2, <2>4, <2>6, GoesOnOn, DrawsLater
<1>3. ASSUME NEW i \in DOMAIN db.slots, Reopen(i) PROVE GoesOn(db, db')
  <2>1. format = "round_robin" /\ db' = Reopened(db, i) /\ db.slots[i].match # 0
    BY <1>3, ReopenFits
  <2>2. DOMAIN db'.slots = DOMAIN db.slots /\ db'.status = IF db.status = "completed" THEN "active" ELSE db.status
    BY <1>0, <2>1, ReopenedIs
  <2> QED BY <1>0, <2>1, <2>2 DEF GoesOn, StatusOn
<1>4. ASSUME NEW i \in DOMAIN db.slots, StartSeries(i) PROVE GoesOn(db, db')
  BY <1>4, StartSeriesFits, GoesOnSame DEF StatusOn
<1>5. ASSUME NEW k \in DOMAIN db.series, db.series[k].status = "open", db' = SeriesStatus(db, k, "cancelled")
      PROVE  GoesOn(db, db')
  BY <1>5, CancelSeriesFits, GoesOnSame DEF StatusOn
<1>6. ASSUME NEW k \in DOMAIN db.series, RetryResult(k) PROVE GoesOn(db, db') \/ Draws(db, db')
  BY <1>0, <1>p, <1>6, RetryFits, RecordedGoes
<1>7. ASSUME NEW k \in DOMAIN db.series, NEW w \in Players, SeriesDecided(k, w)
      PROVE  GoesOn(db, db') \/ Draws(db, db')
  <2> DEFINE d == Won(db, k, w)
  <2>1. /\ db.series[k].status = "open" /\ w \in db.slots[db.series[k].slot].pair
        /\ \/ db' = SeriesStatus(db, k, "cancelled")
           \/ db' \in Recorded(d, k)
           \/ db' = d
    BY <1>7, SeriesDecidedFits
  <2>2. /\ Books(d) /\ Grows(db, d) /\ d.slots = db.slots /\ d.matches = db.matches /\ d.status = db.status
        /\ d.places = db.places /\ DOMAIN d.series = DOMAIN db.series
        /\ d.series[k] = Now(db.series[k], "completed", w, 0, Len(db.matches))
    BY <1>0, <2>1, WonIs
  <2> HIDE DEF d
  <2>3. InOrder(d) /\ d.series[k].status = "completed" /\ Played(d) /\ GoesOn(db, d)
    BY <1>p, <2>2, OrderStays, GoesOnSame DEF Now, Played, StatusOn
  <2>4. CASE db' \in Recorded(d, k)
    <3>1. GoesOn(d, db') \/ Draws(d, db')
      BY <1>0, <2>2, <2>3, <2>4, RecordedGoes
    <3> QED BY <1>0, <2>2, <2>3, <3>1, GoesOnOn, DrawsLater
  <2> QED BY <1>5, <2>1, <2>3, <2>4
<1>8. ASSUME Cancel \/ EndAsIs PROVE GoesOn(db, db')
  <2>1. CASE Cancel
    <3>1. db'.slots = db.slots
      BY <1>8, EndFits
    <3>2. db'.status = "cancelled"
      BY <1>0, <2>1, EndedIs DEF Cancel, End, Ended
    <3> QED BY <1>0, <3>1, <3>2, GoesOnSame DEF StatusOn
  <2>2. CASE EndAsIs
    <3>1. db'.slots = db.slots
      BY <1>8, EndFits
    <3>2. db.status = "active" /\ db'.status = "completed"
      BY <1>0, <2>2, EndedIs DEF EndAsIs, End, Ended
    <3> QED BY <1>0, <3>1, <3>2, GoesOnSame DEF StatusOn
  <2> QED BY <1>8, <2>1, <2>2
<1>9. CASE \E i \in RealSlots(db) : \/ \E w \in db.slots[i].pair : Report(i, w) \/ SetResult(i, w)
                                    \/ Reopen(i) \/ StartSeries(i)
  <2>1. PICK i \in RealSlots(db) : \/ \E w \in db.slots[i].pair : Report(i, w) \/ SetResult(i, w)
                                   \/ Reopen(i) \/ StartSeries(i)
    BY <1>9
  <2>2. i \in DOMAIN db.slots
    BY <1>0
  <2>3. CASE \E w \in db.slots[i].pair : Report(i, w) \/ SetResult(i, w)
    BY <1>1, <1>2, <2>2, <2>3
  <2> QED BY <1>3, <1>4, <2>1, <2>2, <2>3
<1>10. CASE \E k \in DOMAIN db.series : \/ CancelSeries(k) \/ RetryResult(k)
                                        \/ \E w \in Players : SeriesDecided(k, w)
  <2>1. PICK k \in DOMAIN db.series : \/ CancelSeries(k) \/ RetryResult(k)
                                      \/ \E w \in Players : SeriesDecided(k, w)
    BY <1>10
  <2>2. CASE CancelSeries(k)
    <3>1. db.series[k].status = "open" /\ db' = SeriesStatus(db, k, "cancelled")
      BY <2>2 DEF CancelSeries, SeriesStatus
    <3> QED BY <1>5, <3>1
  <2> QED BY <1>6, <1>7, <2>1, <2>2
<1> QED BY <1>8, <1>9, <1>10 DEF Transaction

-----------------------------------------------------------------------------
(* Calls that draw.                                                        *)

(* A call that draws nothing, a call that goes on to draw, or one of the    *)
(* statements of a drawing.                                                *)
Surveyed(d, t, u) ==
    /\ t.pc = "survey" /\ t.slot \in DOMAIN d.slots /\ Follow(d, t.slot).pc = "draw"
    /\ u.pc = "draw" /\ u.rows = Follow(d, t.slot).rows /\ u.report = t.report

Drawing == {"draw", "activate"}

LEMMA StatementGoes ==
  ASSUME Whole, Agree(db, task), InOrder(db), NEW p \in Procs, CallKnows(db, task[p]), Statement(p)
  PROVE  \/ InsertPairing(p) \/ Activate(p)
         \/ GoesOn(db, db') /\ task[p].pc \notin Drawing /\ task'[p].pc \notin Drawing
         \/ db' = db /\ Surveyed(db, task[p], task'[p])
<1> DEFINE t == task[p]
           u == task'[p]
           Rests == GoesOn(db, db') /\ t.pc \notin Drawing /\ u.pc \notin Drawing
<1>0. /\ Books(db) /\ event \in Events /\ Books(db') /\ Grows(db, db') /\ TaskFits(db, t) /\ t \in Task
      /\ CallAgrees(db, t)
  BY StatementMoves, TaskOf DEF Moved, Agree
<1>1. ASSUME db'.slots = db.slots, StatusOn(db, db') PROVE GoesOn(db, db')
  BY <1>0, <1>1, GoesOnSame
<1>2. ASSUME NEW pc, u = [t EXCEPT !.pc = pc] PROVE u.pc = pc
  BY <1>0, <1>2, TaskSet
<1>3. ASSUME Decide(p) PROVE Rests
  <2>1. /\ t.report \in DOMAIN db.matches /\ t.pc \in {"approve", "deny"}
        /\ db' = Redone(db, t.report, "approved") \/ db' = Redone(db, t.report, "denied")
        /\ u = [t EXCEPT !.pc = "find"] \/ u = [t EXCEPT !.pc = "free"]
    BY <1>3, DecideFits
  <2>2. db'.status = db.status /\ db'.slots = db.slots
    BY <1>0, <2>1, DecidedIs DEF Redecided
  <2>3. u.pc = "find" \/ u.pc = "free"
    BY <1>2, <2>1
  <2> QED BY <1>1, <2>1, <2>2, <2>3 DEF StatusOn, Drawing
<1>4. ASSUME FreeSlot(p) PROVE Rests
  <2>1. t.pc = "free" /\ u = Idle /\ db' = Freed(db, t.report)
    BY <1>4, FreeSlotFits
  <2>2. SlotsFreed(db, db', SlotsOf(db, t.report)) /\ db'.status = db.status
    BY <1>0, <2>1, FreeIs
  <2>3. t.report # 0 /\ db.matches[t.report].status = "denied"
    BY <1>0, <2>1 DEF TaskFits, Carrying, CallAgrees
  <2>4. \A i \in SlotsOf(db, t.report) : db.slots[i].status # "completed"
    BY <2>3 DEF Agree, SlotAgrees, SlotsOf, Approved
  <2>5. GoesOn(db, db')
    BY <1>0, <2>2, <2>4 DEF SlotsFreed, GoesOn, StatusOn
  <2> QED BY <2>1, <2>5 DEF Idle, Drawing
<1>5. ASSUME FindSlot(p) PROVE Rests
  <2>1. db' = db /\ t.pc = "find"
    BY <1>5, FindSlotFits
  <2>2. u.pc \in {"score", "complete"}
    <3> DEFINE x == [t EXCEPT !.pc = "score"]
               y == [t EXCEPT !.pc = "complete", !.slot = Min(SlotsOf(db, t.report))]
    <3>1. task' = [task EXCEPT ![p] = x] \/ task' = [task EXCEPT ![p] = y]
      BY <1>5 DEF FindSlot, Goto, Continue
    <3>2. u = x \/ u = y
      BY <3>1 DEF Whole
    <3> HIDE DEF t
    <3>3. x.pc = "score" /\ y.pc = "complete"
      BY <1>0 DEF Task
    <3> QED BY <3>2, <3>3
  <2> QED BY <1>1, <2>1, <2>2 DEF StatusOn, Drawing
<1>6. ASSUME CompleteSlot(p) PROVE Rests
  <2> DEFINE i == t.slot
             s == "survey"
  <2>1. t.pc = "complete" /\ u = [t EXCEPT !.pc = s] /\ db' = Completed(db, i) /\ i \in DOMAIN db.slots
    BY <1>6, CompleteSlotFits
  <2> HIDE DEF s, i
  <2>2. u.pc = s
    BY <1>2, <2>1
  <2>3. /\ db'.status = db.status /\ DOMAIN db'.slots = DOMAIN db.slots
        /\ db'.slots[i] = Shown(db.slots[i], db.slots[i].match, "completed")
        /\ \A j \in DOMAIN db.slots : j # i => db'.slots[j] = db.slots[j]
    BY <1>0, <2>1, CompletedIs
  <2>4. db'.slots[i].status = "completed" /\ db'.slots[i].match = db.slots[i].match
    BY <2>3 DEF Shown
  <2>5. GoesOn(db, db')
    BY <1>0, <2>3, <2>4 DEF GoesOn, StatusOn
  <2> QED BY <2>1, <2>2, <2>5 DEF s, Drawing
<1>7. ASSUME Survey(p) PROVE Rests \/ (db' = db /\ Surveyed(db, t, u))
  <2> DEFINE f == Follow(db, t.slot)
             pc == f.pc
             rows == f.rows
             v == [t EXCEPT !.pc = pc]
  <2>1. db' = db /\ t.pc = "survey" /\ t.slot \in DOMAIN db.slots /\ u = [v EXCEPT !.rows = rows]
    BY <1>7, SurveyFits
  <2>2. pc \in {"draw", "close", "score"}
    BY <1>0, <2>1, FollowIs DEF Score, Close
  <2> HIDE DEF pc, rows, f
  <2>3. u.pc = pc /\ u.rows = rows /\ u.report = t.report
    <3> HIDE DEF t, u
    <3>1. v.pc = pc /\ v.report = t.report /\ u = [v EXCEPT !.rows = rows] /\ DOMAIN v = DOMAIN t
      BY <1>0, <2>1 DEF Task
    <3>2. "rows" \in DOMAIN v
      BY <1>0, <3>1 DEF Task
    <3> HIDE DEF v
    <3> QED BY <3>1, <3>2
  <2>4. CASE pc = "draw"
    <3>1. Surveyed(db, t, u)
      <4> HIDE DEF t, u
      <4> QED BY <2>1, <2>3, <2>4 DEF Surveyed, pc, rows, f
    <3> QED BY <2>1, <3>1
  <2>5. CASE pc # "draw"
    <3>1. GoesOn(db, db')
      BY <1>1, <2>1 DEF StatusOn
    <3> QED BY <2>1, <2>2, <2>3, <2>5, <3>1 DEF Drawing
  <2> QED BY <2>4, <2>5
<1>8. ASSUME CloseTournament(p) PROVE Rests
  <2> DEFINE st == "completed"
             s == "place"
  <2>1. t.pc = "close" /\ u = [t EXCEPT !.pc = s] /\ db' = [db EXCEPT !.status = st]
        /\ st \in {"pending", "active", "completed", "cancelled"}
    BY <1>8, CloseFits
  <2>2. db.status = "active"
    BY <2>1 DEF CallKnows
  <2> HIDE DEF st, s
  <2>3. u.pc = s /\ db'.slots = db.slots /\ db'.status = st
    BY <1>0, <1>2, <2>1, StatusSet
  <2> QED BY <1>1, <2>1, <2>2, <2>3 DEF StatusOn, st, s, Drawing
<1>9. ASSUME Place(p) PROVE Rests
  <2> DEFINE s == "score"
  <2>1. t.pc = "place" /\ u = [t EXCEPT !.pc = s] /\ db' = Placed(db)
    BY <1>9, PlaceFits
  <2> HIDE DEF s
  <2>2. u.pc = s /\ db'.slots = db.slots /\ db'.status = db.status
    BY <1>0, <1>2, <2>1, PlacedIs
  <2> QED BY <1>1, <2>1, <2>2 DEF StatusOn, s, Drawing
<1>10. ASSUME ReadScore(p) PROVE Rests
  <2>1. db' = db /\ t.pc = "score"
    BY <1>10, ReadScoreFits
  <2>2. u.pc \in {"award", "idle"}
    <3> DEFINE x == [t EXCEPT !.pc = "award"]
    <3>1. task' = [task EXCEPT ![p] = x] \/ task' = [task EXCEPT ![p] = Idle]
      BY <1>10 DEF ReadScore, Goto, Continue
    <3>2. u = x \/ u = Idle
      BY <3>1 DEF Whole
    <3> HIDE DEF t
    <3>3. x.pc = "award" /\ Idle.pc = "idle"
      BY <1>0 DEF Task, Idle
    <3> QED BY <3>2, <3>3
  <2> QED BY <1>1, <2>1, <2>2 DEF StatusOn, Drawing
<1>11. ASSUME Award(p) PROVE Rests
  <2>1. db' = [db EXCEPT !.awards = @ \cup {t.report}] /\ t.report \in DOMAIN db.matches /\ t.pc = "award" /\ u = Idle
    BY <1>11, AwardFits
  <2>2. db'.slots = db.slots /\ db'.status = db.status
    BY <1>0, <2>1, AwardIs
  <2> QED BY <1>1, <2>1, <2>2 DEF StatusOn, Idle, Drawing
<1> QED BY <1>3, <1>4, <1>5, <1>6, <1>7, <1>8, <1>9, <1>10, <1>11 DEF Statement

LEMMA SameMembers ==
  ASSUME NEW S, NEW s \in Seq(S), NEW t \in Seq(S), Len(s) = Len(t), \A i \in 1..Len(s) : s[i] = t[i]
  PROVE  s = t
<1>1. Len(s) \in Nat /\ s \in [1..Len(s) -> S] /\ t \in [1..Len(s) -> S]
  OBVIOUS
<1> QED BY <1>1

(* One row of a drawing is written: what is drawn in the end stays the same. *)
LEMMA RowWritten ==
  ASSUME NEW d, Books(d), NEW rows \in Seq(NewRows), Len(rows) >= 1, NEW e, Books(e),
         e.slots = Append(d.slots, Head(rows)), e.matches = d.matches
  PROVE  LET f == Drawn(d, rows)
         IN  /\ Len(rows) = 1 => e.slots = f.slots
             /\ Len(rows) # 1 => /\ Tail(rows) \in Seq(NewRows) /\ Len(Tail(rows)) >= 1
                                 /\ Drawn(e, Tail(rows)).slots = f.slots /\ Drawn(e, Tail(rows)).matches = f.matches
             /\ Len(e.slots) <= Len(f.slots) /\ DOMAIN e.slots \subseteq DOMAIN f.slots
             /\ \A i \in DOMAIN e.slots : e.slots[i] = f.slots[i]
             /\ \A i \in DOMAIN f.slots : i \notin DOMAIN e.slots =>
                   \E k \in DOMAIN rows : f.slots[i] = rows[k]
<1> DEFINE f == Drawn(d, rows)
           n == Len(d.slots)
           m == Len(rows)
           rest == Tail(rows)
<1>1. NewRows \subseteq Slot /\ d.slots \in Seq(Slot) /\ n \in Nat /\ m \in Nat \ {0} /\ DOMAIN rows = 1..m
      /\ DOMAIN d.slots = 1..n
  BY DbIs DEF NewRows
<1>2. /\ f.slots = d.slots \o rows /\ f.matches = d.matches /\ DOMAIN f.slots = 1..(n + m)
      /\ \A i \in 1..n : f.slots[i] = d.slots[i]
      /\ \A k \in 1..m : f.slots[n + k] = rows[k]
      /\ \A i \in DOMAIN f.slots : i \notin 1..n => i - n \in 1..m /\ f.slots[i] = rows[i - n]
  <2> HIDE DEF f, n, m
  <2> QED BY DrawnIs DEF f, n, m
<1>3. rows \in Seq(Slot) /\ f.slots \in Seq(Slot) /\ Len(f.slots) = n + m
  <2>1. rows \in Seq(Slot)
    BY <1>1
  <2> HIDE DEF f
  <2> QED BY <1>1, <1>2, <2>1, Joined
<1>4. Head(rows) = rows[1] /\ Head(rows) \in NewRows
  OBVIOUS
<1>5. /\ e.slots \in Seq(Slot) /\ Len(e.slots) = n + 1 /\ DOMAIN e.slots = 1..(n + 1)
      /\ e.slots[n + 1] = rows[1] /\ \A i \in 1..n : e.slots[i] = d.slots[i]
  <2>1. Head(rows) \in Slot
    BY <1>1, <1>4
  <2> HIDE DEF n
  <2> QED BY <1>1, <1>4, <2>1 DEF n
<1> HIDE DEF f, n, m
<1>6. ASSUME NEW i \in 1..(n + 1) PROVE e.slots[i] = f.slots[i]
  <2>1. i \in 1..n \/ i = n + 1
    BY <1>1
  <2>2. f.slots[n + 1] = rows[1]
    BY <1>1, <1>2
  <2> QED BY <1>2, <1>5, <2>1, <2>2
<1>7. m = 1 => e.slots = f.slots
  <2>1. m = 1 => Len(e.slots) = Len(f.slots) /\ \A i \in 1..Len(e.slots) : e.slots[i] = f.slots[i]
    BY <1>3, <1>5, <1>6
  <2> QED BY <1>3, <1>5, <2>1, SameMembers
<1>8. ASSUME m # 1
      PROVE  /\ rest \in Seq(NewRows) /\ Len(rest) >= 1
             /\ Drawn(e, rest).slots = f.slots /\ Drawn(e, rest).matches = f.matches
  <2>1. rest \in Seq(NewRows) /\ Len(rest) = m - 1 /\ \A k \in 1..(m - 1) : rest[k] = rows[k + 1]
    BY <1>1, <1>8 DEF m
  <2>2. m - 1 \in Nat \ {0}
    BY <1>1, <1>8
  <2> DEFINE g == Drawn(e, rest)
  <2> HIDE DEF rest
  <2>3. /\ g.slots = e.slots \o rest /\ g.matches = e.matches
        /\ \A i \in 1..(n + 1) : g.slots[i] = e.slots[i]
        /\ \A i \in DOMAIN g.slots : i \notin 1..(n + 1) => i - (n + 1) \in 1..(m - 1) /\ g.slots[i] = rest[i - (n + 1)]
    <3>1. rest \in Seq(NewRows)
      BY <2>1
    <3>2. /\ g.slots = e.slots \o rest /\ g.matches = e.matches
          /\ \A i \in 1..Len(e.slots) : g.slots[i] = e.slots[i]
          /\ \A i \in DOMAIN g.slots : i \notin 1..Len(e.slots) =>
                i - Len(e.slots) \in 1..Len(rest) /\ g.slots[i] = rest[i - Len(e.slots)]
      BY <3>1, DrawnIs
    <3> HIDE DEF g
    <3> QED BY <1>5, <2>1, <3>2
  <2>4. g.slots \in Seq(Slot) /\ Len(g.slots) = n + m /\ DOMAIN g.slots = 1..(n + m)
    <3>1. rest \in Seq(Slot)
      BY <1>1, <2>1
    <3>2. (n + 1) + (m - 1) = n + m
      BY <1>1
    <3>3. Len(rest) = m - 1 /\ e.slots \in Seq(Slot) /\ Len(e.slots) = n + 1 /\ g.slots = e.slots \o rest
      BY <1>5, <2>1, <2>3
    <3>4. /\ e.slots \o rest \in Seq(Slot) /\ Len(e.slots \o rest) = Len(e.slots) + Len(rest)
          /\ DOMAIN (e.slots \o rest) = 1..(Len(e.slots) + Len(rest))
      <4>1. e.slots \o rest \in Seq(Slot) /\ Len(e.slots \o rest) = Len(e.slots) + Len(rest)
        BY <3>1, <3>3, Joined
      <4> QED BY <4>1
    <3>5. Len(e.slots) + Len(rest) = n + m
      BY <3>2, <3>3
    <3> HIDE DEF g
    <3> QED BY <3>3, <3>4, <3>5
  <2> HIDE DEF g
  <2>5. ASSUME NEW i \in 1..(n + m) PROVE g.slots[i] = f.slots[i]
    <3>1. CASE i \in 1..(n + 1)
      BY <1>6, <2>3, <3>1
    <3>2. CASE i \notin 1..(n + 1)
      <4>1. i - (n + 1) \in 1..(m - 1) /\ g.slots[i] = rest[i - (n + 1)]
        BY <2>3, <2>4, <3>2
      <4>2. rest[i - (n + 1)] = rows[i - n]
        <5>1. (i - (n + 1)) + 1 = i - n
          BY <1>1
        <5>2. rest[i - (n + 1)] = rows[(i - (n + 1)) + 1]
          BY <2>1, <4>1
        <5> QED BY <5>1, <5>2
      <4>3. f.slots[i] = rows[i - n]
        <5>1. i \in DOMAIN f.slots /\ i \notin 1..n
          BY <1>1, <1>2, <3>2
        <5> QED BY <1>2, <5>1
      <4> QED BY <4>1, <4>2, <4>3
    <3> QED BY <3>1, <3>2
  <2>6. g.slots = f.slots
    BY <1>3, <2>4, <2>5, SameMembers
  <2>7. e.matches = f.matches
    BY <1>2
  <2>8. Len(rest) >= 1
    <3>1. \A k \in Nat \ {0} : k >= 1
      OBVIOUS
    <3>2. m - 1 >= 1
      BY <2>2, <3>1
    <3> QED BY <2>1, <3>2
  <2>9. Drawn(e, rest).slots = f.slots
    BY <2>6 DEF g
  <2>10. Drawn(e, rest).matches = f.matches
    <3>1. f.matches = d.matches /\ g.matches = e.matches
      BY <1>2, <2>3
    <3>2. g.matches = f.matches
      BY <3>1
    <3> QED BY <3>2 DEF g
  <2>11. rest \in Seq(NewRows)
    BY <2>1
  <2> QED BY <2>8, <2>9, <2>10, <2>11
<1>9. Len(e.slots) <= Len(f.slots) /\ DOMAIN e.slots \subseteq DOMAIN f.slots
  BY <1>1, <1>2, <1>3, <1>5
<1>10. ASSUME NEW i \in DOMAIN f.slots, i \notin DOMAIN e.slots
       PROVE  \E k \in DOMAIN rows : f.slots[i] = rows[k]
  <2>1. i \notin 1..n
    BY <1>1, <1>5, <1>10
  <2> QED BY <1>1, <1>2, <2>1
<1> QED BY <1>5, <1>6, <1>7, <1>8, <1>9, <1>10 DEF f, m

LEMMA BracketSame ==
  ASSUME NEW d, NEW e, e.slots = d.slots, \A i \in DOMAIN d.slots : WinnerOf(e, d.slots[i]) = WinnerOf(d, d.slots[i])
  PROVE  /\ Bracket(d) => Bracket(e)
         /\ WinnersGoOn(d) => WinnersGoOn(e)
<1>1. InOnePlace(d) => InOnePlace(e)
  BY DEF InOnePlace
<1>2. FromWinners(d) => FromWinners(e)
  BY DEF FromWinners, WinnerIn
<1>3. WinnersGoOn(d) => WinnersGoOn(e)
  BY DEF WinnersGoOn, PlaysIn
<1> QED BY <1>1, <1>2, <1>3 DEF Bracket

DrawsOn(d, rows) == Bracket(Drawn(d, rows)) /\ WinnersGoOn(Drawn(d, rows))

LEMMA BracketWritten ==
  ASSUME NEW d, Books(d), NEW rows \in Seq(NewRows), Len(rows) >= 1, NEW e, Books(e),
         e.slots = Append(d.slots, Head(rows)), e.matches = d.matches,
         RowsFollow(d, rows), DrawsOn(d, rows)
  PROVE  /\ Bracket(e)
         /\ Len(rows) = 1 => WinnersGoOn(e)
         /\ Len(rows) # 1 => DrawsOn(e, Tail(rows))
<1> DEFINE f == Drawn(d, rows)
           g == Drawn(e, Tail(rows))
<1>1. /\ Len(rows) = 1 => e.slots = f.slots
      /\ Len(rows) # 1 => g.slots = f.slots /\ g.matches = f.matches
      /\ DOMAIN e.slots \subseteq DOMAIN f.slots
      /\ \A i \in DOMAIN e.slots : e.slots[i] = f.slots[i]
      /\ \A i \in DOMAIN f.slots : i \notin DOMAIN e.slots => \E k \in DOMAIN rows : f.slots[i] = rows[k]
  BY RowWritten
<1>2. f.matches = e.matches
  BY DrawnIs
<1>3. Bracket(f) /\ WinnersGoOn(f)
  BY DEF DrawsOn
<1>4. PICK r \in Nat \ {0} : /\ \A j \in DOMAIN d.slots : d.slots[j].round <= r
                             /\ \A j \in DOMAIN rows : rows[j].round = r
  BY DEF RowsFollow, MayDraw
<1>5. \A i \in DOMAIN e.slots : e.slots[i].round <= r /\ e.slots[i].round \in Nat
  <2>1. \A i \in DOMAIN e.slots : i \in DOMAIN d.slots \/ e.slots[i] = Head(rows)
    <3>1. d.slots \in Seq(Slot)
      BY DbIs
    <3> QED BY <3>1
  <2>2. \A i \in DOMAIN d.slots : e.slots[i] = d.slots[i]
    <3>1. d.slots \in Seq(Slot)
      BY DbIs
    <3> QED BY <3>1
  <2>3. Head(rows).round = r
    <3>1. 1 \in DOMAIN rows /\ Head(rows) = rows[1]
      OBVIOUS
    <3> QED BY <1>4, <3>1
  <2>4. \A i \in DOMAIN e.slots : e.slots[i].round \in Nat
    BY RoundsCount
  <2> QED BY <1>4, <2>1, <2>2, <2>3, <2>4
<1> HIDE DEF f, g
<1>6. \A s : WinnerOf(f, s) = WinnerOf(e, s)
  BY <1>2 DEF WinnerOf
<1>7. InOnePlace(e)
  BY <1>1, <1>3 DEF Bracket, InOnePlace
<1>8. FromWinners(e)
  <2> SUFFICES ASSUME NEW i \in DOMAIN e.slots, NEW j \in DOMAIN e.slots, e.slots[i].round < e.slots[j].round,
                      NEW p \in e.slots[j].pair
               PROVE  WinnerIn(e, e.slots[i].round, p)
    BY DEF FromWinners
  <2>1. PICK k \in DOMAIN f.slots : f.slots[k].round = e.slots[i].round /\ WinnerOf(f, f.slots[k]) = p
    BY <1>1, <1>3 DEF Bracket, FromWinners, WinnerIn
  <2>2. k \in DOMAIN e.slots
    BY <1>1, <1>4, <1>5, <2>1
  <2> QED BY <1>1, <1>6, <2>1, <2>2 DEF WinnerIn
<1>9. Len(rows) = 1 => WinnersGoOn(e)
  BY <1>1, <1>3, <1>6, BracketSame
<1>10. Len(rows) # 1 => Bracket(g) /\ WinnersGoOn(g)
  <2>1. Len(rows) # 1 => \A s : WinnerOf(g, s) = WinnerOf(f, s)
    BY <1>1 DEF WinnerOf
  <2> QED BY <1>1, <1>3, <2>1, BracketSame
<1> QED BY <1>7, <1>8, <1>9, <1>10 DEF Bracket, DrawsOn, g

(* A drawing that nobody disturbed.                                        *)
LEMMA DrawsOnStays ==
  ASSUME NEW d, Books(d), NEW e, Books(e), Grows(d, e), e.slots = d.slots, NEW rows \in Seq(NewRows), DrawsOn(d, rows)
  PROVE  DrawsOn(e, rows)
<1> DEFINE f == Drawn(d, rows)
           g == Drawn(e, rows)
<1>1. g.slots = f.slots
  <2>1. g.slots = e.slots \o rows
    BY DrawnIs
  <2>2. f.slots = d.slots \o rows
    BY DrawnIs
  <2> QED BY <2>1, <2>2
<1>2. ASSUME NEW i \in DOMAIN f.slots PROVE WinnerOf(g, f.slots[i]) = WinnerOf(f, f.slots[i])
  <2>1. \A s : WinnerOf(f, s) = WinnerOf(d, s) /\ WinnerOf(g, s) = WinnerOf(e, s)
    <3>1. f.matches = d.matches
      BY DrawnIs
    <3>2. g.matches = e.matches
      BY DrawnIs
    <3> QED BY <3>1, <3>2 DEF WinnerOf
  <2>2. \/ i \in DOMAIN d.slots /\ f.slots[i] = d.slots[i]
        \/ \E k \in DOMAIN rows : f.slots[i] = rows[k]
    <3>1. d.slots \in Seq(Slot) /\ DOMAIN d.slots = 1..Len(d.slots) /\ DOMAIN rows = 1..Len(rows)
      BY DbIs
    <3>2. /\ \A k \in 1..Len(d.slots) : f.slots[k] = d.slots[k]
          /\ \A k \in DOMAIN f.slots : k \notin 1..Len(d.slots) =>
                k - Len(d.slots) \in 1..Len(rows) /\ f.slots[k] = rows[k - Len(d.slots)]
      BY DrawnIs
    <3> HIDE DEF f
    <3>3. CASE i \in 1..Len(d.slots)
      BY <3>1, <3>2, <3>3
    <3>4. CASE i \notin 1..Len(d.slots)
      <4>1. i - Len(d.slots) \in DOMAIN rows /\ f.slots[i] = rows[i - Len(d.slots)]
        BY <3>1, <3>2, <3>4
      <4> QED BY <4>1
    <3> QED BY <3>3, <3>4
  <2>3. CASE i \in DOMAIN d.slots /\ f.slots[i] = d.slots[i]
    <3>1. WinnerOf(e, e.slots[i]) = WinnerOf(d, d.slots[i])
      BY <2>3, WinnerStays
    <3> HIDE DEF f, g
    <3> QED BY <2>1, <2>3, <3>1
  <2>4. ASSUME NEW k \in DOMAIN rows, f.slots[i] = rows[k]
        PROVE  WinnerOf(g, f.slots[i]) = WinnerOf(f, f.slots[i])
    <3>1. rows[k].match = 0
      BY DEF NewRows
    <3> HIDE DEF f, g
    <3> QED BY <2>4, <3>1 DEF WinnerOf
  <2> QED BY <2>2, <2>3, <2>4
<1> HIDE DEF f, g
<1> QED BY <1>1, <1>2, BracketSame DEF DrawsOn, f, g

-----------------------------------------------------------------------------
(* Several processes may draw at once as long as none of them has written:  *)
(* the first to write outdates what the others have read.  So a process    *)
(* that draws alone completes a round, and others are about to be torn.    *)
OthersDraw(tk, q) == \E p \in Procs \ {q} : tk[p].pc \in Drawing

Elim(d, tk) ==
    format = "single_elim" =>
        /\ Bracket(d)
        /\ WinnersGoOn(d) \/ \E p \in Procs : tk[p].pc = "draw" /\ DrawsOn(d, tk[p].rows)
        /\ \A q \in Procs : tk[q].pc = "draw" => OthersDraw(tk, q) \/ DrawsOn(d, tk[q].rows)

(* A tournament that is starting has a process that draws, and whoever      *)
(* draws a later round does it for a report.                               *)
Shared(d, tk) ==
    /\ d.status = "pending" => Len(d.slots) = 0 \/ \E p \in Procs : tk[p].pc \in Drawing
    /\ \A q \in Procs :
          /\ tk[q].pc = "activate" => d.status = "pending"
          /\ tk[q].pc = "draw" => \/ d.status = "pending" /\ tk[q].report = 0
                                  \/ d.status = "active" /\ tk[q].report # 0 /\ format = "single_elim"

(* A round robin is a beginning of the rows it is drawn from.              *)
Alike(s, t) == s.pair = t.pair /\ s.round = t.round
Circle(d) == Len(d.slots) <= Len(FirstRows) /\ \A i \in DOMAIN d.slots : Alike(d.slots[i], FirstRows[i])
AllOf(d) == Circle(d) /\ Len(d.slots) = Len(FirstRows)

Robin(d, tk) ==
    format = "round_robin" =>
        /\ Circle(d)
        /\ d.status \in {"active", "completed"} => AllOf(d)
        /\ \A q \in Procs : /\ tk[q].pc = "draw" => OthersDraw(tk, q) \/ AllOf(Drawn(d, tk[q].rows))
                            /\ tk[q].pc = "activate" => OthersDraw(tk, q) \/ AllOf(d)

Kept(d, tk) == Elim(d, tk) /\ Shared(d, tk) /\ Robin(d, tk)

LEMMA SameLength ==
  ASSUME NEW d, Books(d), NEW e, Books(e), DOMAIN e.slots = DOMAIN d.slots
  PROVE  Len(e.slots) = Len(d.slots)
<1>1. /\ Len(d.slots) \in Nat /\ DOMAIN d.slots = 1..Len(d.slots)
      /\ Len(e.slots) \in Nat /\ DOMAIN e.slots = 1..Len(e.slots)
  BY DbIs
<1> QED BY <1>1

LEMMA CircleGoesOn ==
  ASSUME NEW d, Books(d), NEW e, Books(e), Grows(d, e), DOMAIN e.slots = DOMAIN d.slots
  PROVE  /\ Circle(d) => Circle(e)
         /\ AllOf(d) => AllOf(e)
<1>1. Len(e.slots) = Len(d.slots)
  BY SameLength
<1>2. \A i \in DOMAIN d.slots : Alike(d.slots[i], FirstRows[i]) => Alike(e.slots[i], FirstRows[i])
  BY DEF Grows, Alike
<1>3. Circle(d) => Circle(e)
  BY <1>1, <1>2 DEF Circle
<1> QED BY <1>1, <1>3 DEF AllOf

LEMMA CircleSame ==
  ASSUME NEW d, NEW e, e.slots = d.slots
  PROVE  /\ Circle(d) => Circle(e)
         /\ AllOf(d) => AllOf(e)
BY DEF Circle, AllOf

(* Who draws is not disturbed, and everybody else does something else.      *)
LEMMA OthersRest ==
  ASSUME NEW d, Books(d), InRounds(d), NEW e, Books(e), GoesOn(d, e), NEW tk, NEW uk, Kept(d, tk),
         \A q \in Procs : tk[q].pc \in Drawing \/ uk[q].pc \in Drawing =>
            uk[q] = tk[q] /\ e.slots = d.slots /\ e.status = d.status,
         \A q \in Procs : tk[q].pc = "draw" => tk[q].rows \in Seq(NewRows)
  PROVE  Kept(e, uk)
<1>1. /\ \A q \in Procs : uk[q].pc \in Drawing => tk[q].pc \in Drawing /\ uk[q] = tk[q]
      /\ \A q \in Procs : tk[q].pc \in Drawing => uk[q] = tk[q]
      /\ \A q \in Procs : uk[q].pc \in Drawing => e.slots = d.slots /\ e.status = d.status
  OBVIOUS
<1>2. Grows(d, e) /\ DOMAIN e.slots = DOMAIN d.slots /\ StatusOn(d, e)
  BY DEF GoesOn
<1>3. \A q \in Procs : OthersDraw(tk, q) => OthersDraw(uk, q)
  BY <1>1 DEF OthersDraw
<1>4. \A q \in Procs : uk[q].pc = "draw" \/ uk[q].pc = "activate" => uk[q].pc \in Drawing
  BY DEF Drawing
<1>5. Elim(e, uk)
  <2> SUFFICES ASSUME format = "single_elim"
               PROVE  /\ Bracket(e)
                      /\ WinnersGoOn(e) \/ \E p \in Procs : uk[p].pc = "draw" /\ DrawsOn(e, uk[p].rows)
                      /\ \A q \in Procs : uk[q].pc = "draw" => OthersDraw(uk, q) \/ DrawsOn(e, uk[q].rows)
    BY DEF Elim
  <2>1. Bracket(e) /\ (WinnersGoOn(d) => WinnersGoOn(e))
    BY BracketGoesOn DEF Kept, Elim
  <2>2. ASSUME NEW q \in Procs, tk[q].pc = "draw", DrawsOn(d, tk[q].rows)
        PROVE  uk[q].pc = "draw" /\ DrawsOn(e, uk[q].rows)
    <3>1. uk[q] = tk[q] /\ e.slots = d.slots
      BY <2>2, <1>1 DEF Drawing
    <3>2. DrawsOn(e, tk[q].rows)
      BY <1>2, <2>2, <3>1, DrawsOnStays
    <3> QED BY <2>2, <3>1, <3>2
  <2>3. WinnersGoOn(e) \/ \E p \in Procs : uk[p].pc = "draw" /\ DrawsOn(e, uk[p].rows)
    BY <2>1, <2>2 DEF Kept, Elim
  <2>4. ASSUME NEW q \in Procs, uk[q].pc = "draw" PROVE OthersDraw(uk, q) \/ DrawsOn(e, uk[q].rows)
    <3>1. tk[q].pc = "draw"
      BY <1>1, <1>4, <2>4
    <3> QED BY <1>3, <2>2, <3>1 DEF Kept, Elim
  <2> QED BY <2>1, <2>3, <2>4
<1>6. Shared(e, uk)
  <2>1. ASSUME e.status = "pending" PROVE Len(e.slots) = 0 \/ \E p \in Procs : uk[p].pc \in Drawing
    <3>1. d.status = "pending"
      BY <1>2, <2>1 DEF StatusOn
    <3>2. Len(e.slots) = Len(d.slots)
      BY <1>2, SameLength
    <3> QED BY <1>1, <3>1, <3>2 DEF Kept, Shared
  <2>2. ASSUME NEW q \in Procs
        PROVE  /\ uk[q].pc = "activate" => e.status = "pending"
               /\ uk[q].pc = "draw" => \/ e.status = "pending" /\ uk[q].report = 0
                                       \/ e.status = "active" /\ uk[q].report # 0 /\ format = "single_elim"
    BY <1>1, <1>4 DEF Kept, Shared
  <2> QED BY <2>1, <2>2 DEF Shared
<1>7. Robin(e, uk)
  <2> SUFFICES ASSUME format = "round_robin"
               PROVE  /\ Circle(e)
                      /\ e.status \in {"active", "completed"} => AllOf(e)
                      /\ \A q \in Procs : /\ uk[q].pc = "draw" => OthersDraw(uk, q) \/ AllOf(Drawn(e, uk[q].rows))
                                          /\ uk[q].pc = "activate" => OthersDraw(uk, q) \/ AllOf(e)
    BY DEF Robin
  <2>1. (Circle(d) => Circle(e)) /\ (AllOf(d) => AllOf(e))
    BY <1>2, CircleGoesOn
  <2>2. e.status \in {"active", "completed"} => d.status \in {"active", "completed"}
    BY <1>2 DEF StatusOn
  <2>3. ASSUME NEW q \in Procs, uk[q].pc = "draw" PROVE OthersDraw(uk, q) \/ AllOf(Drawn(e, uk[q].rows))
    <3>1. tk[q].pc = "draw" /\ uk[q] = tk[q] /\ e.slots = d.slots /\ tk[q].rows \in Seq(NewRows)
      BY <1>1, <1>4, <2>3
    <3>2. Drawn(e, tk[q].rows).slots = Drawn(d, tk[q].rows).slots
      <4>1. Drawn(e, tk[q].rows).slots = e.slots \o tk[q].rows
        BY <3>1, DrawnIs
      <4>2. Drawn(d, tk[q].rows).slots = d.slots \o tk[q].rows
        BY <3>1, DrawnIs
      <4> QED BY <3>1, <4>1, <4>2
    <3>3. AllOf(Drawn(d, tk[q].rows)) => AllOf(Drawn(e, tk[q].rows))
      BY <3>2, CircleSame
    <3> QED BY <1>3, <3>1, <3>3 DEF Kept, Robin
  <2>4. ASSUME NEW q \in Procs, uk[q].pc = "activate" PROVE OthersDraw(uk, q) \/ AllOf(e)
    BY <1>1, <1>3, <1>4, <2>1, <2>4 DEF Kept, Robin
  <2> QED BY <2>1, <2>2, <2>3, <2>4 DEF Kept, Robin
<1> QED BY <1>5, <1>6, <1>7 DEF Kept

(* The first rows, drawn where there is none.                              *)
LEMMA FirstDrawn ==
  ASSUME event \in Events, NEW d, Books(d), Len(d.slots) = 0
  PROVE  /\ format = "single_elim" => DrawsOn(d, FirstRows)
         /\ format = "round_robin" => AllOf(Drawn(d, FirstRows))
<1> DEFINE rows == FirstRows
           e == Drawn(d, rows)
<1>1. rows \in Seq(NewRows) /\ Len(rows) >= 1
  BY FirstRowsAre
<1>2. /\ DOMAIN rows = 1..Len(rows) /\ Len(rows) \in Nat /\ DOMAIN e.slots = 1..Len(rows)
      /\ \A i \in DOMAIN e.slots : e.slots[i] = rows[i]
  <2>1. /\ DOMAIN rows = 1..Len(rows) /\ Len(rows) \in Nat
        /\ DOMAIN e.slots = 1..(0 + Len(rows))
        /\ \A k \in 1..Len(rows) : e.slots[0 + k] = rows[k]
    BY <1>1, DrawnIs
  <2> HIDE DEF e, rows
  <2> QED BY <2>1
<1>3. e.slots \in Seq(Slot) /\ Len(e.slots) = Len(rows)
  <2>1. d.slots \in Seq(Slot) /\ rows \in Seq(Slot)
    <3>1. NewRows \subseteq Slot
      BY DEF NewRows
    <3>2. d.slots \in Seq(Slot)
      BY DbIs
    <3> HIDE DEF rows
    <3> QED BY <1>1, <3>1, <3>2
  <2>2. e.slots = d.slots \o rows
    BY <1>1, DrawnIs
  <2> HIDE DEF e, rows
  <2>3. e.slots \in Seq(Slot) /\ Len(e.slots) = Len(d.slots) + Len(rows)
    BY <2>1, <2>2, Joined
  <2> QED BY <1>2, <2>3
<1>4. ASSUME format = "single_elim" PROVE Bracket(e) /\ WinnersGoOn(e)
  <2>1. /\ \A j \in DOMAIN rows : rows[j].round = 1
        /\ \A j, k \in DOMAIN rows : j # k => rows[j].pair \cap rows[k].pair = {}
    <3>1. /\ roster \in Seq(Players) /\ Len(roster) >= 2 /\ IsInjective(roster) /\ 1 \in Nat \ {0}
      BY PlayersCount
    <3>2. rows = SingleElim(roster, 1)
      BY <1>4 DEF FirstRows
    <3>3. LET seats == SingleElim(roster, 1)
          IN  /\ \A j \in DOMAIN seats : seats[j].round = 1
              /\ \A j, k \in DOMAIN seats : j # k => seats[j].pair \cap seats[k].pair = {}
      BY <3>1, SingleElimSeats
    <3> HIDE DEF rows
    <3> QED BY <3>2, <3>3
  <2> HIDE DEF e, rows
  <2>2. \A i \in DOMAIN e.slots : e.slots[i].round = 1
    BY <1>2, <2>1
  <2>3. InOnePlace(e)
    BY <1>2, <2>1 DEF InOnePlace
  <2>4. FromWinners(e) /\ WinnersGoOn(e)
    BY <2>2 DEF FromWinners, WinnersGoOn
  <2> QED BY <2>3, <2>4 DEF Bracket
<1>5. AllOf(e)
  <2> HIDE DEF e
  <2>1. \A i \in DOMAIN e.slots : Alike(e.slots[i], rows[i])
    BY <1>2 DEF Alike
  <2> QED BY <1>2, <1>3, <2>1 DEF AllOf, Circle
<1> QED BY <1>4, <1>5 DEF DrawsOn

(* Another process begins to draw, while what was drawn stays.             *)
LEMMA OneMoreDraws ==
  ASSUME NEW d, NEW tk, Kept(d, tk), NEW uk, NEW p \in Procs, Others(tk, uk, p),
         tk[p].pc \notin Drawing, uk[p].pc = "draw",
         \/ d.status = "pending" /\ uk[p].report = 0
         \/ d.status = "active" /\ uk[p].report # 0 /\ format = "single_elim",
         (\A q \in Procs : tk[q].pc \notin Drawing) =>
            /\ format = "single_elim" => DrawsOn(d, uk[p].rows)
            /\ format = "round_robin" => AllOf(Drawn(d, uk[p].rows))
  PROVE  Kept(d, uk)
<1>1. \A q \in Procs : q # p => uk[q] = tk[q] /\ OthersDraw(uk, q)
  BY DEF Others, OthersDraw, Drawing
<1>2. OthersDraw(uk, p) \/ \A q \in Procs : tk[q].pc \notin Drawing
  BY <1>1 DEF OthersDraw
<1>3. uk[p].pc \in Drawing /\ uk[p].pc # "activate" /\ tk[p].pc # "draw" /\ tk[p].pc # "activate"
  BY DEF Drawing
<1>4. Elim(d, uk)
  <2>1. format = "single_elim" => WinnersGoOn(d) \/ \E q \in Procs : uk[q].pc = "draw" /\ DrawsOn(d, uk[q].rows)
    <3>1. \A q \in Procs : tk[q].pc = "draw" => uk[q] = tk[q]
      BY <1>1, <1>3
    <3> QED BY <3>1 DEF Kept, Elim
  <2>2. format = "single_elim" => \A q \in Procs : uk[q].pc = "draw" => OthersDraw(uk, q) \/ DrawsOn(d, uk[q].rows)
    BY <1>1, <1>2
  <2> QED BY <2>1, <2>2 DEF Kept, Elim
<1>5. Shared(d, uk)
  <2>1. \E q \in Procs : uk[q].pc \in Drawing
    BY <1>3
  <2>2. \A q \in Procs : q = p \/ uk[q] = tk[q]
    BY <1>1
  <2> QED BY <1>3, <2>1, <2>2 DEF Kept, Shared
<1>6. Robin(d, uk)
  BY <1>1, <1>2, <1>3 DEF Kept, Robin
<1> QED BY <1>4, <1>5, <1>6 DEF Kept

LEMMA StartKept ==
  ASSUME Whole, Kept(db, task), NEW p \in Procs, Start(p)
  PROVE  Kept(db', task')
<1> DEFINE rows == FirstRows
           v == [Idle EXCEPT !.pc = "draw"]
<1>1. /\ Moved(p) /\ db' = db /\ db.status = "pending" /\ task[p].pc = "idle"
      /\ task'[p] = [v EXCEPT !.rows = rows] /\ event \in Events /\ Books(db)
  BY StartFits, TaskOf
<1>2. (format = "single_elim" /\ Len(db.slots) = 0 => DrawsOn(db, rows))
      /\ (format = "round_robin" /\ Len(db.slots) = 0 => AllOf(Drawn(db, rows)))
  BY <1>1, FirstDrawn
<1> HIDE DEF rows
<1>3. task'[p].pc = "draw" /\ task'[p].rows = rows /\ task'[p].report = 0
  BY <1>1 DEF Idle
<1>4. Others(task, task', p) /\ task[p].pc \notin Drawing
  BY <1>1, MovedTo DEF Drawing
<1>5. (\A q \in Procs : task[q].pc \notin Drawing) => Len(db.slots) = 0
  BY <1>1 DEF Kept, Shared
<1>6. Kept(db, task')
  BY <1>1, <1>2, <1>3, <1>4, <1>5, OneMoreDraws
<1> QED BY <1>1, <1>6

(* The last pairing of a round was played, and its winners are read.        *)
LEMMA SurveyKept ==
  ASSUME Whole, Agree(db, task), InOrder(db), Kept(db, task), NEW p \in Procs, Others(task, task', p),
         Surveyed(db, task[p], task'[p])
  PROVE  Kept(db, task')
<1> DEFINE t == task[p]
           u == task'[p]
           i == t.slot
<1>1. Books(db) /\ event \in Events /\ InRounds(db) /\ t.pc = "survey" /\ i \in DOMAIN db.slots
      /\ Follow(db, i).pc = "draw" /\ u.pc = "draw" /\ u.rows = Follow(db, i).rows /\ u.report = t.report
  BY TaskOf DEF Surveyed, InOrder
<1>2. t.report # 0
  BY <1>1, TaskOf DEF Carrying
<1>3. db.status = "active" /\ format = "single_elim"
  BY <1>1, FollowPlayed
<1>4. Played(db)
  BY DEF Agree, SlotAgrees, Played
<1>5. ASSUME \A q \in Procs : task[q].pc \notin Drawing PROVE DrawsOn(db, u.rows)
  <2>1. WinnersGoOn(db) /\ Bracket(db)
    BY <1>3, <1>5 DEF Kept, Elim, Drawing
  <2>2. Bracket(Drawn(db, Follow(db, i).rows)) /\ WinnersGoOn(Drawn(db, Follow(db, i).rows))
    BY <1>1, <1>4, <2>1, FollowDraws
  <2> QED BY <1>1, <2>2 DEF DrawsOn
<1>6. t.pc \notin Drawing /\ u.report # 0
  BY <1>1, <1>2 DEF Drawing
<1> HIDE DEF t, u
<1>7. t = task[p] /\ u = task'[p]
  BY DEF t, u
<1> QED BY <1>1, <1>3, <1>5, <1>6, <1>7, OneMoreDraws

(* Whoever writes pairings draws alone from then on.                       *)
LEMMA WriterIsAlone ==
  ASSUME Watch, ~torn', <<db'.status, db'.slots>> # <<db.status, db.slots>>,
         NEW q \in Procs, task'[q] = task[q]
  PROVE  task[q].pc \notin Drawing
BY DEF Watch, Overtaken, Drawing

LEMMA InsertPairingKept ==
  ASSUME Whole, Kept(db, task), CallsKnow(db, task), Watch, ~torn', NEW p \in Procs, InsertPairing(p)
  PROVE  Kept(db', task')
<1> DEFINE t == task[p]
           u == task'[p]
           rows == t.rows
<1>1. /\ Books(db) /\ Books(db') /\ event \in Events /\ Others(task, task', p) /\ t \in Task
      /\ db'.slots = Append(db.slots, Head(rows)) /\ db'.matches = db.matches /\ db'.status = db.status
      /\ t.pc = "draw" /\ rows \in Seq(NewRows) /\ Len(rows) >= 1
  <2>1. t.pc = "draw"
    BY DEF InsertPairing, At
  <2> QED BY <2>1, InsertPairingFits, MovedTo, TaskOf DEF Moved, TaskFits
<1>2. u.rows = Tail(rows) /\ u.report = t.report
      /\ u.pc = IF Len(rows) # 1 THEN "draw" ELSE IF t.report = 0 THEN "activate" ELSE "score"
  <2> DEFINE pc == IF Len(rows) # 1 THEN "draw" ELSE IF t.report = 0 THEN "activate" ELSE "score"
             v == [t EXCEPT !.rows = Tail(t.rows), !.pc = pc]
  <2>1. task' = [task EXCEPT ![p] = v]
    BY DEF InsertPairing, Goto
  <2>2. u = v
    BY <2>1 DEF Whole
  <2> HIDE DEF t
  <2>3. v.pc = pc /\ v.rows = Tail(t.rows) /\ v.report = t.report
    BY <1>1 DEF Task
  <2> QED BY <2>2, <2>3
<1>3. db'.slots # db.slots
  <2>1. db.slots \in Seq(Slot) /\ Head(rows) \in Slot
    <3>1. NewRows \subseteq Slot /\ Head(rows) \in NewRows
      BY <1>1, InsertPairingFits DEF NewRows
    <3> QED BY <1>1, <3>1, DbIs
  <2>2. Len(db'.slots) = Len(db.slots) + 1 /\ Len(db.slots) \in Nat
    <3> HIDE DEF rows
    <3> QED BY <1>1, <2>1
  <2> QED BY <2>2
<1>4. \A q \in Procs : q # p => task'[q] = task[q] /\ task[q].pc \notin Drawing
  BY <1>1, <1>3, WriterIsAlone DEF Others
<1>5. /\ \A q \in Procs : task[q].pc \in Drawing => q = p
      /\ \A q \in Procs : task'[q].pc \in Drawing => q = p
      /\ ~OthersDraw(task, p)
  BY <1>4 DEF OthersDraw
<1>6. \A q \in Procs : task'[q].pc \in {"draw", "activate"} => q = p
  BY <1>5 DEF Drawing
<1> HIDE DEF t, u, rows
<1>7. t.pc = "draw" /\ task[p].pc = "draw" /\ task[p].rows = rows /\ task[p] = t /\ task'[p] = u
  BY <1>1 DEF t, u, rows
<1>8. Elim(db', task')
  <2> SUFFICES ASSUME format = "single_elim"
               PROVE  /\ Bracket(db')
                      /\ WinnersGoOn(db') \/ \E q \in Procs : task'[q].pc = "draw" /\ DrawsOn(db', task'[q].rows)
                      /\ \A q \in Procs : task'[q].pc = "draw" => OthersDraw(task', q) \/ DrawsOn(db', task'[q].rows)
    BY DEF Elim
  <2>1. DrawsOn(db, rows) /\ RowsFollow(db, rows)
    BY <1>5, <1>7 DEF Kept, Elim, CallsKnow, CallKnows
  <2>2. /\ Bracket(db')
        /\ Len(rows) = 1 => WinnersGoOn(db')
        /\ Len(rows) # 1 => DrawsOn(db', Tail(rows))
    BY <1>1, <2>1, BracketWritten
  <2>3. CASE Len(rows) = 1
    <3>1. u.pc # "draw"
      BY <1>2, <2>3
    <3> QED BY <1>6, <1>7, <2>2, <2>3, <3>1
  <2>4. CASE Len(rows) # 1
    <3>1. u.pc = "draw" /\ u.rows = Tail(rows)
      BY <1>2, <2>4
    <3> QED BY <1>6, <1>7, <2>2, <2>4, <3>1
  <2> QED BY <2>3, <2>4
<1>9. \/ db.status = "pending" /\ t.report = 0
      \/ db.status = "active" /\ t.report # 0 /\ format = "single_elim"
  BY <1>7 DEF Kept, Shared
<1>10. Shared(db', task')
  <2>1. ASSUME db'.status = "pending" PROVE \E q \in Procs : task'[q].pc \in Drawing
    <3>1. t.report = 0
      BY <1>1, <1>9, <2>1
    <3>2. u.pc \in Drawing
      BY <1>2, <3>1 DEF Drawing
    <3> QED BY <1>7, <3>2
  <2>2. u.pc = "activate" => db'.status = "pending"
    BY <1>1, <1>2, <1>9
  <2>3. u.pc = "draw" => \/ db'.status = "pending" /\ u.report = 0
                         \/ db'.status = "active" /\ u.report # 0 /\ format = "single_elim"
    BY <1>1, <1>2, <1>9
  <2> QED BY <1>6, <1>7, <2>1, <2>2, <2>3 DEF Shared
<1>11. Robin(db', task')
  <2> SUFFICES ASSUME format = "round_robin"
               PROVE  /\ Circle(db')
                      /\ db'.status \in {"active", "completed"} => AllOf(db')
                      /\ \A q \in Procs :
                            /\ task'[q].pc = "draw" => OthersDraw(task', q) \/ AllOf(Drawn(db', task'[q].rows))
                            /\ task'[q].pc = "activate" => OthersDraw(task', q) \/ AllOf(db')
    BY DEF Robin
  <2> DEFINE f == Drawn(db, rows)
             g == Drawn(db', Tail(rows))
  <2>1. AllOf(f)
    BY <1>5, <1>7 DEF Kept, Robin
  <2>2. /\ Len(rows) = 1 => db'.slots = f.slots
        /\ Len(rows) # 1 => g.slots = f.slots
        /\ Len(db'.slots) <= Len(f.slots)
        /\ \A i \in DOMAIN db'.slots : i \in DOMAIN f.slots /\ db'.slots[i] = f.slots[i]
    BY <1>1, RowWritten
  <2> HIDE DEF f, g
  <2>3. Circle(db')
    BY <2>1, <2>2 DEF AllOf, Circle
  <2>4. db'.status = "pending"
    BY <1>1, <1>9
  <2>5. u.pc = "draw" => AllOf(Drawn(db', u.rows))
    <3>1. u.pc = "draw" => Len(rows) # 1 /\ u.rows = Tail(rows)
      BY <1>2
    <3> QED BY <2>1, <2>2, <3>1, CircleSame DEF g
  <2>6. u.pc = "activate" => AllOf(db')
    <3>1. u.pc = "activate" => Len(rows) = 1
      BY <1>2
    <3> QED BY <2>1, <2>2, <3>1, CircleSame
  <2>7. ASSUME NEW q \in Procs
        PROVE  /\ task'[q].pc = "draw" => AllOf(Drawn(db', task'[q].rows))
               /\ task'[q].pc = "activate" => AllOf(db')
    BY <1>6, <1>7, <2>5, <2>6
  <2> QED BY <2>3, <2>4, <2>7
<1> QED BY <1>8, <1>10, <1>11 DEF Kept

LEMMA ActivateKept ==
  ASSUME Whole, Kept(db, task), Watch, ~torn', NEW p \in Procs, Activate(p)
  PROVE  Kept(db', task')
<1> DEFINE st == "active"
<1>1. /\ Moved(p) /\ db' = [db EXCEPT !.status = st] /\ task'[p] = Idle /\ task[p].pc = "activate" /\ Books(db)
      /\ st \in {"pending", "active", "completed", "cancelled"}
  BY ActivateFits, TaskOf DEF Activate, At
<1> HIDE DEF st
<1>2. db'.slots = db.slots /\ db'.matches = db.matches /\ db'.status = st
  BY <1>1, StatusSet
<1>3. db.status = "pending"
  BY <1>1 DEF Kept, Shared
<1>4. ASSUME NEW q \in Procs, q # p PROVE task'[q] = task[q] /\ task[q].pc \notin Drawing
  <2>1. task'[q] = task[q]
    BY <1>1, <1>4, MovedTo DEF Others
  <2>2. db'.status # db.status
    BY <1>2, <1>3 DEF st
  <2> QED BY <2>1, <2>2, WriterIsAlone
<1>5. ASSUME NEW q \in Procs PROVE task'[q].pc \notin Drawing
  <2>1. Idle.pc \notin Drawing
    BY DEF Idle, Drawing
  <2> QED BY <1>1, <1>4, <2>1
<1>6. \A q \in Procs : task'[q].pc # "draw" /\ task'[q].pc # "activate"
  BY <1>5 DEF Drawing
<1>7. Elim(db', task')
  <2> SUFFICES ASSUME format = "single_elim" PROVE Bracket(db') /\ WinnersGoOn(db')
    BY <1>6 DEF Elim
  <2>1. \A q \in Procs : task[q].pc # "draw"
    BY <1>1, <1>4 DEF Drawing
  <2>2. Bracket(db) /\ WinnersGoOn(db)
    BY <2>1 DEF Kept, Elim
  <2>3. \A s : WinnerOf(db', s) = WinnerOf(db, s)
    BY <1>2 DEF WinnerOf
  <2> QED BY <1>2, <2>2, <2>3, BracketSame
<1>8. Shared(db', task')
  BY <1>2, <1>6 DEF Shared, st
<1>9. Robin(db', task')
  <2> SUFFICES ASSUME format = "round_robin" PROVE Circle(db') /\ AllOf(db')
    BY <1>6 DEF Robin
  <2>1. ~OthersDraw(task, p)
    BY <1>4 DEF OthersDraw
  <2>2. AllOf(db)
    BY <1>1, <2>1 DEF Kept, Robin
  <2> QED BY <1>2, <2>2, CircleSame DEF AllOf
<1> QED BY <1>7, <1>8, <1>9 DEF Kept

(* A result that is recorded in one transaction draws the next round in it. *)
LEMMA DrawsKept ==
  ASSUME Whole, InOrder(db), Kept(db, task), Watch, ~torn', task' = task, Books(db'), Draws(db, db')
  PROVE  Kept(db', task')
<1>1. PICK c, i : DrawsAfter(db, c, db', i)
  BY DEF Draws
<1>2. /\ Books(c) /\ InRounds(c) /\ Played(c) /\ GoesOn(db, c) /\ i \in DOMAIN c.slots
      /\ format = "single_elim" /\ c.status = "active" /\ Follow(c, i).pc = "draw"
      /\ db'.slots = Drawn(c, Follow(c, i).rows).slots /\ db'.matches = c.matches /\ db'.status = c.status
  BY <1>1 DEF DrawsAfter
<1>3. Books(db) /\ event \in Events /\ InRounds(db)
  BY DEF Whole, InOrder
<1> DEFINE rows == Follow(c, i).rows
           f == Drawn(c, rows)
<1>4. rows \in Seq(NewRows) /\ Len(rows) >= 1
  BY <1>2, <1>3, FollowIs DEF Score, Close
<1>5. db'.slots # db.slots
  <2>1. /\ DOMAIN f.slots = 1..(Len(c.slots) + Len(rows)) /\ Len(rows) \in Nat /\ Len(c.slots) \in Nat
        /\ DOMAIN c.slots = 1..Len(c.slots)
    BY <1>2, <1>4, DrawnIs
  <2> HIDE DEF f, rows
  <2>2. DOMAIN f.slots # DOMAIN c.slots
    <3>1. Len(c.slots) + Len(rows) \in DOMAIN f.slots
      BY <1>4, <2>1
    <3>2. Len(c.slots) + Len(rows) \notin DOMAIN c.slots
      BY <1>4, <2>1
    <3> QED BY <3>1, <3>2
  <2>3. DOMAIN c.slots = DOMAIN db.slots /\ db'.slots = f.slots
    BY <1>2 DEF GoesOn, f, rows
  <2> QED BY <2>2, <2>3
<1>6. \A q \in Procs : task'[q].pc \notin Drawing /\ task[q].pc \notin Drawing
  BY <1>5, WriterIsAlone
<1>7. \A q \in Procs : task[q].pc # "draw" /\ task'[q].pc # "draw" /\ task'[q].pc # "activate"
  BY <1>6 DEF Drawing
<1>8. Bracket(c) /\ WinnersGoOn(c)
  <2>1. Bracket(db) /\ WinnersGoOn(db)
    BY <1>2, <1>7 DEF Kept, Elim
  <2> QED BY <1>2, <1>3, <2>1, BracketGoesOn
<1>9. Bracket(f) /\ WinnersGoOn(f)
  BY <1>2, <1>3, <1>8, FollowDraws
<1>10. Bracket(db') /\ WinnersGoOn(db')
  <2>1. f.matches = c.matches
    BY <1>2, <1>4, DrawnIs
  <2> HIDE DEF f
  <2>2. \A s : WinnerOf(db', s) = WinnerOf(f, s)
    BY <1>2, <2>1 DEF WinnerOf
  <2>3. db'.slots = f.slots
    BY <1>2 DEF f
  <2> QED BY <1>9, <2>2, <2>3, BracketSame
<1>11. format # "round_robin"
  BY <1>2
<1> QED BY <1>2, <1>7, <1>10, <1>11 DEF Kept, Elim, Shared, Robin

LEMMA StepKept ==
  ASSUME Whole, torn \/ Agree(db, task), torn \/ (InOrder(db) /\ CallsKnow(db, task)), torn \/ Kept(db, task),
         [Next]_vars
  PROVE  torn' \/ Kept(db', task')
<1> SUFFICES ASSUME ~torn' PROVE Kept(db', task')
  OBVIOUS
<1>0. ~torn /\ task \in [Procs -> Task] /\ Frontends \subseteq Procs /\ Worker \in Procs /\ Books(db) /\ event \in Events
  BY DEF Next, Watch, vars, Whole, Procs
<1>1. /\ Agree(db, task) /\ InOrder(db) /\ CallsKnow(db, task) /\ Kept(db, task) /\ InRounds(db)
      /\ \A q \in Procs : task[q].pc = "draw" => task[q].rows \in Seq(NewRows)
  BY <1>0 DEF InOrder, Whole, TaskFits
<1>2. GoesOn(db, db)
  BY <1>0, NothingChanges DEF GoesOn, StatusOn
<1>3. ASSUME NEW p \in Procs, Moved(p), db' = db, task[p].pc \notin Drawing, task'[p].pc \notin Drawing
      PROVE  Kept(db', task')
  <2>1. \A q \in Procs : q # p => task'[q] = task[q]
    BY <1>3, MovedTo DEF Others
  <2>2. \A q \in Procs : task[q].pc \in Drawing \/ task'[q].pc \in Drawing => task'[q] = task[q]
    BY <1>3, <2>1
  <2>3. Kept(db, task')
    BY <1>0, <1>1, <1>2, <2>2, OthersRest
  <2> QED BY <1>3, <2>3
<1>4. ASSUME Watch, Books(db'), GoesOn(db, db'),
             \A q \in Procs : task[q].pc \in Drawing \/ task'[q].pc \in Drawing => task'[q] = task[q]
      PROVE  Kept(db', task')
  <2>1. \A q \in Procs : task[q].pc \in Drawing \/ task'[q].pc \in Drawing =>
           task'[q] = task[q] /\ db'.slots = db.slots /\ db'.status = db.status
    BY <1>4, WriterIsAlone
  <2> QED BY <1>0, <1>1, <1>4, <2>1, OthersRest
<1>5. ASSUME NEW p \in Procs, Start(p) PROVE Kept(db', task')
  BY <1>1, <1>5, StartKept
<1>6. ASSUME NEW p \in Procs, NEW m \in DOMAIN db.matches, NEW v \in {"approve", "deny"}, ReadReport(p, m, v)
      PROVE  Kept(db', task')
  <2>1. /\ db.matches[m].status = "pending" /\ task[p].pc = "idle" /\ db' = db /\ event' = event
        /\ Goto(p, [Idle EXCEPT !.pc = v, !.report = m])
    BY <1>6 DEF ReadReport, OnlyTask, Fixed, At
  <2>2. Moved(p) /\ task'[p] = [Idle EXCEPT !.pc = v, !.report = m]
    BY <1>6, <2>1, ReportRead
  <2>3. task'[p].pc = v
    BY <2>2 DEF Idle
  <2>4. task[p].pc \notin Drawing /\ task'[p].pc \notin Drawing
    BY <2>1, <2>3 DEF Drawing
  <2> QED BY <1>3, <2>1, <2>2, <2>4
<1>7. ASSUME ReadOverdue PROVE Kept(db', task')
  <2>1. Moved(Worker) /\ db' = db /\ task[Worker].pc = "idle"
    BY <1>7, ReadOverdueFits
  <2>2. task'[Worker].pc \in {"idle", "approve"}
    <3>1. CASE task'[Worker] = Idle
      BY <3>1 DEF Idle
    <3>2. ASSUME NEW m \in DOMAIN db.matches, task'[Worker] = [Idle EXCEPT !.pc = "approve", !.report = m]
          PROVE  task'[Worker].pc = "approve"
      BY <3>2 DEF Idle
    <3> QED BY <1>7, <3>1, <3>2, ReadOverdueFits
  <2>3. task[Worker].pc \notin Drawing /\ task'[Worker].pc \notin Drawing
    BY <2>1, <2>2 DEF Drawing
  <2> QED BY <1>0, <1>3, <2>1, <2>3
<1>8. ASSUME NEW late \in SUBSET DOMAIN db.matches, Tick(late) PROVE Kept(db', task')
  BY <1>1, <1>8 DEF Tick
<1>9. ASSUME NEW p \in Procs, Statement(p), Watch PROVE Kept(db', task')
  <2>1. Moved(p) /\ Others(task, task', p) /\ CallKnows(db, task[p])
    BY <1>1, <1>9, StatementMoves, MovedTo DEF CallsKnow
  <2>2. CASE InsertPairing(p)
    BY <1>1, <1>9, <2>2, InsertPairingKept
  <2>3. CASE Activate(p)
    BY <1>1, <1>9, <2>3, ActivateKept
  <2>4. CASE GoesOn(db, db') /\ task[p].pc \notin Drawing /\ task'[p].pc \notin Drawing
    <3>1. \A q \in Procs : task[q].pc \in Drawing \/ task'[q].pc \in Drawing => task'[q] = task[q]
      BY <2>1, <2>4 DEF Others
    <3>2. Books(db')
      BY <2>1 DEF Moved
    <3> QED BY <1>4, <1>9, <2>4, <3>1, <3>2
  <2>5. CASE db' = db /\ Surveyed(db, task[p], task'[p])
    <3>1. Kept(db, task')
      BY <1>1, <2>1, <2>5, SurveyKept
    <3> QED BY <2>5, <3>1
  <2> QED BY <1>1, <1>9, <2>1, <2>2, <2>3, <2>4, <2>5, StatementGoes
<1>10. ASSUME Transaction, Watch PROVE Kept(db', task')
  <2>1. task' = task /\ Books(db')
    BY <1>10, TransactionMoves
  <2>2. CASE GoesOn(db, db')
    BY <1>4, <1>10, <2>1, <2>2
  <2>3. CASE Draws(db, db')
    BY <1>1, <1>10, <2>1, <2>3, DrawsKept
  <2> QED BY <1>1, <1>10, <2>2, <2>3, TransactionGoes
<1>11. ASSUME NEW p \in Procs, Crash(p), torn' = (torn \/ task[p].pc \notin {"approve", "deny"})
       PROVE  Kept(db', task')
  <2>1. Moved(p) /\ db' = db /\ task'[p] = Idle
    BY <1>11, CrashFits
  <2>2. task[p].pc \notin Drawing /\ task'[p].pc \notin Drawing
    <3>1. task'[p].pc = "idle"
      BY <2>1 DEF Idle
    <3>2. task[p].pc \in {"approve", "deny"}
      BY <1>11
    <3> QED BY <3>1, <3>2 DEF Drawing
  <2> QED BY <1>3, <2>1, <2>2
<1>12. CASE UNCHANGED vars
  BY <1>1, <1>12 DEF vars
<1> QED BY <1>0, <1>5, <1>6, <1>7, <1>8, <1>9, <1>10, <1>11, <1>12 DEF Next

LEMMA SameKept ==
  ASSUME event' = event, Kept(db', task')
  PROVE  Kept(db, task)'
<1>1. format' = format /\ Procs' = Procs /\ FirstRows' = FirstRows
  <2>1. format' = format /\ roster' = roster
    BY DEF format, roster
  <2> QED BY <2>1 DEF Procs, FirstRows
<1>2. Elim(db, task)'
  BY <1>1 DEF Kept, Elim, Bracket, InOnePlace, FromWinners, WinnerIn, WinnersGoOn, PlaysIn, DrawsOn, OthersDraw
<1>3. Shared(db, task)'
  BY <1>1 DEF Kept, Shared
<1>4. Robin(db, task)'
  BY <1>1 DEF Kept, Robin, OthersDraw, Circle, AllOf
<1> QED BY <1>2, <1>3, <1>4 DEF Kept

LEMMA AlwaysKept == Spec => [](torn \/ Kept(db, task))
<1>1. Init => torn \/ Kept(db, task)
  <2> SUFFICES ASSUME Init PROVE Kept(db, task)
    OBVIOUS
  <2>1. db.slots = << >> /\ db.status = "pending" /\ event \in Events /\ \A p \in Procs : task[p].pc = "idle"
    BY DEF Init, Idle
  <2>2. Elim(db, task)
    BY <2>1 DEF Elim, Bracket, InOnePlace, FromWinners, WinnersGoOn
  <2>3. Shared(db, task)
    BY <2>1 DEF Shared
  <2>4. Robin(db, task)
    <3>1. Len(FirstRows) >= 1
      BY <2>1, FirstRowsAre
    <3>2. Len(FirstRows) \in Nat
      BY <2>1, FirstRowsAre
    <3>3. Len(db.slots) = 0
      BY <2>1
    <3>4. Circle(db)
      <4> DEFINE n == Len(FirstRows)
      <4> HIDE DEF n
      <4>1. 0 <= n
        BY <3>2 DEF n
      <4> QED BY <2>1, <3>3, <4>1 DEF Circle, n
    <3> QED BY <2>1, <3>4 DEF Robin
  <2> QED BY <2>2, <2>3, <2>4 DEF Kept
<1>2. ASSUME Whole, torn \/ Agree(db, task), torn \/ (InOrder(db) /\ CallsKnow(db, task)), torn \/ Kept(db, task),
             [Next]_vars
      PROVE  (torn \/ Kept(db, task))'
  <2>1. torn' \/ Kept(db', task')
    BY <1>2, StepKept
  <2>2. event' = event
    BY <1>2, EventStays
  <2> QED BY <2>1, <2>2, SameKept
<1> QED BY <1>1, <1>2, AlwaysWhole, AlwaysAgrees, AlwaysInOrder, PTL DEF Spec

-----------------------------------------------------------------------------
(* A tournament goes on: what is drawn has something to play, and when all  *)
(* that was drawn is played, a call is about to close or to draw.          *)
SomeOpen(rows) == \E j \in DOMAIN rows : rows[j].status = "open"

LEMMA SingleElimOpen ==
  ASSUME NEW players \in Seq(Players), Len(players) >= 2, NEW round \in Nat \ {0}
  PROVE  SomeOpen(SingleElim(players, round))
<1> DEFINE n == Len(players)
           b == n % 2
           h == n \div 2
           rows == SingleElim(players, round)
<1>1. /\ b \in {0, 1} /\ h \in Nat \ {0} /\ rows \in Seq(NewRows) /\ Len(rows) = b + h
      /\ \A j \in 1..(b + h) : rows[j] = IF j <= b THEN ByeSlot(players[1], round)
                                         ELSE OpenSlot({players[j], players[n + 1 + b - j]}, round)
  BY SingleElimRow
<1> HIDE DEF rows, b, h
<1>2. b + h \in 1..(b + h) /\ ~(b + h <= b) /\ b + h \in DOMAIN rows
  BY <1>1
<1>3. rows[b + h] = OpenSlot({players[b + h], players[n + 1 + b - (b + h)]}, round)
  BY <1>1, <1>2
<1> QED BY <1>2, <1>3 DEF SomeOpen, OpenSlot, rows

LEMMA FirstRowsOpen ==
  ASSUME event \in Events
  PROVE  SomeOpen(FirstRows)
<1>1. /\ roster \in Seq(Players) /\ Len(roster) >= 2 /\ IsInjective(roster) /\ IsFiniteSet(Players)
      /\ Players \subseteq Nat \ {0} /\ format \in {"round_robin", "single_elim"}
  BY PlayersCount
<1>2. CASE format = "single_elim"
  <2>1. 1 \in Nat \ {0} /\ FirstRows = SingleElim(roster, 1)
    BY <1>2 DEF FirstRows
  <2> QED BY <1>1, <2>1, SingleElimOpen
<1>3. CASE format = "round_robin"
  <2> DEFINE p == roster[1]
             q == roster[2]
  <2>1. p # q /\ p \in ToSet(roster) /\ q \in ToSet(roster)
    <3>1. 1 \in DOMAIN roster /\ 2 \in DOMAIN roster
      BY <1>1
    <3> QED BY <1>1, <3>1 DEF IsInjective, ToSet
  <2> HIDE DEF p, q
  <2>2. \E j \in DOMAIN RoundRobin(roster) : RoundRobin(roster)[j].pair = {p, q}
    <3>1. LET rows == RoundRobin(roster)
          IN  \A x, y \in ToSet(roster) : x # y => \E j \in DOMAIN rows : rows[j].pair = {x, y}
      BY <1>1, RobinMeets
    <3> QED BY <2>1, <3>1
  <2>3. PICK j \in DOMAIN FirstRows : FirstRows[j].pair = {p, q}
    BY <1>3, <2>2 DEF FirstRows
  <2>4. FirstRows[j] \in NewRows
    BY FirstRowsAre
  <2>5. ~IsBye(FirstRows[j])
    BY <2>1, <2>3, PairOf DEF IsBye
  <2> QED BY <2>4, <2>5 DEF NewRows, SomeOpen
<1> QED BY <1>1, <1>2, <1>3

LEMMA FollowOpens ==
  ASSUME event \in Events, NEW d, Books(d), NEW i \in DOMAIN d.slots, Follow(d, i).pc = "draw"
  PROVE  SomeOpen(Follow(d, i).rows)
<1> DEFINE next == d.slots[i].round + 1
           winners == Winners(d, next - 1)
<1>1. next \in Nat \ {0}
  <2>1. d.slots[i].round \in Nat
    BY RoundsCount
  <2> QED BY <2>1
<1>2. winners \in Seq(Players) /\ Len(winners) \in Nat
  BY WinnersAre
<1> HIDE DEF winners
<1>3. ~(Len(winners) <= 1) /\ Follow(d, i).rows = SingleElim(winners, next)
  BY DEF Follow, Close, Score, winners
<1> HIDE DEF next
<1>4. Len(winners) >= 2
  BY <1>2, <1>3
<1> QED BY <1>1, <1>2, <1>3, <1>4, SingleElimOpen

LEMMA OpenDrawn ==
  ASSUME NEW d, Books(d), NEW rows \in Seq(NewRows), SomeOpen(rows)
  PROVE  ~AllPlayed(Drawn(d, rows))
<1> DEFINE e == Drawn(d, rows)
           n == Len(d.slots)
<1>1. DOMAIN rows = 1..Len(rows) /\ \A k \in 1..Len(rows) : n + k \in DOMAIN e.slots /\ e.slots[n + k] = rows[k]
  BY DrawnIs
<1> HIDE DEF e, n
<1> QED BY <1>1 DEF SomeOpen, AllPlayed, e

(* When all is played and nothing follows round r, the last call finds out. *)
LastRound(d, r) == format = "single_elim" => \A j \in DOMAIN d.slots : d.slots[j].round <= r

LEMMA FollowEnds ==
  ASSUME event \in Events, NEW d, Books(d), NEW i \in DOMAIN d.slots, d.status = "active", AllPlayed(d),
         LastRound(d, d.slots[i].round)
  PROVE  Follow(d, i).pc \in {"close", "draw"}
<1>1. RoundOver(d, i)
  BY DEF RoundOver, AllPlayed
<1>2. format = "single_elim" => \A j \in DOMAIN d.slots : d.slots[j].round # d.slots[i].round + 1
  <2>1. \A j \in DOMAIN d.slots : d.slots[j].round \in Nat
    BY RoundsCount
  <2> QED BY <2>1 DEF LastRound
<1>3. format \in {"round_robin", "single_elim"}
  BY PlayersCount
<1> QED BY <1>1, <1>2, <1>3 DEF Follow, Close, Score

(* A slot that is not played yet is in the last round.                     *)
LEMMA UnplayedIsLast ==
  ASSUME NEW d, Books(d), InRounds(d), NEW i \in DOMAIN d.slots, d.slots[i].status # "completed"
  PROVE  LastRound(d, d.slots[i].round)
<1>1. \A j \in DOMAIN d.slots : d.slots[j].round \in Nat
  BY RoundsCount
<1> QED BY <1>1 DEF LastRound, InRounds

(* A result recorded in one transaction leaves something to play, or the    *)
(* tournament is over.                                                     *)
LEMMA ConfirmedLeaves ==
  ASSUME event \in Events, NEW d, Books(d), InRounds(d), NEW i \in DOMAIN d.slots, NEW w \in d.slots[i].pair,
         NEW e \in Confirmed(d, i, w), e.status = "active"
  PROVE  ~AllPlayed(e)
<1> DEFINE n == Len(d.matches) + 1
           c == Linked(d, i, w)
           a == Advanced(c, i)
<1>1. d.slots[i].status # "completed" /\ e = Scored(a, n)
  BY DEF Confirmed, Linked, Result
<1>2. /\ c \in Db /\ c.slots = [d.slots EXCEPT ![i] = Shown(d.slots[i], n, "completed")]
      /\ c.status = d.status /\ c.places = d.places
      /\ c.matches = Append(d.matches, Result(d, i, w)) /\ c.series = d.series /\ c.awards = d.awards
      /\ Result(d, i, w) \in Match /\ d.slots[i].match = 0
  BY LinkedIs DEF Confirmed
<1> HIDE DEF c
<1>3. Books(c)
  <2> DEFINE row == Result(d, i, w)
             st == "completed"
  <2>1. row.pair = d.slots[i].pair /\ row.winner \in row.pair /\ row.status # "pending"
    BY DEF Result
  <2>2. RowAdded(d, c, i, row, st)
    <3>1. row \in Match
      BY <1>2
    <3> HIDE DEF row
    <3> QED BY <1>2, <2>1, <3>1 DEF RowAdded, row
  <2> HIDE DEF row, st
  <2> QED BY <2>2, MatchAdded
<1>4. DOMAIN c.slots = DOMAIN d.slots /\ \A j \in DOMAIN d.slots : c.slots[j].round = d.slots[j].round
  BY <1>2 DEF Shown
<1>5. LastRound(c, c.slots[i].round) /\ i \in DOMAIN c.slots
  BY <1>1, <1>4, UnplayedIsLast DEF LastRound
<1>6. Books(a) /\ \A j \in DOMAIN c.slots : j \in DOMAIN a.slots /\ a.slots[j] = c.slots[j]
  BY <1>3, <1>5, AdvancedIs
<1>7. ASSUME Follow(c, i) = Score
      PROVE  a.status = "active" => ~AllPlayed(a)
  <2>1. a = c /\ ~(Follow(c, i).pc \in {"close", "draw"})
    BY <1>7 DEF Advanced, Score
  <2> HIDE DEF a
  <2>2. a.status = "active" => ~AllPlayed(c)
    BY <1>3, <1>5, <2>1, FollowEnds
  <2> QED BY <2>1, <2>2
<1>8. ASSUME Follow(c, i) = Close
      PROVE  a.status = "active" => ~AllPlayed(a)
  <2> DEFINE st == "completed"
             f == [c EXCEPT !.status = st]
  <2>1. a = Placed(f) /\ st \in {"pending", "active", "completed", "cancelled"}
    BY <1>8 DEF Advanced, Close, Closed
  <2> HIDE DEF st
  <2>2. Books(f) /\ f.status = st
    BY <1>3, <2>1, StatusSet
  <2> HIDE DEF f, a
  <2>3. a.status = st
    BY <2>1, <2>2, PlacedIs
  <2> QED BY <2>3 DEF st
<1>9. ASSUME Follow(c, i).pc = "draw" /\ Follow(c, i).rows \in Seq(NewRows)
      PROVE  a.status = "active" => ~AllPlayed(a)
  <2> DEFINE rows == Follow(c, i).rows
  <2>1. a = Drawn(c, rows)
    BY <1>9 DEF Advanced, Drawn
  <2>2. SomeOpen(rows)
    BY <1>3, <1>5, <1>9, FollowOpens
  <2> HIDE DEF rows
  <2>3. rows \in Seq(NewRows)
    BY <1>9 DEF rows
  <2> HIDE DEF a
  <2> QED BY <1>3, <2>1, <2>2, <2>3, OpenDrawn
<1>10. a.status = "active" => ~AllPlayed(a)
  <2> HIDE DEF a
  <2>1. Follow(c, i) = Score \/ Follow(c, i) = Close
        \/ (Follow(c, i).pc = "draw" /\ Follow(c, i).rows \in Seq(NewRows))
    BY <1>3, <1>5, FollowIs
  <2> QED BY <1>7, <1>8, <1>9, <2>1
<1> HIDE DEF a, n
<1>11. e.slots = a.slots /\ e.status = a.status
  BY <1>1, <1>6, DbIs DEF Scored, Db
<1> QED BY <1>10, <1>11 DEF AllPlayed

LEMMA RecordedLeaves ==
  ASSUME event \in Events, NEW d, Books(d), InRounds(d), NEW k \in DOMAIN d.series, d.series[k].status = "completed",
         NEW e \in Recorded(d, k), e.status = "active"
  PROVE  ~AllPlayed(e)
<1>1. d.series[k].slot \in DOMAIN d.slots /\ d.series[k].winner \in d.slots[d.series[k].slot].pair
  BY SeriesOf
<1>2. PICK c \in Confirmed(d, d.series[k].slot, d.series[k].winner) : e.slots = c.slots /\ e.status = c.status
  BY RecordFits
<1>3. ~AllPlayed(c)
  BY <1>1, <1>2, ConfirmedLeaves
<1> QED BY <1>2, <1>3 DEF AllPlayed

LEMMA TransactionLeaves ==
  ASSUME Whole, InOrder(db), Transaction, db'.status = "active", AllPlayed(db')
  PROVE  db.status = "active" /\ db'.slots = db.slots
<1> DEFINE Same == db'.slots = db.slots /\ db'.status = db.status
<1>0. Books(db) /\ event \in Events /\ InRounds(db) /\ RealSlots(db) \subseteq DOMAIN db.slots
  BY DEF Whole, RealSlots, InOrder
<1>1. ASSUME NEW i \in DOMAIN db.slots, NEW w \in db.slots[i].pair, Report(i, w) PROVE FALSE
  <2>1. Reported(db, db', i)
    BY <1>1, ReportIs
  <2>2. db'.slots[i].status = "pending_approval" /\ i \in DOMAIN db'.slots
    BY <2>1 DEF Reported, Shown
  <2> QED BY <2>2 DEF AllPlayed
<1>2. ASSUME NEW i \in DOMAIN db.slots, NEW w \in db.slots[i].pair, SetResult(i, w) PROVE FALSE
  <2> DEFINE c == Cleared(db, i)
  <2>1. db.status = "active" /\ db.slots[i].status \in {"open", "pending_approval"} /\ db' \in Confirmed(c, i, w)
    BY <1>2, SetResultFits
  <2>2. Books(c) /\ InRounds(c) /\ DOMAIN c.slots = DOMAIN db.slots /\ Grows(db, c)
    BY <1>0, <2>1, ClearedOrder, ClearedIs DEF InOrder
  <2> HIDE DEF c
  <2>3. i \in DOMAIN c.slots /\ w \in c.slots[i].pair
    BY <1>2, <2>2 DEF Grows
  <2> QED BY <1>0, <2>1, <2>2, <2>3, ConfirmedLeaves
<1>3. ASSUME NEW i \in DOMAIN db.slots, Reopen(i) PROVE FALSE
  <2>1. db'.slots[i] = Shown(db.slots[i], 0, "open") /\ i \in DOMAIN db'.slots
    BY <1>3, ReopenIs DEF Reopening
  <2>2. db'.slots[i].status = "open"
    BY <2>1 DEF Shown
  <2> QED BY <2>1, <2>2 DEF AllPlayed
<1>4. ASSUME NEW i \in DOMAIN db.slots, StartSeries(i) PROVE Same
  BY <1>4, StartSeriesFits
<1>5. ASSUME NEW k \in DOMAIN db.series, db.series[k].status = "open", db' = SeriesStatus(db, k, "cancelled")
      PROVE  Same
  BY <1>5, CancelSeriesFits
<1>6. ASSUME NEW k \in DOMAIN db.series, RetryResult(k) PROVE FALSE
  BY <1>0, <1>6, RetryFits, RecordedLeaves
<1>7. ASSUME NEW k \in DOMAIN db.series, NEW w \in Players, SeriesDecided(k, w) PROVE Same
  <2> DEFINE d == Won(db, k, w)
  <2>1. /\ db.series[k].status = "open" /\ w \in db.slots[db.series[k].slot].pair
        /\ \/ db' = SeriesStatus(db, k, "cancelled")
           \/ db' \in Recorded(d, k)
           \/ db' = d
    BY <1>7, SeriesDecidedFits
  <2>2. /\ Books(d) /\ d.slots = db.slots /\ d.matches = db.matches /\ d.status = db.status /\ d.places = db.places
        /\ DOMAIN d.series = DOMAIN db.series /\ d.series[k] = Now(db.series[k], "completed", w, 0, Len(db.matches))
    BY <1>0, <2>1, WonIs
  <2> HIDE DEF d
  <2>3. InRounds(d) /\ d.series[k].status = "completed"
    BY <2>2, OrderStays DEF Now, InOrder
  <2>4. CASE db' \in Recorded(d, k)
    BY <1>0, <2>2, <2>3, <2>4, RecordedLeaves
  <2>5. CASE db' = d
    BY <2>2, <2>5
  <2> QED BY <1>5, <2>1, <2>4, <2>5
<1>8. ASSUME Cancel \/ EndAsIs PROVE FALSE
  BY <1>8, EndFits
<1> HIDE DEF Same
<1>9. CASE \E i \in RealSlots(db) : \/ \E w \in db.slots[i].pair : Report(i, w) \/ SetResult(i, w)
                                    \/ Reopen(i) \/ StartSeries(i)
  <2>1. PICK i \in RealSlots(db) : \/ \E w \in db.slots[i].pair : Report(i, w) \/ SetResult(i, w)
                                   \/ Reopen(i) \/ StartSeries(i)
    BY <1>9
  <2>2. i \in DOMAIN db.slots
    BY <1>0
  <2>3. ~\E w \in db.slots[i].pair : Report(i, w) \/ SetResult(i, w)
    BY <1>1, <1>2, <2>2
  <2>4. Same
    BY <1>3, <1>4, <2>1, <2>2, <2>3
  <2> QED BY <2>4 DEF Same
<1>10. CASE \E k \in DOMAIN db.series : \/ CancelSeries(k) \/ RetryResult(k)
                                        \/ \E w \in Players : SeriesDecided(k, w)
  <2>1. PICK k \in DOMAIN db.series : \/ CancelSeries(k) \/ RetryResult(k)
                                      \/ \E w \in Players : SeriesDecided(k, w)
    BY <1>10
  <2>2. ASSUME CancelSeries(k) PROVE Same
    <3>1. db.series[k].status = "open" /\ db' = SeriesStatus(db, k, "cancelled")
      BY <2>2 DEF CancelSeries, SeriesStatus
    <3> QED BY <1>5, <3>1
  <2>3. Same
    BY <1>6, <1>7, <2>1, <2>2
  <2> QED BY <2>3 DEF Same
<1> QED BY <1>8, <1>9, <1>10 DEF Transaction

(* A call that is about to close the tournament or draws its next round.    *)
AtEnd(d, t) == \/ t.pc \in {"close", "draw"}
               \/ t.pc = "survey" /\ LastRound(d, d.slots[t.slot].round)

EndComes(d, tk) == d.status = "active" /\ AllPlayed(d) => \E p \in Procs : AtEnd(d, tk[p])

(* Unless another one draws as well, whoever draws leaves something to play. *)
DrawsOpen(d, tk) ==
    \A q \in Procs : /\ tk[q].pc = "draw" => OthersDraw(tk, q) \/ ~AllPlayed(Drawn(d, tk[q].rows))
                     /\ tk[q].pc = "activate" => OthersDraw(tk, q) \/ ~AllPlayed(d)

GoesFurther(d, tk) == EndComes(d, tk) /\ DrawsOpen(d, tk)

LEMMA EndStays ==
  ASSUME NEW d, NEW e, NEW tk, NEW uk, NEW p \in Procs, Others(tk, uk, p), EndComes(d, tk),
         d.status = "active", AllPlayed(d), tk[p].pc \notin {"survey", "close", "draw"},
         DOMAIN e.slots = DOMAIN d.slots, \A j \in DOMAIN d.slots : e.slots[j].round = d.slots[j].round,
         \A q \in Procs : tk[q].pc = "survey" => tk[q].slot \in DOMAIN d.slots
  PROVE  \E q \in Procs : AtEnd(e, uk[q])
<1>1. PICK q \in Procs : AtEnd(d, tk[q])
  BY DEF EndComes
<1>2. q # p /\ uk[q] = tk[q]
  BY <1>1 DEF AtEnd, Others
<1>3. tk[q].pc = "survey" /\ LastRound(d, d.slots[tk[q].slot].round) => LastRound(e, e.slots[tk[q].slot].round)
  BY DEF LastRound
<1> QED BY <1>1, <1>2, <1>3 DEF AtEnd

LEMMA StatementEnds ==
  ASSUME Whole, InOrder(db), EndComes(db, task), NEW p \in Procs, CallKnows(db, task[p]),
         Statement(p), ~InsertPairing(p), ~Activate(p)
  PROVE  EndComes(db', task')
<1> DEFINE t == task[p]
           u == task'[p]
           Goal == \E q \in Procs : AtEnd(db', task'[q])
<1> SUFFICES ASSUME db'.status = "active", AllPlayed(db') PROVE Goal
  BY DEF EndComes
<1>0. /\ Books(db) /\ InRounds(db) /\ event \in Events /\ Others(task, task', p) /\ t \in Task
      /\ \A q \in Procs : task[q].pc = "survey" => task[q].slot \in DOMAIN db.slots
  BY StatementMoves, MovedTo, TaskOf DEF InOrder, Whole
<1>1. ASSUME DOMAIN db'.slots = DOMAIN db.slots, db'.status = db.status,
             \A j \in DOMAIN db.slots : db'.slots[j].round = db.slots[j].round
                                        /\ db.slots[j].status = db'.slots[j].status,
             t.pc \notin {"survey", "close", "draw"}
      PROVE  Goal
  <2>1. AllPlayed(db)
    BY <1>1 DEF AllPlayed
  <2> QED BY <1>0, <1>1, <2>1, EndStays
<1>2. ASSUME db'.slots = db.slots, db'.status = db.status, t.pc \notin {"survey", "close", "draw"} PROVE Goal
  BY <1>1, <1>2
<1> HIDE DEF Goal
<1>3. ASSUME Decide(p) PROVE Goal
  <2>1. /\ t.report \in DOMAIN db.matches /\ t.pc \in {"approve", "deny"}
        /\ db' = Redone(db, t.report, "approved") \/ db' = Redone(db, t.report, "denied")
    BY <1>3, DecideFits
  <2>2. db'.status = db.status /\ db'.slots = db.slots
    BY <1>0, <2>1, DecidedIs DEF Redecided
  <2> QED BY <1>2, <2>1, <2>2
<1>4. ASSUME FreeSlot(p) PROVE Goal
  <2>1. t.pc = "free" /\ db' = Freed(db, t.report)
    BY <1>4, FreeSlotFits
  <2>2. SlotsFreed(db, db', SlotsOf(db, t.report)) /\ db'.status = db.status
    BY <1>0, <2>1, FreeIs
  <2>3. /\ DOMAIN db'.slots = DOMAIN db.slots /\ SlotsOf(db, t.report) \subseteq DOMAIN db.slots
        /\ \A j \in SlotsOf(db, t.report) : db'.slots[j] = Shown(db.slots[j], 0, "open")
        /\ \A j \in DOMAIN db.slots : j \notin SlotsOf(db, t.report) => db'.slots[j] = db.slots[j]
    BY <2>2 DEF SlotsFreed, SlotsOf
  <2>4. ASSUME NEW j \in SlotsOf(db, t.report) PROVE db'.slots[j].status = "open"
    <3>1. db'.slots[j] = Shown(db.slots[j], 0, "open")
      BY <2>3
    <3> QED BY <3>1 DEF Shown
  <2>5. \A j \in DOMAIN db.slots : db'.slots[j] = db.slots[j]
    BY <2>3, <2>4 DEF AllPlayed
  <2> QED BY <1>1, <2>1, <2>2, <2>3, <2>5
<1>5. ASSUME FindSlot(p) PROVE Goal
  BY <1>2, <1>5, FindSlotFits
<1>6. ASSUME CompleteSlot(p) PROVE Goal
  <2> DEFINE i == t.slot
             s == "survey"
  <2>1. t.pc = "complete" /\ u = [t EXCEPT !.pc = s] /\ db' = Completed(db, i) /\ i \in DOMAIN db.slots
    BY <1>6, CompleteSlotFits
  <2> HIDE DEF s, i
  <2>2. u.pc = s /\ u.slot = t.slot
    BY <1>0, <2>1, TaskSet
  <2>3. /\ db'.status = db.status /\ DOMAIN db'.slots = DOMAIN db.slots
        /\ db'.slots[i] = Shown(db.slots[i], db.slots[i].match, "completed")
        /\ \A j \in DOMAIN db.slots : j # i => db'.slots[j] = db.slots[j]
    BY <1>0, <2>1, CompletedIs
  <2>4. db'.slots[i].status = "completed" /\ db'.slots[i].round = db.slots[i].round
    BY <2>3 DEF Shown
  <2>5. \A j \in DOMAIN db.slots : db'.slots[j].round = db.slots[j].round
    BY <2>3, <2>4
  <2>6. CASE db.slots[i].status = "completed"
    BY <1>1, <2>1, <2>3, <2>4, <2>5, <2>6
  <2>7. CASE db.slots[i].status # "completed"
    <3>1. LastRound(db, db.slots[i].round)
      BY <1>0, <2>1, <2>7, UnplayedIsLast
    <3>2. LastRound(db', db'.slots[i].round)
      BY <2>1, <2>3, <2>5, <3>1 DEF LastRound
    <3> QED BY <2>2, <3>2 DEF AtEnd, Goal, s, i
  <2> QED BY <2>6, <2>7
<1>7. ASSUME Survey(p) PROVE Goal
  <2> DEFINE i == t.slot
             f == Follow(db, i)
             pc == f.pc
             rows == f.rows
             v == [t EXCEPT !.pc = pc]
  <2>1. db' = db /\ t.pc = "survey" /\ i \in DOMAIN db.slots /\ u = [v EXCEPT !.rows = rows]
    BY <1>7, SurveyFits
  <2>2. u.pc = f.pc
    <3> HIDE DEF t, u, f
    <3>1. v.pc = pc /\ u = [v EXCEPT !.rows = rows] /\ DOMAIN v = DOMAIN t
      BY <1>0, <2>1 DEF Task
    <3> HIDE DEF v, rows
    <3> QED BY <3>1
  <2>3. PICK q \in Procs : AtEnd(db, task[q])
    BY <2>1 DEF EndComes
  <2>4. CASE q # p
    <3>1. task'[q] = task[q]
      BY <1>0, <2>4 DEF Others
    <3> QED BY <2>1, <2>3, <3>1 DEF Goal
  <2>5. CASE q = p
    <3>1. LastRound(db, db.slots[i].round)
      BY <2>1, <2>3, <2>5 DEF AtEnd
    <3>2. f.pc \in {"close", "draw"}
      <4> HIDE DEF i, t
      <4> QED BY <1>0, <2>1, <3>1, FollowEnds
    <3> QED BY <2>2, <3>2 DEF AtEnd, Goal
  <2> QED BY <2>4, <2>5
<1>8. ASSUME CloseTournament(p) PROVE Goal
  <2> DEFINE st == "completed"
  <2>1. db' = [db EXCEPT !.status = st] /\ st \in {"pending", "active", "completed", "cancelled"}
    BY <1>8, CloseFits
  <2> HIDE DEF st
  <2>2. db'.status = st
    BY <1>0, <2>1, StatusSet
  <2> QED BY <2>2 DEF st
<1>9. ASSUME Place(p) PROVE Goal
  <2>1. t.pc = "place" /\ db' = Placed(db)
    BY <1>9, PlaceFits
  <2>2. db'.status = db.status
    BY <1>0, <2>1, PlacedIs
  <2> QED BY <2>1, <2>2 DEF CallKnows
<1>10. ASSUME ReadScore(p) PROVE Goal
  BY <1>2, <1>10, ReadScoreFits
<1>11. ASSUME Award(p) PROVE Goal
  <2>1. db' = [db EXCEPT !.awards = @ \cup {t.report}] /\ t.report \in DOMAIN db.matches /\ t.pc = "award"
    BY <1>11, AwardFits
  <2>2. db'.slots = db.slots /\ db'.status = db.status
    BY <1>0, <2>1, AwardIs
  <2> QED BY <1>2, <2>1, <2>2
<1>12. Goal
  BY <1>3, <1>4, <1>5, <1>6, <1>7, <1>8, <1>9, <1>10, <1>11 DEF Statement
<1> QED BY <1>12 DEF Goal

LEMMA DrawsStayOpen ==
  ASSUME NEW d, Books(d), NEW e, Books(e), NEW tk, NEW uk, DrawsOpen(d, tk),
         \A q \in Procs : tk[q].pc \in Drawing \/ uk[q].pc \in Drawing => uk[q] = tk[q] /\ e.slots = d.slots,
         \A q \in Procs : tk[q].pc = "draw" => tk[q].rows \in Seq(NewRows)
  PROVE  DrawsOpen(e, uk)
<1> SUFFICES ASSUME NEW q \in Procs, uk[q].pc \in Drawing
             PROVE  /\ uk[q].pc = "draw" => OthersDraw(uk, q) \/ ~AllPlayed(Drawn(e, uk[q].rows))
                    /\ uk[q].pc = "activate" => OthersDraw(uk, q) \/ ~AllPlayed(e)
  BY DEF DrawsOpen, Drawing
<1>1. uk[q] = tk[q] /\ e.slots = d.slots
  OBVIOUS
<1>2. OthersDraw(tk, q) => OthersDraw(uk, q)
  BY DEF OthersDraw
<1>3. ASSUME tk[q].pc = "draw" PROVE Drawn(e, tk[q].rows).slots = Drawn(d, tk[q].rows).slots
  <2>1. Drawn(e, tk[q].rows).slots = e.slots \o tk[q].rows
    BY <1>3, DrawnIs
  <2>2. Drawn(d, tk[q].rows).slots = d.slots \o tk[q].rows
    BY <1>3, DrawnIs
  <2> QED BY <1>1, <2>1, <2>2
<1> QED BY <1>1, <1>2, <1>3 DEF DrawsOpen, AllPlayed

LEMMA InsertPairingGoes ==
  ASSUME Whole, Kept(db, task), GoesFurther(db, task), Watch, ~torn', NEW p \in Procs, InsertPairing(p)
  PROVE  GoesFurther(db', task')
<1> DEFINE t == task[p]
           u == task'[p]
           rows == t.rows
           f == Drawn(db, rows)
           g == Drawn(db', Tail(rows))
<1>1. /\ Books(db) /\ Books(db') /\ event \in Events /\ Others(task, task', p) /\ t \in Task
      /\ db'.slots = Append(db.slots, Head(rows)) /\ db'.matches = db.matches /\ db'.status = db.status
      /\ t.pc = "draw" /\ rows \in Seq(NewRows) /\ Len(rows) >= 1
  <2>1. t.pc = "draw"
    BY DEF InsertPairing, At
  <2> QED BY <2>1, InsertPairingFits, MovedTo, TaskOf DEF Moved, TaskFits
<1>2. u.rows = Tail(rows) /\ u.report = t.report
      /\ u.pc = IF Len(rows) # 1 THEN "draw" ELSE IF t.report = 0 THEN "activate" ELSE "score"
  <2> DEFINE pc == IF Len(rows) # 1 THEN "draw" ELSE IF t.report = 0 THEN "activate" ELSE "score"
             v == [t EXCEPT !.rows = Tail(t.rows), !.pc = pc]
  <2>1. task' = [task EXCEPT ![p] = v]
    BY DEF InsertPairing, Goto
  <2>2. u = v
    BY <2>1 DEF Whole
  <2> HIDE DEF t
  <2>3. v.pc = pc /\ v.rows = Tail(t.rows) /\ v.report = t.report
    BY <1>1 DEF Task
  <2> QED BY <2>2, <2>3
<1>3. db'.slots # db.slots
  <2>1. db.slots \in Seq(Slot) /\ Head(rows) \in Slot
    <3>1. NewRows \subseteq Slot /\ Head(rows) \in NewRows
      BY <1>1, InsertPairingFits DEF NewRows
    <3> QED BY <1>1, <3>1, DbIs
  <2>2. Len(db'.slots) = Len(db.slots) + 1 /\ Len(db.slots) \in Nat
    <3> HIDE DEF rows
    <3> QED BY <1>1, <2>1
  <2> QED BY <2>2
<1>4. \A q \in Procs : q # p => task'[q] = task[q] /\ task[q].pc \notin Drawing
  BY <1>1, <1>3, WriterIsAlone DEF Others
<1>5. ~OthersDraw(task, p) /\ \A q \in Procs : task'[q].pc \in {"draw", "activate"} => q = p
  BY <1>4 DEF OthersDraw, Drawing
<1>6. ~AllPlayed(f)
  BY <1>1, <1>5 DEF GoesFurther, DrawsOpen
<1>7. /\ Len(rows) = 1 => db'.slots = f.slots
      /\ Len(rows) # 1 => g.slots = f.slots
  BY <1>1, RowWritten
<1> HIDE DEF f, g
<1>8. (Len(rows) = 1 => ~AllPlayed(db')) /\ (Len(rows) # 1 => ~AllPlayed(g))
  BY <1>6, <1>7 DEF AllPlayed
<1>9. DrawsOpen(db', task')
  <2>1. u.pc = "draw" => ~AllPlayed(Drawn(db', u.rows))
    BY <1>2, <1>8 DEF g
  <2>2. u.pc = "activate" => ~AllPlayed(db')
    BY <1>2, <1>8
  <2> QED BY <1>5, <2>1, <2>2 DEF DrawsOpen
<1>10. EndComes(db', task')
  <2>1. Len(rows) # 1 => AtEnd(db', u)
    BY <1>2 DEF AtEnd
  <2> QED BY <1>8, <2>1 DEF EndComes
<1> QED BY <1>9, <1>10 DEF GoesFurther

LEMMA ActivateGoes ==
  ASSUME Whole, Kept(db, task), GoesFurther(db, task), Watch, ~torn', NEW p \in Procs, Activate(p)
  PROVE  GoesFurther(db', task')
<1> DEFINE st == "active"
<1>1. /\ Moved(p) /\ db' = [db EXCEPT !.status = st] /\ task'[p] = Idle /\ task[p].pc = "activate" /\ Books(db)
      /\ st \in {"pending", "active", "completed", "cancelled"}
  BY ActivateFits, TaskOf DEF Activate, At
<1> HIDE DEF st
<1>2. db'.slots = db.slots /\ db'.status = st
  BY <1>1, StatusSet
<1>3. db.status = "pending"
  BY <1>1 DEF Kept, Shared
<1>4. ASSUME NEW q \in Procs, q # p PROVE task'[q] = task[q] /\ task[q].pc \notin Drawing
  <2>1. task'[q] = task[q]
    BY <1>1, <1>4, MovedTo DEF Others
  <2>2. db'.status # db.status
    BY <1>2, <1>3 DEF st
  <2> QED BY <2>1, <2>2, WriterIsAlone
<1>5. \A q \in Procs : task'[q].pc # "draw" /\ task'[q].pc # "activate"
  <2>1. Idle.pc # "draw" /\ Idle.pc # "activate"
    BY DEF Idle
  <2> QED BY <1>1, <1>4, <2>1 DEF Drawing
<1>6. ~AllPlayed(db)
  <2>1. ~OthersDraw(task, p)
    BY <1>4 DEF OthersDraw
  <2> QED BY <1>1, <2>1 DEF GoesFurther, DrawsOpen
<1>7. ~AllPlayed(db')
  BY <1>2, <1>6 DEF AllPlayed
<1> QED BY <1>5, <1>7 DEF GoesFurther, EndComes, DrawsOpen

(* Another process begins to draw.                                         *)
LEMMA OneMoreOpen ==
  ASSUME NEW d, Books(d), NEW tk, DrawsOpen(d, tk), NEW uk, NEW p \in Procs, Others(tk, uk, p),
         tk[p].pc \notin Drawing, uk[p].pc = "draw", uk[p].rows \in Seq(NewRows), SomeOpen(uk[p].rows)
  PROVE  DrawsOpen(d, uk)
<1>1. \A q \in Procs : q # p => OthersDraw(uk, q)
  BY DEF OthersDraw, Drawing
<1>2. ~AllPlayed(Drawn(d, uk[p].rows))
  BY OpenDrawn
<1> QED BY <1>1, <1>2 DEF DrawsOpen

LEMMA StepGoesFurther ==
  ASSUME Whole, torn \/ Agree(db, task), torn \/ (InOrder(db) /\ CallsKnow(db, task)), torn \/ Kept(db, task),
         torn \/ GoesFurther(db, task), [Next]_vars
  PROVE  torn' \/ GoesFurther(db', task')
<1> SUFFICES ASSUME ~torn' PROVE GoesFurther(db', task')
  OBVIOUS
<1>0. ~torn /\ task \in [Procs -> Task] /\ Frontends \subseteq Procs /\ Worker \in Procs /\ Books(db) /\ event \in Events
  BY DEF Next, Watch, vars, Whole, Procs
<1>1. /\ Agree(db, task) /\ InOrder(db) /\ CallsKnow(db, task) /\ Kept(db, task)
      /\ GoesFurther(db, task) /\ EndComes(db, task) /\ DrawsOpen(db, task)
      /\ \A q \in Procs : task[q].pc = "draw" => task[q].rows \in Seq(NewRows)
      /\ \A q \in Procs : task[q].pc = "survey" => task[q].slot \in DOMAIN db.slots
  BY <1>0 DEF Whole, TaskFits, GoesFurther
<1>2. ASSUME NEW p \in Procs, Others(task, task', p), db' = db, task[p].pc \in {"idle", "approve", "deny"},
             task'[p].pc \notin Drawing
      PROVE  GoesFurther(db', task')
  <2>1. EndComes(db', task')
    <3> SUFFICES ASSUME db.status = "active", AllPlayed(db) PROVE \E q \in Procs : AtEnd(db, task'[q])
      BY <1>2 DEF EndComes
    <3> QED BY <1>1, <1>2, EndStays
  <2>2. \A q \in Procs : task[q].pc \in Drawing \/ task'[q].pc \in Drawing => task'[q] = task[q]
    BY <1>2 DEF Others, Drawing
  <2>3. DrawsOpen(db', task')
    BY <1>0, <1>1, <1>2, <2>2, DrawsStayOpen
  <2> QED BY <2>1, <2>3 DEF GoesFurther
<1>3. ASSUME Watch, Books(db'),
             \A q \in Procs : task[q].pc \in Drawing \/ task'[q].pc \in Drawing => task'[q] = task[q]
      PROVE  DrawsOpen(db', task')
  <2>1. \A q \in Procs : task[q].pc \in Drawing \/ task'[q].pc \in Drawing =>
           task'[q] = task[q] /\ db'.slots = db.slots
    BY <1>3, WriterIsAlone
  <2> QED BY <1>0, <1>1, <1>3, <2>1, DrawsStayOpen
<1>4. ASSUME NEW p \in Procs, Start(p) PROVE GoesFurther(db', task')
  <2> DEFINE rows == FirstRows
             v == [Idle EXCEPT !.pc = "draw"]
  <2>1. /\ Moved(p) /\ db' = db /\ db.status = "pending" /\ task[p].pc = "idle"
        /\ task'[p] = [v EXCEPT !.rows = rows]
    BY <1>4, StartFits
  <2>2. rows \in Seq(NewRows) /\ SomeOpen(rows)
    BY <1>0, FirstRowsAre, FirstRowsOpen
  <2> HIDE DEF rows
  <2>3. task'[p].pc = "draw" /\ task'[p].rows = rows
    BY <2>1 DEF Idle
  <2>4. Others(task, task', p) /\ task[p].pc \notin Drawing
    BY <2>1, MovedTo DEF Drawing
  <2>5. DrawsOpen(db, task')
    BY <1>0, <1>1, <2>2, <2>3, <2>4, OneMoreOpen
  <2> QED BY <2>1, <2>5 DEF GoesFurther, EndComes
<1>5. ASSUME NEW p \in Procs, NEW m \in DOMAIN db.matches, NEW v \in {"approve", "deny"}, ReadReport(p, m, v)
      PROVE  GoesFurther(db', task')
  <2>1. /\ db.matches[m].status = "pending" /\ task[p].pc = "idle" /\ db' = db /\ event' = event
        /\ Goto(p, [Idle EXCEPT !.pc = v, !.report = m])
    BY <1>5 DEF ReadReport, OnlyTask, Fixed, At
  <2>2. Moved(p) /\ task'[p] = [Idle EXCEPT !.pc = v, !.report = m]
    BY <1>5, <2>1, ReportRead
  <2>3. task'[p].pc = v
    BY <2>2 DEF Idle
  <2> QED BY <1>2, <2>1, <2>2, <2>3, MovedTo DEF Drawing
<1>6. ASSUME ReadOverdue PROVE GoesFurther(db', task')
  <2>1. Moved(Worker) /\ db' = db /\ task[Worker].pc = "idle"
    BY <1>6, ReadOverdueFits
  <2>2. task'[Worker].pc \in {"idle", "approve"}
    <3>1. CASE task'[Worker] = Idle
      BY <3>1 DEF Idle
    <3>2. ASSUME NEW m \in DOMAIN db.matches, task'[Worker] = [Idle EXCEPT !.pc = "approve", !.report = m]
          PROVE  task'[Worker].pc = "approve"
      BY <3>2 DEF Idle
    <3> QED BY <1>6, <3>1, <3>2, ReadOverdueFits
  <2> QED BY <1>0, <1>2, <2>1, <2>2, MovedTo DEF Drawing
<1>7. ASSUME NEW late \in SUBSET DOMAIN db.matches, Tick(late) PROVE GoesFurther(db', task')
  BY <1>1, <1>7 DEF Tick
<1>8. ASSUME NEW p \in Procs, Statement(p), Watch PROVE GoesFurther(db', task')
  <2>1. Moved(p) /\ Others(task, task', p) /\ CallKnows(db, task[p]) /\ Books(db')
    BY <1>1, <1>8, StatementMoves, MovedTo DEF CallsKnow, Moved
  <2>2. CASE InsertPairing(p)
    BY <1>1, <1>8, <2>2, InsertPairingGoes
  <2>3. CASE Activate(p)
    BY <1>1, <1>8, <2>3, ActivateGoes
  <2>4. CASE ~InsertPairing(p) /\ ~Activate(p)
    <3>1. EndComes(db', task')
      BY <1>1, <1>8, <2>1, <2>4, StatementEnds
    <3>2. CASE task[p].pc \notin Drawing /\ task'[p].pc \notin Drawing
      <4>1. \A q \in Procs : task[q].pc \in Drawing \/ task'[q].pc \in Drawing => task'[q] = task[q]
        BY <2>1, <3>2 DEF Others
      <4>2. DrawsOpen(db', task')
        BY <1>3, <1>8, <2>1, <4>1
      <4> QED BY <3>1, <4>2 DEF GoesFurther
    <3>3. CASE db' = db /\ Surveyed(db, task[p], task'[p])
      <4>1. task[p].pc \notin Drawing /\ task'[p].pc = "draw"
        BY <3>3 DEF Surveyed, Drawing
      <4>2. SomeOpen(task'[p].rows)
        BY <1>0, <3>3, FollowOpens DEF Surveyed
      <4>3. task'[p].rows \in Seq(NewRows)
        BY <1>0, <3>3, FollowIs DEF Surveyed, Score, Close
      <4>4. DrawsOpen(db, task')
        BY <1>0, <1>1, <2>1, <4>1, <4>2, <4>3, OneMoreOpen
      <4> QED BY <3>1, <3>3, <4>4 DEF GoesFurther
    <3> QED BY <1>1, <1>8, <2>1, <2>4, <3>2, <3>3, StatementGoes
  <2> QED BY <2>2, <2>3, <2>4
<1>9. ASSUME Transaction, Watch PROVE GoesFurther(db', task')
  <2>1. task' = task /\ Books(db')
    BY <1>9, TransactionMoves
  <2>2. EndComes(db', task')
    <3>1. ASSUME db'.slots = db.slots, NEW t, AtEnd(db, t) PROVE AtEnd(db', t)
      BY <3>1 DEF AtEnd, LastRound
    <3>2. db'.slots = db.slots => (AllPlayed(db') <=> AllPlayed(db))
      BY DEF AllPlayed
    <3> QED BY <1>1, <1>9, <2>1, <3>1, <3>2, TransactionLeaves DEF EndComes
  <2>3. DrawsOpen(db', task')
    BY <1>3, <1>9, <2>1
  <2> QED BY <2>2, <2>3 DEF GoesFurther
<1>10. ASSUME NEW p \in Procs, Crash(p), torn' = (torn \/ task[p].pc \notin {"approve", "deny"})
       PROVE  GoesFurther(db', task')
  <2>1. Moved(p) /\ db' = db /\ task'[p] = Idle
    BY <1>10, CrashFits
  <2>2. task[p].pc \in {"approve", "deny"}
    BY <1>10
  <2>3. Idle.pc \notin Drawing
    BY DEF Idle, Drawing
  <2> QED BY <1>2, <2>1, <2>2, <2>3, MovedTo
<1>11. CASE UNCHANGED vars
  BY <1>1, <1>11 DEF vars
<1> QED BY <1>0, <1>4, <1>5, <1>6, <1>7, <1>8, <1>9, <1>10, <1>11 DEF Next

LEMMA SameGoesFurther ==
  ASSUME event' = event, GoesFurther(db', task')
  PROVE  GoesFurther(db, task)'
<1>1. format' = format /\ Procs' = Procs
  BY DEF format, Procs
<1> QED BY <1>1 DEF GoesFurther, EndComes, AtEnd, LastRound, DrawsOpen, OthersDraw

LEMMA AlwaysGoesFurther == Spec => [](torn \/ GoesFurther(db, task))
<1>1. Init => torn \/ GoesFurther(db, task)
  BY DEF Init, Idle, GoesFurther, EndComes, DrawsOpen
<1>2. ASSUME Whole, torn \/ Agree(db, task), torn \/ (InOrder(db) /\ CallsKnow(db, task)), torn \/ Kept(db, task),
             torn \/ GoesFurther(db, task), [Next]_vars
      PROVE  (torn \/ GoesFurther(db, task))'
  <2>1. torn' \/ GoesFurther(db', task')
    BY <1>2, StepGoesFurther
  <2>2. event' = event
    BY <1>2, EventStays
  <2> QED BY <2>1, <2>2, SameGoesFurther
<1> QED BY <1>1, <1>2, AlwaysWhole, AlwaysAgrees, AlwaysInOrder, AlwaysKept, PTL DEF Spec

-----------------------------------------------------------------------------
(* What follows for the rounds that were drawn.                            *)

(* Who meets again in a later round has won alone: it is a player who sat   *)
(* out, and sits out again.                                                *)
LEMMA MeetAgain ==
  ASSUME event \in Events, NEW d, Books(d), Bracket(d), NEW i \in DOMAIN d.slots, NEW j \in DOMAIN d.slots,
         d.slots[i].round < d.slots[j].round, d.slots[i].pair = d.slots[j].pair
  PROVE  IsBye(d.slots[i])
<1> DEFINE s == d.slots[i]
           w == WinnerOf(d, s)
<1>1. Cardinality(s.pair) \in {1, 2}
  BY DbIs DEF LinksFit, SlotFits
<1>2. ASSUME NEW p \in s.pair PROVE p = w
  <2>1. PICK k \in DOMAIN d.slots : d.slots[k].round = s.round /\ WinnerOf(d, d.slots[k]) = p
    BY DEF Bracket, FromWinners, WinnerIn
  <2>2. p # Nobody
    <3>1. s.pair \subseteq Players
      BY WinnerPlays
    <3> QED BY <3>1, PlayersCount DEF Nobody
  <2>3. p \in d.slots[k].pair
    BY <2>1, <2>2, WinnerPlays
  <2>4. k = i
    BY <2>1, <2>3 DEF Bracket, InOnePlace
  <2> QED BY <2>1, <2>4
<1> HIDE DEF w
<1>3. s.pair = {} \/ s.pair = {w}
  BY <1>2
<1>4. Cardinality({w}) = 1 /\ Cardinality({}) = 0
  BY FS_Singleton, FS_EmptySet
<1> QED BY <1>1, <1>3, <1>4 DEF IsBye

LEMMA ElimMeets ==
  ASSUME event \in Events, NEW d, Books(d), Bracket(d), format = "single_elim",
         NEW i \in DOMAIN d.slots, NEW j \in DOMAIN d.slots, i # j
  PROVE  /\ d.slots[i].pair = d.slots[j].pair => IsBye(d.slots[i])
         /\ d.slots[i].round = d.slots[j].round => d.slots[i].pair \cap d.slots[j].pair = {}
<1>1. d.slots[i].round = d.slots[j].round => d.slots[i].pair \cap d.slots[j].pair = {}
  BY DEF Bracket, InOnePlace
<1>2. ASSUME d.slots[i].pair = d.slots[j].pair PROVE IsBye(d.slots[i])
  <2>1. d.slots[i].round # d.slots[j].round
    <3>1. d.slots[i].pair # {}
      <4>1. Cardinality(d.slots[i].pair) \in {1, 2}
        BY DbIs DEF LinksFit, SlotFits
      <4> QED BY <4>1, FS_EmptySet
    <3> QED BY <1>1, <1>2, <3>1
  <2>2. d.slots[i].round \in Nat /\ d.slots[j].round \in Nat
    BY RoundsCount
  <2>3. d.slots[i].round < d.slots[j].round \/ d.slots[j].round < d.slots[i].round
    BY <2>1, <2>2
  <2>4. IsBye(d.slots[i]) <=> IsBye(d.slots[j])
    BY <1>2 DEF IsBye
  <2> QED BY <1>2, <2>3, <2>4, MeetAgain
<1> QED BY <1>1, <1>2

LEMMA ElimFollows ==
  ASSUME event \in Events, NEW d, Books(d), InRounds(d), Bracket(d), WinnersGoOn(d), format = "single_elim",
         NEW i \in DOMAIN d.slots, NEW r, r = d.slots[i].round, r > 1
  PROVE  /\ \A j \in DOMAIN d.slots : d.slots[j].round = r - 1 => d.slots[j].status = "completed"
         /\ \A p : (\E j \in DOMAIN d.slots : d.slots[j].round = r /\ p \in d.slots[j].pair)
                      <=> \E x \in DOMAIN Winners(d, r - 1) : Winners(d, r - 1)[x] = p
<1>1. r \in Nat /\ r - 1 \in Nat \ {0} /\ r - 1 < r /\ (r - 1) + 1 = r
  <2>1. r \in Nat
    BY RoundsCount
  <2> QED BY <2>1
<1>2. \A j \in DOMAIN d.slots : d.slots[j].round = r - 1 => d.slots[j].status = "completed"
  BY <1>1 DEF InRounds
<1>3. PICK k \in DOMAIN d.slots : d.slots[k].round = r - 1
  BY <1>1 DEF InRounds
<1>4. ASSUME NEW j \in DOMAIN d.slots, d.slots[j].round = r, NEW p \in d.slots[j].pair
      PROVE  p # Nobody /\ WinnerIn(d, r - 1, p)
  <2>1. d.slots[j].pair \subseteq Players
    BY WinnerPlays
  <2>2. p # Nobody
    BY <2>1, PlayersCount DEF Nobody
  <2>3. d.slots[k].round < d.slots[j].round
    BY <1>1, <1>3, <1>4
  <2>4. WinnerIn(d, d.slots[k].round, p)
    BY <2>3 DEF Bracket, FromWinners
  <2> QED BY <1>3, <2>2, <2>4
<1>5. ASSUME NEW p, p # Nobody, WinnerIn(d, r - 1, p)
      PROVE  \E j \in DOMAIN d.slots : d.slots[j].round = r /\ p \in d.slots[j].pair
  <2>1. PICK l \in DOMAIN d.slots : d.slots[l].round = r - 1 /\ WinnerOf(d, d.slots[l]) = p
    BY <1>5 DEF WinnerIn
  <2>2. d.slots[i].round = d.slots[l].round + 1
    BY <1>1, <2>1
  <2>3. PlaysIn(d, d.slots[i].round, p)
    BY <2>1, <2>2 DEF WinnersGoOn
  <2> QED BY <2>3 DEF PlaysIn
<1>6. ASSUME NEW p
      PROVE  (\E j \in DOMAIN d.slots : d.slots[j].round = r /\ p \in d.slots[j].pair)
                <=> p # Nobody /\ WinnerIn(d, r - 1, p)
  BY <1>4, <1>5
<1>7. ASSUME NEW p
      PROVE  (\E x \in DOMAIN Winners(d, r - 1) : Winners(d, r - 1)[x] = p) <=> p # Nobody /\ WinnerIn(d, r - 1, p)
  BY WinnersAll
<1>8. ASSUME NEW p
      PROVE  (\E j \in DOMAIN d.slots : d.slots[j].round = r /\ p \in d.slots[j].pair)
                <=> \E x \in DOMAIN Winners(d, r - 1) : Winners(d, r - 1)[x] = p
  BY <1>6, <1>7
<1> QED BY <1>2, <1>8

LEMMA CircleMeets ==
  ASSUME event \in Events, NEW d, Books(d), Circle(d), format = "round_robin"
  PROVE  /\ \A i, j \in DOMAIN d.slots : i # j =>
               /\ d.slots[i].pair # d.slots[j].pair
               /\ d.slots[i].round = d.slots[j].round => d.slots[i].pair \cap d.slots[j].pair = {}
         /\ AllOf(d) => \A p, q \in Players : p # q => \E i \in DOMAIN d.slots : d.slots[i].pair = {p, q}
<1> DEFINE rows == FirstRows
<1>1. /\ \A j, k \in DOMAIN rows : j # k =>
            /\ rows[j].pair # rows[k].pair
            /\ rows[j].round = rows[k].round => rows[j].pair \cap rows[k].pair = {}
      /\ \A p, q \in ToSet(roster) : p # q => \E j \in DOMAIN rows : rows[j].pair = {p, q}
  <2>1. /\ roster \in Seq(Players) /\ Len(roster) >= 2 /\ IsInjective(roster)
        /\ Players \subseteq Nat \ {0} /\ IsFiniteSet(Players)
    BY PlayersCount
  <2>2. LET seats == RoundRobin(roster)
        IN  /\ \A j, k \in DOMAIN seats : j # k =>
                  /\ seats[j].pair # seats[k].pair
                  /\ seats[j].round = seats[k].round => seats[j].pair \cap seats[k].pair = {}
            /\ \A p, q \in ToSet(roster) : p # q => \E j \in DOMAIN seats : seats[j].pair = {p, q}
    BY <2>1, RobinMeets
  <2>3. rows = RoundRobin(roster)
    BY DEF FirstRows
  <2> HIDE DEF rows
  <2> QED BY <2>2, <2>3
<1>2. rows \in Seq(NewRows) /\ DOMAIN rows = 1..Len(rows) /\ Len(rows) \in Nat
  BY FirstRowsAre
<1> HIDE DEF rows
<1>3. /\ Len(d.slots) <= Len(rows)
      /\ \A i \in DOMAIN d.slots : d.slots[i].pair = rows[i].pair /\ d.slots[i].round = rows[i].round
  BY DEF Circle, Alike, rows
<1>4. DOMAIN d.slots = 1..Len(d.slots) /\ Len(d.slots) \in Nat
  BY DbIs
<1>5. \A i \in DOMAIN d.slots : i \in DOMAIN rows
  BY <1>2, <1>3, <1>4
<1>6. AllOf(d) => DOMAIN d.slots = DOMAIN rows
  BY <1>2, <1>4 DEF AllOf, rows
<1>7. AllOf(d) => \A p, q \in Players : p # q => \E i \in DOMAIN d.slots : d.slots[i].pair = {p, q}
  BY <1>1, <1>3, <1>6 DEF Players
<1>8. ASSUME NEW i \in DOMAIN d.slots, NEW j \in DOMAIN d.slots, i # j
      PROVE  /\ d.slots[i].pair # d.slots[j].pair
             /\ d.slots[i].round = d.slots[j].round => d.slots[i].pair \cap d.slots[j].pair = {}
  <2>1. i \in DOMAIN rows /\ j \in DOMAIN rows
    BY <1>5
  <2>2. /\ rows[i].pair # rows[j].pair
        /\ rows[i].round = rows[j].round => rows[i].pair \cap rows[j].pair = {}
    BY <1>1, <1>8, <2>1
  <2> QED BY <1>3, <2>2
<1> QED BY <1>7, <1>8

(* Unless a call was cut off or outdated, and while no round is being       *)
(* written: whoever met in a round of a single elimination does not meet   *)
(* again, a round is drawn only when the one before it is played, and its  *)
(* players are exactly those who won there; in a round robin every two     *)
(* players meet exactly once; and what runs has something left to play, or *)
(* a call that closes it or draws on.  So it is however many processes      *)
(* approve reports or record results at the same time, and for every        *)
(* number of players.                                                      *)
THEOREM RoundsAlwaysFollow == Spec => []RoundsFollow
<1>1. Whole /\ (torn \/ (InOrder(db) /\ CallsKnow(db, task))) /\ (torn \/ Kept(db, task))
      /\ (torn \/ GoesFurther(db, task)) => RoundsFollow
  <2> SUFFICES ASSUME Whole, InOrder(db), Kept(db, task), GoesFurther(db, task), \A p \in Procs : task[p].pc # "draw"
               PROVE  /\ \A i, j \in DOMAIN db.slots : i # j =>
                            /\ db.slots[i].pair = db.slots[j].pair => format = "single_elim" /\ IsBye(db.slots[i])
                            /\ db.slots[i].round = db.slots[j].round => db.slots[i].pair \cap db.slots[j].pair = {}
                      /\ \A i \in DOMAIN db.slots : format = "single_elim" /\ db.slots[i].round > 1 =>
                            /\ \A j \in RoundSlots(db.slots[i].round - 1) : db.slots[j].status = "completed"
                            /\ UNION {db.slots[j].pair : j \in RoundSlots(db.slots[i].round)}
                                  = ToSet(Winners(db, db.slots[i].round - 1))
                      /\ format = "round_robin" /\ db.status = "active" =>
                            \A p, q \in Players : \E i \in DOMAIN db.slots : p # q => db.slots[i].pair = {p, q}
                      /\ db.status = "active" /\ (\A p \in Procs : task[p].pc \notin {"survey", "close"}) =>
                            \E i \in DOMAIN db.slots : db.slots[i].status # "completed"
    BY DEF RoundsFollow, At
  <2>1. Books(db) /\ event \in Events /\ InRounds(db) /\ format \in {"round_robin", "single_elim"}
    BY PlayersCount DEF Whole, InOrder
  <2>2. format = "single_elim" => Bracket(db) /\ WinnersGoOn(db)
    BY DEF Kept, Elim
  <2>3. format = "round_robin" => Circle(db) /\ (db.status = "active" => AllOf(db))
    BY DEF Kept, Robin
  <2>4. ASSUME NEW i \in DOMAIN db.slots, NEW j \in DOMAIN db.slots, i # j
        PROVE  /\ db.slots[i].pair = db.slots[j].pair => format = "single_elim" /\ IsBye(db.slots[i])
               /\ db.slots[i].round = db.slots[j].round => db.slots[i].pair \cap db.slots[j].pair = {}
    <3>1. CASE format = "single_elim"
      BY <2>1, <2>2, <2>4, <3>1, ElimMeets
    <3>2. CASE format = "round_robin"
      BY <2>1, <2>3, <2>4, <3>2, CircleMeets
    <3> QED BY <2>1, <3>1, <3>2
  <2>5. ASSUME NEW i \in DOMAIN db.slots, format = "single_elim", db.slots[i].round > 1
        PROVE  /\ \A j \in RoundSlots(db.slots[i].round - 1) : db.slots[j].status = "completed"
               /\ UNION {db.slots[j].pair : j \in RoundSlots(db.slots[i].round)}
                     = ToSet(Winners(db, db.slots[i].round - 1))
    <3> DEFINE r == db.slots[i].round
               winners == Winners(db, r - 1)
    <3>1. /\ \A j \in DOMAIN db.slots : db.slots[j].round = r - 1 => db.slots[j].status = "completed"
          /\ \A p : (\E j \in DOMAIN db.slots : db.slots[j].round = r /\ p \in db.slots[j].pair)
                       <=> \E x \in DOMAIN winners : winners[x] = p
      BY <2>1, <2>2, <2>5, ElimFollows
    <3> HIDE DEF winners
    <3>2. \A p : p \in UNION {db.slots[j].pair : j \in RoundSlots(r)} <=>
             \E j \in DOMAIN db.slots : db.slots[j].round = r /\ p \in db.slots[j].pair
      BY DEF RoundSlots
    <3>3. \A p : p \in ToSet(winners) <=> \E x \in DOMAIN winners : winners[x] = p
      BY DEF ToSet
    <3>4. UNION {db.slots[j].pair : j \in RoundSlots(r)} = ToSet(winners)
      BY <3>1, <3>2, <3>3
    <3> QED BY <3>1, <3>4 DEF RoundSlots, winners
  <2>6. ASSUME format = "round_robin", db.status = "active", NEW p \in Players, NEW q \in Players
        PROVE  \E i \in DOMAIN db.slots : p # q => db.slots[i].pair = {p, q}
    <3>1. CASE p # q
      BY <2>1, <2>3, <2>6, <3>1, CircleMeets
    <3>2. CASE p = q
      <4>1. DOMAIN db.slots # {}
        <5>1. Len(db.slots) = Len(FirstRows) /\ Len(FirstRows) >= 1
          BY <2>1, <2>3, <2>6, FirstRowsAre DEF AllOf
        <5>2. Len(db.slots) \in Nat /\ DOMAIN db.slots = 1..Len(db.slots)
          BY <2>1, DbIs
        <5>3. 1 \in DOMAIN db.slots
          BY <5>1, <5>2
        <5> QED BY <5>3
      <4> QED BY <3>2, <4>1
    <3> QED BY <3>1, <3>2
  <2>7. ASSUME db.status = "active", \A p \in Procs : task[p].pc \notin {"survey", "close"}
        PROVE  \E i \in DOMAIN db.slots : db.slots[i].status # "completed"
    <3>1. \A p \in Procs : ~AtEnd(db, task[p])
      BY <2>7 DEF AtEnd
    <3> QED BY <2>7, <3>1 DEF GoesFurther, EndComes, AllPlayed
  <2> QED BY <2>4, <2>5, <2>6, <2>7
<1> QED BY <1>1, AlwaysWhole, AlwaysInOrder, AlwaysKept, AlwaysGoesFurther, PTL
=============================================================================
