--------------------------- MODULE DuelTableProofs ---------------------------
(***************************************************************************)
(* Proofs about DuelTable for every table: any guests, decks, faces of a    *)
(* die and kinds of tables, any number of rounds, failed starts and         *)
(* restarts.                                                               *)
(***************************************************************************)
EXTENDS DuelTable, FiniteSetTheorems, TLAPS

Lates == {"early", "reveal", "due"}

SeatsOf(kind) == 0 .. kind.size - 1

(* The shape of the rows.                                                  *)
RowsFit(kind, rows) ==
    /\ rows \in [SeatsOf(kind) -> Row \cup {Empty}]
    /\ \A s, t \in SeatsOf(kind) :
          rows[s].who = rows[t].who /\ rows[s].who \in Humans => s = t
    /\ \E s \in SeatsOf(kind) : rows[s].who = Organizer
    /\ \A s \in SeatsOf(kind) : rows[s].ready => rows[s].deck # NoDeck

AreReady(kind, rows) == \A s \in SeatsOf(kind) : rows[s].ready

(* Hands that name a winner, and a winner that has chosen.                 *)
HandsTell(o) ==
    /\ o \in Rps
    /\ o.phase # "rps" <=> o.winner # -1
    /\ o.phase = "start" <=> o.choice # "none"
    /\ o.phase # "rps" => Beats(o.picks[o.winner], o.picks[Other(o.winner)])

(* The ranks are those that the rolls so far give, and they count.         *)
Level(rounds, s, t) == \A i \in 1..Len(rounds) : rounds[i][s] = rounds[i][t]

RollsTell(places, o) ==
    /\ o \in Dice(places)
    /\ RanksCount(o.rank)
    /\ \A s, t \in places : Higher(o.rounds, s, t) => o.rank[s] < o.rank[t]
    /\ o.phase = "dice" =>
          \A s, t \in places : Level(o.rounds, s, t) => o.rank[s] = o.rank[t]
    /\ o.phase = "start" =>
          \A s, t \in places : o.rank[s] = o.rank[t] => s = t

OpeningFits(kind, o) ==
    \/ kind.order = "rps" /\ HandsTell(o)
    \/ kind.order = "dice" /\ RollsTell(SeatsOf(kind), o) /\ Len(o.rounds) \in 1..MaxRolls

(* A worker that is being made knows the decks of all who are ready, and an *)
(* opening it was made for is settled.                                     *)
JobFits(kind, rows, o, j) ==
    /\ j.pc \in {"idle", "begin", "create"}
    /\ j.decks \in [SeatsOf(kind) -> Decks \cup {NoDeck}]
    /\ j.pc = "create" =>
          /\ \A s \in SeatsOf(kind) : rows[s].ready => j.decks[s] = rows[s].deck
          /\ o # NoOpening => o.phase = "start"

(* The rows of a settled opening are in the order that was told.           *)
IsInOrder(kind, rows, story) ==
    \A s, t \in SeatsOf(kind) :
        s # t /\ Before(story.opening, s, t)
            => \E i, j \in SeatsOf(kind) : i < j /\ rows[i].who = story.who[s]
                                                 /\ rows[j].who = story.who[t]

IInv ==
    /\ table \in Tables /\ status \in {"lobby", "active", "cancelled"}
    /\ RowsFit(table, seats)
    /\ opening # NoOpening => OpeningFits(table, opening) /\ AreReady(table, seats)
    /\ opening # NoOpening /\ opening.phase = "start" => IsInOrder(table, seats, told)
    /\ JobFits(table, seats, opening, job)
    /\ late \in Lates /\ backoff \in BOOLEAN
    /\ failures \in 0..MaxFailures /\ restarts \in 0..MaxRestarts

-----------------------------------------------------------------------------
(* Places at the table.                                                    *)

LEMMA PlacesOfTables ==
  ASSUME NEW kind \in Tables
  PROVE  /\ kind.size \in 2..4 /\ 0 \in SeatsOf(kind)
         /\ IsFiniteSet(SeatsOf(kind)) /\ Cardinality(SeatsOf(kind)) = kind.size
         /\ kind.order \in {"rps", "dice", "none"}
         /\ kind.order = "rps" => SeatsOf(kind) = Pair
<1>1. kind \in TableKind /\ (kind.order = "rps" => kind.size = 2)
  BY TablesAssumption DEF TablesAssumption
<1>2. kind.size \in 2..4 /\ kind.order \in {"rps", "dice", "none"}
  BY <1>1 DEF TableKind
<1>3. IsFiniteSet(SeatsOf(kind)) /\ Cardinality(SeatsOf(kind)) = kind.size
  BY <1>2, FS_Interval DEF SeatsOf
<1>4. kind.order = "rps" => SeatsOf(kind) = Pair
  BY <1>1 DEF SeatsOf, Pair
<1> QED BY <1>2, <1>3, <1>4 DEF SeatsOf

-----------------------------------------------------------------------------
(* Ranks that count, and what a roll makes of them.                        *)

LEMMA CountOf ==
  ASSUME NEW P, IsFiniteSet(P), NEW S \in SUBSET P
  PROVE  /\ IsFiniteSet(S) /\ Cardinality(S) \in Nat /\ Cardinality(S) <= Cardinality(P)
         /\ S # P => Cardinality(S) < Cardinality(P)
<1>1. IsFiniteSet(S) /\ Cardinality(S) <= Cardinality(P) /\ (Cardinality(P) = Cardinality(S) => P = S)
  BY FS_Subset
<1>2. Cardinality(S) \in Nat /\ Cardinality(P) \in Nat
  BY <1>1, FS_CardinalityType
<1> QED BY <1>1, <1>2

(* A rank is followed by as many free ones as there are seats that share it. *)
LEMMA RanksSeparate ==
  ASSUME NEW P, IsFiniteSet(P), NEW rank \in [P -> Nat], RanksCount(rank),
         NEW s \in P, NEW t \in P, rank[t] < rank[s]
  PROVE  rank[t] + Cardinality({u \in P : rank[u] = rank[t]}) <= rank[s]
<1> DEFINE A == {u \in P : rank[u] < rank[t]}
           B == {u \in P : rank[u] = rank[t]}
           C == {u \in P : rank[u] < rank[s]}
<1>1. rank[t] = Cardinality(A) /\ rank[s] = Cardinality(C)
  BY DEF RanksCount
<1>2. A \cap B = {} /\ A \cup B \subseteq C
  OBVIOUS
<1>3. IsFiniteSet(A) /\ IsFiniteSet(B) /\ IsFiniteSet(C)
  BY CountOf
<1> HIDE DEF A, B, C
<1>4. Cardinality(A \cup B) = Cardinality(A) + Cardinality(B) - Cardinality({})
  BY <1>2, <1>3, FS_Union
<1>5. Cardinality(A \cup B) <= Cardinality(C)
  BY <1>2, <1>3, FS_Subset
<1>6. Cardinality({}) = 0 /\ Cardinality(A) \in Nat /\ Cardinality(B) \in Nat
  BY <1>3, FS_EmptySet, FS_CardinalityType
<1>7. rank[t] + Cardinality(B) <= rank[s]
  BY <1>1, <1>4, <1>5, <1>6
<1> QED BY <1>7 DEF B

(* The seats that share the rank of a seat and rolled higher.              *)
Over(P, rank, roll, s) == {t \in {u \in P : rank[u] = rank[s]} : roll[t] > roll[s]}

(* Tied seats fall apart by their roll, and stay behind those before them. *)
LEMMA RollRanks ==
  ASSUME NEW P, IsFiniteSet(P), NEW rank \in [P -> Nat], RanksCount(rank),
         NEW roll \in [P -> Nat], NEW new,
         new = [s \in P |-> rank[s] + Cardinality(Over(P, rank, roll, s))]
  PROVE  /\ new \in [P -> Nat] /\ RanksCount(new)
         /\ \A s, t \in P : rank[s] < rank[t] => new[s] < new[t]
         /\ \A s, t \in P : rank[s] = rank[t] => (roll[s] > roll[t] <=> new[s] < new[t])
<1> DEFINE Group(s) == {u \in P : rank[u] = rank[s]}
           Ahead(s) == Over(P, rank, roll, s)
<1>1. \A s \in P : /\ new[s] = rank[s] + Cardinality(Ahead(s))
                   /\ IsFiniteSet(Group(s)) /\ Cardinality(Group(s)) \in Nat
                   /\ IsFiniteSet(Ahead(s)) /\ Cardinality(Ahead(s)) \in Nat
                   /\ Cardinality(Ahead(s)) < Cardinality(Group(s))
  <2> TAKE s \in P
  <2>1. Ahead(s) \subseteq Group(s) /\ Group(s) \subseteq P /\ Ahead(s) # Group(s)
    BY DEF Over
  <2>2. new[s] = rank[s] + Cardinality(Ahead(s))
    OBVIOUS
  <2> HIDE DEF Ahead, Group
  <2>3. IsFiniteSet(Group(s)) /\ Cardinality(Group(s)) \in Nat
    BY <2>1, CountOf
  <2>4. IsFiniteSet(Ahead(s)) /\ Cardinality(Ahead(s)) \in Nat /\ Cardinality(Ahead(s)) < Cardinality(Group(s))
    BY <2>1, <2>3, CountOf
  <2> QED BY <2>2, <2>3, <2>4
<1>2. new \in [P -> Nat]
  <2>1. \A s \in P : rank[s] \in Nat /\ new[s] \in Nat
    <3> HIDE DEF Ahead, Group
    <3> QED BY <1>1
  <2>2. new = [s \in P |-> new[s]]
    OBVIOUS
  <2> QED BY <2>1, <2>2
<1>3. \A s, t \in P : rank[s] < rank[t] => new[s] < new[t]
  <2> SUFFICES ASSUME NEW s \in P, NEW t \in P, rank[s] < rank[t] PROVE new[s] < new[t]
    OBVIOUS
  <2>1. rank[s] + Cardinality(Group(s)) <= rank[t]
    BY RanksSeparate
  <2> HIDE DEF Group, Ahead
  <2> QED BY <1>1, <2>1
<1>4. \A s, t \in P : rank[s] = rank[t] => (roll[s] > roll[t] <=> new[s] < new[t])
  <2> SUFFICES ASSUME NEW s \in P, NEW t \in P, rank[s] = rank[t]
               PROVE  roll[s] > roll[t] <=> new[s] < new[t]
    OBVIOUS
  <2>1. roll[s] > roll[t] => Ahead(s) \subseteq Ahead(t) /\ Ahead(s) # Ahead(t)
    <3> SUFFICES ASSUME roll[s] > roll[t] PROVE s \in Ahead(t) /\ s \notin Ahead(s) /\ Ahead(s) \subseteq Ahead(t)
      OBVIOUS
    <3> QED BY DEF Over
  <2>2. ~(roll[s] > roll[t]) => Ahead(t) \subseteq Ahead(s)
    BY DEF Over
  <2> HIDE DEF Ahead
  <2>3. roll[s] > roll[t] => Cardinality(Ahead(s)) < Cardinality(Ahead(t))
    BY <1>1, <2>1, CountOf
  <2>4. ~(roll[s] > roll[t]) => Cardinality(Ahead(t)) <= Cardinality(Ahead(s))
    BY <1>1, <2>2, CountOf
  <2>5. /\ new[s] = rank[s] + Cardinality(Ahead(s)) /\ new[t] = rank[s] + Cardinality(Ahead(t))
        /\ Cardinality(Ahead(s)) \in Nat /\ Cardinality(Ahead(t)) \in Nat /\ rank[s] \in Nat
    BY <1>1
  <2>6. CASE roll[s] > roll[t]
    BY <2>3, <2>5, <2>6
  <2>7. CASE ~(roll[s] > roll[t])
    BY <2>4, <2>5, <2>7
  <2> QED BY <2>6, <2>7
<1>5. ASSUME NEW s \in P PROVE new[s] = Cardinality({t \in P : new[t] < new[s]})
  <2> DEFINE First == {t \in P : rank[t] < rank[s]}
             Now == {t \in P : new[t] < new[s]}
  <2>1. rank[s] = Cardinality(First)
    BY DEF RanksCount
  <2>2. Now = First \cup Ahead(s) /\ First \cap Ahead(s) = {}
    <3>1. \A t \in P : rank[t] \in Nat /\ new[t] \in Nat
      BY <1>2
    <3>2. ASSUME NEW t \in P PROVE t \in Now <=> t \in First \/ t \in Ahead(s)
      <4>1. CASE rank[t] < rank[s]
        BY <4>1, <1>3, <3>1
      <4>2. CASE rank[t] = rank[s]
        <5>1. roll[t] > roll[s] <=> new[t] < new[s]
          BY <4>2, <1>4
        <5> QED BY <4>2, <5>1, <3>1 DEF Over
      <4>3. CASE rank[s] < rank[t]
        <5>1. new[s] < new[t]
          BY <4>3, <1>3
        <5> QED BY <4>3, <5>1, <3>1 DEF Over
      <4> QED BY <4>1, <4>2, <4>3, <3>1
    <3>3. Ahead(s) \subseteq P
      BY DEF Over
    <3>4. First \cap Ahead(s) = {}
      BY <3>1 DEF Over
    <3> QED BY <3>2, <3>3, <3>4
  <2>3. IsFiniteSet(First) /\ IsFiniteSet(Ahead(s))
    BY CountOf, <1>1
  <2> HIDE DEF First, Now, Ahead
  <2>4. Cardinality(Now) = Cardinality(First) + Cardinality(Ahead(s)) - Cardinality({})
    BY <2>2, <2>3, FS_Union
  <2>5. Cardinality({}) = 0 /\ Cardinality(First) \in Nat /\ Cardinality(Ahead(s)) \in Nat
    BY <2>3, FS_EmptySet, FS_CardinalityType
  <2>6. new[s] = Cardinality(Now)
    <3>1. new[s] = rank[s] + Cardinality(Ahead(s))
      BY <1>1
    <3> QED BY <2>1, <2>4, <2>5, <3>1
  <2> QED BY <2>6 DEF Now
<1>6. RanksCount(new)
  BY <1>5 DEF RanksCount
<1> QED BY <1>2, <1>3, <1>4, <1>6

(* What one more round says of two seats.                                  *)
LEMMA OneMoreRound ==
  ASSUME NEW T, NEW rounds \in Seq(T), NEW roll \in T, NEW s, NEW t
  PROVE  /\ Append(rounds, roll) \in Seq(T) /\ Len(Append(rounds, roll)) = Len(rounds) + 1
         /\ Higher(Append(rounds, roll), s, t)
               => Higher(rounds, s, t) \/ (Level(rounds, s, t) /\ roll[s] > roll[t])
         /\ Level(Append(rounds, roll), s, t) => Level(rounds, s, t) /\ roll[s] = roll[t]
<1> DEFINE more == Append(rounds, roll)
           n == Len(rounds)
<1>1. /\ more \in Seq(T) /\ Len(more) = n + 1 /\ n \in Nat /\ more[n + 1] = roll
      /\ \A i \in 1..n : more[i] = rounds[i]
  OBVIOUS
<1> HIDE DEF more, n
<1>2. Higher(more, s, t) => Higher(rounds, s, t) \/ (Level(rounds, s, t) /\ roll[s] > roll[t])
  <2> SUFFICES ASSUME NEW i \in 1..Len(more), more[i][s] > more[i][t],
                      \A j \in 1 .. i - 1 : more[j][s] = more[j][t]
               PROVE  Higher(rounds, s, t) \/ (Level(rounds, s, t) /\ roll[s] > roll[t])
    BY DEF Higher
  <2>1. CASE i \in 1..n
    <3>1. \A j \in 1 .. i - 1 : rounds[j][s] = rounds[j][t]
      BY <2>1, <1>1
    <3> QED BY <2>1, <3>1, <1>1 DEF Higher, n
  <2>2. CASE i = n + 1
    <3>1. \A j \in 1..n : rounds[j][s] = rounds[j][t]
      BY <2>2, <1>1
    <3> QED BY <2>2, <3>1, <1>1 DEF Level, n
  <2> QED BY <2>1, <2>2, <1>1
<1>3. Level(more, s, t) => Level(rounds, s, t) /\ roll[s] = roll[t]
  <2> SUFFICES ASSUME \A i \in 1 .. n + 1 : more[i][s] = more[i][t]
               PROVE  Level(rounds, s, t) /\ roll[s] = roll[t]
    BY <1>1 DEF Level
  <2>1. \A i \in 1..n : rounds[i][s] = rounds[i][t]
    BY <1>1
  <2>2. roll[s] = roll[t]
    BY <1>1
  <2> QED BY <2>1, <2>2 DEF Level, n
<1> QED BY <1>1, <1>2, <1>3 DEF more, n

LEMMA FacesCompare ==
  Faces \cup {0} \subseteq Nat /\ MaxRolls \in Nat \ {0}
BY DiceAssumption DEF DiceAssumption

LEMMA RollingTells ==
  ASSUME NEW P, IsFiniteSet(P), NEW o, RollsTell(P, o), o.phase = "dice",
         NEW new \in Rolled(o)
  PROVE  RollsTell(P, new) /\ new.phase = "dice" /\ Len(new.rounds) = Len(o.rounds) + 1
<1>1. /\ o \in Dice(P) /\ o.rank \in [P -> Nat] /\ DOMAIN o.rank = P /\ RanksCount(o.rank)
      /\ o.rounds \in Seq([P -> Faces \cup {0}])
  BY DEF RollsTell, Dice
<1>2. PICK roll \in [P -> Faces \cup {0}] :
        new = [o EXCEPT !.rounds = Append(o.rounds, roll),
                        !.rank = [s \in P |-> o.rank[s] + Cardinality(Over(P, o.rank, roll, s))]]
  <2>1. PICK roll \in [P -> Faces \cup {0}] :
          new = [o EXCEPT !.rounds = Append(@, roll),
                          !.rank = [s \in DOMAIN o.rank |->
                              @[s] + Cardinality({t \in Tied(o, s) : roll[t] > roll[s]})]]
    BY <1>1 DEF Rolled
  <2>2. \A s \in P : {t \in Tied(o, s) : roll[t] > roll[s]} = Over(P, o.rank, roll, s)
    BY <1>1 DEF Tied, Over
  <2>3. [s \in DOMAIN o.rank |-> o.rank[s] + Cardinality({t \in Tied(o, s) : roll[t] > roll[s]})]
      = [s \in P |-> o.rank[s] + Cardinality(Over(P, o.rank, roll, s))]
    BY <1>1, <2>2
  <2> QED BY <2>1, <2>3
<1> DEFINE rank == [s \in P |-> o.rank[s] + Cardinality(Over(P, o.rank, roll, s))]
<1>3. roll \in [P -> Nat]
  BY FacesCompare
<1>4. /\ rank \in [P -> Nat] /\ RanksCount(rank)
      /\ \A s, t \in P : o.rank[s] < o.rank[t] => rank[s] < rank[t]
      /\ \A s, t \in P : o.rank[s] = o.rank[t] => (roll[s] > roll[t] <=> rank[s] < rank[t])
  <2>1. rank = [s \in P |-> o.rank[s] + Cardinality(Over(P, o.rank, roll, s))]
    OBVIOUS
  <2> HIDE DEF rank
  <2>2. IsFiniteSet(P) /\ o.rank \in [P -> Nat] /\ RanksCount(o.rank) /\ roll \in [P -> Nat]
    BY <1>1, <1>3
  <2> QED BY <2>1, <2>2, RollRanks
<1> HIDE DEF rank
<1>5. \A s, t \in P :
        /\ Append(o.rounds, roll) \in Seq([P -> Faces \cup {0}])
        /\ Len(Append(o.rounds, roll)) = Len(o.rounds) + 1
        /\ Higher(Append(o.rounds, roll), s, t)
              => Higher(o.rounds, s, t) \/ (Level(o.rounds, s, t) /\ roll[s] > roll[t])
        /\ Level(Append(o.rounds, roll), s, t) => Level(o.rounds, s, t) /\ roll[s] = roll[t]
  BY <1>1, OneMoreRound
<1>6. Append(o.rounds, roll) \in Seq([P -> Faces \cup {0}])
      /\ Len(Append(o.rounds, roll)) = Len(o.rounds) + 1
  BY <1>1
<1>7. /\ new \in Dice(P) /\ new.rank = rank /\ new.rounds = Append(o.rounds, roll)
      /\ new.phase = "dice"
  BY <1>1, <1>2, <1>4, <1>6 DEF Dice, rank
<1>8. ASSUME NEW s \in P, NEW t \in P, Higher(new.rounds, s, t) PROVE rank[s] < rank[t]
  <2>1. CASE Higher(o.rounds, s, t)
    BY <2>1, <1>4 DEF RollsTell
  <2>2. CASE Level(o.rounds, s, t) /\ roll[s] > roll[t]
    BY <2>2, <1>4 DEF RollsTell
  <2> QED BY <1>5, <1>7, <1>8, <2>1, <2>2
<1>9. ASSUME NEW s \in P, NEW t \in P, Level(new.rounds, s, t) PROVE rank[s] = rank[t]
  <2>1. Level(o.rounds, s, t) /\ roll[s] = roll[t]
    BY <1>5, <1>7, <1>9
  <2>2. o.rank[s] = o.rank[t]
    BY <2>1 DEF RollsTell
  <2>3. ~(rank[s] < rank[t]) /\ ~(rank[t] < rank[s])
    BY <1>3, <1>4, <2>1, <2>2
  <2> QED BY <1>4, <2>3
<1> QED BY <1>4, <1>6, <1>7, <1>8, <1>9 DEF RollsTell

(* A shuffle gives every seat a rank of its own.                           *)
LEMMA OwnRanksCount ==
  ASSUME NEW P, IsFiniteSet(P), NEW rank \in [P -> 0 .. Cardinality(P) - 1],
         \A s, t \in P : s # t => rank[s] # rank[t]
  PROVE  rank \in [P -> Nat] /\ RanksCount(rank)
<1> DEFINE n == Cardinality(P)
<1>1. n \in Nat
  BY FS_CardinalityType
<1>2. rank \in Injection(P, 0 .. n - 1)
  BY DEF Injection, IsInjective
<1>3. IsFiniteSet(0 .. n - 1) /\ Cardinality(0 .. n - 1) = n
  BY <1>1, FS_Interval
<1>4. rank \in Surjection(P, 0 .. n - 1)
  <2> HIDE DEF n
  <2>1. Cardinality(P) = Cardinality(0 .. n - 1)
    BY <1>3 DEF n
  <2> QED BY <1>2, <1>3, <2>1, FS_Injection
<1>5. ASSUME NEW s \in P PROVE rank[s] = Cardinality({t \in P : rank[t] < rank[s]})
  <2> DEFINE T == {t \in P : rank[t] < rank[s]}
             f == [t \in T |-> rank[t]]
  <2>1. rank[s] \in 0 .. n - 1 /\ rank[s] \in Nat
    BY <1>1
  <2>2. f \in Bijection(T, 0 .. rank[s] - 1)
    <3>1. f \in [T -> 0 .. rank[s] - 1]
      BY <1>1
    <3>2. \A t, u \in T : f[t] = f[u] => t = u
      OBVIOUS
    <3>3. ASSUME NEW k \in 0 .. rank[s] - 1 PROVE \E t \in T : f[t] = k
      <4>1. PICK t \in P : rank[t] = k
        BY <1>1, <1>4, <2>1 DEF Surjection
      <4>2. t \in T
        BY <4>1, <2>1
      <4> QED BY <4>1, <4>2
    <3> HIDE DEF f, T
    <3> QED BY <3>1, <3>2, <3>3 DEF Bijection, Injection, Surjection, IsInjective
  <2>3. IsFiniteSet(T)
    BY CountOf
  <2>4. Cardinality(0 .. rank[s] - 1) = rank[s]
    BY <2>1, FS_Interval
  <2> HIDE DEF T, f
  <2>5. Cardinality(0 .. rank[s] - 1) = Cardinality(T)
    BY <2>2, <2>3, FS_Bijection DEF ExistsBijection
  <2> QED BY <2>4, <2>5 DEF T
<1>6. rank \in [P -> Nat]
  BY <1>1
<1> QED BY <1>5, <1>6 DEF RanksCount

LEMMA ShufflingTells ==
  ASSUME NEW P, IsFiniteSet(P), NEW o, RollsTell(P, o), NEW new \in Shuffled(o)
  PROVE  RollsTell(P, new) /\ new.phase = "start" /\ new.rounds = o.rounds
<1>1. o \in Dice(P) /\ DOMAIN o.rank = P
  BY DEF RollsTell, Dice
<1>2. PICK rank \in [P -> 0 .. Cardinality(P) - 1] :
        /\ new = [o EXCEPT !.phase = "start", !.rank = rank]
        /\ \A s, t \in P : s # t => rank[s] # rank[t]
        /\ \A s, t \in P : o.rank[s] < o.rank[t] => rank[s] < rank[t]
  <2>1. PICK rank \in {r \in [P -> 0 .. Cardinality(P) - 1] :
                          /\ \A s, t \in P : s # t => r[s] # r[t]
                          /\ \A s, t \in P : o.rank[s] < o.rank[t] => r[s] < r[t]} :
          new = [o EXCEPT !.phase = "start", !.rank = rank]
    BY <1>1 DEF Shuffled
  <2> QED BY <2>1
<1>3. rank \in [P -> Nat] /\ RanksCount(rank)
  BY <1>2, OwnRanksCount
<1>4. /\ new \in Dice(P) /\ new.rank = rank /\ new.rounds = o.rounds /\ new.phase = "start"
  BY <1>1, <1>2, <1>3 DEF Dice
<1> QED BY <1>2, <1>3, <1>4 DEF RollsTell

LEMMA ResolvedTells ==
  ASSUME NEW P, NEW o, RollsTell(P, o), Resolved(o), NEW new,
         new = [o EXCEPT !.phase = "start"]
  PROVE  RollsTell(P, new) /\ new.phase = "start" /\ new.rounds = o.rounds
<1>1. o \in Dice(P) /\ DOMAIN o.rank = P
  BY DEF RollsTell, Dice
<1>2. new \in Dice(P) /\ new.rank = o.rank /\ new.rounds = o.rounds /\ new.phase = "start"
  BY <1>1 DEF Dice
<1>3. \A s, t \in P : o.rank[s] = o.rank[t] => s = t
  BY <1>1 DEF Resolved, Tied
<1> QED BY <1>2, <1>3 DEF RollsTell

LEMMA NewDiceTells ==
  ASSUME NEW P, IsFiniteSet(P), NEW new \in NewDice(P)
  PROVE  RollsTell(P, new) /\ Len(new.rounds) \in 1..MaxRolls
<1> DEFINE o == [kind |-> "dice", phase |-> "dice", rounds |-> <<>>, rank |-> [s \in P |-> 0]]
<1>1. o \in Dice(P) /\ o.phase = "dice" /\ Len(o.rounds) = 0 /\ o.rank = [s \in P |-> 0]
  BY DEF Dice
<1>2. RanksCount(o.rank)
  <2>1. \A s \in P : {t \in P : o.rank[t] < o.rank[s]} = {}
    OBVIOUS
  <2> QED BY <1>1, <2>1, FS_EmptySet DEF RanksCount
<1>3. new \in Rolled(o)
  BY DEF NewDice
<1> HIDE DEF o
<1>4. \A s, t \in P : ~Higher(o.rounds, s, t) /\ o.rank[s] = o.rank[t]
  BY <1>1 DEF Higher
<1>5. RollsTell(P, o)
  BY <1>1, <1>2, <1>4 DEF RollsTell
<1>6. RollsTell(P, new) /\ Len(new.rounds) = 1
  <2>1. RollsTell(P, new) /\ Len(new.rounds) = Len(o.rounds) + 1
    BY <1>1, <1>3, <1>5, RollingTells
  <2> QED BY <1>1, <2>1
<1> QED BY <1>6, FacesCompare

LEMMA DiceTimeoutTells ==
  ASSUME NEW P, IsFiniteSet(P), NEW o, RollsTell(P, o), o.phase = "dice",
         Len(o.rounds) \in 1..MaxRolls, NEW new \in DiceTimeout(o)
  PROVE  RollsTell(P, new) /\ Len(new.rounds) \in 1..MaxRolls
<1>1. CASE Resolved(o)
  BY <1>1, ResolvedTells DEF DiceTimeout
<1>2. CASE ~Resolved(o) /\ Len(o.rounds) >= MaxRolls
  BY <1>2, ShufflingTells DEF DiceTimeout
<1>3. CASE ~Resolved(o) /\ ~(Len(o.rounds) >= MaxRolls)
  <2>1. RollsTell(P, new) /\ Len(new.rounds) = Len(o.rounds) + 1
    BY <1>3, RollingTells DEF DiceTimeout
  <2> QED BY <1>3, <2>1, FacesCompare
<1> QED BY <1>1, <1>2, <1>3

-----------------------------------------------------------------------------
(* Rock-paper-scissors names a winner, who chooses.                        *)

LEMMA HandsDiffer ==
  ASSUME NEW a \in Hands, NEW b \in Hands, a # b
  PROVE  (Beats(a, b) \/ Beats(b, a)) /\ ~(Beats(a, b) /\ Beats(b, a))
BY DEF Hands, Beats

LEMMA DecideTells ==
  ASSUME NEW o \in Rps, o.phase = "rps", o.winner = -1, o.choice = "none"
  PROVE  HandsTell(Decide(o))
<1>1. o.picks \in [Pair -> Hands \cup {"none"}] /\ 0 \in Pair /\ 1 \in Pair
      /\ \A seat \in Pair : Other(seat) \in Pair /\ (seat = 0 \/ seat = 1)
  BY DEF Rps, Pair, Other
<1>2. CASE \E seat \in Pair : o.picks[seat] = "none"
  BY <1>2 DEF Decide, HandsTell
<1>3. CASE (\A seat \in Pair : o.picks[seat] # "none") /\ o.picks[0] = o.picks[1]
  <2> DEFINE new == [o EXCEPT !.round = @ + 1, !.picks = NoPicks]
  <2>1. Decide(o) = new
    BY <1>3 DEF Decide
  <2>2. o.round + 1 \in Nat \ {0} /\ NoPicks \in [Pair -> Hands \cup {"none"}]
    BY DEF Rps, NoPicks
  <2>3. new \in Rps /\ new.phase = "rps" /\ new.winner = -1 /\ new.choice = "none"
    BY <2>2 DEF Rps
  <2> QED BY <2>1, <2>3 DEF HandsTell
<1>4. CASE (\A seat \in Pair : o.picks[seat] # "none") /\ o.picks[0] # o.picks[1]
  <2> DEFINE w == CHOOSE seat \in Pair : Beats(o.picks[seat], o.picks[Other(seat)])
             new == [o EXCEPT !.phase = "choose", !.winner = w]
  <2>1. Decide(o) = new
    BY <1>4 DEF Decide
  <2>2. o.picks[0] \in Hands /\ o.picks[1] \in Hands /\ Other(0) = 1 /\ Other(1) = 0
    BY <1>1, <1>4 DEF Other
  <2>3. \E seat \in Pair : Beats(o.picks[seat], o.picks[Other(seat)])
    BY <1>1, <1>4, <2>2, HandsDiffer
  <2>4. w \in Pair /\ Beats(o.picks[w], o.picks[Other(w)])
    BY <2>3
  <2> HIDE DEF w
  <2>5. /\ new \in Rps /\ new.phase = "choose" /\ new.winner = w /\ new.choice = "none"
        /\ new.picks = o.picks
    BY <2>4 DEF Rps
  <2>6. w # -1
    BY <2>4 DEF Pair
  <2> QED BY <2>1, <2>4, <2>5, <2>6 DEF HandsTell
<1> QED BY <1>2, <1>3, <1>4

LEMMA NewRpsTells == HandsTell(NewRps)
<1>1. NoPicks \in [Pair -> Hands \cup {"none"}]
  BY DEF NoPicks
<1>2. /\ NewRps \in Rps /\ NewRps.phase = "rps" /\ NewRps.winner = -1
      /\ NewRps.choice = "none"
  BY <1>1 DEF NewRps, Rps
<1> QED BY <1>2 DEF HandsTell

LEMMA ThrowTells ==
  ASSUME NEW o, HandsTell(o), NEW seat \in Pair, NEW hand \in Hands, MayThrow(o, seat)
  PROVE  HandsTell(Throw(o, seat, hand))
<1> DEFINE new == [o EXCEPT !.picks[seat] = hand]
<1>1. /\ new \in Rps /\ new.phase = "rps" /\ new.winner = -1 /\ new.choice = "none"
  BY DEF HandsTell, MayThrow, Rps
<1> QED BY <1>1, DecideTells DEF Throw

LEMMA ChosenTells ==
  ASSUME NEW o, HandsTell(o), o.phase = "choose", NEW choice \in {"first", "second"}
  PROVE  HandsTell(Chosen(o, choice)) /\ Chosen(o, choice).phase = "start"
<1>1. /\ Chosen(o, choice) \in Rps /\ Chosen(o, choice).phase = "start"
      /\ Chosen(o, choice).winner = o.winner /\ Chosen(o, choice).choice = choice
      /\ Chosen(o, choice).picks = o.picks
  BY DEF HandsTell, Chosen, Rps
<1> QED BY <1>1 DEF HandsTell

LEMMA RpsTimeoutTells ==
  ASSUME NEW o, HandsTell(o), o.phase # "start", NEW new \in RpsTimeout(o)
  PROVE  HandsTell(new)
<1>1. CASE o.phase = "choose"
  BY <1>1, ChosenTells DEF RpsTimeout
<1>2. CASE o.phase = "rps"
  <2>1. PICK hands \in [Pair -> Hands] : new = Decide([o EXCEPT !.picks = hands])
    BY <1>2 DEF RpsTimeout
  <2> DEFINE full == [o EXCEPT !.picks = hands]
  <2>2. full \in Rps /\ full.phase = "rps" /\ full.winner = -1 /\ full.choice = "none"
    BY <1>2 DEF HandsTell, Rps
  <2> QED BY <2>1, <2>2, DecideTells
<1> QED BY <1>1, <1>2 DEF HandsTell, Rps

-----------------------------------------------------------------------------
(* What driveOpening makes of an opening.                                  *)

LEMMA TimeoutFits ==
  ASSUME table \in Tables, NEW o, OpeningFits(table, o), NEW l \in Lates,
         NEW t \in Timeout(o, l)
  PROVE  OpeningFits(table, t.o) /\ t.late \in Lates /\ (o.phase = "start" => t.o = o)
<1>1. CASE o.phase = "start" \/ l # "due"
  BY <1>1 DEF Timeout, Timed, Lates
<1>2. CASE o.phase # "start" /\ l = "due"
  <2>1. PICK after \in IF o.kind = "rps" THEN RpsTimeout(o) ELSE DiceTimeout(o) :
          t = Timed(o, l, after)
    BY <1>2 DEF Timeout
  <2>2. OpeningFits(table, after)
    <3>1. CASE table.order = "rps" /\ HandsTell(o)
      <4>1. o.kind = "rps"
        BY <3>1 DEF HandsTell, Rps
      <4> QED BY <1>2, <2>1, <3>1, <4>1, RpsTimeoutTells DEF OpeningFits
    <3>2. CASE table.order = "dice" /\ RollsTell(SeatsOf(table), o) /\ Len(o.rounds) \in 1..MaxRolls
      <4>1. o.kind = "dice" /\ o.phase = "dice"
        BY <1>2, <3>2 DEF RollsTell, Dice
      <4> QED BY <2>1, <3>2, <4>1, PlacesOfTables, DiceTimeoutTells DEF OpeningFits
    <3> QED BY <3>1, <3>2 DEF OpeningFits
  <2>3. t.o = after /\ t.late \in Lates
    BY <2>1 DEF Timed, Lates
  <2> QED BY <1>2, <2>2, <2>3
<1> QED BY <1>1, <1>2

LEMMA BotActsFits ==
  ASSUME table \in Tables, NEW o, OpeningFits(table, o), NEW l \in Lates,
         NEW new \in BotActs(o, l)
  PROVE  OpeningFits(table, new) /\ (o.phase = "start" => new = o)
<1>1. BotSeats \subseteq SeatsOf(table)
  BY DEF BotSeats, Places, SeatsOf
<1>2. CASE \A s \in BotSeats : ~MayThrow(o, s) /\ ~MayChoose(o, s)
  BY <1>2 DEF BotActs
<1>3. CASE \E s \in BotSeats : MayThrow(o, s) \/ MayChoose(o, s)
  <2>1. o.kind = "rps" /\ o.phase # "start"
    BY <1>3 DEF MayThrow, MayChoose
  <2>2. table.order = "rps" /\ HandsTell(o) /\ BotSeats \subseteq Pair
    BY <1>1, <2>1, PlacesOfTables DEF OpeningFits, RollsTell, Dice
  <2>3. CASE \E s \in BotSeats : MayThrow(o, s)
    <3>1. PICK s \in BotSeats : MayThrow(o, s) /\ new \in BotThrows(o, s)
      BY <2>3 DEF BotActs
    <3>2. PICK after \in Throws(o, s) :
            new \in IF MayThrow(after, s) THEN Throws(after, s) ELSE {after}
      BY <3>1 DEF BotThrows
    <3>3. HandsTell(after)
      BY <2>2, <3>1, <3>2, ThrowTells DEF Throws
    <3>4. HandsTell(new)
      BY <2>2, <3>1, <3>2, <3>3, ThrowTells DEF Throws
    <3> QED BY <2>1, <2>2, <3>4 DEF OpeningFits
  <2>4. CASE ~\E s \in BotSeats : MayThrow(o, s)
    <3>1. new = o \/ (new = Chosen(o, "first") /\ o.phase = "choose")
      BY <2>4 DEF BotActs, MayChoose
    <3> QED BY <2>1, <2>2, <3>1, ChosenTells DEF OpeningFits
  <2> QED BY <2>3, <2>4
<1> QED BY <1>2, <1>3

LEMMA DrivenFits ==
  ASSUME table \in Tables, NEW o, OpeningFits(table, o), NEW l \in Lates,
         NEW next \in Driven(o, l)
  PROVE  OpeningFits(table, next.o) /\ next.late \in Lates /\ (o.phase = "start" => next.o = o)
<1>1. PICK t \in Timeout(o, l) : next \in {Timed(t.o, t.late, after) : after \in BotActs(t.o, t.late)}
  BY DEF Driven
<1>2. PICK after \in BotActs(t.o, t.late) : next = Timed(t.o, t.late, after)
  BY <1>1
<1>3. OpeningFits(table, t.o) /\ t.late \in Lates /\ (o.phase = "start" => t.o = o)
  BY TimeoutFits
<1>4. OpeningFits(table, after) /\ (t.o.phase = "start" => after = t.o)
  BY <1>3, BotActsFits
<1>5. next.o = after /\ next.late \in Lates
  BY <1>2, <1>3 DEF Timed, Lates
<1> QED BY <1>3, <1>4, <1>5

-----------------------------------------------------------------------------
(* A settled opening moves every row to a seat of its own.                 *)

LEMMA SettledFits ==
  ASSUME table \in Tables, NEW o, OpeningFits(table, o), o.phase = "start"
  PROVE  OpeningFits(table, Settled(o)) /\ Settled(o).phase = "start"
<1>1. CASE o.kind = "rps" /\ NeedsSwap(o)
  <2>1. table.order = "rps" /\ HandsTell(o)
    BY <1>1 DEF OpeningFits, RollsTell, Dice
  <2> DEFINE picks == [seat \in Pair |-> o.picks[Other(seat)]]
             new == [o EXCEPT !.picks = picks, !.winner = Other(o.winner)]
  <2>2. /\ o.winner \in Pair /\ Other(o.winner) \in Pair /\ Other(Other(o.winner)) = o.winner
        /\ Other(o.winner) # -1
    BY <2>1 DEF HandsTell, Rps, Pair, Other
  <2>3. /\ picks \in [Pair -> Hands \cup {"none"}]
        /\ picks[Other(o.winner)] = o.picks[o.winner]
        /\ picks[Other(Other(o.winner))] = o.picks[Other(o.winner)]
    BY <2>1, <2>2 DEF HandsTell, Rps, Pair, Other
  <2> HIDE DEF picks
  <2>4. /\ new \in Rps /\ new.picks = picks /\ new.winner = Other(o.winner)
        /\ new.phase = "start" /\ new.choice = o.choice
    BY <2>1, <2>2, <2>3 DEF HandsTell, Rps
  <2>5. HandsTell(new)
    BY <2>1, <2>2, <2>3, <2>4 DEF HandsTell
  <2>6. Settled(o) = new
    BY <1>1 DEF Settled, Swapped, picks
  <2> QED BY <2>1, <2>4, <2>5, <2>6 DEF OpeningFits
<1>2. CASE ~(o.kind = "rps" /\ NeedsSwap(o))
  BY <1>2 DEF Settled
<1> QED BY <1>1, <1>2

(* Ranks that count and that no two seats share are all the places.        *)
LEMMA OwnRanksAreAll ==
  ASSUME NEW P, IsFiniteSet(P), NEW rank \in [P -> Nat], RanksCount(rank),
         \A s, t \in P : rank[s] = rank[t] => s = t
  PROVE  /\ \A s \in P : rank[s] \in 0 .. Cardinality(P) - 1
         /\ \A k \in 0 .. Cardinality(P) - 1 : \E s \in P : rank[s] = k
<1> DEFINE n == Cardinality(P)
<1>1. n \in Nat
  BY FS_CardinalityType
<1>2. ASSUME NEW s \in P PROVE rank[s] \in 0 .. n - 1
  <2> DEFINE T == {t \in P : rank[t] < rank[s]}
  <2>1. T \subseteq P /\ T # P
    OBVIOUS
  <2>2. rank[s] = Cardinality(T)
    BY DEF RanksCount
  <2> HIDE DEF T
  <2>3. Cardinality(T) \in Nat /\ Cardinality(T) < n
    BY <2>1, CountOf
  <2> QED BY <1>1, <2>2, <2>3
<1>3. rank \in Injection(P, 0 .. n - 1)
  BY <1>2 DEF Injection, IsInjective
<1>4. IsFiniteSet(0 .. n - 1) /\ Cardinality(0 .. n - 1) = n
  BY <1>1, FS_Interval
<1>5. rank \in Surjection(P, 0 .. n - 1)
  <2> HIDE DEF n
  <2>1. Cardinality(P) = Cardinality(0 .. n - 1)
    BY <1>4 DEF n
  <2> QED BY <1>3, <1>4, <2>1, FS_Injection
<1> QED BY <1>2, <1>5 DEF Surjection

LEMMA NewSeatsAreAll ==
  ASSUME table \in Tables, NEW o, OpeningFits(table, o), o.phase = "start"
  PROVE  /\ \A s \in Places : NewSeat(o, s) \in Places
         /\ \A s, t \in Places : NewSeat(o, s) = NewSeat(o, t) => s = t
         /\ \A s \in Places : \E t \in Places : NewSeat(o, t) = s
<1>1. IsFiniteSet(Places) /\ Places = 0 .. Cardinality(Places) - 1
  BY PlacesOfTables DEF Places, SeatsOf
<1>2. CASE table.order = "dice" /\ RollsTell(SeatsOf(table), o)
  <2>1. /\ o.kind = "dice" /\ o.rank \in [Places -> Nat] /\ RanksCount(o.rank)
        /\ \A s, t \in Places : o.rank[s] = o.rank[t] => s = t
    BY <1>2 DEF RollsTell, Dice, Places, SeatsOf
  <2>2. /\ \A s \in Places : o.rank[s] \in Places
        /\ \A s \in Places : \E t \in Places : o.rank[t] = s
    <3>1. /\ \A s \in Places : o.rank[s] \in 0 .. Cardinality(Places) - 1
          /\ \A s \in 0 .. Cardinality(Places) - 1 : \E t \in Places : o.rank[t] = s
      <4> DEFINE P == Places
                 rank == o.rank
      <4>1. IsFiniteSet(P) /\ rank \in [P -> Nat] /\ RanksCount(rank)
            /\ \A s, t \in P : rank[s] = rank[t] => s = t
        BY <1>1, <2>1
      <4> HIDE DEF P, rank
      <4>2. /\ \A s \in P : rank[s] \in 0 .. Cardinality(P) - 1
            /\ \A s \in 0 .. Cardinality(P) - 1 : \E t \in P : rank[t] = s
        BY <4>1, OwnRanksAreAll
      <4> QED BY <4>2 DEF P, rank
    <3> QED BY <1>1, <3>1
  <2> QED BY <2>1, <2>2 DEF NewSeat
<1>3. CASE table.order = "rps" /\ HandsTell(o)
  <2>1. o.kind = "rps" /\ Places = Pair
    BY <1>3, PlacesOfTables DEF HandsTell, Rps, Places, SeatsOf
  <2> QED BY <2>1 DEF NewSeat, Pair, Other
<1> QED BY <1>2, <1>3 DEF OpeningFits

LEMMA RowsMove ==
  ASSUME table \in Tables, NEW o, OpeningFits(table, o), o.phase = "start"
  PROVE  /\ \A t \in Places : Moved(o)[NewSeat(o, t)] = seats[t]
         /\ \A s \in Places : \E t \in Places : s = NewSeat(o, t) /\ Moved(o)[s] = seats[t]
         /\ DOMAIN Moved(o) = Places
<1>1. ASSUME NEW t \in Places PROVE Moved(o)[NewSeat(o, t)] = seats[t]
  <2>1. NewSeat(o, t) \in Places
    BY NewSeatsAreAll
  <2>2. (CHOOSE u \in Places : NewSeat(o, u) = NewSeat(o, t)) = t
    BY NewSeatsAreAll
  <2> QED BY <2>1, <2>2 DEF Moved
<1>2. ASSUME NEW s \in Places PROVE \E t \in Places : s = NewSeat(o, t) /\ Moved(o)[s] = seats[t]
  BY <1>1, NewSeatsAreAll
<1> QED BY <1>1, <1>2 DEF Moved

LEMMA MovedFits ==
  ASSUME table \in Tables, NEW o, OpeningFits(table, o), o.phase = "start",
         RowsFit(table, seats), AreReady(table, seats)
  PROVE  RowsFit(table, Moved(o)) /\ AreReady(table, Moved(o))
<1>1. Places = SeatsOf(table)
  BY DEF Places, SeatsOf
<1>2. Moved(o) \in [Places -> Row \cup {Empty}]
  <2>1. \A s \in Places : Moved(o)[s] \in Row \cup {Empty}
    BY <1>1, RowsMove DEF RowsFit
  <2>2. Moved(o) = [s \in Places |-> Moved(o)[s]]
    BY DEF Moved
  <2> QED BY <2>1, <2>2
<1>3. \A s, t \in Places :
         Moved(o)[s].who = Moved(o)[t].who /\ Moved(o)[s].who \in Humans => s = t
  BY <1>1, RowsMove DEF RowsFit
<1>4. \E s \in Places : Moved(o)[s].who = Organizer
  BY <1>1, RowsMove, NewSeatsAreAll DEF RowsFit
<1>5. \A s \in Places : Moved(o)[s].ready /\ Moved(o)[s].deck # NoDeck
  BY <1>1, RowsMove DEF RowsFit, AreReady
<1> QED BY <1>1, <1>2, <1>3, <1>4, <1>5 DEF RowsFit, AreReady

(* The rows are where the hands or the dice said they should be.           *)
LEMMA MovedInOrder ==
  ASSUME table \in Tables, NEW o, OpeningFits(table, o), o.phase = "start"
  PROVE  IsInOrder(table, Moved(o), [who |-> Who, opening |-> o])
<1>1. Places = SeatsOf(table)
  BY DEF Places, SeatsOf
<1>2. ASSUME NEW s \in Places, NEW t \in Places, s # t, Before(o, s, t)
      PROVE  NewSeat(o, s) < NewSeat(o, t)
  <2>1. CASE table.order = "dice" /\ RollsTell(SeatsOf(table), o)
    <3>1. o.kind = "dice"
      BY <2>1 DEF RollsTell, Dice
    <3> QED BY <1>1, <1>2, <2>1, <3>1 DEF RollsTell, Before, NewSeat
  <2>2. CASE table.order = "rps" /\ HandsTell(o)
    <3>1. /\ o.kind = "rps" /\ Places = Pair /\ o.winner \in Pair
          /\ o.choice \in {"first", "second"}
          /\ Beats(o.picks[o.winner], o.picks[Other(o.winner)])
      BY <1>1, <2>2, PlacesOfTables DEF HandsTell, Rps
    <3>2. ~Beats(o.picks[Other(o.winner)], o.picks[o.winner])
      BY <3>1 DEF Beats
    <3>3. (s = o.winner /\ t = Other(o.winner)) \/ (t = o.winner /\ s = Other(o.winner))
      BY <1>2, <3>1 DEF Pair, Other
    <3>4. o.choice = "first" <=> s = o.winner
      BY <1>2, <3>1, <3>2, <3>3 DEF Before, Pair, Other
    <3> QED BY <3>1, <3>3, <3>4 DEF NewSeat, NeedsSwap, Pair, Other
  <2> QED BY <2>1, <2>2 DEF OpeningFits
<1>3. ASSUME NEW s \in Places, NEW t \in Places, s # t, Before(o, s, t)
      PROVE  \E i, j \in Places : i < j /\ Moved(o)[i].who = Who[s] /\ Moved(o)[j].who = Who[t]
  <2>1. /\ NewSeat(o, s) \in Places /\ NewSeat(o, t) \in Places
        /\ Moved(o)[NewSeat(o, s)] = seats[s] /\ Moved(o)[NewSeat(o, t)] = seats[t]
    BY NewSeatsAreAll, RowsMove
  <2>2. Who[s] = seats[s].who /\ Who[t] = seats[t].who
    BY DEF Who
  <2> QED BY <1>2, <1>3, <2>1, <2>2
<1> QED BY <1>1, <1>3 DEF IsInOrder

-----------------------------------------------------------------------------
(* The initial table.                                                      *)

LEMMA RowsTyped ==
  /\ Empty.who = Nobody /\ Empty.deck = NoDeck /\ Empty.ready = FALSE
  /\ \A p \in Humans : /\ Sit(p) \in Row /\ Sit(p).who = p /\ Sit(p).ready = FALSE
                       /\ p # Bot /\ p # Nobody
  /\ Bot # Nobody /\ Organizer \in Humans
BY PeopleAssumption DEF PeopleAssumption, Empty, Sit, Row, Humans

LEMMA IdleFits ==
  ASSUME table \in Tables, NEW rows, NEW o, NEW pc \in {"idle", "begin"}
  PROVE  JobFits(table, rows, o, Job(pc, NoDecks))
<1>1. NoDecks \in [SeatsOf(table) -> Decks \cup {NoDeck}]
  BY DEF NoDecks, Places, SeatsOf
<1> QED BY <1>1 DEF JobFits, Job

LEMMA CreateFits ==
  ASSUME table \in Tables, NEW rows, RowsFit(table, rows), NEW o,
         o # NoOpening => o.phase = "start"
  PROVE  JobFits(table, rows, o, CreateGame(rows))
<1>1. DOMAIN rows = SeatsOf(table) /\ \A s \in SeatsOf(table) : rows[s].deck \in Decks \cup {NoDeck}
  BY DEF RowsFit, Row, Empty
<1>2. /\ DecksOf(rows) \in [SeatsOf(table) -> Decks \cup {NoDeck}]
      /\ \A s \in SeatsOf(table) : DecksOf(rows)[s] = rows[s].deck
  BY <1>1 DEF DecksOf
<1> QED BY <1>2 DEF JobFits, CreateGame, Job

LEMMA InitFits ==
  ASSUME Init
  PROVE  IInv
<1>1. table \in Tables /\ table \in TableKind
  BY TablesAssumption DEF Init, TablesAssumption
<1>2. Places = SeatsOf(table) /\ 0 \in Places /\ 1 \in Places
  BY <1>1, PlacesOfTables DEF Places, SeatsOf
<1>3. \/ table.players = <<Organizer>>
      \/ table.players = <<Organizer, table.players[2]>> /\ table.players[2] \in Guests
  BY <1>1, TablesAssumption DEF TablesAssumption
<1>4. PICK rival \in Guests \cup {Nobody} :
        \A s \in Places : seats[s] = IF s = 0 THEN Sit(Organizer)
                                     ELSE IF s = 1 /\ rival # Nobody THEN Sit(rival) ELSE Empty
  <2>1. CASE table.players = <<Organizer>>
    <3>1. \A s \in Places : s < Len(table.players) <=> s = 0
      BY <1>1, <2>1 DEF Places, TableKind
    <3>2. \A s \in Places : seats[s] = IF s = 0 THEN Sit(Organizer) ELSE Empty
      BY <2>1, <3>1 DEF Init
    <3> QED BY <3>2
  <2>2. CASE table.players = <<Organizer, table.players[2]>> /\ table.players[2] \in Guests
    <3> DEFINE rival == table.players[2]
    <3>1. \A s \in Places : s < Len(table.players) <=> s = 0 \/ s = 1
      <4>1. table.players = <<Organizer, rival>>
        BY <2>2
      <4> HIDE DEF rival
      <4>2. Len(table.players) = 2
        BY <4>1
      <4> QED BY <1>1, <4>2 DEF Places, TableKind
    <3>2. table.players[1] = Organizer /\ rival # Nobody
      BY <2>2, PeopleAssumption DEF PeopleAssumption, Humans
    <3>3. \A s \in Places : seats[s] = IF s = 0 THEN Sit(Organizer)
                                       ELSE IF s = 1 THEN Sit(rival) ELSE Empty
      BY <3>1, <3>2 DEF Init
    <3> QED BY <2>2, <3>2, <3>3
  <2> QED BY <1>3, <2>1, <2>2
<1>5. RowsFit(table, seats)
  <2>1. seats = [s \in Places |-> seats[s]]
    BY DEF Init
  <2>2. /\ \A s \in Places : seats[s] \in Row \cup {Empty}
        /\ \A s \in Places : ~seats[s].ready
        /\ \A s, t \in Places : seats[s].who = seats[t].who /\ seats[s].who \in Humans => s = t
        /\ seats[0].who = Organizer
    <3>1. rival # Nobody => rival \in Humans /\ rival # Organizer
      BY PeopleAssumption DEF PeopleAssumption, Humans
    <3>2. Nobody \notin Humans
      BY RowsTyped
    <3> QED BY <1>2, <1>4, <3>1, <3>2, RowsTyped
  <2> QED BY <1>2, <2>1, <2>2 DEF RowsFit
<1>6. JobFits(table, seats, opening, job)
  BY <1>1, IdleFits DEF Init, NoJob
<1>7. /\ status = "lobby" /\ opening = NoOpening /\ late = "early" /\ backoff = FALSE
      /\ failures \in 0..MaxFailures /\ restarts \in 0..MaxRestarts
  BY BoundAssumption DEF Init, BoundAssumption
<1> QED BY <1>1, <1>5, <1>6, <1>7 DEF IInv, Lates

-----------------------------------------------------------------------------
(* The opening goes on.                                                    *)

Still == UNCHANGED <<table, status, backoff, Counts>>

LEMMA DriveKeeps ==
  ASSUME IInv, Still, AreReady(table, seats),
         NEW o, OpeningFits(table, o), NEW l \in Lates,
         opening # NoOpening /\ opening.phase = "start" => o = opening,
         Drive(o, l)
  PROVE  IInv'
<1>1. PICK next \in Driven(o, l) :
        /\ Store(next.o, next.late)
        /\ job' = IF next.o.phase = "start" /\ ~backoff THEN CreateGame(seats') ELSE NoJob
  BY DEF Drive
<1>2. table \in Tables /\ RowsFit(table, seats) /\ table' = table /\ backoff \in BOOLEAN
  BY DEF IInv, Still
<1>3. OpeningFits(table, next.o) /\ next.late \in Lates /\ (o.phase = "start" => next.o = o)
  BY <1>2, DrivenFits
<1>4. /\ RowsFit(table, seats') /\ AreReady(table, seats')
      /\ OpeningFits(table, opening') /\ late' \in Lates
      /\ next.o.phase = "start" <=> opening'.phase = "start"
      /\ opening'.phase = "start" => IsInOrder(table, seats', told') \/ opening' = NoOpening
  <2>1. CASE JustDecided(next.o)
    <3>1. next.o.phase = "start" /\ opening' = Settled(next.o) /\ late' = "due"
          /\ seats' = Moved(next.o) /\ told' = [who |-> Who, opening |-> next.o]
      BY <1>1, <2>1 DEF Store, JustDecided
    <3>2. OpeningFits(table, opening') /\ opening'.phase = "start"
      BY <1>2, <1>3, <3>1, SettledFits
    <3>3. RowsFit(table, seats') /\ AreReady(table, seats')
      BY <1>2, <1>3, <3>1, MovedFits
    <3>4. IsInOrder(table, seats', told')
      BY <1>2, <1>3, <3>1, MovedInOrder
    <3> QED BY <3>1, <3>2, <3>3, <3>4 DEF Lates
  <2>2. CASE ~JustDecided(next.o)
    <3>1. opening' = next.o /\ late' = next.late /\ seats' = seats /\ told' = told
      BY <1>1, <2>2 DEF Store
    <3>2. next.o.phase = "start" => opening # NoOpening /\ opening.phase = "start"
      BY <2>2 DEF JustDecided
    <3>3. next.o.phase = "start" => IsInOrder(table, seats', told')
      BY <3>1, <3>2 DEF IInv
    <3> QED BY <1>2, <1>3, <3>1, <3>3
  <2> QED BY <2>1, <2>2
<1>5. JobFits(table, seats', opening', job')
  <2>1. CASE next.o.phase = "start" /\ ~backoff
    BY <1>1, <1>2, <1>4, <2>1, CreateFits
  <2>2. CASE ~(next.o.phase = "start" /\ ~backoff)
    BY <1>1, <1>2, <2>2, IdleFits DEF NoJob
  <2> QED BY <2>1, <2>2
<1>6. opening' # NoOpening /\ opening'.phase = "start" => IsInOrder(table, seats', told')
  BY <1>4
<1>7. /\ status' \in {"lobby", "active", "cancelled"} /\ backoff' \in BOOLEAN
      /\ failures' \in 0..MaxFailures /\ restarts' \in 0..MaxRestarts
  BY DEF IInv, Still, Counts
<1> QED BY <1>2, <1>4, <1>5, <1>6, <1>7 DEF IInv

LEMMA BeginKeeps ==
  ASSUME IInv, Still, Begin
  PROVE  IInv'
<1>1. /\ table \in Tables /\ RowsFit(table, seats) /\ late \in Lates /\ table' = table
      /\ status' = status /\ backoff' = backoff /\ failures' = failures /\ restarts' = restarts
  BY DEF IInv, Still, Counts
<1>2. Places = SeatsOf(table)
  BY DEF Places, SeatsOf
<1>3. CASE ~InLobby \/ (opening = NoOpening /\ ~AllReady)
  <2>1. job' = NoJob /\ UNCHANGED <<seats, opening, late, told>>
    BY <1>3 DEF Begin
  <2>2. JobFits(table, seats, opening, NoJob)
    BY <1>1, IdleFits DEF NoJob
  <2> QED BY <1>1, <2>1, <2>2 DEF IInv
<1>4. CASE InLobby /\ opening # NoOpening
  <2>1. Drive(opening, late)
    BY <1>4 DEF Begin
  <2> QED BY <1>1, <1>4, <2>1, DriveKeeps DEF IInv
<1>5. CASE InLobby /\ opening = NoOpening /\ AllReady
  <2>1. AreReady(table, seats) /\ table.order \in {"rps", "dice", "none"}
    BY <1>1, <1>2, <1>5, PlacesOfTables DEF AllReady, AreReady
  <2>2. CASE table.order = "none"
    <3>1. job' = CreateGame(seats) /\ UNCHANGED <<seats, opening, late, told>>
      BY <1>5, <2>2 DEF Begin
    <3>2. JobFits(table, seats, opening, CreateGame(seats))
      BY <1>1, <1>5, CreateFits
    <3> QED BY <1>1, <3>1, <3>2 DEF IInv
  <2>3. CASE table.order = "rps"
    <3>1. Drive(NewRps, "early")
      BY <1>5, <2>3 DEF Begin
    <3>2. OpeningFits(table, NewRps)
      BY <2>3, NewRpsTells DEF OpeningFits
    <3> QED BY <1>5, <2>1, <3>1, <3>2, DriveKeeps DEF Lates
  <2>4. CASE table.order = "dice"
    <3>1. PICK o \in NewDice(Places) : Drive(o, "early")
      BY <1>5, <2>4 DEF Begin
    <3>2. OpeningFits(table, o)
      BY <1>1, <1>2, <2>4, <3>1, PlacesOfTables, NewDiceTells DEF OpeningFits
    <3> QED BY <1>5, <2>1, <3>1, <3>2, DriveKeeps DEF Lates
  <2> QED BY <2>1, <2>2, <2>3, <2>4
<1> QED BY <1>3, <1>4, <1>5

-----------------------------------------------------------------------------
(* The rows change.                                                        *)

(* Rows change only while no opening runs, and a worker that is being made  *)
(* knows the rows that are ready.                                          *)
LEMMA RowsKeep ==
  ASSUME IInv, opening = NoOpening, RowsFit(table, seats'),
         job' = job \/ job' \in {Job("begin", NoDecks), NoJob},
         job' = job /\ job.pc = "create" =>
             \A s \in Places : seats'[s].ready => seats'[s] = seats[s],
         UNCHANGED <<status, opening, late, backoff, Story>>
  PROVE  IInv'
<1>1. /\ table \in Tables /\ table' = table /\ status' = status /\ opening' = opening
      /\ late' = late /\ backoff' = backoff /\ told' = told
      /\ failures' = failures /\ restarts' = restarts
  BY DEF IInv, Story, Counts
<1>2. Places = SeatsOf(table)
  BY DEF Places, SeatsOf
<1>3. JobFits(table, seats', opening, job')
  <2>1. CASE job' = job
    BY <1>2, <2>1 DEF IInv, JobFits
  <2>2. CASE job' \in {Job("begin", NoDecks), NoJob}
    BY <1>1, <2>2, IdleFits DEF NoJob
  <2> QED BY <2>1, <2>2
<1> QED BY <1>1, <1>3 DEF IInv

LEMMA OneRow ==
  ASSUME IInv, NEW s \in Places, NEW row \in Row \cup {Empty},
         row.ready => row.deck # NoDeck,
         row.who \in Humans => \A t \in Places : seats[t].who = row.who => t = s,
         seats[s].who = Organizer => row.who = Organizer,
         seats' = [seats EXCEPT ![s] = row]
  PROVE  RowsFit(table, seats') /\ \A t \in Places : t # s => seats'[t] = seats[t]
<1>1. Places = SeatsOf(table) /\ RowsFit(table, seats)
  BY DEF IInv, Places, SeatsOf
<1>2. /\ seats' \in [Places -> Row \cup {Empty}] /\ seats'[s] = row
      /\ \A t \in Places : t # s => seats'[t] = seats[t]
  BY <1>1 DEF RowsFit
<1>3. \A t, u \in Places :
         seats'[t].who = seats'[u].who /\ seats'[t].who \in Humans => t = u
  BY <1>1, <1>2 DEF RowsFit
<1>4. \E t \in Places : seats'[t].who = Organizer
  BY <1>1, <1>2 DEF RowsFit
<1>5. \A t \in Places : seats'[t].ready => seats'[t].deck # NoDeck
  BY <1>1, <1>2 DEF RowsFit
<1> QED BY <1>1, <1>2, <1>3, <1>4, <1>5 DEF RowsFit

LEMMA SeatOfSeated ==
  ASSUME IInv, NEW p \in Humans, Seated(p)
  PROVE  /\ SeatOf(p) \in Places /\ seats[SeatOf(p)].who = p
         /\ \A t \in Places : seats[t].who = p => t = SeatOf(p)
         /\ seats[SeatOf(p)] \in Row
<1>1. SeatOf(p) \in Places /\ seats[SeatOf(p)].who = p
  BY DEF Seated, SeatOf
<1>2. RowsFit(table, seats) /\ Places = SeatsOf(table)
  BY DEF IInv, Places, SeatsOf
<1>3. \A t \in Places : seats[t].who = p => t = SeatOf(p)
  BY <1>1, <1>2 DEF RowsFit
<1>4. seats[SeatOf(p)] \in Row
  BY <1>1, <1>2, RowsTyped DEF RowsFit
<1> QED BY <1>1, <1>3, <1>4

LEMMA IdleIsNotCreate ==
  Idle => job.pc # "create" /\ job.pc # "begin"
BY DEF Idle, NoJob, Job

LEMMA TakeSeatKeeps ==
  ASSUME IInv, NEW p \in Guests, NEW s \in Places, TakeSeat(p, s)
  PROVE  IInv'
<1>1. /\ opening = NoOpening /\ ~Seated(p) /\ seats[s] = Empty /\ OnlySeats
      /\ seats' = [seats EXCEPT ![s] = Sit(p)] /\ p \in Humans
  BY DEF TakeSeat, Free, Humans
<1>2. Sit(p) \in Row /\ Sit(p).who = p /\ Sit(p).ready = FALSE /\ seats[s].who # Organizer
  BY <1>1, RowsTyped
<1>3. RowsFit(table, seats') /\ \A t \in Places : t # s => seats'[t] = seats[t]
  BY <1>1, <1>2, OneRow DEF Seated
<1>4. seats'[s] = Sit(p)
  BY <1>1 DEF IInv, RowsFit, Places, SeatsOf
<1> QED BY <1>1, <1>2, <1>3, <1>4, RowsKeep DEF OnlySeats

LEMMA LeaveKeeps ==
  ASSUME IInv, NEW p \in Guests, Leave(p)
  PROVE  IInv'
<1> DEFINE s == SeatOf(p)
<1>1. /\ opening = NoOpening /\ Seated(p) /\ p # Organizer /\ OnlySeats
      /\ seats' = [seats EXCEPT ![s] = Empty] /\ p \in Humans
  BY DEF Leave, Free, Humans
<1>2. s \in Places /\ seats[s].who = p
  BY <1>1, SeatOfSeated
<1> HIDE DEF s
<1>3. RowsFit(table, seats') /\ \A t \in Places : t # s => seats'[t] = seats[t]
  BY <1>1, <1>2, RowsTyped, OneRow
<1>4. seats'[s] = Empty
  BY <1>1, <1>2 DEF IInv, RowsFit, Places, SeatsOf
<1> QED BY <1>1, <1>3, <1>4, RowsTyped, RowsKeep DEF OnlySeats

LEMMA RemoveBotKeeps ==
  ASSUME IInv, NEW S \in SUBSET Places, RemoveBot(S)
  PROVE  IInv'
<1>1. /\ opening = NoOpening /\ S \subseteq BotSeats /\ OnlySeats
      /\ seats' = [s \in Places |-> IF s \in S THEN Empty ELSE seats[s]]
  BY DEF RemoveBot, Free
<1>2. RowsFit(table, seats) /\ Places = SeatsOf(table)
  BY DEF IInv, Places, SeatsOf
<1>3. /\ seats' \in [Places -> Row \cup {Empty}]
      /\ \A s \in Places : seats'[s] = IF s \in S THEN Empty ELSE seats[s]
      /\ \A s \in S : seats[s].who = Bot
  BY <1>1, <1>2 DEF RowsFit, BotSeats
<1>4. RowsFit(table, seats')
  <2>1. \A t, u \in Places :
           seats'[t].who = seats'[u].who /\ seats'[t].who \in Humans => t = u
    BY <1>2, <1>3, RowsTyped DEF RowsFit
  <2>2. \E t \in Places : seats'[t].who = Organizer
    <3>1. PICK t \in Places : seats[t].who = Organizer
      BY <1>2 DEF RowsFit
    <3>2. t \notin S
      BY <1>3, <3>1, RowsTyped
    <3> QED BY <1>3, <3>1, <3>2
  <2>3. \A t \in Places : seats'[t].ready => seats'[t].deck # NoDeck
    BY <1>2, <1>3, RowsTyped DEF RowsFit
  <2> QED BY <1>2, <1>3, <2>1, <2>2, <2>3 DEF RowsFit
<1> QED BY <1>1, <1>3, <1>4, RowsTyped, RowsKeep DEF OnlySeats

LEMMA AddBotKeeps ==
  ASSUME IInv, NEW s \in Places, AddBot(s)
  PROVE  IInv'
<1> DEFINE row == [who |-> Bot, deck |-> BotDeck, ready |-> TRUE]
<1>1. /\ Idle /\ seats[s] = Empty /\ seats' = [seats EXCEPT ![s] = row] /\ OnlySeats
  BY DEF AddBot
<1>2. opening = NoOpening
  BY <1>1, RowsTyped DEF IInv, AreReady, Places, SeatsOf
<1>3. row \in Row /\ row.deck # NoDeck /\ row.who = Bot /\ Bot \notin Humans
  BY PeopleAssumption DEF PeopleAssumption, Row
<1> HIDE DEF row
<1>4. RowsFit(table, seats')
  BY <1>1, <1>3, RowsTyped, OneRow
<1> QED BY <1>1, <1>2, <1>4, IdleIsNotCreate, RowsKeep DEF OnlySeats

LEMMA SettleKeeps ==
  ASSUME IInv, NEW p \in Humans, NEW row \in Row, row.who = p,
         row.ready => row.deck # NoDeck, Settle(p, row),
         job' = job \/ AutoStart
  PROVE  IInv'
<1> DEFINE s == SeatOf(p)
<1>1. /\ Idle /\ opening = NoOpening /\ Seated(p) /\ seats' = [seats EXCEPT ![s] = row]
      /\ UNCHANGED <<status, opening, late, backoff, Story>>
  BY DEF Settle, Free
<1>2. /\ s \in Places /\ seats[s].who = p /\ \A t \in Places : seats[t].who = p => t = s
  BY <1>1, SeatOfSeated
<1> HIDE DEF s
<1>3. RowsFit(table, seats')
  BY <1>1, <1>2, OneRow
<1>4. job' = job \/ job' \in {Job("begin", NoDecks), NoJob}
  BY DEF AutoStart
<1> QED BY <1>1, <1>3, <1>4, IdleIsNotCreate, RowsKeep

LEMMA PlayerKeeps ==
  ASSUME IInv, NEW p \in Humans
  PROVE  /\ \A deck \in Decks : SetDeck(p, deck) => IInv'
         /\ MarkReady(p) => IInv'
         /\ MarkUnready(p) => IInv'
<1>1. ASSUME NEW deck \in Decks, SetDeck(p, deck) PROVE IInv'
  <2> DEFINE row == [who |-> p, deck |-> deck, ready |-> TRUE]
  <2>1. row \in Row /\ row.who = p /\ row.deck # NoDeck
    BY PeopleAssumption DEF PeopleAssumption, Row
  <2>2. Settle(p, row) /\ AutoStart
    BY <1>1 DEF SetDeck
  <2> HIDE DEF row
  <2> QED BY <2>1, <2>2, SettleKeeps
<1>2. ASSUME MarkReady(p) PROVE IInv'
  <2> DEFINE row == [seats[SeatOf(p)] EXCEPT !.ready = TRUE]
  <2>1. /\ Seated(p) /\ seats[SeatOf(p)].deck # NoDeck /\ Settle(p, row) /\ AutoStart
    BY <1>2 DEF MarkReady
  <2>2. seats[SeatOf(p)] \in Row /\ seats[SeatOf(p)].who = p
    BY <2>1, SeatOfSeated
  <2>3. row \in Row /\ row.who = p /\ row.deck # NoDeck
    BY <2>1, <2>2 DEF Row
  <2> HIDE DEF row
  <2> QED BY <2>1, <2>3, SettleKeeps
<1>3. ASSUME MarkUnready(p) PROVE IInv'
  <2> DEFINE row == [seats[SeatOf(p)] EXCEPT !.ready = FALSE]
  <2>1. Seated(p) /\ Settle(p, row) /\ job' = job
    BY <1>3 DEF MarkUnready
  <2>2. seats[SeatOf(p)] \in Row /\ seats[SeatOf(p)].who = p
    BY <2>1, SeatOfSeated
  <2>3. row \in Row /\ row.who = p /\ row.ready = FALSE
    BY <2>2 DEF Row
  <2> HIDE DEF row
  <2> QED BY <2>1, <2>3, SettleKeeps
<1> QED BY <1>1, <1>2, <1>3

-----------------------------------------------------------------------------
(* The other steps.                                                        *)

LEMMA PlayKeeps ==
  ASSUME IInv, Play
  PROVE  IInv'
<1>1. PICK p \in Humans : \/ \E hand \in Hands : Pick(p, hand)
                          \/ \E choice \in {"first", "second"} : Choose(p, choice)
  BY DEF Play
<1>2. /\ opening # NoOpening /\ Still /\ Seated(p)
      /\ table \in Tables /\ OpeningFits(table, opening) /\ AreReady(table, seats) /\ late \in Lates
  BY <1>1 DEF Pick, Choose, Still, IInv
<1>3. SeatOf(p) \in SeatsOf(table)
  BY <1>2, SeatOfSeated DEF Places, SeatsOf
<1>4. ASSUME NEW hand \in Hands, Pick(p, hand) PROVE IInv'
  <2> DEFINE after == Timed(opening, late, Throw(opening, SeatOf(p), hand))
  <2>1. MayThrow(opening, SeatOf(p)) /\ Drive(after.o, after.late)
    BY <1>4 DEF Pick
  <2>2. /\ table.order = "rps" /\ HandsTell(opening) /\ opening.phase = "rps"
    BY <1>2, <2>1 DEF MayThrow, OpeningFits, RollsTell, Dice
  <2>3. SeatOf(p) \in Pair
    BY <1>2, <1>3, <2>2, PlacesOfTables
  <2>4. HandsTell(Throw(opening, SeatOf(p), hand))
    BY <2>1, <2>2, <2>3, ThrowTells
  <2>5. after.o = Throw(opening, SeatOf(p), hand) /\ after.late \in Lates
    BY <1>2 DEF Timed, Lates
  <2>6. OpeningFits(table, after.o)
    BY <2>2, <2>4, <2>5 DEF OpeningFits
  <2> HIDE DEF after
  <2> QED BY <1>2, <2>1, <2>2, <2>5, <2>6, DriveKeeps
<1>5. ASSUME NEW choice \in {"first", "second"}, Choose(p, choice) PROVE IInv'
  <2>1. MayChoose(opening, SeatOf(p)) /\ Drive(Chosen(opening, choice), "due")
    BY <1>5 DEF Choose
  <2>2. /\ table.order = "rps" /\ HandsTell(opening) /\ opening.phase = "choose"
    BY <1>2, <2>1 DEF MayChoose, OpeningFits, RollsTell, Dice
  <2>3. OpeningFits(table, Chosen(opening, choice))
    BY <2>2, ChosenTells DEF OpeningFits
  <2> QED BY <1>2, <2>1, <2>2, <2>3, DriveKeeps DEF Lates
<1> QED BY <1>1, <1>4, <1>5

LEMMA WakeKeeps ==
  ASSUME IInv, Wake
  PROVE  IInv'
<1>1. opening # NoOpening /\ Still /\ Drive(opening, late)
  BY DEF Wake, IsDue, Still
<1> QED BY <1>1, DriveKeeps DEF IInv

LEMMA HostKeeps ==
  ASSUME IInv
  PROVE  /\ Elapse => IInv'
         /\ BackoffEnds => IInv'
         /\ HostRestart => IInv'
         /\ CancelSeries => IInv'
         /\ \A p \in Humans : Cancel(p) => IInv'
<1>1. ASSUME Elapse PROVE IInv'
  <2>1. late' \in Lates
    BY <1>1 DEF Elapse, Lates
  <2> QED BY <1>1, <2>1 DEF Elapse, IInv, Story, Counts
<1>2. ASSUME BackoffEnds PROVE IInv'
  BY <1>2 DEF BackoffEnds, IInv, Story, Counts
<1>3. ASSUME HostRestart PROVE IInv'
  <2>1. JobFits(table, seats, opening, NoJob)
    BY IdleFits DEF IInv, NoJob
  <2>2. restarts' \in 0..MaxRestarts
    BY <1>3, BoundAssumption DEF HostRestart, IInv, BoundAssumption
  <2> QED BY <1>3, <2>1, <2>2 DEF HostRestart, IInv
<1>4. ASSUME CancelSeries PROVE IInv'
  BY <1>4 DEF CancelSeries, IInv, Story, Counts
<1>5. ASSUME NEW p \in Humans, Cancel(p) PROVE IInv'
  BY <1>5 DEF Cancel, IInv, Story, Counts
<1> QED BY <1>1, <1>2, <1>3, <1>4, <1>5

LEMMA GiveUpKeeps ==
  ASSUME IInv, GiveUp, failures' \in 0..MaxFailures
  PROVE  IInv'
<1>1. /\ table' = table /\ status' = status /\ seats' = seats /\ restarts' = restarts
      /\ job' = NoJob
  BY DEF GiveUp
<1>2. /\ late' \in Lates /\ backoff' \in BOOLEAN
      /\ (opening' = opening /\ told' = told) \/ opening' = NoOpening
  BY DEF GiveUp, IInv, Lates
<1>3. JobFits(table, seats, opening', NoJob)
  BY IdleFits DEF IInv, NoJob
<1> QED BY <1>1, <1>2, <1>3 DEF IInv

LEMMA AnswerKeeps ==
  ASSUME IInv, Answer
  PROVE  IInv'
<1>1. CASE BeginStep
  BY <1>1, BeginKeeps DEF BeginStep, Still
<1>2. CASE Activate
  <2>1. /\ status' = "active" /\ opening' = NoOpening /\ late' = "early" /\ job' = NoJob
        /\ backoff' = FALSE /\ table' = table /\ seats' = seats
        /\ failures' = failures /\ restarts' = restarts
    BY <1>2 DEF Activate, Counts
  <2>2. JobFits(table, seats, NoOpening, NoJob)
    BY IdleFits DEF IInv, NoJob
  <2> QED BY <2>1, <2>2 DEF IInv, Lates
<1>3. CASE StartFails
  <2>1. failures' \in 0..MaxFailures
    BY <1>3, BoundAssumption DEF StartFails, IInv, BoundAssumption
  <2> QED BY <1>3, <2>1, GiveUpKeeps DEF StartFails
<1>4. CASE StartRefused
  BY <1>4, GiveUpKeeps DEF StartRefused, IInv
<1> QED BY <1>1, <1>2, <1>3, <1>4 DEF Answer

LEMMA StepKeeps ==
  ASSUME IInv, [Next]_vars
  PROVE  IInv'
<1>1. CASE Lobby
  <2>1. CASE \E p \in Guests : Leave(p) \/ \E s \in Places : TakeSeat(p, s)
    BY <2>1, LeaveKeeps, TakeSeatKeeps
  <2>2. CASE \E S \in SUBSET Places : RemoveBot(S)
    BY <2>2, RemoveBotKeeps
  <2>3. CASE \E s \in Places : AddBot(s)
    BY <2>3, AddBotKeeps
  <2>4. CASE \E p \in Humans : MarkReady(p) \/ MarkUnready(p) \/ \E deck \in Decks : SetDeck(p, deck)
    BY <2>4, PlayerKeeps
  <2>5. CASE \E p \in Humans : Start(p) \/ Cancel(p)
    BY <2>5, BeginKeeps, HostKeeps DEF Start, Still
  <2>6. CASE CancelSeries
    BY <2>6, HostKeeps
  <2> QED BY <1>1, <2>1, <2>2, <2>3, <2>4, <2>5, <2>6 DEF Lobby
<1>2. CASE Play
  BY <1>2, PlayKeeps
<1>3. CASE Wake
  BY <1>3, WakeKeeps
<1>4. CASE SweepStart
  BY <1>4, BeginKeeps DEF SweepStart, Still
<1>5. CASE Answer
  BY <1>5, AnswerKeeps
<1>6. CASE Elapse \/ BackoffEnds \/ HostRestart
  BY <1>6, HostKeeps
<1>7. CASE UNCHANGED vars
  BY <1>7 DEF vars, IInv
<1> QED BY <1>1, <1>2, <1>3, <1>4, <1>5, <1>6, <1>7 DEF Next

LEMMA AlwaysIInv == Spec => []IInv
<1>1. Init => IInv
  BY InitFits
<1>2. IInv /\ [Next]_vars => IInv'
  BY StepKeeps
<1> QED BY <1>1, <1>2, PTL DEF Spec

LEMMA OnlyActivateStarts ==
  ASSUME [Next]_vars, Starting
  PROVE  Activate
<1>1. status' # status
  BY DEF Starting
<1>2. ~(Lobby /\ status' # "cancelled")
  BY <1>1 DEF Lobby, Leave, TakeSeat, RemoveBot, AddBot, MarkReady, MarkUnready, SetDeck, Settle,
           OnlySeats, Start, Cancel, CancelSeries
<1>3. ~(Play \/ Elapse \/ Wake \/ SweepStart \/ BackoffEnds \/ HostRestart)
  BY <1>1 DEF Play, Pick, Choose, Elapse, Wake, SweepStart, BackoffEnds, HostRestart
<1>4. ~(BeginStep \/ StartFails \/ StartRefused) /\ ~UNCHANGED vars
  BY <1>1 DEF BeginStep, StartFails, StartRefused, GiveUp, vars
<1> QED BY <1>2, <1>3, <1>4 DEF Starting, Next, Answer

LEMMA IInvHolds ==
  ASSUME IInv
  PROVE  TypeOK
<1>1. Places = SeatsOf(table)
  BY DEF Places, SeatsOf
<1>2. OpeningOK
  BY <1>1 DEF IInv, OpeningOK, OpeningFits, HandsTell, RollsTell
<1>3. opening # NoOpening => AllReady
  BY <1>1 DEF IInv, AllReady, AreReady
<1> QED BY <1>1, <1>2, <1>3 DEF IInv, TypeOK, RowsFit, JobFits, Seated, Lates

-----------------------------------------------------------------------------
(* The theorems.                                                           *)

(* Nobody sits twice, the organizer keeps a seat, Ready has a deck, and an  *)
(* opening runs over a full table of ready seats with ranks that name the   *)
(* places: whoever takes and leaves seats, and however often a start fails. *)
THEOREM TableTypeCorrect == Spec => []TypeOK
<1>1. IInv => TypeOK
  BY IInvHolds
<1> QED BY <1>1, AlwaysIInv, PTL

(* A duel starts in the order its players saw decided, with the decks of    *)
(* those who sit at the table (startGame, settleOrder and activate).        *)
THEOREM DuelsStartAsDecided == Spec => StartsAsDecided
<1> DEFINE A == Starting => OnReadyDecks /\ (opening # NoOpening => InOrder)
<1>1. ASSUME IInv, [Next]_vars PROVE [A]_vars
  <2> SUFFICES ASSUME Starting PROVE OnReadyDecks /\ (opening # NoOpening => InOrder)
    OBVIOUS
  <2>1. Activate
    BY <1>1, OnlyActivateStarts
  <2>2. Places = SeatsOf(table)
    BY DEF Places, SeatsOf
  <2>3. job.pc = "create" /\ AllReady /\ seats' = seats /\ table' = table
    BY <2>1 DEF Activate, Startable
  <2>4. OnReadyDecks
    BY <1>1, <2>2, <2>3 DEF OnReadyDecks, AllReady, IInv, JobFits
  <2>5. opening # NoOpening => opening.phase = "start"
    BY <1>1, <2>3 DEF IInv, JobFits
  <2>6. opening # NoOpening => InOrder
    BY <1>1, <2>2, <2>3, <2>5 DEF IInv, IsInOrder, InOrder
  <2> QED BY <2>4, <2>6
<1> QED BY <1>1, AlwaysIInv, PTL DEF Spec, StartsAsDecided
=============================================================================
