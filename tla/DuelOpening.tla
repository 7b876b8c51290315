---------------------------- MODULE DuelOpening ----------------------------
(***************************************************************************)
(* The rules by which the seats of a table find out who goes first:         *)
(* opening.ts and dice-opening.ts.  Two seats play rock-paper-scissors and  *)
(* the winner chooses; three and four seats roll dice, and only those that  *)
(* tie roll again.  These are functions of the opening; DuelTable stores it *)
(* and lets time pass.                                                     *)
(*                                                                         *)
(* The groups of tied seats, highest first, are here the rank of each seat: *)
(* the number of seats in the groups before its own.                       *)
(***************************************************************************)
EXTENDS Integers, Sequences, FiniteSets

CONSTANTS
    Faces,      \* of a die
    MaxRolls,   \* MAX_DICE_ROUNDS: after it the ties are shuffled
    NoOpening   \* there is none

ASSUME DiceAssumption == Faces \subseteq Nat \ {0} /\ MaxRolls \in Nat \ {0}

Hands == {"rock", "paper", "scissors"}

Beats(a, b) == <<a, b>> \in {<<"rock", "scissors">>, <<"paper", "rock">>, <<"scissors", "paper">>}

Pair == {0, 1}
Other(seat) == 1 - seat

Rps == [kind : {"rps"}, phase : {"rps", "choose", "start"}, round : Nat \ {0},
        picks : [Pair -> Hands \cup {"none"}], winner : Pair \cup {-1},
        choice : {"none", "first", "second"}]

Dice(seats) ==
    [kind : {"dice"}, phase : {"dice", "start"},
     rounds : Seq([seats -> Faces \cup {0}]), rank : [seats -> Nat]]

-----------------------------------------------------------------------------
(* Rock-paper-scissors.                                                    *)

NoPicks == [seat \in Pair |-> "none"]

NewRps == [kind |-> "rps", phase |-> "rps", round |-> 1, picks |-> NoPicks,
           winner |-> -1, choice |-> "none"]

(* A round with both hands in: a tie opens the next one.                   *)
Decide(o) ==
    IF \E seat \in Pair : o.picks[seat] = "none" THEN o
    ELSE IF o.picks[0] = o.picks[1]
    THEN [o EXCEPT !.round = @ + 1, !.picks = NoPicks]
    ELSE [o EXCEPT !.phase = "choose",
                   !.winner = CHOOSE seat \in Pair : Beats(o.picks[seat], o.picks[Other(seat)])]

MayThrow(o, seat) == o.kind = "rps" /\ o.phase = "rps" /\ o.picks[seat] = "none"
Throw(o, seat, hand) == Decide([o EXCEPT !.picks[seat] = hand])

MayChoose(o, seat) == o.kind = "rps" /\ o.phase = "choose" /\ o.winner = seat
Chosen(o, choice) == [o EXCEPT !.phase = "start", !.choice = choice]

(* The deadline: a missing hand is any, a winner who is silent goes first. *)
RpsTimeout(o) ==
    IF o.phase = "choose" THEN {Chosen(o, "first")}
    ELSE {Decide([o EXCEPT !.picks = hands]) :
              hands \in {h \in [Pair -> Hands] :
                            \A seat \in Pair : o.picks[seat] \in {"none", h[seat]}}}

NeedsSwap(o) == o.winner # (IF o.choice = "first" THEN 0 ELSE 1)

Swapped(o) ==
    [o EXCEPT !.picks = [seat \in Pair |-> o.picks[Other(seat)]], !.winner = Other(o.winner)]

-----------------------------------------------------------------------------
(* Dice.                                                                   *)

Tied(o, s) == {t \in DOMAIN o.rank : o.rank[t] = o.rank[s]}
Resolved(o) == \A s \in DOMAIN o.rank : Tied(o, s) = {s}

(* Those who share their rank roll; the group falls apart, highest first.  *)
Rolled(o) ==
    {[o EXCEPT !.rounds = Append(@, roll),
               !.rank = [s \in DOMAIN o.rank |->
                            @[s] + Cardinality({t \in Tied(o, s) : roll[t] > roll[s]})]] :
        roll \in {r \in [DOMAIN o.rank -> Faces \cup {0}] :
                     \A s \in DOMAIN o.rank : r[s] = 0 <=> Tied(o, s) = {s}}}

NewDice(seats) ==
    Rolled([kind |-> "dice", phase |-> "dice", rounds |-> <<>>, rank |-> [s \in seats |-> 0]])

(* The last resort: every group is shuffled.                               *)
Shuffled(o) ==
    {[o EXCEPT !.phase = "start", !.rank = rank] :
        rank \in {r \in [DOMAIN o.rank -> 0 .. Cardinality(DOMAIN o.rank) - 1] :
                     /\ \A s, t \in DOMAIN o.rank : s # t => r[s] # r[t]
                     /\ \A s, t \in DOMAIN o.rank : o.rank[s] < o.rank[t] => r[s] < r[t]}}

DiceTimeout(o) ==
    IF Resolved(o) THEN {[o EXCEPT !.phase = "start"]}
    ELSE IF Len(o.rounds) >= MaxRolls THEN Shuffled(o)
    ELSE Rolled(o)

-----------------------------------------------------------------------------
(* Where the opening sends the player of each seat.                        *)

(* mutant: the order is read as the seats' new places                      *)
NewSeatInverse(o, s) ==
    IF o.kind = "dice" THEN CHOOSE t \in DOMAIN o.rank : o.rank[t] = s
    ELSE IF NeedsSwap(o) THEN Other(s) ELSE s

NewSeat(o, s) ==
    IF o.kind = "dice" THEN o.rank[s]
    ELSE IF NeedsSwap(o) THEN Other(s) ELSE s

(* What is stored after the move: the history of the dice keeps the seats  *)
(* of the lobby.                                                           *)
Settled(o) == IF o.kind = "rps" /\ NeedsSwap(o) THEN Swapped(o) ELSE o
=============================================================================
