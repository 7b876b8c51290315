------------------------------ MODULE MCDraft ------------------------------
(* Small tables for TLC.  Every order of a pool stands for one shuffle.    *)
EXTENDS Draft

Orders(copies) == {d \in [1..SumFunction(copies) -> DOMAIN copies] :
                     \A c \in DOMAIN copies :
                        Cardinality({i \in DOMAIN d : d[i] = c}) = copies[c]}

(* Three seats that joined last to first, two picks per visit.             *)
ThreeSeats ==
    [mode |-> "booster", themes |-> {}, unique |-> FALSE, maxEdits |-> 0,
     n |-> 3, joined |-> <<2, 1, 0>>, bots |-> {2},
     mainTarget |-> 3, packSize |-> 3, extraSize |-> 0, picksPerStep |-> 2,
     copyLimit |-> TRUE, maxCopies |-> 1, alternate |-> TRUE, burn |-> FALSE]

(* Two seats, two main waves and the extra deck.                           *)
TwoSeats ==
    [ThreeSeats EXCEPT !.n = 2, !.joined = <<0, 1>>, !.bots = {1}, !.packSize = 2,
                       !.extraSize = 1, !.picksPerStep = 1]

(* Two seats with a theme each, two main and two extra rounds; and the same *)
(* theme for both, with unpicked cards burned, which somebody changes.     *)
Themed ==
    [TwoSeats EXCEPT !.mode = "theme", !.mainTarget = 2, !.extraSize = 2, !.maxCopies = 2,
                     !.themes = {"k", "l"}, !.unique = TRUE]
Burning ==
    [Themed EXCEPT !.themes = {"k"}, !.unique = FALSE, !.burn = TRUE, !.extraSize = 1,
                   !.maxEdits = 1]

MCTables == {ThreeSeats, TwoSeats, Themed, Burning}

(* Three seats with packs of three: with eight cards one pack is short, and *)
(* with ten one card stays undealt.                                        *)
ShortDecks == Orders("a" :> 4 @@ "b" :> 3 @@ "c" :> 1)
LastCard == {"b", "c"}
FullDecks == {d \o <<c>> : d \in Orders("a" :> 8 @@ "b" :> 1), c \in LastCard}
(* Seat 2 is left with a capped pack and a capped pile until seat 1 swaps. *)
LateSwap == <<"c", "a", "b", "c", "a", "a", "a", "b", "c", "b">>

(* Two seats: two main waves that leave two cards over, or a pool that runs *)
(* out in the first wave.                                                  *)
TwoWaves == {d \o <<"c">> : d \in Orders("a" :> 7 @@ "b" :> 1)}
                \cup Orders("a" :> 2 @@ "b" :> 1) \cup {<<"a">>}
ExtraPools == Orders("x" :> 2 @@ "y" :> 1)

(* A theme by its copies of every card; those of the extra pool run out, and *)
(* some are too small to start with.                                       *)
Cards(copies) ==
    [c \in MainNames \cup ExtraNames |-> IF c \in DOMAIN copies THEN copies[c] ELSE 0]
Of(main, extra) == [main |-> Cards(main), extra |-> Cards(extra)]
FullTheme == Of("a" :> 2 @@ "b" :> 1 @@ "c" :> 1, "x" :> 1 @@ "y" :> 1)
ThinTheme == Of("b" :> 3 @@ "c" :> 1, "x" :> 1)
TooSmall == Of("b" :> 3, "x" :> 2)
BurnTheme == Of("a" :> 3 @@ "b" :> 2, "x" :> 1 @@ "y" :> 1)
NearlyBurnt == Of("a" :> 1 @@ "b" :> 1, "x" :> 1)

MCThemePools(t) ==
    CASE t.mode = "booster" -> {[k \in {} |-> 0]}
      [] t.mode = "theme" /\ t.burn -> [t.themes -> {BurnTheme, NearlyBurnt}]
      [] t.mode = "theme" /\ ~t.burn ->
             {"k" :> FullTheme @@ "l" :> th : th \in {ThinTheme, TooSmall}}

MCMainDecks(t) ==
    IF t.extraSize > 0 THEN TwoWaves ELSE ShortDecks \cup FullDecks \cup {LateSwap}
MCExtraDecks(t) == IF t.extraSize > 0 THEN ExtraPools ELSE {<< >>}
=============================================================================
