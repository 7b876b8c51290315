---------------------------- MODULE MCDuelSeries ----------------------------
(* A small instance of DuelSeries: everybody first brings the plain layout; *)
(* player 0 has a Side Deck to change it with, player 1 has none.          *)
EXTENDS DuelSeries

MCLayouts == [p \in Players |-> IF p = 0 THEN {"plain", "sided"} ELSE {"plain"}]
MCFirstDecks == {Both("plain")}
=============================================================================
