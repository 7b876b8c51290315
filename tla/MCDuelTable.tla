---------------------------- MODULE MCDuelTable ----------------------------
(* A table of two, a free-for-all of three, a table without an opening, and *)
(* the first game of a series.                                             *)
EXTENDS DuelTable

CONSTANT Rival

Plain(order, size) ==
    [series |-> FALSE, order |-> order, players |-> <<Organizer>>, size |-> size]

MCTables == {
    Plain("rps", 2), Plain("none", 2), Plain("dice", 3),
    [series |-> TRUE, order |-> "rps", players |-> <<Organizer, Rival>>, size |-> 2]}
=============================================================================
