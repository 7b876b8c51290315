---------------------------- MODULE MCTournament ----------------------------
(* Small fields for TLC.  Players are named by their ids, and the order in *)
(* which they sign up is not that of their ids.                            *)
EXTENDS Tournament

Field(kind, players, rows, games, broken) ==
    [format |-> kind, roster |-> players,
     maxMatches |-> rows, maxSeries |-> games, maxFaults |-> broken]

(* Two players with a crash or a failed recording, three players with a bye *)
(* and a final, five players: two pairings, and one who sits out twice.    *)
MCEvents == {Field("round_robin", <<2, 1>>, 2, 1, 1),
             Field("single_elim", <<3, 1, 2>>, 2, 1, 0),
             Field("single_elim", <<1, 2, 3, 4, 5>>, 2, 0, 0)}

Three == {Field("single_elim", <<3, 1, 2>>, 2, 0, 0)}
=============================================================================
