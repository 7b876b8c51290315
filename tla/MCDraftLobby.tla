---------------------------- MODULE MCDraftLobby ----------------------------
(* Two people, two cubes, and configurations of every kind.                *)
EXTENDS DraftLobby

Setting(mode, target, cubes) ==
    [mode |-> mode, target |-> target, unique |-> TRUE, cubes |-> cubes, assigned |-> NoThemes]
InOrder == CHOOSE themes \in Themes : \A p, q \in Humans : p # q => themes[p] # themes[q]
                                        /\ themes[p] # None

MCConfigs == {
    Setting("booster", 2, Cubes),
    Setting("player_pick", 2, Cubes),
    [Setting("host_assigned", 0, Cubes) EXCEPT !.assigned = InOrder]}
=============================================================================
