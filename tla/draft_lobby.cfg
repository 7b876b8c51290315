\* The lobby of one draft.
SPECIFICATION FairSpec
CONSTANTS
    Humans = {host, guest}
    Bots = {bot}
    Host = host
    Cubes = {cube1, cube2}
    None = None
    Configs <- MCConfigs
    MaxRevision = 5
    MaxEdits = 1
    MaxFailures = 1
    MaxBehind = 1
INVARIANTS
    TypeOK
    StopHolds
PROPERTIES
    StartsAsAgreed
    LobbyMovesOn
\* A draft that has started, or was cancelled, leaves its lobby.
CHECK_DEADLOCK FALSE
