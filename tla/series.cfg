SPECIFICATION FairSpec
CONSTANTS
    Layouts <- MCLayouts
    NoDeck = "none"
    FirstDecks <- MCFirstDecks
    Origins = {"challenge", "tournament", "table", "bot"}
    MaxGames = 3
    MaxFailures = 1
INVARIANTS
    TypeOK
    SeriesMatchesGames
    ScoreIsTrue
PROPERTIES
    NextGameOnConfirmedDecks
    FirstSeatIsFair
    OverIsOver
    SeriesGoesOn
CHECK_DEADLOCK FALSE
