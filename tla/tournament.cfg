SPECIFICATION FairSpec
CONSTANTS
    Events <- MCEvents
    Frontends = {"web"}
    Worker = "worker"
INVARIANTS
    TypeOK
    BooksAgree
    RoundsFollow
    PlacesAreEarned
    SeriesResultFits
PROPERTIES
    ConfirmedResultStands
    ReportedPairingMovesOn
\* A tournament that is over and whose results stand really stops.
CHECK_DEADLOCK FALSE
