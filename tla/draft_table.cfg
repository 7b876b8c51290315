\* Booster and theme drafts.
SPECIFICATION FairSpec
CONSTANTS
    MainNames = {"a", "b", "c"}
    ExtraNames = {"x", "y"}
    Tables <- MCTables
    MainDecks <- MCMainDecks
    ExtraDecks <- MCExtraDecks
    ThemePools <- MCThemePools
INVARIANTS
    TypeOK
    OnePackPerSeat
    SomeoneCanAct
    TotalsAsShown
PROPERTIES
    CardsConserved
    ForcedOnlyWhenNothingElse
    DraftEnds
\* A draft that is over really stops.
CHECK_DEADLOCK FALSE
