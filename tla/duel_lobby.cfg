\* Tables before their duel.
SPECIFICATION FairSpec
CONSTANTS
    Organizer = ann
    Guests = {bea, cyd}
    Rival = bea
    Bot = bot
    Nobody = Nobody
    Decks = {deck1, deck2}
    BotDeck = deck1
    NoDeck = NoDeck
    NoOpening = NoOpening
    Faces = {1, 2}
    MaxRolls = 2
    MaxRound = 2
    MaxFailures = 1
    MaxRestarts = 1
    Tables <- MCTables
INVARIANTS
    TypeOK
PROPERTIES
    StartsAsDecided
    OpeningMovesOn
\* A duel that has started, or a table that was cancelled, stops here.
CHECK_DEADLOCK FALSE
