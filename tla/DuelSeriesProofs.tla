-------------------------- MODULE DuelSeriesProofs --------------------------
(***************************************************************************)
(* Proofs about DuelSeries for every match: any decks, any number of games  *)
(* and of failed starts.                                                   *)
(***************************************************************************)
EXTENDS DuelSeries, FiniteSetTheorems, TLAPS

(* Before game 1 of a table has started there is no series and no result.  *)
NoneBeforeStart ==
    series.status = "none" => /\ Latest.status \in {"lobby", "cancelled"}
                              /\ series.wins = Both(0) /\ series.winner = Nobody

(* Only a game that was played to its end has a winner.                    *)
WinnersEnded == \A n \in 1..Len(games) : games[n].status # "completed" => games[n].winner = Nobody

(* A window runs only between games.                                       *)
WindowIsBetween == series.window # "none" => series.status = "between"

(* The inductive invariant: a game end counts only in an active series, so  *)
(* that the score depends on where the games stand, and the reverse.        *)
IInv == TypeOK /\ SeriesMatchesGames /\ NoneBeforeStart /\ WinnersEnded /\ WindowIsBetween /\ ScoreIsTrue

(* The types of the rows, without the abbreviations. *)
Status == {"none", "active", "between", "completed", "cancelled"}
Series == [status : Status,
           wins : [Players -> 0..2], ready : [Players -> BOOLEAN],
           chooser : Players \cup {Nobody}, choice : {"none", "first", "second"},
           window : {"none", "open", "over"}, deck : [Players -> Decks \cup {NoDeck}],
           winner : Players \cup {Nobody}]
Game == [status : {"lobby", "active", "completed", "interrupted", "cancelled"},
         first : Players, winner : Players \cup {Nobody}]

LEMMA LatestIsAGame ==
  ASSUME TypeOK
  PROVE  /\ games \in Seq(Game) /\ Len(games) \in 1..MaxGames /\ Len(games) \in Nat
         /\ Len(games) >= 1 /\ Latest \in Game /\ \A n \in 1..Len(games) : games[n] \in Game
<1>1. games \in Seq(Game) /\ Len(games) \in 1..MaxGames
  BY DEF TypeOK, Game
<1>2. Len(games) \in Nat /\ Len(games) >= 1
  BY <1>1, BoundAssumption
<1>3. \A n \in 1..Len(games) : games[n] \in Game
  BY <1>1
<1> QED BY <1>1, <1>2, <1>3 DEF Latest

LEMMA SeriesTyped == ASSUME TypeOK PROVE series \in Series
BY DEF TypeOK, Series, Status

-----------------------------------------------------------------------------
(* The games a player has won.                                             *)

WonIn(gs, p) == {n \in 1..Len(gs) : gs[n].winner = p}

LEMMA WonIsFinite ==
  ASSUME NEW gs \in Seq(Game), NEW p \in Players
  PROVE  IsFiniteSet(WonIn(gs, p)) /\ Cardinality(WonIn(gs, p)) \in Nat
<1>1. IsFiniteSet(1..Len(gs))
  BY FS_Interval
<1>2. WonIn(gs, p) \in SUBSET (1..Len(gs))
  BY DEF WonIn
<1> QED BY <1>1, <1>2, FS_Subset, FS_CardinalityType

(* Nothing but a game with a winner changes who has won what. *)
LEMMA SameWinners ==
  ASSUME TypeOK, NEW gs \in Seq(Game), Len(gs) = Len(games),
         \A n \in 1..Len(games) : gs[n].winner = games[n].winner
  PROVE  \A p \in Players : WonIn(gs, p) = WonIn(games, p)
BY LatestIsAGame DEF WonIn

(* A new game has no winner. *)
LEMMA NewGameUndecided ==
  ASSUME TypeOK, NEW f \in Players
  PROVE  \A p \in Players : WonIn(Append(games, NewGame(f)), p) = WonIn(games, p)
<1> DEFINE gs == Append(games, NewGame(f))
<1>1. NewGame(f) \in Game /\ NewGame(f).winner = Nobody
  BY DEF NewGame, Game
<1>2. /\ Len(gs) = Len(games) + 1
      /\ gs[Len(games) + 1] = NewGame(f)
      /\ \A n \in 1..Len(games) : gs[n] = games[n]
  BY LatestIsAGame, <1>1
<1>3. \A p \in Players : p # Nobody
  BY DEF Players, Nobody
<1> QED BY <1>1, <1>2, <1>3, LatestIsAGame DEF WonIn

-----------------------------------------------------------------------------
(* Types.                                                                  *)

(* TypeOK as the types of the single variables. *)
Typed(m, c, s, gs, st, sg, f, cf, w) ==
    /\ m \in [origin : Origins, bestOf : {1, 3}] /\ c \in BOOLEAN /\ s \in Series
    /\ gs \in Seq(Game) /\ Len(gs) \in 1..MaxGames
    /\ st \in [deck : [Players -> Decks \cup {NoDeck}], ready : [Players -> BOOLEAN]]
    /\ sg \in BOOLEAN /\ f \in 0..MaxFailures
    /\ cf \in [Players -> Decks \cup {NoDeck}] /\ w \in Players \cup {Nobody}

LEMMA TypedIsTypeOK ==
  /\ Typed(match, closed, series, games, seat, starting, failures, confirmed, wish) <=> TypeOK
  /\ Typed(match', closed', series', games', seat', starting', failures', confirmed', wish') <=> TypeOK'
BY DEF Typed, TypeOK, Series, Status, Game

LEMMA NewRowsTyped ==
  /\ \A deck \in [Players -> Decks \cup {NoDeck}] : NewSeries(deck) \in Series
  /\ \A f \in Players : NewGame(f) \in Game
BY DEF NewSeries, NewGame, Series, Status, Game, Both, Players, Nobody

LEMMA InitTyped == Init => TypeOK
<1> SUFFICES ASSUME Init PROVE TypeOK
  OBVIOUS
<1>1. PICK deck \in FirstDecks, f \in Players :
        LET seated == IF match.origin = "challenge" THEN Both(NoDeck) ELSE deck IN
        /\ games = <<NewGame(f)>>
        /\ seat = [deck |-> seated, ready |-> [p \in Players |-> IsBot(p)]]
        /\ series = IF match.origin \in {"challenge", "tournament"}
                       THEN NewSeries(seated)
                       ELSE [NewSeries(Both(NoDeck)) EXCEPT !.status = "none"]
  BY DEF Init
<1> DEFINE seated == IF match.origin = "challenge" THEN Both(NoDeck) ELSE deck
<1>2. deck \in [Players -> Decks \cup {NoDeck}] /\ Both(NoDeck) \in [Players -> Decks \cup {NoDeck}]
  BY DeckAssumption DEF DeckAssumption, Decks, Both
<1>3. seated \in [Players -> Decks \cup {NoDeck}]
  BY <1>2
<1>4. series \in Series
  <2>1. NewSeries(seated) \in Series /\ NewSeries(Both(NoDeck)) \in Series
    BY <1>2, <1>3, NewRowsTyped
  <2> QED BY <1>1, <2>1 DEF Series, Status
<1>5. games \in Seq(Game) /\ Len(games) \in 1..MaxGames
  BY <1>1, NewRowsTyped, BoundAssumption DEF BoundAssumption
<1>6. seat \in [deck : [Players -> Decks \cup {NoDeck}], ready : [Players -> BOOLEAN]]
  BY <1>1, <1>3 DEF IsBot
<1>7. /\ match \in [origin : Origins, bestOf : {1, 3}] /\ closed \in BOOLEAN
      /\ starting \in BOOLEAN /\ failures \in 0..MaxFailures
      /\ confirmed \in [Players -> Decks \cup {NoDeck}] /\ wish \in Players \cup {Nobody}
  <2>1. /\ match \in [origin : Origins, bestOf : {1, 3}] /\ closed = FALSE /\ starting = FALSE
        /\ failures = 0 /\ confirmed = Both(NoDeck) /\ wish = Nobody
    BY DEF Init
  <2>2. 0 \in 0..MaxFailures /\ Both(NoDeck) \in [Players -> Decks \cup {NoDeck}]
    BY BoundAssumption DEF BoundAssumption, Both
  <2> QED BY <2>1, <2>2
<1> QED BY <1>4, <1>5, <1>6, <1>7, TypedIsTypeOK DEF Typed

LEMMA CancelTyped ==
  ASSUME TypeOK
  PROVE  /\ CancelledSeries(series) \in Series
         /\ CancelledGames(games) \in Seq(Game) /\ Len(CancelledGames(games)) = Len(games)
<1>1. CancelledSeries(series) \in Series
  BY SeriesTyped DEF CancelledSeries, Series, Status
<1>2. \A n \in 1..Len(games) : [games[n] EXCEPT !.status = "cancelled"] \in Game
  BY LatestIsAGame DEF Game
<1>3. DOMAIN games = 1..Len(games)
  BY LatestIsAGame
<1>4. CancelledGames(games) \in [1..Len(games) -> Game]
  BY <1>2, <1>3, LatestIsAGame DEF CancelledGames
<1> QED BY <1>1, <1>4, LatestIsAGame

(* What a game end makes of a series that is still undecided is a series. *)
LEMMA AfterTyped ==
  ASSUME TypeOK, ScoreIsTrue, series.status = "active"
  PROVE  AfterInterrupt \in Series /\ AfterDraw \in Series /\ \A p \in Players : AfterWin(p) \in Series
<1>1. \A wins \in [Players -> 0..2], window \in {"none", "open", "over"}, ready \in BOOLEAN,
         chooser \in Players \cup {Nobody} : Between(wins, window, ready, chooser) \in Series
  <2> TAKE wins \in [Players -> 0..2], window \in {"none", "open", "over"}, ready \in BOOLEAN,
            chooser \in Players \cup {Nobody}
  <2> DEFINE rdy == [p \in Players |-> ready \/ IsBot(p)]
             chc == IF chooser # Nobody /\ IsBot(chooser) THEN "first" ELSE "none"
  <2>1. rdy \in [Players -> BOOLEAN] /\ chc \in {"none", "first", "second"}
    BY DEF IsBot
  <2>2. Between(wins, window, ready, chooser) =
          [series EXCEPT !.status = "between", !.wins = wins, !.window = window,
              !.ready = rdy, !.chooser = chooser, !.choice = chc]
    BY DEF Between
  <2> HIDE DEF rdy, chc
  <2> QED BY <2>1, <2>2, SeriesTyped DEF Series, Status
<1>2. \A wins \in [Players -> 0..2], winner \in Players \cup {Nobody} : Won(wins, winner) \in Series
  BY SeriesTyped DEF Won, Series, Status
<1>3. series.wins \in [Players -> 0..2]
  BY SeriesTyped DEF Series
<1>4. \A p \in Players : [series.wins EXCEPT ![p] = @ + 1] \in [Players -> 0..2]
  <2>1. \A p \in Players : series.wins[p] < Needed
    BY <1>3 DEF ScoreIsTrue, Needed
  <2> QED BY <2>1, <1>3 DEF Needed
<1>5. \A p \in Players : Other(p) \in Players
  BY DEF Other, Players
<1> QED BY <1>1, <1>2, <1>3, <1>4, <1>5 DEF AfterInterrupt, AfterDraw, AfterWin

LEMMA EndTyped ==
  ASSUME TypeOK, ScoreIsTrue, NEW n \in 1..Len(games), NEW status \in {"completed", "interrupted"},
         NEW winner \in Players \cup {Nobody}, NEW after,
         series.status = "active" => after \in Series,
         EndGame(n, status, winner, after)
  PROVE  TypeOK'
<1>1. games' \in Seq(Game) /\ Len(games') = Len(games)
  <2>1. [games[n] EXCEPT !.status = status, !.winner = winner] \in Game
    BY LatestIsAGame DEF Game
  <2> QED BY <2>1, LatestIsAGame DEF EndGame
<1>2. series' \in Series
  BY SeriesTyped, CancelTyped DEF EndGame, Counts
<1>3. confirmed' \in [Players -> Decks \cup {NoDeck}] /\ wish' \in Players \cup {Nobody}
  BY DEF EndGame, NoWish, Both
<1> QED BY <1>1, <1>2, <1>3, TypedIsTypeOK DEF Typed, EndGame

(* Between games a player's changes stay within the row's types. *)
LEMMA SideTyped ==
  ASSUME TypeOK, SideDecking
  PROVE  series' \in Series /\ confirmed' \in [Players -> Decks \cup {NoDeck}] /\ wish' \in Players \cup {Nobody}
<1> USE SeriesTyped
<1>1. confirmed \in [Players -> Decks \cup {NoDeck}] /\ wish \in Players \cup {Nobody}
  BY DEF TypeOK
<1>2. ASSUME NEW p \in Players, NEW deck \in Layouts[p], SaveSide(p, deck)
      PROVE  series' \in Series /\ confirmed' = confirmed /\ wish' = wish
  <2>1. deck \in Decks
    BY <1>2 DEF Decks
  <2> QED BY <1>2, <2>1 DEF SaveSide, Series
<1>3. ASSUME NEW p \in Players, SideReady(p)
      PROVE  /\ series' \in Series /\ wish' = wish
             /\ confirmed' \in [Players -> Decks \cup {NoDeck}]
  <2>1. series' \in Series
    BY <1>3 DEF SideReady, Series
  <2>2. series.deck[p] \in Decks \cup {NoDeck}
    BY DEF Series
  <2> QED BY <1>1, <1>3, <2>1, <2>2 DEF SideReady
<1>4. ASSUME NEW p \in Players, SideUnready(p)
      PROVE  /\ series' \in Series /\ wish' = wish
             /\ confirmed' \in [Players -> Decks \cup {NoDeck}]
  BY <1>1, <1>4 DEF SideUnready, Series
<1>5. ASSUME NEW p \in Players, NEW choice \in {"first", "second"}, ChooseFirst(p, choice)
      PROVE  series' \in Series /\ confirmed' = confirmed /\ wish' \in Players
  <2>1. Other(p) \in Players
    BY DEF Other, Players
  <2> QED BY <1>5, <2>1 DEF ChooseFirst, Series
<1> QED BY <1>1, <1>2, <1>3, <1>4, <1>5 DEF SideDecking

LEMMA AdvanceTyped ==
  ASSUME TypeOK, Advance
  PROVE  TypeOK'
<1>1. CASE closed
  BY <1>1, CancelTyped, LatestIsAGame, TypedIsTypeOK DEF Advance, Cancel, Typed
<1>2. CASE ~closed
  <2>1. FirstSeat \in Players
    BY SeriesTyped, LatestIsAGame DEF FirstSeat, Series, Game, Other, Players, Nobody
  <2>2. NewGame(FirstSeat) \in Game
    BY <2>1, NewRowsTyped
  <2>3. games' \in Seq(Game) /\ Len(games') = Len(games) + 1
    BY <1>2, <2>2, LatestIsAGame DEF Advance, NextGame
  <2>4. Len(games') \in 1..MaxGames
    BY <2>3, LatestIsAGame, BoundAssumption DEF Advance, BoundAssumption
  <2> Both(TRUE) \in [Players -> BOOLEAN] /\ Both(FALSE) \in [Players -> BOOLEAN]
    BY DEF Both
  <2>5. NextGame
    BY <1>2 DEF Advance
  <2>6. series' \in Series
    <3>1. series' = [series EXCEPT !.status = "active", !.ready = Both(FALSE),
                        !.window = "none", !.chooser = Nobody, !.choice = "none"]
      BY <2>5 DEF NextGame
    <3> QED BY <3>1, SeriesTyped DEF Series, Status
  <2>7. seat' \in [deck : [Players -> Decks \cup {NoDeck}], ready : [Players -> BOOLEAN]]
    <3>1. series.deck \in [Players -> Decks \cup {NoDeck}]
      BY SeriesTyped DEF Series
    <3>2. seat' = [deck |-> series.deck, ready |-> Both(TRUE)]
      BY <2>5 DEF NextGame
    <3> QED BY <3>1, <3>2
  <2> QED BY <1>2, <2>3, <2>4, <2>5, <2>6, <2>7, TypedIsTypeOK DEF Advance, NextGame, Typed
<1> QED BY <1>1, <1>2

LEMMA LobbyTyped ==
  ASSUME TypeOK, Lobby
  PROVE  TypeOK'
<1>1. seat \in [deck : [Players -> Decks \cup {NoDeck}], ready : [Players -> BOOLEAN]]
  BY DEF TypeOK
<1>2. ASSUME NEW p \in Players, LobbyReady(p) \/ LobbyUnready(p)
      PROVE  TypeOK'
  <2>1. seat' \in [deck : [Players -> Decks \cup {NoDeck}], ready : [Players -> BOOLEAN]]
    BY <1>1, <1>2 DEF LobbyReady, LobbyUnready
  <2> QED BY <1>2, <2>1, TypedIsTypeOK DEF Typed, LobbyReady, LobbyUnready
<1>3. ASSUME NEW p \in Players, NEW deck \in Layouts[p], SetDeck(p, deck)
      PROVE  TypeOK'
  <2>1. deck \in Decks
    BY DEF Decks
  <2>2. seat' \in [deck : [Players -> Decks \cup {NoDeck}], ready : [Players -> BOOLEAN]]
    BY <1>1, <1>3, <2>1 DEF SetDeck
  <2> QED BY <1>3, <2>2, TypedIsTypeOK DEF Typed, SetDeck
<1>4. ASSUME CancelLobby
      PROVE  TypeOK'
  BY <1>4, CancelTyped, LatestIsAGame, TypedIsTypeOK DEF Typed, CancelLobby, Cancel
<1> QED BY <1>2, <1>3, <1>4 DEF Lobby

LEMMA ActivateTyped ==
  ASSUME TypeOK, Activate
  PROVE  TypeOK'
<1>1. games' \in Seq(Game) /\ Len(games') = Len(games)
  <2>1. Latest.first \in Players
    BY LatestIsAGame DEF Game
  <2>2. PICK f \in Players :
          games' = [games EXCEPT ![Len(games)] = [@ EXCEPT !.status = "active", !.first = f]]
    BY <2>1 DEF Activate
  <2>3. [games[Len(games)] EXCEPT !.status = "active", !.first = f] \in Game
    <3>1. games[Len(games)] \in Game
      BY LatestIsAGame DEF Latest
    <3> QED BY <3>1 DEF Game
  <2> QED BY <2>2, <2>3, LatestIsAGame
<1>2. series' \in Series
  <2>1. seat.deck \in [Players -> Decks \cup {NoDeck}]
    BY DEF TypeOK
  <2>2. NewSeries(seat.deck) \in Series
    BY <2>1, NewRowsTyped
  <2>3. FillDecks(series) \in Series
    BY <2>1, SeriesTyped DEF FillDecks, Series
  <2> QED BY <2>2, <2>3 DEF Activate
<1> QED BY <1>1, <1>2, LatestIsAGame, TypedIsTypeOK DEF Typed, Activate

LEMMA PlayTyped ==
  ASSUME TypeOK, ScoreIsTrue, Play
  PROVE  TypeOK'
<1> USE AfterTyped, EndTyped
<1>1. ASSUME NEW n \in 1..Len(games), Interrupt(n)
      PROVE  TypeOK'
  BY <1>1 DEF Interrupt
<1>2. ASSUME NEW n \in 1..Len(games), Draw(n)
      PROVE  TypeOK'
  BY <1>2 DEF Draw
<1>3. ASSUME NEW n \in 1..Len(games), NEW p \in Players, Win(n, p)
      PROVE  TypeOK'
  BY <1>3 DEF Win
<1> QED BY <1>1, <1>2, <1>3 DEF Play

LEMMA StepTyped ==
  ASSUME TypeOK, ScoreIsTrue, [Next]_vars
  PROVE  TypeOK'
<1>1. CASE SideDecking
  <2>1. UNCHANGED <<match, closed, games, seat, starting, failures>>
    BY <1>1 DEF SideDecking, SaveSide, SideReady, SideUnready, ChooseFirst
  <2> QED BY <1>1, <2>1, SideTyped, TypedIsTypeOK DEF Typed
<1>2. CASE StartGame \/ StartFails \/ StartTooLate
  <2>1. /\ UNCHANGED <<match, closed, series, games, seat, confirmed, wish>> /\ starting' \in BOOLEAN
        /\ \/ UNCHANGED failures
           \/ failures < MaxFailures /\ failures' = failures + 1
    BY <1>2 DEF StartGame, StartFails, StartTooLate, rows
  <2>2. failures' \in 0..MaxFailures
    BY <2>1, BoundAssumption DEF BoundAssumption, TypeOK
  <2> QED BY <2>1, <2>2, TypedIsTypeOK DEF Typed
<1>3. CASE CancelSeries \/ CloseTournament
  BY <1>3, CancelTyped, TypedIsTypeOK DEF Typed, CancelSeries, CloseTournament, Cancel
<1>4. CASE WindowEnds
  <2>1. series' \in Series
    BY <1>4, SeriesTyped DEF WindowEnds, Series
  <2> QED BY <1>4, <2>1, TypedIsTypeOK DEF Typed, WindowEnds
<1>5. CASE UNCHANGED vars
  BY <1>5, TypedIsTypeOK DEF Typed, vars
<1> QED BY <1>1, <1>2, <1>3, <1>4, <1>5, LobbyTyped, PlayTyped, ActivateTyped, AdvanceTyped DEF Next

-----------------------------------------------------------------------------
(* The series, its games and the score.                                    *)

Standing == SeriesMatchesGames /\ NoneBeforeStart /\ WinnersEnded /\ WindowIsBetween /\ ScoreIsTrue

(* The score as a statement about the sets of games won. *)
LEMMA ScoreByGames ==
  /\ \A p \in Players : GamesWon(p) = Cardinality(WonIn(games, p))
  /\ \A p \in Players : GamesWon(p)' = Cardinality(WonIn(games', p))
BY DEF GamesWon, WonIn

(* Steps that leave the games, the status and the score alone. *)
LEMMA QuietKeeps ==
  ASSUME IInv, UNCHANGED <<games, match>>,
         series'.status = series.status, series'.wins = series.wins, series'.winner = series.winner,
         WindowIsBetween'
  PROVE  Standing'
<1>1. SeriesMatchesGames' /\ NoneBeforeStart' /\ WinnersEnded'
  BY DEF IInv, SeriesMatchesGames, NoneBeforeStart, WinnersEnded, Latest
<1>2. ScoreIsTrue'
  BY DEF IInv, ScoreIsTrue, GamesWon, Needed
<1> QED BY <1>1, <1>2 DEF Standing

LEMMA CancelKeeps ==
  ASSUME IInv, Cancel
  PROVE  Standing'
<1>1. /\ Len(games') = Len(games) /\ games' \in Seq(Game)
      /\ \A n \in 1..Len(games) :
            games'[n] = IF games[n].status = "lobby" THEN [games[n] EXCEPT !.status = "cancelled"] ELSE games[n]
  <2>1. DOMAIN games = 1..Len(games)
    BY LatestIsAGame DEF IInv
  <2> QED BY <2>1, CancelTyped DEF IInv, Cancel, CancelledGames
<1>2. \A n \in 1..Len(games) : /\ games'[n].winner = games[n].winner
                               /\ games'[n].status = IF games[n].status = "lobby" THEN "cancelled"
                                                     ELSE games[n].status
  BY <1>1, LatestIsAGame DEF IInv, Game
<1>3. /\ series'.wins = series.wins /\ series'.winner = series.winner
      /\ series'.status = IF series.status \in {"active", "between"} THEN "cancelled" ELSE series.status
  BY SeriesTyped DEF IInv, Cancel, CancelledSeries, Series
<1>4. Len(games) \in 1..Len(games)
  BY LatestIsAGame DEF IInv
<1>5. SeriesMatchesGames' /\ NoneBeforeStart' /\ WinnersEnded' /\ WindowIsBetween'
  <2>1. WindowIsBetween'
    BY SeriesTyped DEF IInv, WindowIsBetween, Cancel, CancelledSeries, Series
  <2> QED BY <1>1, <1>2, <1>3, <1>4, <2>1 DEF IInv, SeriesMatchesGames, NoneBeforeStart, WinnersEnded, Latest
<1>6. ScoreIsTrue'
  <2>1. \A p \in Players : GamesWon(p)' = GamesWon(p)
    BY <1>1, <1>2, SameWinners, ScoreByGames DEF IInv
  <2> QED BY <1>3, <2>1 DEF IInv, ScoreIsTrue, Needed, Cancel
<1> QED BY <1>5, <1>6 DEF Standing

LEMMA ActivateKeeps ==
  ASSUME IInv, Activate
  PROVE  Standing'
<1> DEFINE last == Len(games)
<1>1. Latest.first \in Players /\ last \in 1..Len(games) /\ games[last] \in Game /\ games \in Seq(Game)
  BY LatestIsAGame DEF IInv, Game, Latest
<1>2. PICK f \in Players :
        games' = [games EXCEPT ![last] = [@ EXCEPT !.status = "active", !.first = f]]
  BY <1>1 DEF Activate
<1>3. /\ games' \in Seq(Game) /\ Len(games') = last
      /\ \A n \in 1..last : games'[n].winner = games[n].winner
      /\ \A n \in 1..last : n # last => games'[n] = games[n]
      /\ games'[last].status = "active"
  <2>1. LET g == [games[last] EXCEPT !.status = "active", !.first = f] IN
        g \in Game /\ g.status = "active" /\ g.winner = games[last].winner
    BY <1>1 DEF Game
  <2> QED BY <1>1, <1>2, <2>1
<1>4. Latest.status = "lobby" /\ series.status \in {"none", "active", "cancelled"}
  BY SeriesTyped DEF IInv, Activate, Startable, SeriesMatchesGames, Series, Status
<1>5. series.status # "cancelled"
  BY <1>4 DEF IInv, SeriesMatchesGames
<1>6. series'.status = "active"
  BY <1>4, <1>5, SeriesTyped DEF IInv, Activate, NewSeries, FillDecks, Series
<1>7. series'.wins = series.wins /\ series'.winner = series.winner
  <2>1. CASE series.status = "none"
    BY <1>4, <2>1 DEF IInv, NoneBeforeStart, Activate, NewSeries
  <2>2. CASE series.status = "active"
    <3>1. series' = FillDecks(series)
      BY <2>2 DEF Activate
    <3> QED BY <3>1, SeriesTyped DEF IInv, FillDecks, Series
  <2> QED BY <1>4, <1>5, <2>1, <2>2
<1>8. SeriesMatchesGames' /\ NoneBeforeStart' /\ WinnersEnded' /\ WindowIsBetween'
  <2>1. Latest'.status = "active"
    BY <1>3 DEF Latest
  <2>2. WinnersEnded'
    BY <1>3, <1>4 DEF IInv, WinnersEnded, Latest
  <2>3. WindowIsBetween'
    BY <1>4, <1>5, SeriesTyped DEF IInv, WindowIsBetween, Activate, NewSeries, FillDecks, Series
  <2> QED BY <1>1, <1>3, <1>6, <2>1, <2>2, <2>3 DEF IInv, SeriesMatchesGames, NoneBeforeStart
<1>9. ScoreIsTrue'
  <2>1. \A p \in Players : GamesWon(p)' = GamesWon(p)
    BY <1>3, SameWinners, ScoreByGames DEF IInv
  <2>2. \A p \in Players : series.wins[p] < Needed
    BY <1>4, <1>5, SeriesTyped DEF IInv, ScoreIsTrue, Series, Needed
  <2>3. Needed' = Needed /\ Needed \in Nat
    BY DEF Activate, Needed
  <2>4. series.winner = Nobody
    BY <2>2, <2>3, SeriesTyped DEF IInv, ScoreIsTrue, Series
  <2> QED BY <1>4, <1>5, <1>7, <2>1, <2>2, <2>3, <2>4, SeriesTyped DEF IInv, ScoreIsTrue, Series
<1> QED BY <1>8, <1>9 DEF Standing

LEMMA NextGameKeeps ==
  ASSUME IInv, Advance, ~closed
  PROVE  Standing'
<1> DEFINE new == NewGame(FirstSeat)
<1>1. FirstSeat \in Players
  BY SeriesTyped, LatestIsAGame DEF IInv, FirstSeat, Series, Game, Other, Players, Nobody
<1>2. series.status = "between" /\ NextGame
  BY DEF Advance, IsDue
<1>3. /\ games' = Append(games, new) /\ Len(games') = Len(games) + 1 /\ games'[Len(games')] = new
      /\ \A n \in 1..Len(games) : games'[n] = games[n]
      /\ new.status = "lobby" /\ new.winner = Nobody
  BY <1>1, <1>2, NewRowsTyped, LatestIsAGame DEF IInv, NextGame, NewGame
<1>4. series'.status = "active" /\ series'.wins = series.wins /\ series'.winner = series.winner
  BY <1>2, SeriesTyped DEF IInv, NextGame, Series
<1>5. SeriesMatchesGames'
  <2>1. \A n \in 1..Len(games) : games[n].status \in {"completed", "interrupted"}
    BY <1>2, LatestIsAGame DEF IInv, SeriesMatchesGames, Latest
  <2>2. Latest'.status = "lobby"
    BY <1>3 DEF Latest
  <2> QED BY <1>3, <1>4, <2>1, <2>2, LatestIsAGame DEF IInv, SeriesMatchesGames
<1>6. NoneBeforeStart' /\ WinnersEnded' /\ WindowIsBetween'
  <2>1. WindowIsBetween'
    BY <1>2, SeriesTyped DEF IInv, WindowIsBetween, NextGame, Series
  <2> QED BY <1>3, <1>4, <2>1, LatestIsAGame DEF IInv, NoneBeforeStart, WinnersEnded
<1>7. ScoreIsTrue'
  <2>1. \A p \in Players : GamesWon(p)' = GamesWon(p)
    BY <1>1, <1>3, NewGameUndecided, ScoreByGames DEF IInv
  <2>2. Needed' = Needed /\ Needed \in Nat
    BY <1>2 DEF NextGame, Needed
  <2>3. \A p \in Players : series.wins[p] < Needed
    BY <1>2, <2>2, SeriesTyped DEF IInv, ScoreIsTrue, Series
  <2>4. series.winner = Nobody
    BY <2>2, <2>3, SeriesTyped DEF IInv, ScoreIsTrue, Series
  <2> QED BY <1>2, <1>4, <2>1, <2>2, <2>3, <2>4, SeriesTyped DEF IInv, ScoreIsTrue, Series
<1> QED BY <1>5, <1>6, <1>7 DEF Standing

(* What the series must become when a game that counts ends. *)
Settles(after, winner) ==
    /\ after.wins = IF winner = Nobody THEN series.wins ELSE [series.wins EXCEPT ![winner] = @ + 1]
    /\ \/ /\ after.status = "between" /\ after.winner = Nobody
          /\ \A p \in Players : after.wins[p] < Needed
       \/ /\ after.status = "completed" /\ after.winner = winner
          /\ \A p \in Players : p # winner => after.wins[p] < Needed
          /\ winner # Nobody => after.wins[winner] = Needed
    /\ after.window # "none" => after.status = "between"

LEMMA UndecidedIsOpen ==
  ASSUME IInv, series.status # "completed"
  PROVE  series.winner = Nobody /\ \A p \in Players : series.wins[p] < Needed
<1>1. Needed \in Nat
  BY DEF Needed
<1>2. \A p \in Players : series.wins[p] < Needed
  BY <1>1, SeriesTyped DEF IInv, ScoreIsTrue, Series
<1> QED BY <1>1, <1>2, SeriesTyped DEF IInv, ScoreIsTrue, Series

LEMMA AfterSettles ==
  ASSUME IInv, series.status = "active"
  PROVE  /\ Settles(AfterInterrupt, Nobody) /\ Settles(AfterDraw, Nobody)
         /\ \A p \in Players : Settles(AfterWin(p), p)
<1>1. \A wins, window, ready, chooser :
        /\ Between(wins, window, ready, chooser).status = "between"
        /\ Between(wins, window, ready, chooser).wins = wins
        /\ Between(wins, window, ready, chooser).winner = Nobody
  BY UndecidedIsOpen, SeriesTyped DEF Between, IInv, Series
<1>2. \A wins, winner :
        /\ Won(wins, winner).status = "completed" /\ Won(wins, winner).wins = wins
        /\ Won(wins, winner).winner = winner /\ Won(wins, winner).window = "none"
  BY SeriesTyped DEF Won, IInv, Series
<1>3. Settles(AfterInterrupt, Nobody) /\ Settles(AfterDraw, Nobody)
  <2>1. \A p \in Players : series.wins[p] < Needed
    BY UndecidedIsOpen
  <2>2. \A window, ready : Settles(Between(series.wins, window, ready, Nobody), Nobody)
    BY <1>1, <2>1 DEF Settles
  <2>3. Settles(Won(series.wins, Nobody), Nobody)
    BY <1>2, <2>1 DEF Settles
  <2> QED BY <2>2, <2>3 DEF AfterInterrupt, AfterDraw
<1>4. ASSUME NEW p \in Players
      PROVE  Settles(AfterWin(p), p)
  <2> DEFINE wins == [series.wins EXCEPT ![p] = @ + 1]
  <2>1. /\ wins[p] = series.wins[p] + 1 /\ series.wins[p] \in Nat /\ p # Nobody
        /\ \A q \in Players : q # p => wins[q] = series.wins[q]
    BY SeriesTyped DEF IInv, Series, Players, Nobody
  <2>2. Needed \in Nat
    BY DEF Needed
  <2>3. CASE wins[p] < Needed
    <3>1. AfterWin(p) = Between(wins, "open", FALSE, Other(p))
      BY <2>3 DEF AfterWin
    <3>2. \A q \in Players : wins[q] < Needed
      BY <2>1, <2>3, UndecidedIsOpen
    <3>3. AfterWin(p).status = "between" /\ AfterWin(p).wins = wins /\ AfterWin(p).winner = Nobody
      BY <3>1, UndecidedIsOpen, SeriesTyped DEF Between, IInv, Series
    <3> HIDE DEF wins
    <3> QED BY <2>1, <3>2, <3>3 DEF Settles, wins
  <2>4. CASE ~(wins[p] < Needed)
    <3>1. AfterWin(p) = Won(wins, p)
      BY <2>4 DEF AfterWin
    <3>2. wins[p] = Needed /\ \A q \in Players : q # p => wins[q] < Needed
      BY <2>1, <2>2, <2>4, UndecidedIsOpen
    <3>3. /\ AfterWin(p).status = "completed" /\ AfterWin(p).wins = wins
          /\ AfterWin(p).winner = p /\ AfterWin(p).window = "none"
      BY <1>2, <3>1
    <3> HIDE DEF wins
    <3> QED BY <2>1, <3>2, <3>3 DEF Settles, wins
  <2> QED BY <2>3, <2>4
<1> QED BY <1>3, <1>4

(* The games won grow by the game that ends. *)
LEMMA OneMoreWon ==
  ASSUME TypeOK, NEW n \in 1..Len(games), games[n].winner = Nobody, NEW winner \in Players \cup {Nobody},
         NEW gs \in Seq(Game), Len(gs) = Len(games), gs[n].winner = winner,
         \A k \in 1..Len(games) : k # n => gs[k] = games[k]
  PROVE  \A p \in Players : Cardinality(WonIn(gs, p)) =
            IF p = winner THEN Cardinality(WonIn(games, p)) + 1 ELSE Cardinality(WonIn(games, p))
<1> TAKE p \in Players
<1>1. p # Nobody
  BY DEF Players, Nobody
<1>2. CASE p = winner
  <2>1. WonIn(gs, p) = WonIn(games, p) \cup {n} /\ n \notin WonIn(games, p)
    BY <1>1, <1>2 DEF WonIn
  <2>2. IsFiniteSet(WonIn(games, p))
    BY WonIsFinite, LatestIsAGame
  <2>3. Cardinality(WonIn(games, p) \cup {n}) = Cardinality(WonIn(games, p)) + 1
    BY <2>1, <2>2, FS_AddElement
  <2> QED BY <1>2, <2>1, <2>3
<1>3. CASE p # winner
  <2>1. WonIn(gs, p) = WonIn(games, p)
    BY <1>1, <1>3 DEF WonIn
  <2> QED BY <1>3, <2>1
<1> QED BY <1>2, <1>3

LEMMA EndKeeps ==
  ASSUME IInv, NEW n \in 1..Len(games), NEW status \in {"completed", "interrupted"},
         NEW winner \in Players \cup {Nobody}, status = "interrupted" => winner = Nobody,
         NEW after, series.status = "active" => Settles(after, winner),
         EndGame(n, status, winner, after)
  PROVE  Standing'
<1>1. Len(games) \in 1..Len(games) /\ games[n] \in Game /\ games \in Seq(Game)
  BY LatestIsAGame DEF IInv
<1>2. n = Len(games)
  BY <1>1, LatestIsAGame DEF IInv, SeriesMatchesGames, EndGame
<1>3. series.status \in {"active", "cancelled"}
  BY <1>2, SeriesTyped DEF IInv, SeriesMatchesGames, NoneBeforeStart, Latest, EndGame, Series, Status
<1>4. games[n].winner = Nobody
  BY DEF IInv, WinnersEnded, EndGame
<1>5. /\ games' \in Seq(Game) /\ Len(games') = Len(games)
      /\ games'[n].status = status /\ games'[n].winner = winner
      /\ \A k \in 1..Len(games) : k # n => games'[k] = games[k]
  <2>1. LET g == [games[n] EXCEPT !.status = status, !.winner = winner] IN
        g \in Game /\ g.status = status /\ g.winner = winner
    BY <1>1 DEF Game
  <2> QED BY <1>1, <2>1 DEF EndGame
<1>6. \A p \in Players : GamesWon(p)' = IF p = winner THEN GamesWon(p) + 1 ELSE GamesWon(p)
  BY <1>4, <1>5, OneMoreWon, ScoreByGames DEF IInv
<1>7. WinnersEnded'
  BY <1>5 DEF IInv, WinnersEnded
<1>8. Latest'.status = status /\ \A k \in 1..(Len(games) - 1) : games'[k].status \in {"completed", "interrupted"}
  BY <1>1, <1>2, <1>5, LatestIsAGame DEF IInv, Latest, SeriesMatchesGames
<1>9. Needed' = Needed /\ Needed \in Nat
  BY DEF EndGame, Needed
<1>10. CASE series.status = "active" /\ ~closed
  <2>1. series' = after /\ Settles(after, winner)
    BY <1>2, <1>10 DEF EndGame, Counts
  <2>2. SeriesMatchesGames' /\ NoneBeforeStart' /\ WindowIsBetween'
    BY <1>5, <1>8, <2>1 DEF Settles, SeriesMatchesGames, NoneBeforeStart, WindowIsBetween
  <2>3. \A p \in Players : series.wins[p] = GamesWon(p)
    BY <1>10 DEF IInv, ScoreIsTrue
  <2>4. \A p \in Players : after.wins[p] = IF p = winner THEN series.wins[p] + 1 ELSE series.wins[p]
    BY <2>1, SeriesTyped DEF Settles, IInv, Series, Players, Nobody
  <2>5. \A p \in Players : p # Nobody /\ after.wins[p] \in Nat
    BY <2>4, SeriesTyped DEF IInv, Series, Players, Nobody
  <2>6. ScoreIsTrue'
    <3>1. \A p \in Players : after.wins[p] = GamesWon(p)'
      BY <1>6, <2>3, <2>4
    <3>2. \/ /\ after.winner = Nobody
             /\ \A p \in Players : after.wins[p] < Needed
          \/ /\ after.status = "completed" /\ after.winner = winner
             /\ \A p \in Players : p # winner => after.wins[p] < Needed
             /\ winner # Nobody => after.wins[winner] = Needed
      BY <2>1 DEF Settles
    <3>3. ASSUME NEW p \in Players, after.wins[p] >= Needed
          PROVE  after.status = "completed" /\ after.winner = p
      <4>1. ~(after.wins[p] < Needed)
        BY <1>9, <2>5, <3>3
      <4> QED BY <3>2, <4>1
    <3>4. after.winner # Nobody => after.wins[after.winner] = Needed
      BY <3>2
    <3> QED BY <1>9, <2>1, <3>1, <3>3, <3>4 DEF ScoreIsTrue
  <2> QED BY <1>7, <2>2, <2>6 DEF Standing
<1>11. CASE series.status = "cancelled" \/ closed
  <2>1. /\ series'.status = "cancelled" /\ series'.wins = series.wins /\ series'.winner = series.winner
        /\ series'.window = "none"
    BY <1>2, <1>3, <1>11, SeriesTyped
       DEF IInv, WindowIsBetween, EndGame, Counts, CancelledSeries, Series
  <2>2. SeriesMatchesGames' /\ NoneBeforeStart' /\ WindowIsBetween'
    BY <1>5, <1>8, <2>1 DEF SeriesMatchesGames, NoneBeforeStart, WindowIsBetween
  <2>3. ScoreIsTrue'
    BY <1>3, <1>9, <2>1, UndecidedIsOpen, SeriesTyped DEF IInv, ScoreIsTrue, Series
  <2> QED BY <1>7, <2>2, <2>3 DEF Standing
<1> QED BY <1>3, <1>10, <1>11

-----------------------------------------------------------------------------
(* The theorems.                                                           *)

LEMMA InitKeeps == Init => IInv
<1> SUFFICES ASSUME Init PROVE IInv
  OBVIOUS
<1>1. TypeOK
  BY InitTyped
<1>2. \E f \in Players : games = <<NewGame(f)>>
  BY DEF Init
<1>3. Len(games) = 1 /\ games[1].status = "lobby" /\ games[1].winner = Nobody
  BY <1>2 DEF NewGame
<1>4. series.status \in {"active", "none"} /\ series.wins = Both(0) /\ series.winner = Nobody
  BY DEF Init, NewSeries
<1>5. SeriesMatchesGames /\ NoneBeforeStart /\ WinnersEnded /\ WindowIsBetween
  <2>1. series.window = "none"
    BY DEF Init, NewSeries
  <2> QED BY <1>3, <1>4, <2>1 DEF SeriesMatchesGames, NoneBeforeStart, WinnersEnded, WindowIsBetween, Latest
<1>6. ScoreIsTrue
  <2>1. \A p \in Players : WonIn(games, p) = {} /\ p # Nobody
    BY <1>3 DEF WonIn, Players, Nobody
  <2>2. \A p \in Players : GamesWon(p) = 0 /\ series.wins[p] = 0
    BY <1>4, <2>1, FS_EmptySet, ScoreByGames DEF Both
  <2>3. Needed \in Nat /\ Needed > 0
    BY DEF Needed
  <2> QED BY <1>4, <2>2, <2>3 DEF ScoreIsTrue
<1> QED BY <1>1, <1>5, <1>6 DEF IInv

LEMMA StepKeeps == IInv /\ [Next]_vars => IInv'
<1> SUFFICES ASSUME IInv, [Next]_vars PROVE Standing'
  BY StepTyped DEF IInv, Standing
<1>1. CASE Lobby
  <2>1. CASE CancelLobby
    BY <2>1, CancelKeeps DEF CancelLobby
  <2>2. CASE ~CancelLobby
    <3>1. UNCHANGED <<games, match, series>>
      BY <1>1, <2>2 DEF Lobby, LobbyReady, LobbyUnready, SetDeck
    <3>2. WindowIsBetween'
      BY <3>1 DEF IInv, WindowIsBetween
    <3> QED BY <3>1, <3>2, QuietKeeps
  <2> QED BY <2>1, <2>2
<1>2. CASE SideDecking
  <2>1. UNCHANGED <<games, match>>
    BY <1>2 DEF SideDecking, SaveSide, SideReady, SideUnready, ChooseFirst
  <2>2. series'.status = series.status /\ series'.wins = series.wins /\ series'.winner = series.winner
    BY <1>2, SeriesTyped DEF IInv, SideDecking, SaveSide, SideReady, SideUnready, ChooseFirst, Series
  <2>3. WindowIsBetween'
    BY <1>2, SeriesTyped
       DEF IInv, WindowIsBetween, SideDecking, SaveSide, SideReady, SideUnready, ChooseFirst, Series
  <2> QED BY <2>1, <2>2, <2>3, QuietKeeps
<1>3. CASE Play
  <2>1. ASSUME NEW n \in 1..Len(games), Interrupt(n) PROVE Standing'
    BY <2>1, AfterSettles, EndKeeps DEF Interrupt
  <2>2. ASSUME NEW n \in 1..Len(games), Draw(n) PROVE Standing'
    BY <2>2, AfterSettles, EndKeeps DEF Draw
  <2>3. ASSUME NEW n \in 1..Len(games), NEW p \in Players, Win(n, p) PROVE Standing'
    BY <2>3, AfterSettles, EndKeeps DEF Win
  <2> QED BY <1>3, <2>1, <2>2, <2>3 DEF Play
<1>4. CASE StartGame \/ StartFails \/ StartTooLate \/ UNCHANGED vars
  <2>1. UNCHANGED <<games, match, series>>
    BY <1>4 DEF StartGame, StartFails, StartTooLate, rows, vars
  <2>2. WindowIsBetween'
    BY <2>1 DEF IInv, WindowIsBetween
  <2> QED BY <2>1, <2>2, QuietKeeps
<1>5. CASE CancelSeries \/ CloseTournament
  BY <1>5, CancelKeeps DEF CancelSeries, CloseTournament
<1>6. CASE WindowEnds
  <2>1. UNCHANGED <<games, match>>
    BY <1>6 DEF WindowEnds
  <2>2. series'.status = series.status /\ series'.wins = series.wins /\ series'.winner = series.winner
    BY <1>6, SeriesTyped DEF IInv, WindowEnds, Series
  <2>3. WindowIsBetween'
    BY <1>6, <2>2 DEF IInv, WindowIsBetween, WindowEnds
  <2> QED BY <2>1, <2>2, <2>3, QuietKeeps
<1>7. CASE Advance
  BY <1>7, NextGameKeeps, CancelKeeps DEF Advance
<1> QED BY <1>1, <1>2, <1>3, <1>4, <1>5, <1>6, <1>7, ActivateKeeps DEF Next

(* The inductive invariant holds in every state of every match. *)
THEOREM SeriesInductive == Spec => []IInv
<1>1. Init => IInv
  BY InitKeeps
<1>2. IInv /\ [Next]_vars => IInv'
  BY StepKeeps
<1> QED BY <1>1, <1>2, PTL DEF Spec

(* The rows of the series, its games and its seats keep their types: the    *)
(* score stays within two wins, however late or often games end.           *)
THEOREM SeriesTypeCorrect == Spec => []TypeOK
<1>1. IInv => TypeOK
  BY DEF IInv
<1> QED BY <1>1, SeriesInductive, PTL

(* A series and its games never come apart, whoever cancels, finishes or    *)
(* advances first (onGameFinished, createNextGame, cancel).                *)
THEOREM SeriesNeverComesApart == Spec => []SeriesMatchesGames
<1>1. IInv => SeriesMatchesGames
  BY DEF IInv
<1> QED BY <1>1, SeriesInductive, PTL

(* The score of a series is always the games won, and it stops at the       *)
(* deciding win (onGameFinished).                                          *)
THEOREM ScoreIsAlwaysTrue == Spec => []ScoreIsTrue
<1>1. IInv => ScoreIsTrue
  BY DEF IInv
<1> QED BY <1>1, SeriesInductive, PTL

(* A step cannot move a series that is over: its latest game can neither    *)
(* start nor count any more, and every other step asks for an open series. *)
LEMMA OverStaysOver ==
  ASSUME IInv, [Next]_vars, series.status \in {"completed", "cancelled"}
  PROVE  UNCHANGED series
<1>1. CASE Activate
  BY <1>1 DEF IInv, SeriesMatchesGames, Activate, Startable
<1>2. CASE Play
  BY <1>2 DEF Play, Interrupt, Draw, Win, EndGame, Counts
<1>3. CASE Cancel
  BY <1>3 DEF Cancel, CancelledSeries
<1>4. CASE Lobby \/ CancelSeries \/ CloseTournament
  BY <1>3, <1>4 DEF Lobby, LobbyReady, LobbyUnready, SetDeck, CancelLobby, CancelSeries, CloseTournament
<1>5. CASE SideDecking
  BY <1>5 DEF SideDecking, SaveSide, SideReady, SideUnready, ChooseFirst
<1>6. CASE StartGame \/ StartFails \/ StartTooLate \/ UNCHANGED vars
  BY <1>6 DEF StartGame, StartFails, StartTooLate, rows, vars
<1>7. CASE Advance
  BY <1>7 DEF Advance, IsDue
<1>8. CASE WindowEnds
  BY <1>8 DEF IInv, WindowIsBetween, WindowEnds
<1> QED BY <1>1, <1>2, <1>4, <1>5, <1>6, <1>7, <1>8 DEF Next

(* A series that is over stays as it is (cancel and late results).         *)
THEOREM OverIsAlwaysOver == Spec => OverIsOver
<1>1. IInv /\ [Next]_vars => [series.status \in {"completed", "cancelled"} => UNCHANGED series]_vars
  BY OverStaysOver
<1> QED BY <1>1, SeriesInductive, PTL DEF Spec, OverIsOver

-----------------------------------------------------------------------------
(* What the players agreed on between two games.                           *)

(* Until the window is over, Ready stands for the deck the row holds.       *)
ReadyIsConfirmed ==
    series.status = "between" /\ series.window # "over" =>
        \A p \in Humans : series.ready[p] => confirmed[p] = series.deck[p]

(* The loser of the game before is the one who chooses, and the row keeps   *)
(* the last choice that was made.                                          *)
ChoiceIsKept ==
    series.status = "between" =>
        /\ series.chooser = IF Latest.winner = Nobody THEN Nobody ELSE Other(Latest.winner)
        /\ wish # Nobody => series.chooser # Nobody /\ wish = FirstSeat
        /\ wish = Nobody => series.choice # "second"

(* A series between two games starts without Ready and without a choice;    *)
(* only a drawn tournament game is followed at once by the next.            *)
StartsAnew(after, winner) ==
    after.status = "between" =>
        /\ after.chooser = IF winner = Nobody THEN Nobody ELSE Other(winner)
        /\ after.choice # "second"
        /\ after.window = "over" \/ \A p \in Humans : ~after.ready[p]

LEMMA AfterStartsAnew ==
  ASSUME TypeOK
  PROVE  /\ StartsAnew(AfterInterrupt, Nobody) /\ StartsAnew(AfterDraw, Nobody)
         /\ \A p \in Players : StartsAnew(AfterWin(p), p)
<1>1. ASSUME NEW wins, NEW window, NEW rdy, NEW chooser, NEW choice \in {"none", "first"}
      PROVE  LET b == [series EXCEPT !.status = "between", !.wins = wins, !.window = window,
                          !.ready = rdy, !.chooser = chooser, !.choice = choice]
             IN  b.chooser = chooser /\ b.choice # "second" /\ b.window = window /\ b.ready = rdy
  BY SeriesTyped DEF Series
<1>2. \A wins, winner : Won(wins, winner).status = "completed"
  BY SeriesTyped DEF Won, Series
<1>3. ASSUME NEW wins, NEW window, NEW winner \in Players \cup {Nobody}
      PROVE  StartsAnew(Between(wins, window, FALSE, IF winner = Nobody THEN Nobody ELSE Other(winner)), winner)
  <2> DEFINE chooser == IF winner = Nobody THEN Nobody ELSE Other(winner)
             b == Between(wins, window, FALSE, chooser)
             rdy == [p \in Players |-> FALSE \/ IsBot(p)]
  <2>1. \A p \in Humans : ~rdy[p]
    BY DEF Humans, IsBot
  <2> HIDE DEF chooser, rdy
  <2>2. b.chooser = chooser /\ b.choice # "second" /\ \A p \in Humans : ~b.ready[p]
    BY <1>1, <2>1 DEF Between, rdy
  <2> HIDE DEF b
  <2> QED BY <2>2 DEF StartsAnew, b, chooser
<1>4. StartsAnew(Between(series.wins, "over", TRUE, Nobody), Nobody)
  <2> DEFINE b == Between(series.wins, "over", TRUE, Nobody)
  <2>1. b.chooser = Nobody /\ b.choice # "second" /\ b.window = "over"
    BY <1>1 DEF Between
  <2> QED BY <2>1 DEF StartsAnew
<1>5. ASSUME NEW p \in Players
      PROVE  StartsAnew(AfterWin(p), p)
  <2> DEFINE wins == [series.wins EXCEPT ![p] = @ + 1]
  <2>1. Other(p) \in Players /\ p # Nobody
    BY DEF Other, Players, Nobody
  <2>2. StartsAnew(Between(wins, "open", FALSE, Other(p)), p)
    BY <1>3, <2>1
  <2>3. AfterWin(p) \in {Between(wins, "open", FALSE, Other(p)), Won(wins, p)}
    BY DEF AfterWin
  <2> HIDE DEF wins
  <2> QED BY <1>2, <2>2, <2>3 DEF StartsAnew
<1>6. StartsAnew(AfterInterrupt, Nobody) /\ StartsAnew(AfterDraw, Nobody)
  <2>1. StartsAnew(Won(series.wins, Nobody), Nobody)
    BY <1>2 DEF StartsAnew
  <2> QED BY <1>3, <1>4, <2>1 DEF AfterInterrupt, AfterDraw
<1> QED BY <1>5, <1>6

LEMMA EndAgrees ==
  ASSUME IInv, NEW n \in 1..Len(games), NEW status, NEW winner,
         NEW after, StartsAnew(after, winner), EndGame(n, status, winner, after)
  PROVE  ReadyIsConfirmed' /\ ChoiceIsKept'
<1>1. /\ games \in Seq(Game) /\ Len(games) \in Nat /\ Len(games) >= 1
      /\ games[n].status = "active" /\ games[n] \in Game
  BY LatestIsAGame DEF IInv, EndGame
<1>2. n = Len(games)
  BY <1>1 DEF IInv, SeriesMatchesGames
<1>3. series.status # "between"
  BY <1>1, <1>2 DEF IInv, SeriesMatchesGames, Latest
<1>4. Latest'.winner = winner
  BY <1>1, <1>2 DEF EndGame, Latest, Game
<1>5. wish' = Nobody /\ UNCHANGED match
  BY DEF EndGame, NoWish
<1>6. series' \in {series, CancelledSeries(series), after}
  BY DEF EndGame
<1>7. CancelledSeries(series).status # "between"
  BY <1>3, SeriesTyped DEF CancelledSeries, IInv, Series
<1>8. CASE series' = after
  BY <1>4, <1>5, <1>8 DEF StartsAnew, ReadyIsConfirmed, ChoiceIsKept, Humans, IsBot
<1> QED BY <1>3, <1>6, <1>7, <1>8 DEF ReadyIsConfirmed, ChoiceIsKept

LEMMA SideAgrees ==
  ASSUME TypeOK, ReadyIsConfirmed, ChoiceIsKept, SideDecking
  PROVE  ReadyIsConfirmed' /\ ChoiceIsKept'
<1> USE SeriesTyped DEF Series
<1>0. confirmed \in [Players -> Decks \cup {NoDeck}] /\ wish \in Players \cup {Nobody}
      /\ Humans \in SUBSET Players
  BY DEF TypeOK, Humans
<1>1. ASSUME NEW p \in Players, NEW deck \in Layouts[p], SaveSide(p, deck)
      PROVE  ReadyIsConfirmed' /\ ChoiceIsKept'
  <2>1. /\ UNCHANGED <<match, games, confirmed, wish>>
        /\ series' = [series EXCEPT !.deck[p] = deck, !.ready[p] = FALSE]
    BY <1>1 DEF SaveSide
  <2>2. /\ series'.status = series.status /\ series'.window = series.window
        /\ series'.chooser = series.chooser /\ series'.choice = series.choice
        /\ ~series'.ready[p]
        /\ \A q \in Players : q # p => /\ series'.ready[q] = series.ready[q]
                                       /\ series'.deck[q] = series.deck[q]
    BY <2>1
  <2> QED BY <1>0, <2>1, <2>2
          DEF ReadyIsConfirmed, ChoiceIsKept, Humans, IsBot, Latest, FirstSeat
<1>2. ASSUME NEW p \in Players, SideReady(p)
      PROVE  ReadyIsConfirmed' /\ ChoiceIsKept'
  <2>1. /\ UNCHANGED <<match, games, wish>>
        /\ series' = [series EXCEPT !.ready[p] = TRUE,
                         !.choice = IF series.chooser = p /\ @ = "none" THEN "first" ELSE @]
        /\ confirmed' = [confirmed EXCEPT ![p] = series.deck[p]]
    BY <1>2 DEF SideReady
  <2>2. /\ series'.status = series.status /\ series'.window = series.window
        /\ series'.chooser = series.chooser /\ series'.deck = series.deck
        /\ series'.choice = series.choice \/ (series'.choice = "first" /\ series.choice = "none")
        /\ \A q \in Players : q # p => series'.ready[q] = series.ready[q]
    BY <2>1
  <2>3. FirstSeat' = FirstSeat
    BY <2>1, <2>2 DEF FirstSeat, Latest
  <2>4. confirmed'[p] = series.deck[p] /\ \A q \in Players : q # p => confirmed'[q] = confirmed[q]
    BY <1>0, <2>1
  <2>5. ReadyIsConfirmed'
    BY <1>0, <2>1, <2>2, <2>4 DEF ReadyIsConfirmed, Humans, IsBot
  <2>6. ChoiceIsKept'
    BY <2>1, <2>2, <2>3 DEF ChoiceIsKept, Latest
  <2> QED BY <2>5, <2>6
<1>3. ASSUME NEW p \in Players, SideUnready(p)
      PROVE  ReadyIsConfirmed' /\ ChoiceIsKept'
  <2>1. /\ UNCHANGED <<match, games, wish>>
        /\ series' = [series EXCEPT !.ready[p] = FALSE]
        /\ confirmed' = [confirmed EXCEPT ![p] = NoDeck]
    BY <1>3 DEF SideUnready
  <2>2. /\ series'.status = series.status /\ series'.window = series.window
        /\ series'.chooser = series.chooser /\ series'.choice = series.choice
        /\ ~series'.ready[p] /\ series'.deck = series.deck
        /\ \A q \in Players : q # p => /\ series'.ready[q] = series.ready[q]
                                       /\ confirmed'[q] = confirmed[q]
    BY <1>0, <2>1
  <2> QED BY <1>0, <2>1, <2>2
          DEF ReadyIsConfirmed, ChoiceIsKept, Humans, IsBot, Latest, FirstSeat
<1>4. ASSUME NEW p \in Players, NEW choice \in {"first", "second"}, ChooseFirst(p, choice)
      PROVE  ReadyIsConfirmed' /\ ChoiceIsKept'
  <2>1. /\ UNCHANGED <<match, games, confirmed>> /\ series.chooser = p
        /\ series' = [series EXCEPT !.choice = choice]
        /\ wish' = IF choice = "second" THEN Other(p) ELSE p
    BY <1>4 DEF ChooseFirst
  <2>2. /\ series'.status = series.status /\ series'.window = series.window
        /\ series'.chooser = p /\ series'.choice = choice
        /\ series'.ready = series.ready /\ series'.deck = series.deck
    BY <2>1
  <2>3. p # Nobody /\ Other(p) # Nobody
    BY DEF Players, Other, Nobody
  <2> QED BY <2>1, <2>2, <2>3
          DEF ReadyIsConfirmed, ChoiceIsKept, Humans, IsBot, Latest, FirstSeat
<1> QED BY <1>1, <1>2, <1>3, <1>4 DEF SideDecking

LEMMA AgreementStep ==
  ASSUME IInv, ReadyIsConfirmed, ChoiceIsKept, [Next]_vars
  PROVE  ReadyIsConfirmed' /\ ChoiceIsKept'
<1>0. TypeOK /\ series \in Series
  BY SeriesTyped DEF IInv
<1>1. CASE series'.status # "between"
  BY <1>1 DEF ReadyIsConfirmed, ChoiceIsKept
<1>2. CASE UNCHANGED <<match, series, games, confirmed, wish>>
  BY <1>2 DEF ReadyIsConfirmed, ChoiceIsKept, Humans, IsBot, Latest, FirstSeat
<1>3. CASE Cancel
  <2>1. CancelledSeries(series).status # "between"
    BY <1>0 DEF CancelledSeries, Series
  <2> QED BY <1>1, <1>3, <2>1 DEF Cancel
<1>4. CASE Lobby
  BY <1>2, <1>3, <1>4 DEF Lobby, LobbyReady, LobbyUnready, SetDeck, CancelLobby
<1>5. CASE CancelSeries \/ CloseTournament
  BY <1>3, <1>5 DEF CancelSeries, CloseTournament
<1>6. CASE SideDecking
  BY <1>0, <1>6, SideAgrees
<1>7. CASE Play
  <2>1. ASSUME NEW n \in 1..Len(games), Interrupt(n) PROVE ReadyIsConfirmed' /\ ChoiceIsKept'
    BY <1>0, <2>1, AfterStartsAnew, EndAgrees DEF Interrupt
  <2>2. ASSUME NEW n \in 1..Len(games), Draw(n) PROVE ReadyIsConfirmed' /\ ChoiceIsKept'
    BY <1>0, <2>2, AfterStartsAnew, EndAgrees DEF Draw
  <2>3. ASSUME NEW n \in 1..Len(games), NEW p \in Players, Win(n, p)
        PROVE  ReadyIsConfirmed' /\ ChoiceIsKept'
    BY <1>0, <2>3, AfterStartsAnew, EndAgrees DEF Win
  <2> QED BY <1>7, <2>1, <2>2, <2>3 DEF Play
<1>8. CASE StartGame \/ StartFails \/ StartTooLate \/ UNCHANGED vars
  BY <1>2, <1>8 DEF StartGame, StartFails, StartTooLate, rows, vars
<1>9. CASE Activate
  <2>1. series.status # "between"
    BY <1>9 DEF Activate, Startable, IInv, SeriesMatchesGames
  <2>2. \A deck : NewSeries(deck).status # "between"
    BY DEF NewSeries
  <2>3. FillDecks(series).status = series.status
    BY <1>0 DEF FillDecks, Series
  <2> QED BY <1>1, <1>9, <2>1, <2>2, <2>3 DEF Activate
<1>10. CASE WindowEnds
  <2>1. /\ UNCHANGED <<match, games, confirmed, wish>>
        /\ series' = [series EXCEPT !.window = "over"]
    BY <1>10 DEF WindowEnds
  <2>2. /\ series'.window = "over" /\ series'.chooser = series.chooser
        /\ series'.choice = series.choice /\ series'.status = series.status
    BY <1>0, <2>1 DEF Series
  <2> QED BY <2>1, <2>2 DEF ReadyIsConfirmed, ChoiceIsKept, Latest, FirstSeat
<1>11. CASE Advance
  <2>1. NextGame => series'.status = "active"
    BY <1>0 DEF NextGame, Series
  <2> QED BY <1>1, <1>3, <1>11, <2>1 DEF Advance
<1> QED BY <1>4, <1>5, <1>6, <1>7, <1>8, <1>9, <1>10, <1>11 DEF Next

LEMMA Agreement == Spec => [](IInv /\ ReadyIsConfirmed /\ ChoiceIsKept)
<1>1. Init => ReadyIsConfirmed /\ ChoiceIsKept
  BY DEF Init, NewSeries, ReadyIsConfirmed, ChoiceIsKept
<1>2. IInv /\ ReadyIsConfirmed /\ ChoiceIsKept /\ [Next]_vars => ReadyIsConfirmed' /\ ChoiceIsKept'
  BY AgreementStep
<1> QED BY <1>1, <1>2, SeriesInductive, PTL DEF Spec

(* Only createNextGame adds a game. *)
LEMMA GamesGrowByNextGame ==
  ASSUME IInv, [Next]_vars, Len(games') > Len(games)
  PROVE  IsDue /\ NextGame /\ Latest' = NewGame(FirstSeat)
<1>1. games \in Seq(Game) /\ Len(games) \in Nat /\ Len(games) >= 1
  BY LatestIsAGame DEF IInv
<1>2. ~Cancel
  BY <1>1, CancelTyped DEF IInv, Cancel
<1>3. games' # games
  BY <1>1
<1>4. ~Lobby /\ ~CancelSeries /\ ~CloseTournament /\ ~SideDecking /\ ~WindowEnds
  BY <1>2, <1>3 DEF Lobby, LobbyReady, LobbyUnready, SetDeck, CancelLobby, CancelSeries,
     CloseTournament, SideDecking, SaveSide, SideReady, SideUnready, ChooseFirst, WindowEnds
<1>5. ~Play
  <2>1. ASSUME NEW n \in 1..Len(games), NEW g, games' = [games EXCEPT ![n] = g] PROVE FALSE
    <3>1. Len(games') = Len(games)
      BY <1>1, <2>1
    <3> QED BY <1>1, <3>1
  <2> QED BY <2>1 DEF Play, Interrupt, Draw, Win, EndGame
<1>6. ~Activate
  <2>1. ASSUME NEW g, games' = [games EXCEPT ![Len(games)] = g] PROVE FALSE
    <3>1. Len(games') = Len(games)
      BY <1>1, <2>1
    <3> QED BY <1>1, <3>1
  <2> QED BY <2>1 DEF Activate
<1>7. ~(StartGame \/ StartFails \/ StartTooLate \/ UNCHANGED vars)
  BY <1>3 DEF StartGame, StartFails, StartTooLate, rows, vars
<1>8. IsDue /\ NextGame
  BY <1>2, <1>4, <1>5, <1>6, <1>7 DEF Next, Advance
<1> QED BY <1>1, <1>8 DEF NextGame, Latest

(* A game made before its window ends has the decks the players last        *)
(* confirmed, however often they saved, readied and took it back.          *)
THEOREM NextGameKeepsTheDecks == Spec => NextGameOnConfirmedDecks
<1> DEFINE OnConfirmed == Len(games') > Len(games) /\ series.window # "over" =>
                             \A p \in Humans : seat'.deck[p] = confirmed[p]
<1>1. ASSUME IInv, ReadyIsConfirmed, [Next]_vars PROVE OnConfirmed
  <2>1. SUFFICES ASSUME Len(games') > Len(games), series.window # "over", NEW p \in Humans
                 PROVE  seat'.deck[p] = confirmed[p]
    OBVIOUS
  <2>2. IsDue /\ seat'.deck = series.deck
    <3>1. IsDue /\ NextGame
      BY <1>1, <2>1, GamesGrowByNextGame
    <3> QED BY <3>1 DEF NextGame
  <2> QED BY <1>1, <2>1, <2>2 DEF IsDue, ReadyIsConfirmed, Humans
<1> QED BY <1>1, Agreement, PTL DEF Spec, NextGameOnConfirmedDecks

(* The loser of the last game goes first unless they chose otherwise since, *)
(* and without a loser the seats swap (chooseFirst, createNextGame).       *)
THEOREM LoserGoesFirst == Spec => FirstSeatIsFair
<1> DEFINE Fair == Len(games') > Len(games) =>
                     games'[Len(games')].first =
                       IF wish # Nobody THEN wish
                       ELSE IF Latest.winner # Nobody THEN Other(Latest.winner) ELSE Other(Latest.first)
<1>1. ASSUME IInv, ChoiceIsKept, [Next]_vars PROVE Fair
  <2>1. SUFFICES ASSUME Len(games') > Len(games) PROVE Fair
    OBVIOUS
  <2>2. IsDue /\ games'[Len(games')].first = FirstSeat
    BY <1>1, <2>1, GamesGrowByNextGame DEF Latest, NewGame
  <2>3. Latest.winner # Nobody => Other(Latest.winner) # Nobody
    BY <1>1, LatestIsAGame DEF IInv, Game, Other, Players, Nobody
  <2> QED BY <1>1, <2>2, <2>3 DEF ChoiceIsKept, IsDue, FirstSeat
<1> QED BY <1>1, Agreement, PTL DEF Spec, FirstSeatIsFair
=============================================================================
