----------------------------- MODULE DuelSeries -----------------------------
(***************************************************************************)
(* A match of one or three games (packages/shared/src/services/            *)
(* duel-series.ts): the series row, its games, and the steps of the duel    *)
(* host that make and start them (packages/duel-server/src/host.ts).  Every *)
(* operation of the service is one transaction.  The host works in steps:   *)
(* it makes a game in one queue and starts it in another, and a start waits *)
(* for a worker while the web process may cancel the series.               *)
(*                                                                         *)
(* Abstractions: a deck is the layout a player gives the same cards; the    *)
(* deadline is a window that is open or over; a game is DuelHost's subject  *)
(* and shows only its end here; the opening of game 1 is part of its start  *)
(* and may seat the players in either order; the row of the match result    *)
(* is left out, and so is a single game against the practice bot, which     *)
(* makes no series.  Players are their index in the series; index 1 of a    *)
(* series against the practice bot is the bot.                             *)
(***************************************************************************)
EXTENDS Naturals, Sequences, FiniteSets

CONSTANTS
    Layouts,        \* per player, the layouts their cards may be given
    NoDeck,
    FirstDecks,     \* the decks players register, or bring to a table
    Origins,        \* how a match comes about, a subset of AllOrigins
    MaxGames,       \* bound: games of one series, interrupted ones included
    MaxFailures     \* bound: failed starts

Players == {0, 1}
Other(p) == 1 - p
Nobody == 2
AllOrigins == {"challenge", "tournament", "table", "bot"}

ASSUME DeckAssumption ==
    /\ \A p \in Players : NoDeck \notin Layouts[p]
    /\ FirstDecks \subseteq [Players -> UNION {Layouts[p] : p \in Players}]
    /\ \A deck \in FirstDecks : \A p \in Players : deck[p] \in Layouts[p]
ASSUME OriginAssumption == Origins \subseteq AllOrigins
ASSUME BoundAssumption == MaxGames \in Nat \ {0} /\ MaxFailures \in Nat

VARIABLES
    match,          \* what never changes: [origin, bestOf]
    closed,         \* is the tournament of the series no longer active?
    series,         \* the duel_series row; status "none" before game 1 of a table starts
    games,          \* its games in order: [status, first, winner]
    seat,           \* the seats of the latest game: [deck, ready]
    starting,       \* is the host starting the latest game?
    failures,       \* failed starts
    confirmed,      \* history: the deck a player's Ready stands for, since the last game
    wish            \* history: who goes first by the last choice made since the last game

vars == <<match, closed, series, games, seat, starting, failures, confirmed, wish>>
rows == <<match, closed, series, games, seat>>

Tournament == match.origin = "tournament"
IsBot(p) == match.origin = "bot" /\ p = 1
Humans == {p \in Players : ~IsBot(p)}
NeededAll == match.bestOf                    \* mutant: every game must be won
Needed == IF match.bestOf = 3 THEN 2 ELSE 1
Latest == games[Len(games)]
SeriesOpen == series.status \in {"active", "between"}
Both(x) == [p \in Players |-> x]
Decks == UNION {Layouts[p] : p \in Players}

NewSeries(deck) ==
    [status |-> "active", wins |-> Both(0), ready |-> Both(FALSE), chooser |-> Nobody,
     choice |-> "none", window |-> "none", deck |-> deck, winner |-> Nobody]

NewGame(first) == [status |-> "lobby", first |-> first, winner |-> Nobody]
NoWish == confirmed' = Both(NoDeck) /\ wish' = Nobody

-----------------------------------------------------------------------------
(* The lobby.  A challenge has a series and no decks, a tournament series   *)
(* brings the registered decks, and a table has its seats and no series.    *)

Init ==
    /\ match \in [origin : Origins, bestOf : {1, 3}]
    /\ match.origin = "bot" => match.bestOf = 3
    /\ \E deck \in FirstDecks, first \in Players :
          LET seated == IF match.origin = "challenge" THEN Both(NoDeck) ELSE deck IN
          /\ games = <<NewGame(first)>>
          /\ seat = [deck |-> seated, ready |-> [p \in Players |-> IsBot(p)]]
          /\ series = IF match.origin \in {"challenge", "tournament"}
                         THEN NewSeries(seated)
                         ELSE [NewSeries(Both(NoDeck)) EXCEPT !.status = "none"]
    /\ closed = FALSE /\ starting = FALSE /\ failures = 0
    /\ confirmed = Both(NoDeck) /\ wish = Nobody

InLobby == Latest.status = "lobby" /\ ~starting

SetDeck(p, deck) ==
    /\ InLobby /\ ~IsBot(p) /\ ~Tournament /\ Len(games) = 1
    /\ seat' = [deck |-> [seat.deck EXCEPT ![p] = deck], ready |-> [seat.ready EXCEPT ![p] = TRUE]]
    /\ UNCHANGED <<match, closed, series, games, starting, failures, confirmed, wish>>

LobbyReady(p) ==
    /\ InLobby /\ ~IsBot(p) /\ seat.deck[p] # NoDeck
    /\ seat' = [seat EXCEPT !.ready[p] = TRUE]
    /\ UNCHANGED <<match, closed, series, games, starting, failures, confirmed, wish>>

LobbyUnready(p) ==
    /\ InLobby /\ ~IsBot(p)
    /\ seat' = [seat EXCEPT !.ready[p] = FALSE]
    /\ UNCHANGED <<match, closed, series, games, starting, failures, confirmed, wish>>

-----------------------------------------------------------------------------
(* Starting a game: a job of the duel's queue that waits for the worker.    *)

Startable == Latest.status = "lobby" /\ \A p \in Players : seat.ready[p]

StartGameOnce ==                             \* mutant: the tick does not retry
    /\ Startable /\ ~starting /\ failures = 0
    /\ starting' = TRUE
    /\ UNCHANGED <<rows, failures, confirmed, wish>>

StartGame ==
    /\ Startable /\ ~starting
    /\ starting' = TRUE
    /\ UNCHANGED <<rows, failures, confirmed, wish>>

(* activateTx: a game that was cancelled meanwhile does not start.  Game 1 *)
(* gives a table its series, and any series the decks it lacks.            *)
FillDecks(s) ==
    [s EXCEPT !.deck = [p \in Players |-> IF @[p] = NoDeck THEN seat.deck[p] ELSE @[p]]]

Activate ==
    /\ starting /\ Startable
    /\ \E first \in IF Len(games) = 1 THEN Players ELSE {Latest.first} :
          games' = [games EXCEPT ![Len(games)] = [@ EXCEPT !.status = "active", !.first = first]]
    /\ series' = IF series.status = "none"
                    THEN NewSeries(seat.deck) ELSE FillDecks(series)
    /\ starting' = FALSE
    /\ UNCHANGED <<match, closed, seat, failures, confirmed, wish>>

(* The deck is refused, the worker fails, or the host restarts.            *)
StartFails ==
    /\ starting /\ failures < MaxFailures
    /\ starting' = FALSE /\ failures' = failures + 1
    /\ UNCHANGED <<rows, confirmed, wish>>

StartTooLate ==
    /\ starting /\ ~Startable
    /\ starting' = FALSE
    /\ UNCHANGED <<rows, failures, confirmed, wish>>

-----------------------------------------------------------------------------
(* Cancelling stops an open series and its lobby game; a live game plays on. *)

CancelledSeries(s) ==
    IF s.status \in {"active", "between"} THEN [s EXCEPT !.status = "cancelled", !.window = "none"] ELSE s
CancelledGamesNone(gs) == gs                  \* mutant: the lobby game stays
CancelledGames(gs) ==
    [n \in DOMAIN gs |-> IF gs[n].status = "lobby" THEN [gs[n] EXCEPT !.status = "cancelled"] ELSE gs[n]]

Cancel ==
    /\ series' = CancelledSeries(series) /\ games' = CancelledGames(games)
    /\ UNCHANGED <<match, seat, starting, failures, confirmed, wish>>

(* A player in the lobby: game 1 of a match that is no tournament's.       *)
CancelLobby ==
    /\ InLobby /\ ~Tournament /\ Len(games) = 1
    /\ Cancel /\ UNCHANGED closed

(* From the web process, at any time.                                      *)
CancelSeries ==
    /\ SeriesOpen
    /\ Cancel /\ UNCHANGED closed

CloseTournament ==
    /\ Tournament /\ ~closed
    /\ closed' = TRUE
    /\ Cancel

-----------------------------------------------------------------------------
(* A game ends, and in the same transaction its series moves on: only if it *)
(* is open and the game is its latest.                                     *)

CountsLatest(n) == n = Len(games)            \* mutant: a closed series counts on
Counts(n) == series.status = "active" /\ n = Len(games)

Between(wins, window, ready, chooser) ==
    [series EXCEPT !.status = "between", !.wins = wins, !.window = window,
        !.ready = [p \in Players |-> ready \/ IsBot(p)], !.chooser = chooser,
        !.choice = IF chooser # Nobody /\ IsBot(chooser) THEN "first" ELSE "none"]

Won(wins, winner) ==
    [series EXCEPT !.status = "completed", !.wins = wins, !.winner = winner, !.window = "none"]

(* onGameFinished: what becomes of the series.                             *)
AfterInterrupt == Between(series.wins, "none", FALSE, Nobody)
AfterDraw ==
    IF match.bestOf = 3 THEN Between(series.wins, "open", FALSE, Nobody)
    ELSE IF Tournament THEN Between(series.wins, "over", TRUE, Nobody)
    ELSE Won(series.wins, Nobody)
AfterWinOneMore(p) ==                         \* mutant: off by one
    LET wins == [series.wins EXCEPT ![p] = @ + 1] IN
    IF wins[p] <= Needed THEN Between(wins, "open", FALSE, Other(p)) ELSE Won(wins, p)
AfterWin(p) ==
    LET wins == [series.wins EXCEPT ![p] = @ + 1] IN
    IF wins[p] < Needed THEN Between(wins, "open", FALSE, Other(p)) ELSE Won(wins, p)

EndGame(n, status, winner, after) ==
    /\ games[n].status = "active"
    /\ games' = [games EXCEPT ![n] = [@ EXCEPT !.status = status, !.winner = winner]]
    /\ series' = IF ~Counts(n) THEN series ELSE IF closed THEN CancelledSeries(series) ELSE after
    /\ NoWish
    /\ UNCHANGED <<match, closed, seat, starting, failures>>

Interrupt(n) == EndGame(n, "interrupted", Nobody, AfterInterrupt)
Draw(n) == EndGame(n, "completed", Nobody, AfterDraw)
Win(n, p) == EndGame(n, "completed", p, AfterWin(p))

-----------------------------------------------------------------------------
(* Between games.                                                          *)

SaveSideKeepsReady(p, deck) ==               \* mutant: Ready stays
    /\ series.status = "between" /\ ~IsBot(p) /\ deck # series.deck[p]
    /\ series' = [series EXCEPT !.deck[p] = deck]
    /\ UNCHANGED <<match, closed, games, seat, starting, failures, confirmed, wish>>

(* A changed deck takes Ready back in the same transaction.  Saving the     *)
(* deck as it is keeps it, so the step is left out.                        *)
SaveSide(p, deck) ==
    /\ series.status = "between" /\ ~IsBot(p) /\ deck # series.deck[p]
    /\ series' = [series EXCEPT !.deck[p] = deck, !.ready[p] = FALSE]
    /\ UNCHANGED <<match, closed, games, seat, starting, failures, confirmed, wish>>

(* Ready fixes the default of a loser who has not chosen.                  *)
SideReady(p) ==
    /\ series.status = "between" /\ ~IsBot(p)
    /\ series' = [series EXCEPT !.ready[p] = TRUE,
                     !.choice = IF series.chooser = p /\ @ = "none" THEN "first" ELSE @]
    /\ confirmed' = [confirmed EXCEPT ![p] = series.deck[p]]
    /\ UNCHANGED <<match, closed, games, seat, starting, failures, wish>>

SideUnready(p) ==
    /\ series.status = "between" /\ ~IsBot(p) /\ series.ready[p]
    /\ series' = [series EXCEPT !.ready[p] = FALSE]
    /\ confirmed' = [confirmed EXCEPT ![p] = NoDeck]
    /\ UNCHANGED <<match, closed, games, seat, starting, failures, wish>>

ChooseFirst(p, choice) ==
    /\ series.status = "between" /\ series.chooser = p /\ ~IsBot(p)
    /\ series' = [series EXCEPT !.choice = choice]
    /\ wish' = IF choice = "second" THEN Other(p) ELSE p
    /\ UNCHANGED <<match, closed, games, seat, starting, failures, confirmed>>

WindowEnds ==
    /\ series.window = "open"
    /\ series' = [series EXCEPT !.window = "over"]
    /\ UNCHANGED <<match, closed, games, seat, starting, failures, confirmed, wish>>

-----------------------------------------------------------------------------
(* The next game.  The host asks whether it is due when a timer fires, at   *)
(* every tick and after a Ready, always in the queue of the series.        *)

IsDue ==
    /\ series.status = "between"
    /\ \/ /\ \A p \in Players : series.ready[p]
          /\ series.chooser = Nobody \/ series.choice # "none"
       \/ series.window = "over"

FirstSeatOfLoser ==                          \* mutant: the choice is ignored
    IF series.chooser = Nobody THEN Other(Latest.first) ELSE series.chooser

(* The loser chooses, first by default; otherwise the seats swap.          *)
FirstSeat ==
    IF series.chooser = Nobody THEN Other(Latest.first)
    ELSE IF series.choice = "second" THEN Other(series.chooser) ELSE series.chooser

NextGame ==
    /\ games' = Append(games, NewGame(FirstSeat))
    /\ seat' = [deck |-> series.deck, ready |-> Both(TRUE)]
    /\ series' = [series EXCEPT !.status = "active", !.ready = Both(FALSE),
                     !.window = "none", !.chooser = Nobody, !.choice = "none"]
    /\ UNCHANGED <<match, starting, failures, confirmed, wish>>

Advance ==
    /\ IsDue /\ Len(games) < MaxGames
    /\ IF closed THEN Cancel ELSE NextGame
    /\ UNCHANGED closed

-----------------------------------------------------------------------------

Lobby ==
    \/ \E p \in Players : LobbyReady(p) \/ LobbyUnready(p)
    \/ \E p \in Players : \E deck \in Layouts[p] : SetDeck(p, deck)
    \/ CancelLobby

Play == \E n \in 1..Len(games) : Interrupt(n) \/ Draw(n) \/ \E p \in Players : Win(n, p)

SideDecking ==
    \/ \E p \in Players : \E deck \in Layouts[p] : SaveSide(p, deck)
    \/ \E p \in Players : SideReady(p) \/ SideUnready(p)
    \/ \E p \in Players, choice \in {"first", "second"} : ChooseFirst(p, choice)

Next ==
    \/ Lobby \/ SideDecking \/ Play
    \/ StartGame \/ Activate \/ StartFails \/ StartTooLate
    \/ CancelSeries \/ CloseTournament
    \/ WindowEnds \/ Advance

Spec == Init /\ [][Next]_vars

(* Time passes; a job that was queued runs; the tick makes due games and    *)
(* starts ready ones.                                                      *)
FairSpec ==
    /\ Spec
    /\ WF_vars(WindowEnds) /\ WF_vars(Advance)
    /\ WF_vars(SeriesOpen /\ StartGame) /\ WF_vars(Activate)

-----------------------------------------------------------------------------
(* Properties.                                                             *)

TypeOK ==
    /\ match \in [origin : Origins, bestOf : {1, 3}] /\ closed \in BOOLEAN
    /\ series \in [status : {"none", "active", "between", "completed", "cancelled"},
                   wins : [Players -> 0..2], ready : [Players -> BOOLEAN],
                   chooser : Players \cup {Nobody}, choice : {"none", "first", "second"},
                   window : {"none", "open", "over"}, deck : [Players -> Decks \cup {NoDeck}],
                   winner : Players \cup {Nobody}]
    /\ games \in Seq([status : {"lobby", "active", "completed", "interrupted", "cancelled"},
                      first : Players, winner : Players \cup {Nobody}])
    /\ Len(games) \in 1..MaxGames
    /\ seat \in [deck : [Players -> Decks \cup {NoDeck}], ready : [Players -> BOOLEAN]]
    /\ starting \in BOOLEAN /\ failures \in 0..MaxFailures
    /\ confirmed \in [Players -> Decks \cup {NoDeck}] /\ wish \in Players \cup {Nobody}

(* A series and its games never come apart: an active series has exactly   *)
(* one game to play, between games there is none, a closed series leaves no *)
(* lobby behind that could still start, and every earlier game has ended   *)
(* (onGameFinished, createNextGame and cancel against each other).         *)
SeriesMatchesGames ==
    /\ series.status = "active" => Latest.status \in {"lobby", "active"}
    /\ series.status \in {"between", "completed"} => Latest.status \in {"completed", "interrupted"}
    /\ series.status = "cancelled" => Latest.status # "lobby"
    /\ \A n \in 1..(Len(games) - 1) : games[n].status \in {"completed", "interrupted"}

(* Every game counts once, and the match stops when it is decided: the     *)
(* score is the games won, nobody plays on with enough wins, and a winner   *)
(* has them (onGameFinished after retries, late results and draws).        *)
GamesWon(p) == Cardinality({n \in 1..Len(games) : games[n].winner = p})
ScoreIsTrue ==
    /\ \A p \in Players :
          /\ series.status # "cancelled" => series.wins[p] = GamesWon(p)
          /\ series.wins[p] >= Needed => series.status = "completed" /\ series.winner = p
    /\ series.winner # Nobody => series.wins[series.winner] = Needed

(* A game that is made before its window ends is played with the decks its  *)
(* players last confirmed with Ready (setSideDeck clears Ready).           *)
NextGameOnConfirmedDecks ==
    [][Len(games') > Len(games) /\ series.window # "over" =>
          \A p \in Humans : seat'.deck[p] = confirmed[p]]_vars

(* The loser of the last game goes first unless they chose otherwise since;  *)
(* without a loser the seats swap (createNextGame).                        *)
FirstSeatIsFair ==
    [][Len(games') > Len(games) =>
          games'[Len(games')].first =
              IF wish # Nobody THEN wish
              ELSE IF Latest.winner # Nobody THEN Other(Latest.winner) ELSE Other(Latest.first)]_vars

(* A series that is over stays as it is: no later game end, cancel or tick  *)
(* moves its score, winner or status.                                      *)
OverIsOver == [][series.status \in {"completed", "cancelled"} => UNCHANGED series]_vars

BothReady == series.status = "between" /\ \A p \in Players : series.ready[p]

(* A match goes on: the next game comes when the window ends, or when both  *)
(* players are ready and stay so (scheduleAdvance, dueNextGames); and a     *)
(* game with ready players starts, although starts may fail (autoStart,     *)
(* dueStarts).                                                             *)
SeriesGoesOn ==
    /\ series.status = "between" /\ series.window # "none" /\ Len(games) < MaxGames
          ~> series.status # "between"
    /\ BothReady /\ Len(games) < MaxGames ~> ~BothReady
    /\ SeriesOpen /\ Startable ~> ~(SeriesOpen /\ Startable)

=============================================================================
