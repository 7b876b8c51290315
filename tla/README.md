# Formal models of yugioh-bot

TLA+ models of the parts of this repository that are hard to get right: the
duel host, which keeps a live rules engine, a database and impatient players
in step, and the services around it: tables and their openings, matches of
several games, drafts and their lobbies, tournaments. TLC checks the models on
small instances; TLAPS proves the most important properties for every instance.

    tlc -workers 2 -config duel_table.cfg MCDuelHost     # check a run
    tlapm DuelHostProofs.tla                             # check proofs

## 1. The system

Paths are below `src/packages/`. SQLite (better-sqlite3, synchronous,
`BEGIN IMMEDIATE` transactions) is shared by all processes.

| Component | State | Operations | What must be right |
|---|---|---|---|
| Duel host `duel-server/src/host.ts` | `games` (live worker, last request, bot loop), `queues` (one promise chain per duel), timers | `operate` (start, view, respond, chain mode, surrender, cancel, decks), `tick` (due clocks, openings, series, idle sweep), `planBotStep`, `actBotStep` | one worker per duel; worker = journal; no answer lost, doubled or applied to the wrong prompt; bots and clocks never stall |
| Duel engine `duel-server/src/engine.ts` | core state, open prompt, revision, chain modes, seats leaving | `answer`, `setChainMode`, `eliminate`, `bot` | deterministic in the accepted commands |
| Duel journal `shared/src/services/duels.ts` | `duels`, `duel_commands`, `duel_seats` | `activate`, `recordCommand`, `complete`, `interrupt`, `cancel`, lobby operations | row and clock written together; status moves one way |
| Decision clock `duel-server/src/clock.ts` | `clock_json`: remaining time per seat, start of the running one | start, sync, freeze, stop | only the prompted player pays |
| Duel opening `shared/src/duels/opening.ts`, `dice-opening.ts` | `opening_json` of a lobby game: hands or dice, phase, deadline | throw, choose, time out, settle the seats | everybody plays in the order they saw decided; no stage lasts for ever |
| Duel lobby `shared/src/services/duels.ts` | seats, ready flags, decks | join, leave, ready, deck, bot, start, cancel | a started duel has the decks and the people who were ready |
| Duel series `shared/src/services/duel-series.ts` | `duel_series`: wins, decks, ready flags, deadline, result match | activation and finish hooks, side decking, first choice, next game, cancel, result retry | each game counts once; at most one open game; the match goes on |
| Booster and theme draft `shared/src/services/drafts.ts` | packs, picks, wave, step, deadline, themes | start, pick, pass, burn, expire, settle, open the next wave or round | no card is lost or doubled; no seat exceeds the copy cap; the promised totals are reached; it ends |
| Draft lobby `draft-lobby.ts`, `draft-lobby-mutations.ts` | seats, claims, ready flags, rules, countdown, auto-start, revision | join, leave, ready, claim, configure, start, stop, tick | a draft starts as it was agreed; a stopped one stays stopped |
| Tournaments `tournaments.ts`, `tournament-duels.ts`, `tournaments/formats.ts` | bracket, rounds, placements, the online series of a pairing | start, report, set result, reopen, close | one result per pairing; the winner goes on; places follow from results |
| Match reports and ratings `matches.ts`, `scoring.ts` | `matches`, `point_awards` | report, approve, deny, approve by the timer | a report is decided once; ratings = approved matches |
| Worker `worker/src` | poll timers | expire picks, start countdowns | a poll may come at any time, or late |
| WebSocket server `ws/src` | rooms, tokens | notify, subscribe | events carry no state; clients refetch |
| Web app `web/` | none of its own | pages and thin API routes | — |
| Discord bot `bot/` | none (shelved) | — | — |

How they interact: a browser calls a web route, which calls a shared service
(database only) or posts to the duel server (`POST /duels/...`), which runs
the request in the duel's queue. The host talks to one worker thread per duel
by messages. After each change it notifies the WebSocket server, whose event
makes clients fetch the room again. The worker process polls deadlines of
drafts; the duel host's own `tick` polls clocks, openings and series.
Finishing a duel calls the series hooks in the same transaction, and these
call the match, rating and tournament services.

Hard behaviours: (a) every `await` inside a queued request, where the worker
may die, time may pass, or another process may change the row; (b) restarts,
after which a duel is rebuilt from its journal, possibly by a deployment with
other card scripts; (c) clients that retry, or answer an old page; (d) the bot
loop, which plans in one queue job, sleeps outside the queue and acts in
another; (e) the tick, which works from rows and table copies that are stale
by the time it uses them; (f) three processes writing one database. The list
with line numbers is in `PROJECT.json` under "hazards".

## 2. Modules

| Module | Models | Built on |
|---|---|---|
| `DuelEngine` | the duel core as the host sees it: prompt owner, revision, prompt id, chain modes and the commands it takes, as functions of the accepted commands | — |
| `DuelRecord` | abstract specification: what players are promised about one duel | `DuelEngine` |
| `DuelHost` | `host.ts` for one duel, with the row, the journal, the clock, the worker and the sweep | `DuelEngine`; refines `DuelRecord` |
| `DuelHostInductive` | the inductive invariant | `DuelHost` |
| `DuelHostProofs` | proofs of types; of durability, replay, clocks, the refinement, losses on time and the bots | `DuelHostInductive` |
| `MCDuelHost` | a small rules engine for TLC, and the premises of the proofs evaluated for it | `DuelHostInductive` |
| `DuelOpening` | rock-paper-scissors and dice as values and what a throw, a choice or a timeout makes of them | — |
| `DuelTable` | one table from its creation to its start: `duels.ts` and the part of `host.ts` that drives openings and starts | `DuelOpening` |
| `DuelTableProofs` | proofs of types and of starts as decided | `DuelTable` |
| `MCDuelTable` | tables of two and three, one of a series | `DuelTable` |
| `DuelSeries` | a match of one or three games: `duel-series.ts`, the lobby of its games, and the host's steps that make and start them | — |
| `DuelSeriesProofs` | proofs of types, score, consistency, decks and first player | `DuelSeries` |
| `MCDuelSeries` | two players, one with a Side Deck | `DuelSeries` |
| `DraftTable` | the rows of a draft and what booster and theme drafts share | — |
| `BoosterDraft` | deal, pass, swap, leftovers and the extra phase: `drafts.ts`, `draft-size.ts` | `DraftTable` |
| `ThemeDraft` | private packs from a theme, burned or not: `drafts.ts` | `DraftTable` |
| `Draft` | the operations on a draft, the pick route with its bots, the worker's timer | `BoosterDraft`, `ThemeDraft` |
| `DraftProofs` | proofs of types, of packs that never meet, of the settling loop, of cards conserved and of the copy cap | `Draft` |
| `DraftTotals` | proofs of what a draft ends with | `DraftProofs` |
| `MCDraft` | small pools, themes and deals | `Draft` |
| `DraftLobby` | the lobby and its countdown, the web app and the worker at once | — |
| `DraftLobbyProofs` | proofs of types, of stopped lobbies and of starts as agreed | `DraftLobby` |
| `MCDraftLobby` | two people and a bot, two cubes, three kinds of rules | `DraftLobby` |
| `Tournament` | one tournament with its reports, ratings, places and online series, statement by statement where the code has no transaction | — |
| `TournamentProofs`, `TournamentRounds` | proofs of types, of results that stand, of agreement, of series and of places; of the rounds | `Tournament`, in this order |
| `MCTournament` | fields of two, three and five players | `Tournament` |

The modules meet where the code does. `DuelTable` ends where `DuelHost` starts
(`activate`); `DuelSeries` has one step for what a game of its own does in
between; a series in `Tournament` is one step for all of `DuelSeries`;
`DraftLobby` ends where `Draft` starts. Within a module everything that can
interleave in the code interleaves.

Every mutated operator (`...Once`, `...Unchecked`, marked *mutant* in a
comment) is a plausible bug of the definition below it. No specification uses
it; it is there to show that a property would notice.

### 2.1 DuelHost

One duel from its lobby to its end. The state falls in four parts.

| Variables | In the code |
|---|---|
| `status`, `journal`, `result`, `bundle`, `clock` | the `duels` row and `duel_commands`: they survive a crash |
| `pinned` | the engine data installed in the host, which a deployment replaces |
| `worker`, `hist`, `idle` | the entry in `games`, what its core has taken, and whether the sweep may close it |
| `loop`, `plan`, `job`, `sweep` | the bot loop, its planned step, the request at the head of the duel's queue, and the idle sweep |
| `leaked`, `shown`, `faults`, `restarts` | history and bounds: workers nobody owns, what a client saw |

A queue runs one request at a time, so there is one `job`. It is a program
counter over the `await`s of `operate`, `recover`, `respond`, `planBotStep`,
`actBotStep`, `eliminateInCore` and `settleClock`; what lies between two
`await`s is one action. `EnterView`, `EnterRespond`, ... pick the next queued
request in any order, which includes the order of the queue. Between two steps
of a job the worker may die, time may run out, a player may cancel the lobby
from the web process, or the host may restart.

The command a client sees carries revision and prompt id as `respond` and a
replay compare them. `DuelEngine` computes both from the accepted commands: a
departure bumps the revision, an answer both, and a mode change nothing unless
it passes a window.

`DuelRecord` is what players are promised: a status that moves one way, a
record that only grows by moves legal where they stand, an end with a reason,
and a lobby that starts once. `Implements` states that `DuelHost` with its
database variables is such a duel.

Left out: the bot path without pauses that tests use, the surrender of
scripted bots, seats of saves older than departures, Tag teams, scenario
presets, card and deck lookups, notifications (`emitChange` carries no state),
the grace period of the coin toss, the answer the host makes up for a living
seat that a departure leaves asked, and the step limits of a bot, whose
interruption of the duel may come at any step here.

### 2.2 DuelOpening and DuelTable

`table` is the kind of table, `status`, `seats` and `opening` the rows of
`duels` and `duel_seats`; `late` says how far the time of the opening's stage
has run. A dice opening keeps its rounds and, for every seat, the rank that
the groups of tied seats give it.

Requests of the duel server pass through the queue of the table; `job` is the
one that holds it across an `await`: `begin` before the table is read again,
`create` while a worker is made from decks that were read before. The web app
does not use the queue, so `TakeSeat`, `Leave`, `RemoveBot` and `CancelSeries`
come in between. `driveOpening` up to its `await` is one action, `Drive`; timer,
tick and page view settle what is due in the same way and are one action,
`Wake`. `Activate` reads the rows again, as `activate` does. A failed start
gives the lobby of a table back and makes a series wait (`backoff`, in memory);
a sweep that begins a start forgets that wait, which is one more way for
`BackoffEnds` to happen. The bot throws and chooses inside `Drive`.

Left out: invitations, settings, deck rules and archives; the fields of clock
and setup that move with the seats, of which `Moved` keeps who, deck and ready;
Tag tables, which have no opening and are tables with order "none" here. The
first check of `beginGame` is subsumed by those of `startOpening` and
`startGame`. `addPracticeBot` does not ask for a running opening, but the table
is full then.

### 2.3 DuelSeries

`series` is the `duel_series` row and `games` its duels in order. `seat` holds
the decks and ready flags of the latest of them, `starting` is the job that
waits for a worker. `Activate` is `onActivate`, `Interrupt`, `Draw` and `Win`
are `onGameFinished` in the transaction that ends the duel, `SaveSide`,
`SideReady`, `SideUnready` and `ChooseFirst` are the operations between games,
and `Advance` is `createNextGame` under the host's check, made again in the
queue of the series. `CancelSeries` and `CloseTournament` belong to other
processes and happen at any time.

In other modules: the recorded match of a decided series and its retry
(`Tournament`), the opening of game 1 (`DuelTable`; here either player may get
the first seat). Left out: single games against the bot (they have no series)
and the growing wait between failed starts.

### 2.4 Draft

The variables are the rows: packs with their holder, the cards in them, piles,
what each seat did in the current step, wave, step and phase, and whether the
deadline has passed; `config` is the table, `themes` the cubes drafted from. A
pick with everything that follows in its transaction is one action, as SQLite's
write lock makes it: `expireCurrentPickStep`, the swap of a capped pack, the
pick, passing empty-handed seats, rotation, the next wave or round, the
leftovers, the extra phase and completion. `Pick` is that of a person, with the
card they saw, which may be gone by then; `BotPick` is the route's and the
worker's, `Expire` the worker's, and `View` swaps a capped pack as a page view
does. A theme can be changed or deleted while it is drafted (`EditCard`,
`DeleteTheme`), because rounds read it as they open; one such change happens in
a behaviour.

Left out: how themes are chosen (any assignment the mode allows, `Assignments`),
cards with several artworks, deck building, and saves without `draft_deal` rows.

### 2.5 DraftLobby

`lobby` holds the rows: seats, rules, claims, ready flags, auto-start, hold and
the countdown. Three things are abstract. A hash is the value it is taken of, so
`setupHash` is the rules and the cards of the cubes they name; a token is the
revision that armed the countdown, as both are new each time; and the host has
one page open, `page`, as old as it may be. `agreed` and `stopped` record what
people saw and asked for. A tick of the worker or of a page view is one action,
because `tick` reads everything again inside its transaction.

A start may be asked for in two ways. The start route sends the revision of the
page, so that an old page is refused (`ScheduleStart`). A root `POST` without a
revision is given the one the lobby has on arrival (`CaptureRevision`), waits
for its body and the catalog, and commits if the lobby is still at it
(`CommitCaptured`): a host with an old page can arm a countdown for a lobby they
have not seen. `request` is such a call, with the history of whether anything
changed since it came. A `PUT` of the configuration without a revision likewise
takes the one of its arrival, so `Configure` asks for no current page.

`EditCube` and `SyncCatalog` change what the rules lead to without touching the
lobby. They differ: the cards of a cube are part of `setupHash`; the cards that
the sets and names of a booster draft stand for are not
(`draft-lobby.ts:85-86`). `catalog` says whether they are those of the
beginning, others, or too few.

Left out: names and nudges, checks of guilds, the feature flag of themes, the
themes drawn at the start, and the deletion of drafts.

### 2.6 Tournament

`db` is what the processes share. Reports, organizer results, reopenings,
closing, and everything a series does are immediate transactions, so one action
each. `start`, `approve` and `deny` are statements without a transaction:
`task[p]` is the call process p is in the middle of, and each of its actions is
one statement, or the reads before one. The web app and the worker run them at
once, a process may crash between any two, and `overdue` is the list of reports
the worker's tick has read and not yet approved. `torn` records that a call went
on after what it had read was changed, or died half done: the code does not
hold its books together then, and the properties of the bracket have `~torn` as
a premise. `ConfirmedResultStands` and the first part of
`SeriesResultFits` hold without that premise.

So `RoundsFollow` does not say that a round is drawn only once. Two processes
that both count no pairing in the next round (`matches.ts:170-182`) draw it
twice, two starts that both read `pending` do the same with the first round
(`tournaments.ts:644` reads what line 684 writes), and so does a start after one
that died between its rows; the first row outdates the other call, and such
behaviours are `torn`. What it does say of two last results at the same
time is that they do not both leave the round to the other: a running tournament
has a pairing to play, or a call that is about to close it or to draw.
`ReportedPairingMovesOn` leaves out, with `torn`, a process that dies between
its verdict on a report and what it does to the pairing: that pairing
stays `pending_approval` until the organizer sets its result.

In a single elimination of an odd number the first player of the list sits out.
With five players the same one does so in two rounds, so `RoundsFollow` allows
one pair of players in two slots exactly when the slot is a bye.

A series is one step: it is decided and recorded, or the recording fails and
`RetryResult` does it later unless a newer result or series outdates it.

Left out: signing up, registered decks, invitations, casual matches, the amounts
of points and ratings, and achievements.

## 3. Runs

"v" marks a run that shows a documented promise broken; see section 6.

| Run | States | Question |
|---|---|---|
| `duel_table` | 61,850 | A player and a bot who play on at zero, one crash and one restart anywhere, and a deployment: worker and journal agree, nobody saw what a crash takes back, the duel keeps the engine data it started with, and the clock runs for the prompted seat |
| `duel_ffa` | 108,031 | Two players and a bot, who may be left alone in an open chain: every journal replays after departures, only an own empty bank loses, a bot that is asked is always driven, and the host implements `DuelRecord` |
| `duel_progress` | 7,454 | With the idle sweep and a crash: an expired clock is settled, a bot moves, a decided duel is recorded |
| `duel_lobby` | 110,354 | Four kinds of tables, seats changing while a worker is made, ties, failed starts and a restart: a duel starts in the order that was seen and on ready decks, and no stage of an opening lasts for ever |
| `series` | 339,052 | Every kind of match: score and games agree, a match that is over stays over, the next game has confirmed decks and the right first player, and it comes |
| `draft_table` | 13,765 | Three seats with two picks a visit, packs short or full and a cap; two seats with two waves and the extra phase; themes for each seat, and one theme for both that is burned and changed: one pack per seat, no card lost or doubled, totals as shown, a forced pick only when nothing else is left, somebody can always act, and the timer alone ends the draft |
| `draft_lobby` | 1,310,672 | Joining, leaving, Ready, claims, rules, cubes and the catalog change under a countdown: a draft starts as agreed, a stopped lobby stays stopped, and a full one starts |
| `tournament` | 683,779 | Reports, the opponent, the timer, the organizer and series decide the same pairings: bracket, reports, ratings and places agree, rounds follow from each other, a tournament does not stop between two, and no reported pairing waits for ever |
| `duel_sweep_leak` v | — | The idle sweep loses a worker |
| `duel_bot_clock` v | — | A bot's expired clock stays for the rest of the duel |
| `duel_ffa_clock` v | — | A surrender disarms the loss of another seat |
| `tournament_verdict` v | — | A decided report is decided again |

Bounds, and why they are enough:

- Duel: 2 or 3 prompts (`MaxMoves`) are enough for a move, its retry and one
  after it; the interesting races concern one prompt and the next. One fault
  (`MaxFaults`) and one restart stand anywhere, so also inside the recovery of
  each other. `ModeLimit` 0 or 1 reaches the full journal. Two engine data
  bundles are enough to be on the wrong one.
- Tables: dice of two faces and two rolls reach every shape of a tie among
  three seats, the shuffle after the last roll, and a cyclic move of the seats.
  `MaxRound` 2 allows one tie of hands. One start fails; one restart finds
  something in memory to lose.
- Series: three games are a full best of three, or one with draws and
  interruptions between. One start fails. One player has two layouts, one
  only one.
- Draft: the cap of three copies is scaled to one or two and packs to two or
  three cards; three seats are the least where a rotation is not a swap. Every
  order of a small pool stands for the shuffle. One change of a theme can come
  in any round. The bound on the settling loop (`LoopBound`) is never reached.
- Draft lobby: `MaxRevision` 5 is a join, two claims, a Ready and Start; a join,
  a Ready, Start, a change under the countdown and Start again; or a full table
  that starts by itself. One edit of a cube or the catalog and one failed tick
  come at any point. `MaxBehind` 1: while a start request is under way, people
  change the lobby once, which already makes its revision old.
- Tournament: a round robin of two with a crash or a failed recording; a single
  elimination of three, with a bye and a final; one of five, with two pairings
  whose results race for the next round, in which the first player sits out
  again. Two reports (`maxMatches`) are a denied
  one and the next, or a report and the organizer's result.

`CHECK_DEADLOCK FALSE` stands where the system ends: duels, drafts, matches and
tournaments finish, and lobbies are left.

## 4. Fairness

Each assumption is one the program's scheduling gives.

- `DuelHost`: WF of `Step`, as a promise that has resolved is continued and a
  worker answers or dies. SF of `EnterView`, `EnterSweep`, `Plan` and `Act`:
  the queue is first come, first served, so an entered request runs although
  others come and go, while the model picks any. The sweep comes from `tick`
  and its interval. `EnterView` is the one assumption about the environment:
  somebody keeps the page open, which refetches.
- `DuelTable`: time passes, the tick comes round, a worker that is awaited
  answers, and the wait after a failed start ends. Nobody is assumed to throw
  or choose. Ties are bounded by `MaxRound`: hands that a timeout draws at
  random tie for ever with probability zero.
- `DuelSeries`: time ends the window; `tick` makes due games (`dueNextGames`),
  and starts ready ones (`dueStarts`); a queued job runs. A start may fail
  `MaxFailures` times, and nobody is assumed to press Ready.
- `Draft`: time passes the deadline, and the worker polls. Nobody is assumed to
  pick.
- `DraftLobby`: a countdown runs out and the worker ticks. `MaxRevision` makes
  people leave the lobby alone in the end; while they keep changing it, the
  code promises nothing.
- `Tournament`: a call that a process has begun runs on, and so does the
  worker's list (WF). SF of `TickFor`: every report is found overdue in the
  end, however often the organizer moves the time to object.

## 5. Proofs

Every safety property that the runs check has a theorem, for every value of the
constants. Each proof
is one of an inductive invariant, with one step per action and, where an action
can disturb several parts of the invariant, one per part.

### 5.1 The duel host

`DuelHostProofs` proves, for any seats,
bots, rules of the game, time control and number of faults and restarts:

| Theorem | States |
|---|---|
| `TypeCorrect` | `TypeOK` |
| `WorkerNeverDrifts` | `WorkerMatchesJournal`: the core has taken the journal, and at most the one command its job is about to write |
| `NothingSeenIsLost` | `ShownIsDurable` |
| `DataIsPinned` | `RunsOnPinnedData` |
| `MovesStayCurrent` | `MoveIsCurrent`: an answer about to reach the core is still for the open prompt |
| `JournalAlwaysReplays` | `JournalReplays` |
| `ClockFollowsPrompt` | `ClockOnPrompt` |
| `HostKeepsItsPromise` | `Implements`: every step of the host is a step of `DuelRecord`, or none |
| `OnlyTheLateLose` | `TimeLossIsOwn` |
| `BotIsAlwaysDriven` | `BotIsDriven` |

None of these is inductive alone. `DuelHostInductive` adds what a job knows
between two `await`s: that a job past recovery has a worker equal to the
journal, that the revision checked by `respond` can only be outrun by a
departure settled inside the same job, and that a job about to write holds a
command the core took last. `InductiveAlways` proves the conjunction. The
proofs follow the queue: one step per action, and for the actions of a job one
per program counter.

Its second half maps every step to one of `DuelRecord`. The steps that
write are the ones that matter: the command they journal must be legal where
the journal stands, and that is what the job has known since it looked, carried
by the invariant above. The proof corrected the abstract specification: under
the time control that plays on at zero nobody is charged with a loss on time,
and a bot never is, which `Accept` now says.

For the bots the invariant (`LoopIsAwake`) says where a job may find them
asleep: before `recover` has called `driveBot`, in the sweep that only stops a
clock, and when the loop itself ends the duel. In none of these places is a bot
asked, and in none does a job go on to change what is asked. A departure
that decides the duel starts no loop (`host.ts:1291-1299`), but it comes after
`recover`, so the loop it would need runs already, and does so also when the
result could not be recorded. Nothing is assumed of the core: it may
ask the last seat on while a chain is open, as it does after a surrender
(`host.ts:1295`), and the core of `MCDuelHost` does.

The premises are all about the rules engine, which is external, and each is
named:

| Premise | Says | Used by |
|---|---|---|
| `QuietModesKeepPrompt` | a mode change that bumps no revision leaves the prompt where it is; the engine takes a mode change as a command of the player only when it passes a window (`engine.ts`) | the replay theorems, `HostKeepsItsPromise`, `OnlyTheLateLose` |
| `DepartedNeverWin` | a seat that has left is never named the winner; the fuzz tests look for it (`tests/fuzz-n/invariants.ts:344`) | `OnlyTheLateLose` |

TLC evaluates the first premise for the engine of `MCDuelHost`
(`SmallQuietModesKeepPrompt`) and the second on every duel of up to four legal
commands (`SmallDepartedNeverWin`).

### 5.2 The series

`DuelSeriesProofs` proves, for any decks, any number of games and failures:

| Theorem | States |
|---|---|
| `SeriesTypeCorrect` | `TypeOK`; a score never passes two wins |
| `SeriesNeverComesApart` | `SeriesMatchesGames` |
| `ScoreIsAlwaysTrue` | `ScoreIsTrue` |
| `OverIsAlwaysOver` | `OverIsOver` |
| `NextGameKeepsTheDecks` | `NextGameOnConfirmedDecks` |
| `LoserGoesFirst` | `FirstSeatIsFair` |

The inductive invariant `IInv` joins the two because they hold each other up:
a game counts because the series is active, and the series is active because
that game has not ended. It also needs that only completed games have winners
(so that a new win is one more), that a table without a series has not started
and has no wins, and that a window runs only between games. `Settles` says
what a series must become when a game that counts ends, `AfterSettles` that
`onGameFinished` does it, and `EndKeeps` that this is enough. The counting
itself is `OneMoreWon`, by the cardinality of the set of games won.

The last two rest on invariants of their own: `ReadyIsConfirmed` (a player who
is ready between games has confirmed the deck that is saved) and `ChoiceIsKept`
(who chooses, and what was chosen, stay with the last game played, however often
the next one is made and cancelled).

### 5.3 Tables and openings

`DuelTableProofs` proves, for any guests, decks, kinds of tables, dice and
rounds:

| Theorem | States |
|---|---|
| `TableTypeCorrect` | `TypeOK`; an opening runs over a full, ready table |
| `DuelsStartAsDecided` | `StartsAsDecided` |

`IInv` says what makes an order trustworthy: hands that are settled name one
winner, the ranks of dice are those that the rolls give (`OpeningFits`), the
rows of a settled opening stand in the order that was told (`IsInOrder`), and a
worker that is being made knows the decks of everybody as long as all are still
ready (`JobFits`). The last one is why `Activate` may compare flags and need
not compare decks: a change of deck takes the flag away.

### 5.4 Draft lobbies

`DraftLobbyProofs` proves, for any people, bots, cubes, rules and revisions:

| Theorem | States |
|---|---|
| `LobbyTypeCorrect` | `TypeOK`: seats, claims and Ready marks fit each other |
| `StopAlwaysHolds` | `StopHolds` |
| `DraftsStartAsAgreed` | `StartsAsAgreed` |

What is proved of a start: seats, rules, themes, Ready marks and the cards of
the cubes are those the countdown was armed for, and these are what the host's
page showed, what everybody was ready for, or what a start request without a
revision met when it arrived. It is not proved that such a host had seen the
lobby, nor that the cards behind a booster draft's sets and names are still the
same; the code promises neither. Of these `preflight` only finds again that
there are enough.

`IInv` adds that a stopped lobby has no countdown and holds the automatic
start; that a page of the current revision is not old (`PageIsCurrent`), nor a
captured revision that is still the lobby's (`RequestIsCurrent`); and that the
hash of a running countdown is that of the setup it was armed for, while the
lobby of that revision still looks as it did then. What the hash is for is
visible in the proof: an edit changes the cards of a cube without a new
revision, and only the comparison of hashes in `tick` covers that step.

### 5.5 Drafts

`DraftProofs` and `DraftTotals` prove, for any number of seats and bots, any pools, decks and
themes, any copy cap, and any order of picks, views, expiries and changes of
the themes:

| Theorem | States |
|---|---|
| `DraftTypes` | `TypeOK` |
| `PacksNeverMeet` | `OnePackPerSeat` |
| `SomeoneCanAlwaysAct` | `SomeoneCanAct`: whatever a step does at once, it ends with a seat that can act, or with the draft |
| `CardsAreConserved` | `CardsConserved` |
| `ForcedOnlyThen` | `ForcedOnlyWhenNothingElse` |
| `ThemesAreEnough` | `ThemesSuffice`, the half of `TotalsAsShown` about themes |
| `TotalsAlwaysAsShown` | `TotalsAsShown`: booster drafts end as the room predicted, theme drafts as the check promised |

One action of a draft does much at once: an expired step takes cards for several
seats, each pick settles the table, and settling may turn the table many times,
open waves and end the draft. `Inductive` is small (whole rows, somebody to wait
for, nobody shown more than a theme has); the work is in what one action keeps.

- *Folds over seats and rounds.* The model writes the loops of the code as
  recursive functions. `Recursion` and `Chain` show that such functions exist,
  `Induction` and `Along` carry a fact from 0 to n. A set stands for the
  predicate, so the theorem about well-founded sets applies; and every loop
  of the code is shown to keep such a set: `LoopedIs` and `SettleIs` for
  `settleBoosterStep`, `OpenRoundIs` and `RoundsOpened` for `settleThemeRound`,
  `PickedIs` for `expireCurrentPickStep`.
- *The settling loop ends.* `RoundsLeft` counts the rounds a wave can still
  last: the code's own limit on idle turns, once more after a repair, for each
  wave that is left. `RoundIs` shows that it falls, so `LoopBound` turns are
  always enough and the loop of the model stops where that of the code does.
- *Counting cards.* `Balance` is what is in packs, pools and pile of a name, less
  what was dealt. A pick, a swap, a pass, the leftovers and the opening of a wave
  keep it, burning lowers it (`TakenKept`, `SwapLeads`, `FinishMainIs`,
  `OpenWaveLeads`). The lemmas on sums (`SumsChange`, `SumsAdd`) and on what a
  concatenation holds (`OccursFlat`) are general.
- *Themes.* `Themed` is what a running round looks like: private packs as they were
  dealt until their seat has picked, of cards the seat may take. `RoundsFromIs`
  shows that opening rounds until one deals something leads to such a round or to
  the end, and never shows a seat more than its theme has.
- *The cap.* `ForcedWell` is what the code must have seen when it forces a card on
  a seat. Several seats may pick in one step and change the pile for each other,
  so the property, and `Moved` in the proof, speak of a seat that was the only one
  to take something. Nobody is then picked for twice (`PickStep`): the pick that an
  expiry took already is what makes the late one void.
- *Themes suffice.* The check at the start (`preflightThemes`) adds up copies; the
  draft deals packs round by round, burns or keeps what is not taken, and drops
  rounds that run dry. `Lasting` keeps an account of every seat: what its theme
  can still offer under the cap, against the rounds that are left, for the main
  deck and for the extra deck. A round takes at most a pack from the account
  (`Metered`), a pick moves a card from one side to the other, and a round is dry
  only when the account of its phase is empty (`GoodStep`, `ThemesLast`). The
  theorem needs that a card is in one pool of a theme, the primary key of
  `cube_cards` (`Filed`): with a card in both, cards of the main deck would use
  up the cap of the extra deck and the check would promise too much.
- *Totals as shown.* `reachableBoosterMainPicks` is a second program: it computes
  from the sizes of the packs alone, step by step, what everybody will end the
  main waves with. The model writes it as a recursive function (`Walk` over the
  steps of a wave, `Totals` over the waves); the code's loop ends when nobody can
  take any more, the model's after `WaveSteps`, and the steps between change no
  total (`WalkRests`, `LaterSame`). `Charts` names the states of that program, and the
  invariant `Paced` (beside `Inductive`) says that the draft is on its course
  (`OnCourse`): when a step began, each pack was where the program has it and
  of the size it has there, and each seat had as many cards (`Meets`); who picked
  since is one card ahead. Four things make this a proof. A seat that passes
  has no pack with cards in front of it, and who is finished is at the cap, so
  step for step the same seats take a card (`Seated`). A wave that ends has
  arrived at the last state of the program: its packs are empty or everybody is
  full, because in each turn of the table every pack meets every seat
  (`WalkVisits`, `WalkEnds`). The settling loop never repairs a booster draft:
  a whole turn without a pick would have met somebody who can take a card
  (`NotStuck`). And swaps, forced and late picks change which cards a pack holds,
  never how many. In the extra phase everybody takes one card per step, so the
  draft ends with full extra decks (`InExtra`, `Ended`); a deal that is too small
  for that is refused at the start (`DealIs`).

### 5.6 Tournaments

`TournamentProofs` proves, for any players, fields, formats, processes, and
numbers of reports and crashes:

| Theorem | States | Invariant |
|---|---|---|
| `TournamentTypeCorrect` | `TypeOK` | `Whole`: the rows and the links between them |
| `ConfirmedResultsStand` | `ConfirmedResultStands` | `Whole` |
| `BooksAlwaysAgree` | `BooksAgree` | `torn \/ Agree(db, task)` |
| `SeriesResultsFit` | `SeriesResultFits` | `torn \/ SeriesFree(db)` |
| `PlacesAlwaysEarned` | `PlacesAreEarned` | `torn \/ (InOrder(db) /\ CallsKnow(db, task))` |
| `RoundsAlwaysFollow` (`TournamentRounds`) | `RoundsFollow` | `torn \/ Kept(db, task)` and `torn \/ GoesFurther(db, task)` |

Everything difficult here is in a call that stands between two statements.
`Agree` therefore speaks of rows and calls together: an approved match is shown
by its pairing, or a call holds it and is about to write that; it is rated, or
a call carries the award. Places need two things more. Results must come in
rounds (`InRounds`: only the last round has open pairings, so an approval that
fills the last one sees all winners), and a call that will decide places must
know the pairings as they are (`CallsKnow`). `torn` marks the behaviours where
the code does not keep this: a call that went on after what it read was
changed, or died half done (2.6 says what then goes wrong). The run `tournament`
reaches every kind of call without it, and `torn` is set by the steps that
overtake a call, not by the outcome.

`RoundsAlwaysFollow` has four parts.

- *The circle.* `MeetOnce` and `AllMeet` are the arithmetic of
  `generateRoundRobin`: two places of a ring that turns around a fixed seat
  face each other in exactly one round. `RobinMeets` carries it to the rows, for
  an even field and for an odd one, where the ghost's opponent sits out.
- *The bracket.* `Bracket` says that nobody has two pairings in a round and that
  who plays has won in every round before; `WinnersGoOn` that who has won plays
  on. The second is false while a round is written, row by row, so the invariant
  says more: the database with the rows that the drawing call still holds is such
  a bracket (`DrawsOn`). That `Winners` gives every winner once is proved from the
  order of the slots (`WinnersOnce`, `WinnersAll`).
- *Several processes.* Two calls may both have read that a round is over, or that
  the tournament has not started. The first to write outdates the others, so
  `Kept` asks of a call that draws only that it is not alone or would complete
  the round; `OthersRest`, `OneMoreDraws` and `InsertPairingKept` say what a
  second drawer and the first row do to it. `TransactionGoes` and `StatementGoes`
  sort every other step into those that let played pairings be and those that
  draw at once.
- *It goes on.* `GoesFurther`: rows that are drawn hold an open pairing
  (`SingleElimOpen`, `FirstRowsOpen`, `FollowOpens`), and the call whose result
  fills the last pairing of a round has still to look whether it does, so one of
  two that race sees the round complete (`AlwaysGoesFurther`).

The proof also found two errors of the model. The winners of a round were
written with an operator that is defined through an arbitrary choice, where the
code sorts by slot; and `RoundsFollow` was false for five players (2.6), which the
run now contains.

### 5.7 Only model-checked

- Liveness under fairness, which is out of the prover's reach: `OverdueIsSettled`,
  `BotMoves`, `ResultIsRecorded`, `OpeningMovesOn`, `SeriesGoesOn`, `DraftEnds`,
  `LobbyMovesOn`, `ReportedPairingMovesOn`.
- `ENABLED` inside these properties, for the same reason.

Every invariant that a passing run checks is stated by a theorem.

## 6. Where code and documentation disagree

1. `duel_sweep_leak`: `tick` walks a copy of the table of live games and waits
   for each close. An entry that a request replaced meanwhile is deleted from
   the table while the old worker is closed (`host.ts:2780`); the new worker
   runs on without an owner, against "one thread per duel"
   (`docs/architecture.md:51`).
2. `duel_bot_clock`: a bot is never timed out, but the expired clock of a bot
   is kept like a loss that is due (`clock.ts:112`), so the next player plays
   without one, against "only the player with the pending prompt is charged"
   (`README.md:57`).
3. `duel_ffa_clock`: a surrender that is journaled after another seat's bank
   ran out rewrites that seat's clock into a stopped one (`clock.ts:146`), what
   the comment at `clock.ts:92` says never happens to a due loss clock.
4. `tournament_verdict`: the worker's automatic approval and the opponent's
   verdict each read that a report is pending and then update it by its id
   alone (`matches.ts:399`, also 289 and 308). When both have read, the later
   update replaces the verdict: a denied report, whose pairing is open again,
   is approved and rated, or an approved one that advanced its winner becomes
   denied, against "Match is not pending" (`matches.ts:100`).

Met while reading, without a run:

- A round is drawn twice when two processes both find no next round
  (`matches.ts:170-182`), as is the first round by two starts
  or by a start after one that was cut off (`tournaments.ts:644-687`). Nothing
  in the repository says that it cannot happen (2.6).
- A process that dies after it wrote its verdict on a report and before
  it wrote the pairing (`matches.ts:285-298`, `304-320`, `393-408`) leaves a pairing
  that no player and no timer can take up again; the organizer's result ends it.
- A root `POST` of a draft without a revision starts the countdown for the lobby
  as the request finds it, which a host with an old page has not seen
  (`helpers.ts:659-664`); and a sync may change the cards of a booster draft
  under an armed countdown (`draft-lobby.ts:85-86`). Both are meant, and said in
  the comments there (2.5).
- The deal shuffles all copies of the pool, so a wave may hold a card twice;
  `docs/draft-engine.md:116` describes waves without duplicates.
- `derivePlacement` makes the player with the most wins the champion, lower id
  first. After byes in a single elimination that need not be the winner of the
  final, whom `floor-model.ts:399` shows.

## 7. Not modelled

- The rules of the game and the card scripts (a C++/Lua core in WASM), and the
  decoding of its messages into prompts and redacted views. `DuelEngine` keeps
  of them what the host relies on.
- The arithmetic of the time banks (`clock.ts`): `DuelHost` keeps whose clock
  runs, whether it is up, and which banks are empty.
- The WebSocket rooms (planned): events carry no state and clients fetch the
  room again, so a doubled event is harmless and a lost one leaves a page old
  until its next fetch. The models let every page be old.
- Deck building after a draft, deck legality, cubes and saved decks, the
  catalog, accounts: rows that are created, read, updated and deleted, or
  predicates over them.
- The web pages, the 3D table, the design documents, the shelved Discord bot,
  scripts and deployment. These are most of the repository's lines: the web
  components alone are far longer than all services together, and hold no
  state of the protocol. The share of all lines that the models can stand for
  is small for that reason; of the files of the modelled components they stand
  for about a third, the rest being queries, formatting, validation messages,
  older saves and views.

`PROJECT.json` lists every component with its reason.

## 8. Plan

Left to model, in place of a shallower property: the arithmetic of the decision
clock against a reference, the rooms of the WebSocket server, deck building out
of a drafted pool.
