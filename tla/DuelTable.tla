----------------------------- MODULE DuelTable -----------------------------
(***************************************************************************)
(* One table in its lobby, from its creation to the start of the duel or    *)
(* its end: the lobby and opening operations of duels.ts, and the requests, *)
(* the timer and the tick of host.ts that call them.                       *)
(*                                                                         *)
(* Operations of the duel server run one after the other in the queue of    *)
(* the table; job is the request that holds it across an await.  Taking a   *)
(* seat, leaving, removing a bot and cancelling a series are calls of the   *)
(* web app, which does not use the queue.                                  *)
(*                                                                         *)
(* A timer, a tick and a page view settle what is due in the same way and   *)
(* are one action.  The steps of driveOpening up to its await are one       *)
(* action.  Left out: invitations, settings, deck rules, the flags of       *)
(* multiplayer tables, archives, and the setup of scenario tables.          *)
(***************************************************************************)
EXTENDS DuelOpening

CONSTANTS
    Organizer, Guests, Bot,     \* who may sit down
    Nobody,
    Decks, BotDeck, NoDeck,
    Tables,         \* kinds of tables: [series, order, players, size]
    MaxRound,       \* bound: rounds of rock-paper-scissors
    MaxFailures,    \* bound: starts that fail
    MaxRestarts     \* bound: restarts of the host

Humans == {Organizer} \cup Guests

(* players are those seated from the start, in the order of the seats.     *)
TableKind == [series : BOOLEAN, order : {"rps", "dice", "none"},
              players : Seq(Humans), size : 2..4]

ASSUME PeopleAssumption ==
    /\ Organizer \notin Guests /\ IsFiniteSet(Guests)
    /\ Bot \notin Humans /\ Nobody \notin Humans \cup {Bot}
    /\ NoDeck \notin Decks /\ BotDeck \in Decks
ASSUME TablesAssumption ==
    \A t \in Tables :
        /\ t \in TableKind
        /\ t.players = (IF t.series THEN <<Organizer, t.players[2]>> ELSE <<Organizer>>)
        /\ t.series => t.order = "rps" /\ t.size = 2 /\ t.players[2] \in Guests
        /\ t.order = "rps" => t.size = 2
        /\ t.order = "dice" => t.size \in 3..4
ASSUME BoundAssumption == MaxRound \in Nat \ {0} /\ MaxFailures \in Nat /\ MaxRestarts \in Nat

VARIABLES
    table,      \* its kind
    status,     \* of the duel
    seats,      \* duel_seats: [who, deck, ready]
    opening,    \* opening_json
    late,       \* how far its time has run: "early", "reveal" (is over) or "due"
    job,        \* the request in the queue: [pc, decks]
    backoff,    \* does a failed start wait?
    told,       \* history: the running opening when it was decided, and who sat where
    failures, restarts

vars == <<table, status, seats, opening, late, job, backoff, told, failures, restarts>>

-----------------------------------------------------------------------------
(* The seats.                                                              *)

Places == 0 .. table.size - 1
Empty == [who |-> Nobody, deck |-> NoDeck, ready |-> FALSE]
Sit(p) == [who |-> p, deck |-> NoDeck, ready |-> FALSE]

Seated(p) == \E s \in Places : seats[s].who = p
SeatOf(p) == CHOOSE s \in Places : seats[s].who = p
BotSeats == {s \in Places : seats[s].who = Bot}
Who == [s \in Places |-> seats[s].who]
DecksOf(rows) == [s \in DOMAIN rows |-> rows[s].deck]

AllReady == \A s \in Places : seats[s].ready    \* an empty seat is not

InLobby == status = "lobby"

(* mutant: seats and decks may change while the opening runs               *)
FreeInOpening == InLobby

(* assertNoOpening                                                         *)
Free == InLobby /\ opening = NoOpening

-----------------------------------------------------------------------------
(* The request in the queue.                                               *)

NoDecks == [s \in Places |-> NoDeck]
Job(pc, decks) == [pc |-> pc, decks |-> decks]
NoJob == Job("idle", NoDecks)
Idle == job = NoJob

(* startGame reads the decks, and hands them to a new worker.              *)
CreateGame(rows) == Job("create", DecksOf(rows))

-----------------------------------------------------------------------------
(* The opening goes on.                                                    *)

Stage(o) == IF o.kind = "rps" THEN <<o.phase, o.round>> ELSE <<o.phase, Len(o.rounds)>>

(* A new stage has its own time.                                           *)
Timed(before, l, after) ==
    [o |-> after, late |-> IF Stage(after) = Stage(before) THEN l ELSE "early"]

Timeout(o, l) ==
    IF o.phase = "start" \/ l # "due" THEN {Timed(o, l, o)}
    ELSE {Timed(o, l, after) : after \in IF o.kind = "rps" THEN RpsTimeout(o) ELSE DiceTimeout(o)}

(* A bot throws at once, and again after a tie; it goes first when the      *)
(* players have seen that it won.                                          *)
Throws(o, seat) == {Throw(o, seat, hand) : hand \in Hands}

BotThrows(o, seat) ==
    UNION {IF MayThrow(after, seat) THEN Throws(after, seat) ELSE {after} : after \in Throws(o, seat)}

BotActs(o, l) ==
    LET throwing == {s \in BotSeats : MayThrow(o, s)}
        choosing == {s \in BotSeats : MayChoose(o, s) /\ l # "early"}
    IN  IF throwing # {} THEN UNION {BotThrows(o, s) : s \in throwing}
        ELSE IF choosing # {} THEN {Chosen(o, "first")}
        ELSE {o}

(* driveOpening, from an opening just read or stepped.                     *)
Driven(o, l) ==
    UNION {{Timed(t.o, t.late, after) : after \in BotActs(t.o, t.late)} : t \in Timeout(o, l)}

(* settleOrder: the rows move with all they hold.                          *)
Moved(o) == [s \in Places |-> seats[CHOOSE t \in Places : NewSeat(o, t) = s]]

Untold == [who |-> <<>>, opening |-> NoOpening]

JustDecided(o) == o.phase = "start" /\ (opening = NoOpening \/ opening.phase # "start")

Store(o, l) ==
    IF JustDecided(o)
    THEN /\ opening' = Settled(o) /\ late' = "due" /\ seats' = Moved(o)
         /\ told' = [who |-> Who, opening |-> o]
    ELSE opening' = o /\ late' = l /\ UNCHANGED <<seats, told>>

(* A settled opening starts the duel, unless a failed start still waits.   *)
Drive(o, l) ==
    \E next \in Driven(o, l) :
        /\ next.o.kind = "rps" => next.o.round <= MaxRound
        /\ Store(next.o, next.late)
        /\ job' = IF next.o.phase = "start" /\ ~backoff THEN CreateGame(seats') ELSE NoJob

(* beginGame                                                               *)
Begin ==
    IF ~InLobby \/ (opening = NoOpening /\ ~AllReady)
    THEN job' = NoJob /\ UNCHANGED <<seats, opening, late, told>>
    ELSE IF opening # NoOpening THEN Drive(opening, late)
    ELSE CASE table.order = "none" ->
                job' = CreateGame(seats) /\ UNCHANGED <<seats, opening, late, told>>
           [] table.order = "rps" -> Drive(NewRps, "early")
           [] table.order = "dice" -> \E o \in NewDice(Places) : Drive(o, "early")

-----------------------------------------------------------------------------
Init ==
    /\ table \in Tables
    /\ status = "lobby"
    /\ seats = [s \in Places |->
                    IF s < Len(table.players) THEN Sit(table.players[s + 1]) ELSE Empty]
    /\ opening = NoOpening /\ late = "early"
    /\ job = NoJob /\ backoff = FALSE
    /\ told = Untold
    /\ failures = 0 /\ restarts = 0

Counts == <<failures, restarts>>
Story == <<table, told, Counts>>
OnlySeats == UNCHANGED <<status, opening, late, job, backoff, Story>>

(* Calls of the web app.                                                   *)
TakeSeat(p, s) ==
    /\ Free /\ ~table.series
    /\ ~Seated(p) /\ seats[s] = Empty
    /\ seats' = [seats EXCEPT ![s] = Sit(p)]
    /\ OnlySeats

Leave(p) ==
    /\ Free /\ ~table.series
    /\ p # Organizer /\ Seated(p)
    /\ seats' = [seats EXCEPT ![SeatOf(p)] = Empty]
    /\ OnlySeats

(* One bot, or all of them.                                                *)
RemoveBot(S) ==
    /\ Free
    /\ S # {} /\ S \subseteq BotSeats /\ (S = BotSeats \/ Cardinality(S) = 1)
    /\ seats' = [s \in Places |-> IF s \in S THEN Empty ELSE seats[s]]
    /\ OnlySeats

CancelSeries ==
    /\ table.series /\ InLobby
    /\ status' = "cancelled"
    /\ UNCHANGED <<seats, opening, late, job, backoff, Story>>

(* Requests in the queue.                                                  *)
AddBot(s) ==
    /\ Idle /\ InLobby
    /\ seats[s] = Empty
    /\ seats' = [seats EXCEPT ![s] = [who |-> Bot, deck |-> BotDeck, ready |-> TRUE]]
    /\ OnlySeats

(* autoStart: a series with two ready seats starts at once.                *)
AutoStart ==
    job' = IF table.series /\ \A s \in Places : seats'[s].ready THEN Job("begin", NoDecks) ELSE NoJob

Settle(p, row) ==
    /\ Idle /\ Free /\ Seated(p)
    /\ seats' = [seats EXCEPT ![SeatOf(p)] = row]
    /\ UNCHANGED <<status, opening, late, backoff, Story>>

SetDeck(p, deck) ==
    Settle(p, [who |-> p, deck |-> deck, ready |-> TRUE]) /\ AutoStart

MarkReady(p) ==
    /\ Seated(p) /\ seats[SeatOf(p)].deck # NoDeck
    /\ Settle(p, [seats[SeatOf(p)] EXCEPT !.ready = TRUE])
    /\ AutoStart

MarkUnready(p) ==
    /\ Seated(p)
    /\ Settle(p, [seats[SeatOf(p)] EXCEPT !.ready = FALSE])
    /\ UNCHANGED job

Start(p) ==
    /\ Idle /\ InLobby
    /\ IF table.series THEN Seated(p) ELSE p = Organizer
    /\ Begin
    /\ UNCHANGED <<table, status, backoff, Counts>>

Pick(p, hand) ==
    /\ Idle /\ InLobby /\ opening # NoOpening
    /\ Seated(p) /\ MayThrow(opening, SeatOf(p))
    /\ LET after == Timed(opening, late, Throw(opening, SeatOf(p), hand))
       IN  Drive(after.o, after.late)
    /\ UNCHANGED <<table, status, backoff, Counts>>

Choose(p, choice) ==
    /\ Idle /\ InLobby /\ opening # NoOpening
    /\ Seated(p) /\ MayChoose(opening, SeatOf(p))
    /\ Drive(Chosen(opening, choice), "due")
    /\ UNCHANGED <<table, status, backoff, Counts>>

Cancel(p) ==
    /\ Idle /\ InLobby
    /\ IF table.series THEN Seated(p) ELSE p = Organizer
    /\ status' = "cancelled"
    /\ UNCHANGED <<seats, opening, late, job, backoff, Story>>

-----------------------------------------------------------------------------
(* What the host does by itself.                                           *)

Elapse ==
    /\ InLobby /\ opening # NoOpening
    /\ opening.phase # "start" /\ late # "due"
    /\ late' = IF opening.phase = "choose" /\ late = "early" THEN "reveal" ELSE "due"
    /\ UNCHANGED <<status, seats, opening, job, backoff, Story>>

(* mutant: a settled opening is taken for one that has started             *)
IsDueUnsettled ==
    /\ opening # NoOpening /\ ~backoff /\ opening.phase # "start"
    /\ late = "due" \/ (late = "reveal" /\ \E s \in BotSeats : MayChoose(opening, s))

(* dueOpenings and the timer: at the deadline, or when a bot may choose.   *)
IsDue ==
    /\ opening # NoOpening /\ ~backoff
    /\ late = "due" \/ (late = "reveal" /\ \E s \in BotSeats : MayChoose(opening, s))

Wake ==
    /\ Idle /\ InLobby /\ IsDue
    /\ Drive(opening, late)
    /\ UNCHANGED <<table, status, backoff, Counts>>

(* dueStarts: two ready seats of a series.                                 *)
SweepStart ==
    /\ Idle /\ InLobby /\ table.series /\ AllReady /\ ~backoff
    /\ Begin
    /\ UNCHANGED <<table, status, backoff, Counts>>

(* The wait is over, or the sweep that began the start forgets it.         *)
BackoffEnds ==
    /\ backoff
    /\ backoff' = FALSE
    /\ UNCHANGED <<status, seats, opening, late, job, Story>>

(* The request goes on after an await.                                     *)
BeginStep ==
    /\ job.pc = "begin"
    /\ Begin
    /\ UNCHANGED <<table, status, backoff, Counts>>

(* What activate asks of the rows again.                                   *)
Startable == InLobby /\ AllReady

Activate ==
    /\ job.pc = "create" /\ Startable
    /\ status' = "active" /\ opening' = NoOpening
    /\ late' = "early" /\ told' = Untold
    /\ job' = NoJob /\ backoff' = FALSE
    /\ UNCHANGED <<table, seats, Counts>>

(* The start of a table gives the lobby back; that of a series waits.      *)
GiveUp ==
    /\ job' = NoJob
    /\ IF opening # NoOpening /\ ~table.series /\ InLobby
       THEN opening' = NoOpening /\ late' = "early" /\ told' = Untold /\ UNCHANGED backoff
       ELSE backoff' = (opening # NoOpening) /\ UNCHANGED <<opening, late, told>>
    /\ UNCHANGED <<table, status, seats, restarts>>

StartFails ==
    /\ job.pc = "create" /\ failures < MaxFailures
    /\ failures' = failures + 1
    /\ GiveUp

StartRefused ==
    /\ job.pc = "create" /\ ~Startable
    /\ GiveUp
    /\ UNCHANGED failures

(* The request, its worker and the wait are in memory only; a host that     *)
(* holds none of them loses nothing.                                       *)
HostRestart ==
    /\ InLobby /\ restarts < MaxRestarts
    /\ ~Idle \/ backoff
    /\ restarts' = restarts + 1
    /\ job' = NoJob /\ backoff' = FALSE
    /\ UNCHANGED <<table, status, seats, opening, late, told, failures>>

-----------------------------------------------------------------------------
Lobby ==
    \/ \E p \in Guests : Leave(p) \/ \E s \in Places : TakeSeat(p, s)
    \/ \E S \in SUBSET Places : RemoveBot(S)
    \/ \E s \in Places : AddBot(s)
    \/ \E p \in Humans : MarkReady(p) \/ MarkUnready(p) \/ \E deck \in Decks : SetDeck(p, deck)
    \/ \E p \in Humans : Start(p) \/ Cancel(p)
    \/ CancelSeries

Play ==
    \E p \in Humans :
        \/ \E hand \in Hands : Pick(p, hand)
        \/ \E choice \in {"first", "second"} : Choose(p, choice)

Answer == BeginStep \/ Activate \/ StartFails \/ StartRefused

Next == Lobby \/ Play \/ Elapse \/ Wake \/ SweepStart \/ BackoffEnds \/ Answer \/ HostRestart

Spec == Init /\ [][Next]_vars

(* Time passes, the tick comes round, and a request that waits for its      *)
(* worker is answered.  Nobody is asked to throw or to choose.             *)
FairSpec == Spec /\ WF_vars(Elapse) /\ WF_vars(Wake) /\ WF_vars(BackoffEnds) /\ WF_vars(Answer)
-----------------------------------------------------------------------------
(* Properties.                                                             *)

Row == [who : Humans \cup {Bot}, deck : Decks \cup {NoDeck}, ready : BOOLEAN]

(* A rank is what the seats before it leave: only then does every rank that *)
(* nobody shares name a seat.                                              *)
RanksCount(rank) ==
    \A s \in DOMAIN rank : rank[s] = Cardinality({t \in DOMAIN rank : rank[t] < rank[s]})

OpeningOK ==
    \/ opening = NoOpening
    \/ /\ table.order = "rps" /\ opening \in Rps
       /\ opening.phase # "rps" <=> opening.winner # -1
       /\ opening.phase = "start" <=> opening.choice # "none"
    \/ /\ table.order = "dice" /\ opening \in Dice(Places)
       /\ Len(opening.rounds) \in 1..MaxRolls
       /\ RanksCount(opening.rank)

(* The shape of the rows: nobody sits twice, the organizer stays, Ready has *)
(* a deck, and an opening runs over a full table of ready seats, while      *)
(* seats move (settleOrder) and the lobby comes back (abortOpening).       *)
TypeOK ==
    /\ table \in Tables
    /\ status \in {"lobby", "active", "cancelled"}
    /\ seats \in [Places -> Row \cup {Empty}]
    /\ \A s, t \in Places : seats[s].who = seats[t].who /\ seats[s].who \in Humans => s = t
    /\ Seated(Organizer)
    /\ \A s \in Places : seats[s].ready => seats[s].deck # NoDeck
    /\ OpeningOK
    /\ opening # NoOpening => AllReady
    /\ late \in {"early", "reveal", "due"}
    /\ job.pc \in {"idle", "begin", "create"} /\ job.decks \in [Places -> Decks \cup {NoDeck}]
    /\ backoff \in BOOLEAN
    /\ failures \in 0..MaxFailures /\ restarts \in 0..MaxRestarts

(* Who goes before whom: the winner of the hands goes where it chose, and   *)
(* of two seats the one that rolled higher when they first differed.       *)
Higher(rounds, s, t) ==
    \E i \in 1..Len(rounds) :
        /\ rounds[i][s] > rounds[i][t]
        /\ \A j \in 1 .. i - 1 : rounds[j][s] = rounds[j][t]

Before(o, s, t) ==
    IF o.kind = "dice" THEN Higher(o.rounds, s, t)
    ELSE Beats(o.picks[s], o.picks[t]) <=> o.choice = "first"

Starting == status # "active" /\ status' = "active"

InOrder ==
    \A s, t \in Places :
        s # t /\ Before(told.opening, s, t)
            => \E i, j \in Places : i < j /\ seats'[i].who = told.who[s]
                                          /\ seats'[j].who = told.who[t]

OnReadyDecks == \A s \in Places : seats'[s].ready /\ job.decks[s] = seats'[s].deck

(* A duel starts in the order its players saw decided, however often a      *)
(* start failed, the host restarted or the lobby was given back before; and *)
(* the worker that was made before the await plays the decks of those who   *)
(* then sit at the table, although seats can be left and taken meanwhile.  *)
StartsAsDecided ==
    [][Starting => OnReadyDecks /\ (opening # NoOpening => InOrder)]_vars

(* Every stage of an opening passes, also when nobody throws or chooses,    *)
(* starts fail and the host restarts; the last one is the start.           *)
Running(stage) == InLobby /\ opening # NoOpening /\ Stage(opening) = stage

Stages == {"rps", "choose", "dice", "start"} \X (1 .. MaxRound + MaxRolls)

OpeningMovesOn == \A stage \in Stages : Running(stage) ~> ~Running(stage)
=============================================================================
