----------------------------- MODULE Tournament -----------------------------
(***************************************************************************)
(* One tournament: its pairings (tournament_matches), the reports of its    *)
(* results (matches), the duel series that play pairings online, and the    *)
(* ratings (point_awards).  packages/shared/src/services: tournaments.ts,   *)
(* matches.ts, tournament-duels.ts, duel-series.ts and scoring.ts.          *)
(*                                                                         *)
(* Several processes share the database.  Reports, organizer results,      *)
(* reopenings, closings and everything a series does are transactions: one *)
(* action each.  Starting the tournament, approving and denying are        *)
(* statements of their own: `task` is what a process is in the middle of,   *)
(* and one action is one statement, or reads that follow one another.  A    *)
(* Node process runs such a call without a pause, so it does nothing else   *)
(* meanwhile.                                                              *)
(*                                                                         *)
(* Abstractions: rows are numbered in the order of their ids; whose time to *)
(* object is over and whether the deadline has passed is open, as organizers *)
(* may move both; a series is one step, its games are module DuelSeries;   *)
(* signing up, casual matches and points are left out.                     *)
(***************************************************************************)
EXTENDS Integers, Sequences, FiniteSets, SequencesExt, FiniteSetsExt

CONSTANTS
    Events,         \* the tournaments there may be, each with its bounds
    Frontends,      \* processes that serve players: web app, Discord bot
    Worker          \* the process of the timers

Event == [format : {"round_robin", "single_elim"},
          roster : Seq(Nat \ {0}),   \* the players, in the order in which they signed up
          maxMatches : Nat,          \* bound: rows of matches
          maxSeries : Nat,           \* bound: series
          maxFaults : Nat]           \* bound: crashes and failed recordings

ASSUME TournamentAssumption ==
    /\ \A e \in Events : e \in Event /\ Len(e.roster) >= 2 /\ IsInjective(e.roster)
    /\ Worker \notin Frontends

VARIABLES
    event,          \* this tournament
    db,             \* status, slots, matches, series, awards and places
    task,           \* for each process, the call it is in the middle of
    overdue,        \* reports the worker's tick still has to approve
    faults,         \* crashes and failed recordings so far
    torn            \* has a call gone on after what it had read was changed?

vars == <<event, db, task, overdue, faults, torn>>

Ghost == 0          \* the opponent of a player who sits out
Nobody == 0
Procs == Frontends \cup {Worker}
format == event.format
roster == event.roster
Players == ToSet(roster)
MaxMatches == event.maxMatches
MaxSeries == event.maxSeries
MaxFaults == event.maxFaults

-----------------------------------------------------------------------------
(* Pairings (tournaments/formats.ts).                                      *)

OpenSlot(pair, round) == [pair |-> pair, round |-> round, status |-> "open", match |-> 0]
ByeSlot(p, round) == [OpenSlot({p}, round) EXCEPT !.status = "completed"]

(* generateRoundRobin: the first seat stays, the others rotate.            *)
RoundRobin(players) ==
    LET ids == IF Len(players) % 2 = 1 THEN Append(players, Ghost) ELSE players
        n == Len(ids)
        half == n \div 2
        seated(r, k) == IF k = 1 THEN ids[1] ELSE ids[2 + ((k + r - 3) % (n - 1))]
        pair(r, i) == {seated(r, i), seated(r, n + 1 - i)} \ {Ghost}
    IN  [j \in 1..((n - 1) * half) |->
            LET r == ((j - 1) \div half) + 1
                ps == pair(r, ((j - 1) % half) + 1)
            IN  IF Cardinality(ps) = 1 THEN ByeSlot(Min(ps), r) ELSE OpenSlot(ps, r)]

(* generateSingleElimFirstRound: the first player of an odd field sits out, *)
(* then the ends of the list meet.                                         *)
SingleElim(players, round) ==
    LET bye == Len(players) % 2
        rest == SubSeq(players, bye + 1, Len(players))
    IN  [j \in 1..bye |-> ByeSlot(players[1], round)]
        \o [j \in 1..(Len(rest) \div 2) |-> OpenSlot({rest[j], rest[Len(rest) + 1 - j]}, round)]

FirstRows == IF format = "round_robin" THEN RoundRobin(roster) ELSE SingleElim(roster, 1)

-----------------------------------------------------------------------------
(* What the rows say.                                                      *)

IsBye(s) == Cardinality(s.pair) = 1
RealSlots(d) == {i \in DOMAIN d.slots : ~IsBye(d.slots[i])}
SlotsOf(d, m) == {i \in DOMAIN d.slots : d.slots[i].match = m}
OpenSeries(d, i) == {k \in DOMAIN d.series : d.series[k].slot = i /\ d.series[k].status = "open"}

(* Who goes on from a slot: the winner of its linked match, whatever the   *)
(* status of that match, or the player who sat out.                        *)
WinnerOf(d, s) ==
    IF s.match # 0 THEN d.matches[s.match].winner
    ELSE IF IsBye(s) THEN Min(s.pair) ELSE Nobody

Winners(d, round) ==
    LET decided == {i \in DOMAIN d.slots : d.slots[i].round = round
                                           /\ WinnerOf(d, d.slots[i]) # Nobody}
        nth(j) == CHOOSE i \in decided : Cardinality({k \in decided : k <= i}) = j
    IN  [j \in 1..Cardinality(decided) |-> WinnerOf(d, d.slots[nth(j)])]

Approved(d, m) == d.matches[m].status = "approved"

(* derivePlacement: players by match wins.                                 *)
MatchWins(d, p) ==
    Cardinality({i \in DOMAIN d.slots :
        /\ d.slots[i].status = "completed" /\ d.slots[i].match # 0
        /\ Approved(d, d.slots[i].match) /\ d.matches[d.slots[i].match].winner = p})

Tier(d, p) ==
    LET wins == MatchWins(d, p)
        before == Cardinality({q \in Players : \/ MatchWins(d, q) > wins
                                               \/ MatchWins(d, q) = wins /\ q < p})
    IN  CASE wins = 0 -> "none"
          [] wins > 0 /\ before = 0 -> "champion"
          [] wins > 0 /\ before = 1 -> "runnerUp"
          [] wins > 0 /\ before \in {2, 3} -> "top4"
          [] OTHER -> "none"

NoPlaces == [p \in Players |-> "none"]

(* recordTournamentResult: a player is placed at most once.                *)
Placed(d) ==
    [d EXCEPT !.places = [p \in Players |-> IF @[p] = "none" THEN Tier(d, p) ELSE @[p]]]

(* recordMatchResult: one award for each match.                            *)
Scored(d, m) == IF Approved(d, m) THEN [d EXCEPT !.awards = @ \cup {m}] ELSE d

(* completeTournamentMatch after slot i was completed: nothing follows, the *)
(* tournament closes, or the next round is drawn.                          *)
Close == [pc |-> "close", rows |-> << >>]
Score == [pc |-> "score", rows |-> << >>]

(* Mutant: a pairing whose report waits for an answer counts as played.    *)
RoundOverReported(d, i) ==
    \A j \in DOMAIN d.slots :
        (format = "round_robin" \/ d.slots[j].round = d.slots[i].round)
            => d.slots[j].status # "open"

RoundOver(d, i) ==
    \A j \in DOMAIN d.slots :
        (format = "round_robin" \/ d.slots[j].round = d.slots[i].round)
            => d.slots[j].status = "completed"

Follow(d, i) ==
    LET next == d.slots[i].round + 1
        winners == Winners(d, next - 1)
    IN  IF d.status # "active" \/ ~RoundOver(d, i) THEN Score
        ELSE IF format = "round_robin" THEN Close
        ELSE IF \E j \in DOMAIN d.slots : d.slots[j].round = next THEN Score
        ELSE IF Len(winners) <= 1 THEN Close
        ELSE [pc |-> "draw", rows |-> SingleElim(winners, next)]

Completed(d, i) == [d EXCEPT !.slots[i].status = "completed"]
Closed(d) == [d EXCEPT !.status = "completed"]

(* The same in one transaction.                                            *)
Advanced(d, i) ==
    LET follow == Follow(d, i)
    IN  CASE follow.pc = "close" -> Placed(Closed(d))
          [] follow.pc = "draw" -> [d EXCEPT !.slots = @ \o follow.rows]
          [] follow.pc = "score" -> d

(* recordConfirmedResult: the database after it, none when it is refused.  *)
Confirmed(d, i, w) ==
    IF d.slots[i].status = "completed" \/ d.slots[i].match # 0 THEN {}
    ELSE LET m == Len(d.matches) + 1
             row == [pair |-> d.slots[i].pair, winner |-> w, status |-> "approved",
                     reported |-> FALSE]
             linked == [d EXCEPT !.matches = Append(@, row), !.slots[i].match = m]
         IN  {Scored(Advanced(Completed(linked, i), i), m)}

(* Closing a tournament, or setting a result, cancels the open series.     *)
SeriesCancelled(d, slots) ==
    [d EXCEPT !.series = [k \in DOMAIN @ |->
        IF @[k].status = "open" /\ @[k].slot \in slots
        THEN [@[k] EXCEPT !.status = "cancelled"] ELSE @[k]]]

(* A later series, a report since the series was decided or the result that *)
(* the slot has now outdates what the series says.                         *)
Superseded(d, k) ==
    LET s == d.series[k]
    IN  \/ \E l \in DOMAIN d.series : l > k /\ d.series[l].slot = s.slot
        \/ \E m \in DOMAIN d.matches : /\ d.matches[m].pair = d.slots[s.slot].pair
                                       /\ m = d.slots[s.slot].match \/ m > s.mark

Unrecorded(d, k) ==
    d.series[k].status = "completed" /\ d.series[k].match = 0 /\ ~Superseded(d, k)

-----------------------------------------------------------------------------
(* Calls made of several statements.                                       *)

Idle == [pc |-> "idle", report |-> 0, slot |-> 0, rows |-> << >>]
At(p, pc) == task[p].pc = pc
Goto(p, t) == task' = [task EXCEPT ![p] = t]
Continue(p, pc) == Goto(p, [task[p] EXCEPT !.pc = pc])
Fixed == UNCHANGED <<event, faults>>
OnlyTask == UNCHANGED <<db, overdue>> /\ Fixed
DbAndTask == UNCHANGED overdue /\ Fixed

Init ==
    /\ event \in Events
    /\ db = [status |-> "pending", slots |-> << >>, matches |-> << >>, series |-> << >>,
             awards |-> {}, places |-> NoPlaces]
    /\ task = [p \in Procs |-> Idle]
    /\ overdue = {} /\ faults = 0 /\ torn = FALSE

(* start: reads, inserts the first pairings, then opens the tournament.    *)
Start(p) ==
    /\ p \in Frontends /\ At(p, "idle") /\ db.status = "pending"
    /\ Goto(p, [Idle EXCEPT !.pc = "draw", !.rows = FirstRows])
    /\ OnlyTask

InsertPairing(p) ==
    /\ At(p, "draw")
    /\ db' = [db EXCEPT !.slots = Append(@, Head(task[p].rows))]
    /\ LET last == Len(task[p].rows) = 1
           pc == IF ~last THEN "draw" ELSE IF task[p].report = 0 THEN "activate" ELSE "score"
       IN  Goto(p, [task[p] EXCEPT !.rows = Tail(@), !.pc = pc])
    /\ DbAndTask

Activate(p) ==
    /\ At(p, "activate")
    /\ db' = [db EXCEPT !.status = "active"]
    /\ Goto(p, Idle)
    /\ DbAndTask

(* Mutant: a match that is not pending can be decided.                     *)
ReadReportAny(p, m, verdict) ==
    /\ p \in Frontends /\ At(p, "idle")
    /\ Goto(p, [Idle EXCEPT !.pc = verdict, !.report = m])
    /\ OnlyTask

(* approve and deny: the opponent decides a pending report.                *)
ReadReport(p, m, verdict) ==
    /\ p \in Frontends /\ At(p, "idle") /\ db.matches[m].status = "pending"
    /\ Goto(p, [Idle EXCEPT !.pc = verdict, !.report = m])
    /\ OnlyTask

(* The tick reads the reports whose time to object is over ...             *)
Tick(late) ==
    /\ At(Worker, "idle") /\ overdue = {} /\ late # {} /\ db.status = "active"
    /\ \A m \in late : db.matches[m].status = "pending"
    /\ overdue' = late
    /\ UNCHANGED <<db, task>> /\ Fixed

(* ... and approves those that are still pending when their turn comes.    *)
ReadOverdue ==
    /\ At(Worker, "idle") /\ overdue # {}
    /\ LET m == Min(overdue)
       IN  /\ overdue' = overdue \ {m}
           /\ Goto(Worker, IF db.matches[m].status = "pending"
                           THEN [Idle EXCEPT !.pc = "approve", !.report = m] ELSE Idle)
    /\ UNCHANGED db /\ Fixed

(* The update asks for the id of the report only.                          *)
Decide(p) ==
    /\ task[p].pc \in {"approve", "deny"}
    /\ db' = [db EXCEPT !.matches[task[p].report].status =
                 IF At(p, "approve") THEN "approved" ELSE "denied"]
    /\ Continue(p, IF At(p, "approve") THEN "find" ELSE "free")
    /\ DbAndTask

FreeSlot(p) ==
    /\ At(p, "free")
    /\ db' = [db EXCEPT !.slots = [i \in DOMAIN @ |->
                 IF @[i].match = task[p].report
                 THEN [@[i] EXCEPT !.status = "open", !.match = 0] ELSE @[i]]]
    /\ Goto(p, Idle)
    /\ DbAndTask

(* Mutant: the slot is looked for among the open ones.                     *)
FindSlotOpen(p) ==
    /\ At(p, "find")
    /\ LET slots == {i \in SlotsOf(db, task[p].report) : db.slots[i].status = "open"}
       IN  IF slots = {} THEN Continue(p, "score")
           ELSE Goto(p, [task[p] EXCEPT !.pc = "complete", !.slot = Min(slots)])
    /\ OnlyTask

FindSlot(p) ==
    /\ At(p, "find")
    /\ LET slots == SlotsOf(db, task[p].report)
       IN  IF slots = {} THEN Continue(p, "score")
           ELSE Goto(p, [task[p] EXCEPT !.pc = "complete", !.slot = Min(slots)])
    /\ OnlyTask

CompleteSlot(p) ==
    /\ At(p, "complete")
    /\ db' = Completed(db, task[p].slot)
    /\ Continue(p, "survey")
    /\ DbAndTask

(* The reads that tell what follows.                                       *)
Survey(p) ==
    /\ At(p, "survey")
    /\ LET follow == Follow(db, task[p].slot)
       IN  Goto(p, [task[p] EXCEPT !.pc = follow.pc, !.rows = follow.rows])
    /\ OnlyTask

CloseTournament(p) ==
    /\ At(p, "close")
    /\ db' = Closed(db)
    /\ Continue(p, "place")
    /\ DbAndTask

Place(p) ==
    /\ At(p, "place")
    /\ db' = Placed(db)
    /\ Continue(p, "score")
    /\ DbAndTask

ReadScore(p) ==
    /\ At(p, "score")
    /\ IF Approved(db, task[p].report) /\ task[p].report \notin db.awards
       THEN Continue(p, "award") ELSE Goto(p, Idle)
    /\ OnlyTask

Award(p) ==
    /\ At(p, "award")
    /\ db' = [db EXCEPT !.awards = @ \cup {task[p].report}]
    /\ Goto(p, Idle)
    /\ DbAndTask

(* A process is restarted in the middle of a call.                         *)
Crash(p) ==
    /\ ~At(p, "idle") /\ faults < MaxFaults
    /\ faults' = faults + 1
    /\ Goto(p, Idle)
    /\ overdue' = IF p = Worker THEN {} ELSE overdue
    /\ UNCHANGED <<event, db>>

-----------------------------------------------------------------------------
(* Transactions.  A frontend serves them between its other calls.          *)

Quiet == \E p \in Frontends : At(p, "idle")
OnlyDb == UNCHANGED <<task, overdue>> /\ Fixed

(* Mutant: a report is taken while a series is open.                       *)
ReportDuringSeries(i, w) ==
    /\ Quiet /\ db.status = "active" /\ Len(db.matches) < MaxMatches
    /\ db.slots[i].status = "open" /\ w \in db.slots[i].pair
    /\ db' = [db EXCEPT
                !.matches = Append(@, [pair |-> db.slots[i].pair, winner |-> w,
                                       status |-> "pending", reported |-> TRUE]),
                !.slots[i].match = Len(db.matches) + 1,
                !.slots[i].status = "pending_approval"]
    /\ OnlyDb

(* report: the first open slot of the two players.                         *)
Report(i, w) ==
    /\ Quiet /\ db.status = "active" /\ Len(db.matches) < MaxMatches
    /\ db.slots[i].status = "open" /\ w \in db.slots[i].pair
    /\ OpenSeries(db, i) = {}
    /\ db' = [db EXCEPT
                !.matches = Append(@, [pair |-> db.slots[i].pair, winner |-> w,
                                       status |-> "pending", reported |-> TRUE]),
                !.slots[i].match = Len(db.matches) + 1,
                !.slots[i].status = "pending_approval"]
    /\ OnlyDb

(* Mutant: the report that is overridden stays pending.                    *)
SetResultKeepsReport(i, w) ==
    /\ Quiet /\ db.status = "active" /\ Len(db.matches) < MaxMatches
    /\ db.slots[i].status \in {"open", "pending_approval"} /\ w \in db.slots[i].pair
    /\ db' \in Confirmed([SeriesCancelled(db, {i}) EXCEPT !.slots[i].status = "open",
                                                          !.slots[i].match = 0], i, w)
    /\ OnlyDb

(* setResultByOrganizer.                                                   *)
SetResult(i, w) ==
    /\ Quiet /\ db.status = "active" /\ Len(db.matches) < MaxMatches
    /\ db.slots[i].status \in {"open", "pending_approval"} /\ w \in db.slots[i].pair
    /\ LET held == db.slots[i].status = "pending_approval" /\ db.slots[i].match # 0
           m == db.slots[i].match
           idle == SeriesCancelled(db, {i})
           freed == IF ~held THEN idle
                    ELSE [idle EXCEPT
                            !.matches[m].status = IF @ = "pending" THEN "denied" ELSE @,
                            !.slots[i].status = "open", !.slots[i].match = 0]
       IN  db' \in Confirmed(freed, i, w)
    /\ OnlyDb

(* Mutant: the places are kept.                                            *)
ReopenKeepsPlaces(i) ==
    /\ Quiet /\ format = "round_robin"
    /\ db.slots[i].status = "completed" /\ db.slots[i].match # 0
    /\ LET m == db.slots[i].match
           open == [db EXCEPT !.matches[m].status = "denied",
                              !.slots[i].status = "open", !.slots[i].match = 0,
                              !.status = IF @ = "completed" THEN "active" ELSE @]
       IN  db' = [open EXCEPT !.awards = {a \in @ : Approved(open, a)}]
    /\ OnlyDb

(* reopenTournamentMatch: the standings are rebuilt without the match, and *)
(* without the places of this tournament.                                  *)
Reopen(i) ==
    /\ Quiet /\ format = "round_robin"
    /\ db.slots[i].status = "completed" /\ db.slots[i].match # 0
    /\ LET m == db.slots[i].match
           open == [db EXCEPT !.matches[m].status = "denied",
                              !.slots[i].status = "open", !.slots[i].match = 0,
                              !.status = IF @ = "completed" THEN "active" ELSE @]
       IN  db' = IF Approved(db, m) \/ m \in db.awards
                 THEN [open EXCEPT !.awards = {a \in @ : Approved(open, a)},
                                   !.places = NoPlaces]
                 ELSE open
    /\ OnlyDb

(* cancel, complete and, from the worker once its reports are resolved,    *)
(* closeForDeadline.                                                       *)
End(status) ==
    db' = [SeriesCancelled(db, DOMAIN db.slots) EXCEPT !.status = status]

Cancel ==
    /\ Quiet /\ db.status \in {"pending", "active"}
    /\ End("cancelled")
    /\ OnlyDb

EndAsIs ==
    /\ db.status = "active"
    /\ Quiet \/ (At(Worker, "idle") /\ overdue = {})
    /\ End("completed")
    /\ OnlyDb

(* startTournamentMatch; an open series is resumed instead.                *)
StartSeries(i) ==
    /\ Quiet /\ db.status = "active" /\ Len(db.series) < MaxSeries
    /\ db.slots[i].status = "open" /\ db.slots[i].match = 0
    /\ OpenSeries(db, i) = {}
    /\ \A k \in DOMAIN db.series : db.series[k].slot = i => ~Unrecorded(db, k)
    /\ db' = [db EXCEPT !.series = Append(@, [slot |-> i, status |-> "open",
                                              winner |-> Nobody, match |-> 0, mark |-> 0])]
    /\ OnlyDb

CancelSeries(k) ==
    /\ Quiet /\ db.series[k].status = "open"
    /\ db' = [db EXCEPT !.series[k].status = "cancelled"]
    /\ OnlyDb

(* Mutant: the series points past the row that was inserted.               *)
RecordedPast(d, k) ==
    {[e EXCEPT !.series[k].match = Len(e.matches) + 1]
        : e \in Confirmed(d, d.series[k].slot, d.series[k].winner)}

Recorded(d, k) ==
    {[e EXCEPT !.series[k].match = Len(e.matches)]
        : e \in Confirmed(d, d.series[k].slot, d.series[k].winner)}

(* onGameFinished with the deciding win.  The result is recorded inside a  *)
(* savepoint: when that fails, the series is completed all the same.       *)
SeriesDecided(k, w) ==
    /\ db.series[k].status = "open" /\ w \in db.slots[db.series[k].slot].pair
    /\ Len(db.matches) < MaxMatches
    /\ LET decided == [db EXCEPT !.series[k].status = "completed",
                                 !.series[k].winner = w,
                                 !.series[k].mark = Len(db.matches)]
       IN  \/ /\ db.status # "active"
              /\ db' = [db EXCEPT !.series[k].status = "cancelled"]
              /\ UNCHANGED faults
           \/ /\ db.status = "active" /\ db' \in Recorded(decided, k)
              /\ UNCHANGED faults
           \/ /\ db.status = "active" /\ Recorded(decided, k) = {}
              /\ db' = decided
              /\ UNCHANGED faults
           \/ /\ db.status = "active" /\ faults < MaxFaults
              /\ db' = decided
              /\ faults' = faults + 1
    /\ UNCHANGED <<event, task, overdue>>

(* retryResult: an operator records the result of such a series later.     *)
RetryResult(k) ==
    /\ Unrecorded(db, k) /\ Len(db.matches) < MaxMatches
    /\ db' \in Recorded(db, k)
    /\ OnlyDb

-----------------------------------------------------------------------------

Statement(p) ==
    \/ InsertPairing(p) \/ Activate(p)
    \/ Decide(p) \/ FreeSlot(p) \/ FindSlot(p) \/ CompleteSlot(p) \/ Survey(p)
    \/ CloseTournament(p) \/ Place(p) \/ ReadScore(p) \/ Award(p)

Transaction ==
    \/ \E i \in RealSlots(db) :
          \/ \E w \in db.slots[i].pair : Report(i, w) \/ SetResult(i, w)
          \/ Reopen(i) \/ StartSeries(i)
    \/ \E k \in DOMAIN db.series :
          \/ CancelSeries(k) \/ RetryResult(k)
          \/ \E w \in Players : SeriesDecided(k, w)
    \/ Cancel \/ EndAsIs

(* What a call has read and still relies on: its report and the slot that  *)
(* shows it, or the slots and the status of the tournament.                *)
Overtaken(p) ==
    /\ task'[p] = task[p]
    /\ \/ /\ task[p].pc \in {"approve", "deny", "find", "complete", "free", "award"}
          /\ \/ db'.matches[task[p].report] # db.matches[task[p].report]
             \/ \E i \in SlotsOf(db, task[p].report) : db'.slots[i] # db.slots[i]
       \/ /\ task[p].pc \in {"draw", "activate", "close", "place"}
          /\ <<db'.status, db'.slots>> # <<db.status, db.slots>>

Watch == torn' = (torn \/ \E p \in Procs : Overtaken(p))

Next ==
    \/ \E p \in Frontends :
          \/ Start(p) /\ Watch
          \/ \E m \in DOMAIN db.matches, v \in {"approve", "deny"} : ReadReport(p, m, v) /\ Watch
    \/ \E late \in SUBSET DOMAIN db.matches : Tick(late) /\ Watch
    \/ ReadOverdue /\ Watch
    \/ \E p \in Procs : Statement(p) /\ Watch
    \/ Transaction /\ Watch
    \/ \E p \in Procs : Crash(p) /\ torn' = (torn \/ task[p].pc \notin {"approve", "deny"})

Spec == Init /\ [][Next]_vars

(* A call runs to its end, the timer ticks, and the time to object to a     *)
(* report runs out however often the organizer moves it.                   *)
RowIds == 1..Max({e.maxMatches : e \in Events})
TickFor(m) == \E late \in SUBSET DOMAIN db.matches : m \in late /\ Tick(late)

FairSpec ==
    /\ Spec
    /\ \A p \in Procs : WF_vars(Statement(p) /\ Watch)
    /\ WF_vars(ReadOverdue /\ Watch)
    /\ \A m \in RowIds : SF_vars(TickFor(m) /\ Watch)

-----------------------------------------------------------------------------
(* Properties.                                                             *)

Slot == [pair : SUBSET Players, round : Nat \ {0},
         status : {"open", "pending_approval", "completed"}, match : Nat]
Match == [pair : SUBSET Players, winner : Players, reported : BOOLEAN,
          status : {"pending", "approved", "denied"}]
Series == [slot : Nat, status : {"open", "completed", "cancelled"},
           winner : Players \cup {Nobody}, match : Nat, mark : Nat]
Task == [pc : {"idle", "draw", "activate", "approve", "deny", "find", "free", "complete",
               "survey", "close", "place", "score", "award"},
         report : Nat, slot : Nat, rows : Seq(Slot)]

(* The shape of the rows; a row points at rows of its own pairing.         *)
TypeOK ==
    /\ event \in Events
    /\ db.status \in {"pending", "active", "completed", "cancelled"}
    /\ db.slots \in Seq(Slot) /\ db.matches \in Seq(Match) /\ db.series \in Seq(Series)
    /\ db.awards \subseteq DOMAIN db.matches
    /\ db.places \in [Players -> {"none", "champion", "runnerUp", "top4"}]
    /\ \A i \in DOMAIN db.slots :
          LET s == db.slots[i]
          IN  Cardinality(s.pair) \in {1, 2}
              /\ s.match # 0 => s.match \in DOMAIN db.matches /\ db.matches[s.match].pair = s.pair
    /\ \A k \in DOMAIN db.series :
          LET s == db.series[k]
          IN  s.match # 0 => s.match \in DOMAIN db.matches
                             /\ db.matches[s.match].winner = s.winner
    /\ task \in [Procs -> Task]
    /\ overdue \subseteq DOMAIN db.matches
    /\ faults \in 0..MaxFaults /\ torn \in BOOLEAN

(* The bracket, the reports and the ratings tell one story.  A pairing that *)
(* counts as played has one approved result and no other, an approved      *)
(* result is shown by its pairing, and is rated exactly when the call that  *)
(* approved it has come to its end: for any order of reports, decisions,   *)
(* organizer results, reopenings and series, unless a call went on after   *)
(* what it had read was changed, or died between two statements (two        *)
(* verdicts on one report at once are VerdictIsFinal's).                   *)
BooksAgree ==
    ~torn =>
        /\ \A i \in RealSlots(db) :
              db.slots[i].status = "completed" =>
                  db.slots[i].match # 0 /\ Approved(db, db.slots[i].match)
        /\ \A m \in DOMAIN db.matches :
              Approved(db, m) => /\ SlotsOf(db, m) # {}
                                 /\ m \in db.awards \/ \E p \in Procs : task[p].report = m
        /\ \A a \in db.awards : Approved(db, a)

(* A round is drawn only after all of the round before it was played, from *)
(* everybody who won there, and it is drawn: a tournament that runs always *)
(* has something left to play, unless a call is about to close it or to    *)
(* draw, also when two processes approve the last two reports of a round   *)
(* at once.  No two players meet twice, a round robin lets every two of    *)
(* them meet, and only in a single elimination can the same player sit out *)
(* more than once.  It is not claimed that a round is drawn only once: two  *)
(* processes that both find no next round (matches.ts:170-182), or both     *)
(* start the tournament, draw it twice, and so does a start after one that  *)
(* was cut off.  The first row that is written makes such a call torn.     *)
RoundSlots(r) == {i \in DOMAIN db.slots : db.slots[i].round = r}

RoundsFollow ==
    (~torn /\ \A p \in Procs : ~At(p, "draw")) =>
        /\ \A i, j \in DOMAIN db.slots :
              i # j => /\ db.slots[i].pair = db.slots[j].pair =>
                              format = "single_elim" /\ IsBye(db.slots[i])
                       /\ db.slots[i].round = db.slots[j].round =>
                              db.slots[i].pair \cap db.slots[j].pair = {}
        /\ \A i \in DOMAIN db.slots :
              LET r == db.slots[i].round
              IN  format = "single_elim" /\ r > 1 =>
                      /\ \A j \in RoundSlots(r - 1) : db.slots[j].status = "completed"
                      /\ UNION {db.slots[j].pair : j \in RoundSlots(r)}
                            = ToSet(Winners(db, r - 1))
        /\ format = "round_robin" /\ db.status = "active" =>
              \A p, q \in Players : \E i \in DOMAIN db.slots :
                  p # q => db.slots[i].pair = {p, q}
        /\ db.status = "active" /\ (\A p \in Procs : task[p].pc \notin {"survey", "close"}) =>
              \E i \in DOMAIN db.slots : db.slots[i].status # "completed"

(* Placements belong to a tournament that was played to its end and follow  *)
(* from the results that stand, also after the organizer reopened one.     *)
PlacesAreEarned ==
    ~torn /\ db.places # NoPlaces =>
        /\ db.status = "completed"
        /\ \A i \in DOMAIN db.slots : db.slots[i].status = "completed"
        /\ \A p \in Players : db.places[p] = Tier(db, p)

(* A pairing that waits for an answer to a report is not being played, and  *)
(* the result of a decided series whose recording failed can be recorded    *)
(* until something newer outdates it: the pairing is still free for it.    *)
SeriesResultFits ==
    /\ \A i \in DOMAIN db.slots :
          db.slots[i].status = "pending_approval" => OpenSeries(db, i) = {}
    /\ ~torn => \A k \in DOMAIN db.series :
          db.series[k].status = "open" \/ Unrecorded(db, k) =>
              db.slots[db.series[k].slot].status = "open"
              /\ db.slots[db.series[k].slot].match = 0

(* A result that the engine or the organizer recorded is undone only by a   *)
(* reopening, whatever a player or the timer decides about a report.       *)
Stands(d, i) == d.slots[i].status = "completed" /\ d.slots[i].match # 0
                /\ ~d.matches[d.slots[i].match].reported
                /\ Approved(d, d.slots[i].match)

ConfirmedResultStands ==
    [][ \A i \in DOMAIN db.slots :
          Stands(db, i) => \/ Stands(db', i) /\ db'.slots[i] = db.slots[i]
                           \/ Reopen(i) ]_vars

(* A reported pairing does not wait for ever: the report is answered, or   *)
(* the timer approves it, and the pairing is played or open again.  Left    *)
(* out with `torn`: a process that dies between deciding on the report and  *)
(* what this does to the pairing leaves a pairing that waits until the      *)
(* organizer sets its result; no player and no timer takes it up again.    *)
Waits(m) == \E i \in SlotsOf(db, m) : db.slots[i].status = "pending_approval"

ReportedPairingMovesOn ==
    \A m \in RowIds : db.status = "active" /\ m \in DOMAIN db.matches /\ Waits(m)
        ~> db.status # "active" \/ ~Waits(m) \/ torn

(* matches.ts, "Match is not pending": a report that was approved or denied *)
(* is not decided again.                                                   *)
VerdictIsFinal ==
    [][ \A m \in DOMAIN db.matches :
          db.matches[m].status # "pending" =>
              \/ db'.matches[m].status = db.matches[m].status
              \/ \E i \in SlotsOf(db, m) : Reopen(i) ]_vars
=============================================================================
