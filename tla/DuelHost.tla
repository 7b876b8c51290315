------------------------------ MODULE DuelHost ------------------------------
(***************************************************************************)
(* The duel host for one duel: the SQLite row and journal that survive a    *)
(* crash, the worker thread that holds the live core, the per-duel queue    *)
(* whose jobs run one at a time, the background loop that plays the bots,   *)
(* and the timer sweep that runs beside the queue.                          *)
(*                                                                          *)
(* A job is split at its awaits: between two of its steps the worker or the *)
(* process may die and time may pass, but no other job of the duel runs.    *)
(* Requests arrive in any order and any number of times; an answer is made  *)
(* from a state some client was shown, so it may be a retry or stale.       *)
(***************************************************************************)
EXTENDS DuelEngine

CONSTANTS
  Ranked,        \* a ranked duel cannot be cancelled once it runs
  Timeout,       \* what an empty time bank means: "loss", "continue", "none"
  Bundles,       \* engine data versions a deployment may pin
  ModeLimit,     \* mode changes the journal takes
  SweepYields,   \* another duel is reclaimed earlier in the same sweep
  MaxFaults,     \* bound: worker deaths and failed writes
  MaxRestarts    \* bound: host restarts

VARIABLES
  status,    \* duels.status
  journal,   \* duel_commands of the duel, in sequence order
  result,    \* duels.winner_seat and result_reason
  bundle,    \* duels.bundle_version of the started duel
  clock,     \* duels.clock_json: whose time runs, whether it is up ("due"),
             \* and the seats whose bank is empty
  pinned,    \* engine data version of this process
  worker,    \* entry in `games`: "none", "up", or "down" (thread exited)
  hist,      \* commands the live core has taken
  idle,      \* entry.lastRequestAt is older than idleWorkerMs
  loop,      \* bot loop: "none", "plan" or "sleep" (pause before acting)
  plan,      \* the step the sleeping bot loop will apply
  job,       \* the queue job that runs now
  sweep,     \* idle sweep: "off", "armed" (holds this entry), "replaced"
  leaked,    \* running workers that no table entry refers to
  shown,     \* the longest command sequence any client was shown
  faults, restarts

ASSUME HostAssumption ==
  /\ Timeout \in {"loss", "continue", "none"}
  /\ {Ranked, SweepYields} \subseteq BOOLEAN
  /\ {ModeLimit, MaxFaults, MaxRestarts} \subseteq Nat
  /\ Bundles # {}
  /\ ~Multi => Cardinality(Seats) = 2

record == <<status, journal, result>>
memory == <<worker, hist, idle, loop, plan>>
sweeping == <<sweep, leaked>>
vars == <<status, journal, result, bundle, clock, pinned, worker, hist, idle,
          loop, plan, job, sweep, leaked, shown, faults, restarts>>

Humans == Seats \ Bots
NoCmd == [kind |-> "none", seat |-> NoSeat, rev |-> 0, pid |-> 0, arg |-> "none"]
NoResult == [winner |-> NoSeat, reason |-> "none"]

(* op: the request; pc: its next step; req: what was asked; cmd: the journal *)
(* row it writes; why: the reason of a forfeit; hold: whether the worker the *)
(* decision was made on still runs ("none": nothing decided); late: the      *)
(* running clock was already due when the move was decided.                  *)
NoJob == [op |-> "none", pc |-> "idle", req |-> NoCmd, cmd |-> NoCmd,
          why |-> "none", hold |-> "none", late |-> FALSE]
NoClock == [seat |-> NoSeat, state |-> "off", empty |-> {}]

-----------------------------------------------------------------------------
(* Building blocks of the handlers                                          *)

DisposeGame == worker' = "none" /\ hist' = <<>> /\ idle' = FALSE
               /\ loop' = "none" /\ plan' = NoCmd

EndJob == job' = NoJob

Goto(pc) == job' = [job EXCEPT !.pc = pc]

(* driveBot: a table without bots starts no loop that would do anything. *)
StartBotLoop == loop' = IF loop = "none" /\ Bots # {} THEN "plan" ELSE loop

Interrupted == /\ status' = "interrupted"
               /\ result' = [winner |-> NoSeat, reason |-> "interrupted"]
               /\ clock' = NoClock

(* The clock of the prompted seat runs unless its bank is empty. *)
ClockFor(h, empty) ==
  IF Timeout = "none" THEN NoClock
  ELSE [seat |-> PromptSeat(h), empty |-> empty,
        state |-> IF Over(h) \/ PromptSeat(h) \in empty THEN "off" ELSE "run"]

StartClock == ClockFor(<<>>, {})

(* Mutant: the expired bank is looked up when the move is done, not when it *)
(* was decided.                                                             *)
SyncClockWhenDone(h, overdue, decider) ==
  IF Timeout = "loss" /\ clock.state = "due" /\ {clock.seat, decider} \cap Gone(h) = {}
  THEN {clock}
  ELSE {ClockFor(h, empty) : empty \in {{}, clock.empty}}

(* syncDecisionClock: a loss deadline that has passed is kept, unless its   *)
(* seat or the deciding seat has left.  A new turn refills every bank.      *)
SyncClock(h, overdue, decider) ==
  LET spent == clock.empty \cup (IF overdue THEN {clock.seat} ELSE {})
  IN  IF Timeout = "loss" /\ overdue /\ {clock.seat, decider} \cap Gone(h) = {}
      THEN {clock}
      ELSE {ClockFor(h, empty) : empty \in {{}, spent}}

Overdue == clock.state = "due"

(* A due clock that settleClock acts on: a bot is driven, never timed out. *)
TimeIsUp == Overdue /\ clock.seat \in Humans

ForfeitCommand(s, why) == [kind |-> "elim", seat |-> s, rev |-> Revision(hist),
                           pid |-> 0, arg |-> why]

(* forfeitSeat: at once in a two-seat duel, through the core otherwise. *)
Forfeit(s, why) ==
  job' = [job EXCEPT !.pc = IF Multi THEN "apply" ELSE "finish",
                     !.cmd = ForfeitCommand(s, why), !.why = why]

-----------------------------------------------------------------------------
(* Lobby                                                                    *)

Init ==
  /\ status = "lobby" /\ journal = <<>> /\ result = NoResult
  /\ bundle \in Bundles /\ pinned = bundle
  /\ clock = NoClock
  /\ worker = "none" /\ hist = <<>> /\ idle = FALSE
  /\ loop = "none" /\ plan = NoCmd /\ job = NoJob
  /\ sweep = "off" /\ leaked = 0
  /\ shown = <<>> /\ faults = 0 /\ restarts = 0

(* startGame up to the await of game.create. *)
StartGame ==
  /\ job = NoJob /\ status = "lobby"
  /\ job' = [NoJob EXCEPT !.op = "start", !.pc = "spawned"]
  /\ UNCHANGED <<record, bundle, clock, pinned, memory, sweeping, shown, faults, restarts>>

(* Mutant: the row is not read again after the worker was created. *)
ActivateUnchecked ==
  /\ job.pc = "spawned"
  /\ status' = "active" /\ bundle' = pinned /\ clock' = StartClock
  /\ worker' = "up" /\ hist' = <<>> /\ idle' = FALSE
  /\ StartBotLoop /\ Goto("project")
  /\ UNCHANGED <<journal, result, pinned, plan, sweeping, shown, faults, restarts>>

(* The worker is ready: activate the row.  If the core could not be created *)
(* or the lobby was cancelled meanwhile, the new worker is closed again.    *)
Activate ==
  /\ job.pc = "spawned"
  /\ \/ /\ status = "lobby"
        /\ status' = "active"
        /\ bundle' = pinned
        /\ clock' = StartClock
        /\ worker' = "up" /\ hist' = <<>> /\ idle' = FALSE
        /\ StartBotLoop
        /\ Goto("project")
     \/ /\ EndJob
        /\ UNCHANGED <<status, bundle, clock, worker, hist, idle, loop>>
  /\ UNCHANGED <<journal, result, pinned, plan, sweeping, shown, faults, restarts>>

(* The web process cancels the series of a lobby game: outside the queue. *)
CancelLobby ==
  /\ status = "lobby"
  /\ status' = "cancelled"
  /\ result' = [winner |-> NoSeat, reason |-> "cancelled"]
  /\ UNCHANGED <<journal, bundle, clock, pinned, memory, job, sweeping, shown, faults, restarts>>

(* Mutant: a ranked duel can be cancelled. *)
CancelAnyDuel ==
  /\ job = NoJob /\ status = "active"
  /\ status' = "cancelled"
  /\ result' = [winner |-> NoSeat, reason |-> "cancelled"]
  /\ clock' = NoClock
  /\ DisposeGame
  /\ UNCHANGED <<journal, bundle, pinned, job, sweeping, shown, faults, restarts>>

(* The organizer's cancel: a queue job without an await before its writes. *)
CancelDuel ==
  /\ job = NoJob
  /\ status = "active" /\ ~Ranked
  /\ status' = "cancelled"
  /\ result' = [winner |-> NoSeat, reason |-> "cancelled"]
  /\ clock' = NoClock
  /\ DisposeGame
  /\ UNCHANGED <<journal, bundle, pinned, job, sweeping, shown, faults, restarts>>

-----------------------------------------------------------------------------
(* Requests that enter the queue of a running duel                          *)

(* Answers to any prompt a human was ever shown. *)
ClientAnswers ==
  {[kind |-> "answer", seat |-> PromptSeat(UpTo(shown, n)),
    rev |-> Revision(UpTo(shown, n)), pid |-> PromptId(UpTo(shown, n)), arg |-> a] :
      n \in {m \in 0..Len(shown) : PromptSeat(UpTo(shown, m)) \in Humans}, a \in Answers}

Enter(op, pc, req) ==
  /\ job = NoJob /\ status = "active"
  /\ job' = [NoJob EXCEPT !.op = op, !.pc = pc, !.req = req]
  /\ UNCHANGED <<record, bundle, clock, pinned, memory, sweeping, shown, faults, restarts>>

EnterView == Enter("view", "recover", NoCmd)

EnterRespond == \E c \in ClientAnswers : Enter("respond", "recover", c)

EnterMode == \E s \in Humans, m \in Modes :
  Enter("mode", "recover", [NoCmd EXCEPT !.seat = s, !.arg = m])

EnterSurrender == \E s \in Humans :
  Enter("surrender", "recover", [NoCmd EXCEPT !.seat = s])

(* tick: dueClocks finds the duel; only "continue" needs no worker to settle. *)
EnterSweep ==
  /\ Overdue
  /\ Enter("sweep", IF TimeIsUp /\ Timeout = "continue" THEN "settle" ELSE "recover", NoCmd)

-----------------------------------------------------------------------------
(* recover                                                                  *)

(* A live worker: touch it and wake the bot loop. *)
RecoverLive ==
  /\ job.pc = "recover" /\ worker = "up"
  /\ idle' = FALSE
  /\ sweep' = IF sweep = "armed" THEN "off" ELSE sweep
  /\ StartBotLoop
  /\ Goto("settle")
  /\ UNCHANGED <<record, bundle, clock, pinned, worker, hist, plan, leaked, shown, faults, restarts>>

(* Mutant: the bots are not woken. *)
ReplayWithoutBots ==
  /\ job.pc = "recover"
  /\ worker' = "up" /\ hist' = journal /\ idle' = FALSE
  /\ sweep' = IF sweep = "armed" THEN "replaced" ELSE sweep
  /\ Goto("settle")
  /\ UNCHANGED <<record, bundle, clock, pinned, loop, plan, leaked, shown, faults, restarts>>

(* A fresh worker takes the saved commands and the place in the table. *)
ReplayJournal ==
  /\ job.pc = "recover"
  /\ worker' = "up" /\ hist' = journal /\ idle' = FALSE
  /\ sweep' = IF sweep = "armed" THEN "replaced" ELSE sweep
  /\ StartBotLoop
  /\ Goto("settle")
  /\ UNCHANGED <<record, bundle, clock, pinned, plan, leaked, shown, faults, restarts>>

(* Mutants: the engine data is not compared; the entry of a dead worker is  *)
(* taken for a live one.                                                    *)
RecoverOnAnyData == worker # "up" /\ ReplayJournal

RecoverMissingOnly == worker = "none" /\ bundle = pinned /\ ReplayJournal

(* No live worker: replay the journal on a fresh one. *)
RecoverReplay ==
  /\ worker # "up"
  /\ bundle = pinned /\ Replayable(journal)
  /\ ReplayJournal

(* Other engine data, or a journal that does not replay: give the duel up. *)
RecoverImpossible ==
  /\ job.pc = "recover" /\ worker # "up"
  /\ bundle # pinned \/ ~Replayable(journal)
  /\ Interrupted
  /\ worker' = "none" /\ hist' = <<>> /\ idle' = FALSE
  /\ EndJob
  /\ UNCHANGED <<journal, bundle, pinned, loop, plan, sweeping, shown, faults, restarts>>

(* The fresh worker dies during the replay, or its core does not come to    *)
(* rest: replaying once more would only repeat that.                        *)
RecoverFails ==
  /\ job.pc = "recover" /\ worker # "up"
  /\ faults < MaxFaults /\ faults' = faults + 1
  /\ \/ /\ worker' = "none" /\ hist' = <<>> /\ idle' = FALSE
        /\ UNCHANGED <<status, result, clock, loop, plan>>
     \/ Interrupted /\ DisposeGame
  /\ EndJob
  /\ UNCHANGED <<journal, bundle, pinned, sweeping, shown, restarts>>

-----------------------------------------------------------------------------
(* settleClock                                                              *)

(* The same job once its clock is settled: respond goes on to answer when   *)
(* it had already checked the move, the other requests read the duel anew.  *)
Settled(j) ==
  IF j.op = "respond" /\ j.hold # "none"
  THEN [j EXCEPT !.pc = "apply", !.cmd = j.req, !.why = "none", !.late = FALSE]
  ELSE IF j.op \in {"respond", "mode", "surrender"}
       THEN [j EXCEPT !.pc = "check", !.cmd = NoCmd, !.why = "none"]
  ELSE IF j.op = "view" THEN [j EXCEPT !.pc = "project", !.cmd = NoCmd, !.why = "none"]
  ELSE NoJob

(* Nothing is due, or the due clock is a bot's, which is driven instead. *)
SettleNothing ==
  /\ job.pc = "settle"
  /\ ~Overdue \/ (clock.seat \in Bots /\ worker = "up")
  /\ IF Overdue THEN StartBotLoop ELSE UNCHANGED loop
  /\ job' = Settled(job)
  /\ UNCHANGED <<record, bundle, clock, pinned, worker, hist, idle, plan, sweeping, shown, faults, restarts>>

SettleContinue ==
  /\ job.pc = "settle" /\ TimeIsUp /\ Timeout = "continue"
  /\ clock' = [clock EXCEPT !.state = "off", !.empty = @ \cup {clock.seat}]
  /\ job' = Settled(job)
  /\ UNCHANGED <<record, bundle, pinned, memory, sweeping, shown, faults, restarts>>

(* The worker died since recover. *)
SettleRecovers ==
  /\ job.pc = "settle" /\ worker # "up"
  /\ Overdue /\ (clock.seat \in Bots \/ Timeout = "loss")
  /\ job' = [job EXCEPT !.pc = "recover",
                        !.hold = IF @ = "none" THEN "none" ELSE "lost"]
  /\ UNCHANGED <<record, bundle, clock, pinned, memory, sweeping, shown, faults, restarts>>

(* Mutant: an empty bank always loses. *)
SettleLossAlways ==
  /\ job.pc = "settle" /\ TimeIsUp /\ worker = "up"
  /\ Forfeit(clock.seat, "time")
  /\ UNCHANGED <<record, bundle, clock, pinned, memory, sweeping, shown, faults, restarts>>

SettleLoss ==
  /\ job.pc = "settle" /\ TimeIsUp /\ Timeout = "loss" /\ worker = "up"
  /\ Forfeit(clock.seat, "time")
  /\ UNCHANGED <<record, bundle, clock, pinned, memory, sweeping, shown, faults, restarts>>

-----------------------------------------------------------------------------
(* respond, chain-mode and surrender: look at the duel and decide           *)

(* A job whose worker died under it fails; the entry stays until recover. *)
CheckNoWorker ==
  /\ job.pc = "check" /\ (worker # "up" \/ job.hold = "lost")
  /\ \/ job.op = "surrender" /\ ~Multi /\ DisposeGame
     \/ (job.op = "surrender" => Multi) /\ UNCHANGED memory
  /\ EndJob
  /\ UNCHANGED <<record, bundle, clock, pinned, sweeping, shown, faults, restarts>>

Deciding(op) == job.pc = "check" /\ job.op = op /\ worker = "up" /\ job.hold # "lost"

(* A move that is decided after the bank ran out settles the clock first. *)
SettleAgain == job.hold = "none" /\ TimeIsUp

(* Mutant: only the prompt of an answer is compared, not its revision. *)
CheckRespondByPrompt ==
  /\ Deciding("respond")
  /\ job' = IF ~Takes(hist, job.req) THEN NoJob
            ELSE IF SettleAgain THEN [job EXCEPT !.pc = "settle", !.hold = "live"]
            ELSE [job EXCEPT !.pc = "apply", !.cmd = job.req, !.hold = "live",
                             !.late = Overdue]
  /\ UNCHANGED <<record, bundle, clock, pinned, memory, sweeping, shown, faults, restarts>>

(* respond: the answer is for the open prompt at this revision, or stale. *)
CheckRespond ==
  /\ Deciding("respond")
  /\ job' = IF ~Legal(hist, job.req) THEN NoJob
            ELSE IF SettleAgain THEN [job EXCEPT !.pc = "settle", !.hold = "live"]
            ELSE [job EXCEPT !.pc = "apply", !.cmd = job.req, !.hold = "live",
                             !.late = Overdue]
  /\ UNCHANGED <<record, bundle, clock, pinned, memory, sweeping, shown, faults, restarts>>

(* Mutants: the revision after the change, and one too low. *)
ModeCommandAfter(s, m) ==
  [kind |-> "mode", seat |-> s, rev |-> Revision(hist) + 1, pid |-> 0, arg |-> m]

ModeCommandBefore(s, m) ==
  [kind |-> "mode", seat |-> s, rev |-> Revision(hist) - 1, pid |-> 0, arg |-> m]

(* The journal row of a response mode change. *)
ModeCommand(s, m) ==
  [kind |-> "mode", seat |-> s, rev |-> Revision(hist), pid |-> 0, arg |-> m]

(* setChainMode: a seat that left, or a full journal, is refused. *)
CheckMode ==
  /\ Deciding("mode")
  /\ LET s == job.req.seat
         m == job.req.arg
     IN job' = IF SettleAgain THEN [job EXCEPT !.pc = "settle", !.hold = "live"]
               ELSE IF Over(hist) \/ (s \notin Gone(hist) /\ ModeOf(hist, s) = m)
                    THEN [job EXCEPT !.pc = "project"]
               ELSE IF s \in Gone(hist) \/ ModeChanges(journal) >= ModeLimit THEN NoJob
               ELSE [job EXCEPT !.pc = "apply", !.cmd = ModeCommand(s, m),
                                !.late = job.hold = "none" /\ Overdue, !.hold = "live"]
  /\ UNCHANGED <<record, bundle, clock, pinned, memory, sweeping, shown, faults, restarts>>

CheckSurrender ==
  /\ Deciding("surrender")
  /\ IF Over(hist) \/ job.req.seat \in Gone(hist) THEN Goto("project")
     ELSE Forfeit(job.req.seat, "surrender")
  /\ UNCHANGED <<record, bundle, clock, pinned, memory, sweeping, shown, faults, restarts>>

-----------------------------------------------------------------------------
(* The move reaches the core, then the journal, then the players            *)

(* A departure is applied to the worker that settleClock recovered, a move  *)
(* to the one it was decided on.                                            *)
Applying == /\ job.pc = "apply" /\ worker = "up"
            /\ job.hold # "lost" \/ job.cmd.kind = "elim"

ApplyOk ==
  /\ Applying /\ Takes(hist, job.cmd)
  /\ hist' = Append(hist, job.cmd)
  /\ job' = [job EXCEPT !.pc = "journal",
                        !.late = IF job.cmd.kind = "elim" THEN Overdue ELSE @]
  /\ UNCHANGED <<record, bundle, clock, pinned, worker, idle, loop, plan, sweeping, shown, faults, restarts>>

(* The core refuses the choice and stays as it was; a refused bot ends the  *)
(* table, a refused mode change may already be set.                         *)
ApplyRejected ==
  /\ Applying
  /\ job.cmd.kind = "answer" \/ ~Takes(hist, job.cmd)
  /\ CASE job.op = "act" -> Interrupted /\ DisposeGame
       [] job.cmd.kind = "mode" -> DisposeGame /\ UNCHANGED <<status, result, clock>>
       [] OTHER -> UNCHANGED <<memory, status, result, clock>>
  /\ EndJob
  /\ UNCHANGED <<journal, bundle, pinned, sweeping, shown, faults, restarts>>

(* The core does not come to rest: replaying the move would only repeat it. *)
ApplyLoops ==
  /\ Applying
  /\ faults < MaxFaults /\ faults' = faults + 1
  /\ Interrupted
  /\ DisposeGame
  /\ EndJob
  /\ UNCHANGED <<journal, bundle, pinned, sweeping, shown, restarts>>

(* The worker is gone, or fails in a way that may have advanced the core. *)
ApplyFatal ==
  /\ job.pc = "apply"
  /\ \/ /\ IF Applying THEN faults < MaxFaults /\ faults' = faults + 1 ELSE UNCHANGED faults
        /\ DisposeGame
     \/ /\ job.cmd.kind = "elim" /\ ~Applying
        /\ UNCHANGED <<memory, faults>>
  /\ EndJob
  /\ UNCHANGED <<record, bundle, clock, pinned, sweeping, shown, restarts>>

(* Mutant: every mode change is taken for a private one. *)
QuietMode == job.cmd.kind = "mode"

(* A mode change that passed no window is private and leaves the clock.  *)
Quiet == ~Bumps(journal, job.cmd)

(* recordCommand: row and clock in one transaction. *)
JournalOk ==
  /\ job.pc = "journal" /\ (worker = "up" \/ Quiet)
  /\ journal' = Append(journal, job.cmd)
  /\ IF Quiet THEN UNCHANGED clock ELSE clock' \in SyncClock(journal', job.late, job.cmd.seat)
  /\ Goto("reply")
  /\ UNCHANGED <<status, result, bundle, pinned, memory, sweeping, shown, faults, restarts>>

(* Mutant: the worker survives a failed write. *)
JournalFailsOnly ==
  /\ job.pc = "journal"
  /\ IF worker = "up" THEN faults < MaxFaults /\ faults' = faults + 1 ELSE UNCHANGED faults
  /\ EndJob
  /\ UNCHANGED <<record, bundle, clock, pinned, memory, sweeping, shown, restarts>>

(* Applied but not journaled: drop the worker. *)
JournalFails ==
  /\ job.pc = "journal"
  /\ IF worker = "up" THEN faults < MaxFaults /\ faults' = faults + 1 ELSE UNCHANGED faults
  /\ DisposeGame
  /\ EndJob
  /\ UNCHANGED <<record, bundle, clock, pinned, sweeping, shown, restarts>>

(* After an answer or a passing mode: wake the bots, then show the room.    *)
ReplyMove ==
  /\ job.pc = "reply" /\ job.cmd.kind # "elim" /\ job.op # "act"
  /\ StartBotLoop
  /\ Goto("project")
  /\ UNCHANGED <<record, bundle, clock, pinned, worker, hist, idle, plan, sweeping, shown, faults, restarts>>

(* After a bot's answer the loop plans its next step. *)
ReplyBot ==
  /\ job.pc = "reply" /\ job.op = "act"
  /\ loop' = "plan" /\ plan' = NoCmd
  /\ EndJob
  /\ UNCHANGED <<record, bundle, clock, pinned, worker, hist, idle, sweeping, shown, faults, restarts>>

LastStanding == Over(hist) \/ (job.why = "time" /\ Cardinality(Living(hist)) = 1)

(* After a departure: the last duelist standing ends the duel; otherwise    *)
(* the request that settled the clock goes on.                              *)
ReplyDeparture ==
  /\ job.pc = "reply" /\ job.cmd.kind = "elim"
  /\ IF worker # "up" THEN EndJob /\ UNCHANGED loop
     ELSE IF LastStanding THEN Goto("finish") /\ UNCHANGED loop
     ELSE /\ StartBotLoop
          /\ job' = IF job.why = "time" THEN Settled(job)
                    ELSE [job EXCEPT !.pc = "project"]
  /\ UNCHANGED <<record, bundle, clock, pinned, worker, hist, idle, plan, sweeping, shown, faults, restarts>>

(* project: show the room; a core that reports a result ends the duel. *)
Project ==
  /\ job.pc = "project"
  /\ IF worker = "up" /\ Over(hist)
     THEN job' = [job EXCEPT !.pc = "finish", !.why = "play"] /\ UNCHANGED <<memory, shown>>
     ELSE /\ shown' = IF worker = "up" THEN hist ELSE shown
          /\ \/ UNCHANGED memory
             \/ worker # "up" /\ job.op \in {"respond", "mode"} /\ DisposeGame
          /\ EndJob
  /\ UNCHANGED <<record, bundle, clock, pinned, sweeping, faults, restarts>>

WinnerOf(why, s) ==
  IF why = "play" THEN Verdict(hist)
  ELSE IF ~Multi THEN CHOOSE w \in Seats : w # s
  ELSE IF Over(hist) THEN Verdict(hist) ELSE CHOOSE w \in Seats : w \in Living(hist)

(* persistComplete: snapshot the boards, then record the result. *)
Finish ==
  /\ job.pc = "finish" /\ worker = "up"
  /\ status' = "completed"
  /\ result' = [winner |-> WinnerOf(job.why, job.cmd.seat), reason |-> job.why]
  /\ clock' = NoClock
  /\ shown' = hist
  /\ DisposeGame
  /\ EndJob
  /\ UNCHANGED <<journal, bundle, pinned, sweeping, faults, restarts>>

FinishFails ==
  /\ job.pc = "finish"
  /\ IF worker = "up"
     THEN faults < MaxFaults /\ faults' = faults + 1 /\ (DisposeGame \/ UNCHANGED memory)
     ELSE DisposeGame /\ UNCHANGED faults
  /\ EndJob
  /\ UNCHANGED <<record, bundle, clock, pinned, sweeping, shown, restarts>>

-----------------------------------------------------------------------------
(* The bot loop: plan inside the queue, pause outside it, act inside it     *)

(* Mutant: a loop that ends stays registered. *)
StopLoopRegistered == loop' = "stopped" /\ plan' = NoCmd /\ UNCHANGED <<worker, hist, idle>>

StopLoop == loop' = "none" /\ plan' = NoCmd /\ UNCHANGED <<worker, hist, idle>>

BotAnswer(a) == [kind |-> "answer", seat |-> PromptSeat(hist),
                 rev |-> Revision(hist), pid |-> PromptId(hist), arg |-> a]

(* A bot that finds no legal answer, or plays past its limits, interrupts   *)
(* the table; a worker that dies while it is asked is dropped.              *)
Plan ==
  /\ job = NoJob /\ loop = "plan"
  /\ LET asked == status = "active" /\ worker = "up" IN
       \/ ~asked /\ (StopLoop \/ (worker = "down" /\ DisposeGame))
                 /\ UNCHANGED <<status, result, clock, job>>
       \/ asked /\ Over(hist) /\ StopLoop
                /\ job' = [NoJob EXCEPT !.op = "plan", !.pc = "finish", !.why = "play"]
                /\ UNCHANGED <<status, result, clock>>
       \/ asked /\ ~Over(hist) /\ PromptSeat(hist) \notin Bots /\ StopLoop
                /\ UNCHANGED <<status, result, clock, job>>
       \/ asked /\ PromptSeat(hist) \in Bots
                /\ loop' = "sleep"
                /\ \E a \in Answers : plan' = BotAnswer(a)
                /\ UNCHANGED <<worker, hist, idle, status, result, clock, job>>
       \/ asked /\ PromptSeat(hist) \in Bots /\ Interrupted /\ DisposeGame
                /\ UNCHANGED job
  /\ UNCHANGED <<journal, bundle, pinned, sweeping, shown, faults, restarts>>

(* Mutant: a loop whose plan went stale gives up. *)
ActOrStop ==
  /\ job = NoJob /\ loop = "sleep"
  /\ IF status = "active" /\ worker = "up" /\ Legal(hist, plan)
     THEN /\ job' = [NoJob EXCEPT !.op = "act", !.pc = "apply", !.cmd = plan]
          /\ UNCHANGED memory
     ELSE StopLoop /\ UNCHANGED job
  /\ UNCHANGED <<record, bundle, clock, pinned, sweeping, shown, faults, restarts>>

(* The pause is over: act only if the duel is where the plan left it. *)
Act ==
  /\ job = NoJob /\ loop = "sleep"
  /\ IF status # "active" \/ worker # "up"
     THEN UNCHANGED job /\ (StopLoop \/ (worker = "down" /\ DisposeGame))
     ELSE /\ IF Legal(hist, plan)
             THEN /\ job' = [NoJob EXCEPT !.op = "act", !.pc = "apply",
                                          !.cmd = plan, !.late = Overdue]
                  /\ UNCHANGED <<loop, plan>>
             ELSE loop' = "plan" /\ plan' = NoCmd /\ UNCHANGED job
          /\ UNCHANGED <<worker, hist, idle>>
  /\ UNCHANGED <<record, bundle, clock, pinned, sweeping, shown, faults, restarts>>

-----------------------------------------------------------------------------
(* Time, crashes and the idle sweep                                         *)

TimeUp ==
  /\ status = "active" /\ clock.state = "run"
  /\ clock' = [clock EXCEPT !.state = "due"]
  /\ UNCHANGED <<record, bundle, pinned, memory, job, sweeping, shown, faults, restarts>>

WorkerCrash ==
  /\ worker = "up"
  /\ faults < MaxFaults /\ faults' = faults + 1
  /\ worker' = "down" /\ hist' = <<>>
  /\ UNCHANGED <<record, bundle, clock, pinned, idle, loop, plan, job, sweeping, shown, restarts>>

(* Everything in memory is lost; a deployment may bring other engine data. *)
HostCrash ==
  /\ restarts < MaxRestarts /\ restarts' = restarts + 1
  /\ pinned' \in Bundles
  /\ DisposeGame
  /\ EndJob
  /\ sweep' = "off" /\ leaked' = 0
  /\ UNCHANGED <<record, bundle, clock, shown, faults>>

NoRequests ==
  /\ job = NoJob /\ worker # "none" /\ ~idle
  /\ idle' = TRUE
  /\ UNCHANGED <<record, bundle, clock, pinned, worker, hist, loop, plan, job, sweeping, shown, faults, restarts>>

(* The sweep reaches this entry first: it checks and drops it in one step. *)
Reclaim ==
  /\ ~SweepYields
  /\ job = NoJob /\ worker # "none" /\ idle
  /\ DisposeGame
  /\ UNCHANGED <<record, bundle, clock, pinned, job, sweeping, shown, faults, restarts>>

(* The sweep copies the table and waits for an earlier duel's worker to     *)
(* close before it comes to this entry.                                     *)
SweepBegin ==
  /\ SweepYields
  /\ sweep = "off" /\ worker # "none" /\ idle
  /\ sweep' = "armed"
  /\ UNCHANGED <<record, bundle, clock, pinned, memory, job, leaked, shown, faults, restarts>>

(* It deletes the duel's entry and closes the worker it copied. *)
SweepVisit ==
  /\ sweep # "off" /\ sweep' = "off"
  /\ IF job = NoJob
     THEN /\ DisposeGame
          /\ leaked' = leaked + (IF sweep = "replaced" /\ worker = "up" THEN 1 ELSE 0)
     ELSE UNCHANGED <<memory, leaked>>
  /\ UNCHANGED <<record, bundle, clock, pinned, job, shown, faults, restarts>>

-----------------------------------------------------------------------------
Recover == RecoverLive \/ RecoverReplay \/ RecoverImpossible \/ RecoverFails

Settle == SettleNothing \/ SettleContinue \/ SettleRecovers \/ SettleLoss

Check == CheckNoWorker \/ CheckRespond \/ CheckMode \/ CheckSurrender

Apply == ApplyOk \/ ApplyRejected \/ ApplyLoops \/ ApplyFatal

Record == JournalOk \/ JournalFails

Reply == ReplyMove \/ ReplyBot \/ ReplyDeparture

Step == Activate \/ Recover \/ Settle \/ Check \/ Apply \/ Record \/ Reply
        \/ Project \/ Finish \/ FinishFails

Requests == StartGame \/ CancelLobby \/ CancelDuel \/ EnterView \/ EnterRespond
            \/ EnterMode \/ EnterSurrender

Faults == WorkerCrash \/ HostCrash

Sweeping == NoRequests \/ Reclaim \/ SweepBegin \/ SweepVisit

Next == Requests \/ EnterSweep \/ Step \/ Plan \/ Act \/ TimeUp \/ Faults \/ Sweeping

Spec == Init /\ [][Next]_vars

(* A job that runs is carried on; the clock sweep comes round every poll    *)
(* interval, players keep their room open, and the queue is first come,     *)
(* first served, so none of them waits for ever behind the others.          *)
FairSpec == Spec /\ WF_vars(Step) /\ SF_vars(EnterView) /\ SF_vars(EnterSweep)
                 /\ SF_vars(Plan) /\ SF_vars(Act)
-----------------------------------------------------------------------------
(* What must hold                                                           *)

Reasons == {"none", "play", "time", "surrender"}

Request == Command \cup [kind : {"none"}, seat : Seats \cup {NoSeat}, rev : {0},
                         pid : {0}, arg : Modes \cup {"none"}]

Job == [op : {"none", "start", "view", "respond", "mode", "surrender", "sweep", "plan", "act"},
        pc : {"idle", "spawned", "recover", "settle", "check", "apply",
              "journal", "reply", "project", "finish"},
        req : Request, cmd : Command \cup {NoCmd}, why : Reasons,
        hold : {"none", "live", "lost"}, late : BOOLEAN]

Clock == [seat : Seats \cup {NoSeat}, state : {"off", "run", "due"}, empty : SUBSET Seats]

RowOK ==
  /\ status \in {"lobby", "active", "completed", "interrupted", "cancelled"}
  /\ journal \in Seq(Command)
  /\ result \in [winner : Seats \cup {NoSeat}, reason : Reasons \cup {"interrupted", "cancelled"}]
  /\ bundle \in Bundles
  /\ clock \in Clock

MemoryOK ==
  /\ worker \in {"none", "up", "down"}
  /\ hist \in Seq(Command)
  /\ idle \in BOOLEAN
  /\ loop \in {"none", "plan", "sleep"}
  /\ plan \in Command \cup {NoCmd}

RestOK ==
  /\ pinned \in Bundles
  /\ sweep \in {"off", "armed", "replaced"} /\ leaked \in Nat
  /\ shown \in Seq(Command)
  /\ faults \in Nat /\ restarts \in Nat

TypeOK == RowOK /\ MemoryOK /\ job \in Job /\ RestOK

(* The live core has taken exactly the journal, plus the one command that   *)
(* the running job is about to write: a worker that ran ahead of a failed   *)
(* write, or missed a row, never survives to take another request.          *)
WorkerMatchesJournal ==
  worker = "up" => hist = IF job.pc = "journal" THEN Append(journal, job.cmd) ELSE journal

(* Every saved duel can be replayed: each row carries the revision the duel *)
(* had before it, also when a departure slips in between check and answer.  *)
JournalReplays == Replayable(journal)

(* No player ever saw a board that a crash takes back. *)
ShownIsDurable == Len(shown) <= Len(journal) /\ shown = UpTo(journal, Len(shown))

(* A live table that waits for a bot has a loop that will move for it: also *)
(* for a bot that is left alone while a chain keeps the duel from its end,  *)
(* and after the result of a loss on time could not be recorded.            *)
BotIsDriven ==
  job = NoJob /\ status = "active" /\ worker = "up" /\ PromptSeat(hist) \in Bots
    => loop # "none"

(* The running clock is the clock of the seat the duel waits for; only an   *)
(* expired clock of a bot may outlive the bot's move.                       *)
ClockOnPrompt ==
  /\ clock.state = "run" => clock.seat = PromptSeat(journal)
  /\ clock.state = "due" => clock.seat \in Bots \cup {PromptSeat(journal)}

(* A duel only ever runs on the engine data it was started with. *)
RunsOnPinnedData == worker = "up" => bundle = pinned

(* At most one thread holds the duel: every running worker is the one the   *)
(* table knows.                                                             *)
OneWorkerPerDuel == leaked = 0

(* In a table where an empty bank loses, the player with the pending prompt *)
(* is the one who is charged.                                               *)
PromptOwnerIsCharged ==
  Timeout = "loss" /\ status = "active" => clock.seat = PromptSeat(journal)

(* A table where an empty bank loses never stops its clock while a seat is  *)
(* asked: that would let the seat take for ever.                            *)
LossClockNeverStands ==
  Timeout = "loss" /\ status = "active" /\ ~Over(journal) => clock.state # "off"

(* A seat loses on time only when the bank of that very seat is empty and   *)
(* the duel still waits for it, and it never wins that way.                 *)
SeatRemoved == journal' # journal /\ job.cmd.kind = "elim" /\ job.why = "time"

TimeDecided == status' # status /\ result'.reason = "time"

TimeLossIsOwn ==
  [][/\ SeatRemoved \/ (TimeDecided /\ ~Multi)
          => clock.seat = job.cmd.seat /\ clock.state = "due"
             /\ PromptSeat(journal) = job.cmd.seat
     /\ TimeDecided => result'.winner # job.cmd.seat]_vars

(* The host implements what the players are promised. *)
Abstract == INSTANCE DuelRecord WITH status <- status, journal <- journal, result <- result

Implements == Abstract!Spec

(* The bank of a human runs out: the clock is settled or the duel ends. *)
OverdueIsSettled == status = "active" /\ TimeIsUp ~> status # "active" \/ ~TimeIsUp

(* A bot that is asked to move moves, or the table ends. *)
BotToMove == status = "active" /\ PromptSeat(journal) \in Bots

BotMoves == []<>~BotToMove

(* A duel the core has decided is recorded as ended. *)
ResultIsRecorded == status = "active" /\ Over(journal) ~> status # "active"
=============================================================================
