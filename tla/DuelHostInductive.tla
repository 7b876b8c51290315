-------------------------- MODULE DuelHostInductive --------------------------
(***************************************************************************)
(* The inductive invariant behind the safety properties of DuelHost: what a *)
(* job knows at each of its steps about the duel it is about to change.     *)
(***************************************************************************)
EXTENDS DuelHost

(* What the host may rely on: switching a response mode without passing a   *)
(* window does not move the prompt.                                         *)
QuietModesKeepPrompt ==
  \A h \in Seq(Command), c \in Command :
    ~Bumps(h, c) => PromptSeat(Append(h, c)) = PromptSeat(h)

(* What the core promises of a seat that has left: it never wins (the fuzz  *)
(* check of the core, tests/fuzz-n/invariants.ts:344, looks for this).      *)
DepartedNeverWin == \A h \in Seq(Command) : Replayable(h) => Winner(h) \notin Gone(h)

(* A request and a planned bot step name a seat that may make them. *)
RequestIsMade ==
  /\ job.op = "respond" => job.req \in Command /\ job.req.kind = "answer"
  /\ job.op = "mode" => job.req.seat \in Humans /\ job.req.arg \in Modes
  /\ job.op = "surrender" => job.req.seat \in Humans
  /\ loop = "sleep" => plan \in Command /\ plan.kind = "answer" /\ plan.seat \in Bots

(* A job that is about to change the core, the journal or the outcome has   *)
(* made up its mind about the row, or about who forfeits and why.           *)
Changing == {"apply", "journal", "reply"}

CommandIsMade ==
  /\ job.pc \in Changing =>
       /\ job.cmd \in Command
       /\ job.cmd.kind = "elim" =>
            Multi /\ job.why = job.cmd.arg /\ job.cmd.seat \in Humans
  /\ job.pc = "finish" /\ job.why # "play" =>
       /\ job.why \in {"time", "surrender"}
       /\ job.cmd \in Command /\ job.cmd.seat \in Humans
  /\ job.why = "time" => Timeout = "loss"

(* Only a running duel is worked on, and a lobby has no journal. *)
JobOfActive ==
  /\ job.pc \notin {"idle", "spawned"} => status = "active"
  /\ status = "lobby" => journal = <<>>

(* A forfeiting seat has left the core; a duel is finished when the core    *)
(* reports a result or, on time, when one seat is left.                     *)
FinishIsDue ==
  worker = "up" =>
    /\ job.pc \in {"journal", "reply"} /\ job.cmd.kind = "elim" => job.cmd.seat \in Gone(hist)
    /\ job.pc = "finish" /\ job.why = "play" => Over(hist)
    /\ job.pc = "finish" /\ job.why # "play" /\ Multi => job.cmd.seat \in Gone(hist) /\ LastStanding

(* A running clock is some seat's; a deadline that the running move may     *)
(* keep has not been touched, and is the deadline of a bot.                 *)
ClockHasSeat == clock.state # "off" => clock.seat \in Seats

LateIsDue ==
  job.late /\ (job.pc = "journal" \/ (job.pc = "apply" /\ job.cmd.kind # "elim"))
    => clock.state = "due"

LateIsABots ==
  job.late /\ job.pc \in {"apply", "journal"} /\ job.cmd.kind # "elim"
    => clock.seat \in Bots

(* What was checked of a move still holds when the core takes it, although  *)
(* the settled clock may have removed a seat in between: the only seat it   *)
(* can remove is the one that wanted to answer.                             *)
MoveIsCurrent ==
  /\ job.op = "respond" /\ job.pc = "check" => job.hold = "none"
  /\ job.pc = "recover" => job.hold # "live"
  /\ job.op = "respond" /\ job.hold = "live" /\ worker = "up" =>
       /\ job.pc = "settle" => Legal(hist, job.req)
       /\ job.pc = "apply" /\ job.cmd.kind = "elim" => job.cmd.seat = job.req.seat
       /\ job.pc \in {"journal", "reply"} /\ job.cmd.kind = "elim" => job.req.seat \in Gone(hist)
  /\ Applying => \/ job.cmd.rev = Revision(hist)
                 \/ job.cmd.kind = "answer" /\ job.cmd.seat \in Gone(hist)
  /\ job.pc = "journal" => Legal(journal, job.cmd)

(* A forfeit on time is on its way to the core or the row only while the    *)
(* bank that has run out is the one of the seat it removes.                 *)
TimeIsCharged ==
  job.why = "time" =>
    /\ job.pc \in {"apply", "journal", "reply", "finish"} /\ job.cmd.kind = "elim"
    /\ job.pc \in {"apply", "journal"} \/ (job.pc = "finish" /\ ~Multi) =>
         clock.seat = job.cmd.seat /\ clock.state = "due"

(* A duel that has not ended has no result. *)
OpenHasNoResult == status \in {"lobby", "active"} => result = NoResult

(* Where a job may find the bots asleep: before recover has woken them, in  *)
(* a sweep that only stops a clock, and when the loop itself ends the duel. *)
BeforeWake ==
  \/ job.pc \in {"idle", "spawned", "recover"}
  \/ job.op = "sweep" /\ job.pc = "settle" /\ Timeout = "continue"
  \/ job.op = "plan" /\ job.pc = "finish"

(* The bots of a running table sleep only there, and no bot is asked. *)
LoopIsAwake ==
  status = "active" /\ worker = "up" /\ loop = "none" /\ Bots # {}
    => BeforeWake /\ PromptSeat(hist) \notin Bots

Typed == TypeOK /\ RequestIsMade /\ CommandIsMade /\ JobOfActive /\ FinishIsDue
         /\ ClockHasSeat /\ LateIsDue

(* The inductive invariant. *)
Inductive == /\ Typed /\ WorkerMatchesJournal /\ ShownIsDurable /\ RunsOnPinnedData
             /\ ClockOnPrompt /\ LateIsABots /\ MoveIsCurrent /\ JournalReplays
=============================================================================
