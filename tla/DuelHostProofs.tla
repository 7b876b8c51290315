--------------------------- MODULE DuelHostProofs ---------------------------
(***************************************************************************)
(* Proofs about DuelHost for every duel: any number of seats and bots, any  *)
(* rules of the game, any number of faults, restarts and prompts.  First    *)
(* the types; on top of them what is durable and what is current, that the  *)
(* host implements DuelRecord, that a bot that is asked is driven, and that *)
(* nobody but the seat whose time is up loses on time.                      *)
(***************************************************************************)
EXTENDS DuelHostInductive, FiniteSetTheorems, TLAPS

(* A prefix of a command sequence is one. *)
LEMMA PrefixType ==
  ASSUME NEW h \in Seq(Command), NEW n \in 0..Len(h)
  PROVE  UpTo(h, n) \in Seq(Command) /\ Len(UpTo(h, n)) = n
BY DEF UpTo

(* Revisions and prompt ids are counted from 0. *)
LEMMA CountersAreNat ==
  ASSUME NEW h \in Seq(Command)
  PROVE  Revision(h) \in Nat /\ PromptId(h) \in Nat
<1>1. IsFiniteSet(DOMAIN h)
  <2>1. DOMAIN h = 1..Len(h) /\ Len(h) \in Nat
    OBVIOUS
  <2> QED BY <2>1, FS_Interval
<1>2. \A S \in SUBSET DOMAIN h : Cardinality(S) \in Nat
  BY <1>1, FS_Subset, FS_CardinalityType
<1>3. {i \in DOMAIN h : Bumps(UpTo(h, i - 1), h[i])} \in SUBSET DOMAIN h
  OBVIOUS
<1>4. {i \in DOMAIN h : h[i].kind # "elim" /\ Bumps(UpTo(h, i - 1), h[i])} \in SUBSET DOMAIN h
  OBVIOUS
<1> QED BY <1>2, <1>3, <1>4 DEF Revision, PromptId

(* A departure that the core has taken leaves the seat among the gone. *)
LEMMA DepartureIsGone ==
  ASSUME NEW h \in Seq(Command), NEW c \in Command, c.kind = "elim"
  PROVE  c.seat \in Gone(Append(h, c))
<1>1. /\ Len(h) + 1 \in DOMAIN Append(h, c)
      /\ Append(h, c)[Len(h) + 1] = c
  OBVIOUS
<1> QED BY <1>1 DEF Gone

(* In a two-seat duel there is an opponent. *)
LEMMA Opponent ==
  ASSUME ~Multi, NEW s \in Seats
  PROVE  \E w \in Seats : w # s
<1> SUFFICES ASSUME \A w \in Seats : w = s PROVE FALSE
  OBVIOUS
<1>1. Seats = {s}
  OBVIOUS
<1>2. Cardinality(Seats) = 1
  BY <1>1, FS_Singleton
<1> QED BY <1>2, HostAssumption DEF HostAssumption

(* When one seat is left, it is a seat of the table. *)
LEMMA LastSeat ==
  ASSUME NEW h \in Seq(Command), Cardinality(Living(h)) = 1
  PROVE  \E w \in Seats : w \in Living(h)
<1>1. IsFiniteSet(Living(h))
  BY EngineAssumption, FS_Subset DEF EngineAssumption, Living
<1>2. PICK w : Living(h) = {w}
  BY <1>1, FS_Singleton
<1> QED BY <1>2 DEF Living

-----------------------------------------------------------------------------
(* Type correctness                                                         *)

LEMMA NoJobType == NoJob \in Job /\ NoCmd \in Request
<1>1. NoCmd \in Request
  BY DEF NoCmd, Request
<1> QED BY <1>1 DEF NoJob, Job, Reasons

LEMMA NoCommands == <<>> \in Seq(Command)
OBVIOUS

LEMMA NoClockType == NoClock \in Clock
BY DEF NoClock, Clock

LEMMA InitTyped == Init => Typed
<1> SUFFICES ASSUME Init PROVE Typed
  OBVIOUS
<1>1. RowOK
  BY NoClockType DEF Init, RowOK, NoResult, Reasons
<1>2. MemoryOK
  <2>1. idle \in BOOLEAN
    BY DEF Init
  <2> QED BY <2>1 DEF Init, MemoryOK
<1>5. RestOK
  BY DEF Init, RestOK
<1>3. RequestIsMade /\ CommandIsMade /\ JobOfActive /\ FinishIsDue
  BY DEF Init, NoJob, RequestIsMade, CommandIsMade, JobOfActive, FinishIsDue, Changing
<1>4. ClockHasSeat /\ LateIsDue
  BY DEF Init, NoClock, NoJob, ClockHasSeat, LateIsDue
<1> QED BY <1>1, <1>2, <1>3, <1>4, <1>5, NoJobType DEF Init, Typed, TypeOK

(* The clock of the prompted seat. *)
LEMMA ClockForType ==
  ASSUME NEW h, NEW empty \in SUBSET Seats
  PROVE  /\ ClockFor(h, empty) \in Clock
         /\ ClockFor(h, empty).state \in {"off", "run"}
         /\ ClockFor(h, empty).state = "run" => ClockFor(h, empty).seat = PromptSeat(h)
         /\ ClockFor(h, empty).state = "run" => ClockFor(h, empty).seat \in Seats
<1>1. PromptSeat(h) \in Seats \cup {NoSeat}
  BY DEF PromptSeat, Living
<1> QED BY <1>1 DEF ClockFor, NoClock, Clock, Over

LEMMA SyncClockType ==
  ASSUME clock \in Clock, NEW h, NEW overdue \in BOOLEAN, NEW decider,
         overdue => clock.seat \in Seats,
         NEW c \in SyncClock(h, overdue, decider)
  PROVE  /\ c \in Clock
         /\ c = clock \/ (c.state = "run" => c.seat \in Seats)
         /\ c = clock \/ c.state \in {"off", "run"}
<1>1. CASE c = clock
  BY <1>1
<1>2. CASE c # clock
  <2>1. PICK empty \in {{}, clock.empty \cup (IF overdue THEN {clock.seat} ELSE {})} :
           c = ClockFor(h, empty)
    BY <1>2 DEF SyncClock
  <2>2. empty \in SUBSET Seats
    BY DEF Clock
  <2> QED BY <2>1, <2>2, ClockForType
<1> QED BY <1>1, <1>2

LEMMA VerdictType ==
  ASSUME NEW h PROVE Verdict(h) \in Seats \cup {NoSeat}
BY DEF Verdict

LEMMA WinnerType ==
  ASSUME Typed, job.pc = "finish", worker = "up"
  PROVE  WinnerOf(job.why, job.cmd.seat) \in Seats \cup {NoSeat}
<1>1. CASE job.why = "play" \/ (Multi /\ Over(hist))
  BY <1>1, VerdictType DEF WinnerOf
<1>2. CASE job.why # "play" /\ ~Multi
  <2>1. job.cmd.seat \in Seats
    BY <1>2 DEF Typed, CommandIsMade, Humans
  <2> QED BY <1>2, <2>1, Opponent DEF WinnerOf
<1>3. CASE job.why # "play" /\ Multi /\ ~Over(hist)
  <2>1. Cardinality(Living(hist)) = 1
    BY <1>3 DEF Typed, FinishIsDue, LastStanding
  <2>2. hist \in Seq(Command)
    BY DEF Typed, TypeOK, MemoryOK
  <2> QED BY <1>3, <2>1, <2>2, LastSeat DEF WinnerOf
<1> QED BY <1>1, <1>2, <1>3

(* Actions that leave the memory of the process alone, or drop all of it.   *)
KeepsMemory == StartGame \/ CancelLobby \/ EnterView \/ EnterRespond \/ EnterMode
               \/ EnterSurrender \/ EnterSweep \/ SettleContinue \/ SettleRecovers
               \/ SettleLoss \/ CheckRespond \/ CheckMode \/ CheckSurrender
               \/ JournalOk \/ TimeUp \/ SweepBegin

DropsMemory == CancelDuel \/ CheckNoWorker \/ ApplyRejected \/ ApplyLoops \/ ApplyFatal
               \/ JournalFails \/ Project \/ Finish \/ FinishFails \/ HostCrash
               \/ Reclaim \/ SweepVisit

LEMMA MemoryIsKept == ASSUME KeepsMemory PROVE UNCHANGED memory
<1>1. CASE StartGame \/ CancelLobby \/ TimeUp \/ SweepBegin \/ JournalOk
  BY <1>1 DEF StartGame, CancelLobby, TimeUp, SweepBegin, JournalOk
<1>2. CASE EnterView \/ EnterRespond \/ EnterMode \/ EnterSurrender \/ EnterSweep
  BY <1>2 DEF EnterView, EnterRespond, EnterMode, EnterSurrender, EnterSweep, Enter
<1>3. CASE SettleContinue \/ SettleRecovers \/ SettleLoss
  BY <1>3 DEF SettleContinue, SettleRecovers, SettleLoss
<1>4. CASE CheckRespond \/ CheckMode \/ CheckSurrender
  BY <1>4 DEF CheckRespond, CheckMode, CheckSurrender
<1> QED BY <1>1, <1>2, <1>3, <1>4 DEF KeepsMemory

LEMMA MemoryIsDropped == ASSUME DropsMemory PROVE UNCHANGED memory \/ DisposeGame
<1>1. CASE CancelDuel \/ CheckNoWorker \/ ApplyLoops \/ JournalFails \/ HostCrash \/ Reclaim
  BY <1>1 DEF CancelDuel, CheckNoWorker, ApplyLoops, JournalFails, HostCrash, Reclaim
<1>2. CASE ApplyRejected
  BY <1>2 DEF ApplyRejected, memory
<1>3. CASE ApplyFatal
  BY <1>3 DEF ApplyFatal, memory
<1>4. CASE Project
  BY <1>4 DEF Project
<1>5. CASE Finish \/ FinishFails
  BY <1>5 DEF Finish, FinishFails
<1>6. CASE SweepVisit
  BY <1>6 DEF SweepVisit, memory
<1> QED BY <1>1, <1>2, <1>3, <1>4, <1>5, <1>6 DEF DropsMemory

LEMMA DisposeType == ASSUME DisposeGame PROVE MemoryOK'
<1>1. idle' \in BOOLEAN
  BY DEF DisposeGame
<1> QED BY <1>1 DEF DisposeGame, MemoryOK

(* Actions that leave the saved row alone. *)
KeepsRow == StartGame \/ EnterView \/ EnterRespond \/ EnterMode \/ EnterSurrender
            \/ EnterSweep \/ RecoverLive \/ RecoverReplay \/ SettleNothing
            \/ SettleRecovers \/ SettleLoss \/ CheckNoWorker \/ CheckRespond
            \/ CheckMode \/ CheckSurrender \/ ApplyOk \/ ApplyFatal \/ JournalFails
            \/ ReplyMove \/ ReplyBot \/ ReplyDeparture \/ Project \/ FinishFails
            \/ Act \/ WorkerCrash \/ HostCrash \/ NoRequests \/ Reclaim
            \/ SweepBegin \/ SweepVisit

LEMMA RowIsKept == ASSUME KeepsRow PROVE UNCHANGED <<record, bundle, clock>>
<1>1. CASE StartGame \/ EnterView \/ EnterRespond \/ EnterMode \/ EnterSurrender \/ EnterSweep
  BY <1>1 DEF StartGame, EnterView, EnterRespond, EnterMode, EnterSurrender, EnterSweep, Enter
<1>2. CASE RecoverLive \/ RecoverReplay \/ SettleNothing \/ SettleRecovers \/ SettleLoss
  BY <1>2 DEF RecoverLive, RecoverReplay, ReplayJournal, SettleNothing, SettleRecovers, SettleLoss
<1>3. CASE CheckNoWorker \/ CheckRespond \/ CheckMode \/ CheckSurrender \/ ApplyOk \/ ApplyFatal
  BY <1>3 DEF CheckNoWorker, CheckRespond, CheckMode, CheckSurrender, ApplyOk, ApplyFatal
<1>4. CASE JournalFails \/ ReplyMove \/ ReplyBot \/ ReplyDeparture \/ Project \/ FinishFails
  BY <1>4 DEF JournalFails, ReplyMove, ReplyBot, ReplyDeparture, Project, FinishFails
<1>5. CASE Act \/ WorkerCrash \/ HostCrash \/ NoRequests \/ Reclaim \/ SweepBegin \/ SweepVisit
  BY <1>5 DEF Act, WorkerCrash, HostCrash, NoRequests, Reclaim, SweepBegin, SweepVisit
<1> QED BY <1>1, <1>2, <1>3, <1>4, <1>5 DEF KeepsRow

LEMMA RowStep == ASSUME Typed, [Next]_vars PROVE RowOK'
<1> USE DEF Typed, TypeOK
<1>1. CASE KeepsRow \/ UNCHANGED vars
  BY <1>1, RowIsKept DEF RowOK, record, vars
<1>2. CASE CancelLobby
  BY <1>2 DEF CancelLobby, RowOK
<1>3. CASE CancelDuel
  BY <1>3, NoClockType DEF CancelDuel, RowOK, NoClock
<1>4. CASE Activate
  <2>1. StartClock \in Clock
    BY ClockForType DEF StartClock
  <2> QED BY <1>4, <2>1 DEF Activate, RowOK, RestOK
<1>5. CASE RecoverImpossible
  BY <1>5, NoClockType DEF RecoverImpossible, Interrupted, RowOK
<1>6. CASE RecoverFails
  BY <1>6, NoClockType DEF RecoverFails, Interrupted, RowOK
<1>7. CASE SettleContinue
  <2>1. clock' \in Clock
    BY <1>7 DEF SettleContinue, TimeIsUp, Humans, RowOK, Clock
  <2> QED BY <1>7, <2>1 DEF SettleContinue, RowOK, record
<1>8. CASE ApplyRejected
  BY <1>8, NoClockType DEF ApplyRejected, Interrupted, RowOK
<1>9. CASE ApplyLoops
  BY <1>9, NoClockType DEF ApplyLoops, Interrupted, RowOK
<1>10. CASE JournalOk
  <2>1. job.pc = "journal" /\ job.late \in BOOLEAN
    BY <1>10 DEF JournalOk, Job
  <2>2. journal' \in Seq(Command)
    BY <1>10, <2>1 DEF JournalOk, RowOK, CommandIsMade, Changing
  <2>3. job.late => clock.seat \in Seats
    BY <2>1 DEF LateIsDue, ClockHasSeat
  <2>4. clock' \in Clock
    BY <1>10, <2>1, <2>3, SyncClockType DEF JournalOk, RowOK
  <2> QED BY <1>10, <2>2, <2>4 DEF JournalOk, RowOK
<1>11. CASE Finish
  <2>1. WinnerOf(job.why, job.cmd.seat) \in Seats \cup {NoSeat}
    BY <1>11, WinnerType DEF Finish
  <2> QED BY <1>11, <2>1, NoClockType DEF Finish, RowOK, Job
<1>12. CASE Plan
  BY <1>12, NoClockType DEF Plan, Interrupted, RowOK
<1>13. CASE TimeUp
  BY <1>13 DEF TimeUp, RowOK, Clock, record
<1> QED BY <1>1, <1>2, <1>3, <1>4, <1>5, <1>6, <1>7, <1>8, <1>9, <1>10, <1>11, <1>12, <1>13
        DEF Next, Requests, Step, Recover, Settle, Check, Apply, Record, Reply, Faults,
            Sweeping, KeepsRow

LEMMA MemoryStep == ASSUME Typed, [Next]_vars PROVE MemoryOK'
<1> USE DEF Typed, TypeOK
<1>1. CASE KeepsMemory \/ UNCHANGED vars
  BY <1>1, MemoryIsKept DEF MemoryOK, memory, vars
<1>2. CASE DropsMemory
  BY <1>2, MemoryIsDropped, DisposeType DEF MemoryOK, memory
<1>3. CASE Activate
  <2>1. UNCHANGED plan
    BY <1>3 DEF Activate
  <2>2. worker' \in {"up", worker} /\ hist' \in {<<>>, hist} /\ loop' \in {"plan", loop}
    BY <1>3 DEF Activate, StartBotLoop
  <2>3. idle' \in BOOLEAN
    BY <1>3 DEF Activate, MemoryOK
  <2>4. hist' \in Seq(Command)
    BY <2>2, NoCommands DEF MemoryOK
  <2> QED BY <2>1, <2>2, <2>3, <2>4 DEF MemoryOK
<1>4. CASE RecoverLive \/ RecoverReplay
  <2>1. idle' \in BOOLEAN
    BY <1>4 DEF RecoverLive, RecoverReplay, ReplayJournal
  <2> QED BY <1>4, <2>1 DEF RecoverLive, RecoverReplay, ReplayJournal, MemoryOK, StartBotLoop, RowOK
<1>5. CASE RecoverImpossible
  <2>1. idle' \in BOOLEAN
    BY <1>5 DEF RecoverImpossible
  <2> QED BY <1>5, <2>1 DEF RecoverImpossible, MemoryOK
<1>6. CASE RecoverFails
  <2>1. DisposeGame \/ (worker' = "none" /\ hist' = <<>> /\ UNCHANGED <<loop, plan>>)
    BY <1>6 DEF RecoverFails
  <2>2. idle' \in BOOLEAN
    BY <1>6 DEF RecoverFails, DisposeGame
  <2>3. CASE DisposeGame
    BY <2>3, DisposeType
  <2>4. CASE ~DisposeGame
    <3>1. hist' \in Seq(Command)
      BY <2>1, <2>4, NoCommands
    <3> QED BY <2>1, <2>2, <2>4, <3>1 DEF MemoryOK
  <2> QED BY <2>3, <2>4
<1>7. CASE SettleNothing \/ ReplyMove \/ ReplyDeparture
  BY <1>7 DEF SettleNothing, ReplyMove, ReplyDeparture, StartBotLoop, MemoryOK
<1>8. CASE ApplyOk
  BY <1>8 DEF ApplyOk, Applying, MemoryOK, CommandIsMade, Changing
<1>9. CASE ReplyBot
  BY <1>9 DEF ReplyBot, MemoryOK
<1>10. CASE Plan
  <2>1. ASSUME NEW a \in Answers, PromptSeat(hist) \in Bots PROVE BotAnswer(a) \in Command
    BY <2>1, CountersAreNat, EngineAssumption DEF BotAnswer, Command, EngineAssumption, MemoryOK
  <2>2. \/ DisposeGame
        \/ StopLoop
        \/ /\ loop' = "sleep" /\ UNCHANGED <<worker, hist, idle>>
           /\ \E a \in Answers : PromptSeat(hist) \in Bots /\ plan' = BotAnswer(a)
    BY <1>10 DEF Plan
  <2> QED BY <2>1, <2>2, DisposeType DEF StopLoop, MemoryOK
<1>11. CASE Act
  <2>1. \/ DisposeGame
        \/ StopLoop
        \/ /\ loop' \in {"plan", loop} /\ plan' \in {NoCmd, plan}
           /\ UNCHANGED <<worker, hist, idle>>
    BY <1>11 DEF Act
  <2> QED BY <2>1, DisposeType DEF StopLoop, MemoryOK
<1>12. CASE WorkerCrash
  BY <1>12 DEF WorkerCrash, MemoryOK
<1>13. CASE NoRequests
  <2>1. idle' \in BOOLEAN
    BY <1>13 DEF NoRequests
  <2> QED BY <1>13, <2>1 DEF NoRequests, MemoryOK
<1> QED BY <1>1, <1>2, <1>3, <1>4, <1>5, <1>6, <1>7, <1>8, <1>9, <1>10, <1>11, <1>12, <1>13
        DEF Next, Requests, Step, Recover, Settle, Check, Apply, Record, Reply, Faults,
            Sweeping, KeepsMemory, DropsMemory

(* A request that enters the queue is well formed. *)
LEMMA ClientAnswerType ==
  ASSUME Typed, NEW c \in ClientAnswers
  PROVE  c \in Command /\ c.kind = "answer"
<1>1. PICK n \in 0..Len(shown), a \in Answers :
        /\ PromptSeat(UpTo(shown, n)) \in Humans
        /\ c = [kind |-> "answer", seat |-> PromptSeat(UpTo(shown, n)),
                rev |-> Revision(UpTo(shown, n)), pid |-> PromptId(UpTo(shown, n)), arg |-> a]
  BY DEF ClientAnswers
<1>2. UpTo(shown, n) \in Seq(Command)
  BY PrefixType DEF Typed, TypeOK, RestOK
<1> QED BY <1>1, <1>2, CountersAreNat DEF Command, Humans

Entering(op, pc, req) == job' = [NoJob EXCEPT !.op = op, !.pc = pc, !.req = req]

LEMMA Requested ==
  ASSUME Typed, EnterView \/ EnterRespond \/ EnterMode \/ EnterSurrender \/ EnterSweep
  PROVE  \E op \in {"view", "respond", "mode", "surrender", "sweep"},
            pc \in {"recover", "settle"}, req \in Request :
           /\ Entering(op, pc, req)
           /\ op = "respond" => req \in Command /\ req.kind = "answer"
           /\ op \in {"mode", "surrender"} => req.seat \in Humans
           /\ op = "mode" => req.arg \in Modes
<1>1. CASE EnterView
  BY <1>1, NoJobType DEF EnterView, Enter, Entering
<1>2. CASE EnterRespond
  BY <1>2, ClientAnswerType DEF EnterRespond, Enter, Entering, Request
<1>3. CASE EnterMode
  <2>1. PICK s \in Humans, m \in Modes : Enter("mode", "recover", [NoCmd EXCEPT !.seat = s, !.arg = m])
    BY <1>3 DEF EnterMode
  <2> DEFINE req == [NoCmd EXCEPT !.seat = s, !.arg = m]
  <2>2. req \in Request /\ req.seat \in Humans /\ req.arg \in Modes
    BY DEF NoCmd, Request, Humans
  <2>3. Entering("mode", "recover", req)
    BY <2>1 DEF Enter, Entering
  <2> QED BY <2>2, <2>3
<1>4. CASE EnterSurrender
  <2>1. PICK s \in Humans : Enter("surrender", "recover", [NoCmd EXCEPT !.seat = s])
    BY <1>4 DEF EnterSurrender
  <2> DEFINE req == [NoCmd EXCEPT !.seat = s]
  <2>2. req \in Request /\ req.seat \in Humans
    BY DEF NoCmd, Request, Humans
  <2>3. Entering("surrender", "recover", req)
    BY <2>1 DEF Enter, Entering
  <2> QED BY <2>2, <2>3
<1>5. CASE EnterSweep
  BY <1>5, NoJobType DEF EnterSweep, Enter, Entering
<1> QED BY <1>1, <1>2, <1>3, <1>4, <1>5

JobIsMade == job \in Job /\ RequestIsMade /\ CommandIsMade

(* What a job becomes once its clock is settled. *)
LEMMA SettledJob ==
  ASSUME Typed, job' = Settled(job), UNCHANGED <<loop, plan>> \/ StartBotLoop, UNCHANGED plan
  PROVE  JobIsMade'
<1> USE DEF Typed, TypeOK, JobIsMade
<1>1. CASE job.op = "respond" /\ job.hold # "none"
  <2>1. job' = [job EXCEPT !.pc = "apply", !.cmd = job.req, !.why = "none", !.late = FALSE]
    BY <1>1 DEF Settled
  <2>2. job.req \in Command /\ job.req.kind = "answer"
    BY <1>1 DEF RequestIsMade
  <2>3. job' \in Job
    BY <2>1, <2>2 DEF Job, Reasons
  <2>4. /\ job'.op = "respond" /\ job'.pc = "apply" /\ job'.cmd = job.req
        /\ job'.req = job.req /\ job'.why = "none"
    BY <1>1, <2>1 DEF Job
  <2> QED BY <2>2, <2>3, <2>4 DEF RequestIsMade, CommandIsMade, Changing, StartBotLoop
<1>2. CASE Settled(job) = NoJob
  BY <1>2, NoJobType DEF NoJob, RequestIsMade, CommandIsMade, Changing, StartBotLoop
<1>3. CASE /\ Settled(job) # NoJob
           /\ ~(job.op = "respond" /\ job.hold # "none")
  <2>1. \E pc \in {"check", "project"} :
          job' = [job EXCEPT !.pc = pc, !.cmd = NoCmd, !.why = "none"]
    BY <1>3 DEF Settled
  <2>2. job' \in Job
    BY <2>1 DEF Job, Reasons
  <2>3. /\ job'.op = job.op /\ job'.pc \in {"check", "project"} /\ job'.req = job.req
        /\ job'.why = "none"
    BY <2>1 DEF Job
  <2> QED BY <2>2, <2>3 DEF RequestIsMade, CommandIsMade, Changing, StartBotLoop
<1> QED BY <1>1, <1>2, <1>3

(* A forfeit names its seat and its reason. *)
LEMMA ForfeitJob ==
  ASSUME Typed, NEW s \in Humans, NEW why \in {"time", "surrender"}, Forfeit(s, why),
         why = "time" => Timeout = "loss", UNCHANGED <<loop, plan>>
  PROVE  JobIsMade'
<1> USE DEF Typed, TypeOK, JobIsMade
<1>1. ForfeitCommand(s, why) \in Command
  BY CountersAreNat DEF ForfeitCommand, Command, Humans, MemoryOK
<1>2. job' \in Job
  BY <1>1 DEF Forfeit, Job, Reasons
<1>3. /\ job'.op = job.op /\ job'.req = job.req
      /\ job'.pc = IF Multi THEN "apply" ELSE "finish"
      /\ job'.why = why /\ job'.cmd = ForfeitCommand(s, why)
  BY DEF Forfeit, Job
<1>4. job'.cmd.arg = why /\ job'.cmd.seat = s
  BY <1>3 DEF ForfeitCommand
<1> QED BY <1>1, <1>2, <1>3, <1>4 DEF RequestIsMade, CommandIsMade, Changing

(* Steps that only move on, and steps that end the job. *)
LEMMA MovedOn ==
  ASSUME Typed, NEW pc \in {"settle", "journal", "reply", "project", "recover"},
         Goto(pc), pc \in {"journal", "reply"} => job.pc \in Changing,
         loop' \in {"none", "plan", loop}, UNCHANGED plan
  PROVE  JobIsMade'
<1> USE DEF Typed, TypeOK, JobIsMade
<1>1. job' \in Job
  BY DEF Goto, Job
<1>2. /\ job'.op = job.op /\ job'.req = job.req /\ job'.why = job.why
      /\ job'.cmd = job.cmd /\ job'.pc = pc
  BY DEF Goto, Job
<1> QED BY <1>1, <1>2 DEF RequestIsMade, CommandIsMade, Changing

LEMMA Ended ==
  ASSUME Typed, job' = NoJob, loop' # "sleep" \/ UNCHANGED <<loop, plan>>
  PROVE  JobIsMade'
BY NoJobType DEF Typed, JobIsMade, NoJob, RequestIsMade, CommandIsMade, Changing

KeepsJob == CancelLobby \/ CancelDuel \/ TimeUp \/ WorkerCrash \/ NoRequests
            \/ Reclaim \/ SweepBegin \/ SweepVisit

EndsJob == RecoverImpossible \/ RecoverFails \/ CheckNoWorker \/ ApplyRejected
           \/ ApplyLoops \/ ApplyFatal \/ JournalFails \/ ReplyBot \/ HostCrash
           \/ Finish \/ FinishFails

LEMMA JobIsKept ==
  ASSUME KeepsJob
  PROVE  job' = job /\ (loop' = "none" \/ UNCHANGED <<loop, plan>>)
BY DEF KeepsJob, CancelLobby, CancelDuel, TimeUp, WorkerCrash, NoRequests, Reclaim,
       SweepBegin, SweepVisit, DisposeGame, memory

LEMMA JobIsEnded ==
  ASSUME EndsJob
  PROVE  job' = NoJob /\ (loop' # "sleep" \/ UNCHANGED <<loop, plan>>)
<1>1. CASE RecoverImpossible \/ RecoverFails \/ HostCrash \/ JournalFails
  BY <1>1 DEF RecoverImpossible, RecoverFails, HostCrash, JournalFails, EndJob, DisposeGame
<1>2. CASE CheckNoWorker
  BY <1>2 DEF CheckNoWorker, EndJob, DisposeGame, memory
<1>3. CASE ApplyRejected
  BY <1>3 DEF ApplyRejected, EndJob, DisposeGame, memory
<1>4. CASE ApplyLoops \/ ApplyFatal
  BY <1>4 DEF ApplyLoops, ApplyFatal, EndJob, DisposeGame, memory
<1>5. CASE ReplyBot \/ Finish \/ FinishFails
  BY <1>5 DEF ReplyBot, Finish, FinishFails, EndJob, DisposeGame, memory
<1> QED BY <1>1, <1>2, <1>3, <1>4, <1>5 DEF EndsJob

LEMMA JobStep == ASSUME Typed, [Next]_vars PROVE JobIsMade'
<1> USE DEF Typed, TypeOK
<1>1. CASE KeepsJob \/ UNCHANGED vars
  <2>1. job' = job /\ (loop' = "none" \/ UNCHANGED <<loop, plan>>)
    BY <1>1, JobIsKept DEF vars
  <2> QED BY <2>1 DEF JobIsMade, RequestIsMade, CommandIsMade
<1>2. CASE EndsJob
  BY <1>2, JobIsEnded, Ended
<1>3. CASE EnterView \/ EnterRespond \/ EnterMode \/ EnterSurrender \/ EnterSweep
  <2>1. PICK op \in {"view", "respond", "mode", "surrender", "sweep"},
             pc \in {"recover", "settle"}, req \in Request :
          /\ Entering(op, pc, req)
          /\ op = "respond" => req \in Command /\ req.kind = "answer"
          /\ op \in {"mode", "surrender"} => req.seat \in Humans
          /\ op = "mode" => req.arg \in Modes
    BY <1>3, Requested
  <2>2. job' \in Job /\ job'.op = op /\ job'.pc = pc /\ job'.req = req /\ job'.why = "none"
    BY <2>1, NoJobType DEF Entering, Job, NoJob
  <2>3. UNCHANGED <<loop, plan>>
    BY <1>3, MemoryIsKept DEF KeepsMemory, memory
  <2> QED BY <2>1, <2>2, <2>3 DEF JobIsMade, RequestIsMade, CommandIsMade, Changing
<1>4. CASE StartGame
  <2>1. job' \in Job /\ job'.op = "start" /\ job'.pc = "spawned" /\ job'.why = "none"
    BY <1>4, NoJobType DEF StartGame, Job, NoJob
  <2>2. UNCHANGED <<loop, plan>>
    BY <1>4 DEF StartGame, memory
  <2> QED BY <2>1, <2>2 DEF JobIsMade, RequestIsMade, CommandIsMade, Changing
<1>5. CASE Activate
  <2>1. /\ Goto("project") \/ job' = NoJob
        /\ loop' \in {"plan", loop} /\ UNCHANGED plan
    BY <1>5 DEF Activate, EndJob, StartBotLoop
  <2> QED BY <2>1, MovedOn, Ended
<1>6. CASE RecoverLive \/ RecoverReplay
  <2>1. Goto("settle") /\ loop' \in {"plan", loop} /\ UNCHANGED plan
    BY <1>6 DEF RecoverLive, RecoverReplay, ReplayJournal, StartBotLoop
  <2> QED BY <2>1, MovedOn
<1>7. CASE SettleNothing
  <2>1. job' = Settled(job) /\ (UNCHANGED loop \/ StartBotLoop) /\ UNCHANGED plan
    BY <1>7 DEF SettleNothing
  <2> QED BY <2>1, SettledJob
<1>8. CASE SettleContinue
  BY <1>8, SettledJob DEF SettleContinue, memory
<1>9. CASE SettleRecovers
  <2>1. /\ job' = [job EXCEPT !.pc = "recover", !.hold = IF @ = "none" THEN "none" ELSE "lost"]
        /\ UNCHANGED <<loop, plan>>
    BY <1>9 DEF SettleRecovers, memory
  <2>2. /\ job' \in Job /\ job'.op = job.op /\ job'.req = job.req
        /\ job'.pc = "recover" /\ job'.why = job.why
    BY <2>1 DEF Job
  <2> QED BY <2>1, <2>2 DEF JobIsMade, RequestIsMade, CommandIsMade, Changing
<1>10. CASE SettleLoss
  <2>1. clock.seat \in Humans /\ Forfeit(clock.seat, "time") /\ Timeout = "loss"
    BY <1>10 DEF SettleLoss, TimeIsUp
  <2>2. UNCHANGED <<loop, plan>>
    BY <1>10 DEF SettleLoss, memory
  <2> QED BY <2>1, <2>2, ForfeitJob
<1>11. CASE CheckRespond
  <2>1. UNCHANGED <<loop, plan>> /\ job.req \in Command /\ job.op = "respond"
        /\ job.req.kind = "answer" /\ job.pc = "check"
    BY <1>11 DEF CheckRespond, memory, Deciding, RequestIsMade
  <2>2. \/ job' = NoJob
        \/ job' = [job EXCEPT !.pc = "settle", !.hold = "live"]
        \/ job' = [job EXCEPT !.pc = "apply", !.cmd = job.req, !.hold = "live", !.late = Overdue]
    BY <1>11 DEF CheckRespond
  <2>3. CASE job' = [job EXCEPT !.pc = "settle", !.hold = "live"]
    <3>1. /\ job' \in Job /\ job'.op = job.op /\ job'.req = job.req
          /\ job'.pc = "settle" /\ job'.why = job.why
      BY <2>3 DEF Job
    <3> QED BY <2>1, <3>1 DEF JobIsMade, RequestIsMade, CommandIsMade, Changing
  <2>4. CASE job' = [job EXCEPT !.pc = "apply", !.cmd = job.req, !.hold = "live", !.late = Overdue]
    <3>1. Overdue \in BOOLEAN
      BY DEF Overdue
    <3>2. /\ job' \in Job /\ job'.op = job.op /\ job'.req = job.req /\ job'.pc = "apply"
          /\ job'.cmd = job.req /\ job'.why = job.why
      BY <2>1, <2>4, <3>1 DEF Job
    <3> QED BY <2>1, <3>2 DEF JobIsMade, RequestIsMade, CommandIsMade, Changing
  <2> QED BY <2>1, <2>2, <2>3, <2>4, Ended
<1>12. CASE CheckMode
  <2> DEFINE s == job.req.seat
             m == job.req.arg
             late == job.hold = "none" /\ Overdue
  <2>1. UNCHANGED <<loop, plan>> /\ s \in Humans /\ m \in Modes
    BY <1>12 DEF CheckMode, memory, Deciding, RequestIsMade
  <2>2. \/ job' = NoJob
        \/ Goto("project")
        \/ job' = [job EXCEPT !.pc = "settle", !.hold = "live"]
        \/ job' = [job EXCEPT !.pc = "apply", !.cmd = ModeCommand(s, m),
                              !.late = late, !.hold = "live"]
    BY <1>12 DEF CheckMode, Goto
  <2>3. CASE job' = [job EXCEPT !.pc = "settle", !.hold = "live"]
    <3>1. /\ job' \in Job /\ job'.op = job.op /\ job'.req = job.req
          /\ job'.pc = "settle" /\ job'.why = job.why
      BY <2>3 DEF Job
    <3> QED BY <2>1, <3>1 DEF JobIsMade, RequestIsMade, CommandIsMade, Changing
  <2>4. CASE job' = [job EXCEPT !.pc = "apply", !.cmd = ModeCommand(s, m),
                                !.late = late, !.hold = "live"]
    <3>1. late \in BOOLEAN
      BY DEF Overdue
    <3>2. ModeCommand(s, m) \in Command /\ ModeCommand(s, m).kind = "mode"
      BY <2>1, CountersAreNat DEF ModeCommand, Command, Humans, MemoryOK
    <3> HIDE DEF s, m, late
    <3>3. /\ job' \in Job /\ job'.op = job.op /\ job'.req = job.req /\ job'.pc = "apply"
          /\ job'.cmd = ModeCommand(s, m) /\ job'.why = job.why
      BY <2>4, <3>1, <3>2 DEF Job
    <3> QED BY <2>1, <3>2, <3>3 DEF JobIsMade, RequestIsMade, CommandIsMade, Changing
  <2> QED BY <2>1, <2>2, <2>3, <2>4, Ended, MovedOn
<1>13. CASE CheckSurrender
  <2>1. UNCHANGED <<loop, plan>> /\ job.req.seat \in Humans
    BY <1>13 DEF CheckSurrender, memory, Deciding, RequestIsMade
  <2>2. Goto("project") \/ Forfeit(job.req.seat, "surrender")
    BY <1>13 DEF CheckSurrender
  <2> QED BY <2>1, <2>2, MovedOn, ForfeitJob
<1>14. CASE ApplyOk
  <2>1. /\ job' = [job EXCEPT !.pc = "journal",
                              !.late = IF job.cmd.kind = "elim" THEN Overdue ELSE @]
        /\ job.pc = "apply" /\ UNCHANGED <<loop, plan>>
    BY <1>14 DEF ApplyOk, Applying
  <2>2. (IF job.cmd.kind = "elim" THEN Overdue ELSE job.late) \in BOOLEAN
    BY DEF Overdue, Job
  <2>3. /\ job' \in Job /\ job'.op = job.op /\ job'.req = job.req /\ job'.pc = "journal"
        /\ job'.cmd = job.cmd /\ job'.why = job.why
    BY <2>1, <2>2 DEF Job
  <2> QED BY <2>1, <2>3 DEF JobIsMade, RequestIsMade, CommandIsMade, Changing
<1>15. CASE JournalOk
  BY <1>15, MovedOn DEF JournalOk, memory, Changing
<1>16. CASE ReplyMove
  <2>1. Goto("project") /\ loop' \in {"plan", loop} /\ UNCHANGED plan
    BY <1>16 DEF ReplyMove, StartBotLoop
  <2> QED BY <2>1, MovedOn
<1>17. CASE ReplyDeparture
  <2>1. job.pc = "reply" /\ job.cmd.kind = "elim" /\ UNCHANGED plan
    BY <1>17 DEF ReplyDeparture
  <2>2. \/ job' = NoJob /\ UNCHANGED loop
        \/ Goto("finish") /\ UNCHANGED loop
        \/ job' = Settled(job) /\ StartBotLoop
        \/ Goto("project") /\ StartBotLoop
    BY <1>17 DEF ReplyDeparture, EndJob, Goto
  <2>3. CASE Goto("finish") /\ UNCHANGED loop
    <3>1. /\ job' \in Job /\ job'.op = job.op /\ job'.req = job.req /\ job'.why = job.why
          /\ job'.cmd = job.cmd /\ job'.pc = "finish"
      BY <2>3 DEF Goto, Job
    <3>2. /\ job.cmd \in Command /\ job.cmd.seat \in Humans
          /\ job.why \in {"time", "surrender"}
      BY <2>1 DEF CommandIsMade, Changing, Command
    <3> QED BY <2>1, <2>3, <3>1, <3>2 DEF JobIsMade, RequestIsMade, CommandIsMade, Changing
  <2>4. CASE Goto("project") /\ StartBotLoop
    <3>1. loop' \in {"plan", loop}
      BY <2>4 DEF StartBotLoop
    <3> QED BY <2>1, <2>4, <3>1, MovedOn
  <2> QED BY <2>1, <2>2, <2>3, <2>4, Ended, SettledJob
<1>18. CASE Project
  <2>1. \/ job' = NoJob /\ (UNCHANGED memory \/ DisposeGame)
        \/ job' = [job EXCEPT !.pc = "finish", !.why = "play"] /\ UNCHANGED memory
    BY <1>18 DEF Project, EndJob
  <2>2. loop' # "sleep" \/ UNCHANGED <<loop, plan>>
    BY <2>1 DEF memory, DisposeGame
  <2>3. CASE job' = [job EXCEPT !.pc = "finish", !.why = "play"] /\ UNCHANGED memory
    <3>1. /\ job' \in Job /\ job'.op = job.op /\ job'.req = job.req /\ job'.why = "play"
          /\ job'.pc = "finish"
      BY <2>3 DEF Job, Reasons
    <3> QED BY <2>3, <3>1 DEF JobIsMade, RequestIsMade, CommandIsMade, Changing, memory
  <2> QED BY <2>1, <2>2, <2>3, Ended
<1>19. CASE Plan
  <2>1. \/ job' = job /\ loop' \in {"none", "sleep"}
        \/ job' = [NoJob EXCEPT !.op = "plan", !.pc = "finish", !.why = "play"] /\ loop' = "none"
    BY <1>19 DEF Plan, StopLoop, DisposeGame
  <2>2. loop' = "sleep" => plan' \in Command /\ plan'.kind = "answer" /\ plan'.seat \in Bots
    <3>1. ASSUME NEW a \in Answers, PromptSeat(hist) \in Bots
          PROVE  /\ BotAnswer(a) \in Command /\ BotAnswer(a).kind = "answer"
                 /\ BotAnswer(a).seat \in Bots
      BY <3>1, CountersAreNat, EngineAssumption DEF BotAnswer, Command, EngineAssumption, MemoryOK
    <3>2. loop' = "sleep" => \E a \in Answers : PromptSeat(hist) \in Bots /\ plan' = BotAnswer(a)
      BY <1>19 DEF Plan, StopLoop, DisposeGame
    <3> QED BY <3>1, <3>2
  <2>3. CASE job' = job
    BY <2>2, <2>3 DEF JobIsMade, RequestIsMade, CommandIsMade
  <2>4. CASE job' = [NoJob EXCEPT !.op = "plan", !.pc = "finish", !.why = "play"] /\ loop' = "none"
    <3>1. job' \in Job /\ job'.op = "plan" /\ job'.pc = "finish" /\ job'.why = "play"
      BY <2>4, NoJobType DEF Job, Reasons
    <3> QED BY <2>4, <3>1 DEF JobIsMade, RequestIsMade, CommandIsMade, Changing
  <2> QED BY <2>1, <2>3, <2>4
<1>20. CASE Act
  <2>1. \/ job' = job /\ (loop' \in {"none", "plan"} \/ UNCHANGED <<loop, plan>>)
        \/ /\ job' = [NoJob EXCEPT !.op = "act", !.pc = "apply", !.cmd = plan, !.late = Overdue]
           /\ loop = "sleep" /\ UNCHANGED <<loop, plan>>
    BY <1>20 DEF Act, StopLoop, DisposeGame
  <2>2. CASE job' = job /\ (loop' \in {"none", "plan"} \/ UNCHANGED <<loop, plan>>)
    BY <2>2 DEF JobIsMade, RequestIsMade, CommandIsMade
  <2>3. CASE /\ job' = [NoJob EXCEPT !.op = "act", !.pc = "apply", !.cmd = plan, !.late = Overdue]
             /\ loop = "sleep" /\ UNCHANGED <<loop, plan>>
    <3>1. plan \in Command /\ plan.kind = "answer" /\ plan.seat \in Bots /\ Overdue \in BOOLEAN
      BY <2>3 DEF RequestIsMade, Overdue
    <3>2. /\ job' \in Job /\ job'.op = "act" /\ job'.pc = "apply" /\ job'.cmd = plan
          /\ job'.why = "none"
      BY <2>3, <3>1, NoJobType DEF Job, NoJob
    <3> QED BY <2>3, <3>1, <3>2 DEF JobIsMade, RequestIsMade, CommandIsMade, Changing
  <2> QED BY <2>1, <2>2, <2>3
<1> QED BY <1>1, <1>2, <1>3, <1>4, <1>5, <1>6, <1>7, <1>8, <1>9, <1>10, <1>11, <1>12,
           <1>13, <1>14, <1>15, <1>16, <1>17, <1>18, <1>19, <1>20
        DEF Next, Requests, Step, Recover, Settle, Check, Apply, Record, Reply, Faults,
            Sweeping, KeepsJob, EndsJob


LEMMA RestStep == ASSUME Typed, [Next]_vars PROVE RestOK'
<1> USE DEF Typed, TypeOK, RestOK
<1>1. CASE UNCHANGED <<pinned, sweeping, shown>> /\ faults' \in {faults, faults + 1} /\ UNCHANGED restarts
  BY <1>1 DEF sweeping
<1>2. CASE RecoverLive \/ RecoverReplay
  BY <1>2 DEF RecoverLive, RecoverReplay, ReplayJournal
<1>3. CASE Project \/ Finish
  BY <1>3 DEF Project, Finish, sweeping, MemoryOK
<1>4. CASE HostCrash
  BY <1>4 DEF HostCrash
<1>5. CASE SweepBegin \/ SweepVisit
  BY <1>5 DEF SweepBegin, SweepVisit
<1>6. CASE StartGame \/ CancelLobby \/ CancelDuel \/ EnterView \/ EnterRespond \/ EnterMode
           \/ EnterSurrender \/ EnterSweep \/ Activate \/ RecoverImpossible \/ RecoverFails
  BY <1>1, <1>6 DEF StartGame, CancelLobby, CancelDuel, EnterView, EnterRespond, EnterMode,
     EnterSurrender, EnterSweep, Enter, Activate, RecoverImpossible, RecoverFails
<1>7. CASE Settle \/ Check
  BY <1>1, <1>7 DEF Settle, SettleNothing, SettleContinue, SettleRecovers, SettleLoss, Check,
     CheckNoWorker, CheckRespond, CheckMode, CheckSurrender
<1>8. CASE Apply \/ Record
  BY <1>1, <1>8 DEF Apply, ApplyOk, ApplyRejected, ApplyLoops, ApplyFatal, Record, JournalOk,
     JournalFails
<1>9. CASE Reply \/ FinishFails \/ Plan \/ Act
  BY <1>1, <1>9 DEF Reply, ReplyMove, ReplyBot, ReplyDeparture, FinishFails, Plan, Act
<1>10. CASE TimeUp \/ WorkerCrash \/ NoRequests \/ Reclaim \/ UNCHANGED vars
  BY <1>1, <1>10 DEF TimeUp, WorkerCrash, NoRequests, Reclaim, vars, sweeping
<1> QED BY <1>2, <1>3, <1>4, <1>5, <1>6, <1>7, <1>8, <1>9, <1>10
        DEF Next, Requests, Step, Recover, Faults, Sweeping

(* A duel that is worked on runs, and it never returns to the lobby. *)
LEMMA ActiveStep == ASSUME Typed, [Next]_vars PROVE JobOfActive'
<1> USE DEF Typed, TypeOK, JobOfActive
<1>1. CASE UNCHANGED <<status, journal>> /\ (job' = job \/ job'.pc \in {"idle", "spawned"})
  BY <1>1
<1>2. CASE UNCHANGED <<status, journal>> /\ status = "active"
  BY <1>2
<1>3. CASE status' # "lobby" /\ (job'.pc = "idle" \/ (job' = job /\ job.pc \in {"idle", "spawned"}))
  BY <1>3
<1>4. NoJob.pc = "idle"
  BY DEF NoJob
<1>5. CASE StartGame
  <2>1. job'.pc = "spawned"
    BY <1>5, NoJobType DEF StartGame, Job
  <2> QED BY <1>5, <1>1, <2>1 DEF StartGame, record
<1>6. CASE EnterView \/ EnterRespond \/ EnterMode \/ EnterSurrender \/ EnterSweep
  BY <1>6, <1>2 DEF EnterView, EnterRespond, EnterMode, EnterSurrender, EnterSweep, Enter, record
<1>7. CASE Activate
  <2>1. \/ status' = "active"
        \/ job' = NoJob /\ UNCHANGED <<status, journal>>
    BY <1>7 DEF Activate, EndJob
  <2> QED BY <2>1, <1>1, <1>4
<1>8. CASE KeepsJob
  <2>1. job' = job
    BY <1>8, JobIsKept
  <2>2. \/ UNCHANGED <<status, journal>>
        \/ status' = "cancelled" /\ job.pc \in {"idle", "spawned"}
    BY <1>4, <1>8 DEF KeepsJob, CancelLobby, CancelDuel, TimeUp, WorkerCrash, NoRequests, Reclaim,
       SweepBegin, SweepVisit, record
  <2> QED BY <2>1, <2>2, <1>1, <1>3
<1>9. CASE EndsJob
  <2>1. job'.pc = "idle"
    BY <1>4, <1>9, JobIsEnded
  <2>2. UNCHANGED <<status, journal>> \/ status' \in {"interrupted", "completed"}
    BY <1>9 DEF EndsJob, RecoverImpossible, RecoverFails, CheckNoWorker, ApplyRejected, ApplyLoops,
       ApplyFatal, JournalFails, ReplyBot, HostCrash, Finish, FinishFails, Interrupted, record
  <2> QED BY <2>1, <2>2, <1>1, <1>3
<1>10. CASE Plan
  <2>1. \/ UNCHANGED <<status, journal, job>>
        \/ status' = "interrupted" /\ UNCHANGED job /\ job = NoJob
        \/ UNCHANGED <<status, journal>> /\ status = "active"
    BY <1>10 DEF Plan, Interrupted
  <2> QED BY <2>1, <1>1, <1>2, <1>3, <1>4
<1>11. CASE Act
  <2>1. UNCHANGED <<status, journal>> /\ (job' = job \/ status = "active")
    BY <1>11 DEF Act, record
  <2> QED BY <2>1, <1>1, <1>2
<1>12. CASE RecoverLive \/ RecoverReplay \/ SettleNothing \/ SettleContinue \/ SettleRecovers
            \/ SettleLoss \/ CheckRespond \/ CheckMode \/ CheckSurrender
  BY <1>12, <1>2 DEF RecoverLive, RecoverReplay, ReplayJournal, SettleNothing, SettleContinue,
     SettleRecovers, SettleLoss, CheckRespond, CheckMode, CheckSurrender, Deciding, record
<1>13. CASE ApplyOk \/ ReplyMove \/ ReplyDeparture \/ Project
  BY <1>13, <1>2 DEF ApplyOk, Applying, ReplyMove, ReplyDeparture, Project, record
<1>14. CASE JournalOk
  BY <1>14 DEF JournalOk
<1>15. CASE UNCHANGED vars
  BY <1>15 DEF vars
<1> QED BY <1>5, <1>6, <1>7, <1>8, <1>9, <1>10, <1>11, <1>12, <1>13, <1>14, <1>15
        DEF Next, Requests, Step, Recover, Settle, Check, Apply, Record, Reply, Faults,
            Sweeping, KeepsJob, EndsJob

(* Steps after which the job is not about to write or to finish.            *)
Thinking == {"idle", "spawned", "recover", "settle", "check", "apply", "project"}

LEMMA SettledThinks ==
  ASSUME Typed PROVE Settled(job).pc \in {"idle", "check", "apply", "project"}
<1> USE DEF Typed, TypeOK
<1>1. CASE job.op = "respond" /\ job.hold # "none"
  <2>1. Settled(job) = [job EXCEPT !.pc = "apply", !.cmd = job.req, !.why = "none", !.late = FALSE]
    BY <1>1 DEF Settled
  <2> QED BY <2>1 DEF Job
<1>2. CASE Settled(job) = NoJob
  BY <1>2 DEF NoJob
<1>3. CASE /\ Settled(job) # NoJob
           /\ ~(job.op = "respond" /\ job.hold # "none")
  <2>1. \E pc \in {"check", "project"} :
          Settled(job) = [job EXCEPT !.pc = pc, !.cmd = NoCmd, !.why = "none"]
    BY <1>3 DEF Settled
  <2> QED BY <2>1 DEF Job
<1> QED BY <1>1, <1>2, <1>3

LEMMA ThinkingSteps ==
  ASSUME Typed,
         \/ StartGame \/ EnterView \/ EnterRespond \/ EnterMode \/ EnterSurrender \/ EnterSweep
         \/ Activate \/ RecoverLive \/ RecoverReplay \/ EndsJob
         \/ SettleNothing \/ SettleContinue \/ SettleRecovers
         \/ CheckRespond \/ CheckMode \/ ReplyMove
  PROVE  job'.pc \in Thinking
<1> USE DEF Typed, TypeOK, Thinking
<1>0. NoJob.pc = "idle"
  BY DEF NoJob
<1>1. CASE StartGame
  BY <1>1, NoJobType DEF StartGame, Job
<1>2. CASE EnterView \/ EnterRespond \/ EnterMode \/ EnterSurrender \/ EnterSweep
  <2>1. PICK op \in {"view", "respond", "mode", "surrender", "sweep"},
             pc \in {"recover", "settle"}, req \in Request : Entering(op, pc, req)
    BY <1>2, Requested
  <2> QED BY <2>1, NoJobType DEF Entering, Job
<1>3. CASE Activate
  BY <1>0, <1>3 DEF Activate, Goto, EndJob, Job
<1>4. CASE RecoverLive \/ RecoverReplay
  BY <1>4 DEF RecoverLive, RecoverReplay, ReplayJournal, Goto, Job
<1>5. CASE EndsJob
  BY <1>0, <1>5, JobIsEnded
<1>6. CASE SettleNothing \/ SettleContinue
  <2>1. job' = Settled(job)
    BY <1>6 DEF SettleNothing, SettleContinue
  <2> QED BY <2>1, SettledThinks
<1>7. CASE SettleRecovers
  BY <1>7 DEF SettleRecovers, Job
<1>8. CASE CheckRespond
  <2>1. \/ job' = NoJob
        \/ job' = [job EXCEPT !.pc = "settle", !.hold = "live"]
        \/ job' = [job EXCEPT !.pc = "apply", !.cmd = job.req, !.hold = "live", !.late = Overdue]
    BY <1>8 DEF CheckRespond
  <2> QED BY <1>0, <2>1 DEF Job
<1>9. CASE CheckMode
  <2> DEFINE cmd == ModeCommand(job.req.seat, job.req.arg)
             late == job.hold = "none" /\ Overdue
  <2>1. \/ job' = NoJob
        \/ Goto("project")
        \/ job' = [job EXCEPT !.pc = "settle", !.hold = "live"]
        \/ job' = [job EXCEPT !.pc = "apply", !.cmd = cmd, !.late = late, !.hold = "live"]
    BY <1>9 DEF CheckMode, Goto
  <2> HIDE DEF cmd, late
  <2> QED BY <1>0, <2>1 DEF Job, Goto
<1>10. CASE ReplyMove
  BY <1>10 DEF ReplyMove, Goto, Job
<1> QED BY <1>1, <1>2, <1>3, <1>4, <1>5, <1>6, <1>7, <1>8, <1>9, <1>10

LEMMA FinishStep == ASSUME Typed, [Next]_vars PROVE FinishIsDue'
<1> USE DEF Typed, TypeOK
<1>1. CASE job'.pc \in Thinking
  BY <1>1 DEF FinishIsDue, Thinking
<1>2. CASE KeepsJob \/ UNCHANGED vars
  <2>1. job' = job /\ (worker' # "up" \/ UNCHANGED hist)
    BY <1>2 DEF KeepsJob, CancelLobby, CancelDuel, TimeUp, WorkerCrash, NoRequests, Reclaim,
       SweepBegin, SweepVisit, DisposeGame, memory, vars
  <2>2. worker' # "up" \/ worker' = worker
    BY <1>2 DEF KeepsJob, CancelLobby, CancelDuel, TimeUp, WorkerCrash, NoRequests, Reclaim,
       SweepBegin, SweepVisit, DisposeGame, memory, vars
  <2> QED BY <2>1, <2>2 DEF FinishIsDue, LastStanding
<1>3. CASE SettleLoss
  <2>1. job'.pc \in {"apply", "finish"} /\ (Multi => job'.pc = "apply") /\ job'.why = "time"
    BY <1>3 DEF SettleLoss, Forfeit, Job
  <2> QED BY <2>1 DEF FinishIsDue
<1>4. CASE CheckSurrender
  <2>1. /\ job'.pc \in {"project", "apply", "finish"} /\ (Multi => job'.pc # "finish")
        /\ job'.pc = "finish" => job'.why = "surrender"
    BY <1>4 DEF CheckSurrender, Forfeit, Goto, Job
  <2> QED BY <2>1 DEF FinishIsDue
<1>5. CASE ApplyOk
  <2>1. /\ hist' = Append(hist, job.cmd) /\ job.cmd \in Command /\ hist \in Seq(Command)
    BY <1>5 DEF ApplyOk, Applying, MemoryOK, CommandIsMade, Changing
  <2>2. job.cmd.kind = "elim" => job.cmd.seat \in Gone(hist')
    BY <2>1, DepartureIsGone
  <2>3. job'.cmd = job.cmd /\ job'.pc = "journal"
    BY <1>5 DEF ApplyOk, Job
  <2> QED BY <2>2, <2>3 DEF FinishIsDue
<1>6. CASE JournalOk
  <2>1. job.pc = "journal" /\ job'.cmd = job.cmd /\ job'.pc = "reply" /\ UNCHANGED <<worker, hist>>
    BY <1>6 DEF JournalOk, Goto, Job, memory
  <2> QED BY <2>1 DEF FinishIsDue
<1>7. CASE ReplyDeparture
  <2>1. job.pc = "reply" /\ job.cmd.kind = "elim" /\ UNCHANGED <<worker, hist>>
    BY <1>7 DEF ReplyDeparture
  <2>2. \/ job' = NoJob
        \/ Goto("finish") /\ LastStanding
        \/ job' = Settled(job)
        \/ Goto("project")
    BY <1>7 DEF ReplyDeparture, EndJob, Goto
  <2>3. CASE Goto("finish") /\ LastStanding
    <3>1. job'.pc = "finish" /\ job'.cmd = job.cmd /\ job'.why = job.why
      BY <2>3 DEF Goto, Job
    <3>2. job.why # "play"
      BY <2>1 DEF CommandIsMade, Changing, Command
    <3> QED BY <2>1, <2>3, <3>1, <3>2 DEF FinishIsDue, LastStanding
  <2>4. CASE job' = NoJob \/ Goto("project")
    BY <1>1, <2>4 DEF NoJob, Goto, Job, Thinking
  <2> QED BY <1>1, <2>2, <2>3, <2>4, SettledThinks DEF Thinking
<1>8. CASE Project
  <2>1. \/ job' = NoJob
        \/ /\ job' = [job EXCEPT !.pc = "finish", !.why = "play"]
           /\ Over(hist) /\ UNCHANGED hist
    BY <1>8 DEF Project, EndJob, memory
  <2>2. CASE job' = NoJob
    BY <1>1, <2>2 DEF NoJob, Thinking
  <2>3. CASE job' = [job EXCEPT !.pc = "finish", !.why = "play"] /\ Over(hist) /\ UNCHANGED hist
    <3>1. job'.pc = "finish" /\ job'.why = "play"
      BY <2>3 DEF Job
    <3> QED BY <2>3, <3>1 DEF FinishIsDue
  <2> QED BY <2>1, <2>2, <2>3
<1>9. CASE Plan
  <2>1. \/ job' = NoJob
        \/ /\ job' = [NoJob EXCEPT !.op = "plan", !.pc = "finish", !.why = "play"]
           /\ Over(hist) /\ UNCHANGED hist
    BY <1>9 DEF Plan, StopLoop
  <2>2. CASE job' = NoJob
    BY <1>1, <2>2 DEF NoJob, Thinking
  <2>3. CASE /\ job' = [NoJob EXCEPT !.op = "plan", !.pc = "finish", !.why = "play"]
             /\ Over(hist) /\ UNCHANGED hist
    <3>1. job'.pc = "finish" /\ job'.why = "play"
      BY <2>3, NoJobType DEF Job
    <3> QED BY <2>3, <3>1 DEF FinishIsDue
  <2> QED BY <2>1, <2>2, <2>3
<1>10. CASE Act
  <2>1. \/ job' = NoJob
        \/ job' = [NoJob EXCEPT !.op = "act", !.pc = "apply", !.cmd = plan, !.late = Overdue]
    BY <1>10 DEF Act
  <2>2. job'.pc \in {"idle", "apply"}
    BY <2>1, NoJobType DEF NoJob, Job
  <2> QED BY <1>1, <2>2 DEF Thinking
<1> QED BY <1>1, <1>2, <1>3, <1>4, <1>5, <1>6, <1>7, <1>8, <1>9, <1>10, ThinkingSteps
        DEF Next, Requests, Step, Recover, Settle, Check, Apply, Record, Reply, Faults,
            Sweeping, KeepsJob, EndsJob

LEMMA ClockSeatStep == ASSUME Typed, [Next]_vars PROVE ClockHasSeat'
<1> USE DEF Typed, TypeOK, ClockHasSeat
<1>1. CASE UNCHANGED clock
  BY <1>1
<1>2. CASE clock'.state = "off"
  BY <1>2
<1>3. NoClock.state = "off"
  BY DEF NoClock
<1>4. CASE KeepsRow \/ CancelLobby \/ UNCHANGED vars
  BY <1>1, <1>4, RowIsKept DEF CancelLobby, vars
<1>5. CASE CancelDuel \/ Finish
  BY <1>2, <1>3, <1>5 DEF CancelDuel, Finish
<1>6. CASE Activate
  <2>1. clock' = StartClock \/ UNCHANGED clock
    BY <1>6 DEF Activate
  <2> QED BY <2>1, ClockForType DEF StartClock
<1>7. CASE RecoverImpossible \/ RecoverFails \/ ApplyRejected \/ ApplyLoops \/ Plan
  <2>1. clock' = NoClock \/ UNCHANGED clock
    BY <1>7 DEF RecoverImpossible, RecoverFails, ApplyRejected, ApplyLoops, Plan, Interrupted
  <2> QED BY <1>1, <1>2, <1>3, <2>1
<1>8. CASE SettleContinue
  BY <1>2, <1>8 DEF SettleContinue, RowOK, Clock
<1>9. CASE JournalOk
  <2>1. job.pc = "journal" /\ job.late \in BOOLEAN
    BY <1>9 DEF JournalOk, Job
  <2>2. job.late => clock.seat \in Seats
    BY <2>1 DEF LateIsDue
  <2>3. clock' = clock \/ clock' \in SyncClock(journal', job.late, job.cmd.seat)
    BY <1>9 DEF JournalOk
  <2> QED BY <1>1, <2>1, <2>2, <2>3, SyncClockType DEF RowOK
<1>10. CASE TimeUp
  BY <1>10 DEF TimeUp, RowOK, Clock
<1> QED BY <1>4, <1>5, <1>6, <1>7, <1>8, <1>9, <1>10
        DEF Next, Requests, Step, Recover, Settle, Check, Apply, Record, Reply, Faults,
            Sweeping, KeepsRow

(* A move that may keep a deadline came with it. *)
LEMMA LateStep == ASSUME Typed, [Next]_vars PROVE LateIsDue'
<1> USE DEF Typed, TypeOK, LateIsDue
<1>0. NoJob.pc = "idle"
  BY DEF NoJob
<1>1. CASE job'.pc \notin {"apply", "journal"}
  BY <1>1
<1>2. CASE job'.late => clock'.state = "due"
  BY <1>2
<1>3. CASE job'.pc = "apply" /\ job'.cmd.kind = "elim"
  BY <1>3
<1>4. CASE EndsJob \/ Activate \/ ReplyMove \/ RecoverLive \/ RecoverReplay \/ StartGame
           \/ Project \/ Plan \/ JournalOk \/ SettleRecovers
  <2>1. CASE EndsJob
    BY <1>0, <1>1, <2>1, JobIsEnded
  <2>2. CASE Activate \/ ReplyMove \/ RecoverLive \/ RecoverReplay \/ JournalOk
    BY <1>0, <1>1, <2>2 DEF Activate, ReplyMove, RecoverLive, RecoverReplay, ReplayJournal,
       JournalOk, Goto, EndJob, Job
  <2>3. CASE StartGame \/ Plan
    BY <1>0, <1>1, <2>3, NoJobType DEF StartGame, Plan, Job
  <2>4. CASE Project \/ SettleRecovers
    BY <1>0, <1>1, <2>4 DEF Project, SettleRecovers, EndJob, Job
  <2> QED BY <1>4, <2>1, <2>2, <2>3, <2>4
<1>5. CASE EnterView \/ EnterRespond \/ EnterMode \/ EnterSurrender \/ EnterSweep
  <2>1. PICK op \in {"view", "respond", "mode", "surrender", "sweep"},
             pc \in {"recover", "settle"}, req \in Request : Entering(op, pc, req)
    BY <1>5, Requested
  <2> QED BY <1>1, <2>1, NoJobType DEF Entering, Job
<1>6. ASSUME job' = Settled(job) PROVE LateIsDue'
  <2>1. CASE job.op = "respond" /\ job.hold # "none"
    <3>1. job' = [job EXCEPT !.pc = "apply", !.cmd = job.req, !.why = "none", !.late = FALSE]
      BY <1>6, <2>1 DEF Settled
    <3>2. job'.late = FALSE
      BY <3>1 DEF Job
    <3> QED BY <1>2, <3>2
  <2>2. CASE ~(job.op = "respond" /\ job.hold # "none")
    <3>1. \/ job' = NoJob
          \/ \E pc \in {"check", "project"} :
               job' = [job EXCEPT !.pc = pc, !.cmd = NoCmd, !.why = "none"]
      BY <1>6, <2>2 DEF Settled
    <3> QED BY <1>0, <1>1, <3>1 DEF Job
  <2> QED BY <2>1, <2>2
<1>7. CASE SettleNothing \/ SettleContinue
  BY <1>6, <1>7 DEF SettleNothing, SettleContinue
<1>8. CASE SettleLoss \/ CheckSurrender
  <2>1. Goto("project") \/ \E s, why : Forfeit(s, why)
    BY <1>8 DEF SettleLoss, CheckSurrender
  <2>2. CASE Goto("project")
    BY <1>1, <2>2 DEF Goto, Job
  <2>3. CASE \E s, why : Forfeit(s, why)
    <3>1. PICK s, why : Forfeit(s, why)
      BY <2>3
    <3>2. job'.pc \in {"apply", "finish"} /\ job'.cmd = ForfeitCommand(s, why)
      BY <3>1 DEF Forfeit, Job
    <3>3. job'.cmd.kind = "elim"
      BY <3>2 DEF ForfeitCommand
    <3> QED BY <1>1, <1>3, <3>2, <3>3
  <2> QED BY <2>1, <2>2, <2>3
<1>9. CASE CheckRespond
  <2>1. \/ job' = NoJob
        \/ job' = [job EXCEPT !.pc = "settle", !.hold = "live"]
        \/ job' = [job EXCEPT !.pc = "apply", !.cmd = job.req, !.hold = "live", !.late = Overdue]
    BY <1>9 DEF CheckRespond
  <2>2. UNCHANGED clock
    BY <1>9 DEF CheckRespond
  <2>3. CASE job' = [job EXCEPT !.pc = "apply", !.cmd = job.req, !.hold = "live", !.late = Overdue]
    <3>1. job'.late = Overdue
      BY <2>3 DEF Job
    <3> QED BY <1>2, <2>2, <3>1 DEF Overdue
  <2> QED BY <1>0, <1>1, <2>1, <2>3 DEF Job
<1>10. CASE CheckMode
  <2> DEFINE cmd == ModeCommand(job.req.seat, job.req.arg)
             late == job.hold = "none" /\ Overdue
  <2>1. \/ job' = NoJob
        \/ Goto("project")
        \/ job' = [job EXCEPT !.pc = "settle", !.hold = "live"]
        \/ job' = [job EXCEPT !.pc = "apply", !.cmd = cmd, !.late = late, !.hold = "live"]
    BY <1>10 DEF CheckMode, Goto
  <2>2. UNCHANGED clock
    BY <1>10 DEF CheckMode
  <2>3. late => clock.state = "due"
    BY DEF Overdue
  <2> HIDE DEF cmd, late
  <2>4. CASE job' = [job EXCEPT !.pc = "apply", !.cmd = cmd, !.late = late, !.hold = "live"]
    <3>1. job'.late = late
      BY <2>4 DEF Job
    <3> QED BY <1>2, <2>2, <2>3, <3>1
  <2> QED BY <1>0, <1>1, <2>1, <2>4 DEF Job, Goto
<1>11. CASE ApplyOk
  <2>1. CASE job.cmd.kind = "elim"
    <3>1. job'.late = Overdue /\ UNCHANGED clock
      BY <1>11, <2>1 DEF ApplyOk, Job
    <3> QED BY <1>2, <3>1 DEF Overdue
  <2>2. CASE job.cmd.kind # "elim"
    <3>1. job'.late = job.late /\ UNCHANGED clock /\ job.pc = "apply"
      BY <1>11, <2>2 DEF ApplyOk, Applying, Job
    <3> QED BY <1>2, <2>2, <3>1
  <2> QED BY <2>1, <2>2
<1>12. CASE ReplyDeparture
  <2>1. job' = NoJob \/ Goto("finish") \/ job' = Settled(job) \/ Goto("project")
    BY <1>12 DEF ReplyDeparture, EndJob, Goto
  <2> QED BY <1>0, <1>1, <1>6, <2>1 DEF Goto, Job
<1>13. CASE Act
  <2>1. \/ job' = NoJob
        \/ job' = [NoJob EXCEPT !.op = "act", !.pc = "apply", !.cmd = plan, !.late = Overdue]
    BY <1>13 DEF Act
  <2>2. UNCHANGED clock
    BY <1>13 DEF Act
  <2>3. CASE job' = [NoJob EXCEPT !.op = "act", !.pc = "apply", !.cmd = plan, !.late = Overdue]
    <3>1. job'.late = Overdue
      BY <2>3, NoJobType DEF Job
    <3> QED BY <1>2, <2>2, <3>1 DEF Overdue
  <2> QED BY <1>0, <1>1, <2>1, <2>3
<1>14. CASE KeepsJob \/ UNCHANGED vars
  <2>1. job' = job
    BY <1>14, JobIsKept DEF vars
  <2>2. \/ UNCHANGED clock
        \/ clock'.state = "due"
        \/ job = NoJob
    BY <1>14 DEF KeepsJob, CancelLobby, CancelDuel, TimeUp, WorkerCrash, NoRequests, Reclaim,
       SweepBegin, SweepVisit, vars, RowOK, Clock
  <2> QED BY <1>0, <2>1, <2>2
<1> QED BY <1>4, <1>5, <1>7, <1>8, <1>9, <1>10, <1>11, <1>12, <1>13, <1>14
        DEF Next, Requests, Step, Recover, Settle, Check, Apply, Record, Reply, Faults,
            Sweeping, KeepsJob, EndsJob

(* Types are right in every reachable state, whatever the rules of the game *)
(* and however often the worker or the host dies.                           *)
THEOREM TypesAreRight == Spec => []Typed
<1>1. Typed /\ [Next]_vars => Typed'
  BY RowStep, MemoryStep, JobStep, RestStep, ActiveStep, FinishStep, ClockSeatStep, LateStep
     DEF Typed, TypeOK, JobIsMade
<1> QED BY InitTyped, <1>1, PTL DEF Spec

THEOREM TypeCorrect == Spec => []TypeOK
BY TypesAreRight, PTL DEF Typed

-----------------------------------------------------------------------------
(* The live core and the journal                                            *)

(* A job that is not about to write leaves the core and the journal alone,  *)
(* or the worker is gone afterwards.                                        *)
LEMMA CoreIsKept ==
  ASSUME KeepsJob
  PROVE  worker' # "up" \/ UNCHANGED <<journal, worker, hist>>
BY DEF KeepsJob, CancelLobby, CancelDuel, TimeUp, WorkerCrash, NoRequests, Reclaim,
       SweepBegin, SweepVisit, DisposeGame, memory, record

LEMMA CoreOfEnded ==
  ASSUME EndsJob
  PROVE  worker' # "up" \/ (UNCHANGED <<journal, worker, hist>> /\ job.pc # "journal")
<1>1. CASE RecoverImpossible \/ RecoverFails
  BY <1>1 DEF RecoverImpossible, RecoverFails, DisposeGame
<1>2. CASE HostCrash \/ JournalFails \/ ApplyLoops \/ Finish
  BY <1>2 DEF HostCrash, JournalFails, ApplyLoops, Finish, DisposeGame
<1>3. CASE CheckNoWorker
  BY <1>3 DEF CheckNoWorker, DisposeGame, memory, record
<1>4. CASE ApplyRejected
  BY <1>4 DEF ApplyRejected, Applying, DisposeGame, memory
<1>5. CASE ApplyFatal
  BY <1>5 DEF ApplyFatal, DisposeGame, memory, record
<1>6. CASE ReplyBot
  BY <1>6 DEF ReplyBot, record
<1>7. CASE FinishFails
  BY <1>7 DEF FinishFails, DisposeGame, memory, record
<1> QED BY <1>1, <1>2, <1>3, <1>4, <1>5, <1>6, <1>7 DEF EndsJob

(* Every other step that neither writes a row nor starts a worker.          *)
Thinks == StartGame \/ EnterView \/ EnterRespond \/ EnterMode \/ EnterSurrender \/ EnterSweep
          \/ RecoverLive \/ SettleNothing \/ SettleContinue \/ SettleRecovers \/ SettleLoss
          \/ CheckRespond \/ CheckMode \/ CheckSurrender \/ ReplyMove \/ ReplyDeparture

LEMMA CoreOfThinking ==
  ASSUME Typed, Thinks
  PROVE  UNCHANGED <<journal, worker, hist>> /\ job.pc # "journal" /\ job'.pc # "journal"
<1> USE DEF Typed, TypeOK
<1>1. UNCHANGED <<journal, worker, hist>>
  <2>1. CASE StartGame \/ EnterView \/ EnterRespond \/ EnterMode \/ EnterSurrender \/ EnterSweep
    BY <2>1 DEF StartGame, EnterView, EnterRespond, EnterMode, EnterSurrender, EnterSweep, Enter,
       memory, record
  <2>2. CASE RecoverLive \/ SettleNothing \/ SettleContinue \/ SettleRecovers \/ SettleLoss
    BY <2>2 DEF RecoverLive, SettleNothing, SettleContinue, SettleRecovers, SettleLoss, memory, record
  <2>3. CASE CheckRespond \/ CheckMode \/ CheckSurrender \/ ReplyMove \/ ReplyDeparture
    BY <2>3 DEF CheckRespond, CheckMode, CheckSurrender, ReplyMove, ReplyDeparture, memory, record
  <2> QED BY <2>1, <2>2, <2>3 DEF Thinks
<1>2. job.pc # "journal"
  <2>1. NoJob.pc = "idle"
    BY DEF NoJob
  <2>2. CASE StartGame \/ EnterView \/ EnterRespond \/ EnterMode \/ EnterSurrender \/ EnterSweep
    <3>1. job = NoJob
      BY <2>2 DEF StartGame, EnterView, EnterRespond, EnterMode, EnterSurrender, EnterSweep, Enter
    <3> QED BY <2>1, <3>1
  <2>3. CASE RecoverLive \/ SettleNothing \/ SettleContinue \/ SettleRecovers \/ SettleLoss
    BY <2>3 DEF RecoverLive, SettleNothing, SettleContinue, SettleRecovers, SettleLoss
  <2>4. CASE CheckRespond \/ CheckMode \/ CheckSurrender \/ ReplyMove \/ ReplyDeparture
    BY <2>4 DEF CheckRespond, CheckMode, CheckSurrender, Deciding, ReplyMove, ReplyDeparture
  <2> QED BY <2>2, <2>3, <2>4 DEF Thinks
<1>3. job'.pc # "journal"
  <2>1. CASE SettleLoss \/ CheckSurrender
    BY <2>1 DEF SettleLoss, CheckSurrender, Forfeit, Goto, Job
  <2>2. CASE ReplyDeparture
    <3>1. job' = NoJob \/ Goto("finish") \/ job' = Settled(job) \/ Goto("project")
      BY <2>2 DEF ReplyDeparture, EndJob, Goto
    <3> QED BY <3>1, SettledThinks DEF Goto, Job, NoJob
  <2> QED BY <2>1, <2>2, ThinkingSteps DEF Thinks, Thinking
<1> QED BY <1>1, <1>2, <1>3

(* The worker holds exactly the journal, also across failed writes, crashes *)
(* and replays.                                                             *)
LEMMA WorkerStep ==
  ASSUME Typed, WorkerMatchesJournal, [Next]_vars PROVE WorkerMatchesJournal'
<1> USE DEF Typed, TypeOK, WorkerMatchesJournal
<1>0. NoJob.pc = "idle"
  BY DEF NoJob
<1>1. CASE KeepsJob \/ UNCHANGED vars
  <2>1. worker' # "up" \/ UNCHANGED <<journal, worker, hist, job>>
    BY <1>1, CoreIsKept, JobIsKept DEF vars
  <2> QED BY <2>1
<1>2. CASE EndsJob
  BY <1>0, <1>2, CoreOfEnded, JobIsEnded
<1>3. CASE Thinks
  BY <1>3, CoreOfThinking
<1>4. CASE Activate
  <2>1. \/ status = "lobby" /\ hist' = <<>> /\ Goto("project")
        \/ UNCHANGED <<worker, hist>> /\ job' = NoJob
    BY <1>4 DEF Activate, EndJob
  <2>2. job.pc = "spawned" /\ UNCHANGED journal
    BY <1>4 DEF Activate
  <2>3. Goto("project") => job'.pc = "project"
    BY DEF Goto, Job
  <2> QED BY <1>0, <2>1, <2>2, <2>3 DEF JobOfActive
<1>5. CASE RecoverReplay
  BY <1>5 DEF RecoverReplay, ReplayJournal, Goto, Job, record
<1>6. CASE ApplyOk
  BY <1>6 DEF ApplyOk, Applying, Job, record
<1>7. CASE JournalOk
  BY <1>7 DEF JournalOk, Goto, Job, memory
<1>8. CASE Project
  BY <1>0, <1>8 DEF Project, EndJob, DisposeGame, memory, record, Job
<1>9. CASE Plan
  <2>1. /\ job = NoJob /\ UNCHANGED journal
        /\ worker' # "up" \/ UNCHANGED <<worker, hist>>
        /\ job' = job \/ job' = [NoJob EXCEPT !.op = "plan", !.pc = "finish", !.why = "play"]
    BY <1>9 DEF Plan, StopLoop, DisposeGame
  <2>2. job'.pc # "journal"
    BY <1>0, <2>1, NoJobType DEF Job
  <2> QED BY <1>0, <2>1, <2>2
<1>10. CASE Act
  <2>1. /\ job = NoJob /\ UNCHANGED journal
        /\ worker' # "up" \/ UNCHANGED <<worker, hist>>
        /\ \/ job' = job
           \/ job' = [NoJob EXCEPT !.op = "act", !.pc = "apply", !.cmd = plan, !.late = Overdue]
    BY <1>10 DEF Act, StopLoop, DisposeGame, record
  <2>2. job'.pc # "journal"
    BY <1>0, <2>1, NoJobType DEF Job
  <2> QED BY <1>0, <2>1, <2>2
<1> QED BY <1>1, <1>2, <1>3, <1>4, <1>5, <1>6, <1>7, <1>8, <1>9, <1>10
        DEF Next, Requests, Step, Recover, Settle, Check, Apply, Record, Reply, Faults,
            Sweeping, KeepsJob, EndsJob, Thinks

(* What a player was shown is a prefix of the journal: the room is shown    *)
(* only when no row is pending, and rows are never taken back.              *)
LEMMA ShownStep ==
  ASSUME Typed, WorkerMatchesJournal, ShownIsDurable, [Next]_vars PROVE ShownIsDurable'
<1> USE DEF Typed, TypeOK, RowOK, RestOK
<1>1. CASE UNCHANGED <<journal, shown>>
  BY <1>1 DEF ShownIsDurable
<1>2. CASE UNCHANGED journal /\ shown' = journal
  <2>1. journal = UpTo(journal, Len(journal)) /\ Len(journal) <= Len(journal)
    BY DEF UpTo
  <2>2. journal' = journal /\ shown' = journal
    BY <1>2
  <2> QED BY <2>1, <2>2 DEF ShownIsDurable
<1>3. CASE JournalOk
  <2>1. journal' = Append(journal, job.cmd) /\ UNCHANGED shown /\ Len(shown) \in 0..Len(journal)
    BY <1>3 DEF JournalOk, ShownIsDurable
  <2>2. UpTo(journal', Len(shown)) = UpTo(journal, Len(shown)) /\ Len(journal') = Len(journal) + 1
    BY <2>1 DEF UpTo
  <2> QED BY <2>1, <2>2 DEF ShownIsDurable
<1>4. CASE Project
  BY <1>1, <1>2, <1>4 DEF Project, WorkerMatchesJournal, record
<1>5. CASE Finish
  BY <1>2, <1>5 DEF Finish, WorkerMatchesJournal
<1>6. CASE KeepsRow \/ UNCHANGED vars
  <2>1. UNCHANGED journal
    BY <1>6, RowIsKept DEF record, vars
  <2>2. UNCHANGED shown \/ Project
    BY <1>6 DEF KeepsRow, StartGame, EnterView, EnterRespond, EnterMode, EnterSurrender, EnterSweep,
       Enter, RecoverLive, RecoverReplay, ReplayJournal, SettleNothing, SettleRecovers, SettleLoss,
       CheckNoWorker, CheckRespond, CheckMode, CheckSurrender, ApplyOk, ApplyFatal, JournalFails,
       ReplyMove, ReplyBot, ReplyDeparture, FinishFails, Act, WorkerCrash, HostCrash, NoRequests,
       Reclaim, SweepBegin, SweepVisit, vars
  <2> QED BY <1>1, <1>4, <2>1, <2>2
<1>7. CASE CancelLobby \/ CancelDuel \/ Activate \/ RecoverImpossible \/ RecoverFails
           \/ SettleContinue \/ ApplyRejected \/ ApplyLoops \/ Plan \/ TimeUp
  BY <1>1, <1>7 DEF CancelLobby, CancelDuel, Activate, RecoverImpossible, RecoverFails,
     SettleContinue, ApplyRejected, ApplyLoops, Plan, TimeUp, record
<1> QED BY <1>3, <1>5, <1>6, <1>7
        DEF Next, Requests, Step, Recover, Settle, Check, Apply, Record, Reply, Faults,
            Sweeping, KeepsRow

(* A worker only ever runs on the engine data of its duel.                  *)
LEMMA PinnedStep ==
  ASSUME Typed, RunsOnPinnedData, [Next]_vars PROVE RunsOnPinnedData'
<1> USE DEF RunsOnPinnedData
<1>1. CASE UNCHANGED <<bundle, pinned>> /\ (worker' = "up" => worker = "up")
  BY <1>1
<1>2. CASE HostCrash
  BY <1>2 DEF HostCrash, DisposeGame
<1>3. CASE Activate
  BY <1>3 DEF Activate
<1>4. CASE RecoverReplay
  BY <1>4 DEF RecoverReplay, ReplayJournal
<1>5. CASE KeepsMemory \/ UNCHANGED vars
  <2>1. UNCHANGED worker
    BY <1>5, MemoryIsKept DEF memory, vars
  <2>2. UNCHANGED <<bundle, pinned>>
    BY <1>5 DEF KeepsMemory, StartGame, CancelLobby, EnterView, EnterRespond, EnterMode,
       EnterSurrender, EnterSweep, Enter, SettleContinue, SettleRecovers, SettleLoss,
       CheckRespond, CheckMode, CheckSurrender, JournalOk, TimeUp, SweepBegin, vars
  <2> QED BY <1>1, <2>1, <2>2
<1>6. CASE DropsMemory /\ ~HostCrash
  <2>1. worker' = "up" => worker = "up"
    BY <1>6, MemoryIsDropped DEF memory, DisposeGame
  <2>2. UNCHANGED <<bundle, pinned>>
    BY <1>6 DEF DropsMemory, CancelDuel, CheckNoWorker, ApplyRejected, ApplyLoops, ApplyFatal,
       JournalFails, Project, Finish, FinishFails, Reclaim, SweepVisit
  <2> QED BY <1>1, <2>1, <2>2
<1>7. CASE RecoverLive \/ RecoverImpossible \/ RecoverFails \/ SettleNothing \/ ApplyOk
  BY <1>1, <1>7 DEF RecoverLive, RecoverImpossible, RecoverFails, SettleNothing, ApplyOk, DisposeGame
<1>8. CASE ReplyMove \/ ReplyBot \/ ReplyDeparture \/ Plan \/ Act \/ WorkerCrash \/ NoRequests
  BY <1>1, <1>8 DEF ReplyMove, ReplyBot, ReplyDeparture, Plan, Act, WorkerCrash, NoRequests,
     StopLoop, DisposeGame
<1> QED BY <1>2, <1>3, <1>4, <1>5, <1>6, <1>7, <1>8
        DEF Next, Requests, Step, Recover, Settle, Check, Apply, Record, Reply, Faults,
            Sweeping, KeepsMemory, DropsMemory

Durable == Typed /\ WorkerMatchesJournal /\ ShownIsDurable /\ RunsOnPinnedData

LEMMA InitDurable == Init => Durable
<1> SUFFICES ASSUME Init PROVE Durable
  OBVIOUS
<1>1. WorkerMatchesJournal /\ RunsOnPinnedData
  BY DEF Init, WorkerMatchesJournal, RunsOnPinnedData
<1>2. ShownIsDurable
  BY DEF Init, ShownIsDurable, UpTo
<1> QED BY <1>1, <1>2, InitTyped DEF Durable

THEOREM DurableAlways == Spec => []Durable
<1>1. Durable /\ [Next]_vars => Durable'
  <2>1. Typed /\ [Next]_vars => Typed'
    BY RowStep, MemoryStep, JobStep, RestStep, ActiveStep, FinishStep, ClockSeatStep, LateStep
       DEF Typed, TypeOK, JobIsMade
  <2> QED BY <2>1, WorkerStep, ShownStep, PinnedStep DEF Durable
<1> QED BY InitDurable, <1>1, PTL DEF Spec

(* For every duel: the worker never drifts from the journal.                *)
THEOREM WorkerNeverDrifts == Spec => []WorkerMatchesJournal
BY DurableAlways, PTL DEF Durable

(* For every duel: a crash never takes back a board that a player has seen. *)
THEOREM NothingSeenIsLost == Spec => []ShownIsDurable
BY DurableAlways, PTL DEF Durable

(* For every duel and every sequence of deployments: no duel is played on,  *)
(* or replayed on, other engine data than it was started with.              *)
THEOREM DataIsPinned == Spec => []RunsOnPinnedData
BY DurableAlways, PTL DEF Durable

-----------------------------------------------------------------------------
(* Replay: the revision that a row carries is the revision the duel has     *)
(* when the core takes it, although it is compared some awaits earlier.     *)

(* Prefixes of a longer journal. *)
LEMMA PrefixOfAppend ==
  ASSUME NEW h \in Seq(Command), NEW c \in Command
  PROVE  /\ \A n \in 0..Len(h) : UpTo(Append(h, c), n) = UpTo(h, n)
         /\ UpTo(h, Len(h)) = h
BY DEF UpTo

LEMMA ReplayableAppend ==
  ASSUME NEW h \in Seq(Command), NEW c \in Command, Replayable(h), Legal(h, c)
  PROVE  Replayable(Append(h, c))
<1> SUFFICES ASSUME NEW i \in DOMAIN Append(h, c)
             PROVE  Legal(UpTo(Append(h, c), i - 1), Append(h, c)[i])
  BY DEF Replayable
<1>1. i \in 1..(Len(h) + 1) /\ Len(h) \in Nat
  OBVIOUS
<1>2. UpTo(Append(h, c), i - 1) = UpTo(h, i - 1)
  BY <1>1, PrefixOfAppend
<1>3. CASE i \in 1..Len(h)
  <2>1. Append(h, c)[i] = h[i] /\ i \in DOMAIN h
    BY <1>3
  <2> QED BY <1>2, <2>1 DEF Replayable
<1>4. CASE i = Len(h) + 1
  <2>1. Append(h, c)[i] = c /\ i - 1 = Len(h)
    BY <1>1, <1>4
  <2> QED BY <1>2, <2>1, PrefixOfAppend
<1> QED BY <1>1, <1>3, <1>4

(* Nobody answers for a seat that has left. *)
LEMMA GoneCannotAnswer ==
  ASSUME NEW h, NEW c, c.kind = "answer", c.seat \in Gone(h)
  PROVE  ~Takes(h, c)
BY DEF Takes, Over, PromptSeat, Living

(* The clock after a move is the old one only when a deadline is kept.      *)
LEMMA SyncClockCases ==
  ASSUME clock \in Clock, NEW h, NEW overdue \in BOOLEAN, NEW decider,
         overdue => clock.seat \in Seats,
         NEW c \in SyncClock(h, overdue, decider)
  PROVE  \/ overdue /\ decider \notin Gone(h) /\ c = clock
         \/ c.state = "off"
         \/ c.state = "run" /\ c.seat = PromptSeat(h)
<1>1. CASE overdue /\ {clock.seat, decider} \cap Gone(h) = {} /\ c = clock
  BY <1>1
<1>2. CASE ~(overdue /\ {clock.seat, decider} \cap Gone(h) = {} /\ c = clock)
  <2>1. PICK empty \in {{}, clock.empty \cup (IF overdue THEN {clock.seat} ELSE {})} :
           c = ClockFor(h, empty)
    BY <1>2 DEF SyncClock
  <2>2. empty \in SUBSET Seats
    BY DEF Clock
  <2> QED BY <2>1, <2>2, ClockForType
<1> QED BY <1>1, <1>2

(* The running clock belongs to the seat the duel waits for. *)
LEMMA ClockStep ==
  ASSUME Typed, ClockOnPrompt, LateIsABots, QuietModesKeepPrompt, [Next]_vars
  PROVE  ClockOnPrompt'
<1> USE DEF Typed, TypeOK, ClockOnPrompt
<1>1. CASE UNCHANGED <<clock, journal>>
  BY <1>1
<1>2. CASE clock'.state = "off"
  BY <1>2
<1>3. NoClock.state = "off"
  BY DEF NoClock
<1>4. CASE KeepsRow \/ CancelLobby \/ UNCHANGED vars
  BY <1>1, <1>4, RowIsKept DEF CancelLobby, record, vars
<1>5. CASE CancelDuel \/ Finish
  BY <1>2, <1>3, <1>5 DEF CancelDuel, Finish
<1>6. CASE Activate
  <2>1. UNCHANGED <<clock, journal>> \/ (status = "lobby" /\ clock' = StartClock /\ UNCHANGED journal)
    BY <1>6 DEF Activate
  <2> QED BY <1>1, <2>1, ClockForType DEF StartClock, JobOfActive
<1>7. CASE RecoverImpossible \/ RecoverFails \/ ApplyRejected \/ ApplyLoops \/ Plan
  <2>1. clock' = NoClock \/ UNCHANGED <<clock, journal>>
    BY <1>7 DEF RecoverImpossible, RecoverFails, ApplyRejected, ApplyLoops, Plan, Interrupted
  <2> QED BY <1>1, <1>2, <1>3, <2>1
<1>8. CASE SettleContinue
  BY <1>2, <1>8 DEF SettleContinue, RowOK, Clock
<1>9. CASE JournalOk
  <2>1. /\ job.pc = "journal" /\ job.late \in BOOLEAN /\ job.cmd \in Command
        /\ journal \in Seq(Command) /\ clock \in Clock
        /\ journal' = Append(journal, job.cmd)
    BY <1>9 DEF JournalOk, Job, CommandIsMade, Changing, RowOK
  <2>2. job.late => clock.seat \in Seats /\ clock.state = "due"
    BY <2>1 DEF LateIsDue, ClockHasSeat
  <2>3. CASE Quiet
    <3>1. UNCHANGED clock
      BY <1>9, <2>3 DEF JournalOk
    <3>2. PromptSeat(journal') = PromptSeat(journal)
      BY <2>1, <2>3 DEF Quiet, QuietModesKeepPrompt
    <3> QED BY <3>1, <3>2
  <2>4. CASE ~Quiet
    <3>1. clock' \in SyncClock(journal', job.late, job.cmd.seat)
      BY <1>9, <2>4 DEF JournalOk
    <3>2. \/ job.late /\ job.cmd.seat \notin Gone(journal') /\ clock' = clock
          \/ clock'.state = "off"
          \/ clock'.state = "run" /\ clock'.seat = PromptSeat(journal')
      <4> HIDE DEF Typed, TypeOK, ClockOnPrompt
      <4>1. job.late => clock.seat \in Seats
        BY <2>2
      <4>2. \A c \in SyncClock(journal', job.late, job.cmd.seat) :
              \/ job.late /\ job.cmd.seat \notin Gone(journal') /\ c = clock
              \/ c.state = "off"
              \/ c.state = "run" /\ c.seat = PromptSeat(journal')
        BY <2>1, <4>1, SyncClockCases
      <4> QED BY <3>1, <4>2
    <3>3. CASE job.late /\ job.cmd.seat \notin Gone(journal') /\ clock' = clock
      <4>1. job.cmd.kind # "elim"
        BY <2>1, <3>3, DepartureIsGone
      <4>2. clock.seat \in Bots
        BY <2>1, <3>3, <4>1 DEF LateIsABots
      <4> QED BY <2>2, <3>3, <4>2
    <3> QED BY <3>2, <3>3
  <2> QED BY <2>3, <2>4
<1>10. CASE TimeUp
  BY <1>10 DEF TimeUp, RowOK, Clock, record
<1> QED BY <1>4, <1>5, <1>6, <1>7, <1>8, <1>9, <1>10
        DEF Next, Requests, Step, Recover, Settle, Check, Apply, Record, Reply, Faults,
            Sweeping, KeepsRow

(* A journal row is legal where it is written, so the journal replays. *)
LEMMA JournalStep ==
  ASSUME Typed, MoveIsCurrent, JournalReplays, [Next]_vars PROVE JournalReplays'
<1> USE DEF Typed, TypeOK, JournalReplays
<1>1. CASE JournalOk
  <2>1. /\ job.pc = "journal" /\ job.cmd \in Command /\ journal \in Seq(Command)
        /\ journal' = Append(journal, job.cmd)
    BY <1>1 DEF JournalOk, CommandIsMade, Changing, RowOK
  <2> QED BY <2>1, ReplayableAppend DEF MoveIsCurrent
<1>2. CASE ~JournalOk
  <2>1. UNCHANGED journal
    BY <1>2, RowIsKept DEF Next, Requests, Step, Recover, Settle, Check, Apply, Record, Reply,
       Faults, Sweeping, KeepsRow, CancelLobby, CancelDuel, Activate, RecoverImpossible,
       RecoverFails, SettleContinue, ApplyRejected, ApplyLoops, Finish, Plan, TimeUp, record, vars
  <2> QED BY <2>1
<1> QED BY <1>1, <1>2

-----------------------------------------------------------------------------
(* Deadlines and moves that were decided some awaits ago                    *)

(* Steps after which the job neither holds a move nor decides on one. *)
AtRest == {"idle", "spawned", "project", "finish"}

Rests == EndsJob \/ Activate \/ ReplyMove \/ StartGame \/ Project \/ Plan

LEMMA RestsAfter == ASSUME Typed, Rests PROVE job'.pc \in AtRest
<1> USE DEF Typed, TypeOK, AtRest
<1>0. NoJob.pc = "idle"
  BY DEF NoJob
<1>1. CASE EndsJob
  BY <1>0, <1>1, JobIsEnded
<1>2. CASE Activate \/ ReplyMove
  BY <1>0, <1>2 DEF Activate, ReplyMove, Goto, EndJob, Job
<1>3. CASE StartGame \/ Plan
  BY <1>0, <1>3, NoJobType DEF StartGame, Plan, Job
<1>4. CASE Project
  BY <1>0, <1>4 DEF Project, EndJob, Job
<1> QED BY <1>1, <1>2, <1>3, <1>4 DEF Rests

(* Every job whose clock is settled takes up what it had decided. *)
LEMMA SettledCases ==
  ASSUME Typed, job' = Settled(job)
  PROVE  \/ /\ job.op = "respond" /\ job.hold # "none"
            /\ job'.pc = "apply" /\ job'.op = job.op /\ job'.hold = job.hold
            /\ job'.req = job.req /\ job'.cmd = job.req /\ job'.late = FALSE
         \/ job'.pc \in {"idle", "project"}
         \/ /\ job'.pc = "check" /\ job'.op = job.op /\ job'.hold = job.hold
            /\ ~(job.op = "respond" /\ job.hold # "none")
<1> USE DEF Typed, TypeOK
<1>0. NoJob.pc = "idle"
  BY DEF NoJob
<1>1. CASE job.op = "respond" /\ job.hold # "none"
  <2>1. job' = [job EXCEPT !.pc = "apply", !.cmd = job.req, !.why = "none", !.late = FALSE]
    BY <1>1 DEF Settled
  <2> QED BY <1>1, <2>1 DEF Job
<1>2. CASE ~(job.op = "respond" /\ job.hold # "none")
  <2>1. \/ job' = NoJob
        \/ \E pc \in {"check", "project"} :
             job' = [job EXCEPT !.pc = pc, !.cmd = NoCmd, !.why = "none"]
    BY <1>2 DEF Settled
  <2> QED BY <1>0, <1>2, <2>1 DEF Job
<1> QED BY <1>1, <1>2

LEMMA ForfeitCases ==
  ASSUME Typed, NEW s, NEW why, Forfeit(s, why)
  PROVE  /\ job'.pc \in {"apply", "finish"} /\ job'.cmd = ForfeitCommand(s, why)
         /\ job'.op = job.op /\ job'.hold = job.hold /\ job'.req = job.req
         /\ job'.cmd.kind = "elim" /\ job'.cmd.seat = s /\ job'.cmd.rev = Revision(hist)
<1>1. /\ job'.pc \in {"apply", "finish"} /\ job'.cmd = ForfeitCommand(s, why)
      /\ job'.op = job.op /\ job'.hold = job.hold /\ job'.req = job.req
  BY DEF Forfeit, Typed, TypeOK, Job
<1> QED BY <1>1 DEF ForfeitCommand

(* Only the deadline of a bot is left standing by a move. *)
LEMMA LateBotStep ==
  ASSUME Typed, WorkerMatchesJournal, ClockOnPrompt, MoveIsCurrent, LateIsABots, [Next]_vars
  PROVE  LateIsABots'
<1> USE DEF Typed, TypeOK, LateIsABots
<1>0. NoJob.pc = "idle"
  BY DEF NoJob
<1>1. CASE job'.pc \notin {"apply", "journal"} \/ job'.cmd.kind = "elim"
  BY <1>1
<1>2. CASE job'.late => clock'.seat \in Bots
  BY <1>2
<1>3. Overdue /\ ~TimeIsUp => clock.seat \in Bots
  BY DEF TimeIsUp, Overdue, Humans, ClockHasSeat
<1>4. CASE Rests
  BY <1>1, <1>4, RestsAfter DEF AtRest
<1>5. CASE RecoverLive \/ RecoverReplay \/ JournalOk \/ SettleRecovers
  BY <1>1, <1>5 DEF RecoverLive, RecoverReplay, ReplayJournal, JournalOk, SettleRecovers, Goto, Job
<1>6. CASE EnterView \/ EnterRespond \/ EnterMode \/ EnterSurrender \/ EnterSweep
  <2>1. PICK op \in {"view", "respond", "mode", "surrender", "sweep"},
             pc \in {"recover", "settle"}, req \in Request : Entering(op, pc, req)
    BY <1>6, Requested
  <2> QED BY <1>1, <2>1, NoJobType DEF Entering, Job
<1>7. CASE job' = Settled(job)
  BY <1>1, <1>2, <1>7, SettledCases
<1>8. CASE SettleNothing \/ SettleContinue
  BY <1>7, <1>8 DEF SettleNothing, SettleContinue
<1>9. CASE SettleLoss \/ CheckSurrender
  <2>1. Goto("project") \/ \E s, why : Forfeit(s, why)
    BY <1>9 DEF SettleLoss, CheckSurrender
  <2> QED BY <1>1, <2>1, ForfeitCases DEF Goto, Job
<1>10. CASE CheckRespond
  <2>1. \/ job' = NoJob
        \/ job' = [job EXCEPT !.pc = "settle", !.hold = "live"]
        \/ /\ job' = [job EXCEPT !.pc = "apply", !.cmd = job.req, !.hold = "live", !.late = Overdue]
           /\ ~SettleAgain
    BY <1>10 DEF CheckRespond
  <2>2. UNCHANGED clock /\ job.hold = "none"
    BY <1>10 DEF CheckRespond, Deciding, MoveIsCurrent
  <2>3. CASE /\ job' = [job EXCEPT !.pc = "apply", !.cmd = job.req, !.hold = "live", !.late = Overdue]
             /\ ~SettleAgain
    <3>1. job'.late = Overdue
      BY <2>3 DEF Job
    <3> QED BY <1>2, <1>3, <2>2, <2>3, <3>1 DEF SettleAgain
  <2> QED BY <1>0, <1>1, <2>1, <2>3 DEF Job
<1>11. CASE CheckMode
  <2> DEFINE cmd == ModeCommand(job.req.seat, job.req.arg)
             late == job.hold = "none" /\ Overdue
  <2>1. \/ job' = NoJob
        \/ Goto("project")
        \/ job' = [job EXCEPT !.pc = "settle", !.hold = "live"]
        \/ /\ job' = [job EXCEPT !.pc = "apply", !.cmd = cmd, !.late = late, !.hold = "live"]
           /\ ~SettleAgain
    BY <1>11 DEF CheckMode, Goto
  <2>2. UNCHANGED clock
    BY <1>11 DEF CheckMode
  <2>3. late /\ ~SettleAgain => clock.seat \in Bots
    BY <1>3 DEF SettleAgain
  <2> HIDE DEF cmd, late
  <2>4. CASE /\ job' = [job EXCEPT !.pc = "apply", !.cmd = cmd, !.late = late, !.hold = "live"]
             /\ ~SettleAgain
    <3>1. job'.late = late
      BY <2>4 DEF Job
    <3> QED BY <1>2, <2>2, <2>3, <2>4, <3>1
  <2> QED BY <1>0, <1>1, <2>1, <2>4 DEF Job, Goto
<1>12. CASE ApplyOk
  <2>1. job'.cmd = job.cmd /\ UNCHANGED clock /\ job.pc = "apply"
    BY <1>12 DEF ApplyOk, Applying, Job
  <2>2. job.cmd.kind # "elim" => job'.late = job.late
    BY <1>12 DEF ApplyOk, Job
  <2> QED BY <2>1, <2>2
<1>13. CASE ReplyDeparture
  <2>1. job' = NoJob \/ Goto("finish") \/ job' = Settled(job) \/ Goto("project")
    BY <1>13 DEF ReplyDeparture, EndJob, Goto
  <2> QED BY <1>0, <1>1, <1>7, <2>1 DEF Goto, Job
<1>14. CASE Act
  <2>1. \/ job' = NoJob
        \/ /\ job' = [NoJob EXCEPT !.op = "act", !.pc = "apply", !.cmd = plan, !.late = Overdue]
           /\ worker = "up" /\ Legal(hist, plan)
    BY <1>14 DEF Act
  <2>2. UNCHANGED clock /\ job = NoJob /\ loop = "sleep"
    BY <1>14 DEF Act
  <2>3. CASE /\ job' = [NoJob EXCEPT !.op = "act", !.pc = "apply", !.cmd = plan, !.late = Overdue]
             /\ worker = "up" /\ Legal(hist, plan)
    <3>1. job'.late = Overdue
      BY <2>3, NoJobType DEF Job
    <3>2. hist = journal
      BY <1>0, <2>2, <2>3 DEF WorkerMatchesJournal
    <3>3. PromptSeat(hist) \in Bots
      BY <2>2, <2>3 DEF Legal, Takes, RequestIsMade
    <3>4. clock.state = "due" => clock.seat \in Bots
      BY <3>2, <3>3 DEF ClockOnPrompt
    <3> QED BY <1>2, <2>2, <3>1, <3>4 DEF Overdue
  <2> QED BY <1>0, <1>1, <2>1, <2>3
<1>15. CASE KeepsJob \/ UNCHANGED vars
  <2>1. job' = job
    BY <1>15, JobIsKept DEF vars
  <2>2. clock'.seat = clock.seat \/ job = NoJob
    BY <1>15 DEF KeepsJob, CancelLobby, CancelDuel, TimeUp, WorkerCrash, NoRequests, Reclaim,
       SweepBegin, SweepVisit, vars, RowOK, Clock
  <2> QED BY <1>0, <2>1, <2>2
<1> QED BY <1>4, <1>5, <1>6, <1>8, <1>9, <1>10, <1>11, <1>12, <1>13, <1>14, <1>15
        DEF Next, Requests, Step, Recover, Settle, Check, Apply, Record, Reply, Faults,
            Sweeping, KeepsJob, EndsJob, Rests

(* What a respond knows that has checked its move and settles the clock. *)
RespondKnows ==
  job.op = "respond" /\ job.hold = "live" /\ worker = "up" =>
    /\ job.pc = "settle" => Legal(hist, job.req)
    /\ job.pc = "apply" /\ job.cmd.kind = "elim" => job.cmd.seat = job.req.seat
    /\ job.pc \in {"journal", "reply"} /\ job.cmd.kind = "elim" => job.req.seat \in Gone(hist)

(* A move on its way into the core is current, or its sender has left. *)
ApplyKnows ==
  Applying => \/ job.cmd.rev = Revision(hist)
              \/ job.cmd.kind = "answer" /\ job.cmd.seat \in Gone(hist)

(* A job at rest has nothing to know. *)
LEMMA AtRestIsCurrent == ASSUME job'.pc \in AtRest PROVE MoveIsCurrent'
BY DEF AtRest, MoveIsCurrent, Applying

(* The settled clock may remove only the seat whose answer was checked: it  *)
(* is the seat that the duel waits for.                                     *)
LEMMA SettledClockIsTheSenders ==
  ASSUME Typed, WorkerMatchesJournal, ClockOnPrompt, MoveIsCurrent, SettleLoss,
         job.op = "respond", job.hold = "live"
  PROVE  clock.seat = job.req.seat
<1>1. /\ job.pc = "settle" /\ worker = "up" /\ clock.seat \in Humans /\ clock.state = "due"
  BY DEF SettleLoss, TimeIsUp, Overdue
<1>2. hist = journal
  BY <1>1 DEF WorkerMatchesJournal
<1>3. PromptSeat(hist) = job.req.seat
  BY <1>1 DEF MoveIsCurrent, Legal, Takes, Typed, RequestIsMade
<1> QED BY <1>1, <1>2, <1>3 DEF ClockOnPrompt, Humans

LEMMA SettleIsCurrent ==
  ASSUME Typed, WorkerMatchesJournal, ClockOnPrompt, MoveIsCurrent, Settle
  PROVE  MoveIsCurrent'
<1> USE DEF Typed, TypeOK
<1>1. job.pc = "settle" /\ UNCHANGED <<worker, hist>>
  BY DEF Settle, SettleNothing, SettleContinue, SettleRecovers, SettleLoss, memory
<1>2. CASE SettleNothing \/ SettleContinue
  <2>1. job' = Settled(job)
    BY <1>2 DEF SettleNothing, SettleContinue
  <2>2. CASE /\ job.op = "respond" /\ job.hold # "none"
             /\ job'.pc = "apply" /\ job'.op = job.op /\ job'.hold = job.hold
             /\ job'.req = job.req /\ job'.cmd = job.req
    <3>1. job.req.kind = "answer"
      BY <2>2 DEF RequestIsMade
    <3>2. job.hold = "live" \/ job.hold = "lost"
      BY <2>2 DEF Job
    <3>3. worker = "up" /\ job.hold = "live" => job.req.rev = Revision(hist)
      BY <1>1, <2>2 DEF MoveIsCurrent, Legal
    <3>4. ApplyKnows'
      BY <1>1, <2>2, <3>1, <3>2, <3>3 DEF ApplyKnows, Applying
    <3>5. RespondKnows'
      BY <2>2, <3>1 DEF RespondKnows
    <3> QED BY <2>2, <3>4, <3>5 DEF MoveIsCurrent, RespondKnows, ApplyKnows
  <2>3. CASE job'.pc \in {"idle", "project"}
    BY <2>3, AtRestIsCurrent DEF AtRest
  <2>4. CASE /\ job'.pc = "check" /\ job'.op = job.op /\ job'.hold = job.hold
             /\ ~(job.op = "respond" /\ job.hold # "none")
    BY <2>4 DEF MoveIsCurrent, Applying
  <2> QED BY <2>1, <2>2, <2>3, <2>4, SettledCases
<1>3. CASE SettleRecovers
  <2>1. job'.pc = "recover" /\ job'.hold # "live"
    BY <1>3 DEF SettleRecovers, Job
  <2> QED BY <2>1 DEF MoveIsCurrent, Applying
<1>4. CASE SettleLoss
  <2>1. Forfeit(clock.seat, "time")
    BY <1>4 DEF SettleLoss
  <2>2. /\ job'.pc \in {"apply", "finish"} /\ job'.op = job.op /\ job'.hold = job.hold
        /\ job'.req = job.req /\ job'.cmd.seat = clock.seat /\ job'.cmd.rev = Revision(hist)
    BY <2>1, ForfeitCases
  <2>3. job.op = "respond" /\ job.hold = "live" => clock.seat = job.req.seat
    BY <1>4, SettledClockIsTheSenders
  <2> QED BY <1>1, <2>2, <2>3 DEF MoveIsCurrent, Applying
<1> QED BY <1>2, <1>3, <1>4 DEF Settle

LEMMA CheckIsCurrent ==
  ASSUME Typed, MoveIsCurrent, CheckRespond \/ CheckMode \/ CheckSurrender
  PROVE  MoveIsCurrent'
<1> USE DEF Typed, TypeOK
<1>0. NoJob.pc = "idle"
  BY DEF NoJob
<1>1. UNCHANGED <<worker, hist>>
  BY DEF CheckRespond, CheckMode, CheckSurrender, memory
<1>2. CASE job' = NoJob \/ Goto("project")
  <2>1. job'.pc \in AtRest
    BY <1>0, <1>2 DEF Goto, Job, AtRest
  <2> QED BY <2>1, AtRestIsCurrent
<1>3. CASE CheckRespond
  <2>1. \/ job' = NoJob
        \/ /\ job' = [job EXCEPT !.pc = "settle", !.hold = "live"]
           /\ Legal(hist, job.req)
        \/ /\ job' = [job EXCEPT !.pc = "apply", !.cmd = job.req, !.hold = "live", !.late = Overdue]
           /\ Legal(hist, job.req)
    BY <1>3 DEF CheckRespond
  <2>2. job.op = "respond"
    BY <1>3 DEF CheckRespond, Deciding
  <2>3. CASE /\ job' = [job EXCEPT !.pc = "settle", !.hold = "live"]
             /\ Legal(hist, job.req)
    <3>1. job'.pc = "settle" /\ job'.req = job.req
      BY <2>3 DEF Job
    <3> QED BY <1>1, <2>3, <3>1 DEF MoveIsCurrent, Applying
  <2>4. CASE /\ job' = [job EXCEPT !.pc = "apply", !.cmd = job.req, !.hold = "live", !.late = Overdue]
             /\ Legal(hist, job.req)
    <3>1. job'.pc = "apply" /\ job'.cmd = job.req
      BY <2>4 DEF Job
    <3>2. job.req.kind = "answer" /\ job.req.rev = Revision(hist)
      BY <2>2, <2>4 DEF RequestIsMade, Legal
    <3> QED BY <1>1, <3>1, <3>2 DEF MoveIsCurrent, Applying
  <2> QED BY <1>2, <2>1, <2>3, <2>4
<1>4. CASE CheckMode
  <2> DEFINE cmd == ModeCommand(job.req.seat, job.req.arg)
             late == job.hold = "none" /\ Overdue
  <2>1. \/ job' = NoJob
        \/ Goto("project")
        \/ job' = [job EXCEPT !.pc = "settle", !.hold = "live"]
        \/ job' = [job EXCEPT !.pc = "apply", !.cmd = cmd, !.late = late, !.hold = "live"]
    BY <1>4 DEF CheckMode, Goto
  <2>2. job.op = "mode"
    BY <1>4 DEF CheckMode, Deciding
  <2>3. cmd.rev = Revision(hist)
    BY DEF ModeCommand
  <2> HIDE DEF cmd, late
  <2>4. CASE job' = [job EXCEPT !.pc = "settle", !.hold = "live"]
    <3>1. job'.pc = "settle" /\ job'.op = "mode"
      BY <2>2, <2>4 DEF Job
    <3> QED BY <3>1 DEF MoveIsCurrent, Applying
  <2>5. CASE job' = [job EXCEPT !.pc = "apply", !.cmd = cmd, !.late = late, !.hold = "live"]
    <3>1. job'.pc = "apply" /\ job'.cmd = cmd /\ job'.op = "mode"
      BY <2>2, <2>5 DEF Job
    <3> QED BY <1>1, <2>3, <3>1 DEF MoveIsCurrent, Applying
  <2> QED BY <1>2, <2>1, <2>4, <2>5
<1>5. CASE CheckSurrender
  <2>1. Goto("project") \/ Forfeit(job.req.seat, "surrender")
    BY <1>5 DEF CheckSurrender
  <2>2. job.op = "surrender"
    BY <1>5 DEF CheckSurrender, Deciding
  <2>3. CASE Forfeit(job.req.seat, "surrender")
    <3>1. /\ job'.pc \in {"apply", "finish"} /\ job'.op = "surrender"
          /\ job'.cmd.rev = Revision(hist)
      BY <2>2, <2>3, ForfeitCases
    <3> QED BY <1>1, <3>1 DEF MoveIsCurrent, Applying
  <2> QED BY <1>2, <2>1, <2>3
<1> QED BY <1>3, <1>4, <1>5

(* The core takes the move only at the revision that it carries. *)
LEMMA ApplyIsCurrent ==
  ASSUME Typed, WorkerMatchesJournal, MoveIsCurrent, ApplyOk
  PROVE  MoveIsCurrent'
<1> USE DEF Typed, TypeOK
<1>1. /\ Applying /\ job.pc = "apply" /\ worker = "up" /\ Takes(hist, job.cmd)
      /\ hist' = Append(hist, job.cmd) /\ UNCHANGED <<journal, worker>>
  BY DEF ApplyOk, Applying, record
<1>2. /\ job'.pc = "journal" /\ job'.cmd = job.cmd /\ job'.op = job.op
      /\ job'.hold = job.hold /\ job'.req = job.req
  BY DEF ApplyOk, Job
<1>3. hist = journal
  BY <1>1 DEF WorkerMatchesJournal
<1>4. job.cmd.rev = Revision(hist)
  BY <1>1, GoneCannotAnswer DEF MoveIsCurrent
<1>5. Legal(journal, job.cmd)
  BY <1>1, <1>3, <1>4 DEF Legal
<1>6. job.cmd.kind = "elim" => job.cmd.seat \in Gone(hist')
  BY <1>1, DepartureIsGone DEF MemoryOK, CommandIsMade, Changing
<1>7. RespondKnows'
  BY <1>1, <1>2, <1>6 DEF RespondKnows, MoveIsCurrent
<1>8. ApplyKnows' /\ job'.pc # "check" /\ job'.pc # "recover"
  BY <1>2 DEF ApplyKnows, Applying
<1>9. job'.pc = "journal" => Legal(journal', job'.cmd)
  BY <1>1, <1>2, <1>5
<1> QED BY <1>7, <1>8, <1>9 DEF MoveIsCurrent, RespondKnows, ApplyKnows

LEMMA MoveStep ==
  ASSUME Typed, WorkerMatchesJournal, ClockOnPrompt, MoveIsCurrent, [Next]_vars
  PROVE  MoveIsCurrent'
<1> USE DEF Typed, TypeOK
<1>0. NoJob.pc = "idle"
  BY DEF NoJob
<1>1. CASE Rests
  BY <1>1, RestsAfter, AtRestIsCurrent
<1>2. CASE Settle
  BY <1>2, SettleIsCurrent
<1>3. CASE CheckRespond \/ CheckMode \/ CheckSurrender
  BY <1>3, CheckIsCurrent
<1>4. CASE ApplyOk
  BY <1>4, ApplyIsCurrent
<1>5. CASE EnterView \/ EnterRespond \/ EnterMode \/ EnterSurrender \/ EnterSweep
  <2>1. PICK op \in {"view", "respond", "mode", "surrender", "sweep"},
             pc \in {"recover", "settle"}, req \in Request : Entering(op, pc, req)
    BY <1>5, Requested
  <2>2. job'.pc \in {"recover", "settle"} /\ job'.hold = "none"
    BY <2>1, NoJobType DEF Entering, Job, NoJob
  <2> QED BY <2>2 DEF MoveIsCurrent, Applying
<1>6. CASE RecoverLive \/ RecoverReplay
  <2>1. job.pc = "recover" /\ job'.pc = "settle" /\ job'.hold = job.hold
    BY <1>6 DEF RecoverLive, RecoverReplay, ReplayJournal, Goto, Job
  <2> QED BY <2>1 DEF MoveIsCurrent, Applying
<1>7. CASE JournalOk
  <2>1. /\ job.pc = "journal" /\ job'.pc = "reply" /\ job'.cmd = job.cmd /\ job'.op = job.op
        /\ job'.hold = job.hold /\ job'.req = job.req /\ UNCHANGED <<worker, hist>>
    BY <1>7 DEF JournalOk, Goto, Job, memory
  <2>2. RespondKnows'
    BY <2>1 DEF RespondKnows, MoveIsCurrent
  <2>3. ApplyKnows'
    BY <2>1 DEF ApplyKnows, Applying
  <2> QED BY <2>1, <2>2, <2>3 DEF MoveIsCurrent, RespondKnows, ApplyKnows
<1>8. CASE ReplyDeparture
  <2>1. /\ job.pc = "reply" /\ job.cmd.kind = "elim" /\ UNCHANGED <<worker, hist>>
        /\ \/ job' = NoJob \/ Goto("finish") \/ Goto("project")
           \/ worker = "up" /\ job' = Settled(job)
    BY <1>8 DEF ReplyDeparture, EndJob, Goto
  <2>2. CASE job' = NoJob \/ Goto("finish") \/ Goto("project")
    <3>1. job'.pc \in AtRest
      BY <1>0, <2>2 DEF Goto, Job, AtRest
    <3> QED BY <3>1, AtRestIsCurrent
  <2>3. CASE worker = "up" /\ job' = Settled(job)
    <3>1. CASE /\ job.op = "respond" /\ job.hold # "none"
               /\ job'.pc = "apply" /\ job'.op = job.op /\ job'.hold = job.hold
               /\ job'.req = job.req /\ job'.cmd = job.req
      <4>1. job.req.kind = "answer"
        BY <3>1 DEF RequestIsMade
      <4>2. job.hold = "live" => job.req.seat \in Gone(hist)
        BY <2>1, <2>3, <3>1 DEF MoveIsCurrent
      <4>3. job.hold = "live" \/ job.hold = "lost"
        BY <3>1 DEF Job
      <4>4. ApplyKnows'
        BY <2>1, <3>1, <4>1, <4>2, <4>3 DEF ApplyKnows, Applying
      <4>5. RespondKnows'
        BY <3>1, <4>1 DEF RespondKnows
      <4> QED BY <3>1, <4>4, <4>5 DEF MoveIsCurrent, RespondKnows, ApplyKnows
    <3>2. CASE job'.pc \in {"idle", "project"}
      BY <3>2, AtRestIsCurrent DEF AtRest
    <3>3. CASE /\ job'.pc = "check" /\ job'.op = job.op /\ job'.hold = job.hold
               /\ ~(job.op = "respond" /\ job.hold # "none")
      BY <3>3 DEF MoveIsCurrent, Applying
    <3> QED BY <2>3, <3>1, <3>2, <3>3, SettledCases
  <2> QED BY <2>1, <2>2, <2>3
<1>9. CASE Act
  <2>1. \/ job' = NoJob
        \/ /\ job' = [NoJob EXCEPT !.op = "act", !.pc = "apply", !.cmd = plan, !.late = Overdue]
           /\ Legal(hist, plan) /\ UNCHANGED hist
    BY <1>9 DEF Act
  <2>2. CASE job' = NoJob
    BY <1>0, <2>2, AtRestIsCurrent DEF AtRest
  <2>3. CASE /\ job' = [NoJob EXCEPT !.op = "act", !.pc = "apply", !.cmd = plan, !.late = Overdue]
             /\ Legal(hist, plan) /\ UNCHANGED hist
    <3>1. job'.pc = "apply" /\ job'.op = "act" /\ job'.cmd = plan
      BY <2>3, NoJobType DEF Job
    <3>2. plan.rev = Revision(hist)
      BY <2>3 DEF Legal
    <3> QED BY <2>3, <3>1, <3>2 DEF MoveIsCurrent, Applying
  <2> QED BY <2>1, <2>2, <2>3
<1>10. CASE KeepsJob \/ UNCHANGED vars
  <2>1. job' = job
    BY <1>10, JobIsKept DEF vars
  <2>2. worker' # "up" \/ UNCHANGED <<worker, hist>>
    BY <1>10, CoreIsKept DEF vars
  <2>3. UNCHANGED journal
    BY <1>10 DEF KeepsJob, CancelLobby, CancelDuel, TimeUp, WorkerCrash, NoRequests, Reclaim,
       SweepBegin, SweepVisit, memory, record, vars
  <2>4. RespondKnows' /\ ApplyKnows'
    BY <2>1, <2>2 DEF RespondKnows, ApplyKnows, MoveIsCurrent, Applying
  <2> QED BY <2>1, <2>3, <2>4 DEF MoveIsCurrent, RespondKnows, ApplyKnows
<1> QED BY <1>1, <1>2, <1>3, <1>4, <1>5, <1>6, <1>7, <1>8, <1>9, <1>10
        DEF Next, Requests, Step, Recover, Settle, Check, Apply, Record, Reply, Faults,
            Sweeping, KeepsJob, EndsJob, Rests

-----------------------------------------------------------------------------
LEMMA InitInductive == Init => Inductive
<1> SUFFICES ASSUME Init PROVE Inductive
  OBVIOUS
<1>1. Durable
  BY InitDurable
<1>2. clock.state = "off" /\ job.pc = "idle" /\ job.late = FALSE /\ journal = <<>>
  BY DEF Init, NoClock, NoJob
<1>3. JournalReplays
  BY <1>2 DEF JournalReplays, Replayable
<1>4. ClockOnPrompt /\ LateIsABots /\ MoveIsCurrent
  BY <1>2 DEF ClockOnPrompt, LateIsABots, MoveIsCurrent, Applying
<1> QED BY <1>1, <1>3, <1>4 DEF Inductive, Durable

(* The invariant is inductive wherever the core keeps its prompt through    *)
(* response modes that pass no window.                                      *)
THEOREM InductiveAlways ==
  ASSUME QuietModesKeepPrompt
  PROVE  Spec => []Inductive
<1>1. Inductive /\ [Next]_vars => Inductive'
  <2>1. Typed /\ [Next]_vars => Typed'
    BY RowStep, MemoryStep, JobStep, RestStep, ActiveStep, FinishStep, ClockSeatStep, LateStep
       DEF Typed, TypeOK, JobIsMade
  <2> QED BY <2>1, WorkerStep, ShownStep, PinnedStep, ClockStep, LateBotStep, MoveStep,
             JournalStep DEF Inductive
<1> QED BY InitInductive, <1>1, PTL DEF Spec

(* For every duel: a move that was checked some awaits ago is still current *)
(* when the core takes it, or its sender has left and the core refuses it.  *)
THEOREM MovesStayCurrent ==
  ASSUME QuietModesKeepPrompt
  PROVE  Spec => []MoveIsCurrent
<1>1. Inductive => MoveIsCurrent
  BY DEF Inductive
<1> QED BY InductiveAlways, <1>1, PTL

(* For every duel: the journal that a fresh worker is given always replays, *)
(* whatever was decided before an await and written after it.               *)
THEOREM JournalAlwaysReplays ==
  ASSUME QuietModesKeepPrompt
  PROVE  Spec => []JournalReplays
<1>1. Inductive => JournalReplays
  BY DEF Inductive
<1> QED BY InductiveAlways, <1>1, PTL

(* For every duel: the clock that runs is the clock of the seat that the    *)
(* duel waits for; only the deadline of a bot outlives its move.            *)
THEOREM ClockFollowsPrompt ==
  ASSUME QuietModesKeepPrompt
  PROVE  Spec => []ClockOnPrompt
<1>1. Inductive => ClockOnPrompt
  BY DEF Inductive
<1> QED BY InductiveAlways, <1>1, PTL

-----------------------------------------------------------------------------
(* The record speaks of the same engine.                                   *)

LEMMA SameSeats ==
  ASSUME NEW h
  PROVE  /\ Abstract!Gone(h) = Gone(h) /\ Abstract!Living(h) = Living(h)
         /\ Abstract!PromptSeat(h) = PromptSeat(h) /\ (Abstract!Over(h) <=> Over(h))
         /\ Abstract!Verdict(h) = Verdict(h)
<1>1. Abstract!Gone(h) = Gone(h)
  BY DEF Abstract!Gone, Gone
<1>2. Abstract!Living(h) = Living(h)
  BY <1>1 DEF Abstract!Living, Living
<1>3. Abstract!PromptSeat(h) = PromptSeat(h)
  BY <1>2 DEF Abstract!PromptSeat, PromptSeat
<1>4. Abstract!Over(h) <=> Over(h)
  BY <1>3 DEF Abstract!Over, Over
<1>5. Abstract!Verdict(h) = Verdict(h)
  BY DEF Abstract!Verdict, Verdict
<1> QED BY <1>1, <1>2, <1>3, <1>4, <1>5

LEMMA SameMoves ==
  ASSUME NEW h, NEW c
  PROVE  /\ Abstract!Revision(h) = Revision(h) /\ Abstract!PromptId(h) = PromptId(h)
         /\ Abstract!Legal(h, c) <=> Legal(h, c)
<1>1. ASSUME NEW g, NEW d PROVE Abstract!Bumps(g, d) <=> Bumps(g, d)
  <2>1. Abstract!PromptSeat(g) = PromptSeat(g)
    BY SameSeats
  <2> QED BY <2>1 DEF Abstract!Bumps, Bumps, Abstract!Passes, Passes
<1>2. \A n : Abstract!UpTo(h, n) = UpTo(h, n)
  BY DEF Abstract!UpTo, UpTo
<1>3. Abstract!Revision(h) = Revision(h)
  <2>1. {i \in DOMAIN h : Abstract!Bumps(Abstract!UpTo(h, i - 1), h[i])}
        = {i \in DOMAIN h : Bumps(UpTo(h, i - 1), h[i])}
    BY <1>1, <1>2
  <2> QED BY <2>1 DEF Abstract!Revision, Revision, Abstract!Cardinality, Cardinality
<1>4. Abstract!PromptId(h) = PromptId(h)
  <2>1. {i \in DOMAIN h : h[i].kind # "elim" /\ Abstract!Bumps(Abstract!UpTo(h, i - 1), h[i])}
        = {i \in DOMAIN h : h[i].kind # "elim" /\ Bumps(UpTo(h, i - 1), h[i])}
    BY <1>1, <1>2
  <2> QED BY <2>1 DEF Abstract!PromptId, PromptId, Abstract!Cardinality, Cardinality
<1>5. Abstract!Takes(h, c) <=> Takes(h, c)
  BY <1>4, SameSeats DEF Abstract!Takes, Takes
<1> QED BY <1>3, <1>4, <1>5 DEF Abstract!Legal, Legal

-----------------------------------------------------------------------------
(* Each step that touches the record is one of its steps.                  *)

LEMMA Accepted ==
  ASSUME Inductive, JournalOk
  PROVE  Abstract!Accept
<1> DEFINE c == job.cmd
<1>1. /\ job.pc = "journal" /\ status = "active" /\ UNCHANGED <<status, result>>
      /\ journal' = Append(journal, c)
  BY DEF JournalOk, Inductive, Typed, JobOfActive
<1>2. /\ c \in Command /\ Legal(journal, c)
      /\ c.kind = "elim" => c.seat \in Humans /\ c.arg = job.why /\ (job.why = "time" => Timeout = "loss")
  BY <1>1 DEF Inductive, Typed, CommandIsMade, Changing, MoveIsCurrent
<1> HIDE DEF c
<1>3. /\ c.kind \in {"answer", "mode", "elim"} /\ c.seat \in Seats
      /\ c = [kind |-> c.kind, seat |-> c.seat, rev |-> c.rev, pid |-> c.pid, arg |-> c.arg]
      /\ c.kind # "answer" => c.pid = 0
      /\ c.arg \in Abstract!ArgsOf(c.kind)
  BY <1>2 DEF Command, Abstract!ArgsOf
<1>4. /\ c.rev = Revision(journal) /\ (c.kind = "answer" => c.pid = PromptId(journal))
  BY <1>2 DEF Legal, Takes
<1>5. /\ c.rev = Abstract!Revision(journal)
      /\ c.pid = IF c.kind = "answer" THEN Abstract!PromptId(journal) ELSE 0
      /\ Abstract!Legal(journal, c)
  BY <1>2, <1>3, <1>4, SameMoves
<1>6. c.kind = "elim" /\ c.arg = "time" => Timeout = "loss" /\ c.seat \notin Bots
  BY <1>2 DEF Humans
<1>7. c = [kind |-> c.kind, seat |-> c.seat, rev |-> Abstract!Revision(journal),
           pid |-> IF c.kind = "answer" THEN Abstract!PromptId(journal) ELSE 0, arg |-> c.arg]
  BY <1>3, <1>5
<1> QED BY <1>1, <1>3, <1>5, <1>6, <1>7 DEF Abstract!Accept

LEMMA Finished ==
  ASSUME Inductive, Finish
  PROVE  Abstract!FinishByPlay \/ Abstract!FinishByForfeit
<1>1. /\ job.pc = "finish" /\ worker = "up" /\ status = "active"
      /\ status' = "completed" /\ UNCHANGED journal
      /\ result' = [winner |-> WinnerOf(job.why, job.cmd.seat), reason |-> job.why]
  BY DEF Finish, Inductive, Typed, JobOfActive
<1>2. hist = journal /\ hist \in Seq(Command)
  BY <1>1 DEF Inductive, WorkerMatchesJournal, Typed, TypeOK, MemoryOK
<1>3. CASE job.why = "play"
  <2>1. Over(hist) /\ WinnerOf(job.why, job.cmd.seat) = Verdict(hist)
    BY <1>1, <1>3 DEF Inductive, Typed, FinishIsDue, WinnerOf
  <2> QED BY <1>1, <1>2, <1>3, <2>1, SameSeats DEF Abstract!FinishByPlay
<1>4. CASE job.why # "play"
  <2> DEFINE s == job.cmd.seat
             w == WinnerOf(job.why, s)
  <2>1. /\ job.why \in {"time", "surrender"} /\ s \in Seats \ Bots
        /\ job.why = "time" => Timeout = "loss"
    BY <1>1, <1>4 DEF Inductive, Typed, CommandIsMade, Humans
  <2>2. Multi => s \in Gone(journal) /\ LastStanding
    BY <1>1, <1>2, <1>4 DEF Inductive, Typed, FinishIsDue
  <2>3. w \in Abstract!ForfeitWinners(journal, s, job.why)
    <3>1. CASE ~Multi
      BY <1>4, <2>1, <3>1, Opponent DEF WinnerOf, Abstract!ForfeitWinners
    <3>2. CASE Multi /\ Over(hist)
      <4>1. w = Verdict(journal) /\ Over(journal)
        BY <1>2, <1>4, <3>2 DEF WinnerOf
      <4>2. w \in Seats \cup {NoSeat}
        BY <4>1 DEF Verdict
      <4> QED BY <3>2, <4>1, <4>2, SameSeats DEF Abstract!ForfeitWinners
    <3>3. CASE Multi /\ ~Over(hist)
      <4>1. job.why = "time" /\ Cardinality(Living(hist)) = 1
        BY <2>2, <3>3 DEF LastStanding
      <4>2. w = (CHOOSE v \in Seats : v \in Living(hist))
        BY <1>4, <3>3 DEF WinnerOf
      <4>3. PICK v : Living(hist) = {v}
        <5>1. IsFiniteSet(Living(hist))
          BY EngineAssumption, FS_Subset DEF EngineAssumption, Living
        <5> QED BY <4>1, <5>1, FS_Singleton
      <4>4. w = v /\ w \in Seats
        BY <4>2, <4>3 DEF Living
      <4>5. Abstract!Living(journal) = {w}
        BY <1>2, <4>3, <4>4, SameSeats
      <4> HIDE DEF w
      <4> QED BY <3>3, <4>1, <4>4, <4>5 DEF Abstract!ForfeitWinners
    <3> QED BY <3>1, <3>2, <3>3
  <2>4. Multi => s \in Abstract!Gone(journal)
    BY <2>2, SameSeats
  <2>5. result' = [winner |-> w, reason |-> job.why]
    BY <1>1
  <2> HIDE DEF w, s
  <2> QED BY <1>1, <2>1, <2>3, <2>4, <2>5 DEF Abstract!FinishByForfeit
<1> QED BY <1>3, <1>4

LEMMA Given ==
  ASSUME Interrupted, status = "active", UNCHANGED journal
  PROVE  Abstract!Interrupt
BY DEF Interrupted, Abstract!Interrupt

LEMMA RecordStep ==
  ASSUME Inductive, [Next]_vars
  PROVE  [Abstract!Next]_record
<1> USE DEF Abstract!Next
<1>0. job.pc \notin {"idle", "spawned"} => status = "active"
  BY DEF Inductive, Typed, JobOfActive
<1>1. CASE KeepsRow \/ UNCHANGED vars
  BY <1>1, RowIsKept DEF vars, record
<1>2. CASE CancelLobby
  BY <1>2 DEF CancelLobby, Abstract!Cancel
<1>3. CASE CancelDuel
  BY <1>3 DEF CancelDuel, Abstract!Cancel
<1>4. CASE Activate
  BY <1>4 DEF Activate, Abstract!Start, record
<1>5. CASE RecoverImpossible
  BY <1>0, <1>5, Given DEF RecoverImpossible
<1>6. CASE RecoverFails
  BY <1>0, <1>6, Given DEF RecoverFails, record
<1>7. CASE SettleContinue
  BY <1>7 DEF SettleContinue
<1>8. CASE ApplyRejected
  BY <1>0, <1>8, Given DEF ApplyRejected, Applying, record
<1>9. CASE ApplyLoops
  BY <1>0, <1>9, Given DEF ApplyLoops, Applying
<1>10. CASE JournalOk
  BY <1>10, Accepted
<1>11. CASE Finish
  BY <1>11, Finished
<1>12. CASE Plan
  <2>1. UNCHANGED record \/ (status = "active" /\ Interrupted /\ UNCHANGED journal)
    BY <1>12 DEF Plan, record
  <2> QED BY <2>1, Given
<1>13. CASE TimeUp
  BY <1>13 DEF TimeUp
<1> QED BY <1>1, <1>2, <1>3, <1>4, <1>5, <1>6, <1>7, <1>8, <1>9, <1>10, <1>11, <1>12, <1>13
        DEF Next, Requests, Step, Recover, Settle, Check, Apply, Record, Reply, Faults,
            Sweeping, KeepsRow

(* For every duel, every interleaving and every number of faults: what the  *)
(* host saves is a behaviour of the record the players are promised.        *)
THEOREM HostKeepsItsPromise ==
  ASSUME QuietModesKeepPrompt
  PROVE  Spec => Implements
<1>1. Init => Abstract!Init
  BY DEF Init, Abstract!Init, NoResult, Abstract!NoResult
<1>2. Inductive /\ [Next]_vars => [Abstract!Next]_(Abstract!record)
  BY RecordStep DEF record, Abstract!record
<1> QED BY <1>1, <1>2, InductiveAlways, PTL DEF Spec, Implements, Abstract!Spec

-----------------------------------------------------------------------------
(* Whose time it is                                                        *)

(* Steps of a job that has charged nobody yet, and keeps why it runs.       *)
LEMMA NotYetCharged ==
  ASSUME Typed, TimeIsCharged,
         Activate \/ RecoverLive \/ RecoverReplay \/ SettleRecovers \/ CheckRespond \/ CheckMode
  PROVE  job'.why # "time"
<1> USE DEF Typed, TypeOK
<1>0. NoJob.why = "none"
  BY DEF NoJob
<1>1. job.why # "time"
  BY DEF TimeIsCharged, Activate, RecoverLive, RecoverReplay, ReplayJournal, SettleRecovers,
         CheckRespond, CheckMode, Deciding
<1>2. CASE Activate \/ RecoverLive \/ RecoverReplay \/ SettleRecovers
  BY <1>0, <1>1, <1>2 DEF Activate, RecoverLive, RecoverReplay, ReplayJournal, SettleRecovers,
     Goto, EndJob, Job
<1>3. CASE CheckRespond
  BY <1>0, <1>1, <1>3 DEF CheckRespond, Job
<1>4. CASE CheckMode
  <2> DEFINE cmd == ModeCommand(job.req.seat, job.req.arg)
             late == job.hold = "none" /\ Overdue
  <2>1. \/ job' = NoJob
        \/ Goto("project")
        \/ job' = [job EXCEPT !.pc = "settle", !.hold = "live"]
        \/ job' = [job EXCEPT !.pc = "apply", !.cmd = cmd, !.late = late, !.hold = "live"]
    BY <1>4 DEF CheckMode, Goto
  <2> HIDE DEF cmd, late
  <2> QED BY <1>0, <1>1, <2>1 DEF Job, Goto
<1> QED BY <1>2, <1>3, <1>4

LEMMA SettledChargesNobody == ASSUME Typed PROVE Settled(job).why # "time"
<1> USE DEF Typed, TypeOK
<1>1. Settled(job) = NoJob => Settled(job).why # "time"
  BY DEF NoJob
<1>2. CASE Settled(job) # NoJob
  <2>1. \/ Settled(job) = [job EXCEPT !.pc = "apply", !.cmd = job.req, !.why = "none", !.late = FALSE]
        \/ \E pc \in {"check", "project"} :
             Settled(job) = [job EXCEPT !.pc = pc, !.cmd = NoCmd, !.why = "none"]
    BY <1>2 DEF Settled
  <2> QED BY <2>1 DEF Job
<1> QED BY <1>1, <1>2

LEMMA ChargeStep ==
  ASSUME Typed, TimeIsCharged, [Next]_vars PROVE TimeIsCharged'
<1> USE DEF Typed, TypeOK
<1>0. NoJob.why = "none"
  BY DEF NoJob
<1>1. CASE job'.why # "time"
  BY <1>1 DEF TimeIsCharged
<1>2. CASE EndsJob
  BY <1>0, <1>1, <1>2, JobIsEnded
<1>3. CASE StartGame \/ EnterView \/ EnterRespond \/ EnterMode \/ EnterSurrender \/ EnterSweep
  <2>1. StartGame => job'.why # "time"
    BY NoJobType, <1>0 DEF StartGame, Job
  <2>2. CASE EnterView \/ EnterRespond \/ EnterMode \/ EnterSurrender \/ EnterSweep
    <3>1. PICK op \in {"view", "respond", "mode", "surrender", "sweep"},
               pc \in {"recover", "settle"}, req \in Request : Entering(op, pc, req)
      BY <2>2, Requested
    <3> QED BY <1>0, <1>1, <3>1, NoJobType DEF Entering, Job
  <2> QED BY <1>1, <1>3, <2>1, <2>2
<1>4. CASE Activate \/ RecoverLive \/ RecoverReplay \/ SettleRecovers \/ CheckRespond \/ CheckMode
  BY <1>1, <1>4, NotYetCharged
<1>5. CASE SettleNothing \/ SettleContinue
  BY <1>1, <1>5, SettledChargesNobody DEF SettleNothing, SettleContinue
<1>6. CASE SettleLoss
  <2>1. /\ job'.pc \in {"apply", "finish"} /\ job'.cmd.kind = "elim"
        /\ job'.cmd.seat = clock.seat /\ clock.state = "due" /\ UNCHANGED clock
    BY <1>6, ForfeitCases DEF SettleLoss, TimeIsUp, Overdue
  <2> QED BY <2>1 DEF TimeIsCharged
<1>7. CASE CheckSurrender
  <2>1. job.why # "time"
    BY <1>7 DEF CheckSurrender, Deciding, TimeIsCharged
  <2>2. job'.why \in {job.why, "surrender"}
    BY <1>7 DEF CheckSurrender, Forfeit, Goto, Job
  <2> QED BY <1>1, <2>1, <2>2
<1>8. CASE ApplyOk
  <2>1. /\ job.pc = "apply" /\ job'.pc = "journal" /\ UNCHANGED clock
        /\ job'.cmd = job.cmd /\ job'.why = job.why
    BY <1>8 DEF ApplyOk, Applying, Job
  <2> QED BY <2>1 DEF TimeIsCharged
<1>9. CASE JournalOk
  <2>1. job'.pc = "reply" /\ job'.cmd = job.cmd /\ job'.why = job.why
    BY <1>9 DEF JournalOk, Goto, Job
  <2> QED BY <2>1 DEF TimeIsCharged
<1>10. CASE ReplyMove
  <2>1. job'.why = job.why /\ job.cmd.kind # "elim"
    BY <1>10 DEF ReplyMove, Goto, Job
  <2> QED BY <1>1, <2>1 DEF TimeIsCharged
<1>11. CASE ReplyDeparture
  <2>1. job.pc = "reply" /\ job.cmd.kind = "elim" /\ Multi
    BY <1>11 DEF ReplyDeparture, CommandIsMade, Changing
  <2>2. \/ job' = NoJob
        \/ Goto("finish")
        \/ job' = Settled(job)
        \/ job.why # "time" /\ Goto("project")
    BY <1>11 DEF ReplyDeparture, EndJob, Goto
  <2>3. CASE Goto("finish")
    <3>1. job'.pc = "finish" /\ job'.cmd = job.cmd
      BY <2>3 DEF Goto, Job
    <3> QED BY <2>1, <3>1 DEF TimeIsCharged
  <2>4. CASE job.why # "time" /\ Goto("project")
    BY <1>1, <2>4 DEF Goto, Job
  <2> QED BY <1>0, <1>1, <2>2, <2>3, <2>4, SettledChargesNobody
<1>12. CASE Project
  BY <1>0, <1>1, <1>12 DEF Project, EndJob, Job
<1>13. CASE Plan \/ Act
  <2>1. job = NoJob
    BY <1>13 DEF Plan, Act
  <2>2. \/ job' = job
        \/ job' = [NoJob EXCEPT !.op = "plan", !.pc = "finish", !.why = "play"]
        \/ job' = [NoJob EXCEPT !.op = "act", !.pc = "apply", !.cmd = plan, !.late = Overdue]
    BY <1>13 DEF Plan, Act
  <2> QED BY <1>0, <1>1, <2>1, <2>2, NoJobType DEF Job
<1>14. CASE KeepsJob \/ UNCHANGED vars
  <2>1. job' = job
    BY <1>14, JobIsKept DEF vars
  <2>2. UNCHANGED clock \/ clock.state = "run" \/ job = NoJob
    BY <1>14 DEF KeepsJob, CancelLobby, CancelDuel, TimeUp, WorkerCrash, NoRequests, Reclaim,
       SweepBegin, SweepVisit, vars
  <2> QED BY <1>0, <1>1, <2>1, <2>2 DEF TimeIsCharged
<1> QED BY <1>2, <1>3, <1>4, <1>5, <1>6, <1>7, <1>8, <1>9, <1>10, <1>11, <1>12, <1>13, <1>14
        DEF Next, Requests, Step, Recover, Settle, Check, Apply, Record, Reply, Faults,
            Sweeping, KeepsJob, EndsJob

(* The row of an open duel has no result yet. *)
LEMMA ResultStep ==
  ASSUME Typed, OpenHasNoResult, [Next]_vars PROVE OpenHasNoResult'
<1> USE DEF OpenHasNoResult
<1>1. CASE KeepsRow \/ UNCHANGED vars
  BY <1>1, RowIsKept DEF vars, record
<1>2. CASE Activate \/ SettleContinue \/ JournalOk \/ TimeUp
  BY <1>2 DEF Activate, SettleContinue, JournalOk, TimeUp, record
<1>3. CASE CancelLobby \/ CancelDuel \/ Finish
  BY <1>3 DEF CancelLobby, CancelDuel, Finish
<1>4. CASE RecoverImpossible \/ RecoverFails \/ ApplyRejected \/ ApplyLoops \/ Plan
  <2>1. Interrupted \/ UNCHANGED <<status, result>>
    BY <1>4 DEF RecoverImpossible, RecoverFails, ApplyRejected, ApplyLoops, Plan
  <2> QED BY <2>1 DEF Interrupted
<1> QED BY <1>1, <1>2, <1>3, <1>4
        DEF Next, Requests, Step, Recover, Settle, Check, Apply, Record, Reply, Faults,
            Sweeping, KeepsRow

Charged == Inductive /\ TimeIsCharged /\ OpenHasNoResult

LEMMA ChargedAlways ==
  ASSUME QuietModesKeepPrompt
  PROVE  Spec => []Charged
<1>1. Init => TimeIsCharged /\ OpenHasNoResult
  BY DEF Init, NoJob, TimeIsCharged, OpenHasNoResult
<1>2. Inductive /\ TimeIsCharged /\ OpenHasNoResult /\ [Next]_vars
        => TimeIsCharged' /\ OpenHasNoResult'
  BY ChargeStep, ResultStep DEF Inductive
<1> QED BY <1>1, <1>2, InductiveAlways, PTL DEF Spec, Charged

(* A row that removes a seat on time is written against the bank that is    *)
(* empty, and that seat is still asked.                                     *)
LEMMA RemovedOnTime ==
  ASSUME Charged, [Next]_vars, SeatRemoved
  PROVE  /\ clock.seat = job.cmd.seat /\ clock.state = "due"
         /\ PromptSeat(journal) = job.cmd.seat
<1> USE DEF Charged, Inductive, Typed
<1>1. JournalOk
  BY RowIsKept DEF SeatRemoved, Next, Requests, Step, Recover, Settle, Check, Apply, Record, Reply,
     Faults, Sweeping, KeepsRow, CancelLobby, CancelDuel, Activate, RecoverImpossible,
     RecoverFails, SettleContinue, ApplyRejected, ApplyLoops, Finish, Plan, TimeUp, record, vars
<1>2. job.pc = "journal" /\ job.why = "time" /\ job.cmd.kind = "elim"
  BY <1>1 DEF JournalOk, SeatRemoved
<1>3. clock.seat = job.cmd.seat /\ clock.state = "due"
  BY <1>2 DEF TimeIsCharged
<1>4. job.cmd.seat \in Humans
  BY <1>2 DEF CommandIsMade, Changing
<1> QED BY <1>3, <1>4 DEF ClockOnPrompt, Humans

(* Only Finish writes an outcome on time. *)
LEMMA DecidedByFinish ==
  ASSUME Charged, [Next]_vars, TimeDecided
  PROVE  /\ Finish /\ job.why = "time"
         /\ job.pc = "finish" /\ worker = "up" /\ hist = journal
         /\ result' = [winner |-> WinnerOf("time", job.cmd.seat), reason |-> "time"]
<1> USE DEF Charged, Inductive, Typed
<1>1. status' # status /\ result'.reason = "time"
  BY DEF TimeDecided
<1>2. Finish
  <2>1. ~KeepsRow /\ ~UNCHANGED vars
    BY <1>1, RowIsKept DEF vars, record
  <2>2. ~(CancelLobby \/ CancelDuel)
    BY <1>1 DEF CancelLobby, CancelDuel
  <2>3. ~Activate
    <3>1. SUFFICES ASSUME Activate PROVE FALSE
      OBVIOUS
    <3>2. status = "lobby" /\ UNCHANGED result
      BY <1>1, <3>1 DEF Activate
    <3>3. result' = NoResult
      BY <3>2 DEF OpenHasNoResult
    <3> QED BY <1>1, <3>3 DEF NoResult
  <2>4. ~(SettleContinue \/ JournalOk \/ TimeUp)
    BY <1>1 DEF SettleContinue, JournalOk, TimeUp, record
  <2>5. ~(RecoverImpossible \/ RecoverFails \/ ApplyRejected \/ ApplyLoops \/ Plan)
    <3>1. SUFFICES ASSUME RecoverImpossible \/ RecoverFails \/ ApplyRejected \/ ApplyLoops \/ Plan
                   PROVE  FALSE
      OBVIOUS
    <3>2. Interrupted \/ UNCHANGED status
      BY <3>1 DEF RecoverImpossible, RecoverFails, ApplyRejected, ApplyLoops, Plan
    <3> QED BY <1>1, <3>2 DEF Interrupted
  <2> QED BY <2>1, <2>2, <2>3, <2>4, <2>5
          DEF Next, Requests, Step, Recover, Settle, Check, Apply, Record, Reply, Faults,
              Sweeping, KeepsRow
<1>3. job.pc = "finish" /\ worker = "up"
      /\ result' = [winner |-> WinnerOf(job.why, job.cmd.seat), reason |-> job.why]
  BY <1>2 DEF Finish
<1>4. job.why = "time"
  BY <1>1, <1>3
<1>5. hist = journal
  BY <1>3 DEF WorkerMatchesJournal
<1> QED BY <1>2, <1>3, <1>4, <1>5

(* Who loses on time is not who wins. *)
LEMMA ChargedNeverWins ==
  ASSUME Charged, DepartedNeverWin, [Next]_vars, TimeDecided
  PROVE  result'.winner # job.cmd.seat
<1> DEFINE s == job.cmd.seat
<1>1. /\ job.why = "time" /\ job.pc = "finish" /\ worker = "up" /\ hist = journal
      /\ result'.winner = WinnerOf("time", s)
  BY DecidedByFinish
<1>2. s \in Seats /\ hist \in Seq(Command)
  BY <1>1 DEF Charged, Inductive, Typed, TypeOK, MemoryOK, CommandIsMade, Humans
<1>3. Multi => s \in Gone(hist) /\ LastStanding
  BY <1>1 DEF Charged, Inductive, Typed, FinishIsDue
<1> HIDE DEF s
<1> SUFFICES result'.winner # s
  BY DEF s
<1>4. CASE ~Multi
  BY <1>1, <1>2, <1>4, Opponent DEF WinnerOf
<1>5. CASE Multi /\ Over(hist)
  <2>1. WinnerOf("time", s) = Verdict(hist)
    BY <1>5 DEF WinnerOf
  <2>2. Replayable(hist)
    BY <1>1 DEF Charged, Inductive, JournalReplays
  <2>3. Winner(hist) \notin Gone(hist)
    BY <1>2, <2>2 DEF DepartedNeverWin
  <2>4. NoSeat \notin Seats
    BY EngineAssumption DEF EngineAssumption
  <2> QED BY <1>1, <1>2, <1>3, <1>5, <2>1, <2>3, <2>4 DEF Verdict
<1>6. CASE Multi /\ ~Over(hist)
  <2>1. Cardinality(Living(hist)) = 1
    BY <1>3, <1>6 DEF LastStanding
  <2>2. WinnerOf("time", s) = (CHOOSE w \in Seats : w \in Living(hist))
    BY <1>6 DEF WinnerOf
  <2>3. PICK v : Living(hist) = {v}
    <3>1. IsFiniteSet(Living(hist))
      BY EngineAssumption, FS_Subset DEF EngineAssumption, Living
    <3> QED BY <2>1, <3>1, FS_Singleton
  <2>4. WinnerOf("time", s) \in Living(hist)
    BY <2>2, <2>3 DEF Living
  <2> QED BY <1>1, <1>3, <1>6, <2>4 DEF Living
<1> QED BY <1>4, <1>5, <1>6

(* For every duel: a seat loses on time only while its own bank is empty    *)
(* and it is asked, and it never wins that way, although the clock is read  *)
(* several awaits before the row is written.                                *)
THEOREM OnlyTheLateLose ==
  ASSUME QuietModesKeepPrompt, DepartedNeverWin
  PROVE  Spec => TimeLossIsOwn
<1> DEFINE Own == /\ SeatRemoved \/ (TimeDecided /\ ~Multi)
                      => clock.seat = job.cmd.seat /\ clock.state = "due"
                         /\ PromptSeat(journal) = job.cmd.seat
                  /\ TimeDecided => result'.winner # job.cmd.seat
<1>1. ASSUME Charged, [Next]_vars PROVE [Own]_vars
  <2>1. TimeDecided /\ ~Multi => /\ clock.seat = job.cmd.seat /\ clock.state = "due"
                                 /\ PromptSeat(journal) = job.cmd.seat
    <3>1. SUFFICES ASSUME TimeDecided, ~Multi
                   PROVE  /\ clock.seat = job.cmd.seat /\ clock.state = "due"
                          /\ PromptSeat(journal) = job.cmd.seat
      OBVIOUS
    <3>2. job.why = "time" /\ job.pc = "finish"
      BY <1>1, <3>1, DecidedByFinish
    <3>3. clock.seat = job.cmd.seat /\ clock.state = "due" /\ job.cmd.seat \in Humans
      BY <1>1, <3>1, <3>2 DEF Charged, TimeIsCharged, Inductive, Typed, CommandIsMade
    <3> QED BY <1>1, <3>3 DEF Charged, Inductive, ClockOnPrompt, Humans
  <2>2. SeatRemoved => /\ clock.seat = job.cmd.seat /\ clock.state = "due"
                       /\ PromptSeat(journal) = job.cmd.seat
    BY <1>1, RemovedOnTime
  <2>3. TimeDecided => result'.winner # job.cmd.seat
    BY <1>1, ChargedNeverWins
  <2> QED BY <2>1, <2>2, <2>3
<1> QED BY <1>1, ChargedAlways, PTL DEF Spec, TimeLossIsOwn

-----------------------------------------------------------------------------
(* A bot that is asked has a loop that moves for it                         *)

LEMMA WokenLoop ==
  ASSUME StartBotLoop, Bots # {} PROVE loop' # "none"
BY DEF StartBotLoop

(* A sweep that comes to settle without recover ends there: it stops a      *)
(* clock, and no departure follows.                                         *)
LEMMA SettleWhileAsleep ==
  ASSUME Typed, BeforeWake, SettleNothing \/ SettleContinue \/ SettleLoss
  PROVE  job' = NoJob
<1>1. job.pc = "settle"
  BY DEF SettleNothing, SettleContinue, SettleLoss
<1>2. job.op = "sweep" /\ Timeout = "continue"
  BY <1>1 DEF BeforeWake
<1>3. Settled(job) = NoJob
  BY <1>2 DEF Settled
<1> QED BY <1>2, <1>3 DEF SettleNothing, SettleContinue, SettleLoss

LEMMA LoopStep ==
  ASSUME Typed, LoopIsAwake, [Next]_vars PROVE LoopIsAwake'
<1> USE DEF Typed, TypeOK
<1>0. NoJob.pc = "idle"
  BY DEF NoJob
<1>1. CASE status' # "active" \/ worker' # "up" \/ loop' # "none"
  BY <1>1 DEF LoopIsAwake
<1>2. CASE StartBotLoop
  BY <1>2, WokenLoop DEF LoopIsAwake
<1>3. CASE DisposeGame
  BY <1>1, <1>3 DEF DisposeGame
<1>4. CASE Interrupted
  BY <1>1, <1>4 DEF Interrupted
(* A job past recover leaves the loop running.                              *)
<1>5. CASE ~BeforeWake /\ UNCHANGED <<status, worker, loop>>
  BY <1>5 DEF LoopIsAwake
(* Nobody is asked anew while the loop sleeps.                              *)
<1>6. CASE (BeforeWake => BeforeWake') /\ UNCHANGED <<status, worker, hist, loop>>
  BY <1>6 DEF LoopIsAwake
<1>7. CASE StartGame \/ EnterView \/ EnterRespond \/ EnterMode \/ EnterSurrender \/ EnterSweep
  <2>1. UNCHANGED memory /\ UNCHANGED status
    BY <1>7 DEF StartGame, EnterView, EnterRespond, EnterMode, EnterSurrender, EnterSweep, Enter, record
  <2>2. CASE ~EnterSweep
    <3>1. job'.pc \in {"spawned", "recover"}
      BY <1>7, <2>2, NoJobType DEF StartGame, EnterView, EnterRespond, EnterMode, EnterSurrender,
         Enter, Job
    <3> QED BY <1>6, <2>1, <3>1 DEF memory, BeforeWake
  <2>3. CASE EnterSweep
    <3>1. \/ job'.pc = "recover"
          \/ job'.pc = "settle" /\ job'.op = "sweep" /\ Timeout = "continue"
      BY <2>3, NoJobType DEF EnterSweep, Enter, Job
    <3> QED BY <1>6, <2>1, <3>1 DEF memory, BeforeWake
  <2> QED BY <2>2, <2>3
<1>8. CASE Activate
  <2>1. StartBotLoop \/ (job' = NoJob /\ UNCHANGED <<status, worker, hist, loop>>)
    BY <1>8 DEF Activate, EndJob
  <2> QED BY <1>0, <1>2, <1>6, <2>1 DEF BeforeWake
<1>9. CASE RecoverLive \/ RecoverReplay \/ ReplyMove
  BY <1>2, <1>9 DEF RecoverLive, RecoverReplay, ReplayJournal, ReplyMove
<1>10. CASE RecoverImpossible \/ RecoverFails
  BY <1>1, <1>10 DEF RecoverImpossible, RecoverFails, DisposeGame
<1>11. CASE SettleNothing \/ SettleContinue \/ SettleLoss
  <2>1. UNCHANGED <<status, worker, hist>> /\ (StartBotLoop \/ UNCHANGED loop)
    BY <1>11 DEF SettleNothing, SettleContinue, SettleLoss, record, memory
  <2> QED BY <1>0, <1>2, <1>6, <1>11, <2>1, SettleWhileAsleep DEF BeforeWake
<1>12. CASE SettleRecovers
  BY <1>1, <1>12 DEF SettleRecovers, memory
<1>13. CASE CheckRespond \/ CheckMode \/ CheckSurrender \/ ApplyOk \/ JournalOk
  <2>1. /\ job.pc \in {"check", "apply", "journal"}
        /\ UNCHANGED <<status, worker, loop>>
    BY <1>13 DEF CheckRespond, CheckMode, CheckSurrender, Deciding, ApplyOk, Applying, JournalOk,
       record, memory
  <2> QED BY <1>5, <2>1 DEF BeforeWake
<1>14. CASE CheckNoWorker \/ ApplyFatal \/ Project
  <2>1. /\ job.pc \in {"check", "apply", "project"} /\ UNCHANGED status
        /\ UNCHANGED memory \/ DisposeGame
    BY <1>14, MemoryIsDropped DEF CheckNoWorker, ApplyFatal, Project, DropsMemory, record
  <2> QED BY <1>3, <1>5, <2>1 DEF memory, BeforeWake
<1>15. CASE ApplyRejected
  <2>1. job.pc = "apply" /\ (Interrupted \/ DisposeGame \/ UNCHANGED <<memory, status>>)
    BY <1>15 DEF ApplyRejected, Applying
  <2> QED BY <1>3, <1>4, <1>5, <2>1 DEF memory, BeforeWake
<1>16. CASE ApplyLoops \/ JournalFails \/ Finish \/ CancelDuel \/ HostCrash \/ Reclaim
  BY <1>3, <1>16 DEF ApplyLoops, JournalFails, Finish, CancelDuel, HostCrash, Reclaim
<1>17. CASE ReplyBot
  BY <1>1, <1>17 DEF ReplyBot
<1>18. CASE ReplyDeparture
  <2>1. /\ job.pc = "reply" /\ UNCHANGED <<status, worker>>
        /\ StartBotLoop \/ UNCHANGED loop
    BY <1>18 DEF ReplyDeparture, record
  <2> QED BY <1>2, <1>5, <2>1 DEF BeforeWake
<1>19. CASE FinishFails
  <2>1. job' = NoJob /\ UNCHANGED status /\ (UNCHANGED memory \/ DisposeGame)
    BY <1>19, MemoryIsDropped DEF FinishFails, EndJob, DropsMemory, record
  <2> QED BY <1>0, <1>3, <1>6, <2>1 DEF memory, BeforeWake
<1>20. CASE Plan
  <2>1. \/ status # "active" /\ StopLoop /\ UNCHANGED status
        \/ worker # "up" /\ StopLoop
        \/ DisposeGame
        \/ loop' = "sleep"
        \/ /\ job' = [NoJob EXCEPT !.op = "plan", !.pc = "finish", !.why = "play"]
           /\ Over(hist) /\ StopLoop
        \/ PromptSeat(hist) \notin Bots /\ StopLoop /\ job' = NoJob
    BY <1>20 DEF Plan
  <2>2. CASE /\ job' = [NoJob EXCEPT !.op = "plan", !.pc = "finish", !.why = "play"]
             /\ Over(hist) /\ StopLoop
    <3>1. job'.op = "plan" /\ job'.pc = "finish"
      BY <2>2, NoJobType DEF Job
    <3>2. hist' = hist /\ PromptSeat(hist) \notin Bots
      BY <2>2, EngineAssumption DEF EngineAssumption, Over, StopLoop
    <3> QED BY <3>1, <3>2 DEF LoopIsAwake, BeforeWake
  <2>3. CASE PromptSeat(hist) \notin Bots /\ StopLoop /\ job' = NoJob
    <3>1. hist' = hist /\ job'.pc = "idle"
      BY <1>0, <2>3 DEF StopLoop
    <3> QED BY <2>3, <3>1 DEF LoopIsAwake, BeforeWake
  <2> QED BY <1>1, <1>3, <2>1, <2>2, <2>3 DEF StopLoop
<1>21. CASE Act
  <2>1. \/ status # "active" /\ UNCHANGED status
        \/ worker # "up" /\ (StopLoop \/ DisposeGame)
        \/ loop' # "none"
    BY <1>21 DEF Act, record
  <2> QED BY <1>1, <2>1 DEF StopLoop, DisposeGame
<1>22. CASE CancelLobby \/ WorkerCrash
  BY <1>1, <1>22 DEF CancelLobby, WorkerCrash
<1>23. CASE TimeUp \/ SweepBegin \/ NoRequests \/ UNCHANGED vars
  <2>1. UNCHANGED <<status, worker, hist, loop, job>>
    BY <1>23 DEF TimeUp, SweepBegin, NoRequests, memory, record, vars
  <2> QED BY <1>6, <2>1 DEF BeforeWake
<1>24. CASE SweepVisit
  <2>1. DisposeGame \/ UNCHANGED <<status, worker, hist, loop, job>>
    BY <1>24 DEF SweepVisit, memory, record
  <2> QED BY <1>3, <1>6, <2>1 DEF BeforeWake
<1> QED BY <1>7, <1>8, <1>9, <1>10, <1>11, <1>12, <1>13, <1>14, <1>15, <1>16, <1>17, <1>18,
           <1>19, <1>20, <1>21, <1>22, <1>23, <1>24
        DEF Next, Requests, Step, Recover, Settle, Check, Apply, Record, Reply, Faults, Sweeping

LEMMA LoopAlwaysAwake == Spec => [](Typed /\ LoopIsAwake)
<1>1. Init => LoopIsAwake
  BY DEF Init, LoopIsAwake
<1>2. Typed /\ LoopIsAwake /\ [Next]_vars => LoopIsAwake'
  BY LoopStep
<1> QED BY <1>1, <1>2, TypesAreRight, PTL DEF Spec

(* For every duel, every core and every number of faults, and with nothing  *)
(* assumed of the core: between two jobs a live table that waits for a bot  *)
(* has a loop that moves for it, also for the last seat in an open chain.   *)
THEOREM BotIsAlwaysDriven == Spec => []BotIsDriven
<1>1. LoopIsAwake => BotIsDriven
  BY DEF LoopIsAwake, BotIsDriven
<1> QED BY <1>1, LoopAlwaysAwake, PTL

=============================================================================
