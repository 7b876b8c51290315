----------------------------- MODULE DuelRecord -----------------------------
(***************************************************************************)
(* What the players of one duel are promised, with no host, worker, crash   *)
(* or retry in sight: a lobby that starts at most once, a journal that only *)
(* grows by the one move the duel is waiting for, and a final outcome that  *)
(* the journal (or one forfeit) justifies and that never changes.           *)
(***************************************************************************)
EXTENDS DuelEngine

CONSTANTS Ranked,     \* a ranked duel cannot be cancelled once it runs
          Timeout     \* "loss", "continue" or "none"

VARIABLES status, journal, result

record == <<status, journal, result>>

NoResult == [winner |-> NoSeat, reason |-> "none"]

(* In two-seat duels the other seat wins; at a free-for-all table a forfeit *)
(* ends the duel only when the core reports a result or, for a time loss,   *)
(* when a single seat is left.                                              *)
ForfeitWinners(h, s, why) ==
  IF ~Multi THEN Seats \ {s}
  ELSE {w \in Seats \cup {NoSeat} :
          \/ Over(h) /\ w = Verdict(h)
          \/ why = "time" /\ Living(h) = {w}}

Init == status = "lobby" /\ journal = <<>> /\ result = NoResult

Start == /\ status = "lobby"
         /\ status' = "active"
         /\ UNCHANGED <<journal, result>>

ArgsOf(kind) == CASE kind = "answer" -> Answers
                  [] kind = "mode"   -> Modes
                  [] kind = "elim"   -> {"time", "surrender"}

(* The duel takes exactly the move it is waiting for, at the revision it is *)
(* at; a seat is removed for time only where running out of time loses.     *)
Accept == /\ status = "active"
          /\ \E k \in {"answer", "mode", "elim"}, s \in Seats : \E a \in ArgsOf(k) :
               LET p == IF k = "answer" THEN PromptId(journal) ELSE 0
                   c == [kind |-> k, seat |-> s, rev |-> Revision(journal),
                         pid |-> p, arg |-> a]
               IN  /\ Legal(journal, c)
                   /\ k = "elim" /\ a = "time" => Timeout = "loss" /\ s \notin Bots
                   /\ journal' = Append(journal, c)
          /\ UNCHANGED <<status, result>>

FinishByPlay == /\ status = "active"
                /\ Over(journal)
                /\ status' = "completed"
                /\ result' = [winner |-> Verdict(journal), reason |-> "play"]
                /\ UNCHANGED journal

(* A forfeit of seat s: nobody but a human can run out of time, and only    *)
(* where the table says that running out of time loses.                     *)
FinishByForfeit ==
  /\ status = "active"
  /\ \E s \in Seats \ Bots, why \in {"time", "surrender"} :
       /\ why = "time" => Timeout = "loss"
       /\ Multi => s \in Gone(journal)
       /\ \E w \in ForfeitWinners(journal, s, why) :
            result' = [winner |-> w, reason |-> why]
  /\ status' = "completed"
  /\ UNCHANGED journal

Interrupt == /\ status = "active"
             /\ status' = "interrupted"
             /\ result' = [winner |-> NoSeat, reason |-> "interrupted"]
             /\ UNCHANGED journal

Cancel == /\ status = "lobby" \/ (status = "active" /\ ~Ranked)
          /\ status' = "cancelled"
          /\ result' = [winner |-> NoSeat, reason |-> "cancelled"]
          /\ UNCHANGED journal

Next == Start \/ Accept \/ FinishByPlay \/ FinishByForfeit \/ Interrupt \/ Cancel

Spec == Init /\ [][Next]_record
=============================================================================
