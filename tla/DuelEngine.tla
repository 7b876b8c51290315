----------------------------- MODULE DuelEngine -----------------------------
(***************************************************************************)
(* The duel core as the host sees it: a deterministic machine whose state   *)
(* is the sequence of commands it has taken.  The WASM core, the card       *)
(* scripts and the views are abstracted by three constant operators on      *)
(* that sequence; what the host relies on (who holds the prompt, the        *)
(* revision counter, the prompt id, which commands are legal) is defined    *)
(* from them.                                                               *)
(***************************************************************************)
EXTENDS Integers, Sequences, FiniteSets

CONSTANTS
  Seats,          \* seats of the table
  Bots,           \* seats played by the host
  Answers,        \* choices a prompt offers
  Modes,          \* chain response modes a seat can switch between
  AutoMode,       \* the mode every seat starts with
  NoSeat,         \* nobody: no prompt is open, or the duel is a draw
  Multi,          \* a free-for-all table: a forfeit removes one seat
  Owner(_),       \* the seat the core asks after a command sequence
  Winner(_),      \* the seat the core lets win after a command sequence
  AutoPass(_, _)  \* does switching to this mode pass the open window?

ASSUME EngineAssumption ==
  /\ IsFiniteSet(Seats) /\ NoSeat \notin Seats
  /\ Bots \subseteq Seats
  /\ AutoMode \in Modes
  /\ Multi \in BOOLEAN

(* A journal row.  `rev` is the revision the sender saw and `pid` the       *)
(* prompt it answers; a command that answers no prompt carries pid 0.       *)
Command ==
  [kind : {"answer"}, seat : Seats, rev : Nat, pid : Nat, arg : Answers]
  \cup [kind : {"mode"}, seat : Seats, rev : Nat, pid : {0}, arg : Modes]
  \cup [kind : {"elim"}, seat : Seats, rev : Nat, pid : {0}, arg : {"time", "surrender"}]

UpTo(h, n) == [i \in 1..n |-> h[i]]

(* Seats whose loss was flagged in the core. *)
Gone(h) == {h[i].seat : i \in {j \in DOMAIN h : h[j].kind = "elim"}}

Living(h) == Seats \ Gone(h)

(* The core never waits for a seat that has left; no prompt means a result. *)
PromptSeat(h) == IF Owner(h) \in Living(h) THEN Owner(h) ELSE NoSeat

Over(h) == PromptSeat(h) = NoSeat

Verdict(h) == IF Winner(h) \in Seats THEN Winner(h) ELSE NoSeat

(* Only an open window of the seat itself can be passed by its new mode. *)
Passes(h, s, m) == PromptSeat(h) = s /\ AutoPass(h, m)

Bumps(h, c) == c.kind = "mode" => Passes(h, c.seat, c.arg)

Revision(h) == Cardinality({i \in DOMAIN h : Bumps(UpTo(h, i - 1), h[i])})

(* A departure leaves the open prompt of a living seat as it is, so the     *)
(* prompt id is not a function of the revision.                             *)
PromptId(h) == Cardinality({i \in DOMAIN h : /\ h[i].kind # "elim"
                                             /\ Bumps(UpTo(h, i - 1), h[i])})

ModeOf(h, s) ==
  LET I == {i \in DOMAIN h : h[i].kind = "mode" /\ h[i].seat = s}
  IN  IF I = {} THEN AutoMode ELSE h[CHOOSE i \in I : \A j \in I : j <= i].arg

ModeChanges(h) == Cardinality({i \in DOMAIN h : h[i].kind = "mode"})

(* What the core itself checks before it takes a command. *)
Takes(h, c) ==
  /\ ~Over(h)
  /\ c.kind = "answer" => PromptSeat(h) = c.seat /\ c.pid = PromptId(h)
  /\ c.kind = "elim" => Multi /\ c.seat \notin Gone(h)

(* What a replay checks of every saved command before it re-applies it. *)
Legal(h, c) == c.rev = Revision(h) /\ Takes(h, c)

Replayable(h) == \A i \in DOMAIN h : Legal(UpTo(h, i - 1), h[i])
=============================================================================
