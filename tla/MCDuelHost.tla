----------------------------- MODULE MCDuelHost -----------------------------
(***************************************************************************)
(* A small duel for the host to run: the living seats are asked in turn and *)
(* the duel is decided after MaxMoves prompts, or when one seat is left and *)
(* no chain is open, which it is at every second prompt.                    *)
(* Switching the response mode to "off" passes every second prompt.         *)
(***************************************************************************)
EXTENDS DuelHostInductive

CONSTANT MaxMoves   \* bound: prompts of one duel

(* The core's state: prompts answered so far, the seat that was asked last  *)
(* in turn order, and the seats that have left.                             *)
CoreStart == [moves |-> 0, turn |-> 0, gone |-> {}]

LivingFrom(turn, gone) ==
  LET n == Cardinality(Seats)
      ahead == {d \in 0..(n - 1) : (turn + d) % n \notin gone}
  IN  IF ahead = {} THEN NoSeat
      ELSE (turn + CHOOSE d \in ahead : \A e \in ahead : d <= e) % n

ChainOpen(core) == core.moves % 2 = 1

Decided(core) == \/ core.moves >= MaxMoves \/ core.gone = Seats
                 \/ Cardinality(Seats \ core.gone) = 1 /\ ~ChainOpen(core)

Asked(core) == IF Decided(core) THEN NoSeat ELSE LivingFrom(core.turn, core.gone)

Passable(core, m) == m = "off" /\ ~ChainOpen(core)

Turn(core) == [core EXCEPT !.moves = @ + 1,
                           !.turn = (Asked(core) + 1) % Cardinality(Seats)]

CoreTakes(core, c) ==
  IF Decided(core) \/ (c.kind = "mode" /\ ~(Asked(core) = c.seat /\ Passable(core, c.arg)))
  THEN core
  ELSE IF c.kind = "elim" THEN [core EXCEPT !.gone = @ \cup {c.seat}]
  ELSE Turn(core)

Core(h) ==
  LET after[n \in 0..Len(h)] == IF n = 0 THEN CoreStart ELSE CoreTakes(after[n - 1], h[n])
  IN  after[Len(h)]

MCOwner(h) == Asked(Core(h))

(* The seat after the last answer wins, unless it has left. *)
MCWinner(h) == IF Decided(Core(h)) THEN LivingFrom(Core(h).turn, Core(h).gone) ELSE NoSeat

MCAutoPass(h, m) == Passable(Core(h), m)

(* The proofs rest on it: here, for every duel of up to three commands. *)
SmallCommand ==
  [kind : {"answer"}, seat : Seats, rev : {0}, pid : {0}, arg : Answers]
  \cup [kind : {"mode"}, seat : Seats, rev : {0}, pid : {0}, arg : Modes]
  \cup [kind : {"elim"}, seat : Seats, rev : {0}, pid : {0}, arg : {"time"}]

ASSUME SmallQuietModesKeepPrompt ==
  \A n \in 0..2 : \A h \in [1..n -> SmallCommand], c \in SmallCommand :
    ~Bumps(h, c) => PromptSeat(Append(h, c)) = PromptSeat(h)

(* So does this: here, for every duel of up to four legal commands. *)
LegalCommands(h) ==
  {c \in [kind : {"answer"}, seat : Seats, rev : {Revision(h)}, pid : {PromptId(h)}, arg : Answers]
         \cup [kind : {"mode"}, seat : Seats, rev : {Revision(h)}, pid : {0}, arg : Modes]
         \cup [kind : {"elim"}, seat : Seats, rev : {Revision(h)}, pid : {0}, arg : {"time"}] :
     Legal(h, c)}

SmallDuels ==
  LET duels[n \in 0..4] ==
        IF n = 0 THEN {<<>>}
        ELSE UNION {{Append(h, c) : c \in LegalCommands(h)} : h \in duels[n - 1]}
  IN  UNION {duels[n] : n \in 0..4}

ASSUME SmallDepartedNeverWin ==
  \A h \in SmallDuels : Replayable(h) /\ Winner(h) \notin Gone(h)
=============================================================================
