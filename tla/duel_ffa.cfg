\* A free-for-all of two players and a bot.
SPECIFICATION Spec
CONSTANTS
  Seats = {0, 1, 2}
  Bots = {2}
  Answers = {a1}
  Modes = {"auto", "off"}
  AutoMode = "auto"
  NoSeat = NoSeat
  Multi = TRUE
  Ranked = FALSE
  Timeout = "loss"
  Bundles = {v1}
  ModeLimit = 0
  SweepYields = FALSE
  MaxFaults = 1
  MaxRestarts = 0
  MaxMoves = 3
  Owner <- MCOwner
  Winner <- MCWinner
  AutoPass <- MCAutoPass
INVARIANTS
  JournalReplays
  BotIsDriven
PROPERTIES
  Implements
  TimeLossIsOwn
\* A duel that has ended and whose worker is gone really stops.
CHECK_DEADLOCK FALSE
