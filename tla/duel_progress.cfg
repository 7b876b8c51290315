\* What must happen in the end, with the idle sweep at work.
SPECIFICATION FairSpec
CONSTANTS
  Seats = {0, 1}
  Bots = {1}
  Answers = {a1}
  Modes = {"auto", "off"}
  AutoMode = "auto"
  NoSeat = NoSeat
  Multi = FALSE
  Ranked = FALSE
  Timeout = "loss"
  Bundles = {v1}
  ModeLimit = 1
  SweepYields = TRUE
  MaxFaults = 1
  MaxRestarts = 0
  MaxMoves = 2
  Owner <- MCOwner
  Winner <- MCWinner
  AutoPass <- MCAutoPass
PROPERTIES
  OverdueIsSettled
  BotMoves
  ResultIsRecorded
\* A duel that has ended and whose worker is gone really stops.
CHECK_DEADLOCK FALSE
