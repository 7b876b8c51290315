\* The practice bot runs out of time.
SPECIFICATION Spec
CONSTANTS
  Seats = {0, 1}
  Bots = {1}
  Answers = {a1}
  Modes = {"auto", "off"}
  AutoMode = "auto"
  NoSeat = NoSeat
  Multi = FALSE
  Ranked = FALSE
  Timeout = "loss"
  Bundles = {v1}
  ModeLimit = 1
  SweepYields = FALSE
  MaxFaults = 1
  MaxRestarts = 1
  MaxMoves = 3
  Owner <- MCOwner
  Winner <- MCWinner
  AutoPass <- MCAutoPass
INVARIANTS
  PromptOwnerIsCharged
\* A duel that has ended and whose worker is gone really stops.
CHECK_DEADLOCK FALSE
