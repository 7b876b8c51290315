\* A seat surrenders while the clock of another one has just run out.
SPECIFICATION Spec
CONSTANTS
  Seats = {0, 1, 2}
  Bots = {}
  Answers = {a1}
  Modes = {"auto", "off"}
  AutoMode = "auto"
  NoSeat = NoSeat
  Multi = TRUE
  Ranked = FALSE
  Timeout = "loss"
  Bundles = {v1}
  ModeLimit = 0
  SweepYields = FALSE
  MaxFaults = 1
  MaxRestarts = 0
  MaxMoves = 3
  Owner <- MCOwner
  Winner <- MCWinner
  AutoPass <- MCAutoPass
INVARIANTS
  LossClockNeverStands
CHECK_DEADLOCK FALSE
