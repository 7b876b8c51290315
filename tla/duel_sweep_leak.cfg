\* The idle sweep waits for another duel before it comes to this one.
SPECIFICATION Spec
CONSTANTS
  Seats = {0, 1}
  Bots = {1}
  Answers = {a1}
  Modes = {"auto", "off"}
  AutoMode = "auto"
  NoSeat = NoSeat
  Multi = FALSE
  Ranked = FALSE
  Timeout = "loss"
  Bundles = {v1}
  ModeLimit = 1
  SweepYields = TRUE
  MaxFaults = 1
  MaxRestarts = 1
  MaxMoves = 2
  Owner <- MCOwner
  Winner <- MCWinner
  AutoPass <- MCAutoPass
INVARIANTS
  OneWorkerPerDuel
\* A duel that has ended and whose worker is gone really stops.
CHECK_DEADLOCK FALSE
