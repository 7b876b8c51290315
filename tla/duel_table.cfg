\* A player and a bot; play goes on at an empty bank, and a redeploy may
\* bring other engine data.
SPECIFICATION Spec
CONSTANTS
  Seats = {0, 1}
  Bots = {1}
  Answers = {a1}
  Modes = {"auto", "off"}
  AutoMode = "auto"
  NoSeat = NoSeat
  Multi = FALSE
  Ranked = FALSE
  Timeout = "continue"
  Bundles = {v1, v2}
  ModeLimit = 1
  SweepYields = FALSE
  MaxFaults = 1
  MaxRestarts = 1
  MaxMoves = 3
  Owner <- MCOwner
  Winner <- MCWinner
  AutoPass <- MCAutoPass
INVARIANTS
  TypeOK
  WorkerMatchesJournal
  ShownIsDurable
  RunsOnPinnedData
  ClockOnPrompt
\* A duel that has ended and whose worker is gone really stops.
CHECK_DEADLOCK FALSE
