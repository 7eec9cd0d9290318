CONSTANTS
  Indices = {0, 1, 2}
  Lists = {"IDS", "MODELS"}
  Unique = {"IDS"}
  Models = "MODELS"
  Valid <- MCValid
  CopleyName = "copley_drive_sim"
  Malformed = Malformed
  Error = Error
  Forgotten = Forgotten
  MaxTime = 3
  BadName = "?"
  Inputs <- MCInputs
  MaxBus = 2
  MaxList = 2
SPECIFICATION Spec
INVARIANTS NativeLegal LeaksExplained ConfigurationSound
CHECK_DEADLOCK FALSE
