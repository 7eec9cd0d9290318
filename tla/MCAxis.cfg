CONSTANTS
  Controlwords <- MCControlwords
  Modes <- MCModes
  Rest <- MCRest
  PayloadRest <- MCRest
  Drives <- MCDrives
  InitDrives <- MCInitDrives
  Exec <- MCExec
  Inputs <- MCInputs
  SdoRead <- MCSdoRead
  SdoWrite <- MCSdoWrite
SPECIFICATION Spec
INVARIANTS TypeOK GuardCoherent RecoveringDriveIsDisabled
PROPERTIES RestartIsFinal NoCommandWhileFaulted FaultHeldUntilVerified FaultVisible
  ResolvedMeansCauseGone
