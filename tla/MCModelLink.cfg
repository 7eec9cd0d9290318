SPECIFICATION Spec
CONSTANTS
  Buses <- SafetyBuses
  Outputs = {1}
  OdValues = {v1, v2}
SYMMETRY MCSymmetry
INVARIANTS LinkInv RepliesMatch LocalOdMatches
PROPERTIES FrozenAfterFailure SdoAbortsAfterHostFailure
