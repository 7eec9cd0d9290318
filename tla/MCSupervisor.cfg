SPECIFICATION Spec
CONSTANTS
  c1 = c1
  c2 = c2
  d1 = d1
  Containers = {c1, c2}
  StateDirs = {d1}
  StateOf <- MCOneProject
  None = None
INVARIANTS NicExclusive SupervisorInv
PROPERTIES HostDeathHandled PhasesEnd
CHECK_DEADLOCK FALSE
