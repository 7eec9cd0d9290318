SPECIFICATION ProcessSpec
CONSTANTS
  Slaves = {s1, s2}
  RxSize = 2
  LogicalMax = 3
  LenMax = 3
  FrameMax = 2
  Expected <- MCExpected
  Others = {3}
  Configured = {s1}
INVARIANTS WholeImage MappingInv
CHECK_DEADLOCK FALSE
