CONSTANTS
  Configs <- MCConfigs
  DefaultConfig <- MCDefault
  Periods = {1, 2, 3}
  HomingTime = 2
  Kp = 1
  WindowCap = 2
  Targets <- MCTargets
  TargetVelocities = {2}
  ProfileVelocities = {2, 4}
  PositionMax = 4
  Bench <- LimitBench
SPECIFICATION ServoSpec
PROPERTIES PpStartsWithinLimits
