CONSTANTS
  Configs <- MCConfigs
  DefaultConfig <- MCDefault
  Periods = {1}
  HomingTime = 2
  Kp = 1
  WindowCap = 1
  Targets = {2}
  TargetVelocities = {1}
  ProfileVelocities = {1}
  PositionMax = 2
  Controlwords <- MCControlwords
  Modes = {1, 3, 6, 7}
SPECIFICATION Spec
PROPERTIES NoUnattendedMotion RecoveryCompletes
VIEW MCView
