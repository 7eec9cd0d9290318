CONSTANTS
  k1 = k1
  k2 = k2
  target = target
  mode = mode
  Keys = {k1, k2}
  Roles = {target, mode}
  Values = {0, 1}
  Zero = 0
  None = None
  KeyError = KeyError
  Profiles <- MCProfiles
SPECIFICATION IndexSpec
INVARIANTS IndexFresh ResetRestores
PROPERTIES LinearSearch
