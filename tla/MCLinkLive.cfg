SPECIFICATION Spec
CONSTANTS
  Buses <- LiveBuses
  Outputs = {1}
  OdValues = {v1}
PROPERTIES HostLossShown RequestsAnswered
