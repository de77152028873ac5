SPECIFICATION Spec
CONSTANTS
  ConnectionStrings <- Strings
  Intervals = {0, 1}
  MaxEdits = 3
  MaxFaults = 2
  Torn = Torn
INVARIANTS
  TypeOK
  ProvisioningSurvives
PROPERTIES
  NamedAfterDevice
CHECK_DEADLOCK FALSE
