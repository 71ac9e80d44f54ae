CONSTANTS
  a = a
  Models = {a}
  Settings <- DocumentedSettings
  Capacity = 1
  MaxDigest = 2
  MaxCreates = 1
  MaxEdits = 1
  MaxSpecEdits = 1
  MaxFaults = 1
SPECIFICATION Spec
INVARIANTS TypeOK StartsWithModels
PROPERTY Converges
CHECK_DEADLOCK FALSE
