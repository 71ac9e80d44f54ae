SPECIFICATION Spec
CONSTANTS
  Requests = {r1}
  Replicas = {"a"}
  Sizes = {1, 2}
  Limit = 2
  MaxOthers = 1
  MaxUploads = 2
  MaxFaults = 2
INVARIANTS TypeOK WithinLimit HandOffIsWhole ReservationEnds AcceptedIsKept
PROPERTIES Concludes
CHECK_DEADLOCK FALSE
