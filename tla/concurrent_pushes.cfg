SPECIFICATION Spec
CONSTANTS
  Device = {1, 2}
  LogicalMod = 64
  RecordId = {"r"}
  Time <- Still
  Kinds = {"put"}
  Quota <- OneEach
  MaxAttempts = 1
  PageSize = 2
  FaultKinds = {}
  MaxFaults = 0
  SerialPush = FALSE
  SharedClient = FALSE
INVARIANTS ReplicasConverge
