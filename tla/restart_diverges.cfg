SPECIFICATION Spec
CONSTANTS
  Device = {1, 2, 3}
  LogicalMod = 64
  RecordId = {"r"}
  Time <- AllDisagree
  Kinds = {"put"}
  Quota <- OneEach
  MaxAttempts = 1
  PageSize = 3
  FaultKinds = {"restart"}
  MaxFaults = 1
  SerialPush = TRUE
  SharedClient = FALSE
INVARIANTS ClientsConverge
