SPECIFICATION Spec
CONSTANTS
  Device = {1, 2}
  LogicalMod = 64
  RecordId = {"r"}
  Time <- Still
  Kinds = {"put"}
  Quota <- OneEach
  MaxAttempts = 1
  PageSize = 2
  FaultKinds = {"fail"}
  MaxFaults = 1
  SerialPush = TRUE
  SharedClient = FALSE
INVARIANTS SkipsOnlyApplied
