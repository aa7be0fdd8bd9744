SPECIFICATION FairSpec
CONSTANTS
  Device = {1, 2}
  LogicalMod = 64
  RecordId = {"r"}
  Time <- Still
  Kinds = {"put"}
  Quota <- OneEach
  MaxAttempts = 2
  PageSize = 1
  FaultKinds = {"timeout", "error", "abort", "pullfail", "fail", "restart", "crash"}
  MaxFaults = 1
  SerialPush = FALSE
  SharedClient = TRUE
PROPERTIES EveryOpDelivered
