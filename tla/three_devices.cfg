SPECIFICATION Spec
CONSTANTS
  Device = {1, 2, 3}
  LogicalMod = 64
  RecordId = {"r"}
  Time <- OneBehind
  Kinds = {"put"}
  Quota <- OneEach
  MaxAttempts = 1
  PageSize = 3
  FaultKinds = {}
  MaxFaults = 0
  SerialPush = TRUE
  SharedClient = FALSE
INVARIANTS DeviceRecords LosersAudited ServerRecords StampsFollowKnowledge ReplicasConverge
PROPERTIES RecordsNeverGoBack
