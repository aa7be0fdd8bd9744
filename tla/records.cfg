SPECIFICATION Spec
CONSTANTS
  Device = {1, 2}
  LogicalMod = 64
  RecordId = {"r"}
  Time <- OneUnsteady
  Kinds = {"put", "delete"}
  Quota <- TwoAndOne
  MaxAttempts = 2
  PageSize = 2
  FaultKinds = {"timeout", "error", "pullfail"}
  MaxFaults = 1
  SerialPush = TRUE
  SharedClient = FALSE
INVARIANTS DeviceRecords StampsFollowKnowledge CounterNamesWrite LosersAudited ServerRecords AckedApplied
  ServerLosersAudited
