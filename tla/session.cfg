SPECIFICATION FairSpec
CONSTANTS
  MaxDuration = 63
  DefaultPolicy <- Defaults
  Policies <- SomePolicies
  Slots = 3
  MaxRotations = 2
  FaultKinds = {"error", "lost", "abandon", "fail", "stop"}
  MaxFaults = 2
INVARIANTS SessionTypeOK OnlyLateRotates ScheduleExact
PROPERTIES AdmittedForGood
