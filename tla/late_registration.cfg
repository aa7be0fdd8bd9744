SPECIFICATION Spec
CONSTANTS
  MaxDuration = 63
  DefaultPolicy <- Defaults
  Policies <- SomePolicies
  Slots = 2
  MaxRotations = 0
  FaultKinds = {"abandon"}
  MaxFaults = 1
INVARIANTS RegisterSafeToRetry
