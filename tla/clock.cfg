SPECIFICATION ClockSpec
CONSTANTS
  LogicalMod = 20
  Node = 2
  Nodes = {1, 2, 3}
  Reading = {1, 2, 3, 4, 5, 6}
INVARIANTS NeverBehind
PROPERTIES SortsAfterAllSeen CatchesUp
