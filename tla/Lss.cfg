SPECIFICATION Spec
CONSTANTS
  Bits = 2
  Unassigned = 255
  Slaves = {"a", "b", "c"}
  AddrOf <- MCAddrOf
  FirstIds <- MCFirstIds
  CanStore = {"a", "c"}
  LastId = 4
  Commands <- MCCommands
  MaxCommands = 3
  Careful = TRUE
  Prompt = TRUE
  FaultKinds = {"request", "answer", "slow", "power"}
  MaxFaults = 1
INVARIANTS OneSelected UniqueIds AllAssigned
PROPERTIES CommandEnds
CHECK_DEADLOCK FALSE
