SPECIFICATION Spec
CONSTANTS
  i1 = i1
  i2 = i2
  s1 = s1
  s2 = s2
  None = None
  Inventories = {i1}
  Selectors = {s1}
  Matches <- AllMatch
  Resettable = {}
  Pooled = {}
  Agents = {}
  Delayed = {}
  Deletable = {i1,s1}
  Deadlines = {}
  MaxUid = 2
  MaxFaults = 0
  MaxAddresses = 1
CHECK_DEADLOCK FALSE
INVARIANTS ConfirmedByInventory
PROPERTIES ImplementsHandshake
