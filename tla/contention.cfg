SPECIFICATION Spec
CONSTANTS
  i1 = i1
  i2 = i2
  s1 = s1
  s2 = s2
  None = None
  Inventories = {i1}
  Selectors = {s1,s2}
  Matches <- AllMatch
  Resettable = {}
  Pooled = {}
  Agents = {}
  Delayed = {}
  Deletable = {}
  Deadlines = {i1,s1,s2}
  MaxUid = 1
  MaxFaults = 1
  MaxAddresses = 1
CHECK_DEADLOCK FALSE
SYMMETRY SelectorSymmetry
INVARIANTS TypeOK ExclusiveAdoption BootstrapByOwner
PROPERTIES OwnerKept ImplementsHandshake
