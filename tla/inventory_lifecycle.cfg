SPECIFICATION Spec
CONSTANTS
  i1 = i1
  i2 = i2
  s1 = s1
  s2 = s2
  None = None
  Inventories = {i1}
  Selectors = {}
  Matches <- AllMatch
  Resettable = {i1}
  Pooled = {i1}
  Agents = {i1}
  Delayed = {}
  Deletable = {i1}
  Deadlines = {}
  MaxUid = 2
  MaxFaults = 2
  MaxAddresses = 1
CHECK_DEADLOCK FALSE
INVARIANTS PlanRecordedWhenRead
