SPECIFICATION Spec
CONSTANTS
  i1 = i1
  i2 = i2
  s1 = s1
  s2 = s2
  None = None
  Inventories = {i1}
  Selectors = {s1}
  Matches <- AllMatch
  Resettable = {i1}
  Pooled = {}
  Agents = {i1}
  Delayed = {}
  Deletable = {i1}
  Deadlines = {i1}
  MaxUid = 1
  MaxFaults = 1
  MaxAddresses = 1
CHECK_DEADLOCK FALSE
PROPERTIES ReleasedAfterReset
