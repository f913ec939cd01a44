SPECIFICATION Spec
CONSTANTS
  v1 = v1
  v2 = v2
  m1 = m1
  None = None
  Versions = {v1,v2}
  Images = {m1}
  Specs <- AllSpecs
  Listings <- OnlyOne
  MaxFailures = 1
  MaxFaults = 0
  Starts <- OnlyHeld
CHECK_DEADLOCK FALSE
PROPERTIES HeldOnlyIfReferenced
