SPECIFICATION Spec
CONSTANTS
  v1 = v1
  v2 = v2
  m1 = m1
  None = None
  Versions = {v1,v2}
  Images = {m1}
  Specs <- AllSpecs
  Listings <- OnlyOne
  MaxFailures = 1
  MaxFaults = 1
  Starts <- Scenarios
CHECK_DEADLOCK FALSE
INVARIANTS
  TypeOK LastSyncKnown AttemptsBounded VersionsFollowChannel
PROPERTIES
   DisabledChannelStops BundleFollowsImage DeletedVersionReleased
