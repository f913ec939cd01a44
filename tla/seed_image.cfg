SPECIFICATION Spec
CONSTANTS
  b1 = b1
  b2 = b2
  Bases = {b1,b2}
  MaxNames = 2
  MaxFaults = 1
  Starts <- Scenarios
INVARIANTS TypeOK DownloadFindsFile
PROPERTIES CleanedUpStaysSo BuildsEnd RebuildBegins ServesRequestedBase DeadlineCleansUp
