SPECIFICATION Spec
CONSTANTS
  r1 = r1
  r2 = r2
  t1 = t1
  None = None
  Regs = {r1,r2}
  Tokens = {t1}
  MaxInventories = 3
  MaxFaults = 1
  Starts <- Scenarios
CHECK_DEADLOCK FALSE
INVARIANTS
  TypeOK DistinctTokens AgentHasInventory AddressesReleased
PROPERTIES
  OneInventoryPerMachine OnlyNewMachinesCreate
  TokenSettles InstallCompletes 
