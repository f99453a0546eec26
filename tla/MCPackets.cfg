CONSTANTS
  u1 = u1
  u2 = u2
  Packets = {1, 2}
  Users = {u1, u2}
  Owner = u1
  Totals = {3}
  Counts = {2}
  MinTotal = 3
  InitCredits = 4
  InitPool = 4
  MaxFaults = 1
CHECK_DEADLOCK FALSE
SPECIFICATION PFairSpec
INVARIANTS
  
  OneShareEach
  SharesLeft
  
  
PROPERTIES
  PacketsClose
