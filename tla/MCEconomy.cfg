CONSTANTS
  u1 = u1
  u2 = u2
  t1 = t1
  t2 = t2
  t3 = t3
  c1 = c1
  k1 = k1
  r1 = r1
  NoRun = NoRun
  g1 = g1
  g2 = g2
  NoGroup = NoGroup
  Groups <- TwoGroups
  Tabs = {1, 2, 3}
  PageLimit = 1
  MaxTexts = 2
  MaxSocks = 2
  MaxLoads = 2
  Users <- TwoUsers
  Txs <- ThreeTxs
  Amounts <- SomeAmounts
  InitCredits = 2
  Tasks = {t1, t2}
  Plans <- SomeCalls
  Base <- TwoLines
  MaxFaults = 1
  Notes <- SomeNotes
  Keys = {"cmd"}
  Signatures = {"py", "js"}
  Statuses = {"success"}
  Reviews = {"ok"}
  FewHits = 1
  MaxRows = 3
  MaxRecords = 2
  MaxSteps = 2
  MaxLocks = 1
  Pets = {1, 2}
  Camps = {"plant", "sea"}
  Facilities = {"home"}
  Resources = {"sun", "stone"}
  Output <- OutputOf
  CostOf <- UpgradeWith
  CaptainCamps <- CaptainsOf
  MaxLevel = 2
  Stones = "stone"
  Ranks = 2
  SkillSlots <- SlotsByRank
  MaxSlots = 2
  MaxMembers = 2
  MaxHours = 2
  ExpPerLevel = 1
  Meals <- SomeMeals
  Rewards = {2}
  MaxEvents = 5
  MaxTime = 3
  MaxFailures = 1
  Traders <- TwoTraders
  Prices = {0, 20, 40}
  Means = 50
  MaxOrders = 3
  Readers = {1, 2}
  Admins = {1}
  Ways = {"chat", "admin"}
  Documents <- SomeDocuments
  Sections <- SectionsOf
  Like <- NearlyAlike
  Files <- SomeFiles
  State <- StateFile
  Goals = {"goal"}
  Newest = 2
  MaxSeconds = 1
  MaxImports = 2
  MaxRuns = 2
  MaxCuts = 1
SYMMETRY MCSymmetry
SPECIFICATION PartsSpec
INVARIANTS
  HistoryExplainsBalance
  NothingPaidTwice
  LibraryInOrder
  PatchesAreWhole
  ExperienceAddsUp
  GroupPage
  
PROPERTIES
  IsEscrow
CHECK_DEADLOCK FALSE
