CONSTANTS
  a1 = a1
  a2 = a2
  NoAgent = NoAgent
  Contacts <- TwoAgents
  ChatIds = {1, 2}
  ChatSlots = {1, 2}
  ChatPage = 1
  ChatRows = 2
  ChatShown = 1
  ChatLeaves = {"lookup"}
  ChatFails = {"more"}
  q1 = q1
  q2 = q2
  q3 = q3
  u1 = u1
  Users <- OneUser
  Grades = {1, 2}
  FalsifyReward = 2
  FalsifyLimit = 3
  PollinationReward = 1
  PollinationLimit = 2
  PassiveReward = 1
  PassiveLimit = 1
  ExchangeLimit = 4
  CreditsPerCompute = 2
  Offers = {1, 2, 4}
  Charges = {1}
  InitCredits = 3
  Calls = {1, 2}
  Solutions = {"s1", "s2"}
  Guarantee = "guaranteed"
  NoSolution = "none"
  GuaranteeAfter = 2
  FreeDaily = 1
  OfficialCost = 1
  Costs = {1}
  MaxTasks = 2
  MaxEvents = 5
  MaxDays = 1
  MaxFaults = 1
  Requests = {q1, q2}
  Convs = {1, 2, 3, 4}
  Plans <- TwoSteps
  UtcLead = 0
  MaxTime = 1
  FreeTasks = 3
  FeeRequests = {q1, q2, q3}
  FeeConvs = {1}
  FeePlans = {}
  FeeLead = 1
  FeeTime = 3
  FeesFrom = 1
SPECIFICATION PartsSpec
INVARIANTS
  
  CommandsAnswered
  DailyLimits
  KnowledgeIsVerified
  BooksByDay

  
SYMMETRY MCSymmetry
CHECK_DEADLOCK FALSE
