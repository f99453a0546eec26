CONSTANTS
  t1 = t1
  t2 = t2
  c1 = c1
  q1 = q1
  u1 = u1
  u2 = u2
  u3 = u3
  Bank = Bank
  NoRun = NoRun
  Users <- ThreeUsers
  Pool = Bank
  Tasks <- TwoTasks
  Rewards <- SomeRewards
  MinReward = 1000
  InitCredits = 1010
  Day = 6
  Patience = 3
  PublishBy = 4
  MaxClock = 8
  MaxFaults = 1
  Forms <- EveryForm
  Modes = {"normal", "free", "swarm"}
  Peers = {"sases", "own", "none"}
  Identities = {"none", "sases", "other"}
SPECIFICATION PartsSpec

  
PROPERTIES
  TasksSettle
  LostCardsAreReposted
  QuestionIsAnswered
  RewardsAreEscrowed
CHECK_DEADLOCK FALSE
