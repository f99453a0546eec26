CONSTANTS
  t1 = t1
  t2 = t2
  c1 = c1
  q1 = q1
  Tasks = {t1, t2}
  Convs = {c1}
  Runs = {1}
  Requests = {q1}
  Clients = {}
  Plans <- OneStep
  WorkerOutcomes <- SomeOutcomes
  ClientOutcomes = {}
  NoRun = NoRun
  MaxRetry = 1
  MaxConcurrent = 1
  MaxRounds = 4
  CreditsPerRound = 2
  BudgetStop = 4
  LoopWindow = 3
  NoProgressWindow = 5
  InitBalance = 3
  StorageFaults = TRUE
  RoundCap = 6
  MaxRestarts = 1
SYMMETRY TaskSymmetry
SPECIFICATION PartsSpec
INVARIANTS
  TypeOK
  
  TasksHeldBack
  OnlyConfirmedRunsWork
  RoundsPaid
  FailuresAndRounds
PROPERTIES
  CancelStopsTask
  StepsAreDoneOnce
  OnlyRunningRunsPay
