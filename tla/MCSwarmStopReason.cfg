CONSTANTS
  t1 = t1
  t2 = t2
  c1 = c1
  q1 = q1
  q2 = q2
  k1 = k1
  Tasks = {t1, t2}
  Convs = {c1}
  Runs = {1}
  Requests = {q1}
  Clients = {}
  Plans <- OneStep
  WorkerOutcomes <- OnlyOk
  ClientOutcomes = {}
  NoRun = NoRun
  MaxRetry = 2
  MaxConcurrent = 1
  MaxRounds = 4
  CreditsPerRound = 2
  BudgetStop = 4
  LoopWindow = 3
  NoProgressWindow = 5
  InitBalance = 3
  StorageFaults = FALSE
  RoundCap = 6
  MaxRestarts = 0
SPECIFICATION Spec
INVARIANT StopReasonKept
