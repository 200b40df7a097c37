CONSTANTS
  t1 = t1
  t2 = t2
  Tasks = {t1}
  Request <- MCOpenRequest
  Workers = {w1}
  SlowWorkers = {}
  Clients = {c1}
  Ops = {"cancel"}
  Actors = {alice}
  Agent = Agent
  NoTask = NoTask
  NoWorker = NoWorker
  Backend = "sqlite"
  MaxTurns = 1
  MaxCalls = 0
  MaxDepth = 0
  MaxSubagents = 0
  MaxCrashes = 1
  MaxRetries = 0
SPECIFICATION FairSpec
PROPERTIES
  StaleTasksAreRecovered
CHECK_DEADLOCK FALSE
