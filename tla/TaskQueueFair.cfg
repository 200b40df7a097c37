CONSTANTS
  t1 = t1
  t2 = t2
  Tasks = {t1, t2}
  Request <- MCRequest
  Workers = {w1, w2}
  SlowWorkers = {w2}
  Clients = {}
  Ops = {"approve", "reject"}
  Actors = {alice, bob}
  Agent = Agent
  NoTask = NoTask
  NoWorker = NoWorker
  Backend = "sqlite"
  MaxTurns = 1
  MaxCalls = 1
  MaxDepth = 1
  MaxSubagents = 1
  MaxCrashes = 1
  MaxRetries = 0
SPECIFICATION FairSpec
PROPERTIES
  TasksSettle
  StaleTasksAreRecovered
CHECK_DEADLOCK FALSE
