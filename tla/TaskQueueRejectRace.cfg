CONSTANTS
  t1 = t1
  t2 = t2
  Tasks = {t1}
  Request <- MCSingleGateRequest
  Workers = {w1}
  SlowWorkers = {}
  Clients = {c1, c2}
  Ops = {"approve", "reject"}
  Actors = {alice, bob, carol}
  Agent = Agent
  NoTask = NoTask
  NoWorker = NoWorker
  Backend = "postgres"
  MaxTurns = 1
  MaxCalls = 0
  MaxDepth = 0
  MaxSubagents = 0
  MaxCrashes = 0
  MaxRetries = 0
SPECIFICATION Spec
INVARIANTS
  RejectedStaysOut
CHECK_DEADLOCK FALSE
