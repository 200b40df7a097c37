CONSTANTS
  t1 = t1
  t2 = t2
  Tasks = {t1}
  Request <- MCSingleGateRequest
  Workers = {w1, w2}
  SlowWorkers = {w1, w2}
  Clients = {c1, c2}
  Ops = {"approve", "reject", "cancel", "retry"}
  Actors = {alice, bob}
  Agent = Agent
  NoTask = NoTask
  NoWorker = NoWorker
  Backend = "postgres"
  MaxTurns = 2
  MaxCalls = 0
  MaxDepth = 1
  MaxSubagents = 1
  MaxCrashes = 0
  MaxRetries = 1
SYMMETRY Symmetry
SPECIFICATION Spec
INVARIANTS
  ApprovalGate
  ClaimsHold
PROPERTIES
  AttemptsAreCounted
  EndsAtRestStay
CHECK_DEADLOCK FALSE
