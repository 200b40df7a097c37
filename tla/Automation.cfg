\* What the engine does beside its queue: see MCAutomation
SPECIFICATION AutomationSpec
CONSTANTS
  Runs = {1}
  Steps = {1, 2, 3}
  Deps <- MCJoin
  Mentions <- MCJoin
  Refused <- MCNone
  Tickers = {l1, l2}
  NoRun = NoRun
  Backend = "postgres"
  MaxFaults = 1
  MaxOverturns = 1
  replica = replica
  single = single
  replicaName = replicaName
  singleName = singleName
  prompt = prompt
  workflow = workflow
  Schedule = {schedule1}
  Event = {event1}
  Rule = {rule1, rule2}
  Command = {prompt, workflow}
  WorkflowCommand = {workflow}
  Loop = {replica}
  Once = {single}
  LeaseName <- Names
  NoLeader = noLeader
  Store = "postgres"
  Horizon = 2
  EditBound = 1
  MishapBound = 1
  Execution = {e1, e2}
  Scope = {sc1, sc2}
  ScopesOf <- AllScopes
  Limits = {1, 2}
  MaxCost = 2
  ProviderCount = 2
  Threshold = 3
  TurnDeathBound = 1
INVARIANTS
  PromptsAreComplete
  OccurrencesAreSingle
  SpendIsBounded
PROPERTIES
  ImplementsDagRun
  RunsSettle
  NothingDueIsDropped
  DueIsReached
  DownProviderIsLeftAlone
CHECK_DEADLOCK FALSE
