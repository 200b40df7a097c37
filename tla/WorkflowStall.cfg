CONSTANTS
  Runs = {1, 2}
  Steps = {1}
  Deps <- MCChain
  Mentions <- MCChain
  Refused <- MCRefused
  Tickers = {l1}
  NoRun = NoRun
  Backend = "sqlite"
  MaxFaults = 0
  MaxOverturns = 0
SPECIFICATION FairSpec
PROPERTIES
  RunsSettle
CHECK_DEADLOCK FALSE
