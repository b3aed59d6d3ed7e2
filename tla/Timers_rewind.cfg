SPECIFICATION TimersSpec
CONSTANTS
  Timer = {t1, t2}
  Modulus = 16
  Slack = 1
  Delays = {1, 2}
  Steps = {14, 2}
  MaxSteps = 1
  Lag = 1
  MaxCalls = 3
  None = none
CHECK_DEADLOCK FALSE
PROPERTY EveryAffectedRerun
