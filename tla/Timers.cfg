SPECIFICATION FairTimersSpec
CONSTANTS
  Timer = {t1, t2}
  Modulus = 10
  Slack = 1
  Delays = {1, 2}
  Steps = {8}
  MaxSteps = 1
  Lag = 1
  MaxCalls = 3
  None = none
INVARIANT ListSound
PROPERTIES
  NotEarly
  TimerRuns
CHECK_DEADLOCK FALSE
