SPECIFICATION SleepSpec
CONSTANTS
  RaisedIrqs = {0, 1}
  Faults = {}
  MAX_TICKS = 3
  eX_PIT_FREQUENCY = 1
  Seconds = {1}
INVARIANT EnabledRequestsSurvive
CHECK_DEADLOCK FALSE
