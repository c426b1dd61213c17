SPECIFICATION SleepSpec
CONSTANTS
  RaisedIrqs = {0, 1, 4}
  Faults = {6, 14}
  MAX_TICKS = 5
  eX_PIT_FREQUENCY = 2
  Seconds = {0, 1}
INVARIANTS
  HandlerNeverPrintsAsync
  AnswersCheckedBeforeUse
PROPERTIES
  HaltIsFinal
  ResetOnlyByKeyboard
  TimerKeepsTicking
  BootCompletes
  SleepReturns
CHECK_DEADLOCK FALSE
