SPECIFICATION FairSpec
CONSTANTS
  Alarm = {a1, a2}
  refresher = refresher
  script = script
  Func <- MCFunc
  Deleted <- MCDeleted
  Delay = {0, 1, 2}
  MaxClock = 3
  QHead = QHead
  RHead = RHead
  Nil = Nil
PROPERTIES TimedFunctionRuns
CHECK_DEADLOCK FALSE
