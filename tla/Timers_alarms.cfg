SPECIFICATION FairSpec
CONSTANTS
  Alarm = {a1, a2, a3}
  refresher = refresher
  script = script
  Func <- MCFunc
  Deleted <- MCDeleted
  Delay = {0, 1}
  MaxClock = 2
  QHead = QHead
  RHead = RHead
  Nil = Nil
INVARIANTS TypeOK ReadyIsDue QueueSorted OnePlace
PROPERTIES DeleteIsComplete ServiceSpec AlarmRuns
CHECK_DEADLOCK FALSE
