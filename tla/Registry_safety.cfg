SPECIFICATION Spec
CONSTANTS
  Plugin <- MCPlugin
  Core = Core
  Python = Python
  Command <- MCCommand
  CommandList <- MCCommandList
  HasStrings <- MCHasStrings
  HasDriver <- MCHasDriver
  HasHook <- MCHasHook
  CanFail <- MCCanFail
  Nobody = Nobody
  Sentinel = Sentinel
  MaxLoads = 2
  MaxOpens = 3
  all = all
  other = other
  load = load
  own = own
INVARIANTS TypeOK Backed ExactlyWhileLoaded
PROPERTIES CallsLand
CHECK_DEADLOCK FALSE
