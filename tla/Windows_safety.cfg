SPECIFICATION Spec
CONSTANTS
  Channel <- MCChannel
  Server <- MCServer
  ServerOf <- MCServerOf
  MaxWindows = 2
  MaxMessages = 2
  NoServer = NoServer
  a = a
  b = b
  here = here
  there = there
INVARIANTS TypeOK Placed ShowsMembership ListsUnseen ScreenIsFresh
PROPERTIES SaidWhereShown BackShowsAll
CHECK_DEADLOCK FALSE
