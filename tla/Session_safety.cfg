SPECIFICATION FairSpec
CONSTANTS
  Other = {o1, o2}
  LastNick = 4
  NoUser = NoUser
  Nil = Nil
  Channel = Channel
  MaxTyped = 2
  MaxDeeds = 3
INVARIANTS TypeOK SelfKept SameNick Roster
PROPERTY GetsNick
CHECK_DEADLOCK FALSE
