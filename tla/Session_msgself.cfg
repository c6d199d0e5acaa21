SPECIFICATION Spec
CONSTANTS
  Other = {o1}
  LastNick = 3
  NoUser = NoUser
  Nil = Nil
  Channel = Channel
  MaxTyped = 2
  MaxDeeds = 2
INVARIANTS MsgFromSelf
CHECK_DEADLOCK FALSE
