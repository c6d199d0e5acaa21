SPECIFICATION FairSpec
CONSTANTS
  Host = {h1, h2}
  Con = {c1, c2}
  Stdin = Stdin
  Nil = Nil
  InitialSlots = 3
  Ssl = {FALSE}
  MaxRefused = 0
PROPERTIES Heard LossNoticed
CHECK_DEADLOCK FALSE
