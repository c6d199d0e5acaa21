SPECIFICATION Spec
CONSTANTS
  Host = {h1, h2}
  Con = {c1, c2, c3}
  Stdin = Stdin
  Nil = Nil
  InitialSlots = 2
  Ssl = {TRUE, FALSE}
  MaxRefused = 1
SYMMETRY Symmetry
INVARIANTS TypeOK SlotsLive ConnectionsKept
CHECK_DEADLOCK FALSE
