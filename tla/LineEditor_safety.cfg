SPECIFICATION Spec
CONSTANTS
  Space = Space
  Colon = Colon
  Newline = Newline
  Words <- MCWords
  Trail <- MCTrail
  Unit = 2
  Word = 32
  MaxLen = 2
  MaxHistory = 2
  ManyStrays = FALSE
INVARIANTS TypeOK InBounds
PROPERTIES TextFieldSteps
CHECK_DEADLOCK FALSE
