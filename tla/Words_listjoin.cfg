SPECIFICATION Spec
CONSTANTS
  Letter <- MCLetter
  Letters = "letters"
  End = "end"
  Expressions = {}
  Texts = {}
  Behinds = {}
  Lines = {}
  Char <- MCChar
  Garbage <- MCGarbage
  Functions = 3
  MaxArgc = 4
  ServerLines = {}
  Picked <- MCPicked
  Haystacks = {}
  Needles = {}
  Found = {0, 1, 2, 3}
INVARIANTS AllOffered
CHECK_DEADLOCK FALSE
