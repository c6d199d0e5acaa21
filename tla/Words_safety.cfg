SPECIFICATION TextSpec
CONSTANTS
  Letter <- MCLetter
  Letters = "letters"
  End = "end"
  Expressions <- MCExpressions
  Texts <- MCTexts
  Behinds <- MCBehinds
  Lines <- MCLines
  Char <- MCChar
  Garbage <- MCGarbage
  Functions = 3
  MaxArgc = 4
  ServerLines <- MCServerLines
  Picked <- MCPicked
  Haystacks <- MCHaystacks
  Needles <- MCNeedles
  Found = {0, 1, 2, 3}
INVARIANTS TypeOK RegexAgrees ArgvSplits ArgumentsOfLine NickFound AliasInPlace CompletionsOnce
CHECK_DEADLOCK FALSE
