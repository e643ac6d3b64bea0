SPECIFICATION ProjectSpec
CONSTANTS
  a = a
  f = f
  g = g
  None = None
  Abandoned = Abandoned
  Name = {a, f, g}
  Text <- MCText
  Project <- MCProject
  MaxSymbols = 2
  State = {1, 2}
  Buffer = {1, 2, 3, 4, 5}
  BlockSize = 2
INVARIANTS
  Ownership
  TreesExact
  AnswersExact
  IndexExact
PROPERTIES
  IndexKept
  AllReturns
