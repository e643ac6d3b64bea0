SPECIFICATION Spec
CONSTANTS
  a = a
  b = b
  generated = generated
  Name <- TwoNames
  Anonymous = generated
  MemberLists <- Twice
  MaxScopes = 4
  MaxDeclarations = 3
  MaxCaptured = 1
INVARIANTS AnswersStand FileScopeVisible WellFormed OneMeaning
PROPERTY RollbackRestores
CHECK_DEADLOCK FALSE
SYMMETRY SwapNames
CONSTRAINT Room
