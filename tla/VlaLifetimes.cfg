SPECIFICATION Spec
CONSTANTS
  Length = 7
  MaxDeclarations = 2
  MaxBlocks = 2
  MaxJumps = 1
  Size = {1, 2}
INVARIANTS
  PassesAgree
  StackExact
  NestedSavesDominate
\* A run ends where the function returns.
CHECK_DEADLOCK FALSE
