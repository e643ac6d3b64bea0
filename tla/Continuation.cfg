SPECIFICATION Spec
CONSTANTS
  Slot = {x, y, z}
  OverAligned = {y, z}
  MaxUnsuspended = 1
  Value = {0, 1, 2}
  NoResult = 0
  Junk = Junk
  Static = Static
  Null = Null
  Command <- Commands
  FrameSize = 3
  Depth = {0, 1, 3}
  VarArea = 2
  Top = 11
INVARIANTS StackReturned
PROPERTY KeepsPromise
CHECK_DEADLOCK FALSE
