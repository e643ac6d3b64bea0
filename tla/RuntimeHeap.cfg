SPECIFICATION Spec
CONSTANTS
  Handle = {p, q, r}
  Junk = Junk
  Base = 4
  Limit = 46
  HeaderSize = 5
  PrefixSize = 1
  MinBlock = 8
  Unit = 2
  Sizes = {1, 2, 4, 12}
  Alignments = {2, 4}
SYMMETRY SwapHandles
INVARIANTS ChainExact DataIntact NothingLost
CHECK_DEADLOCK FALSE
