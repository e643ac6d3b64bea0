SPECIFICATION PipelineSpec
CONSTANTS
  Length = 5
  VReg <- VRegs
  NoVReg = 0
  NumRegs = 2
  Programs <- SeenFunctions
  Imm = Imm
  Half <- Halves
  Pow2 <- Powers
  Sources <- Functions
  Inputs <- Lowest
INVARIANTS
  RangesDisjoint
  RightValue
  SameEffects
CHECK_DEADLOCK FALSE
