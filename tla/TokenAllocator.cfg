SPECIFICATION Spec
CONSTANTS
  Addr = {a1, a2, a3}
  Malloc <- AnyFree
  NoAddr = NoAddr
  Margin = 1
  RecycCap = 2
  Page = 4
  Header = 1
  MinHint = 1
  MaxHint = 4
  Sizes <- SmallAndLarge
  Inputs <- OneFile
  MaxChunks = 4
  MaxArena = 1
SYMMETRY AddrSymmetry
INVARIANTS
  TypeOK
  NoDanglingChunk
  ChunkCountExact
  BytesExact
PROPERTIES
  CursorMoveSpares
