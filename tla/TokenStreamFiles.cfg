SPECIFICATION FairStreamSpec
CONSTANTS
  Addr <- Addresses
  Malloc <- LowestFree
  NoAddr = 0
  Margin = 1
  RecycCap = 1
  Page = 1
  Header = 0
  MinHint = 1
  MaxHint = 1
  Sizes <- TokenSize
  Inputs <- NoFiles
  MaxChunks = 10
  MaxArena = 0
  Lookahead = 1
  Lookbehind = 1
  MaxDepth = 2
  MaxExpand = 0
  MaxBody = 0
  Words = {"plain"}
  LanguageAnalysis = TRUE
  RawKinds <- ConditionalFile
INVARIANTS
  GroupsAgree
  NoTokenLost
PROPERTIES
  WindowBounded
  KeepsPromise
