SPECIFICATION StreamSpec
CONSTANTS
  Addr <- Addresses
  Malloc <- LowestFree
  NoAddr = 0
  Margin = 1
  RecycCap = 1
  Page = 1
  Header = 0
  MinHint = 1
  MaxHint = 1
  Sizes <- TokenSize
  Inputs <- NoFiles
  MaxChunks = 7
  MaxArena = 0
  Lookahead = 1
  Lookbehind = 0
  MaxDepth = 0
  MaxExpand = 2
  MaxBody = 2
  Words = {"plain"}
  LanguageAnalysis = TRUE
  RawKinds <- MacroFile
INVARIANTS
  UnreadLive
  NoTokenLost
