CONSTANTS
  ShortHalf = 64
  IntHalf = 1024
  PayMod = 4096
  Programs <- Fixtures
  Names = {"println", "test"}
  Println = "println"
  PrintlnAddr = 5
  RawWords = {}
  MaxDepth = 3
SPECIFICATION FairSpec
INVARIANT ResultInSlot0
PROPERTY ReachesExit
CHECK_DEADLOCK FALSE
