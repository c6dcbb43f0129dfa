CONSTANTS
  ShortHalf = 64
  IntHalf = 1024
  PayMod = 4096
  Programs <- LoopTest
  Names = {"println", "test"}
  Println = "println"
  PrintlnAddr = 5
  RawWords = {}
  MaxDepth = 3
SPECIFICATION FairSpec
PROPERTY ReachesExit
CHECK_DEADLOCK FALSE
