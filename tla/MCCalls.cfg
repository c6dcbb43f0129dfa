CONSTANTS
  ShortHalf = 16
  IntHalf = 32
  PayMod = 128
  Programs <- CompliantPrograms
  Names = {"println", "x"}
  Println = "println"
  PrintlnAddr = 5
  RawWords <- MCRawWords
  MaxDepth = 3
SPECIFICATION FairSpec
INVARIANT ReturnAddresses
PROPERTIES ImplementsCallReturn MovesOn Terminates
CHECK_DEADLOCK FALSE
