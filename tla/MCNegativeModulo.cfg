CONSTANTS
  ShortHalf = 64
  IntHalf = 1024
  PayMod = 4096
  Programs <- NegativeModulo
  Names = {"println", "test"}
  Println = "println"
  PrintlnAddr = 5
  RawWords = {}
  MaxDepth = 3
SPECIFICATION Spec
INVARIANT ModuloRejectsOnlyNonIntegers
CHECK_DEADLOCK FALSE
