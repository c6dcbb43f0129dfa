CONSTANTS
  ShortHalf = 16
  IntHalf = 32
  PayMod = 128
  Programs <- MCProgramSet
  Names = {"println", "x"}
  Println = "println"
  PrintlnAddr = 5
  RawWords <- MCRawWords
  MaxDepth = 2
SPECIFICATION Spec
INVARIANTS TypeOK BasesOrdered WordsMade FaultCauses
PROPERTIES FrameIsolation CallerKept
CHECK_DEADLOCK FALSE
