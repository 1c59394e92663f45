CONSTANTS
  Base = 3
  Host = "little"
  Schemas <- AllSchemas
  Samples <- MCSamples
  Inputs <- MCInputs
  MaxInput = 2
  Context = 1
  SizeOfString = 32
  Reuse = FALSE
  MaxRecords = 2
  Offsets = {0, 2, 4}
  Memories <- MCMemories
  None = None
SPECIFICATION SerdeSpec
INVARIANTS
  ConstSizeIsRuntimeSize
CHECK_DEADLOCK FALSE
