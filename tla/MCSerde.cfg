CONSTANTS
  Base = 3
  Host = "little"
  Schemas <- DescribedSchemas
  Samples <- MCSamples
  Inputs <- MCInputs
  MaxInput = 6
  Context = 1
  SizeOfString = 32
  Reuse = FALSE
  MaxRecords = 2
  Offsets = {0, 2, 4}
  Memories <- MCMemories
  None = None
SPECIFICATION SerdeSpec
INVARIANTS
  RoundTrip
  ObjectInv
  SizesAgree
  SerializeStaysInside
  WriterKeepsOrder
CHECK_DEADLOCK FALSE
