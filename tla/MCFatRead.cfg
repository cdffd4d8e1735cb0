SPECIFICATION Spec
CONSTANTS
  IntHalf = 32
  SectorSize = 2
  SectorsPerCluster = 2
  DataSector = 4
  Chain <- Fragmented
  EndMark = 65535
  OtherEntries = {0, 5}
  Reads <- AllReads
INVARIANTS ReadsFileBytes BufferFilledExactly
PROPERTIES InFileSucceeds ReadsEnd
