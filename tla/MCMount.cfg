SPECIFICATION Spec
CONSTANTS
  MaxFilesystems = 2
  SectorSize = 4
  BlockSize = 8
  EntrySize = 2
  Volumes <- MCVolumes
  Pools <- MCPools
CHECK_DEADLOCK FALSE
INVARIANTS RunsInHeap MountedIsComplete RefusedLeavesStreams
PROPERTIES MountReturns
