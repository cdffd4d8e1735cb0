SPECIFICATION Spec
CONSTANTS
  Pool = 13
  MaxFds = 2
  Nodes <- MCNodes
  Dirs <- MCDirs
  Root = "root"
  Links <- MCLinks
  FileSize <- MCSizes
  Mounted = TRUE
  Requests <- ErrorRequests
  ReadResults = {"OK", "EIO"}
  Offsets = {0}
  WordMod = 8
  MaxOpens = 3
INVARIANTS SlotsHoldDescriptors
