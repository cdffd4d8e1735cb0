SPECIFICATION Spec
CONSTANTS
  Pool = 30
  MaxFds = 2
  Nodes <- MCNodes
  Dirs <- MCDirs
  Root = "root"
  Links <- MCLinks
  FileSize <- MCSizes
  Mounted = TRUE
  Requests <- AllRequests
  ReadResults = {"OK"}
  Offsets = {0, 2, 7}
  WordMod = 8
  MaxOpens = 3
INVARIANTS TypeOK NoFault DescriptorsComplete DescriptorsApart
PROPERTIES OpensWhatIsNamed CloseReleasesAll OthersUntouched
