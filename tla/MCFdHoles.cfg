SPECIFICATION Spec
CONSTANTS
  RootSlots = 3
  ClusterSlots = 2
  LastSlot = 6
  NameWidth = 2
  ExtWidth = 1
  NameChars = {"a", "b", "t"}
  Names <- MCNames
  Exts <- MCExts
  Attributes <- MCAttributes
  Slots <- AllSlots
  Disks <- AllDisks
  Chains <- AllChains
CHECK_DEADLOCK FALSE
INVARIANTS AllItemsOfRoot
