SPECIFICATION Spec
CONSTANTS
  Entries = 4
  PageSize = 16
  Pool <- HeapFrames
  FlagSets = {5}
  Addresses <- SetAddresses
  Values <- SetValues
  MaxCreates = 3
  MaxSets = 2
INVARIANTS TypeOK StaleOnlyIfSet TablesApart
PROPERTIES AddressSpaceSpec
