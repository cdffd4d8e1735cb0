SPECIFICATION FairSpec
CONSTANTS
  Total = 5
  BlockSize = 2
  HeapAddr = 4
  WordMod = 64
  Sizes = {1, 4, 5}
INVARIANTS TypeOK TableMatchesHeld HeldDisjoint IInv
PROPERTIES FailsOnlyWhenFull HeldEntriesStable CallsReturn
