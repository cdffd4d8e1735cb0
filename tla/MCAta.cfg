SPECIFICATION Spec
CONSTANTS
  Words = 3
  ByteMod = 4
  HeadMod = 2
  Mode = 6
  KernelReads <- KernelReadsSmall
  BootReads <- BootRead
  BadSectors = {28}
PROPERTIES BlockDeviceSpec ReadReturns
