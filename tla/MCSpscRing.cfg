SPECIFICATION FairSpec
CONSTANTS
  Capacity = 2
  MaxItems = 6
  Values = {a, b}
  Blank = blank
INVARIANTS
  RingInv
  NoDataRace
  SizeInRange
PROPERTIES
  RefusedOnlyWhenFull
  FifoSpec
  FifoFairSpec
