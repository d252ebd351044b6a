SPECIFICATION FairSpec
CONSTANTS
  Ids = {0, 1, 2, 3}
  MaxSessions = 2
  Hashes <- HashesUpToSymmetry
  NumSlots = 4
  IdleLimit = 1
  MaxOpened = 4
  MaxRejected = 1
INVARIANTS
  TableInv
  OneSessionPerCall
  CountersExact
  EmptySlotsLeft
PROPERTIES
  AdmissionSpec
  NoGhosts
