SPECIFICATION Spec
CONSTANTS
  Creators = {c1, c2, c3}
  Attachers = {a1}
SYMMETRY Interchangeable
CHECK_DEADLOCK FALSE
INVARIANTS
  SegmentInv
  CreatorsApart
