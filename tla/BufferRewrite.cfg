SPECIFICATION Spec

CONSTANTS
  MaxAppends = 4
  MaxSegments = 3
  SegmentItems = 3
  BatchSize = 1
  MaxBytes = 0
  Priorities <- OnePriority
  Enforce = FALSE
  Faults = {"rewrite"}

INVARIANTS
  NoLoss
