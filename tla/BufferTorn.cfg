SPECIFICATION Spec

CONSTANTS
  MaxAppends = 4
  MaxSegments = 3
  SegmentItems = 2
  BatchSize = 2
  MaxBytes = 0
  Priorities <- OnePriority
  Enforce = FALSE
  Faults = {"torn"}

INVARIANTS
  CrashSafe
