SPECIFICATION Spec

CONSTANTS
  MaxAppends = 5
  MaxSegments = 4
  SegmentItems = 2
  BatchSize = 2
  MaxBytes = 0
  Priorities <- OnePriority
  Enforce = FALSE
  Faults = {"seal"}

INVARIANTS
  TypeOK
  NoLoss
  CrashSafe
  NoStrandedItems
  SealedFilesExist

PROPERTIES
  OldestFirst
  ImplementsOutbox
