SPECIFICATION Spec

CONSTANTS
  MaxAppends = 3
  MaxSegments = 2
  SegmentItems = 2
  BatchSize = 2
  MaxBytes = 1
  Priorities <- LogsAndEvents
  Enforce = TRUE
  Faults = {"clock", "write", "torn", "seal", "ack", "rewrite"}

INVARIANTS
  SeqIdentifiesItem

PROPERTIES
  DiscardPolicy
