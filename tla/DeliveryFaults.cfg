SPECIFICATION DeliverySpec
CONSTANTS
  NumItems = 2
  KindOf <- KindsInOrder
  BatchSize = 3
  MinBackoff = 1
  MaxBackoff = 3
  MaxFaults = 2
INVARIANTS
  DeliveryTypeOK
  ConfirmedWasWritten
  CopiesBoundedByFaults
PROPERTIES
  DeliveryImplementsOutbox
  EverythingIsDelivered
