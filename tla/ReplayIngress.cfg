SPECIFICATION FairSpec
CONSTANTS
  Depth = 2
  SlotRows = 2
  Capacity = 4
  NumEnvs = 3
  MaxVectors = 2
  Faults = {"kill", "daemon"}
INVARIANTS
  SlotExclusion
  DeviceRingHoldsLog
  QuiescedCloseDrains
PROPERTIES
  OrderChecksNeverFire
  ImplementsLog
  BlockedAddReturns
  PublishedIsCommitted
  ReadCommittedReturns
