\* Three slaves that may each die once, at any point of the protocol.
SPECIFICATION FairSpec
CONSTANTS
  LastNode = 4
  IdleSlot = 1
  BusySlot = 1
  Sizes <- BusyOrNot
  MaxInc = 1
PROPERTIES
  AckArrives
  IdleOrHung
  NoStarvation
