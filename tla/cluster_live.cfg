\* Two nodes with two outputs, on one of them or on both.
SPECIFICATION ClusterSpec
CONSTANTS
  LastNode = 3
  IdleSlot = 1
  BusySlot = 1
  Sizes <- AnySign
  MaxInc = 0
  Half = 2
  MaxOutputs = 2
  MaxWire = 1
INVARIANTS
  ClusterIInv
PROPERTIES
  OutputIsSent
  HangsWithoutPositive
