\* One node with one output: the updates stop.
SPECIFICATION ClusterSpec
CONSTANTS
  LastNode = 2
  IdleSlot = 1
  BusySlot = 1
  Sizes <- AnySign
  MaxInc = 0
  Half = 2
  MaxOutputs = 1
  MaxWire = 1
PROPERTIES
  UpdatesGoOn
