\* One content is enough here: the order does not matter.
SPECIFICATION FairSpec
CONSTANTS
  Dest <- TwoDests
  Packet = {a}
  Cap = 2
  LowWater = 2
  Grant = 1
  MaxStops = 1
PROPERTIES
  MainUnblocks
  QueuesDrain
  GrantIsAcked
