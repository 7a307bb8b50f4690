\* Two destinations, two contents to see the order, queues that hold two
\* packets, slots of two ticks, one early stop.
SPECIFICATION Spec
CONSTANTS
  Dest <- TwoDests
  Packet = {a, b}
  Cap = 2
  LowWater = 1
  Grant = 2
  MaxStops = 1
INVARIANTS
  QueuesBounded
  UnlockOnce
  NoLostSignal
  OneLatePacket
  SlotBudget
  IInv
PROPERTY
  OutboxSpec
