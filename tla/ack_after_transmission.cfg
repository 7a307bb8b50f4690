\* What the comment on the acknowledgement says, on a small instance.
SPECIFICATION Spec
CONSTANTS
  Dest <- TwoDests
  Packet = {a}
  Cap = 1
  LowWater = 1
  Grant = 1
  MaxStops = 0
INVARIANT
  AckAfterTransmissionEnded
