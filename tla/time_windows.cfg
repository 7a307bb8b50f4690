\* Epochs of 6 and 5; 12 is a multiple of the first only, as a second is.
SPECIFICATION FairSpec
CONSTANTS
  clusterSize = 2
  Base <- SmallBase
  Shorten = 1
  Attempts <- SomeAttempts
  Earlier = {2}
  Forwarder <- BothNodes
  Guard = 1
  Delay = 1
  Second = 12
  MaxRestarts = 1
INVARIANTS
  IInv
  Exclusive
PROPERTIES
  Converges
  InTurns
