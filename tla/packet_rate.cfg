\* Node 2 is told by node 3; a count of 1 says nothing, 4 is the most.
SPECIFICATION FairSpec
CONSTANTS
  Last = 3
  Source = {2}
  Publisher = {3}
  Listener = {2}
  Period = 1
  Capacity = 3
  Threshold = 1
  Earlier <- OneEarlier
  Leftover <- ClearOrTwo
  MaxAir = 2
INVARIANTS
  IInv
  RatesArePossible
PROPERTIES
  RatesNeverDrop
  RateArrives
