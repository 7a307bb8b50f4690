\* Two slaves that may each die twice: stale requests of two earlier
\* incarnations meet the third one.
SPECIFICATION Spec
CONSTANTS
  LastNode = 3
  IdleSlot = 1
  BusySlot = 2
  Sizes <- AnySign
  MaxInc = 2
INVARIANTS
  SlotExclusive
  GrantsParse
  NoMutualWait
  IInv
PROPERTY
  TokenSpec
