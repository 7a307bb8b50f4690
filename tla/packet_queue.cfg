\* Four nodes and two contents; enq finds memory full only when all are linked.
SPECIFICATION Spec
CONSTANTS
  Addr = {n1, n2, n3, n4}
  Packet = {a, b}
  NULL = NULL
  Garbage = Garbage
SYMMETRY AddrSymmetry
INVARIANTS
  IInv
  PeekSafe
  NoLeakNoDangling
  CountIsLength
PROPERTY
  ListSpec
