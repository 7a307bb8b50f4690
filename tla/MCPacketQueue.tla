--------------------------- MODULE MCPacketQueue ---------------------------
(* PacketQueue with few addresses; they are interchangeable.               *)
EXTENDS PacketQueue, TLC

AddrSymmetry == Permutations(Addr)
=============================================================================
