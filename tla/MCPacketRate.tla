---------------------------- MODULE MCPacketRate -----------------------------
(* One node measures the link from another one; the memory for the line is *)
(* clear or holds two numbers.                                             *)
EXTENDS PacketRate

OneEarlier == {[k \in Node |-> IF k \in Publisher THEN 3 ELSE 0]}
ClearOrTwo == {<<0>>, <<2, 7>>}
=============================================================================
