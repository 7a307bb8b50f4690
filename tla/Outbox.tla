------------------------------- MODULE Outbox -------------------------------
(***************************************************************************)
(* What the forwarding process of a slave promises about packets: each     *)
(* packet it reads is written exactly once, either directly or after it    *)
(* has waited, and waiting packets leave in order for each destination.    *)
(***************************************************************************)
EXTENDS Sequences

CONSTANTS Dest, Packet

VARIABLES
  hand,     \* the packet just read, with its destination, or <<>>
  pend,     \* pend[d]: the packets for d that wait for a slot
  out       \* the packet written last, with its destination

vars == <<hand, pend, out>>

Init == hand = <<>> /\ pend = [d \in Dest |-> <<>>] /\ out = <<>>

Read(d, x) ==
  /\ hand = <<>>
  /\ hand' = <<d, x>>
  /\ UNCHANGED <<pend, out>>

Accept(d, x) ==
  /\ hand = <<d, x>>
  /\ hand' = <<>>
  /\ pend' = [pend EXCEPT ![d] = Append(@, x)]
  /\ UNCHANGED out

Direct(d, x) ==
  /\ hand = <<d, x>>
  /\ hand' = <<>>
  /\ out' = <<d, x>>
  /\ UNCHANGED pend

Deliver(d) ==
  /\ pend[d] # <<>>
  /\ out' = <<d, Head(pend[d])>>
  /\ pend' = [pend EXCEPT ![d] = Tail(@)]
  /\ UNCHANGED hand

Next ==
  \E d \in Dest :
    \/ Deliver(d)
    \/ \E x \in Packet : Read(d, x) \/ Accept(d, x) \/ Direct(d, x)

Spec == Init /\ [][Next]_vars
=============================================================================
