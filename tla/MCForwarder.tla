---------------------------- MODULE MCForwarder ----------------------------
(* Forwarder with two destinations and a few packets.                      *)
EXTENDS Forwarder

\* Destinations at both ends of the scan: after node 9 it starts over.
TwoDests == {2, 9}
=============================================================================
