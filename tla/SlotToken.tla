----------------------------- MODULE SlotToken -----------------------------
(***************************************************************************)
(* What the slot protocol promises, without messages: the air is a token.  *)
(* The master hands it to one node; the node may open its transmission     *)
(* slot and must close it again; only then does the token come back.       *)
(***************************************************************************)
EXTENDS Integers

CONSTANTS
  Nodes,    \* the nodes that share the channel
  NoNode    \* not one of them

VARIABLES
  holder,   \* the node that was granted the air, or NoNode
  active    \* the nodes whose slot is open

vars == <<holder, active>>

Init == holder = NoNode /\ active = {}

Grant(n) ==
  /\ holder = NoNode
  /\ holder' = n
  /\ UNCHANGED active

Start(n) ==
  /\ holder = n
  /\ active = {}
  /\ active' = {n}
  /\ UNCHANGED holder

Stop(n) ==
  /\ active = {n}
  /\ active' = {}
  /\ UNCHANGED holder

Release ==
  /\ holder # NoNode
  /\ active = {}
  /\ holder' = NoNode
  /\ UNCHANGED active

Next ==
  \/ \E n \in Nodes : Grant(n) \/ Start(n) \/ Stop(n)
  \/ Release

Spec == Init /\ [][Next]_vars
=============================================================================
