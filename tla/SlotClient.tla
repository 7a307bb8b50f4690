----------------------------- MODULE SlotClient -----------------------------
(***************************************************************************)
(* What each slave promises about the slots it is granted: the time left   *)
(* only runs down, an early stop may end it at any moment, and the slave   *)
(* acknowledges only when nothing is left.  The threads of Forwarder load  *)
(* and store the slot without excluding each other and implement this for  *)
(* one slave; SlotProtocol speaks of all its slaves in these steps.        *)
(***************************************************************************)
EXTENDS Integers

CONSTANTS
  Client,     \* the slaves
  Lengths     \* the slots that are granted, in ticks

VARIABLES
  phase,      \* phase[n]: "run" from a grant to its acknowledgement, else "idle"
  left        \* left[n]: ticks left

vars == <<phase, left>>

Init ==
  /\ phase = [n \in Client |-> "idle"]
  /\ left = [n \in Client |-> 0]

Receive(n, length) ==
  /\ phase[n] = "idle"
  /\ phase' = [phase EXCEPT ![n] = "run"]
  /\ left' = [left EXCEPT ![n] = length]

Tick(n) ==
  /\ phase[n] = "run" /\ left[n] > 0
  /\ left' = [left EXCEPT ![n] = @ - 1]
  /\ UNCHANGED phase

Stop(n) ==
  /\ phase[n] = "run" /\ left[n] > 0
  /\ left' = [left EXCEPT ![n] = 0]
  /\ UNCHANGED phase

Acknowledge(n) ==
  /\ phase[n] = "run" /\ left[n] = 0
  /\ phase' = [phase EXCEPT ![n] = "idle"]
  /\ UNCHANGED left

\* The process ends, and its slot with it.
Die(n) ==
  /\ phase' = [phase EXCEPT ![n] = "idle"]
  /\ left' = [left EXCEPT ![n] = 0]

Next ==
  \E n \in Client :
    \/ \E length \in Lengths : Receive(n, length)
    \/ Tick(n) \/ Stop(n) \/ Acknowledge(n) \/ Die(n)

Spec == Init /\ [][Next]_vars
=============================================================================
