--------------------------- MODULE MCTimeWindows ---------------------------
(* TimeWindows with two nodes that share the channel and windows of a few  *)
(* units in the proportions of the code.                                   *)
EXTENDS TimeWindows

\* The windows meet, and the last one ends where the epoch does.
SmallBase == [k \in 0 .. 2 |-> 3 * k]
BothNodes == {1, 2}
\* A reducer on the other node than before, and one without a node yet.
SomeAttempts == <<1, 0>>
=============================================================================
