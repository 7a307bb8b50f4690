--------------------------- MODULE MCSlotProtocol ---------------------------
(* SlotProtocol on small instances. TLC's bounds are the constants.        *)
EXTENDS SlotProtocol

\* Busy or not; the scheduler tells no two positive sizes apart.
BusyOrNot == {0, 1}

\* get_data_size adds up ints without a check: a sum may come out negative.
AnySign == {-1, 0, 1}
=============================================================================
