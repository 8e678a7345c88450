--------------------------- MODULE MCInventorySlice ---------------------------
(* Instances of InventorySlice for TLC: calls are interchangeable.            *)
EXTENDS InventorySlice, TLC

CallSymmetry == Permutations(Calls)
=============================================================================
