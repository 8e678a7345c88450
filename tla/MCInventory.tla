----------------------------- MODULE MCInventory -----------------------------
(* Instances of Inventory for TLC: calls are interchangeable, and so are keys. *)
EXTENDS Inventory, TLC

CallSymmetry == Permutations(Calls)

InventorySymmetry == CallSymmetry \cup Permutations(Keys)
=============================================================================
