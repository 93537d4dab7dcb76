----------------------------- MODULE MCInventory -----------------------------
(* Two requests over two devices, two datacenters, and one row of each other   *)
(* table.                                                                      *)
EXTENDS Inventory, TLC
Sym == Permutations(Reqs) \cup Permutations(Devices) \cup Permutations(Datacenters)
=============================================================================
