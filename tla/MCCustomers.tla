---------------------------- MODULE MCCustomers ----------------------------
(* Instances of Customers for TLC. *)
EXTENDS Customers, TLC
Symmetry == Permutations(Name)
=============================================================================
