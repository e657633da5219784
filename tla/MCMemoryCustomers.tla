------------------------- MODULE MCMemoryCustomers --------------------------
(* Small instances of MemoryCustomers for TLC. *)
EXTENDS MemoryCustomers, TLC

(* Addresses are only compared, and change requests run the same code. *)
Symmetry == Permutations(Emails) \cup Permutations(Changes)
=============================================================================
