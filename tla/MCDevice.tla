------------------------------ MODULE MCDevice ------------------------------
(* Small instances of Device for TLC. *)
EXTENDS Device, TLC

(* Pages are only compared for equality. *)
PageSymmetry == Permutations(Page)
=============================================================================
