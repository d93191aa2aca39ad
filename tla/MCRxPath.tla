------------------------------ MODULE MCRxPath ------------------------------
(* Small instances of RxPath for TLC. *)
EXTENDS RxPath, TLC

(* Pages are only compared for equality. *)
PageSymmetry == Permutations(Page)
=============================================================================
