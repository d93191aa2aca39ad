------------------------------ MODULE MCTxPath ------------------------------
(* Small instances of TxPath for TLC. *)
EXTENDS TxPath, TLC

(* Addresses are only compared for equality, so they may be permuted where *)
(* no temporal property is checked.                                        *)
AddrSymmetry == Permutations(Addr)
=============================================================================
