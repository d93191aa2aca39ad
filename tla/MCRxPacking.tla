---------------------------- MODULE MCRxPacking ----------------------------
(* Small instances of RxPacking for TLC. *)
EXTENDS RxPacking
=============================================================================
