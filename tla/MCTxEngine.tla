----------------------------- MODULE MCTxEngine -----------------------------
(* The transmit engine and the MAC side, on the instances of MCTxMac.       *)
EXTENDS MCTxMac, TxEngine
=============================================================================
