------------------------------ MODULE MCSynch ------------------------------
(* The crossings of my_top.v for TLC: 5 units to a cycle of trn_clk, 8 to  *)
(* one of clk156.                                                          *)
EXTENDS Card

(* rx_rd_addr_synch and tx_wr_addr_synch (trn_clk to clk156), and          *)
(* tx_rd_addr_synch (clk156 to trn_clk).                                   *)
MCCrossing ==
  {[periodIn |-> 5, periodOut |-> 8, clear |-> 3, last |-> 7],
   [periodIn |-> 8, periodOut |-> 5, clear |-> 2, last |-> 6]}
=============================================================================
