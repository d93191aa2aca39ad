--------------------------------- MODULE Bus ---------------------------------
(***************************************************************************)
(* The transmit side of the PCIe endpoint, which two machines share: the   *)
(* write engine of reception (hw/my_engine/src/rx_wr_pkt_to_hugepages.v)   *)
(* and the read engine of transmission (tx_rd_host_mem.v), in turns given  *)
(* by enpoint_arbitration.v.  The endpoint gets the words of both, or-ed   *)
(* together (pcie_endpoint_driver.v:473-478): nothing but the turns keeps  *)
(* them apart.                                                             *)
(*                                                                         *)
(* One step is a cycle of trn_clk, in which all three machines move.  What *)
(* the endpoint and the neighbours of the machines do is chosen in it.     *)
(***************************************************************************)
EXTENDS Naturals

VARIABLES
  arb, turnBit, rxTurn, txTurn,     \* enpoint_arbitration: fsm, outputs
  rxAt, rxDrives, rxTd, rxInt,      \* send_fsm, driving_interface, trn_td,
  txAt, txDrives, txTd, txInt,      \* cfg_interrupt_n; rd_host_fsm and its
  rxAsk, txAsk                      \* what each is asked for, or "none"

arbVars == <<arb, turnBit, rxTurn, txTurn>>
rxBusVars == <<rxAt, rxDrives, rxTd, rxInt, rxAsk>>
txBusVars == <<txAt, txDrives, txTd, txInt, txAsk>>
busVars == <<arbVars, rxBusVars, txBusVars>>

BusInit ==
  /\ arb = "s0" /\ turnBit = FALSE /\ rxTurn = FALSE /\ txTurn = FALSE
  /\ rxAt = "s0" /\ rxDrives = FALSE /\ rxTd = FALSE /\ rxInt = FALSE
  /\ txAt = "s0" /\ txDrives = FALSE /\ txTd = FALSE /\ txInt = FALSE
  /\ rxAsk = "none" /\ txAsk = "none"

-----------------------------------------------------------------------------
(* A mutant of Arbitrate: the turn does not alternate. *)
ArbitrateSame ==
  /\ UNCHANGED turnBit
  /\ IF arb = "s0" /\ ~rxDrives /\ ~txDrives
     THEN rxTurn' = ~turnBit /\ txTurn' = turnBit /\ arb' = "s1"
     ELSE /\ arb' = "s0"
          /\ IF arb = "s1" THEN rxTurn' = FALSE /\ txTurn' = FALSE
             ELSE UNCHANGED <<rxTurn, txTurn>>

(* When nobody drives the bus, a turn of one cycle for either in its turn. *)
Arbitrate ==
  \/ /\ arb = "s0" /\ ~rxDrives /\ ~txDrives
     /\ turnBit' = ~turnBit
     /\ rxTurn' = ~turnBit /\ txTurn' = turnBit
     /\ arb' = "s1"
  \/ arb = "s0" /\ (rxDrives \/ txDrives) /\ UNCHANGED arbVars
  \/ /\ arb = "s1"
     /\ rxTurn' = FALSE /\ txTurn' = FALSE
     /\ arb' = "s0" /\ UNCHANGED turnBit

(* A request is held until the engine takes it. *)
Held(ask, ask1, kinds) == ask1 \in IF ask = "none" THEN kinds \cup {"none"} ELSE {ask}
RxKinds == {"tlp", "last", "change"}
TxKinds == {"tlp", "interrupt"}

-----------------------------------------------------------------------------
(* send_fsm s0: there may be a page. The bus stays as it is. *)
RxPage ==
  /\ rxAt = "s0"
  /\ rxAt' \in {"s0", "s1"}
  /\ Held(rxAsk, rxAsk', RxKinds)
  /\ UNCHANGED <<rxDrives, rxTd, rxInt>>

(* s1 with a request, the endpoint ready, and the turn or the bus.  Behind *)
(* its last words (send_last_tlp) a page is closed.                        *)
RxTake ==
  /\ rxAt = "s1" /\ rxAsk # "none" /\ (rxTurn \/ rxDrives)
  /\ rxAt' = IF rxAsk = "change" THEN "s8" ELSE "s2"
  /\ rxAsk' = IF rxAsk = "last" THEN "change" ELSE "none"
  /\ rxDrives' = TRUE /\ rxTd' = FALSE
  /\ UNCHANGED rxInt

(* s1 without one of them: the bus is given back. *)
RxPause ==
  /\ rxAt = "s1"
  /\ Held(rxAsk, rxAsk', RxKinds)
  /\ rxDrives' = FALSE /\ rxTd' = FALSE
  /\ UNCHANGED <<rxAt, rxInt>>

(* s2 to s7, a burst; s8 to s11, the length of the page that is returned.  *)
(* trn_td keeps the last word.                                             *)
RxSend ==
  /\ \/ rxAt = "s2" /\ rxAt' = "s3"
     \/ rxAt = "s3" /\ rxAt' \in {"s3", "s5"}
     \/ rxAt = "s5" /\ rxAt' \in {"s5", "s1"}
     \/ rxAt = "s8" /\ rxAt' = "s9"
     \/ rxAt = "s9" /\ rxAt' \in {"s9", "s11"}
     \/ rxAt = "s11" /\ rxAt' \in {"s11", "s12"}
  /\ rxTd' = TRUE
  /\ rxInt' = (rxAt' = "s12")
  /\ Held(rxAsk, rxAsk', RxKinds)
  /\ UNCHANGED rxDrives

(* A mutant of RxInterrupt: the bus is given back with the interrupt. *)
RxInterruptReleases ==
  /\ rxAt = "s12"
  /\ rxAt' \in {"s12", "s0"}
  /\ rxInt' = (rxAt' = "s12")
  /\ rxDrives' = (rxAt' = "s12")
  /\ Held(rxAsk, rxAsk', RxKinds)
  /\ UNCHANGED rxTd

(* s12: the endpoint answers the interrupt. *)
RxInterrupt ==
  /\ rxAt = "s12"
  /\ rxAt' \in {"s12", "s0"}
  /\ rxInt' = (rxAt' = "s12")
  /\ Held(rxAsk, rxAsk', RxKinds)
  /\ UNCHANGED <<rxDrives, rxTd>>

RxCycle == RxPage \/ RxTake \/ RxPause \/ RxSend \/ RxInterrupt

-----------------------------------------------------------------------------
(* rd_host_fsm s0 with its turn, a request and the endpoint ready. *)
TxTake ==
  /\ txAt = "s0" /\ txTurn /\ txAsk # "none"
  /\ txAt' = IF txAsk = "interrupt" THEN "s8" ELSE "s1"
  /\ txInt' = (txAsk = "interrupt")
  /\ txAsk' = "none"
  /\ txDrives' = TRUE
  /\ UNCHANGED txTd

TxWait ==
  /\ txAt = "s0"
  /\ Held(txAsk, txAsk', TxKinds)
  /\ txDrives' = FALSE
  /\ UNCHANGED <<txAt, txTd, txInt>>

(* s1 to s3, a read request; s4 to s7 and s9 to s11, which write what was  *)
(* completed, have the same outputs.  The last state clears trn_td.        *)
TxSend ==
  /\ \/ txAt = "s1" /\ txAt' = "s2"
     \/ txAt = "s2" /\ txAt' \in {"s2", "s3"}
     \/ txAt = "s3" /\ txAt' \in {"s3", "s0"}
  /\ txTd' = (txAt' # "s0")
  /\ txDrives' = (txAt' # "s0")
  /\ Held(txAsk, txAsk', TxKinds)
  /\ UNCHANGED txInt

(* s8 *)
TxInterrupts ==
  /\ txAt = "s8"
  /\ txAt' \in {"s8", "s0"}
  /\ txInt' = (txAt' = "s8") /\ txDrives' = (txAt' = "s8")
  /\ Held(txAsk, txAsk', TxKinds)
  /\ UNCHANGED txTd

TxCycle == TxTake \/ TxWait \/ TxSend \/ TxInterrupts

-----------------------------------------------------------------------------
BusNext == Arbitrate /\ RxCycle /\ TxCycle

BusSpec == BusInit /\ [][BusNext]_busVars

(* Fairness: the clock runs; no machine waits for ever for the endpoint,   *)
(* which is not always busy in just the cycles of one's turns, nor the     *)
(* write engine for a page; and now and then the write engine finds no     *)
(* request, no credit or the endpoint busy when it ends a burst.           *)
ArbGoesOn == BusNext /\ arb' # arb
RxGoesOn == BusNext /\ rxAt' # rxAt
TxGoesOn == BusNext /\ txAt' # txAt
RxRests  == BusNext /\ RxPause /\ rxDrives

-----------------------------------------------------------------------------
(* Never do both engines put words on the bus, or interrupts, and no       *)
(* engine's last word is left there when the other one's turn comes: the   *)
(* write engine clears it no sooner than it gives back the bus             *)
(* (rx_wr_pkt_to_hugepages.v:222-223).                                     *)
OneDriver ==
  /\ ~(rxTd /\ txTd)
  /\ ~(rxInt /\ txInt)
  /\ txDrives => ~rxTd

(* What the read engine is asked for is begun in the end, though the write *)
(* engine keeps the bus from a burst to the next: "we're taking the risk   *)
(* of starving the tx process" (rx_wr_pkt_to_hugepages.v:222).  Without a  *)
(* page for the write engine, or without its rests, it is not.             *)
TxServed == txAsk # "none" ~> txAsk = "none"
=============================================================================
