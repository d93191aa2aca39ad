--------------------------------- MODULE Card ---------------------------------
(***************************************************************************)
(* What the rest of the card's models take for granted of its wires: the   *)
(* crossings between its clocks (AddrSynch, TriggerSynch) and the bus its  *)
(* engines share (Bus).  They do not depend on each other: a behaviour has *)
(* the steps of one part, and the other stays as it is.                    *)
(***************************************************************************)
EXTENDS TriggerSynch, Bus

VARIABLE part

cardVars == <<part, synchVars, busVars>>

(* One state of the crossings is enough to look at the bus. *)
CardInit ==
  /\ part \in {"crossings", "bus"}
  /\ SynchInit /\ BusInit
  /\ part = "bus" => look = "request" /\ in = 1 /\ out = 1

OfCrossings(A) == part = "crossings" /\ A /\ UNCHANGED <<part, busVars>>
OfBus(A)       == part = "bus" /\ A /\ UNCHANGED <<part, synchVars>>

CardNext == OfCrossings(SynchNext) \/ OfBus(BusNext)

CardSpec ==
  /\ CardInit /\ [][CardNext]_cardVars
  /\ WF_cardVars(OfCrossings(SynchNext)) /\ WF_cardVars(OfBus(ArbGoesOn))
  /\ SF_cardVars(OfCrossings(EngineServed))
  /\ SF_cardVars(OfBus(RxGoesOn)) /\ SF_cardVars(OfBus(TxGoesOn))
  /\ SF_cardVars(OfBus(RxRests))
=============================================================================
