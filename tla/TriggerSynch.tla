---------------------------- MODULE TriggerSynch ----------------------------
(***************************************************************************)
(* The crossing of the trigger's requests from clk156 to trn_clk:          *)
(* rx_trigger_synch.v between rx_tlp_trigger.v, which holds a request      *)
(* until it is acknowledged, and the write engine of                       *)
(* rx_wr_pkt_to_hugepages.v, which acknowledges for one cycle.             *)
(*                                                                         *)
(* The clocks are those of AddrSynch, and so is what a register gives that *)
(* samples the other clock's at the edge at which it changes.  Of the      *)
(* crossings, one is looked at: that of an address or that of requests.    *)
(***************************************************************************)
EXTENDS AddrSynch

CONSTANT Words   \* the values of qwords_to_send

ASSUME WordsAssumption == Words \subseteq Nat \ {0}

(* An acknowledge is high for two cycles of the engine's clock, which are  *)
(* longer than one of the trigger's: 10 units of time, and 8.              *)
ASSUME PulseLong == \A c \in Crossing : c.periodIn < 2 * c.periodOut

VARIABLES
  look,                  \* "address" or "request"; no step changes it
  ask, askAck,           \* what rx_tlp_trigger asks for; its acknowledge
  inAt, line, bus,       \* fsm_clk_in, the *_internal line that is high
  ack0, ack1,            \* registers of the acknowledges
  line0, line1, bus0,    \* registers of the lines
  outAt, offer, outAck,  \* fsm_clk_out, what it shows, *_internal_ack
  busy, engineAck, remember, \* of the write engine
  handed, asked, begun   \* the request acknowledged last to the trigger; how
                         \* many were acknowledged and begun, modulo 2

askVars    == <<ask, askAck, inAt, line, bus, ack0, ack1, handed, asked>>
offerVars  == <<line0, line1, bus0, outAt, offer, outAck>>
engineVars == <<busy, engineAck, remember, begun>>
requestVars == <<askVars, offerVars, engineVars>>
synchVars  == <<vars, look, requestVars>>

None == [kind |-> "none", words |-> 0]
Requests == [kind : {"tlp", "last"}, words : Words]
            \cup {[kind |-> "change", words |-> 0]}

SynchInit ==
  /\ Init
  /\ look \in {"address", "request"}
  /\ look = "request" => way.periodIn > way.periodOut
  /\ ask = None /\ askAck = FALSE
  /\ inAt = "s0" /\ line = "none" /\ bus = Torn
  /\ ack0 = "none" /\ ack1 = "none"
  /\ line0 = "none" /\ line1 = "none" /\ bus0 = Torn
  /\ outAt = 0 /\ offer = None /\ outAck = "none"
  /\ busy = 0 /\ engineAck = "none" /\ remember = FALSE
  /\ handed = None /\ asked = 0 /\ begun = 0

-----------------------------------------------------------------------------
(* clk_in.  rx_tlp_trigger takes its request back when it sees the         *)
(* acknowledge.                                                            *)
Ask == ask' \in IF askAck THEN {None}
                ELSE IF ask # None THEN {ask} ELSE {None} \cup Requests

(* fsm_clk_in *)
InTake ==
  /\ inAt = "s0" /\ ask # None
  /\ askAck' = TRUE
  /\ handed' = ask /\ asked' = 1 - asked
  /\ IF ask.kind = "change"
     THEN inAt' = "s5" /\ line' = "change" /\ UNCHANGED bus
     ELSE /\ inAt' = IF ask.kind = "tlp" THEN "s1" ELSE "s3"
          /\ bus' = ask.words /\ UNCHANGED line

InRaise ==
  /\ inAt \in {"s1", "s3"}
  /\ askAck' = FALSE
  /\ line' = IF inAt = "s1" THEN "tlp" ELSE "last"
  /\ inAt' = IF inAt = "s1" THEN "s2" ELSE "s4"
  /\ UNCHANGED <<bus, handed, asked>>

InWait ==
  /\ inAt \in {"s2", "s4", "s5"}
  /\ askAck' = FALSE
  /\ IF ack1 = line THEN line' = "none" /\ inAt' = "s6" ELSE UNCHANGED <<line, inAt>>
  /\ UNCHANGED <<bus, handed, asked>>

InRest ==
  /\ inAt = "s6" \/ (inAt = "s0" /\ ask = None)
  /\ inAt' = "s0"
  /\ UNCHANGED <<askAck, line, bus, handed, asked>>

EdgeAsk == Ask /\ (InTake \/ InRaise \/ InWait \/ InRest)

SampleAck == ack0' \in {outAck, outAck'} /\ ack1' = ack0

-----------------------------------------------------------------------------
(* clk_out: fsm_clk_out, s1 to s3 in one. *)
OutShow ==
  /\ outAt = 0
  /\ IF line1 = "none" THEN UNCHANGED <<outAt, offer>>
     ELSE /\ offer' = [kind |-> line1, words |-> IF line1 = "change" THEN 0 ELSE bus0]
          /\ outAt' = 1
  /\ UNCHANGED outAck

OutWait ==
  /\ outAt = 1
  /\ IF engineAck = (IF offer.kind = "tlp" THEN "tlp" ELSE "change")
     THEN offer' = None /\ outAck' = offer.kind /\ outAt' = 4
     ELSE UNCHANGED <<offer, outAck, outAt>>

(* Mutants of OutRest: the machine looks for a request again after s8; the *)
(* acknowledge is high for one cycle.                                      *)
OutRestShort ==
  /\ outAt >= 4
  /\ outAck' = IF outAt = 5 THEN "none" ELSE outAck
  /\ outAt' = IF outAt = 8 THEN 0 ELSE outAt + 1
  /\ UNCHANGED offer

OutRestBrief ==
  /\ outAt >= 4
  /\ outAck' = "none"
  /\ outAt' = (outAt + 1) % 16
  /\ UNCHANGED offer

(* s4 to s15: the acknowledge is high for two cycles. *)
OutRest ==
  /\ outAt >= 4
  /\ outAck' = IF outAt = 5 THEN "none" ELSE outAck
  /\ outAt' = (outAt + 1) % 16
  /\ UNCHANGED offer

(* send_fsm.  A page or the bus may be missing at any edge; the states of  *)
(* a transfer are four at least.                                           *)
EngineStays ==
  /\ engineAck' = "none"
  /\ UNCHANGED <<busy, remember, begun>>

EngineGoesOn ==
  /\ busy > 0
  /\ busy' = busy - 1 /\ engineAck' = "none"
  /\ UNCHANGED <<remember, begun>>

(* s1: the page that is to be closed behind its last words comes first. *)
EngineCloses ==
  /\ busy = 0 /\ remember
  /\ busy' = 4 /\ engineAck' = "change" /\ remember' = FALSE
  /\ UNCHANGED begun

EngineTakes ==
  /\ busy = 0 /\ ~remember /\ offer # None
  /\ busy' = 4
  /\ remember' = (offer.kind = "last")
  /\ engineAck' = IF offer.kind = "last" THEN "none" ELSE offer.kind
  /\ begun' = 1 - begun

EngineMoves == EngineGoesOn \/ EngineCloses \/ EngineTakes

EdgeOffer == (OutShow \/ OutWait \/ OutRest) /\ (EngineMoves \/ EngineStays)

SampleLine ==
  /\ line0' \in {line, line'} /\ line1' = line0
  /\ bus0' \in IF bus' = bus THEN {bus} ELSE {bus, bus', Torn}

-----------------------------------------------------------------------------
RequestIn ==
  /\ in < out
  /\ UNCHANGED <<offerVars, engineVars>>
  /\ EdgeAsk /\ SampleAck
  /\ in' = way.periodIn /\ out' = out - in

RequestOut ==
  /\ out < in
  /\ UNCHANGED askVars
  /\ EdgeOffer /\ SampleLine
  /\ out' = way.periodOut /\ in' = in - out

RequestBoth ==
  /\ in = out
  /\ EdgeAsk /\ EdgeOffer /\ SampleAck /\ SampleLine
  /\ in' = way.periodIn /\ out' = way.periodOut

SynchNext ==
  \/ look = "address" /\ Next /\ UNCHANGED <<look, requestVars>>
  \/ /\ look = "request"
     /\ UNCHANGED <<look, way, aVars, bVars>>
     /\ RequestIn \/ RequestOut \/ RequestBoth

SynchSpec == SynchInit /\ [][SynchNext]_synchVars

(* Fairness of Card: the clocks run, and the write engine gets a page and  *)
(* the bus in the end.                                                     *)
EngineServed == SynchNext /\ busy' # busy

-----------------------------------------------------------------------------
(* Every request the trigger was acknowledged is begun by the write engine *)
(* once, and is the request it was: none is overwritten in the crossing by *)
(* the next, and none is offered again while its line falls                *)
(* (rx_trigger_synch.v:93-311).  A burst begun twice, or never, would put  *)
(* the two sides' addresses of the buffer apart for good.                  *)
BegunOnce ==
  /\ inAt = "s0" => begun = asked
  /\ busy = 0 /\ ~remember /\ offer # None => begun # asked /\ offer = handed

(* A request that was acknowledged is begun: neither machine waits for a   *)
(* pulse that the other one's clock missed.                                *)
Begun == begun # asked ~> begun = asked
=============================================================================
