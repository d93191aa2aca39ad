----------------------------- MODULE AddrSynch -----------------------------
(***************************************************************************)
(* The crossing of a buffer address between the 156.25 MHz clock of the    *)
(* MAC side and the 250 MHz clock of the PCIe side: rx_rd_addr_synch.v and *)
(* tx_wr_addr_synch.v, which are the same, and tx_rd_addr_synch.v, which   *)
(* goes the other way and holds its strobe for one cycle less.             *)
(*                                                                         *)
(* Time is counted in units of 0.8 ns (8 to a cycle of the slow clock, 5   *)
(* to one of the fast).  A register that changes at the very edge at which *)
(* the other clock samples it gives the old or the new bit; an address of  *)
(* several bits may give a mixture, which is no address at all.            *)
(***************************************************************************)
EXTENDS Naturals

CONSTANTS
  Value,           \* addresses
  Torn,            \* a mixture of two addresses
  Crossing         \* the crossings of the design, records of
                   \*   periodIn, periodOut: the cycles of clk_in, clk_out
                   \*   clear: state of fsm_a in which synch is cleared
                   \*   last:  last state of fsm_a

ASSUME ConstantsAssumption ==
  /\ Torn \notin Value
  /\ \A c \in Crossing :
       /\ {c.periodIn, c.periodOut, c.clear, c.last} \subseteq Nat \ {0}
       /\ 1 < c.clear /\ c.clear < c.last

(* The bus rests long enough: from the last edge at which the strobe may   *)
(* be seen, two cycles of the other clock pass before it may change.  In   *)
(* my_top.v these are 16 of 25 units, and 10 of 40.                        *)
ASSUME RestsLong ==
  \A c \in Crossing : 2 * c.periodOut <= (c.last + 1 - c.clear) * c.periodIn

VARIABLES
  way,             \* the crossing looked at, which no step changes
  input,           \* the address, in the domain of clk_in
  fsm, last, synch, cross,         \* fsm_a, bus_in_last, synch, cross
  synch0, synch1, cross0, output,  \* the registers of clk_out
  in, out          \* time to the next edge of either clock

aVars == <<input, fsm, last, synch, cross>>
bVars == <<synch0, synch1, cross0, output>>
vars == <<way, aVars, bVars, in, out>>

-----------------------------------------------------------------------------
(* After reset; cross is not reset, and the clocks may have any phase. *)
Init ==
  /\ way \in Crossing
  /\ input \in Value
  /\ last = input
  /\ output = input
  /\ fsm = 0
  /\ synch = FALSE
  /\ cross = Torn
  /\ synch0 = FALSE
  /\ synch1 = FALSE
  /\ cross0 = Torn
  /\ in \in 1 .. way.periodIn
  /\ out \in 1 .. way.periodOut

(* Mutants of EdgeIn: the bus follows the address in every state; an       *)
(* address is taken for sent that was not.                                 *)
EdgeInOpenBus ==
  /\ input' \in Value
  /\ IF last # input THEN cross' = input ELSE UNCHANGED cross
  /\ last' = IF fsm = 1 THEN cross ELSE last
  /\ synch' = IF fsm = 1 THEN TRUE ELSE IF fsm = way.clear THEN FALSE ELSE synch
  /\ fsm' = IF fsm = way.last \/ (fsm = 0 /\ last = input) THEN 0 ELSE fsm + 1

EdgeInForgets ==
  /\ input' \in Value
  /\ IF fsm = 0 /\ last # input THEN cross' = input ELSE UNCHANGED cross
  /\ last' = IF fsm = 1 THEN input ELSE last
  /\ synch' = IF fsm = 1 THEN TRUE ELSE IF fsm = way.clear THEN FALSE ELSE synch
  /\ fsm' = IF fsm = way.last \/ (fsm = 0 /\ last = input) THEN 0 ELSE fsm + 1

(* fsm_a: the address is latched when it has changed, then the strobe is   *)
(* raised and held. The address itself may change at every edge.           *)
EdgeIn ==
  /\ input' \in Value
  /\ IF fsm = 0 /\ last # input THEN cross' = input ELSE UNCHANGED cross
  /\ last' = IF fsm = 1 THEN cross ELSE last
  /\ synch' = IF fsm = 1 THEN TRUE ELSE IF fsm = way.clear THEN FALSE ELSE synch
  /\ fsm' = IF fsm = way.last \/ (fsm = 0 /\ last = input) THEN 0 ELSE fsm + 1

(* The registers of clk_out, which sample what the other clock holds. *)
EdgeOut ==
  /\ synch0' \in {synch, synch'}
  /\ synch1' = synch0
  /\ cross0' \in IF cross' = cross THEN {cross} ELSE {cross, cross', Torn}
  /\ output' = IF synch1 THEN cross0 ELSE output

TickIn ==
  /\ in < out
  /\ EdgeIn
  /\ in' = way.periodIn
  /\ out' = out - in
  /\ UNCHANGED <<way, bVars>>

TickOut ==
  /\ out < in
  /\ UNCHANGED <<way, aVars>>
  /\ EdgeOut
  /\ out' = way.periodOut
  /\ in' = in - out

TickBoth ==
  /\ in = out
  /\ EdgeIn
  /\ EdgeOut
  /\ in' = way.periodIn
  /\ out' = way.periodOut
  /\ UNCHANGED way

Next == TickIn \/ TickOut \/ TickBoth

Spec == Init /\ [][Next]_vars

(* Fairness: the clocks run. *)
FairSpec == Spec /\ WF_vars(Next)

-----------------------------------------------------------------------------
(* The other side only ever sees an address that was written: no register  *)
(* of clk_out takes the bus while it changes, nor before it was set.       *)
NeverTorn == output # Torn

(* What the other side takes is the latest address that was latched: it    *)
(* never goes back to an older one, so a difference of addresses computed  *)
(* from it errs on the safe side only.                                     *)
NeverOlder == [][output' # output => output' = cross]_vars

(* The last address gets across: a change that comes while another one is  *)
(* crossing is not lost.                                                   *)
Follows == \A v \in Value : <>[](input = v) => <>[](output = v)
=============================================================================
