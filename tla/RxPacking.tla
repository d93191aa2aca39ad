----------------------------- MODULE RxPacking -----------------------------
(***************************************************************************)
(* How the NIC packs received frames into 2MB pages: the MAC side writes   *)
(* frames to a small buffer (rx_mac_interface.v), the trigger cuts what is *)
(* committed into bursts and decides when a page ends (rx_tlp_trigger.v),  *)
(* one request at a time crosses to the PCIe clock (rx_trigger_synch.v)    *)
(* and the write engine moves the words (rx_wr_pkt_to_hugepages.v).        *)
(*                                                                         *)
(* Quantities are in words of 8 bytes.  A word of the buffer is TRUE when  *)
(* it is the last of its frame.  Addresses are 9 bits wide in the code; as *)
(* NoOverrun shows, no difference of two of them wraps.                    *)
(***************************************************************************)
EXTENDS Naturals, Sequences

CONSTANTS
  Size,      \* words of the buffer, 512
  MaxDiff,   \* MAX_DIFF, 480
  Burst,     \* words of a full write request, 16 (and of a page's header)
  PageSize,  \* words of a page, 2^18
  MaxFrame   \* words of the largest frame, its header word included

ASSUME ConstantsAssumption ==
  /\ {Size, MaxDiff, Burst, PageSize, MaxFrame} \subseteq Nat
  /\ Burst > 0
  /\ MaxDiff + 4 < Size
  /\ Burst + Size < PageSize

VARIABLES
  mem,      \* committed words that were not sent
  rxState,  \* rx_fsm
  aux,      \* words of the frame being received
  diff,     \* the MAC side's difference, of the cycle before
  unseen,   \* words sent, as the MAC side does not know yet
  trig,     \* trigger_fsm
  left,     \* full bursts of the snapshot still to be requested
  toSend,   \* qwords_to_send of the last request of a page
  count,    \* huge_buffer_qword_counter
  dirty,    \* huge_page_dirty
  remaining,\* qwords_remaining
  request,  \* the request that crosses the clocks
  page,     \* huge_page_qword_counter
  ended,    \* the last word sent ended a frame
  send      \* send_fsm: waiting for a page, writing it, page closed

macVars  == <<rxState, aux, diff>>
trigVars == <<trig, left, toSend, count, dirty, remaining>>
sendVars == <<page, ended, send>>
vars == <<mem, macVars, unseen, trigVars, request, sendVars>>

None == [kind |-> "none", words |-> 0]

Occupied == Len(mem) + unseen + aux

(* Committed words the trigger has not requested yet. *)
Waiting == Len(mem) - request.words

-----------------------------------------------------------------------------
Init ==
  /\ mem = <<>>
  /\ rxState = "idle"
  /\ aux = 0
  /\ diff = 0
  /\ unseen = 0
  /\ trig = "idle"
  /\ left = 0
  /\ toSend = 0
  /\ count = Burst
  /\ dirty = FALSE
  /\ remaining = 0
  /\ request = None
  /\ page = 0
  /\ ended = TRUE
  /\ send = "wait"

-----------------------------------------------------------------------------
(* rx_mac_interface. The first word of a frame is kept for its header. *)

RxStart ==
  /\ rxState = "idle"
  /\ rxState' = "frame"
  /\ aux' = 1
  /\ diff' = Occupied
  /\ UNCHANGED <<mem, unseen, trigVars, request, sendVars>>

(* A mutant of RxWord: no frame is dropped. *)
RxWordAlways ==
  /\ rxState = "frame"
  /\ aux < MaxFrame
  /\ aux' = aux + 1
  /\ diff' = Occupied
  /\ rxState' \in {"frame", "good"}
  /\ UNCHANGED <<mem, unseen, trigVars, request, sendVars>>

(* A word arrives and is written in any case; a frame that finds the       *)
(* buffer nearly full is dropped.                                          *)
RxWord ==
  /\ rxState = "frame"
  /\ aux < MaxFrame
  /\ aux' = aux + 1
  /\ diff' = Occupied
  /\ rxState' \in IF diff > MaxDiff THEN {"drop"} ELSE {"frame", "good"}
  /\ UNCHANGED <<mem, unseen, trigVars, request, sendVars>>

RxCommit ==
  /\ rxState = "good"
  /\ mem' = mem \o [k \in 1 .. aux |-> k = aux]
  /\ aux' = 0
  /\ diff' = Occupied
  /\ rxState' = "idle"
  /\ UNCHANGED <<unseen, trigVars, request, sendVars>>

(* A bad frame, or the end of one that is being dropped. *)
RxDiscard ==
  /\ rxState \in {"frame", "drop"}
  /\ aux' = 0
  /\ diff' = Occupied
  /\ rxState' = "idle"
  /\ UNCHANGED <<mem, unseen, trigVars, request, sendVars>>

(* rx_rd_addr_synch: the MAC side learns a later read address. *)
RdSynch ==
  /\ \E n \in 0 .. unseen : unseen' = n
  /\ UNCHANGED <<mem, macVars, trigVars, request, sendVars>>

-----------------------------------------------------------------------------
(* rx_tlp_trigger. *)

(* s0, s1: what waits, rounded down to full bursts, goes to the page. *)
TrigBurst ==
  /\ trig = "idle"
  /\ Waiting >= Burst
  /\ count + Waiting < PageSize
  /\ dirty' = TRUE
  /\ remaining' = Waiting % Burst
  /\ left' = Waiting \div Burst
  /\ trig' = "burst"
  /\ UNCHANGED <<mem, macVars, unseen, toSend, count, request, sendVars>>

(* A mutant of EndPage: the words left over are forgotten. *)
EndPageNow == trig' = "change" /\ toSend' = remaining

(* The page ends behind the words that were left over by the last burst.   *)
EndPage ==
  /\ trig' = IF remaining = 0 THEN "change" ELSE "last"
  /\ toSend' = remaining

(* s0, s1: the page cannot take what waits. *)
TrigFull ==
  /\ trig = "idle"
  /\ Waiting >= Burst
  /\ count + Waiting >= PageSize
  /\ dirty' = TRUE
  /\ EndPage
  /\ UNCHANGED <<mem, macVars, unseen, left, count, remaining, request,
                 sendVars>>

(* s0, s9: no full burst for a while, and the page has been written to. *)
TrigTimeout ==
  /\ trig = "idle"
  /\ Waiting < Burst
  /\ dirty
  /\ EndPage
  /\ UNCHANGED <<mem, macVars, unseen, left, count, dirty, remaining, request,
                 sendVars>>

(* A mutant of TrigFlush: only a page that was written to is flushed. *)
TrigFlushDirty ==
  /\ trig = "idle"
  /\ 0 < Waiting /\ Waiting < Burst
  /\ dirty
  /\ toSend' = Waiting
  /\ trig' = "last"
  /\ UNCHANGED <<mem, macVars, unseen, left, count, dirty, remaining, request,
                 sendVars>>

(* s0, s10: no full burst for a while, on a new page. *)
TrigFlush ==
  /\ trig = "idle"
  /\ 0 < Waiting /\ Waiting < Burst
  /\ ~dirty
  /\ toSend' = Waiting
  /\ trig' = "last"
  /\ UNCHANGED <<mem, macVars, unseen, left, count, dirty, remaining, request,
                 sendVars>>

(* rx_trigger_synch takes a request when the one before was acknowledged.  *)
Hand(kind, n) ==
  /\ request = None
  /\ request' = [kind |-> kind, words |-> n]

(* s2-s4. *)
TrigTlp ==
  /\ trig = "burst"
  /\ Hand("tlp", Burst)
  /\ count' = count + Burst
  /\ left' = left - 1
  /\ trig' = IF left > 1 THEN "burst" ELSE "idle"
  /\ UNCHANGED <<mem, macVars, unseen, toSend, dirty, remaining, sendVars>>

(* s5. *)
TrigChange ==
  /\ trig = "change"
  /\ Hand("change", 0)
  /\ count' = Burst
  /\ dirty' = FALSE
  /\ trig' = "idle"
  /\ UNCHANGED <<mem, macVars, unseen, left, toSend, remaining, sendVars>>

(* s6-s8. *)
TrigLast ==
  /\ trig = "last"
  /\ Hand("last", toSend)
  /\ count' = Burst
  /\ remaining' = 0
  /\ dirty' = FALSE
  /\ trig' = "idle"
  /\ UNCHANGED <<mem, macVars, unseen, left, toSend, sendVars>>

-----------------------------------------------------------------------------
(* rx_wr_pkt_to_hugepages. *)

(* s0. *)
SendOpen ==
  /\ send \in {"wait", "closed"}
  /\ send' = "open"
  /\ page' = 0
  /\ UNCHANGED <<mem, macVars, unseen, trigVars, request, ended>>

(* s1-s5, and s8-s11 behind the last words of a page or without any. *)
Send ==
  /\ send = "open"
  /\ request # None
  /\ LET n == request.words
     IN  /\ mem' = SubSeq(mem, n + 1, Len(mem))
         /\ unseen' = unseen + n
         /\ page' = page + n
         /\ ended' = IF n = 0 THEN ended ELSE mem[n]
  /\ send' = IF request.kind = "tlp" THEN "open" ELSE "closed"
  /\ request' = None
  /\ UNCHANGED <<macVars, trigVars>>

-----------------------------------------------------------------------------
Mac == RxStart \/ RxWord \/ RxCommit \/ RxDiscard \/ RdSynch

Trigger == \/ TrigBurst \/ TrigFull \/ TrigTimeout \/ TrigFlush
           \/ TrigTlp \/ TrigChange \/ TrigLast

Next == Mac \/ Trigger \/ SendOpen \/ Send

Spec == Init /\ [][Next]_vars

(* Fairness: the trigger's timer runs while it is idle, the host has a     *)
(* page ready in the end, the write engine gets the bus in the end, and    *)
(* the read address crosses.  No frame need ever come.                     *)
FairSpec == /\ Spec
            /\ WF_vars(Trigger) /\ WF_vars(SendOpen) /\ WF_vars(Send)
            /\ WF_vars(RdSynch)

-----------------------------------------------------------------------------
(* The MAC side never writes over a word that was not sent, though it      *)
(* tests a difference that is a cycle old and knows the read address late: *)
(* the words beyond MAX_DIFF are enough (rx_mac_interface.v:150), and no   *)
(* difference of two addresses wraps.                                      *)
NoOverrun == Occupied < Size

(* A page that is closed can be walked by the driver.  It ends where a     *)
(* frame ends, whichever of the four ways it was closed: the driver walks  *)
(* from frame to frame and never looks for the rest of a frame in another  *)
(* page (nf10_lbuf.c:449-498).  Its words fit behind its header, though    *)
(* it is closed by a test made on a snapshot, before they are sent.  It is *)
(* not empty: a zero length does not say that it was closed                *)
(* (nf10_lbuf_api.h:23).                                                   *)
PageExact ==
  /\ Burst + page <= PageSize
  /\ send = "closed" => ended /\ page > 0

(* Every committed word reaches a page that is closed, without another     *)
(* frame coming (rx_tlp_trigger.v:63-89, the timeout).                     *)
Flushed == mem # <<>> ~> send = "closed"
=============================================================================
