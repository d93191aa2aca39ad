------------------------------- MODULE RxPath -------------------------------
(***************************************************************************)
(* Reception: the descriptor ring of 2MB pages the driver refills and      *)
(* consumes from nf10_poll (sw/driver/nf10_lbuf.c, nf10_main.c), and the   *)
(* page registers and write engine of the NIC that fills them              *)
(* (hw/my_engine/src/rx_huge_pages_addr.v, rx_wr_pkt_to_hugepages.v).      *)
(*                                                                         *)
(* Two actors interleave: the CPU that runs NAPI and the NIC.  They share  *)
(* the page registers and the first dword of each page, its header, which  *)
(* is zero until the NIC closes the page and writes its length.            *)
(***************************************************************************)
EXTENDS DescRing, Sequences, FiniteSets

CONSTANTS
  Page,        \* 2MB pages the kernel can allocate
  Coherent,    \* CONFIG_LBUF_COHERENT: a new page is zeroed
  AllocFails,  \* alloc_and_map_lbuf may fail
  TxTraffic    \* transmissions interrupt and keep the poll going

ASSUME ConstantsAssumption ==
  /\ NULL \notin Page
  /\ Coherent \in BOOLEAN
  /\ AllocFails \in BOOLEAN
  /\ TxTraffic \in BOOLEAN

VARIABLES
  dma,         \* dma_addr of each descriptor, which clean_desc leaves alone
  owned,       \* pages allocated by the driver
  header,      \* pages whose first dword is a valid length
  ppc,         \* progress of nf10_poll
  cur,         \* the descriptor consume_rx_desc copied
  repoll,      \* clean_tx_irq was not complete
  pageAddr, pageStatus, \* page registers of the NIC
  turn,        \* the slot give_huge_page_fsm serves
  avail, curAddr, \* huge_page_available, current_huge_page_addr
  send,        \* progress of send_fsm; "idle" and "wait" are both s0
  irq          \* an interrupt the host has not handled; there is one vector

hostVars == <<dma, owned, ppc, cur, repoll>>
regVars  == <<pageAddr, pageStatus>>
nicVars  == <<turn, avail, curAddr, send, irq>>
vars == <<ringVars, hostVars, header, regVars, nicVars>>

-----------------------------------------------------------------------------
(* The ring after nf10_up: every slot holds a page and is ready. The       *)
(* content of a page that was not zeroed is arbitrary.                     *)
Init ==
  /\ desc \in {d \in [Slots -> Page] :
                 \A i, j \in Slots : d[i] = d[j] => i = j}
  /\ prod = 0
  /\ cons = 0
  /\ dma = desc
  /\ owned = {desc[i] : i \in Slots}
  /\ header \in IF Coherent THEN {{}} ELSE SUBSET owned
  /\ ppc = "idle"
  /\ cur = NULL
  /\ repoll = FALSE
  /\ pageAddr = desc
  /\ pageStatus = [i \in Slots |-> TRUE]
  /\ turn = 0
  /\ avail = FALSE
  /\ curAddr = NULL
  /\ send = "idle"
  /\ irq = FALSE

-----------------------------------------------------------------------------
(* nf10_poll: clean_tx_irq comes first. Its result is all that matters     *)
(* here (TxPath models the rest).                                          *)
PollTx ==
  /\ ppc = "scheduled"
  /\ ppc' = "consume"
  /\ repoll' \in IF TxTraffic THEN BOOLEAN ELSE {FALSE}
  /\ UNCHANGED <<ringVars, dma, owned, cur, header, regVars, nicVars>>

(* consume_rx_desc. *)
PollNothing ==
  /\ ppc = "consume"
  /\ Empty \/ desc[cons] \notin header
  /\ ppc' = "exit"
  /\ UNCHANGED <<ringVars, dma, owned, cur, repoll, header, regVars, nicVars>>

(* A mutant of PollConsume: cons does not advance. *)
PollConsumeStays ==
  /\ ppc = "consume"
  /\ ~Empty
  /\ desc[cons] \in header
  /\ cur' = desc[cons]
  /\ desc' = [desc EXCEPT ![cons] = NULL]
  /\ ppc' = "refill"
  /\ UNCHANGED <<prod, cons, dma, owned, repoll, header, regVars, nicVars>>

PollConsume ==
  /\ ppc = "consume"
  /\ ~Empty
  /\ desc[cons] \in header
  /\ cur' = desc[cons]
  /\ desc' = [desc EXCEPT ![cons] = NULL]
  /\ cons' = Inc(cons)
  /\ ppc' = "refill"
  /\ UNCHANGED <<prod, dma, owned, repoll, header, regVars, nicVars>>

(* alloc_and_map_lbuf, whose result nf10_lbuf_process_rx_irq ignores: a    *)
(* page; none, and the old dma_addr stays; or a page that was freed again  *)
(* when it could not be mapped.                                            *)
Allocated(p) ==
  /\ p \notin owned
  /\ desc' = [desc EXCEPT ![prod] = p]
  /\ dma' = [dma EXCEPT ![prod] = p]
  /\ owned' = owned \cup {p}
  /\ header' \in {header \ {p}} \cup
                 (IF Coherent THEN {} ELSE {header \cup {p}})

NoMemory ==
  /\ AllocFails
  /\ desc' = [desc EXCEPT ![prod] = NULL]
  /\ UNCHANGED <<dma, owned, header>>

NotMapped(p) ==
  /\ AllocFails
  /\ ~Coherent
  /\ p \notin owned
  /\ desc' = [desc EXCEPT ![prod] = p]
  /\ dma' = [dma EXCEPT ![prod] = NULL]
  /\ UNCHANGED <<owned, header>>

(* nf10_lbuf_prepare_rx writes the address, then the status.               *)
PollRefill ==
  /\ ppc = "refill"
  /\ ~Full
  /\ \/ \E p \in Page : Allocated(p) \/ NotMapped(p)
     \/ NoMemory
  /\ pageAddr' = [pageAddr EXCEPT ![prod] = dma'[prod]]
  /\ ppc' = "ready"
  /\ UNCHANGED <<prod, cons, cur, repoll, pageStatus, nicVars>>

PollReady ==
  /\ ppc = "ready"
  /\ pageStatus' = [pageStatus EXCEPT ![prod] = TRUE]
  /\ prod' = Inc(prod)
  /\ ppc' = "deliver"
  /\ UNCHANGED <<desc, cons, dma, owned, cur, repoll, header, pageAddr,
                 nicVars>>

(* deliver_lbuf: the packets are copied out and the page is freed; a page  *)
(* whose header is not valid is left behind.                               *)
PollDeliver ==
  /\ ppc = "deliver"
  /\ owned' = IF cur \in header THEN owned \ {cur} ELSE owned
  /\ cur' = NULL
  /\ ppc' = "exit"
  /\ UNCHANGED <<ringVars, dma, repoll, header, regVars, nicVars>>

(* One page was handled at most and the budget is 2, so only the result of *)
(* clean_tx_irq decides between napi_complete and another poll.            *)
PollExit ==
  /\ ppc = "exit"
  /\ ppc' = IF repoll THEN "scheduled" ELSE "idle"
  /\ UNCHANGED <<ringVars, dma, owned, cur, repoll, header, regVars, nicVars>>

-----------------------------------------------------------------------------
(* give_huge_page_fsm *)
NicTake ==
  /\ ~avail
  /\ pageStatus[turn]
  /\ avail' = TRUE
  /\ curAddr' = pageAddr[turn]
  /\ UNCHANGED <<ringVars, hostVars, header, regVars, turn, send, irq>>

(* send_fsm s0: writing to the page begins. *)
NicOpen ==
  /\ send \in {"idle", "wait"}
  /\ avail
  /\ send' = "open"
  /\ UNCHANGED <<ringVars, hostVars, header, regVars, turn, avail, curAddr, irq>>

(* Mutants of NicClose: the status register does not fall; the next slot   *)
(* is not served.                                                          *)
NicCloseArmed ==
  /\ send = "open"
  /\ send' = "interrupt"
  /\ header' = header \cup ({curAddr} \ {NULL})
  /\ avail' = FALSE
  /\ turn' = Inc(turn)
  /\ UNCHANGED <<ringVars, hostVars, regVars, curAddr, irq>>

NicCloseSameSlot ==
  /\ send = "open"
  /\ send' = "interrupt"
  /\ header' = header \cup ({curAddr} \ {NULL})
  /\ avail' = FALSE
  /\ pageStatus' = [pageStatus EXCEPT ![turn] = FALSE]
  /\ UNCHANGED <<ringVars, hostVars, pageAddr, turn, curAddr, irq>>

(* send_fsm s8-s11: the page is returned, and its length written to it.    *)
(* The status register falls long before the write reaches memory.         *)
NicClose ==
  /\ send = "open"
  /\ send' = "interrupt"
  /\ header' = header \cup ({curAddr} \ {NULL})
  /\ avail' = FALSE
  /\ pageStatus' = [pageStatus EXCEPT ![turn] = FALSE]
  /\ turn' = Inc(turn)
  /\ UNCHANGED <<ringVars, hostVars, pageAddr, curAddr, irq>>

(* send_fsm s12, which goes back to s0 with the bus in its hands: it gives *)
(* it back in s1, when it has a page and no request.                       *)
NicInterrupt ==
  /\ send = "interrupt"
  /\ send' = "wait"
  /\ irq' = TRUE
  /\ UNCHANGED <<ringVars, hostVars, header, regVars, turn, avail, curAddr>>

(* The interrupt of a transmission, which needs the bus and shares vector  *)
(* and poll.                                                               *)
TxInterrupt ==
  /\ TxTraffic
  /\ send \in {"idle", "open"}
  /\ irq' = TRUE
  /\ UNCHANGED <<ringVars, hostVars, header, regVars, turn, avail, curAddr, send>>

(* nf10_interrupt_handler. napi_schedule does nothing when a poll is       *)
(* scheduled or running.                                                   *)
Interrupt ==
  /\ irq
  /\ irq' = FALSE
  /\ ppc' = IF ppc = "idle" THEN "scheduled" ELSE ppc
  /\ UNCHANGED <<ringVars, dma, owned, cur, repoll, header, regVars, turn, avail,
                 curAddr, send>>

-----------------------------------------------------------------------------
Poll == \/ PollTx \/ PollNothing \/ PollConsume \/ PollRefill \/ PollReady
        \/ PollDeliver \/ PollExit

Nic == NicTake \/ NicOpen \/ NicClose \/ NicInterrupt

Next == Poll \/ Nic \/ TxInterrupt \/ Interrupt

Spec == Init /\ [][Next]_vars

(* Fairness: the CPU handles interrupts and runs a scheduled poll to its   *)
(* end, and the NIC's machines are clocked.  No page need ever be closed   *)
(* (packets may stop coming) and no transmission need ever interrupt.      *)
FairSpec == /\ Spec
            /\ WF_vars(Poll) /\ WF_vars(Interrupt)
            /\ WF_vars(NicTake) /\ WF_vars(NicOpen) /\ WF_vars(NicInterrupt)

(* The same with traffic that never stops, in both directions.             *)
TrafficSpec == FairSpec /\ WF_vars(NicClose) /\ WF_vars(TxInterrupt)

-----------------------------------------------------------------------------
(* The type of every variable. *)
TypeOK ==
  /\ desc \in [Slots -> Page \cup {NULL}]
  /\ prod \in Slots /\ cons \in Slots
  /\ dma \in [Slots -> Page \cup {NULL}]
  /\ owned \in SUBSET Page
  /\ header \in SUBSET Page
  /\ ppc \in {"idle", "scheduled", "consume", "refill", "ready", "deliver",
              "exit"}
  /\ cur \in Page \cup {NULL}
  /\ repoll \in BOOLEAN
  /\ pageAddr \in [Slots -> Page \cup {NULL}]
  /\ pageStatus \in [Slots -> BOOLEAN]
  /\ turn \in Slots
  /\ avail \in BOOLEAN
  /\ curAddr \in Page \cup {NULL}
  /\ send \in {"idle", "wait", "open", "interrupt"} /\ irq \in BOOLEAN

(* consume_rx_desc reads the header through kern_addr before it knows that *)
(* the descriptor has one: it only tests that the ring is not empty. That  *)
(* is enough because each poll moves both indices, even when the refill    *)
(* failed (nf10_lbuf.c:682-713).                                           *)
NoNullHeader == ppc = "consume" /\ desc[cons] = NULL => Empty

(* Between two polls the descriptors from cons to prod hold a page, and    *)
(* no others (nf10_lbuf.c:217-218); in the middle of a refill the slot     *)
(* ahead of prod already has its page.                                     *)
RxRingExact == ppc # "ready" => RingExact

(* A page is written by the NIC or read by the host, never both: what the  *)
(* NIC holds or may take is allocated and is not being delivered.          *)
DmaSafe ==
  /\ \A i \in Slots : pageStatus[i] => pageAddr[i] \in owned \ {cur}
  /\ avail => curAddr \in owned \ {cur}

(* So it is for ever: the NIC has the page of the slot's descriptor, which *)
(* no other slot has and whose header the driver finds invalid until the   *)
(* NIC closed it; and every page allocated is in the ring or is being      *)
(* delivered (none is lost).                                               *)
PageSafe ==
  /\ DmaSafe
  /\ \A i \in Slots : pageStatus[i] =>
       pageAddr[i] = desc[i] /\ desc[i] \notin header
  /\ avail => pageStatus[turn] /\ curAddr = pageAddr[turn]
  /\ \A i, j \in Slots : desc[i] = desc[j] /\ desc[i] # NULL => i = j
  /\ owned = ({desc[i] : i \in Slots} \cup {cur}) \ {NULL}

(* A page was closed, and is not yet delivered. *)
Filled(p) == p \in owned /\ p \in header

(* Every page that was closed is delivered in the end.  One poll handles   *)
(* one page and returns to interrupts (nf10_lbuf.c:674-679).               *)
PageDelivered == \A p \in Page : Filled(p) ~> ~Filled(p)

(* As long as interrupts go on, of the NIC's writes or of transmissions,   *)
(* every page that was closed is delivered: an interrupt that found the    *)
(* poll running is made good by a later one.                               *)
DeliveredByInterrupts == []<><<Interrupt>>_vars => PageDelivered

-----------------------------------------------------------------------------
(* The abstract view: the slots from cons on, the page being delivered     *)
(* ahead of them.                                                          *)
Refilling == ppc \in {"refill", "ready"}

RingLength == IF Refilling THEN N - 1 ELSE N

RingSlot(k) == (cons + k - 1) % N

(* The places of the ring whose slot is posted to the NIC, or is not. *)
Places(posted) == {k \in 1 .. RingLength : pageStatus[RingSlot(k)] = posted}

(* The k-th place of P, and the pages at all of them in order. *)
Nth(P, k) == CHOOSE i \in P : Cardinality({j \in P : j <= i}) = k

PagesAt(P) == [k \in 1 .. Cardinality(P) |-> desc[RingSlot(Nth(P, k))]]

ArmedList == PagesAt(Places(TRUE))
FullList  == (IF cur = NULL THEN <<>> ELSE <<cur>>) \o PagesAt(Places(FALSE))

Service == INSTANCE RxService WITH armed <- ArmedList, full <- FullList

(* Reception implements its service. *)
ImplementsService == Service!Spec
=============================================================================
