------------------------------- MODULE Device -------------------------------
(***************************************************************************)
(* The life of the driver around the receive ring: nf10_probe, nf10_up,    *)
(* nf10_down and nf10_remove (sw/driver/nf10_main.c), the buffers they     *)
(* allocate and free (sw/driver/nf10_lbuf.c), and the module loaded again. *)
(*                                                                         *)
(* RxPath begins where nf10_up ends.  Here the poll and the NIC run        *)
(* through all of it: nothing but the reset of the bus by the first up of  *)
(* a loaded module ever stops the NIC.                                     *)
(***************************************************************************)
EXTENDS RxPath

VARIABLES
  at,     \* what nf10_probe acquires next; "bound", "unwind", "remove", "gone"
  held,   \* what it acquired and nobody released
  reset,  \* nf10_up has reset the bus
  open,   \* the interface: "down", "alloc", "post", "up"
  slot,   \* of nf10_lbuf_prepare_rx_all
  dirty,  \* a page was not had, not mapped or not zeroed
  downed, \* nf10_down ran on its own
  again   \* a page was freed that was free

lifeVars   == <<at, held, reset>>
faultVars  == <<dirty, downed, again>>
deviceVars == <<vars, lifeVars, open, slot, faultVars>>

(* The order of nf10_probe, and the reverse one of its error labels. The   *)
(* PHY holds nothing; what follows "hw" cannot fail.                       *)
ProbeOrder == <<"device", "regions", "etherdev", "bar0", "bar2", "msi", "phy",
                "irq", "netdev", "hw", "fops", "napi", "bound">>
RemoveOrder == <<"fops", "napi", "hw", "netdev", "irq", "msi", "bar2", "bar0",
                 "etherdev", "regions", "device">>

DeviceInit ==
  /\ desc = [i \in Slots |-> NULL] /\ prod = 0 /\ cons = 0
  /\ dma = desc /\ owned = {} /\ header = {}
  /\ ppc = "idle" /\ cur = NULL /\ repoll = FALSE
  /\ pageAddr = desc /\ pageStatus = [i \in Slots |-> FALSE]
  /\ turn = 0 /\ avail = FALSE /\ curAddr = NULL /\ send = "idle"
  /\ irq = FALSE
  /\ at = "device" /\ held = {} /\ reset = FALSE
  /\ open = "down" /\ slot = 0
  /\ dirty = FALSE /\ downed = FALSE /\ again = FALSE

-----------------------------------------------------------------------------
Index(order, r) == CHOOSE i \in DOMAIN order : order[i] = r

Probe ==
  /\ at \in {ProbeOrder[i] : i \in 1 .. Len(ProbeOrder) - 1}
  /\ at' = ProbeOrder[Index(ProbeOrder, at) + 1]
  /\ held' = held \cup ({at} \ {"phy"})
  /\ UNCHANGED <<vars, reset, open, slot, faultVars>>

ProbeFails ==
  /\ at \in {ProbeOrder[i] : i \in 1 .. Index(ProbeOrder, "hw")}
  /\ at' = "unwind"
  /\ UNCHANGED <<vars, held, reset, open, slot, faultVars>>

(* The label a failed step jumps to releases what the steps before it took *)
(* (none of it waits or frees a page: the interface was never up).         *)
Unwind ==
  /\ at = "unwind"
  /\ at' = "gone"
  /\ held' = {}
  /\ UNCHANGED <<vars, reset, open, slot, faultVars>>

(* The module is loaded again, its variables at their initial values.      *)
Reload ==
  /\ at = "gone"
  /\ at' = "device"
  /\ reset' = FALSE
  /\ desc' = [i \in Slots |-> NULL] /\ dma' = desc'
  /\ prod' = 0 /\ cons' = 0
  /\ UNCHANGED <<owned, ppc, cur, repoll, header, regVars, nicVars, held, open,
                 slot, faultVars>>

-----------------------------------------------------------------------------
(* A bound of the model: a life with a fault, or taken down, goes on until *)
(* the next call of the life cycle.                                        *)
Clean == ~dirty /\ ~downed

(* A mutant of UpReset: give_huge_page_fsm stays at the slot it served.    *)
UpResetTurn ==
  /\ at = "bound" /\ open = "down" /\ ppc = "idle" /\ ~irq /\ Clean
  /\ open' = "alloc"
  /\ reset' = TRUE
  /\ IF reset
     THEN UNCHANGED <<regVars, nicVars>>
     ELSE /\ pageStatus' = [i \in Slots |-> FALSE]
          /\ avail' = FALSE /\ send' = "idle"
          /\ UNCHANGED <<pageAddr, turn, curAddr, irq>>
  /\ UNCHANGED <<ringVars, hostVars, header, at, held, slot, faultVars>>

(* nf10_up: the first one resets the bus, and with it the NIC. It comes    *)
(* long after the last poll, and an interrupt of the NIC before the reset  *)
(* has been handled when the reset, which takes its time, is over.         *)
UpReset ==
  /\ at = "bound" /\ open = "down" /\ ppc = "idle" /\ ~irq /\ Clean
  /\ open' = "alloc"
  /\ reset' = TRUE
  /\ IF reset
     THEN UNCHANGED <<regVars, nicVars>>
     ELSE /\ pageStatus' = [i \in Slots |-> FALSE]
          /\ turn' = 0 /\ avail' = FALSE /\ send' = "idle"
          /\ UNCHANGED <<pageAddr, curAddr, irq>>
  /\ UNCHANGED <<ringVars, hostVars, header, at, held, slot, faultVars>>

(* nf10_lbuf_init_buffers. A page of memory that is not zeroed may look    *)
(* like one that the NIC closed.                                           *)
UpAlloc ==
  /\ open = "alloc"
  /\ open' = "post" /\ slot' = 0
  /\ prod' = 0 /\ cons' = 0
  /\ desc' \in {d \in [Slots -> Page \ owned] :
                  \A i, j \in Slots : d[i] = d[j] => i = j}
  /\ dma' = desc'
  /\ LET new == {desc'[i] : i \in Slots} IN
       /\ owned' = owned \cup new
       /\ \E h \in IF Coherent THEN {{}} ELSE SUBSET new :
            /\ header' = (header \ new) \cup h
            /\ dirty' = (dirty \/ h # {})
  /\ UNCHANGED <<ppc, cur, repoll, regVars, nicVars, lifeVars, downed, again>>

(* A mutant of UpAllocFails: each page is prepared as it is allocated.     *)
UpAllocFailsPosted ==
  /\ open = "alloc"
  /\ open' = "down"
  /\ prod' = 0 /\ cons' = 0
  /\ \E k \in Slots, p \in [Slots -> Page \ owned] :
       /\ desc' = [i \in Slots |-> IF i < k THEN p[i]
                                  ELSE IF i = k THEN NULL ELSE desc[i]]
       /\ dma' = [i \in Slots |-> IF i < k THEN p[i] ELSE dma[i]]
       /\ pageAddr' = [i \in Slots |-> IF i < k THEN p[i] ELSE pageAddr[i]]
       /\ pageStatus' = [i \in Slots |-> i < k \/ pageStatus[i]]
  /\ UNCHANGED <<owned, ppc, cur, repoll, header, nicVars, lifeVars, slot, faultVars>>

(* There is no completion buffer; or no page, and those before it are      *)
(* freed but stay in the descriptors.                                      *)
UpAllocFails ==
  /\ open = "alloc"
  /\ open' = "down"
  /\ prod' = 0 /\ cons' = 0
  /\ \/ UNCHANGED <<desc, dma>>
     \/ \E k \in Slots, p \in [Slots -> Page \ owned] :
          /\ desc' = [i \in Slots |-> IF i < k THEN p[i]
                                     ELSE IF i = k THEN NULL ELSE desc[i]]
          /\ dma' = [i \in Slots |-> IF i < k THEN p[i] ELSE dma[i]]
  /\ UNCHANGED <<owned, ppc, cur, repoll, header, regVars, nicVars, lifeVars, slot,
                 faultVars>>

(* nf10_lbuf_prepare_rx_all, one page a step.                              *)
UpPost ==
  /\ open = "post"
  /\ pageAddr' = [pageAddr EXCEPT ![slot] = dma[slot]]
  /\ pageStatus' = [pageStatus EXCEPT ![slot] = TRUE]
  /\ prod' = Inc(prod)
  /\ slot' = slot + 1
  /\ open' = IF slot = N - 1 THEN "up" ELSE "post"
  /\ UNCHANGED <<desc, cons, hostVars, header, nicVars, lifeVars, faultVars>>

(* nf10_lbuf_free_buffers: the pages of all descriptors that have one, none *)
(* of which is cleared.                                                     *)
FreeBuffers ==
  LET pages == {desc[i] : i \in Slots} \ {NULL}
  IN /\ owned' = owned \ pages
     /\ again' = (again \/ ~(pages \subseteq owned))
     /\ open' = "down"

(* nf10_down on its own, under a poll that may be running.                 *)
Down ==
  /\ at = "bound" /\ open = "up" /\ Clean
  /\ FreeBuffers
  /\ downed' = TRUE
  /\ UNCHANGED <<ringVars, dma, ppc, cur, repoll, header, regVars, nicVars, lifeVars,
                 slot, dirty>>

-----------------------------------------------------------------------------
Remove ==
  /\ at = "bound" /\ open \in {"down", "up"} /\ Clean
  /\ at' = "remove"
  /\ UNCHANGED <<vars, held, reset, open, slot, faultVars>>

Drop(r) ==
  /\ held' = held \ {r}
  /\ at' = IF held = {r} THEN "gone" ELSE at
  /\ IF r = "netdev" /\ open = "up"
     THEN FreeBuffers ELSE UNCHANGED <<owned, again, open>>
  /\ UNCHANGED <<ringVars, dma, ppc, cur, repoll, header, regVars, nicVars, reset,
                 slot, dirty, downed>>

FirstHeld == CHOOSE r \in held :
               \A q \in held : Index(RemoveOrder, r) <= Index(RemoveOrder, q)

(* A mutant of Release: napi is deleted, and not disabled.                 *)
ReleaseNapiDel == at = "remove" /\ held # {} /\ Drop(FirstHeld)

(* nf10_remove, a step for each thing it releases: napi_disable waits for  *)
(* the poll; unregister_netdev takes the interface down.                   *)
Release ==
  /\ at = "remove" /\ held # {}
  /\ FirstHeld = "napi" => ppc = "idle"
  /\ Drop(FirstHeld)

-----------------------------------------------------------------------------
(* The poll; pages that were not had, not mapped or not zeroed.            *)
Faulty ==
  /\ ppc = "refill"
  /\ desc'[prod] = NULL \/ dma'[prod] # desc'[prod] \/ desc'[prod] \in header'

DevicePoll ==
  /\ Poll
  /\ dirty' = (dirty \/ Faulty)
  /\ again' = (again \/ (ppc = "deliver" /\ cur \in header \ owned))
  /\ UNCHANGED <<lifeVars, open, slot, downed>>

(* The NIC goes on whatever the driver does. It takes longer to fill a     *)
(* page than nf10_up to post the others.                                   *)
DeviceNic ==
  /\ NicTake \/ NicOpen \/ (open # "post" /\ NicClose) \/ NicInterrupt
     \/ (open = "up" /\ TxInterrupt)
  /\ UNCHANGED <<lifeVars, open, slot, faultVars>>

DeviceInterrupt ==
  /\ "napi" \in held
  /\ Interrupt
  /\ UNCHANGED <<lifeVars, open, slot, faultVars>>

(* No handler, or napi is disabled. *)
InterruptLost ==
  /\ irq /\ "napi" \notin held
  /\ irq' = FALSE
  /\ UNCHANGED <<ringVars, hostVars, header, regVars, turn, avail, curAddr, send,
                 lifeVars, open, slot, faultVars>>

Up == UpReset \/ UpAlloc \/ UpAllocFails \/ UpPost

DeviceNext ==
  \/ Probe \/ ProbeFails \/ Unwind \/ Reload
  \/ Up \/ Down \/ Remove \/ Release
  \/ DevicePoll \/ DeviceNic \/ DeviceInterrupt \/ InterruptLost

DeviceSpec == DeviceInit /\ [][DeviceNext]_deviceVars

-----------------------------------------------------------------------------
(* Whatever was loaded, failed and removed before, an interface that is up *)
(* has the ring RxPath begins with: the NIC has the pages of the           *)
(* descriptors and no others, of none of which the driver thinks that it   *)
(* is closed; every page allocated is in the ring or being delivered.      *)
(* Broken by nf10_down, which leaves the NIC its pages for good.           *)
UpSafe ==
  Clean =>
    /\ open \in {"post", "up"} => PageSafe
    /\ open = "up" => RxRingExact

(* Each time the interface comes up reception begins as RxService does,    *)
(* and is RxService as long as it is up and nothing fails, whatever was    *)
(* left in the NIC by a driver that was removed: pages are filled in the   *)
(* order they were posted and delivered in that order, each once.          *)
ServesWhileUp ==
  [][Clean' /\ open' = "up" =>
       IF open = "up" THEN [Service!Next]_<<ArmedList, FullList>>
                      ELSE Service!Init']_deviceVars

(* No page is freed twice: neither by a poll that comes after nf10_remove  *)
(* freed the ring, the descriptors of which are left as they were, nor     *)
(* after an nf10_up that failed; and a driver that is gone leaves none     *)
(* behind.                                                                 *)
FreedOnce == Clean => ~again /\ (at = "gone" => owned = {})
=============================================================================
