------------------------------ MODULE MyDriver ------------------------------
(***************************************************************************)
(* The driver for bring-up, sw/my_driver/my_driver.c: probe and remove,    *)
(* the interrupt handler that queues one work item for every page, and the *)
(* work that processes the two pages in turn.  The card fills the pages in *)
(* turn too, and tells by the interrupt only that it closed one.           *)
(*                                                                         *)
(* One vector serves both the configuration of the PHY (Mdio) and the      *)
(* pages.                                                                  *)
(***************************************************************************)
EXTENDS Mdio, FiniteSets

CONSTANT SameCpu  \* interrupts go to the CPU that has the pending work

ASSUME MyDriverAssumption == SameCpu \in BOOLEAN

VARIABLES
  at,         \* my_pcie_probe: what it acquires next; "up", "unwind", "remove"
  held,       \* what it acquired and did not release
  fillable,      \* pages the card may fill
  closed,     \* pages the card closed and the work did not give back
  cardTurn,   \* the page the card closes next
  pageIrq,    \* irq is for a page
  spin,       \* card_interrupt_handler is in its loop
  pending,    \* rx_work is queued
  running,    \* the page it works on, or 0
  index,      \* huge_page_index, the page it takes next
  stray       \* card_interrupt_handler took an interrupt that was for no page

cardVars == <<fillable, closed, cardTurn, pageIrq>>
rxWorkVars == <<spin, pending, running, index, stray>>
myVars   == <<mdioVars, at, held, cardVars, rxWorkVars>>

Page == 1..2
Other(p) == 3 - p

(* The order of my_pcie_probe; "mdio" and "card" request the vector, "post" *)
(* writes the pages to the card.                                            *)
NextOf == [data |-> "queue", queue |-> "device", device |-> "regions",
          regions |-> "bar2", bar2 |-> "bar0", bar0 |-> "msi", msi |-> "mdio",
          page1 |-> "page2", page2 |-> "netdev", netdev |-> "post"]

UnwindOrder == <<"page2", "page1", "card", "msi", "bar0", "bar2", "regions",
                 "device", "queue", "data">>
RemoveOrder == <<"card", "queue", "page2", "page1", "netdev", "msi", "bar0",
                 "bar2", "regions", "device", "data">>

MyInit ==
  /\ MdioInit
  /\ at = "data" /\ held = {}
  /\ fillable = {} /\ closed = {} /\ cardTurn = 1 /\ pageIrq = FALSE
  /\ spin = FALSE /\ pending = FALSE /\ running = 0 /\ index = 1
  /\ stray = FALSE

-----------------------------------------------------------------------------
(* my_pcie_probe *)
MyProbeGets ==
  /\ at \in DOMAIN NextOf
  /\ held' = held \cup {at}
  /\ at' = NextOf[at]
  /\ UNCHANGED <<mdioVars, cardVars, rxWorkVars>>

(* Anything it asks for may be refused. *)
MyProbeFails ==
  /\ at \in DOMAIN NextOf \cup {"mdio", "card"}
  /\ at' = "unwind"
  /\ UNCHANGED <<mdioVars, held, cardVars, rxWorkVars>>

MyProbeMdio ==
  /\ at = "mdio" /\ ConfStart
  /\ at' = "conf"
  /\ UNCHANGED <<held, cardVars, rxWorkVars>>

(* free_irq: configured or not, the probe goes on. *)
MyProbeConfigured ==
  /\ at = "conf" /\ confAt \in {"done", "failed"}
  /\ at' = "card"
  /\ handler' = "none"
  /\ UNCHANGED <<confVars, rdy, wire, hostVars, irq, phy, held, cardVars, rxWorkVars>>

MyProbeCard ==
  /\ at = "card"
  /\ at' = "page1"
  /\ held' = held \cup {"card"}
  /\ handler' = "card"
  /\ UNCHANGED <<confVars, rdy, wire, hostVars, irq, phy, cardVars, rxWorkVars>>

MyProbePost ==
  /\ at = "post"
  /\ at' = "up"
  /\ fillable' = Page
  /\ UNCHANGED <<mdioVars, held, closed, cardTurn, pageIrq, rxWorkVars>>

MyRemove ==
  /\ at = "up"
  /\ at' = "remove"
  /\ UNCHANGED <<mdioVars, held, cardVars, rxWorkVars>>

FirstHeld(order) ==
  order[CHOOSE i \in DOMAIN order :
          order[i] \in held /\ \A j \in 1..i - 1 : order[j] \notin held]

Drop(r) ==
  /\ held' = held \ {r}
  /\ handler' = IF r = "card" THEN "none" ELSE handler
  /\ UNCHANGED <<confVars, rdy, wire, hostVars, irq, phy, at, cardVars, rxWorkVars>>

(* A mutant of Release: the work queue is left to itself. *)
ReleaseAtOnce ==
  /\ at \in {"unwind", "remove"} /\ held # {}
  /\ LET r == FirstHeld(IF at = "unwind" THEN UnwindOrder ELSE RemoveOrder) IN
       (r = "card" => ~spin) /\ Drop(r)

(* The error labels of the probe, and my_pcie_remove: free_irq waits for   *)
(* the handler, destroy_workqueue for the work.                            *)
Release ==
  /\ at \in {"unwind", "remove"} /\ held # {}
  /\ LET r == FirstHeld(IF at = "unwind" THEN UnwindOrder ELSE RemoveOrder) IN
       /\ r = "card" => ~spin
       /\ r = "queue" => ~pending /\ running = 0
       /\ Drop(r)

MyProbe == MyProbeGets \/ MyProbeFails \/ MyProbeMdio \/ MyProbeConfigured
           \/ MyProbeCard \/ MyProbePost

-----------------------------------------------------------------------------
(* The configuration of the PHY, as Mdio has it. *)
MyConf == Conf /\ UNCHANGED <<at, held, cardVars, rxWorkVars>>
MyMdioInterrupt == MdioInterrupt /\ UNCHANGED <<at, held, cardVars, rxWorkVars>>
MyHost == Host /\ UNCHANGED <<at, held, cardVars, rxWorkVars>>

(* An interrupt that finds no handler is lost, unless one comes first. *)
IrqLost ==
  /\ irq /\ handler = "none"
  /\ irq' = FALSE /\ pageIrq' = FALSE
  /\ UNCHANGED <<confVars, rdy, wire, hostVars, handler, phy, at, held, fillable,
                 closed, cardTurn, rxWorkVars>>

(* The card closes its pages in turn.  The last interrupt has reached the  *)
(* host by then: it takes less than a page.                                *)
CardCloses ==
  /\ cardTurn \in fillable /\ ~irq
  /\ fillable' = fillable \ {cardTurn}
  /\ closed' = closed \cup {cardTurn}
  /\ cardTurn' = Other(cardTurn)
  /\ irq' = TRUE /\ pageIrq' = TRUE
  /\ UNCHANGED <<confVars, rdy, wire, hostVars, handler, phy, at, held, rxWorkVars>>

(* card_interrupt_handler: queue_work until the work was not queued yet. *)
HandlerStarts ==
  /\ irq /\ handler = "card" /\ ~spin
  /\ irq' = FALSE /\ pageIrq' = FALSE
  /\ spin' = TRUE
  /\ stray' = (stray \/ ~pageIrq)
  /\ UNCHANGED <<confVars, rdy, wire, hostVars, handler, phy, at, held, fillable,
                 closed, cardTurn, pending, running, index>>

(* A mutant of HandlerQueues: queue_work is called once. *)
HandlerQueuesOnce ==
  /\ spin
  /\ spin' = FALSE /\ pending' = TRUE
  /\ UNCHANGED <<mdioVars, at, held, cardVars, running, index, stray>>

HandlerQueues ==
  /\ spin /\ ~pending
  /\ spin' = FALSE /\ pending' = TRUE
  /\ UNCHANGED <<mdioVars, at, held, cardVars, running, index, stray>>

(* rx_wq_function takes the pages in turn. *)
WorkStarts ==
  /\ pending /\ running = 0 /\ ~(SameCpu /\ spin)
  /\ pending' = FALSE
  /\ running' = index
  /\ index' = Other(index)
  /\ UNCHANGED <<mdioVars, at, held, cardVars, spin, stray>>

(* It walks the packets and gives the page back.  A stray one that has no  *)
(* page to read never ends.                                                *)
WorkEnds ==
  /\ running # 0 /\ {"page1", "page2"} \subseteq held
  /\ running' = 0
  /\ fillable' = fillable \cup {running}
  /\ closed' = closed \ {running}
  /\ UNCHANGED <<mdioVars, at, held, cardTurn, pageIrq, spin, pending, index, stray>>

-----------------------------------------------------------------------------
MyNext ==
  \/ MyProbe \/ MyRemove \/ Release
  \/ MyConf \/ MyMdioInterrupt \/ MyHost
  \/ IrqLost \/ CardCloses
  \/ HandlerStarts \/ HandlerQueues \/ WorkStarts \/ WorkEnds

MySpec == MyInit /\ [][MyNext]_myVars
-----------------------------------------------------------------------------
Count(b) == IF b THEN 1 ELSE 0

(* The work runs on a page the card closed and of a driver that still has  *)
(* all the work needs: index keeps in step with the card though the        *)
(* interrupt does not say which page it is for, and neither remove nor the *)
(* unwinding of the probe frees a page or the data under it.  A late       *)
(* interrupt of the configuration, taken for a page's, breaks this.        *)
InStep ==
  running # 0 /\ ~stray =>
    /\ running \in closed
    /\ {"data", "queue", "page1", "page2"} \subseteq held

(* While the handler is installed, every page the card closed has an       *)
(* interrupt, a handler in its loop, a queued or a running work of its     *)
(* own: no request to process a page is merged with another one.           *)
EachPageAsked ==
  handler = "card" /\ ~stray =>
    Cardinality(closed) =
      Count(pageIrq) + Count(spin) + Count(pending) + Count(running # 0)
=============================================================================
