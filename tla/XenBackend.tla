----------------------------- MODULE XenBackend -----------------------------
(***************************************************************************)
(* The network backend for a Xen guest (sw/driver/xen_nfback.c), which     *)
(* takes whole receive pages from deliver_lbuf and copies them to the      *)
(* buffers a frontend posts.                                               *)
(*                                                                         *)
(* Three actors run in the driver: the xenbus thread, which runs probe,    *)
(* remove and the callbacks of watches, one at a time; the poll that       *)
(* delivers pages; and the kernel thread of the interface.  The frontend,  *)
(* the hotplug script and xenbus itself are outside the repository.        *)
(***************************************************************************)
EXTENDS Naturals, Sequences, FiniteSets

CONSTANTS
  Lbuf,      \* receive pages
  NULL,
  Pieces,    \* pieces of PAGE_SIZE in a page
  RingSize   \* XEN_NETIF_RX_RING_SIZE, and MAX_GRANT_COPY_OPS

ASSUME XenAssumption ==
  /\ NULL \notin Lbuf
  /\ Pieces \in Nat \ {0}
  /\ RingSize \in Nat \ {0}

VARIABLES
  state,      \* be->state, "none" without a backend_info
  target,     \* the argument of set_backend_state
  job, step,  \* the callback the xenbus thread runs, and where it is
  published,  \* the state the frontend reads in xenstore
  watch,      \* have_hotplug_status_watch
  vif,        \* be->vif: "none", "live", "freed"
  fixme,      \* FIXME_vif is not NULL
  txIrq, rxIrq, \* of the vif; 0 is none
  rings,      \* the sring pointers of the vif that are not NULL
  bound, mapped, enabled, \* handlers installed, rings mapped, enable_irq
  task,       \* vif->task is not NULL
  thread, stop, kicked,   \* the kernel thread
  queue, offset, last,    \* rx_buf_head, desc->offset, rx_last_slots
  cur, rxq, copies,       \* locals of xenvif_rx_action
  requests, armed, event, \* unconsumed requests, req_event, event channel
  given,      \* the page between xenvif_connected and xenvif_start_xmit
  lost        \* pages in a vif that was freed

busVars    == <<state, target, job, step, published, watch>>
irqVars    == <<txIrq, rxIrq, bound, enabled>>
mapVars    == <<rings, mapped>>
threadVars == <<task, thread, stop>>
workVars   == <<cur, rxq, copies>>
ringVars   == <<requests, armed, event>>
vifVars    == <<vif, fixme>>
vars == <<busVars, vifVars, irqVars, mapVars, threadVars, kicked, queue, offset,
          last, workVars, ringVars, given, lost>>

InUse == {queue[k] : k \in DOMAIN queue} \cup {rxq[k] : k \in DOMAIN rxq}
         \cup ({cur, given} \ {NULL}) \cup lost

Init ==
  /\ state = "none" /\ target = "Closed" /\ job = "idle" /\ step = "walk"
  /\ published = "none" /\ watch = FALSE
  /\ vif = "none" /\ fixme = FALSE
  /\ txIrq = 0 /\ rxIrq = 0 /\ bound = {} /\ enabled = FALSE
  /\ rings = {} /\ mapped = {}
  /\ task = FALSE /\ thread = "none" /\ stop = FALSE /\ kicked = FALSE
  /\ queue = <<>> /\ offset = [p \in Lbuf |-> 0] /\ last = 0
  /\ cur = NULL /\ rxq = <<>> /\ copies = 0
  /\ requests = 0 /\ armed = FALSE /\ event = FALSE
  /\ given = NULL /\ lost = {}

-----------------------------------------------------------------------------
(* nfback_probe. Without memory nothing is left; a failure of xenbus       *)
(* before be->state is set calls nfback_remove with the state of kzalloc.  *)
ProbeFails ==
  /\ state' = "Unknown" /\ target' = "Closed" /\ job' = "remove"
  /\ step' = "walk" /\ watch' = FALSE
  /\ vif' = "none"
  /\ UNCHANGED <<published, fixme, irqVars, mapVars, threadVars, kicked, queue,
                 offset, last, workVars, ringVars, given, lost>>

(* backend_create_xenvif. xenvif_alloc returns NULL without memory, which  *)
(* is not IS_ERR: FIXME_vif is cleared. The other failures leave it.       *)
NoVif ==
  /\ vif' = "none"
  /\ \/ fixme' = FALSE /\ published' = "InitWait"
     \/ fixme' = fixme /\ published' = "Closing"
  /\ UNCHANGED <<irqVars, mapVars, threadVars, kicked, queue, offset, last>>

NewVif ==
  /\ vif' = "live" /\ fixme' = TRUE /\ published' = "InitWait"
  /\ UNCHANGED <<irqVars, mapVars, threadVars, kicked, queue, offset, last>>

ProbeSucceeds ==
  /\ state' = "InitWait" /\ watch' = FALSE
  /\ NoVif \/ NewVif
  /\ UNCHANGED <<target, job, step, workVars, ringVars, given, lost>>

Probe ==
  /\ job = "idle" /\ state = "none"
  /\ ProbeFails \/ ProbeSucceeds

-----------------------------------------------------------------------------
(* frontend_changed: the state each state of the frontend asks for.        *)
Asks == {<<"Initialising", "InitWait">>, <<"Connected", "Connected">>,
         <<"Closing", "Closing">>, <<"Closed", "Closed">>}

FrontendChanged ==
  /\ job = "idle" /\ state # "none"
  /\ \/ \E a \in Asks : target' = a[2] /\ job' = a[1]
     \/ target' = "Closed" /\ job' = "remove"   \* XenbusStateUnknown
  /\ UNCHANGED <<state, step, published, watch, vifVars, irqVars, mapVars,
                 threadVars, kicked, queue, offset, last, workVars, ringVars,
                 given, lost>>

(* nfback_remove. vif is freed, and with it what is queued; FIXME_vif is   *)
(* left as it is. The next vif comes from kzalloc, so the fields are       *)
(* cleared here.                                                           *)
Removed ==
  /\ state' = "none" /\ job' = "idle" /\ watch' = FALSE
  /\ IF vif = "live"
     THEN /\ vif' = "freed"
          /\ lost' = lost \cup {queue[k] : k \in DOMAIN queue}
          /\ queue' = <<>>
     ELSE UNCHANGED <<vif, lost, queue>>
  /\ txIrq' = 0 /\ rxIrq' = 0 /\ rings' = {} /\ last' = 0
  /\ target' = "Closed"
  /\ UNCHANGED <<step, published, fixme, bound, enabled, mapped, threadVars,
                 kicked, offset, workVars, ringVars, given>>

(* The target of set_backend_state is reached. A frontend that is closed   *)
(* and no longer online is removed (device_unregister).                    *)
Reached ==
  /\ step = "walk" /\ job \notin {"idle", "bug"} /\ state = target
  /\ \/ job = "remove" /\ Removed
     \/ /\ job # "remove"
        /\ job' \in IF job = "Closed" THEN {"idle", "remove"} ELSE {"idle"}
        /\ target' = "Closed"
        /\ UNCHANGED <<state, step, published, watch, vifVars, irqVars,
                       mapVars, threadVars, kicked, queue, offset, last,
                       workVars, ringVars, given, lost>>

(* set_backend_state: the next state on the shortest path.                 *)
Hops ==
  {[from |-> "Closed",    to |-> {"InitWait", "Connected"}, via |-> "InitWait"],
   [from |-> "Closed",    to |-> {"Closing"},               via |-> "Closing"],
   [from |-> "InitWait",  to |-> {"Connected"},             via |-> "Connected"],
   [from |-> "InitWait",  to |-> {"Closing", "Closed"},     via |-> "Closing"],
   [from |-> "Connected", to |-> {"InitWait", "Closing", "Closed"},
                                                            via |-> "Closing"],
   [from |-> "Closing",   to |-> {"InitWait", "Connected", "Closed"},
                                                            via |-> "Closed"]}

(* backend_switch_state, with xenstore at p and the watch at w.            *)
Switch(s, p, w) ==
  /\ state' = s
  /\ published' = IF w THEN p ELSE s
  /\ watch' = w
  /\ step' = "walk"
  /\ UNCHANGED <<target, job>>

(* A hop that only changes the state: backend_connect and                  *)
(* backend_disconnect do nothing without a vif.                            *)
Hop ==
  /\ \E h \in Hops :
       /\ h.from = state /\ target \in h.to
       /\ vif = "live" => "Connected" \notin {state, h.via}
       /\ Switch(h.via, published, watch)
  /\ UNCHANGED <<vifVars, irqVars, mapVars, threadVars, kicked, queue, offset,
                 last, workVars, ringVars, given, lost>>

HopConnect ==
  /\ state = "InitWait" /\ target = "Connected" /\ vif = "live"
  /\ step' = "map"
  /\ UNCHANGED <<state, target, job, published, watch, vifVars, irqVars, mapVars,
                 threadVars, kicked, queue, offset, last, workVars, ringVars,
                 given, lost>>

(* A mutant of HopDisconnect: the rings are unmapped before the thread is  *)
(* stopped.                                                                *)
HopDisconnectUnmaps ==
  /\ state = "Connected" /\ vif = "live"
  /\ step' = "stop"
  /\ enabled' = FALSE
  /\ stop' = task
  /\ mapped' = mapped \ rings
  /\ UNCHANGED <<state, target, job, published, watch, vifVars, txIrq, rxIrq,
                 bound, rings, task, thread, kicked, queue, offset, last,
                 workVars, ringVars, given, lost>>

(* xenvif_disconnect: the interrupts are disabled, the thread is stopped.  *)
HopDisconnect ==
  /\ state = "Connected" /\ vif = "live"
  /\ step' = "stop"
  /\ enabled' = FALSE
  /\ stop' = task
  /\ UNCHANGED <<state, target, job, published, watch, vifVars, txIrq, rxIrq,
                 bound, mapVars, task, thread, kicked, queue, offset, last,
                 workVars, ringVars, given, lost>>

(* A state no case of set_backend_state has: BUG().                        *)
HopBug ==
  /\ ~ \E h \in Hops : h.from = state /\ target \in h.to
  /\ job' = "bug"
  /\ UNCHANGED <<state, target, step, published, watch, vifVars, irqVars,
                 mapVars, threadVars, kicked, queue, offset, last, workVars,
                 ringVars, given, lost>>

Walk ==
  /\ step = "walk" /\ job \notin {"idle", "bug"} /\ state # target
  /\ Hop \/ HopConnect \/ HopDisconnect \/ HopBug

-----------------------------------------------------------------------------
(* xenvif_unmap_frontend_rings unmaps what the pointers hold and does not  *)
(* clear them. What was in the rings is of no interest any more.           *)
Unmap ==
  /\ mapped' = mapped \ rings
  /\ requests' = 0 /\ armed' = FALSE /\ event' = FALSE
  /\ UNCHANGED rings

(* connect_rings failed: connect returns, and the state changes all the    *)
(* same. xenbus_dev_fatal, which every failure but that of request-rx-copy *)
(* comes with, publishes Closing first.                                    *)
ConnectFailed == Switch("Connected", "Closing", watch)

(* connect_rings and xenvif_map_frontend_rings, which unmaps on an error   *)
(* what the pointers hold.                                                 *)
ConnectMap ==
  /\ step = "map"
  /\ \/ /\ ConnectFailed \/ Switch("Connected", published, watch)
        /\ UNCHANGED <<mapVars, ringVars>>
     \/ \E got \in {{}, {"tx"}} :
          /\ ConnectFailed
          /\ rings' = rings \cup got
          /\ mapped' = (mapped \cup got) \ rings'
          /\ UNCHANGED ringVars
     \/ /\ rings' = {"tx", "rx"}
        /\ mapped' = {"tx", "rx"}
        /\ requests' \in {0, RingSize}
        /\ armed' = (requests' = 0)
        /\ event' = FALSE
        /\ step' = "bind"
        /\ UNCHANGED <<state, target, job, published, watch>>
  /\ UNCHANGED <<vifVars, irqVars, threadVars, kicked, queue, offset, last,
                 workVars, given, lost>>

(* One event channel for both directions, or one for each.                 *)
ConnectBind ==
  /\ step = "bind"
  /\ \/ /\ \E split \in BOOLEAN :
             /\ txIrq' = 1
             /\ rxIrq' = IF split THEN 2 ELSE 1
        /\ bound' = bound \cup {txIrq', rxIrq'}
        /\ step' = "spawn"
        /\ UNCHANGED <<state, target, job, published, watch, mapVars, ringVars>>
     \/ /\ ConnectFailed                         \* err_unmap, err_tx_unbind
        /\ txIrq' = 0
        /\ Unmap
        /\ UNCHANGED <<rxIrq, bound>>
  /\ UNCHANGED <<vifVars, enabled, threadVars, kicked, queue, offset, last,
                 workVars, given, lost>>

ConnectSpawn ==
  /\ step = "spawn"
  /\ \/ /\ task' = TRUE /\ thread' = "new" /\ stop' = FALSE
        /\ step' = "enable"
        /\ UNCHANGED <<state, target, job, published, watch, irqVars, mapVars,
                       ringVars>>
     \/ /\ ConnectFailed                         \* err_rx_unbind
        /\ bound' = bound \ {rxIrq, txIrq}
        /\ rxIrq' = 0 /\ txIrq' = 0
        /\ Unmap
        /\ UNCHANGED <<enabled, threadVars>>
  /\ UNCHANGED <<vifVars, kicked, queue, offset, last, workVars, given, lost>>

(* The end of xenvif_connect, and connect: the state change waits for the  *)
(* hotplug script when the watch can be set.                               *)
ConnectEnable ==
  /\ step = "enable"
  /\ enabled' = TRUE
  /\ \E w \in BOOLEAN : Switch("Connected", published, w)
  /\ UNCHANGED <<vifVars, txIrq, rxIrq, bound, mapVars, threadVars, kicked, queue,
                 offset, last, workVars, ringVars, given, lost>>

(* The thread has ended: the rest of xenvif_disconnect. rx_irq stays.      *)
Disconnect ==
  /\ step = "stop"
  /\ thread \in {"none", "dead"}
  /\ task' = FALSE /\ thread' = "none" /\ stop' = FALSE
  /\ bound' = IF txIrq = 0 THEN bound ELSE bound \ {txIrq, rxIrq}
  /\ txIrq' = 0
  /\ kicked' = FALSE
  /\ Unmap
  /\ Switch("Closing", published, watch)
  /\ UNCHANGED <<vifVars, rxIrq, enabled, queue, offset, last, workVars, given,
                 lost>>

(* A mutant of HotplugConnected: the deferred state is forgotten.          *)
HotplugConnectedSilent ==
  /\ job = "idle" /\ watch
  /\ watch' = FALSE
  /\ UNCHANGED <<state, target, job, step, published, vifVars, irqVars, mapVars,
                 threadVars, kicked, queue, offset, last, workVars, ringVars,
                 given, lost>>

(* hotplug_status_changed, when the script wrote "connected".              *)
HotplugConnected ==
  /\ job = "idle" /\ watch
  /\ published' = state
  /\ watch' = FALSE
  /\ UNCHANGED <<state, target, job, step, vifVars, irqVars, mapVars, threadVars,
                 kicked, queue, offset, last, workVars, ringVars, given, lost>>

Xenbus == Probe \/ FrontendChanged \/ Reached \/ Walk \/ ConnectMap \/ ConnectBind
          \/ ConnectSpawn \/ ConnectEnable \/ Disconnect \/ HotplugConnected

-----------------------------------------------------------------------------
(* deliver_lbuf: xenvif_connected reads FIXME_vif and its task, whatever   *)
(* is there when the vif was freed; xenvif_start_xmit reads it again.      *)
PollConnected(p) ==
  /\ given = NULL /\ p \notin InUse
  /\ fixme
  /\ vif = "live" => task
  /\ given' = p
  /\ UNCHANGED <<busVars, vifVars, irqVars, mapVars, threadVars, kicked, queue,
                 offset, last, workVars, ringVars, lost>>

(* A mutant of PollXmit: the thread is not kicked.                         *)
PollXmitQuiet ==
  /\ given # NULL
  /\ given' = NULL
  /\ IF vif = "live"
     THEN /\ queue' = Append(queue, given)
          /\ offset' = [offset EXCEPT ![given] = 0]
          /\ UNCHANGED lost
     ELSE lost' = lost \cup {given} /\ UNCHANGED <<queue, offset>>
  /\ UNCHANGED <<busVars, vifVars, irqVars, mapVars, threadVars, kicked, last,
                 workVars, ringVars>>

PollXmit ==
  /\ given # NULL
  /\ given' = NULL
  /\ IF vif = "live"
     THEN /\ queue' = Append(queue, given)
          /\ offset' = [offset EXCEPT ![given] = 0]
          /\ kicked' = TRUE
          /\ UNCHANGED lost
     ELSE lost' = lost \cup {given} /\ UNCHANGED <<queue, offset, kicked>>
  /\ UNCHANGED <<busVars, vifVars, irqVars, mapVars, threadVars, last, workVars,
                 ringVars>>

Poll == PollXmit \/ \E p \in Lbuf : PollConnected(p)

-----------------------------------------------------------------------------
(* The kernel's thread starts xenvif_kthread unless it is already stopped. *)
ThreadStart ==
  /\ thread = "new"
  /\ enabled \/ stop
  /\ thread' = IF stop THEN "dead" ELSE "wait"
  /\ UNCHANGED <<busVars, vifVars, irqVars, mapVars, task, stop, kicked, queue,
                 offset, last, workVars, ringVars, given, lost>>

(* rx_work_todo in wait_event: a kick from now on wakes the thread.        *)
ThreadWait ==
  /\ thread = "wait"
  /\ kicked' = FALSE
  /\ armed' = (armed \/ requests < last)
  /\ thread' = IF stop THEN "drain"
               ELSE IF queue # <<>> /\ requests >= last THEN "work"
               ELSE "asleep"
  /\ UNCHANGED <<busVars, vifVars, irqVars, mapVars, task, stop, queue, offset,
                 last, workVars, requests, event, given, lost>>

ThreadWake ==
  /\ thread = "asleep"
  /\ kicked \/ stop
  /\ thread' = "wait"
  /\ UNCHANGED <<busVars, vifVars, irqVars, mapVars, task, stop, kicked, queue,
                 offset, last, workVars, ringVars, given, lost>>

(* xenvif_rx_action: the next page, or none.                               *)
RxDequeue ==
  /\ thread = "work" /\ cur = NULL
  /\ IF queue = <<>>
     THEN thread' = "copy" /\ UNCHANGED <<cur, queue>>
     ELSE cur' = Head(queue) /\ queue' = Tail(queue) /\ UNCHANGED thread
  /\ UNCHANGED <<busVars, vifVars, irqVars, mapVars, task, stop, kicked, offset,
                 last, rxq, copies, ringVars, given, lost>>

(* A mutant of RxPiece: a piece is copied without a request.               *)
RxPieceAnyway ==
  /\ thread = "work" /\ cur # NULL
  /\ requests' = IF requests = 0 THEN 0 ELSE requests - 1
  /\ copies' = copies + 1
  /\ offset' = [offset EXCEPT ![cur] = @ + 1]
  /\ IF offset[cur] + 1 = Pieces
     THEN rxq' = Append(rxq, cur) /\ cur' = NULL
     ELSE UNCHANGED <<rxq, cur>>
  /\ UNCHANGED <<busVars, vifVars, irqVars, mapVars, threadVars, kicked, queue,
                 last, armed, event, given, lost>>

(* A piece gets a request; after the last one the page is done.            *)
RxPiece ==
  /\ thread = "work" /\ cur # NULL /\ requests > 0
  /\ requests' = requests - 1
  /\ copies' = copies + 1
  /\ offset' = [offset EXCEPT ![cur] = @ + 1]
  /\ IF offset[cur] + 1 = Pieces
     THEN rxq' = Append(rxq, cur) /\ cur' = NULL
     ELSE UNCHANGED <<rxq, cur>>
  /\ UNCHANGED <<busVars, vifVars, irqVars, mapVars, threadVars, kicked, queue,
                 last, armed, event, given, lost>>

(* A mutant of RxFull: lbuf_queue_tail in the place of lbuf_queue_head.    *)
RxFullToTail ==
  /\ thread = "work" /\ cur # NULL /\ requests = 0
  /\ queue' = Append(queue, cur)
  /\ cur' = NULL
  /\ last' = 1
  /\ armed' = TRUE
  /\ thread' = "copy"
  /\ UNCHANGED <<busVars, vifVars, irqVars, mapVars, task, stop, kicked, offset,
                 rxq, copies, requests, event, given, lost>>

(* No request: the page goes back to the head of the queue.                *)
RxFull ==
  /\ thread = "work" /\ cur # NULL /\ requests = 0
  /\ queue' = <<cur>> \o queue
  /\ cur' = NULL
  /\ last' = 1
  /\ armed' = TRUE
  /\ thread' = "copy"
  /\ UNCHANGED <<busVars, vifVars, irqVars, mapVars, task, stop, kicked, offset,
                 rxq, copies, requests, event, given, lost>>

(* gntcopy: everything is copied, responded to and released.               *)
RxCopy ==
  /\ thread = "copy"
  /\ copies' = 0
  /\ rxq' = <<>>
  /\ offset' = [p \in Lbuf |-> IF \E k \in DOMAIN rxq : rxq[k] = p
                               THEN 0 ELSE offset[p]]
  /\ thread' = "wait"
  /\ UNCHANGED <<busVars, vifVars, irqVars, mapVars, task, stop, kicked, queue,
                 last, cur, ringVars, given, lost>>

(* "Bin any remaining bufs" *)
ThreadDrain ==
  /\ thread = "drain"
  /\ IF queue = <<>>
     THEN thread' = "dead" /\ UNCHANGED queue
     ELSE queue' = Tail(queue) /\ UNCHANGED thread
  /\ offset' = [p \in Lbuf |-> 0]
  /\ UNCHANGED <<busVars, vifVars, irqVars, mapVars, task, stop, kicked, last,
                 workVars, ringVars, given, lost>>

Thread == ThreadStart \/ ThreadWait \/ ThreadWake \/ RxDequeue \/ RxPiece
          \/ RxFull \/ RxCopy \/ ThreadDrain

-----------------------------------------------------------------------------
(* The frontend posts a request, and notifies when req_event asks for it.  *)
FrontPost ==
  /\ "rx" \in mapped
  /\ requests + copies < RingSize
  /\ requests' = requests + 1
  /\ armed' = FALSE
  /\ event' = (event \/ armed)
  /\ UNCHANGED <<busVars, vifVars, irqVars, mapVars, threadVars, kicked, queue,
                 offset, last, workVars, given, lost>>

(* xenvif_interrupt, xenvif_rx_interrupt *)
RxInterrupt ==
  /\ event /\ enabled
  /\ event' = FALSE
  /\ kicked' = TRUE
  /\ UNCHANGED <<busVars, vifVars, irqVars, mapVars, threadVars, queue, offset,
                 last, workVars, requests, armed, given, lost>>

Next == Xenbus \/ Poll \/ Thread \/ FrontPost \/ RxInterrupt

Spec == Init /\ [][Next]_vars

(* Threads and interrupts are scheduled, a started callback goes on, and   *)
(* the frontend returns the buffers it got.                                *)
Fairness == /\ WF_vars(Thread) /\ WF_vars(FrontPost) /\ WF_vars(RxInterrupt)
            /\ WF_vars(Walk \/ Reached \/ ConnectMap \/ ConnectBind
                       \/ ConnectSpawn \/ ConnectEnable \/ Disconnect)
-----------------------------------------------------------------------------
Line == queue \o rxq \o (IF cur = NULL THEN <<>> ELSE <<cur>>)
              \o (IF given = NULL THEN <<>> ELSE <<given>>)

(* The shared rings are mapped as long as the kernel thread may touch      *)
(* them, and nothing of an interface outlives it: no handler, no mapping   *)
(* and no thread is left when the vif is freed (xenvif_disconnect, and the *)
(* error labels of xenvif_connect).                                        *)
TornDown ==
  /\ thread \in {"new", "asleep", "wait", "work", "copy"} => "rx" \in mapped
  /\ vif # "live" => bound = {} /\ mapped = {} /\ thread = "none"

(* BUG_ON(vif->tx_irq) in xenvif_connect and BUG_ON(copy_prod >            *)
(* MAX_GRANT_COPY_OPS) in xenvif_rx_action do not fire.                    *)
BugOns == (step = "map" => txIrq = 0) /\ copies <= RingSize

(* A page has one owner: the poll, the queue or the round of the thread.   *)
(* One that is released and still queued would be given to the guest with  *)
(* somebody else's packets.  And only the oldest queued page can have been *)
(* copied in part, so the guest gets the pieces in order.                  *)
OneOwner ==
  /\ \A j, k \in DOMAIN Line : Line[j] = Line[k] => j = k
  /\ \A k \in DOMAIN Line : Line[k] \notin lost
  /\ \A k \in DOMAIN queue : k > 1 => offset[queue[k]] = 0

(* Between two callbacks the frontend has been told the state of the       *)
(* backend, or a fatal error, unless the hotplug script is still awaited   *)
(* (backend_switch_state, hotplug_status_changed).                         *)
Told == job = "idle" /\ state # "none" => watch \/ published \in {state, "Closing"}

(* A page that waits in a connected interface is copied by and by: no      *)
(* wake-up is lost between the poll, the event channel and the thread.     *)
Served ==
  \A p \in Lbuf : p \in {queue[k] : k \in DOMAIN queue} /\ task
                    ~> (p \notin {queue[k] : k \in DOMAIN queue} \/ ~task)
=============================================================================
