-------------------------- MODULE XenBackend_proofs --------------------------
(***************************************************************************)
(* The safety of the Xen backend, for any number of pages, pieces and ring *)
(* slots: the connection and its resources, the round of the kernel        *)
(* thread, the owner of each page, and what the frontend is told.          *)
(***************************************************************************)
EXTENDS XenBackend, TLAPS

(* The types of the variables. *)
BusType ==
  /\ state \in {"none", "Unknown", "InitWait", "Connected", "Closing", "Closed"}
  /\ target \in {"InitWait", "Connected", "Closing", "Closed"}
  /\ job \in {"idle", "bug", "remove", "Initialising", "Connected", "Closing", "Closed"}
  /\ step \in {"walk", "map", "bind", "spawn", "enable", "stop"}
  /\ watch \in BOOLEAN
  /\ vif \in {"none", "live", "freed"}

LinkType ==
  /\ txIrq \in 0 .. 1 /\ rxIrq \in 0 .. 2 /\ bound \subseteq {1, 2}
  /\ rings \subseteq {"tx", "rx"} /\ mapped \subseteq rings
  /\ enabled \in BOOLEAN /\ task \in BOOLEAN /\ stop \in BOOLEAN
  /\ thread \in {"none", "new", "wait", "asleep", "work", "copy", "drain", "dead"}

QueueType ==
  /\ queue \in Seq(Lbuf) /\ rxq \in Seq(Lbuf)
  /\ cur \in Lbuf \cup {NULL} /\ given \in Lbuf \cup {NULL}
  /\ lost \subseteq Lbuf /\ offset \in [Lbuf -> Nat]

CountType == copies \in Nat /\ requests \in Nat

-----------------------------------------------------------------------------
(* What xenvif_connect acquires one after the other, nothing and all of it. *)
Bare ==
  /\ ~task /\ thread = "none" /\ ~stop /\ ~enabled
  /\ bound = {} /\ mapped = {} /\ txIrq = 0

Attached ==
  /\ task /\ thread # "none"
  /\ mapped = {"tx", "rx"} /\ rings = {"tx", "rx"}
  /\ txIrq = 1 /\ rxIrq \in {1, 2} /\ bound = {txIrq, rxIrq}

Mapped == rings = {"tx", "rx"} /\ mapped = rings

(* Where the xenbus thread is says what there is. Only a connected backend  *)
(* has anything, and it may have nothing: a connect that failed.            *)
LinkInv ==
  /\ step = "walk" =>
       \/ Bare
       \/ Attached /\ state = "Connected" /\ vif = "live" /\ enabled /\ ~stop
  /\ step = "map" => Bare
  /\ step \in {"bind", "spawn"} =>
       /\ ~task /\ thread = "none" /\ ~stop /\ ~enabled /\ Mapped
       /\ step = "bind" => bound = {} /\ txIrq = 0
       /\ step = "spawn" => txIrq = 1 /\ rxIrq \in {1, 2} /\ bound = {txIrq, rxIrq}
  /\ step = "enable" => Attached /\ thread = "new" /\ ~enabled /\ ~stop
  /\ step = "stop" => ~enabled /\ stop = task /\ (Bare \/ Attached)

(* The walk of set_backend_state: it is in a connect or a disconnect only   *)
(* with a vif and a callback to run, and nfback_remove begins when it has   *)
(* reached Closed.                                                          *)
WalkInv ==
  /\ step # "walk" => vif = "live" /\ job \notin {"idle", "bug"}
  /\ step = "stop" => state = "Connected"
  /\ job = "remove" => target = "Closed"
  /\ state = "none" => job = "idle"
  /\ state = "Unknown" => job \in {"remove", "bug"}

(* Outside of a round of xenvif_rx_action nothing is half done, and the     *)
(* requests it took were the frontend's.                                    *)
RoundInv ==
  /\ thread \notin {"work", "copy"} => copies = 0 /\ rxq = <<>>
  /\ thread # "work" => cur = NULL
  /\ requests + copies <= RingSize

(* Each page is in one place, once. *)
Once(q) == \A j, k \in DOMAIN q : q[j] = q[k] => j = k
In(p, q) == \E k \in DOMAIN q : q[k] = p

OwnerInv ==
  /\ Once(queue) /\ Once(rxq)
  /\ \A p \in Lbuf : ~(In(p, queue) /\ In(p, rxq))
  /\ cur # NULL => ~In(cur, queue) /\ ~In(cur, rxq)
  /\ given # NULL => ~In(given, queue) /\ ~In(given, rxq) /\ given # cur
  /\ \A p \in lost : ~In(p, queue) /\ ~In(p, rxq) /\ p # cur /\ p # given

(* While a page is worked on, none of the queue is copied in part. *)
OffsetInv ==
  /\ \A k \in DOMAIN queue : k > 1 => offset[queue[k]] = 0
  /\ cur # NULL => \A k \in DOMAIN queue : offset[queue[k]] = 0

(* What the frontend was told, on the way too. *)
ToldInv ==
  state \notin {"none", "Unknown"} => watch \/ published \in {state, "Closing"}

ConnInv == BusType /\ LinkType /\ LinkInv /\ WalkInv

(* A step that leaves the connection alone, but for the thread in it. *)
LEMMA ConnFrame ==
  ASSUME ConnInv,
         UNCHANGED <<state, target, job, step, watch, vif, irqVars, mapVars, task, stop>>,
         \/ thread' = thread
         \/ /\ thread \notin {"none", "dead"} /\ (thread = "new" => enabled \/ stop)
            /\ thread' \in {"wait", "asleep", "work", "copy", "drain", "dead"}
  PROVE  ConnInv'
<1> USE DEF ConnInv, irqVars, mapVars
<1>1. BusType' /\ WalkInv'
  BY DEF BusType, WalkInv
<1>2. LinkType'
  BY DEF LinkType
<1>3. Bare' = Bare /\ Mapped' = Mapped /\ Attached' = Attached
  BY DEF Bare, Mapped, Attached
<1>4. LinkInv'
  <2>1. step = "enable" => thread' = thread
    BY DEF LinkInv
  <2>2. step \in {"bind", "spawn"} => thread' = thread
    BY DEF LinkInv
  <2> QED
    BY <1>3, <2>1, <2>2 DEF LinkInv
<1> QED
  BY <1>1, <1>2, <1>4

(* xenvif_unmap_frontend_rings leaves nothing mapped. *)
LEMMA UnmapsAll == ASSUME LinkType, Unmap PROVE mapped' = {} /\ UNCHANGED rings
BY DEF LinkType, Unmap

(* Callbacks that begin and end. *)
LEMMA CallbackConn ==
  ASSUME ConnInv, Probe \/ FrontendChanged \/ Reached \/ HotplugConnected
  PROVE  ConnInv'
<1> USE DEF ConnInv
<1>1. CASE Probe
  <2>1. /\ job = "idle" /\ state = "none" /\ step = "walk" /\ Bare
        /\ UNCHANGED <<irqVars, mapVars, threadVars>> /\ step' = "walk"
        /\ vif' \in {"none", "live"} /\ watch' = FALSE
        /\ \/ state' = "Unknown" /\ target' = "Closed" /\ job' = "remove"
           \/ state' = "InitWait" /\ target' = target /\ job' = "idle"
    BY <1>1 DEF Probe, ProbeFails, ProbeSucceeds, NoVif, NewVif, WalkInv, LinkInv, Attached
  <2>2. BusType' /\ WalkInv'
    BY <2>1 DEF BusType, WalkInv
  <2>3. LinkType' /\ Bare'
    BY <2>1 DEF LinkType, Bare, irqVars, mapVars, threadVars
  <2> QED
    BY <2>1, <2>2, <2>3 DEF LinkInv
<1>2. CASE FrontendChanged
  <2>1. /\ job = "idle" /\ state # "none"
        /\ target' \in {"InitWait", "Connected", "Closing", "Closed"}
        /\ job' \in {"Initialising", "Connected", "Closing", "Closed", "remove"}
        /\ job' = "remove" => target' = "Closed"
        /\ UNCHANGED <<state, step, watch, vif, irqVars, mapVars, threadVars>>
    BY <1>2 DEF FrontendChanged, Asks, vifVars
  <2>2. BusType' /\ WalkInv'
    BY <2>1 DEF BusType, WalkInv
  <2>3. LinkType' /\ LinkInv'
    BY <2>1 DEF LinkType, LinkInv, Bare, Attached, Mapped, irqVars, mapVars, threadVars
  <2> QED
    BY <2>2, <2>3
<1>3. CASE Reached /\ job = "remove"
  <2>1. Removed /\ step = "walk" /\ state = target
    BY <1>3 DEF Reached
  <2>2. state = "Closed" /\ Bare
    BY <1>3, <2>1 DEF WalkInv, LinkInv
  <2>3. /\ state' = "none" /\ job' = "idle" /\ watch' = FALSE /\ step' = "walk"
        /\ vif' \in {vif, "freed"} /\ txIrq' = 0 /\ rxIrq' = 0 /\ rings' = {}
        /\ target' = "Closed" /\ UNCHANGED <<bound, enabled, mapped, threadVars>>
    BY <2>1 DEF Removed
  <2>4. BusType' /\ WalkInv'
    BY <2>3 DEF BusType, WalkInv
  <2>5. LinkType' /\ Bare'
    BY <2>2, <2>3 DEF LinkType, Bare, threadVars
  <2> QED
    BY <2>3, <2>4, <2>5 DEF LinkInv
<1>4. CASE Reached /\ job # "remove"
  <2>1. /\ step = "walk" /\ job' \in {"idle", "remove"} /\ target' = "Closed"
        /\ state = target /\ job # "idle" /\ job # "bug"
        /\ UNCHANGED <<state, step, watch, vif, irqVars, mapVars, threadVars>>
    BY <1>4 DEF Reached, vifVars
  <2>2. state \notin {"none", "Unknown"}
    BY <2>1 DEF BusType
  <2>3. BusType' /\ WalkInv'
    BY <2>1, <2>2 DEF BusType, WalkInv
  <2>4. LinkType' /\ LinkInv'
    BY <2>1 DEF LinkType, LinkInv, Bare, Attached, Mapped, irqVars, mapVars, threadVars
  <2> QED
    BY <2>3, <2>4
<1>5. CASE HotplugConnected
  <2>1. /\ watch' = FALSE
        /\ UNCHANGED <<state, target, job, step, vif, irqVars, mapVars, threadVars>>
    BY <1>5 DEF HotplugConnected, vifVars
  <2>2. BusType' /\ WalkInv'
    BY <2>1 DEF BusType, WalkInv
  <2>3. LinkType' /\ LinkInv'
    BY <2>1 DEF LinkType, LinkInv, Bare, Attached, Mapped, irqVars, mapVars, threadVars
  <2> QED
    BY <2>2, <2>3
<1> QED
  BY <1>1, <1>2, <1>3, <1>4, <1>5

(* The walk of set_backend_state. *)
LEMMA WalkConn ==
  ASSUME ConnInv, Walk
  PROVE  ConnInv'
<1> USE DEF ConnInv
<1>1. /\ step = "walk" /\ job \notin {"idle", "bug"} /\ state # target
  BY DEF Walk
<1>2. CASE Hop
  <2>1. PICK h \in Hops :
          /\ h.from = state /\ target \in h.to
          /\ vif = "live" => "Connected" \notin {state, h.via}
          /\ Switch(h.via, published, watch)
    BY <1>2 DEF Hop
  <2>2. h.via \in {"InitWait", "Connected", "Closing", "Closed"}
    BY DEF Hops
  <2>3. h.from \in {"InitWait", "Connected", "Closing", "Closed"}
    BY DEF Hops
  <2>4. /\ state' = h.via /\ step' = "walk" /\ UNCHANGED <<target, job, watch, vif>>
        /\ UNCHANGED <<irqVars, mapVars, threadVars>>
    BY <1>2, <2>1 DEF Hop, Switch, vifVars
  <2>5. BusType' /\ WalkInv'
    BY <1>1, <2>1, <2>2, <2>3, <2>4 DEF BusType, WalkInv
  <2>6. Bare
    BY <1>1, <2>1 DEF LinkInv
  <2>7. LinkType' /\ Bare'
    BY <2>4, <2>6 DEF LinkType, Bare, irqVars, mapVars, threadVars
  <2> QED
    BY <2>4, <2>5, <2>7 DEF LinkInv
<1>3. CASE HopConnect
  <2>1. /\ step' = "map" /\ vif = "live" /\ state = "InitWait"
        /\ UNCHANGED <<state, target, job, watch, vif, irqVars, mapVars, threadVars>>
    BY <1>3 DEF HopConnect, vifVars
  <2>2. BusType' /\ WalkInv'
    BY <1>1, <2>1 DEF BusType, WalkInv
  <2>3. LinkType' /\ Bare'
    BY <1>1, <2>1 DEF LinkInv, LinkType, Bare, irqVars, mapVars, threadVars
  <2> QED
    BY <2>1, <2>2, <2>3 DEF LinkInv
<1>4. CASE HopDisconnect
  <2>1. /\ step' = "stop" /\ vif = "live" /\ state = "Connected"
        /\ enabled' = FALSE /\ stop' = task
        /\ UNCHANGED <<state, target, job, watch, vif, txIrq, rxIrq, bound, rings,
                       mapped, task, thread>>
    BY <1>4 DEF HopDisconnect, vifVars, mapVars
  <2>2. BusType' /\ WalkInv'
    BY <1>1, <2>1 DEF BusType, WalkInv
  <2>3. LinkType' /\ (Bare => Bare') /\ (Attached => Attached')
    BY <2>1 DEF LinkType, Bare, Attached
  <2> QED
    BY <1>1, <2>1, <2>2, <2>3 DEF LinkInv, LinkType
<1>5. CASE HopBug
  <2>1. /\ job' = "bug"
        /\ UNCHANGED <<state, target, step, watch, vif, irqVars, mapVars, threadVars>>
    BY <1>5 DEF HopBug, vifVars
  <2>2. state # "none"
    BY <1>1 DEF WalkInv
  <2>3. BusType' /\ WalkInv'
    BY <1>1, <2>1, <2>2 DEF BusType, WalkInv
  <2>4. LinkType' /\ LinkInv'
    BY <2>1 DEF LinkType, LinkInv, Bare, Attached, Mapped, irqVars, mapVars, threadVars
  <2> QED
    BY <2>3, <2>4
<1> QED
  BY <1>2, <1>3, <1>4, <1>5 DEF Walk

(* A connect that failed leaves nothing. *)
LEMMA ConnectFails ==
  ASSUME ConnInv, step \in {"map", "bind", "spawn"},
         ConnectFailed \/ Switch("Connected", published, watch),
         ~task' /\ thread' = "none" /\ ~stop' /\ ~enabled',
         bound' = {}, mapped' = {}, txIrq' = 0,
         LinkType', UNCHANGED vif
  PROVE  ConnInv'
<1>1. /\ state' = "Connected" /\ step' = "walk" /\ UNCHANGED <<target, job, watch>>
  BY DEF ConnectFailed, Switch
<1>2. BusType' /\ WalkInv'
  BY <1>1 DEF ConnInv, BusType, WalkInv
<1>3. LinkInv'
  BY <1>1 DEF LinkInv, Bare
<1> QED
  BY <1>2, <1>3 DEF ConnInv

(* xenvif_connect. *)
LEMMA ConnectConn ==
  ASSUME ConnInv, ConnectMap \/ ConnectBind \/ ConnectSpawn \/ ConnectEnable
  PROVE  ConnInv'
<1> USE DEF ConnInv
<1>1. CASE ConnectMap
  <2>1. /\ step = "map" /\ Bare
        /\ UNCHANGED <<vif, txIrq, rxIrq, bound, enabled, task, thread, stop>>
    BY <1>1 DEF ConnectMap, LinkInv, vifVars, irqVars, threadVars
  <2>2. CASE (ConnectFailed \/ Switch("Connected", published, watch))
             /\ UNCHANGED mapVars
    BY <2>1, <2>2, ConnectFails DEF Bare, mapVars, LinkType
  <2>3. CASE \E got \in {{}, {"tx"}} :
               /\ ConnectFailed
               /\ rings' = rings \cup got
               /\ mapped' = (mapped \cup got) \ rings'
    <3>1. mapped' = {} /\ LinkType'
      BY <2>1, <2>3 DEF Bare, LinkType
    <3> QED
      BY <2>1, <2>3, <3>1, ConnectFails DEF Bare
  <2>4. CASE /\ rings' = {"tx", "rx"} /\ mapped' = {"tx", "rx"} /\ step' = "bind"
             /\ UNCHANGED <<state, target, job, watch>>
    <3>1. BusType' /\ WalkInv'
      BY <2>1, <2>4 DEF BusType, WalkInv
    <3>2. LinkType' /\ LinkInv'
      BY <2>1, <2>4 DEF LinkType, LinkInv, Bare, Mapped
    <3> QED
      BY <3>1, <3>2
  <2> QED
    BY <1>1, <2>2, <2>3, <2>4 DEF ConnectMap
<1>2. CASE ConnectBind
  <2>1. /\ step = "bind" /\ ~task /\ thread = "none" /\ ~stop /\ ~enabled
        /\ Mapped /\ bound = {} /\ txIrq = 0
        /\ UNCHANGED <<vif, enabled, task, thread, stop>>
    BY <1>2 DEF ConnectBind, LinkInv, vifVars, threadVars
  <2>2. CASE /\ \E split \in BOOLEAN : txIrq' = 1 /\ rxIrq' = IF split THEN 2 ELSE 1
             /\ bound' = bound \cup {txIrq', rxIrq'}
             /\ step' = "spawn"
             /\ UNCHANGED <<state, target, job, watch, mapVars>>
    <3>1. BusType' /\ WalkInv'
      BY <2>1, <2>2 DEF BusType, WalkInv
    <3>2. txIrq' = 1 /\ rxIrq' \in {1, 2} /\ bound' = {txIrq', rxIrq'}
      BY <2>1, <2>2
    <3>3. LinkType' /\ LinkInv'
      BY <2>1, <2>2, <3>2 DEF LinkType, LinkInv, Mapped, mapVars
    <3> QED
      BY <3>1, <3>3
  <2>3. CASE ConnectFailed /\ txIrq' = 0 /\ Unmap /\ UNCHANGED <<rxIrq, bound>>
    <3>1. mapped' = {} /\ LinkType'
      BY <2>1, <2>3, UnmapsAll DEF LinkType
    <3> QED
      BY <2>1, <2>3, <3>1, ConnectFails
  <2> QED
    BY <1>2, <2>2, <2>3 DEF ConnectBind
<1>3. CASE ConnectSpawn
  <2>1. /\ step = "spawn" /\ ~task /\ thread = "none" /\ ~stop /\ ~enabled
        /\ Mapped /\ txIrq = 1 /\ rxIrq \in {1, 2} /\ bound = {txIrq, rxIrq}
        /\ UNCHANGED vif
    BY <1>3 DEF ConnectSpawn, LinkInv, vifVars
  <2>2. CASE /\ task' = TRUE /\ thread' = "new" /\ stop' = FALSE /\ step' = "enable"
             /\ UNCHANGED <<state, target, job, watch, irqVars, mapVars>>
    <3>1. BusType' /\ WalkInv'
      BY <2>1, <2>2 DEF BusType, WalkInv
    <3>2. LinkType' /\ LinkInv'
      BY <2>1, <2>2 DEF LinkType, LinkInv, Mapped, Attached, irqVars, mapVars
    <3> QED
      BY <3>1, <3>2
  <2>3. CASE /\ ConnectFailed /\ bound' = bound \ {rxIrq, txIrq}
             /\ rxIrq' = 0 /\ txIrq' = 0 /\ Unmap
             /\ UNCHANGED <<enabled, threadVars>>
    <3>1. mapped' = {} /\ bound' = {} /\ UNCHANGED rings
      BY <2>1, <2>3, UnmapsAll
    <3>2. LinkType'
      BY <2>3, <3>1 DEF LinkType, threadVars
    <3> QED
      BY <2>1, <2>3, <3>1, <3>2, ConnectFails DEF threadVars
  <2> QED
    BY <1>3, <2>2, <2>3 DEF ConnectSpawn
<1>4. CASE ConnectEnable
  <2>1. /\ step = "enable" /\ enabled' = TRUE /\ state' = "Connected" /\ step' = "walk"
        /\ watch' \in BOOLEAN
        /\ UNCHANGED <<target, job, vif, txIrq, rxIrq, bound, mapVars, threadVars>>
    BY <1>4 DEF ConnectEnable, Switch, vifVars
  <2>2. BusType' /\ WalkInv'
    BY <2>1 DEF BusType, WalkInv
  <2>3. LinkType' /\ Attached' /\ ~stop' /\ vif' = "live"
    BY <2>1 DEF LinkType, LinkInv, WalkInv, Attached, mapVars, threadVars
  <2> QED
    BY <2>1, <2>2, <2>3 DEF LinkInv
<1> QED
  BY <1>1, <1>2, <1>3, <1>4

(* xenvif_disconnect. *)
LEMMA DisconnectConn ==
  ASSUME ConnInv, Disconnect
  PROVE  ConnInv'
<1> USE DEF ConnInv
<1>1. /\ step = "stop" /\ task' = FALSE /\ thread' = "none" /\ stop' = FALSE
      /\ bound' = IF txIrq = 0 THEN bound ELSE bound \ {txIrq, rxIrq}
      /\ txIrq' = 0 /\ Unmap /\ state' = "Closing" /\ step' = "walk"
      /\ UNCHANGED <<target, job, watch, vif, rxIrq, enabled>>
  BY DEF Disconnect, Switch, vifVars
<1>2. BusType' /\ WalkInv'
  BY <1>1 DEF BusType, WalkInv
<1>3. mapped' = {} /\ bound' = {} /\ ~enabled'
  BY <1>1, UnmapsAll DEF LinkInv, Bare, Attached
<1>4. Bare' /\ UNCHANGED rings
  BY <1>1, <1>3, UnmapsAll DEF Bare
<1>5. LinkType'
  <2>1. txIrq' = 0 /\ UNCHANGED <<rxIrq, enabled, rings>> /\ ~task' /\ ~stop'
    BY <1>1, <1>4
  <2>2. task' \in BOOLEAN /\ stop' \in BOOLEAN /\ thread' = "none"
    BY <1>1
  <2> QED
    BY <1>3, <2>1, <2>2 DEF LinkType
<1> QED
  BY <1>1, <1>2, <1>4, <1>5 DEF LinkInv

(* The poll, the thread, the frontend and the interrupt. *)
LEMMA WorkConn ==
  ASSUME ConnInv, Poll \/ Thread \/ FrontPost \/ RxInterrupt
  PROVE  ConnInv'
<1>1. CASE Poll
  BY <1>1, ConnFrame DEF Poll, PollXmit, PollConnected, busVars, vifVars, threadVars
<1>2. CASE FrontPost \/ RxInterrupt
  BY <1>2, ConnFrame DEF FrontPost, RxInterrupt, busVars, vifVars, threadVars
<1>3. CASE ThreadStart \/ ThreadWait \/ ThreadWake
  BY <1>3, ConnFrame DEF ThreadStart, ThreadWait, ThreadWake, busVars, vifVars
<1>4. CASE RxDequeue \/ RxPiece \/ RxFull \/ RxCopy \/ ThreadDrain
  BY <1>4, ConnFrame DEF RxDequeue, RxPiece, RxFull, RxCopy, ThreadDrain, busVars,
     vifVars, threadVars
<1> QED
  BY <1>1, <1>2, <1>3, <1>4 DEF Thread

LEMMA ConnStep ==
  ASSUME ConnInv, [Next]_vars
  PROVE  ConnInv'
<1>1. CASE UNCHANGED vars
  BY <1>1, ConnFrame DEF vars, busVars, vifVars, threadVars
<1>2. CASE Xenbus
  BY <1>2, CallbackConn, WalkConn, ConnectConn, DisconnectConn DEF Xenbus
<1> QED
  BY <1>1, <1>2, WorkConn DEF Next

-----------------------------------------------------------------------------
(* The counts of a round. *)
RoundFacts == CountType /\ RoundInv

LEMMA RoundStep ==
  ASSUME ConnInv, RoundFacts, Next
  PROVE  RoundFacts'
<1> USE DEF RoundFacts
<1>1. ASSUME UNCHANGED <<thread, cur, rxq, copies>>,
             requests' = requests \/ requests' = 0
      PROVE  RoundFacts'
  BY <1>1, XenAssumption DEF CountType, RoundInv
<1>2. CASE Probe \/ FrontendChanged \/ Reached \/ HotplugConnected \/ Walk
           \/ ConnectBind \/ ConnectEnable
  <2>1. UNCHANGED <<thread, cur, rxq, copies>> /\ (requests' = requests \/ requests' = 0)
    BY <1>2 DEF Probe, ProbeFails, ProbeSucceeds, NoVif, NewVif, FrontendChanged,
       Reached, Removed, HotplugConnected, Walk, Hop, HopConnect, HopDisconnect,
       HopBug, ConnectBind, ConnectEnable, Unmap, threadVars, workVars, ringVars
  <2> QED
    BY <2>1, <1>1
<1>3. CASE ConnectMap
  <2>1. copies = 0 /\ rxq = <<>> /\ cur = NULL
    BY <1>3 DEF ConnectMap, ConnInv, LinkInv, Bare, RoundInv
  <2>2. UNCHANGED <<cur, rxq, copies>> /\ requests' \in {requests, 0, RingSize}
    BY <1>3 DEF ConnectMap, threadVars, workVars, ringVars
  <2>3. requests' \in Nat /\ requests' <= RingSize
    BY <2>1, <2>2, XenAssumption DEF CountType, RoundInv
  <2>4. copies' = 0 /\ copies' \in Nat
    BY <2>1, <2>2
  <2>5. requests' + copies' <= RingSize
    <3>1. \A n \in Nat : n + 0 = n
      OBVIOUS
    <3> QED
      BY <2>3, <2>4, <3>1
  <2>6. rxq' = <<>> /\ cur' = NULL
    BY <2>1, <2>2
  <2> QED
    BY <2>3, <2>4, <2>5, <2>6 DEF CountType, RoundInv
<1>4. CASE ConnectSpawn \/ Disconnect
  <2>1. thread \in {"none", "dead"}
    BY <1>4 DEF ConnectSpawn, Disconnect, ConnInv, LinkInv
  <2>2. /\ UNCHANGED <<cur, rxq, copies>> /\ (requests' = requests \/ requests' = 0)
        /\ thread' \in {"none", "new", "dead"}
    BY <1>4, <2>1 DEF ConnectSpawn, Disconnect, Unmap, threadVars, workVars, ringVars
  <2>3. copies = 0 /\ rxq = <<>> /\ cur = NULL
    BY <2>1 DEF RoundInv
  <2>4. copies' \in Nat /\ requests' \in Nat /\ requests' + copies' <= RingSize
    BY <2>2, XenAssumption DEF CountType, RoundInv
  <2> QED
    BY <2>2, <2>3, <2>4 DEF CountType, RoundInv
<1>5. CASE Poll \/ RxInterrupt
  BY <1>5, <1>1 DEF Poll, PollConnected, PollXmit, RxInterrupt, threadVars, workVars,
     ringVars
<1>6. CASE FrontPost
  BY <1>6, XenAssumption DEF FrontPost, CountType, RoundInv, threadVars, workVars
<1>7. CASE ThreadStart \/ ThreadWait \/ ThreadWake \/ ThreadDrain
  BY <1>7 DEF ThreadStart, ThreadWait, ThreadWake, ThreadDrain, CountType, RoundInv,
     workVars, ringVars
<1>8. CASE RxDequeue \/ RxFull
  BY <1>8 DEF RxDequeue, RxFull, CountType, RoundInv, ringVars
<1>9. CASE RxPiece
  <2>1. /\ thread = "work" /\ thread' = thread /\ requests > 0
        /\ requests' = requests - 1 /\ copies' = copies + 1
    BY <1>9 DEF RxPiece, threadVars
  <2>2. requests' \in Nat /\ copies' \in Nat /\ requests' + copies' = requests + copies
    BY <2>1 DEF CountType
  <2>3. requests' + copies' <= RingSize
    BY <2>2 DEF RoundInv
  <2>4. CountType' /\ thread' = "work"
    BY <2>1, <2>2 DEF CountType
  <2> QED
    BY <2>3, <2>4 DEF RoundInv
<1>10. CASE RxCopy
  <2>1. /\ thread = "copy" /\ thread' = "wait" /\ copies' = 0 /\ rxq' = <<>>
        /\ UNCHANGED <<cur, requests>>
    BY <1>10 DEF RxCopy, ringVars
  <2>2. requests' \in Nat /\ copies' \in Nat /\ requests' + copies' <= RingSize
    BY <2>1, XenAssumption DEF CountType, RoundInv
  <2> QED
    BY <2>1, <2>2 DEF CountType, RoundInv
<1> QED
  BY <1>2, <1>3, <1>4, <1>5, <1>6, <1>7, <1>8, <1>9, <1>10 DEF Next, Xenbus, Thread

-----------------------------------------------------------------------------
(* What the frontend was told. *)
LEMMA ToldStep ==
  ASSUME ConnInv, ToldInv, Next
  PROVE  ToldInv'
<1>1. ASSUME UNCHANGED <<state, published, watch>> PROVE ToldInv'
  BY <1>1 DEF ToldInv
<1>2. ASSUME NEW s, Switch(s, published, watch) PROVE ToldInv'
  BY <1>2 DEF ToldInv, Switch, ConnInv, BusType
<1>3. ASSUME ConnectFailed PROVE ToldInv'
  BY <1>3 DEF ToldInv, ConnectFailed, Switch, ConnInv, BusType
<1>4. CASE Probe
  BY <1>4 DEF Probe, ProbeFails, ProbeSucceeds, NoVif, NewVif, ToldInv
<1>5. CASE FrontendChanged \/ HopConnect \/ HopDisconnect \/ HopBug
  BY <1>5, <1>1 DEF FrontendChanged, HopConnect, HopDisconnect, HopBug
<1>6. CASE Reached
  BY <1>6, <1>1 DEF Reached, Removed, ToldInv
<1>7. CASE HotplugConnected
  BY <1>7 DEF HotplugConnected, ToldInv
<1>8. CASE Hop
  BY <1>8, <1>2 DEF Hop
<1>9. CASE ConnectMap
  BY <1>9, <1>1, <1>2, <1>3 DEF ConnectMap
<1>10. CASE ConnectBind
  BY <1>10, <1>1, <1>3 DEF ConnectBind
<1>11. CASE ConnectSpawn
  BY <1>11, <1>1, <1>3 DEF ConnectSpawn
<1>12. CASE ConnectEnable
  BY <1>12 DEF ConnectEnable, Switch, ToldInv
<1>13. CASE Disconnect
  BY <1>13, <1>2 DEF Disconnect
<1>14. CASE Poll \/ Thread \/ FrontPost \/ RxInterrupt
  BY <1>14, <1>1 DEF Poll, PollConnected, PollXmit, FrontPost, RxInterrupt, Thread,
     ThreadStart, ThreadWait, ThreadWake, RxDequeue, RxPiece, RxFull, RxCopy,
     ThreadDrain, busVars
<1> QED
  BY <1>4, <1>5, <1>6, <1>7, <1>8, <1>9, <1>10, <1>11, <1>12, <1>13, <1>14
  DEF Next, Xenbus, Walk

-----------------------------------------------------------------------------
(* Sequences without a repetition. *)
LEMMA AppendOnce ==
  ASSUME NEW q \in Seq(Lbuf), NEW p \in Lbuf, Once(q), ~In(p, q)
  PROVE  /\ Append(q, p) \in Seq(Lbuf) /\ Once(Append(q, p))
         /\ \A x : In(x, Append(q, p)) <=> In(x, q) \/ x = p
<1> DEFINE r == Append(q, p)
<1>1. /\ r \in Seq(Lbuf) /\ Len(r) = Len(q) + 1 /\ Len(q) \in Nat
      /\ DOMAIN q = 1 .. Len(q) /\ DOMAIN r = 1 .. Len(q) + 1
      /\ \A k \in 1 .. Len(q) : r[k] = q[k]
      /\ r[Len(q) + 1] = p
  OBVIOUS
<1> HIDE DEF r
<1>2. Once(r)
  BY <1>1 DEF Once, In
<1>3. \A x : In(x, r) <=> In(x, q) \/ x = p
  BY <1>1 DEF In
<1> QED
  BY <1>1, <1>2, <1>3 DEF r

LEMMA TailOnce ==
  ASSUME NEW q \in Seq(Lbuf), q # <<>>, Once(q)
  PROVE  /\ Tail(q) \in Seq(Lbuf) /\ Head(q) \in Lbuf /\ Once(Tail(q))
         /\ Head(q) = q[1] /\ 1 \in DOMAIN q
         /\ \A k \in DOMAIN Tail(q) : k + 1 \in DOMAIN q /\ Tail(q)[k] = q[k + 1]
         /\ \A x : In(x, q) <=> In(x, Tail(q)) \/ x = Head(q)
         /\ ~In(Head(q), Tail(q))
<1> DEFINE t == Tail(q)
           h == Head(q)
<1>1. /\ t \in Seq(Lbuf) /\ Len(q) \in Nat /\ Len(q) > 0 /\ Len(t) = Len(q) - 1
      /\ DOMAIN q = 1 .. Len(q) /\ DOMAIN t = 1 .. Len(q) - 1
      /\ \A k \in 1 .. Len(q) - 1 : t[k] = q[k + 1]
      /\ h = q[1] /\ h \in Lbuf
  OBVIOUS
<1> HIDE DEF t, h
<1>2. \A j, k \in 1 .. Len(q) : q[j] = q[k] => j = k
  BY <1>1 DEF Once
<1>3. \A k \in 1 .. Len(q) - 1 : k + 1 \in 1 .. Len(q) /\ t[k] = q[k + 1]
  BY <1>1
<1>4. ASSUME NEW j \in 1 .. Len(q) - 1, NEW k \in 1 .. Len(q) - 1, t[j] = t[k]
      PROVE  j = k
  <2>1. j + 1 = k + 1
    BY <1>2, <1>3, <1>4
  <2> QED
    BY <2>1
<1>5. Once(t)
  BY <1>1, <1>4 DEF Once
<1>6. ~In(h, t)
  <2>1. ASSUME NEW k \in 1 .. Len(q) - 1 PROVE t[k] # h
    <3>1. 1 \in 1 .. Len(q) /\ k + 1 # 1
      BY <1>1
    <3> QED
      BY <1>1, <1>2, <1>3, <3>1
  <2> QED
    BY <1>1, <2>1 DEF In
<1>7. ASSUME NEW x PROVE In(x, q) <=> In(x, t) \/ x = h
  <2>1. ASSUME In(x, q), x # h PROVE In(x, t)
    <3>1. PICK k \in 1 .. Len(q) : q[k] = x
      BY <1>1, <2>1 DEF In
    <3>2. k - 1 \in 1 .. Len(q) - 1 /\ t[k - 1] = x
      BY <1>1, <2>1, <3>1
    <3> QED
      BY <1>1, <3>2 DEF In
  <2>2. ASSUME In(x, t) PROVE In(x, q)
    <3>1. PICK k \in 1 .. Len(q) - 1 : t[k] = x
      BY <1>1, <2>2 DEF In
    <3>2. k + 1 \in 1 .. Len(q) /\ q[k + 1] = x
      BY <1>1, <3>1
    <3> QED
      BY <1>1, <3>2 DEF In
  <2>3. In(h, q)
    BY <1>1 DEF In
  <2> QED
    BY <2>1, <2>2, <2>3
<1> QED
  BY <1>1, <1>3, <1>5, <1>6, <1>7 DEF t, h

LEMMA PushOnce ==
  ASSUME NEW q \in Seq(Lbuf), NEW p \in Lbuf, Once(q), ~In(p, q)
  PROVE  /\ <<p>> \o q \in Seq(Lbuf) /\ Once(<<p>> \o q)
         /\ \A x : In(x, <<p>> \o q) <=> In(x, q) \/ x = p
         /\ \A k \in DOMAIN (<<p>> \o q) : k > 1 =>
              k - 1 \in DOMAIN q /\ (<<p>> \o q)[k] = q[k - 1]
<1> DEFINE r == <<p>> \o q
<1>1. /\ r \in Seq(Lbuf) /\ Len(q) \in Nat /\ Len(r) = Len(q) + 1
      /\ DOMAIN q = 1 .. Len(q) /\ DOMAIN r = 1 .. Len(q) + 1
      /\ r[1] = p /\ \A k \in 2 .. Len(q) + 1 : r[k] = q[k - 1]
  OBVIOUS
<1> HIDE DEF r
<1>2. Once(r)
  <2>1. \A j, k \in 1 .. Len(q) : q[j] = q[k] => j = k
    BY <1>1 DEF Once
  <2>2. \A k \in 2 .. Len(q) + 1 : k - 1 \in 1 .. Len(q) /\ r[k] = q[k - 1] /\ r[k] # p
    BY <1>1 DEF In
  <2>3. ASSUME NEW j \in 1 .. Len(q) + 1, NEW k \in 1 .. Len(q) + 1, r[j] = r[k]
        PROVE  j = k
    <3>1. CASE j = 1 \/ k = 1
      BY <1>1, <2>2, <2>3, <3>1
    <3>2. CASE j # 1 /\ k # 1
      <4>1. j \in 2 .. Len(q) + 1 /\ k \in 2 .. Len(q) + 1
        BY <1>1, <3>2
      <4>2. j - 1 = k - 1
        BY <2>1, <2>2, <2>3, <4>1
      <4> QED
        BY <4>2
    <3> QED
      BY <3>1, <3>2
  <2> QED
    BY <1>1, <2>3 DEF Once
<1>3. ASSUME NEW x PROVE In(x, r) <=> In(x, q) \/ x = p
  <2>1. ASSUME In(x, r), x # p PROVE In(x, q)
    <3>1. PICK k \in 1 .. Len(q) + 1 : r[k] = x
      BY <1>1, <2>1 DEF In
    <3>2. k \in 2 .. Len(q) + 1
      BY <1>1, <2>1, <3>1
    <3>3. k - 1 \in 1 .. Len(q) /\ q[k - 1] = x
      BY <1>1, <3>1, <3>2
    <3> QED
      BY <1>1, <3>3 DEF In
  <2>2. ASSUME In(x, q) PROVE In(x, r)
    <3>1. PICK k \in 1 .. Len(q) : q[k] = x
      BY <1>1, <2>2 DEF In
    <3>2. k + 1 \in 1 .. Len(q) + 1 /\ r[k + 1] = x
      BY <1>1, <3>1
    <3> QED
      BY <1>1, <3>2 DEF In
  <2>3. In(p, r)
    BY <1>1 DEF In
  <2> QED
    BY <2>1, <2>2, <2>3
<1> QED
  BY <1>1, <1>2, <1>3 DEF r

-----------------------------------------------------------------------------
(* The pages. *)
OwnerFacts == QueueType /\ OwnerInv /\ OffsetInv

pageVars == <<queue, offset, cur, rxq, given, lost>>

LEMMA InUseIn ==
  ASSUME NEW p
  PROVE  p \in InUse <=> \/ In(p, queue) \/ In(p, rxq) \/ p \in lost
                         \/ p # NULL /\ (p = cur \/ p = given)
BY DEF InUse, In

LEMMA EmptyIn == Once(<<>>) /\ \A x : ~In(x, <<>>)
BY DEF Once, In

LEMMA PollOwner ==
  ASSUME OwnerFacts, Poll
  PROVE  OwnerFacts'
<1> USE XenAssumption DEF OwnerFacts
<1>1. ASSUME NEW p \in Lbuf, PollConnected(p) PROVE OwnerFacts'
  <2>1. /\ given = NULL /\ given' = p /\ UNCHANGED <<queue, offset, cur, rxq, lost>>
        /\ ~In(p, queue) /\ ~In(p, rxq) /\ p \notin lost /\ p # cur
    BY <1>1, InUseIn DEF PollConnected, workVars
  <2>2. QueueType' /\ OffsetInv'
    BY <2>1 DEF QueueType, OffsetInv
  <2>3. OwnerInv'
    BY <2>1 DEF OwnerInv, QueueType
  <2> QED
    BY <2>2, <2>3
<1>2. CASE PollXmit /\ vif # "live"
  <2>1. /\ given \in Lbuf /\ given' = NULL /\ lost' = lost \cup {given}
        /\ UNCHANGED <<queue, offset, cur, rxq>>
    BY <1>2 DEF PollXmit, workVars, QueueType
  <2>2. QueueType' /\ OffsetInv'
    BY <2>1 DEF QueueType, OffsetInv
  <2>3. OwnerInv'
    BY <2>1 DEF OwnerInv, QueueType
  <2> QED
    BY <2>2, <2>3
<1>3. CASE PollXmit /\ vif = "live"
  <2>1. /\ given \in Lbuf /\ given' = NULL /\ queue' = Append(queue, given)
        /\ offset' = [offset EXCEPT ![given] = 0] /\ UNCHANGED <<cur, rxq, lost>>
    BY <1>3 DEF PollXmit, workVars, QueueType
  <2>2. /\ queue' \in Seq(Lbuf) /\ Once(queue')
        /\ \A x : In(x, queue') <=> In(x, queue) \/ x = given
    BY <2>1, AppendOnce DEF QueueType, OwnerInv
  <2>3. QueueType'
    BY <2>1, <2>2 DEF QueueType
  <2>4. OwnerInv'
    BY <2>1, <2>2 DEF OwnerInv, QueueType
  <2>5. OffsetInv'
    <3>1. /\ Len(queue) \in Nat /\ DOMAIN queue = 1 .. Len(queue)
          /\ DOMAIN queue' = 1 .. Len(queue) + 1
          /\ \A k \in 1 .. Len(queue) : queue'[k] = queue[k] /\ queue[k] \in Lbuf
          /\ queue'[Len(queue) + 1] = given
      BY <2>1 DEF QueueType
    <3>2. \A k \in 1 .. Len(queue) : queue[k] # given
      BY <2>1, <3>1 DEF OwnerInv, In
    <3>3. offset'[given] = 0 /\ \A p \in Lbuf : p # given => offset'[p] = offset[p]
      BY <2>1 DEF QueueType
    <3> QED
      BY <2>1, <3>1, <3>2, <3>3 DEF OffsetInv
  <2> QED
    BY <2>3, <2>4, <2>5
<1> QED
  BY <1>1, <1>2, <1>3 DEF Poll

LEMMA RemovedOwner ==
  ASSUME OwnerFacts, Removed
  PROVE  OwnerFacts'
<1> USE XenAssumption DEF OwnerFacts
<1>1. CASE vif = "live"
  <2>1. /\ lost' = lost \cup {queue[k] : k \in DOMAIN queue} /\ queue' = <<>>
        /\ UNCHANGED <<offset, cur, rxq, given>>
    BY <1>1 DEF Removed, workVars
  <2>2. \A x : x \in lost' <=> x \in lost \/ In(x, queue)
    BY <2>1 DEF In
  <2>3. QueueType' /\ OffsetInv'
    <3>1. \A k \in DOMAIN queue : queue[k] \in Lbuf
      BY DEF QueueType
    <3> QED
      BY <2>1, <3>1 DEF QueueType, OffsetInv
  <2>4. OwnerInv'
    <3>1. Once(queue') /\ \A x : ~In(x, queue')
      BY <2>1, EmptyIn
    <3>2. ASSUME NEW p, In(p, queue) PROVE p \in Lbuf
      BY <3>2 DEF In, QueueType
    <3> QED
      BY <2>1, <2>2, <3>1, <3>2 DEF OwnerInv, QueueType
  <2> QED
    BY <2>3, <2>4
<1>2. CASE vif # "live"
  BY <1>2 DEF Removed, workVars, QueueType, OwnerInv, OffsetInv
<1> QED
  BY <1>1, <1>2

LEMMA RoundOwner ==
  ASSUME OwnerFacts, RoundFacts, RxDequeue \/ RxPiece \/ RxFull \/ RxCopy \/ ThreadDrain
  PROVE  OwnerFacts'
<1> USE XenAssumption DEF OwnerFacts
<1>1. CASE RxDequeue /\ queue = <<>>
  BY <1>1 DEF RxDequeue, QueueType, OwnerInv, OffsetInv
<1>2. CASE RxDequeue /\ queue # <<>>
  <2>1. /\ cur = NULL /\ cur' = Head(queue) /\ queue' = Tail(queue)
        /\ UNCHANGED <<offset, rxq, given, lost>>
    BY <1>2 DEF RxDequeue
  <2>2. /\ queue' \in Seq(Lbuf) /\ cur' \in Lbuf /\ Once(queue') /\ ~In(cur', queue')
        /\ \A x : In(x, queue) <=> In(x, queue') \/ x = cur'
        /\ \A k \in DOMAIN queue' : k + 1 \in DOMAIN queue /\ queue'[k] = queue[k + 1]
    BY <1>2, <2>1, TailOnce DEF QueueType, OwnerInv
  <2>3. QueueType'
    BY <2>1, <2>2 DEF QueueType
  <2>4. OwnerInv'
    BY <2>1, <2>2 DEF OwnerInv, QueueType
  <2>5. OffsetInv'
    <3>1. \A k \in DOMAIN queue' : k \in Nat /\ k > 0
      BY <2>2
    <3> QED
      BY <2>1, <2>2, <3>1 DEF OffsetInv
  <2> QED
    BY <2>3, <2>4, <2>5
<1>3. CASE RxPiece
  <2>1. /\ cur \in Lbuf /\ offset' = [offset EXCEPT ![cur] = @ + 1]
        /\ UNCHANGED <<queue, given, lost>>
        /\ \/ rxq' = Append(rxq, cur) /\ cur' = NULL
           \/ UNCHANGED <<rxq, cur>>
    BY <1>3 DEF RxPiece, QueueType
  <2>2. ASSUME rxq' = Append(rxq, cur)
        PROVE  /\ rxq' \in Seq(Lbuf) /\ Once(rxq')
               /\ \A x : In(x, rxq') <=> In(x, rxq) \/ x = cur
    BY <2>1, <2>2, AppendOnce DEF QueueType, OwnerInv
  <2>3. QueueType'
    BY <2>1, <2>2 DEF QueueType
  <2>4. OwnerInv'
    BY <2>1, <2>2 DEF OwnerInv, QueueType
  <2>5. OffsetInv'
    <3>1. \A k \in DOMAIN queue : queue[k] # cur /\ queue[k] \in Lbuf
      BY <2>1 DEF OwnerInv, In, QueueType
    <3>2. \A k \in DOMAIN queue : offset'[queue[k]] = 0
      BY <2>1, <3>1 DEF OffsetInv, QueueType
    <3> QED
      BY <2>1, <3>2 DEF OffsetInv
  <2> QED
    BY <2>3, <2>4, <2>5
<1>4. CASE RxFull
  <2>1. /\ cur \in Lbuf /\ cur' = NULL /\ queue' = <<cur>> \o queue
        /\ UNCHANGED <<offset, rxq, given, lost>>
    BY <1>4 DEF RxFull, QueueType
  <2>2. /\ queue' \in Seq(Lbuf) /\ Once(queue')
        /\ \A x : In(x, queue') <=> In(x, queue) \/ x = cur
        /\ \A k \in DOMAIN queue' : k > 1 => k - 1 \in DOMAIN queue /\ queue'[k] = queue[k - 1]
    BY <2>1, PushOnce DEF QueueType, OwnerInv
  <2>3. QueueType'
    BY <2>1, <2>2 DEF QueueType
  <2>4. OwnerInv'
    BY <2>1, <2>2 DEF OwnerInv, QueueType
  <2>5. OffsetInv'
    BY <2>1, <2>2 DEF OffsetInv
  <2> QED
    BY <2>3, <2>4, <2>5
<1>5. CASE RxCopy
  <2>1. /\ cur = NULL /\ rxq' = <<>> /\ UNCHANGED <<queue, cur, given, lost>>
        /\ offset' = [p \in Lbuf |-> IF \E k \in DOMAIN rxq : rxq[k] = p
                                     THEN 0 ELSE offset[p]]
    BY <1>5 DEF RxCopy, RoundFacts, RoundInv
  <2>2. Once(rxq') /\ \A x : ~In(x, rxq')
    BY <2>1, EmptyIn
  <2>3. QueueType'
    BY <2>1 DEF QueueType
  <2>4. OwnerInv'
    BY <2>1, <2>2 DEF OwnerInv
  <2>5. OffsetInv'
    <3>1. \A k \in DOMAIN queue : queue[k] \in Lbuf
      BY DEF QueueType
    <3> QED
      BY <2>1, <3>1 DEF OffsetInv
  <2> QED
    BY <2>3, <2>4, <2>5
<1>6. CASE ThreadDrain
  <2>1. /\ cur = NULL /\ offset' = [p \in Lbuf |-> 0]
        /\ UNCHANGED <<cur, rxq, given, lost>>
        /\ \/ UNCHANGED queue
           \/ queue # <<>> /\ queue' = Tail(queue)
    BY <1>6 DEF ThreadDrain, workVars, RoundFacts, RoundInv
  <2>2. /\ queue' \in Seq(Lbuf) /\ Once(queue')
        /\ \A x : In(x, queue') => In(x, queue)
    <3>1. CASE UNCHANGED queue
      BY <3>1 DEF QueueType, OwnerInv
    <3>2. CASE queue # <<>> /\ queue' = Tail(queue)
      BY <3>2, TailOnce DEF QueueType, OwnerInv
    <3> QED
      BY <2>1, <3>1, <3>2
  <2>3. QueueType'
    BY <2>1, <2>2 DEF QueueType
  <2>4. OwnerInv'
    BY <2>1, <2>2 DEF OwnerInv
  <2>5. OffsetInv'
    <3>1. \A k \in DOMAIN queue' : queue'[k] \in Lbuf
      BY <2>2
    <3> QED
      BY <2>1, <3>1 DEF OffsetInv
  <2> QED
    BY <2>3, <2>4, <2>5
<1> QED
  BY <1>1, <1>2, <1>3, <1>4, <1>5, <1>6

LEMMA OwnerStep ==
  ASSUME OwnerFacts, RoundFacts, Next
  PROVE  OwnerFacts'
<1>1. ASSUME UNCHANGED pageVars PROVE OwnerFacts'
  BY <1>1 DEF pageVars, OwnerFacts, QueueType, OwnerInv, OffsetInv
<1>2. CASE Xenbus /\ ~(Reached /\ job = "remove")
  <2>1. UNCHANGED pageVars
    BY <1>2 DEF Xenbus, Probe, ProbeFails, ProbeSucceeds, NoVif, NewVif,
       FrontendChanged, Reached, HotplugConnected, Walk, Hop, HopConnect,
       HopDisconnect, HopBug, ConnectMap, ConnectBind, ConnectSpawn, ConnectEnable,
       Disconnect, pageVars, workVars
  <2> QED
    BY <2>1, <1>1
<1>3. CASE Reached /\ job = "remove"
  BY <1>3, RemovedOwner DEF Reached
<1>4. CASE FrontPost \/ RxInterrupt \/ ThreadStart \/ ThreadWait \/ ThreadWake
  BY <1>4, <1>1 DEF FrontPost, RxInterrupt, ThreadStart, ThreadWait, ThreadWake,
     pageVars, workVars
<1> QED
  BY <1>2, <1>3, <1>4, PollOwner, RoundOwner DEF Next, Thread

-----------------------------------------------------------------------------
XInv == ConnInv /\ RoundFacts /\ OwnerFacts /\ ToldInv

LEMMA XInvariant == Spec => []XInv
<1>1. Init => XInv
  <2> SUFFICES ASSUME Init PROVE XInv
    OBVIOUS
  <2>1. ConnInv
    <3>1. BusType /\ WalkInv
      BY DEF Init, BusType, WalkInv
    <3>2. LinkType
      <4>1. bound = {} /\ rings = {} /\ mapped = {} /\ txIrq = 0 /\ rxIrq = 0
            /\ enabled = FALSE /\ task = FALSE /\ stop = FALSE /\ thread = "none"
        BY DEF Init
      <4> QED
        <5>1. txIrq \in 0 .. 1 /\ rxIrq \in 0 .. 2
          BY <4>1
        <5>2. bound \subseteq {1, 2} /\ mapped \subseteq rings /\ rings \subseteq {"tx", "rx"}
          BY <4>1
        <5> QED
          BY <4>1, <5>1, <5>2 DEF LinkType
    <3>3. LinkInv
      BY DEF Init, LinkInv, Bare
    <3> QED
      BY <3>1, <3>2, <3>3 DEF ConnInv
  <2>2. RoundFacts
    BY XenAssumption DEF Init, RoundFacts, CountType, RoundInv
  <2>3. OwnerFacts
    <3>1. QueueType /\ OffsetInv
      BY DEF Init, QueueType, OffsetInv
    <3>2. OwnerInv
      BY EmptyIn DEF Init, OwnerInv
    <3> QED
      BY <3>1, <3>2 DEF OwnerFacts
  <2>4. ToldInv
    BY DEF Init, ToldInv
  <2> QED
    BY <2>1, <2>2, <2>3, <2>4 DEF XInv
<1>2. XInv /\ [Next]_vars => XInv'
  <2> SUFFICES ASSUME XInv, [Next]_vars PROVE XInv'
    OBVIOUS
  <2>1. CASE Next
    BY <2>1, ConnStep, RoundStep, OwnerStep, ToldStep DEF XInv
  <2>2. CASE UNCHANGED vars
    <3>1. ConnInv'
      BY <2>2, ConnStep DEF XInv
    <3>2. RoundFacts' /\ OwnerFacts' /\ ToldInv'
      BY <2>2 DEF vars, busVars, threadVars, workVars, ringVars, XInv, RoundFacts,
         CountType, RoundInv, OwnerFacts, QueueType, OwnerInv, OffsetInv, ToldInv
    <3> QED
      BY <3>1, <3>2 DEF XInv
  <2> QED
    BY <2>1, <2>2
<1> QED
  BY <1>1, <1>2, PTL DEF Spec

(* The rings stay mapped under the kernel thread, and xenvif_disconnect or  *)
(* the error labels of xenvif_connect leave nothing of an interface that is *)
(* freed, wherever the connection failed and whatever the frontend asks.    *)
THEOREM NothingOutlivesVif == Spec => []TornDown
<1>1. XInv => TornDown
  BY DEF XInv, ConnInv, TornDown, LinkInv, WalkInv, BusType, Bare, Attached
<1> QED
  BY <1>1, XInvariant, PTL

(* Neither BUG_ON fires: a connect finds no interrupt bound, and the copies *)
(* of a round fit in gop, because each of them took a request.              *)
THEOREM NoBugOn == Spec => []BugOns
<1>1. XInv => BugOns
  BY XenAssumption DEF XInv, ConnInv, RoundFacts, CountType, RoundInv, BugOns, LinkInv,
     Bare
<1> QED
  BY <1>1, XInvariant, PTL

(* Appending to a sequence without a repetition what is not in it.          *)
LEMMA ConcatOnce ==
  ASSUME NEW s \in Seq(Lbuf), NEW t \in Seq(Lbuf), Once(s), Once(t),
         \A x \in Lbuf : ~(In(x, s) /\ In(x, t))
  PROVE  /\ s \o t \in Seq(Lbuf) /\ Once(s \o t)
         /\ \A x : In(x, s \o t) <=> In(x, s) \/ In(x, t)
<1> DEFINE r == s \o t
<1>1. /\ r \in Seq(Lbuf) /\ Len(s) \in Nat /\ Len(t) \in Nat
      /\ Len(r) = Len(s) + Len(t)
      /\ DOMAIN s = 1 .. Len(s) /\ DOMAIN t = 1 .. Len(t)
      /\ DOMAIN r = 1 .. Len(s) + Len(t)
      /\ \A k \in 1 .. Len(s) : r[k] = s[k] /\ s[k] \in Lbuf
      /\ \A k \in 1 .. Len(s) + Len(t) : k > Len(s) => r[k] = t[k - Len(s)]
      /\ \A k \in 1 .. Len(t) : t[k] \in Lbuf
  OBVIOUS
<1> HIDE DEF r
<1>2. \A j \in 1 .. Len(s), k \in 1 .. Len(t) : s[j] # t[k]
  BY <1>1 DEF In
<1>3. \A k \in 1 .. Len(s) + Len(t) : k > Len(s) => k - Len(s) \in 1 .. Len(t)
  BY <1>1
<1>4. ASSUME NEW j \in 1 .. Len(s) + Len(t), NEW k \in 1 .. Len(s) + Len(t),
             r[j] = r[k], j <= k
      PROVE  j = k
  <2>1. CASE k <= Len(s)
    <3>1. j \in 1 .. Len(s) /\ k \in 1 .. Len(s)
      BY <1>1, <1>4, <2>1
    <3> QED
      BY <1>1, <1>4, <3>1 DEF Once
  <2>2. CASE j > Len(s)
    <3>1. k > Len(s)
      BY <1>1, <1>4, <2>2
    <3>2. /\ j - Len(s) \in 1 .. Len(t) /\ k - Len(s) \in 1 .. Len(t)
          /\ t[j - Len(s)] = t[k - Len(s)]
      BY <1>1, <1>3, <1>4, <2>2, <3>1
    <3>3. j - Len(s) = k - Len(s)
      BY <1>1, <3>2 DEF Once
    <3> QED
      BY <1>1, <3>3
  <2>3. CASE j <= Len(s) /\ k > Len(s)
    <3>1. j \in 1 .. Len(s) /\ k - Len(s) \in 1 .. Len(t) /\ s[j] = t[k - Len(s)]
      BY <1>1, <1>3, <1>4, <2>3
    <3> QED
      BY <1>2, <3>1
  <2> QED
    BY <1>1, <2>1, <2>2, <2>3
<1>5. Once(r)
  <2>1. ASSUME NEW j \in 1 .. Len(s) + Len(t), NEW k \in 1 .. Len(s) + Len(t),
               r[j] = r[k]
        PROVE  j = k
    <3>1. j <= k \/ k <= j
      BY <1>1
    <3> QED
      BY <1>4, <2>1, <3>1
  <2> QED
    BY <1>1, <2>1 DEF Once
<1>6. ASSUME NEW x PROVE In(x, r) <=> In(x, s) \/ In(x, t)
  <2>1. ASSUME In(x, r) PROVE In(x, s) \/ In(x, t)
    <3>1. PICK k \in 1 .. Len(s) + Len(t) : r[k] = x
      BY <1>1, <2>1 DEF In
    <3>2. CASE k <= Len(s)
      BY <1>1, <3>1, <3>2 DEF In
    <3>3. CASE k > Len(s)
      BY <1>1, <1>3, <3>1, <3>3 DEF In
    <3> QED
      BY <1>1, <3>2, <3>3
  <2>2. ASSUME In(x, s) PROVE In(x, r)
    <3>1. PICK k \in 1 .. Len(s) : s[k] = x
      BY <1>1, <2>2 DEF In
    <3> QED
      BY <1>1, <3>1 DEF In
  <2>3. ASSUME In(x, t) PROVE In(x, r)
    <3>1. PICK k \in 1 .. Len(t) : t[k] = x
      BY <1>1, <2>3 DEF In
    <3>2. /\ k + Len(s) \in 1 .. Len(s) + Len(t) /\ k + Len(s) > Len(s)
          /\ (k + Len(s)) - Len(s) = k
      BY <1>1
    <3> QED
      BY <1>1, <3>1, <3>2 DEF In
  <2> QED
    BY <2>1, <2>2, <2>3
<1> QED
  BY <1>1, <1>5, <1>6 DEF r

LEMMA MaybeOnce ==
  ASSUME NEW p \in Lbuf \cup {NULL}, NEW m, m = IF p = NULL THEN <<>> ELSE <<p>>
  PROVE  m \in Seq(Lbuf) /\ Once(m) /\ \A x : In(x, m) <=> x = p /\ p # NULL
BY EmptyIn DEF Once, In

(* A page has one owner, and the guest gets the pieces of a page in order:  *)
(* deliver_lbuf, the queue and xenvif_rx_action, which puts a page it could *)
(* not finish back at the head of the queue (xen_nfback.c:118).             *)
THEOREM PageHasOneOwner == Spec => []OneOwner
<1>1. XInv => OneOwner
  <2> SUFFICES ASSUME XInv PROVE OneOwner
    OBVIOUS
  <2> USE XenAssumption DEF XInv, OwnerFacts
  <2> DEFINE C == IF cur = NULL THEN <<>> ELSE <<cur>>
             G == IF given = NULL THEN <<>> ELSE <<given>>
  <2>1. /\ C \in Seq(Lbuf) /\ Once(C) /\ \A x : In(x, C) <=> x = cur /\ cur # NULL
        /\ G \in Seq(Lbuf) /\ Once(G) /\ \A x : In(x, G) <=> x = given /\ given # NULL
    BY MaybeOnce DEF QueueType
  <2>2. Line = ((queue \o rxq) \o C) \o G
    BY DEF Line
  <2> HIDE DEF C, G
  <2>3. /\ queue \o rxq \in Seq(Lbuf) /\ Once(queue \o rxq)
        /\ \A x : In(x, queue \o rxq) <=> In(x, queue) \/ In(x, rxq)
    BY ConcatOnce DEF QueueType, OwnerInv
  <2>4. /\ (queue \o rxq) \o C \in Seq(Lbuf) /\ Once((queue \o rxq) \o C)
        /\ \A x : In(x, (queue \o rxq) \o C) <=> In(x, queue \o rxq) \/ In(x, C)
    <3>1. \A x \in Lbuf : ~(In(x, queue \o rxq) /\ In(x, C))
      BY <2>1, <2>3 DEF OwnerInv
    <3> QED
      BY <2>1, <2>3, <3>1, ConcatOnce
  <2>5. /\ Once(Line) /\ \A x : In(x, Line) <=> In(x, (queue \o rxq) \o C) \/ In(x, G)
    <3>1. \A x \in Lbuf : ~(In(x, (queue \o rxq) \o C) /\ In(x, G))
      BY <2>1, <2>3, <2>4 DEF OwnerInv
    <3> QED
      BY <2>1, <2>2, <2>4, <3>1, ConcatOnce
  <2>6. \A k \in DOMAIN Line : Line[k] \notin lost
    <3>1. ASSUME NEW x, In(x, Line) PROVE x \notin lost
      <4>1. In(x, queue) \/ In(x, rxq) \/ (x = cur /\ cur # NULL)
            \/ (x = given /\ given # NULL)
        BY <2>1, <2>3, <2>4, <2>5, <3>1
      <4> QED
        BY <4>1 DEF OwnerInv
    <3>2. ASSUME NEW k \in DOMAIN Line PROVE In(Line[k], Line)
      BY DEF In
    <3> QED
      BY <3>1, <3>2
  <2> QED
    BY <2>5, <2>6 DEF OneOwner, Once, OffsetInv
<1> QED
  BY <1>1, XInvariant, PTL

(* Between two callbacks of xenbus the frontend has been told the state, or *)
(* a fatal error, or the hotplug script is awaited.                         *)
THEOREM FrontendTold == Spec => []Told
<1>1. XInv => Told
  BY DEF XInv, ConnInv, WalkInv, ToldInv, Told
<1> QED
  BY <1>1, XInvariant, PTL
=============================================================================
