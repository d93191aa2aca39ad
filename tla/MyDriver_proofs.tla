--------------------------- MODULE MyDriver_proofs ---------------------------
(***************************************************************************)
(* The configuration of the PHY over MDIO, inside the life of my_driver:   *)
(* for tables of any length, the PHY gets every transaction once and in    *)
(* order, and the driver never sleeps for an interrupt that will not come. *)
(* Then the two pages: the work keeps in step with the card, which tells   *)
(* only that it closed a page, until the driver is removed.                *)
(***************************************************************************)
EXTENDS MyDriver, FiniteSetTheorems, TLAPS

MdioType ==
  /\ confAt \in {"off", "clear", "write", "sleep", "done", "failed"}
  /\ turn \in Nat /\ timeout \in Nat /\ wire \in Nat /\ hostData \in Nat
  /\ rdy \in BOOLEAN /\ access \in BOOLEAN /\ done \in BOOLEAN /\ irq \in BOOLEAN
  /\ hostFsm \in {"s7", "s8", "s10"} /\ intFsm \in {"s0", "s1", "s2"}
  /\ phy \in Seq(Nat)

(* What the PHY got is a beginning of the tables. *)
InOrder == \A k \in DOMAIN phy : phy[k] = k - 1

(* Where the transaction of this turn is in the card. *)
Idle   == wire = None /\ ~access /\ hostFsm = "s7"
OnWire == wire = turn /\ turn # None /\ ~access /\ hostFsm = "s7"
Taken  == wire = None /\ access /\ hostFsm = "s7" /\ hostData = turn
Ready  == wire = None /\ ~access /\ hostFsm = "s8" /\ hostData = turn
Under  == wire = None /\ ~access /\ hostFsm = "s10"
Coming == OnWire \/ Taken \/ Ready

(* Of an earlier transaction, at most the end of its pulse is to come. *)
Calm == ~irq /\ intFsm # "s1" /\ (done => intFsm = "s2")

(* While the driver sleeps the transaction comes, is under way, or was     *)
(* given to the PHY and its interrupt is somewhere between host_int_fsm    *)
(* and the flag.                                                           *)
Asleep ==
  \/ Coming /\ Calm /\ ~rdy /\ Len(phy) = turn
  \/ /\ Len(phy) = turn + 1
     /\ \/ Under /\ Calm /\ ~done /\ ~rdy
        \/ Idle /\ done /\ intFsm = "s0" /\ ~irq /\ ~rdy
        \/ Idle /\ intFsm = "s1" /\ ~irq /\ ~rdy
        \/ Idle /\ intFsm # "s1" /\ (done => intFsm = "s2") /\ irq /\ ~rdy
        \/ Idle /\ Calm /\ rdy

(* Ready has no pulse left of its own. *)
ReadyLow == hostFsm = "s8" => ~done

ConfInv ==
  /\ confAt = "off" => Idle /\ Calm /\ turn = 0 /\ Len(phy) = 0
  /\ confAt \in {"clear", "write"} => Idle /\ Calm /\ Len(phy) = turn
  /\ confAt = "write" => ~rdy
  /\ confAt = "sleep" => Asleep
  /\ confAt = "done" => Idle /\ Len(phy) = Transactions
  /\ confAt = "failed" => (Coming /\ Len(phy) = turn) \/ Under \/ Idle
  /\ confAt \in {"clear", "write", "sleep"} => turn < Transactions

(* Until the configuration is over, no interrupt is for a page and nobody  *)
(* but mdio_access_interrupt_handler takes one.                            *)
EarlyAt == {"data", "queue", "device", "regions", "bar2", "bar0", "msi", "mdio",
            "unwind"}

Early ==
  /\ confAt \in {"off", "clear", "write", "sleep"} =>
       /\ fillable = {} /\ ~spin /\ ~pending /\ running = 0
       /\ "card" \notin held
  /\ confAt = "off" => handler = "none" /\ at \in EarlyAt
  /\ confAt \in {"clear", "write", "sleep"} => handler = "mdio" /\ at = "conf"

MdioInv == MdioType /\ InOrder /\ ReadyLow /\ ConfInv /\ Early

-----------------------------------------------------------------------------
LEMMA TransactionsNat == Transactions \in Nat /\ Transactions > 0
BY MdioAssumption DEF Transactions

(* The steps of the card. *)
LEMMA HostStep ==
  ASSUME MdioInv, Host
  PROVE  MdioType' /\ InOrder' /\ ReadyLow' /\ ConfInv'
<1> USE TransactionsNat DEF MdioInv, None
<1>1. CASE HostReceive
  BY <1>1 DEF HostReceive, MdioType, InOrder, ReadyLow, ConfInv, Asleep, Coming,
              Idle, OnWire, Taken, Ready, Under, Calm, confVars
<1>2. CASE HostTake
  BY <1>2 DEF HostTake, MdioType, InOrder, ReadyLow, ConfInv, Asleep, Coming,
              Idle, OnWire, Taken, Ready, Under, Calm, confVars
<1>3. CASE HostStart
  <2>1. /\ hostData \in Nat /\ phy \in Seq(Nat)
        /\ phy' = Append(phy, hostData) /\ hostFsm = "s8" /\ hostFsm' = "s10"
        /\ UNCHANGED <<confVars, rdy, wire, hostData, access, done, intFsm, irq>>
    BY <1>3 DEF HostStart, MdioType
  <2>2. /\ phy' \in Seq(Nat) /\ Len(phy') = Len(phy) + 1 /\ Len(phy) \in Nat
        /\ DOMAIN phy = 1..Len(phy) /\ DOMAIN phy' = 1..Len(phy) + 1
        /\ \A k \in 1..Len(phy) : phy'[k] = phy[k]
        /\ phy'[Len(phy) + 1] = hostData
    BY <2>1
  <2>3. Ready /\ Len(phy) = turn
    BY <2>1 DEF ConfInv, Asleep, Coming, Idle, OnWire, Taken, Ready, Under,
                MdioType
  <2>4. InOrder'
    BY <2>2, <2>3, <2>1 DEF InOrder, Ready, MdioType
  <2>5. MdioType' /\ ReadyLow'
    BY <2>1, <2>2 DEF MdioType, ReadyLow, confVars
  <2>6. ConfInv'
    BY <2>1, <2>2, <2>3 DEF MdioType, ReadyLow, ConfInv, Asleep, Coming, Idle,
       OnWire, Taken, Ready, Under, Calm, confVars
  <2> QED
    BY <2>4, <2>5, <2>6
<1>4. CASE HostDone
  BY <1>4 DEF HostDone, MdioType, InOrder, ReadyLow, ConfInv, Asleep, Coming,
              Idle, OnWire, Taken, Ready, Under, Calm, confVars
<1>5. CASE HostFall
  BY <1>5 DEF HostFall, MdioType, InOrder, ReadyLow, ConfInv, Asleep, Coming,
              Idle, OnWire, Taken, Ready, Under, Calm, confVars
<1>6. CASE IntStep
  <2>1. UNCHANGED <<confVars, rdy, wire, hostFsm, hostData, access, done, phy>>
    BY <1>6 DEF IntStep
  <2>2. CASE intFsm = "s0" /\ done /\ intFsm' = "s1" /\ UNCHANGED irq
    BY <2>1, <2>2 DEF MdioType, InOrder, ReadyLow, ConfInv, Asleep, Coming, Idle,
       OnWire, Taken, Ready, Under, Calm, confVars
  <2>3. CASE intFsm = "s1" /\ ~irq /\ intFsm' = "s2" /\ irq' = TRUE
    BY <2>1, <2>3 DEF MdioType, InOrder, ReadyLow, ConfInv, Asleep, Coming, Idle,
       OnWire, Taken, Ready, Under, Calm, confVars
  <2>4. CASE intFsm = "s2" /\ ~done /\ intFsm' = "s0" /\ UNCHANGED irq
    BY <2>1, <2>4 DEF MdioType, InOrder, ReadyLow, ConfInv, Asleep, Coming, Idle,
       OnWire, Taken, Ready, Under, Calm, confVars
  <2> QED
    BY <1>6, <2>2, <2>3, <2>4 DEF IntStep
<1> QED
  BY <1>1, <1>2, <1>3, <1>4, <1>5, <1>6 DEF Host

(* The steps of the driver, and of its interrupt handler. *)
LEMMA ConfStep ==
  ASSUME MdioInv, Conf \/ MdioInterrupt
  PROVE  MdioType' /\ InOrder' /\ ReadyLow' /\ ConfInv'
<1> USE TransactionsNat DEF MdioInv, None
<1>1. CASE ConfClear
  BY <1>1 DEF ConfClear, MdioType, InOrder, ReadyLow, ConfInv, Idle, Calm, hostVars
<1>2. CASE ConfWrite
  BY <1>2 DEF ConfWrite, MdioType, InOrder, ReadyLow, ConfInv, Asleep, Coming,
              Idle, OnWire, Calm, hostVars
<1>3. CASE ConfSleep
  BY <1>3 DEF ConfSleep, MdioType, InOrder, ReadyLow, ConfInv, Asleep, Coming,
              Idle, OnWire, Taken, Ready, Under, Calm, hostVars
<1>4. CASE MdioInterrupt
  BY <1>4 DEF MdioInterrupt, MdioType, InOrder, ReadyLow, ConfInv, Asleep, Coming,
              Idle, OnWire, Taken, Ready, Under, Calm, confVars, hostVars, Early
<1> QED
  BY <1>1, <1>2, <1>3, <1>4 DEF Conf

-----------------------------------------------------------------------------
(* The steps of the life cycle and of reception. *)
LEMMA LifeFrame ==
  ASSUME MdioInv, Early',
         UNCHANGED <<confVars, rdy, wire, hostVars, phy>>,
         irq' \in BOOLEAN,
         confAt \in {"off", "clear", "write", "sleep"} => irq' = irq
  PROVE  MdioInv'
BY TransactionsNat DEF MdioInv, None, MdioType, InOrder, ReadyLow, ConfInv, Asleep,
   Coming, Idle, OnWire, Taken, Ready, Under, Calm, confVars, hostVars

LEMMA ProbeStep ==
  ASSUME MdioInv, MyProbe
  PROVE  MdioInv'
<1> USE DEF MdioInv
<1>1. CASE MyProbeGets
  <2>1. at \in DOMAIN NextOf /\ at' = NextOf[at] /\ held' = held \cup {at}
    BY <1>1 DEF MyProbeGets
  <2>2. at \in {"data", "queue", "device", "regions", "bar2", "bar0", "msi",
               "page1", "page2", "netdev"}
    BY <2>1 DEF NextOf
  <2>3. at \in EarlyAt => at' \in EarlyAt /\ at # "card"
    BY <2>1, <2>2 DEF NextOf, EarlyAt
  <2>4. at # "conf" /\ at # "card"
    BY <2>2
  <2>5. UNCHANGED <<mdioVars, cardVars, rxWorkVars>>
    BY <1>1 DEF MyProbeGets
  <2>6. Early'
    BY <2>1, <2>3, <2>4, <2>5 DEF Early, mdioVars, confVars, cardVars, rxWorkVars
  <2> QED
    BY <2>5, <2>6, LifeFrame DEF mdioVars, MdioType
<1>2. CASE MyProbeFails
  <2>1. at # "conf" /\ at' = "unwind"
    BY <1>2 DEF MyProbeFails, NextOf
  <2>2. UNCHANGED <<mdioVars, held, cardVars, rxWorkVars>>
    BY <1>2 DEF MyProbeFails
  <2>3. Early'
    BY <2>1, <2>2 DEF Early, EarlyAt, mdioVars, confVars, cardVars, rxWorkVars
  <2> QED
    BY <2>2, <2>3, LifeFrame DEF mdioVars, MdioType
<1>3. CASE MyProbeMdio
  BY <1>3, TransactionsNat DEF MyProbeMdio, ConfStart, MdioType, InOrder, ReadyLow,
     ConfInv, Idle, Calm, Early, EarlyAt, None, hostVars, cardVars, rxWorkVars
<1>4. CASE MyProbeConfigured
  <2>1. Early'
    BY <1>4 DEF MyProbeConfigured, Early, confVars
  <2> QED
    BY <1>4, <2>1, LifeFrame DEF MyProbeConfigured, MdioType
<1>5. CASE MyProbeCard
  <2>1. Early'
    BY <1>5 DEF MyProbeCard, Early, EarlyAt, confVars
  <2> QED
    BY <1>5, <2>1, LifeFrame DEF MyProbeCard, MdioType
<1>6. CASE MyProbePost
  <2>1. Early'
    BY <1>6 DEF MyProbePost, Early, EarlyAt, mdioVars, confVars
  <2> QED
    BY <1>6, <2>1, LifeFrame DEF MyProbePost, mdioVars, MdioType
<1> QED
  BY <1>1, <1>2, <1>3, <1>4, <1>5, <1>6 DEF MyProbe

LEMMA LifeStep ==
  ASSUME MdioInv, MyRemove \/ Release
  PROVE  MdioInv'
<1> USE DEF MdioInv
<1>1. CASE MyRemove
  <2>1. Early'
    BY <1>1 DEF MyRemove, Early, EarlyAt, mdioVars, confVars, cardVars, rxWorkVars
  <2> QED
    BY <1>1, <2>1, LifeFrame DEF MyRemove, mdioVars, MdioType
<1>2. CASE Release
  <2>1. PICK r : Drop(r)
    BY <1>2 DEF Release
  <2>2. at \in {"unwind", "remove"}
    BY <1>2 DEF Release
  <2>3. Early'
    BY <2>1, <2>2 DEF Drop, Early, EarlyAt, confVars, cardVars, rxWorkVars
  <2> QED
    BY <2>1, <2>3, LifeFrame DEF Drop, MdioType
<1> QED
  BY <1>1, <1>2

LEMMA CardStep ==
  ASSUME MdioInv,
         IrqLost \/ CardCloses \/ HandlerStarts \/ HandlerQueues \/ WorkStarts
         \/ WorkEnds
  PROVE  MdioInv'
<1> USE DEF MdioInv
<1>1. CASE IrqLost
  <2>1. Early'
    BY <1>1 DEF IrqLost, Early, confVars, rxWorkVars
  <2>2. confAt \in {"off", "clear", "write", "sleep"} => irq' = irq
    BY <1>1 DEF IrqLost, Early, ConfInv, Calm
  <2> QED
    BY <1>1, <2>1, <2>2, LifeFrame DEF IrqLost, MdioType
<1>2. CASE CardCloses
  <2>1. Early' /\ confAt \in {"done", "failed"}
    BY <1>2 DEF CardCloses, Early, confVars, MdioType
  <2> QED
    BY <1>2, <2>1, LifeFrame DEF CardCloses, MdioType
<1>3. CASE HandlerStarts
  <2>1. Early' /\ confAt \in {"done", "failed"}
    BY <1>3 DEF HandlerStarts, Early, confVars, MdioType
  <2> QED
    BY <1>3, <2>1, LifeFrame DEF HandlerStarts, MdioType
<1>4. CASE HandlerQueues
  <2>1. Early'
    BY <1>4 DEF HandlerQueues, Early, mdioVars, confVars, cardVars
  <2> QED
    BY <1>4, <2>1, LifeFrame DEF HandlerQueues, mdioVars, MdioType
<1>5. CASE WorkStarts
  <2>1. Early'
    BY <1>5 DEF WorkStarts, Early, mdioVars, confVars, cardVars
  <2> QED
    BY <1>5, <2>1, LifeFrame DEF WorkStarts, mdioVars, MdioType
<1>6. CASE WorkEnds
  <2>1. Early'
    BY <1>6 DEF WorkEnds, Early, mdioVars, confVars
  <2> QED
    BY <1>6, <2>1, LifeFrame DEF WorkEnds, mdioVars, MdioType
<1> QED
  BY <1>1, <1>2, <1>3, <1>4, <1>5, <1>6

(* The steps of Mdio leave the life cycle alone. *)
LEMMA MdioStep ==
  ASSUME MdioInv, MyConf \/ MyMdioInterrupt \/ MyHost
  PROVE  MdioInv'
<1>1. MdioType' /\ InOrder' /\ ReadyLow' /\ ConfInv'
  BY ConfStep, HostStep DEF MyConf, MyMdioInterrupt, MyHost
<1>2. UNCHANGED <<at, held, cardVars, rxWorkVars, handler>>
  BY DEF MyConf, MyMdioInterrupt, MyHost, Conf, ConfClear, ConfWrite, ConfSleep,
     MdioInterrupt, Host, HostReceive, HostTake, HostStart, HostDone, HostFall,
     IntStep
<1>3. /\ confAt = "off" => confAt' = "off"
      /\ confAt' \in {"off", "clear", "write", "sleep"} =>
           (confAt = "off" <=> confAt' = "off") /\
           confAt \in {"off", "clear", "write", "sleep"}
  BY DEF MyConf, MyMdioInterrupt, MyHost, Conf, ConfClear, ConfWrite, ConfSleep,
     MdioInterrupt, Host, HostReceive, HostTake, HostStart, HostDone, HostFall,
     IntStep, confVars
<1>4. Early'
  BY <1>2, <1>3 DEF MdioInv, Early, cardVars, rxWorkVars
<1> QED
  BY <1>1, <1>4 DEF MdioInv

LEMMA MdioInvariant == MySpec => []MdioInv
<1>1. MyInit => MdioInv
  <2> SUFFICES ASSUME MyInit PROVE MdioInv
    OBVIOUS
  <2>1. phy = <<>> /\ Len(phy) = 0 /\ DOMAIN phy = {} /\ phy \in Seq(Nat)
    BY DEF MyInit, MdioInit
  <2> QED
    BY <2>1, TransactionsNat DEF MyInit, MdioInit, MdioInv, MdioType, InOrder,
       ReadyLow, ConfInv, Idle, Calm, Early, EarlyAt, None
<1>2. MdioInv /\ [MyNext]_myVars => MdioInv'
  <2> SUFFICES ASSUME MdioInv, [MyNext]_myVars PROVE MdioInv'
    OBVIOUS
  <2>1. CASE MyNext
    BY <2>1, ProbeStep, LifeStep, CardStep, MdioStep DEF MyNext
  <2>2. CASE UNCHANGED myVars
    <3>1. Early'
      BY <2>2 DEF myVars, mdioVars, confVars, cardVars, rxWorkVars, MdioInv, Early
    <3> QED
      BY <2>2, <3>1, LifeFrame DEF myVars, mdioVars, MdioInv, MdioType
  <2> QED
    BY <2>1, <2>2
<1> QED
  BY <1>1, <1>2, PTL DEF MySpec

(* The PHY gets the transactions of the tables in order, each once, and    *)
(* all of them before the configuration is over (ael2005_conf.c:43-144).   *)
THEOREM PhyGetsAll == MySpec => []PhyExact
<1>1. MdioInv => PhyExact
  BY DEF MdioInv, InOrder, ConfInv, PhyExact
<1> QED
  BY <1>1, MdioInvariant, PTL

(* The driver never sleeps for an interrupt that will not come, though it  *)
(* sleeps without a limit after the first registers.                       *)
THEOREM NeverAsleepForNothing == MySpec => []Awaited
<1>1. MdioInv => Awaited
  BY DEF MdioInv, MdioType, ConfInv, Asleep, Coming, Idle, OnWire, Taken, Ready,
     Under, Calm, Awaited
<1> QED
  BY <1>1, MdioInvariant, PTL
-----------------------------------------------------------------------------
(* The life of the driver, and the turns of its two pages. *)
RxType ==
  /\ fillable \subseteq Page /\ closed \subseteq Page /\ cardTurn \in Page
  /\ pageIrq \in BOOLEAN /\ spin \in BOOLEAN /\ pending \in BOOLEAN
  /\ running \in {0} \cup Page /\ index \in Page /\ stray \in BOOLEAN

(* What my_pcie_probe has acquired by the time it asks for the next thing,  *)
(* and what my_pcie_remove has not given up yet while the queue is there.   *)
GotPages == {"post", "up"}
GotQueue == {"device", "regions", "bar2", "bar0", "msi", "mdio", "conf", "card",
             "page1", "page2", "netdev"} \cup GotPages
RxNeeds  == {"data", "queue", "page1", "page2"}

HeldInv ==
  /\ at \in {"data", "queue", "unwind", "remove"} \cup GotQueue
  /\ at = "queue" => "data" \in held
  /\ at \in GotQueue => {"data", "queue"} \subseteq held
  /\ at \in {"page2", "netdev"} => "page1" \in held
  /\ at = "netdev" => "page2" \in held
  /\ at \in GotPages => RxNeeds \subseteq held
  /\ at = "remove" =>
       /\ "card" \in held => "queue" \in held
       /\ "queue" \in held => RxNeeds \subseteq held
  /\ at \in {"page1", "page2", "netdev", "post", "up"} => "card" \in held
  /\ "card" \in held <=> handler = "card"
  /\ handler = "mdio" <=> at = "conf"

(* Before the pages are posted, and when the probe is unwound, the card has *)
(* none; then a page is the card's or the work's.                           *)
PagesInv ==
  /\ at \notin {"up", "remove"} =>
       /\ fillable = {} /\ closed = {} /\ ~pageIrq
       /\ ~spin /\ ~pending /\ running = 0 /\ index = cardTurn
  /\ at \in {"up", "remove"} => fillable = Page \ closed
  /\ pageIrq => irq

(* The last interrupt of a configuration that succeeded was handled.        *)
QuietInv ==
  /\ confAt = "done" =>
       /\ intFsm # "s1" /\ (done => intFsm = "s2")
       /\ irq => pageIrq
  /\ confAt # "failed" => ~stray
  /\ confAt \in {"off", "clear", "write", "sleep"} => "card" \notin held

(* The requests for a page of which the work has not taken one. *)
Asked == Count(pageIrq) + Count(spin) + Count(pending)

(* The work takes the pages in the order in which the card closed them.     *)
TurnsInv ==
  \/ closed = {} /\ running = 0 /\ Asked = 0 /\ index = cardTurn
  \/ /\ closed = {Other(cardTurn)}
     /\ \/ running = Other(cardTurn) /\ Asked = 0 /\ index = cardTurn
        \/ running = 0 /\ Asked = 1 /\ index = Other(cardTurn)
  \/ /\ closed = Page
     /\ \/ running = cardTurn /\ Asked = 1 /\ index = Other(cardTurn)
        \/ running = 0 /\ Asked = 2 /\ index = cardTurn

(* With the vector released an interrupt is lost, and the page with it; the *)
(* work that runs and the work that was queued have pages of their own.     *)
DrainInv ==
  /\ running # 0 => running \in closed
  /\ pending => index \in closed /\ index # running
  /\ running # 0 \/ pending => "queue" \in held

LifeInv ==
  /\ RxType /\ HeldInv /\ QuietInv
  /\ ~stray => PagesInv /\ DrainInv /\ (handler = "card" => TurnsInv)
  /\ handler # "card" => ~spin

(* What my_pcie_remove releases first. *)
LEMMA FirstReleased ==
  ASSUME "card" \in held \/ "queue" \in held
  PROVE  FirstHeld(RemoveOrder) =
           IF "card" \in held THEN "card" ELSE "queue"
<1> DEFINE P(i) == /\ RemoveOrder[i] \in held
                   /\ \A j \in 1..i - 1 : RemoveOrder[j] \notin held
           k == IF "card" \in held THEN 1 ELSE 2
<1>1. /\ DOMAIN RemoveOrder = 1..11
      /\ RemoveOrder[1] = "card" /\ RemoveOrder[2] = "queue"
  BY DEF RemoveOrder
<1>2. k \in DOMAIN RemoveOrder /\ P(k)
  BY <1>1
<1>3. \A i \in DOMAIN RemoveOrder : P(i) => i = k
  BY <1>1
<1>4. FirstHeld(RemoveOrder) = RemoveOrder[CHOOSE i \in DOMAIN RemoveOrder : P(i)]
  BY DEF FirstHeld
<1>5. (CHOOSE i \in DOMAIN RemoveOrder : P(i)) = k
  BY <1>2, <1>3
<1> QED
  BY <1>1, <1>4, <1>5

(* The configuration, and the card's side of it. *)
LEMMA MdioLife ==
  ASSUME MdioInv, LifeInv, MyConf \/ MyMdioInterrupt \/ MyHost
  PROVE  LifeInv'
<1> USE DEF MdioInv, LifeInv
<1>1. UNCHANGED <<at, held, cardVars, rxWorkVars, handler>>
  BY DEF MyConf, MyMdioInterrupt, MyHost, Conf, ConfClear, ConfWrite, ConfSleep,
     MdioInterrupt, Host, HostReceive, HostTake, HostStart, HostDone, HostFall,
     IntStep
<1>2. RxType' /\ HeldInv' /\ DrainInv' = DrainInv /\ TurnsInv' = TurnsInv
  BY <1>1 DEF cardVars, rxWorkVars, RxType, HeldInv, DrainInv, TurnsInv, Asked, Count
<1>3. irq' # irq /\ ~irq' => handler = "mdio"
  BY DEF MyConf, MyMdioInterrupt, MyHost, Conf, ConfClear, ConfWrite, ConfSleep,
     MdioInterrupt, Host, HostReceive, HostTake, HostStart, HostDone, HostFall,
     IntStep
<1>4. irq' \in BOOLEAN /\ irq \in BOOLEAN
  BY ConfStep, HostStep DEF MyConf, MyMdioInterrupt, MyHost, MdioType
<1>5. ~stray => PagesInv'
  BY <1>1, <1>3, <1>4 DEF cardVars, rxWorkVars, PagesInv, HeldInv
<1>6. QuietInv'
  <2>1. CASE MyConf
    BY <1>1, <2>1 DEF cardVars, rxWorkVars, QuietInv, MyConf, Conf, ConfClear,
       ConfWrite, ConfSleep, ConfInv, Asleep, Coming, Idle, OnWire, Taken, Ready,
       Under, Calm, hostVars, MdioType
  <2>2. CASE MyMdioInterrupt
    BY <1>1, <2>2 DEF cardVars, rxWorkVars, QuietInv, MyMdioInterrupt,
       MdioInterrupt, confVars, hostVars
  <2>3. CASE MyHost
    <3>1. UNCHANGED <<confAt, pageIrq, stray, held>> /\ Host
      BY <1>1, <2>3 DEF cardVars, rxWorkVars, MyHost, Host, HostReceive, HostTake,
         HostStart, HostDone, HostFall, IntStep, confVars
    <3>2. CASE confAt = "done"
      <4>1. Idle /\ intFsm # "s1" /\ (done => intFsm = "s2") /\ (irq => pageIrq)
        BY <3>2 DEF ConfInv, QuietInv
      <4>2. HostFall \/ IntStep
        BY <3>1, <4>1 DEF Host, Idle, HostReceive, HostTake, HostStart, HostDone
      <4>3. intFsm' # "s1" /\ (done' => intFsm' = "s2") /\ UNCHANGED irq
        BY <4>1, <4>2 DEF HostFall, IntStep
      <4> QED
        BY <3>1, <3>2, <4>1, <4>3 DEF QuietInv
    <3> QED
      BY <3>1, <3>2 DEF QuietInv
  <2> QED
    BY <2>1, <2>2, <2>3
<1> QED
  BY <1>1, <1>2, <1>5, <1>6 DEF rxWorkVars

LEMMA ProbeLife ==
  ASSUME MdioInv, LifeInv, MyProbe \/ MyRemove
  PROVE  LifeInv'
<1> USE DEF MdioInv, LifeInv
<1>1. CASE MyProbeGets
  <2>1. /\ at \in DOMAIN NextOf /\ at' = NextOf[at] /\ held' = held \cup {at}
        /\ UNCHANGED <<mdioVars, cardVars, rxWorkVars>>
    BY <1>1 DEF MyProbeGets
  <2>2. at \in {"data", "queue", "device", "regions", "bar2", "bar0", "msi",
               "page1", "page2", "netdev"}
    BY <2>1 DEF NextOf
  <2>3. HeldInv' /\ at \notin {"up", "remove"} /\ at' \notin {"up", "remove"}
    BY <2>1, <2>2 DEF HeldInv, GotQueue, GotPages, RxNeeds, mdioVars, NextOf
  <2> QED
    BY <2>1, <2>2, <2>3 DEF RxType, QuietInv, PagesInv, DrainInv, TurnsInv, Asked,
       Count, mdioVars, confVars, hostVars, cardVars, rxWorkVars
<1>2. CASE MyProbeFails
  <2>1. /\ at \notin {"up", "remove"} /\ at' = "unwind"
        /\ UNCHANGED <<mdioVars, held, cardVars, rxWorkVars>>
    BY <1>2 DEF MyProbeFails, NextOf
  <2>2. at # "conf"
    BY <1>2 DEF MyProbeFails, NextOf
  <2>3. HeldInv'
    BY <2>1, <2>2 DEF HeldInv, GotQueue, GotPages, RxNeeds, mdioVars
  <2> QED
    BY <2>1, <2>3 DEF RxType, QuietInv, PagesInv, DrainInv, TurnsInv, Asked,
       Count, mdioVars, confVars, hostVars, cardVars, rxWorkVars
<1>3. CASE MyProbeMdio
  <2>1. /\ at = "mdio" /\ at' = "conf" /\ handler' = "mdio" /\ confAt = "off"
        /\ confAt' = "clear"
        /\ UNCHANGED <<wire, hostVars, irq, phy, held, cardVars, rxWorkVars>>
    BY <1>3 DEF MyProbeMdio, ConfStart
  <2>2. "card" \notin held /\ handler = "none"
    BY <2>1 DEF QuietInv, Early
  <2>3. HeldInv'
    BY <2>1, <2>2 DEF HeldInv, GotQueue, GotPages, RxNeeds
  <2> QED
    BY <2>1, <2>2, <2>3 DEF RxType, QuietInv, PagesInv, DrainInv, TurnsInv, Asked,
       Count, hostVars, cardVars, rxWorkVars
<1>4. CASE MyProbeConfigured
  <2>1. /\ at = "conf" /\ at' = "card" /\ handler' = "none"
        /\ confAt \in {"done", "failed"}
        /\ UNCHANGED <<confVars, wire, hostVars, irq, phy, held, cardVars, rxWorkVars>>
    BY <1>4 DEF MyProbeConfigured
  <2>2. handler # "card"
    BY <1>4 DEF MyProbeConfigured, HeldInv
  <2>3. HeldInv'
    BY <2>1, <2>2 DEF HeldInv, GotQueue, GotPages, RxNeeds
  <2> QED
    BY <2>1, <2>2, <2>3 DEF RxType, QuietInv, PagesInv, DrainInv, TurnsInv, Asked,
       Count, confVars, hostVars, cardVars, rxWorkVars
<1>5. CASE MyProbeCard
  <2>1. /\ at = "card" /\ at' = "page1" /\ handler' = "card"
        /\ held' = held \cup {"card"}
        /\ UNCHANGED <<confVars, wire, hostVars, irq, phy, cardVars, rxWorkVars>>
    BY <1>5 DEF MyProbeCard
  <2>2. confAt \in {"done", "failed"}
    BY <2>1 DEF Early, MdioType, EarlyAt
  <2>3. HeldInv'
    BY <2>1 DEF HeldInv, GotQueue, GotPages, RxNeeds
  <2>4. RxType' /\ QuietInv'
    BY <2>1, <2>2 DEF RxType, QuietInv, confVars, hostVars, cardVars, rxWorkVars
  <2>5. ~stray => PagesInv' /\ DrainInv'
    BY <2>1 DEF PagesInv, DrainInv, cardVars, rxWorkVars
  <2>6. ~stray => TurnsInv'
    BY <2>1 DEF PagesInv, TurnsInv, Asked, Count, cardVars, rxWorkVars
  <2> QED
    BY <2>1, <2>3, <2>4, <2>5, <2>6 DEF rxWorkVars
<1>6. CASE MyProbePost
  <2>1. /\ at = "post" /\ at' = "up" /\ fillable' = Page
        /\ UNCHANGED <<mdioVars, held, closed, cardTurn, pageIrq, rxWorkVars>>
    BY <1>6 DEF MyProbePost
  <2>2. HeldInv'
    BY <2>1 DEF HeldInv, GotQueue, GotPages, RxNeeds, mdioVars
  <2> QED
    BY <2>1, <2>2 DEF RxType, QuietInv, PagesInv, DrainInv, TurnsInv, Asked,
       Count, mdioVars, confVars, hostVars, rxWorkVars
<1>7. CASE MyRemove
  <2>1. /\ at = "up" /\ at' = "remove"
        /\ UNCHANGED <<mdioVars, held, cardVars, rxWorkVars>>
    BY <1>7 DEF MyRemove
  <2>2. HeldInv'
    BY <2>1 DEF HeldInv, GotQueue, GotPages, RxNeeds, mdioVars
  <2> QED
    BY <2>1, <2>2 DEF RxType, QuietInv, PagesInv, DrainInv, TurnsInv, Asked,
       Count, mdioVars, confVars, hostVars, cardVars, rxWorkVars
<1> QED
  BY <1>1, <1>2, <1>3, <1>4, <1>5, <1>6, <1>7 DEF MyProbe

LEMMA ReleaseLife ==
  ASSUME MdioInv, LifeInv, Release
  PROVE  LifeInv'
<1> USE DEF MdioInv, LifeInv
<1> DEFINE r == FirstHeld(IF at = "unwind" THEN UnwindOrder ELSE RemoveOrder)
<1>1. /\ at \in {"unwind", "remove"} /\ Drop(r)
      /\ r = "card" => ~spin
      /\ r = "queue" => ~pending /\ running = 0
  BY DEF Release
<1>2. at = "remove" /\ ("card" \in held \/ "queue" \in held) =>
        r = IF "card" \in held THEN "card" ELSE "queue"
  BY FirstReleased
<1> HIDE DEF r
<1>3. /\ held' = held \ {r} /\ handler' = IF r = "card" THEN "none" ELSE handler
      /\ UNCHANGED <<confVars, rdy, wire, hostVars, irq, phy, at, cardVars, rxWorkVars>>
  BY <1>1 DEF Drop
<1>4. RxType' /\ QuietInv'
  BY <1>3 DEF RxType, QuietInv, confVars, hostVars, cardVars, rxWorkVars
<1>5. HeldInv'
  BY <1>1, <1>2, <1>3 DEF HeldInv, GotQueue, GotPages, RxNeeds
<1>6. ~stray => PagesInv' /\ (handler' = "card" => TurnsInv')
  BY <1>3 DEF PagesInv, TurnsInv, Asked, Count, cardVars, rxWorkVars
<1>7. ~stray => DrainInv'
  BY <1>1, <1>3 DEF DrainInv, cardVars, rxWorkVars
<1>8. handler' # "card" => ~spin'
  BY <1>1, <1>3 DEF rxWorkVars
<1> QED
  BY <1>3, <1>4, <1>5, <1>6, <1>7, <1>8 DEF rxWorkVars

LEMMA CardLife ==
  ASSUME MdioInv, LifeInv,
         IrqLost \/ CardCloses \/ HandlerStarts \/ HandlerQueues \/ WorkStarts
         \/ WorkEnds
  PROVE  LifeInv'
<1> USE DEF MdioInv, LifeInv
<1>1. CASE IrqLost
  <2>1. /\ handler = "none" /\ irq' = FALSE /\ pageIrq' = FALSE
        /\ UNCHANGED <<confVars, hostVars, handler, at, held, fillable, closed,
                       cardTurn, rxWorkVars>>
    BY <1>1 DEF IrqLost
  <2>2. RxType' /\ HeldInv' /\ QuietInv'
    BY <2>1 DEF RxType, HeldInv, QuietInv, confVars, hostVars, rxWorkVars
  <2>3. ~stray => PagesInv' /\ DrainInv'
    BY <2>1 DEF PagesInv, DrainInv, rxWorkVars
  <2> QED
    BY <2>1, <2>2, <2>3 DEF rxWorkVars
<1>2. CASE CardCloses
  <2>1. /\ cardTurn \in fillable /\ ~irq
        /\ fillable' = fillable \ {cardTurn} /\ closed' = closed \cup {cardTurn}
        /\ cardTurn' = Other(cardTurn) /\ irq' = TRUE /\ pageIrq' = TRUE
        /\ UNCHANGED <<confVars, hostVars, handler, at, held, rxWorkVars>>
    BY <1>2 DEF CardCloses
  <2>2. RxType' /\ HeldInv' /\ QuietInv'
    BY <2>1 DEF RxType, HeldInv, QuietInv, Other, Page, confVars, hostVars, rxWorkVars
  <2>3. ~stray => ~pageIrq /\ PagesInv' /\ DrainInv'
    BY <2>1 DEF PagesInv, DrainInv, rxWorkVars
  <2>4. ~stray => cardTurn \notin closed
    BY <2>1 DEF PagesInv
  <2>5. ~stray /\ handler = "card" => TurnsInv'
    <3> SUFFICES ASSUME ~stray, handler = "card" PROVE TurnsInv'
      OBVIOUS
    <3>1. Asked' = Asked + 1 /\ Asked \in Nat
      BY <2>1, <2>3 DEF Asked, Count, rxWorkVars
    <3>2. cardTurn \in {1, 2} /\ closed \subseteq {1, 2} /\ cardTurn \notin closed
      BY <2>4 DEF RxType, Page
    <3>3. CASE closed = {}
      <4>1. closed' = {Other(cardTurn')}
        BY <2>1, <3>2, <3>3 DEF Other
      <4> QED
        BY <2>1, <3>1, <3>2, <3>3, <4>1 DEF TurnsInv, Other, Page, rxWorkVars
    <3>4. CASE closed = {Other(cardTurn)}
      <4>1. closed' = Page
        BY <2>1, <3>2, <3>4 DEF Other, Page
      <4> QED
        BY <2>1, <3>1, <3>2, <3>4, <4>1 DEF TurnsInv, Other, Page, rxWorkVars
    <3> QED
      BY <3>2, <3>3, <3>4 DEF TurnsInv, Page
  <2> QED
    BY <2>1, <2>2, <2>3, <2>5 DEF rxWorkVars
<1>3. CASE HandlerStarts
  <2>1. /\ irq /\ handler = "card" /\ ~spin /\ irq' = FALSE /\ pageIrq' = FALSE
        /\ spin' = TRUE /\ stray' = (stray \/ ~pageIrq)
        /\ UNCHANGED <<confVars, hostVars, handler, at, held, fillable, closed,
                       cardTurn, pending, running, index>>
    BY <1>3 DEF HandlerStarts
  <2>2. RxType' /\ HeldInv'
    BY <2>1 DEF RxType, HeldInv
  <2>3. QuietInv'
    <3>1. confAt \in {"done", "failed"}
      BY <2>1 DEF QuietInv, HeldInv, Early, MdioType
    <3>2. confAt = "done" => ~stray'
      BY <2>1 DEF QuietInv
    <3> QED
      BY <2>1, <3>1, <3>2 DEF QuietInv, confVars, hostVars
  <2>4. ~stray' => pageIrq /\ ~stray
    BY <2>1
  <2>5. ~stray' => Asked' = Asked
    BY <2>1, <2>4 DEF RxType, Asked, Count
  <2>6. ~stray' => PagesInv' /\ DrainInv' /\ TurnsInv'
    BY <2>1, <2>4, <2>5 DEF PagesInv, DrainInv, TurnsInv
  <2> QED
    BY <2>1, <2>2, <2>3, <2>4, <2>6
<1>4. CASE HandlerQueues
  <2>1. /\ spin /\ ~pending /\ spin' = FALSE /\ pending' = TRUE /\ handler = "card"
        /\ UNCHANGED <<mdioVars, at, held, cardVars, running, index, stray>>
    BY <1>4 DEF HandlerQueues
  <2>2. RxType' /\ HeldInv' /\ QuietInv'
    <3>1. RxType'
      BY <2>1 DEF RxType, cardVars
    <3>2. HeldInv'
      BY <2>1 DEF HeldInv, mdioVars
    <3> QED
      BY <2>1, <3>1, <3>2 DEF QuietInv, mdioVars, confVars, hostVars, cardVars
  <2>3. ~stray => PagesInv'
    BY <2>1 DEF PagesInv, mdioVars, cardVars
  <2>4. Asked' = Asked
    BY <2>1 DEF Asked, Count, cardVars
  <2>5. ~stray => TurnsInv'
    BY <2>1, <2>4 DEF TurnsInv, mdioVars, cardVars
  <2>6. ~stray => index \in closed /\ index # running
    <3>1. Asked \in Nat /\ Asked > 0
      BY <2>1 DEF Asked, Count
    <3> QED
      BY <2>1, <3>1 DEF TurnsInv, RxType, Other, Page
  <2>7. ~stray => "queue" \in held
    BY <2>1 DEF HeldInv, PagesInv, RxNeeds, GotPages
  <2>8. ~stray => DrainInv'
    BY <2>1, <2>6, <2>7 DEF DrainInv, cardVars
  <2> QED
    BY <2>1, <2>2, <2>3, <2>5, <2>8 DEF mdioVars
<1>5. CASE WorkStarts
  <2>1. /\ pending /\ running = 0 /\ pending' = FALSE /\ running' = index
        /\ index' = Other(index)
        /\ UNCHANGED <<mdioVars, at, held, cardVars, spin, stray>>
    BY <1>5 DEF WorkStarts
  <2>2. RxType' /\ HeldInv' /\ QuietInv'
    <3>1. index' \in Page
      BY <2>1 DEF RxType, Other, Page
    <3>2. RxType'
      BY <2>1, <3>1 DEF RxType, cardVars
    <3>3. HeldInv'
      BY <2>1 DEF HeldInv, mdioVars
    <3> QED
      BY <2>1, <3>2, <3>3 DEF QuietInv, mdioVars, confVars, hostVars, cardVars
  <2>5. ~stray => PagesInv'
    BY <2>1 DEF PagesInv, mdioVars, cardVars
  <2>3. ~stray => DrainInv'
    BY <2>1 DEF DrainInv, cardVars
  <2>4. ~stray /\ handler = "card" => TurnsInv'
    <3>1. Asked' + 1 = Asked /\ Asked' \in Nat
      BY <2>1 DEF Asked, Count, cardVars
    <3> QED
      BY <2>1, <3>1 DEF TurnsInv, RxType, Other, Page, cardVars
  <2> QED
    BY <2>1, <2>2, <2>3, <2>4, <2>5 DEF mdioVars
<1>6. CASE WorkEnds
  <2>1. /\ running # 0 /\ running' = 0 /\ fillable' = fillable \cup {running}
        /\ closed' = closed \ {running}
        /\ UNCHANGED <<mdioVars, at, held, cardTurn, pageIrq, spin, pending, index,
                       stray>>
    BY <1>6 DEF WorkEnds
  <2>2. RxType' /\ HeldInv' /\ QuietInv' /\ Asked' = Asked
    BY <2>1 DEF RxType, HeldInv, QuietInv, Asked, Count, mdioVars, confVars, hostVars
  <2>3. ~stray => PagesInv'
    BY <2>1 DEF PagesInv, RxType, mdioVars
  <2>5. ~stray => DrainInv'
    BY <2>1 DEF DrainInv, RxType, Page
  <2>4. ~stray /\ handler = "card" => TurnsInv'
    BY <2>1, <2>2 DEF TurnsInv, RxType, Other, Page
  <2> QED
    BY <2>1, <2>2, <2>3, <2>4, <2>5 DEF mdioVars
<1> QED
  BY <1>1, <1>2, <1>3, <1>4, <1>5, <1>6

LEMMA LifeInvariant == MySpec => []LifeInv
<1>1. MyInit => LifeInv
  <2> SUFFICES ASSUME MyInit PROVE LifeInv
    OBVIOUS
  <2>1. HeldInv /\ handler # "card"
    BY DEF MyInit, MdioInit, HeldInv, GotQueue, GotPages, RxNeeds
  <2>2. RxType
    <3>1. 1 \in Page
      BY DEF Page
    <3> QED
      BY <3>1 DEF MyInit, RxType
  <2>3. QuietInv /\ PagesInv /\ DrainInv /\ ~spin
    BY DEF MyInit, MdioInit, PagesInv, QuietInv, DrainInv
  <2> QED
    BY <2>1, <2>2, <2>3 DEF LifeInv
<1>2. MdioInv /\ LifeInv /\ [MyNext]_myVars => LifeInv'
  <2> SUFFICES ASSUME MdioInv, LifeInv, [MyNext]_myVars PROVE LifeInv'
    OBVIOUS
  <2>1. CASE MyNext
    BY <2>1, MdioLife, ProbeLife, ReleaseLife, CardLife DEF MyNext
  <2>2. CASE UNCHANGED myVars
    BY <2>2 DEF myVars, mdioVars, confVars, hostVars, cardVars, rxWorkVars, LifeInv,
       RxType, HeldInv, PagesInv, QuietInv, TurnsInv, DrainInv, Asked, Count
  <2> QED
    BY <2>1, <2>2
<1> QED
  BY <1>1, <1>2, MdioInvariant, PTL DEF MySpec

(* The work runs on a page the card closed and of a driver that has all it  *)
(* needs, though the interrupt does not say which page it is for, unless an *)
(* interrupt of the configuration was taken for a page's.                   *)
THEOREM WorkInStep == MySpec => []InStep
<1>1. LifeInv => InStep
  <2> SUFFICES ASSUME LifeInv, running # 0, ~stray
               PROVE  running \in closed /\ RxNeeds \subseteq held
    BY DEF InStep, RxNeeds
  <2>1. running \in closed /\ "queue" \in held /\ at \in {"up", "remove"}
    BY DEF LifeInv, DrainInv, PagesInv
  <2> QED
    BY <2>1 DEF LifeInv, HeldInv, GotPages
<1> QED
  BY <1>1, LifeInvariant, PTL

(* No request to process a page is merged with another: queue_work refuses  *)
(* work that is pending, so the handler asks again until it is taken.       *)
THEOREM EachPageHasWork == MySpec => []EachPageAsked
<1>1. LifeInv => EachPageAsked
  <2> SUFFICES ASSUME LifeInv, handler = "card", ~stray
               PROVE  Cardinality(closed) = Asked + Count(running # 0)
    BY DEF EachPageAsked, Asked
  <2>1. cardTurn \in {1, 2} /\ Other(cardTurn) # 0 /\ 1 # 2
    BY DEF LifeInv, RxType, Page, Other
  <2>2. /\ Cardinality({}) = 0 /\ Cardinality({Other(cardTurn)}) = 1
        /\ Cardinality(Page) = 2
    <3>1. Page = {1} \cup {2} /\ 2 \notin {1}
      BY DEF Page
    <3>2. IsFiniteSet({1}) /\ Cardinality({1}) = 1
      BY FS_Singleton
    <3>3. Cardinality({1} \cup {2}) = Cardinality({1}) + 1
      BY <3>1, <3>2, FS_AddElement, Zenon
    <3>4. Cardinality(Page) = 2
      BY <3>1, <3>2, <3>3
    <3>5. Cardinality({}) = 0
      BY FS_EmptySet, Zenon
    <3>6. Cardinality({Other(cardTurn)}) = 1
      BY FS_Singleton, Zenon
    <3> QED
      BY <3>4, <3>5, <3>6
  <2>3. TurnsInv
    BY DEF LifeInv
  <2> QED
    BY <2>1, <2>2, <2>3 DEF TurnsInv, Count
<1> QED
  BY <1>1, LifeInvariant, PTL

(* An interrupt is taken for a page's though it is for none only when the   *)
(* configuration was given up, with one of its transactions still under way *)
(* (ael2005_simple_conf.c:49): after one that succeeded, none is left.      *)
THEOREM StrayOnlyAfterGivingUp == MySpec => [](stray => confAt = "failed")
<1>1. LifeInv => (stray => confAt = "failed")
  BY DEF LifeInv, QuietInv
<1> QED
  BY <1>1, LifeInvariant, PTL
=============================================================================
