# Verification of the NaaS NIC and its driver

The repository is a network card on a NetFPGA-10G board ("prototype that
captures ethernet frames on virtex5 netfpga-10g", `src/README.md`) and the
Linux driver for it. This directory holds TLA+ models of both, the TLC
configurations that check them on small instances, and TLAPS proofs of the
invariants the rest depends on.

Paths below are relative to `src/`; the Verilog files are those of
`hw/my_engine/src/` and the driver is `sw/driver/`.

1. The system
2. Inventory: components, state, hazards, correctness
3. The modules
4. The runs
5. Assumptions about the environment
6. Fairness
7. What is proved
8. Where the code does not do what it says
9. What is not modelled
10. What could come next

## 1. The system

The driver and the card share *pages*: two slots in each direction
(`NR_LBUF` is 2).

**Receive.** The driver allocates 2 MB pages, writes their DMA addresses and a
status to the card's registers, and the card fills them: frames that come from
the MAC go into a small buffer (`rx_mac_interface.v`), are cut into PCIe writes
(`rx_tlp_trigger.v`), cross to the clock of the bus (`rx_trigger_synch.v`) and
are written to the page (`rx_wr_pkt_to_hugepages.v`). When the page is full, or
nothing came for a while, the card writes the page's length to its first dword
and interrupts. The interrupt handler schedules `nf10_poll`, which finds the
page closed because its first dword is not zero, puts a new page in its place,
copies the packets out and frees it.

**Transmit.** `start_xmit` writes the DMA address and the size of a packet to
the registers of a slot. The card (`tx_wr_pkt_to_bram.v`, `tx_rd_host_mem.v`)
reads the packet with read requests, sets a *completion flag* for the slot in
host memory when the last request has left, and, when all the answers have come,
writes the packet's address to *one* word of host memory (the last-gc address)
and interrupts. The driver reuses a slot once its flag is set (the descriptor
moves to the pending-gc list) and frees the buffers of that list up to the
address that was notified. The words go to a buffer from which
`tx_mac_interface.v` sends them.

One interrupt vector and one NAPI poll serve both directions.

The card has two clocks: 250 MHz (`trn_clk`, the bus) and 156.25 MHz (`clk156`,
the MAC). Buffer addresses cross between them through three small
synchronisers, requests through a strobe and an acknowledge.

## 2. Inventory

| component | state | operations | what is hard | what makes it correct |
|---|---|---|---|---|
| transmit ring and gc, `nf10_lbuf.c` | descriptors, prod, cons, pending-gc list, tx_lock, local last-gc address | `start_xmit`, `check_tx_completion`, `clean_tx_irq` | three actors, two words in host memory without a handshake, a full ring that does not stop the queue | no skb freed while it is read; every skb freed, once, in order; driver and NIC agree on each slot; a full ring opens |
| receive ring, `nf10_lbuf.c` | descriptors, stale `dma_addr`s, pages owned | `consume_rx_desc`, refill, `deliver_lbuf` | the header of a page is the only sign that it is closed; failed allocation; one page a poll | a page is written or read, never both; delivered once, in order, in the end |
| packet delivery, work queue, `nf10_lbuf.c:414-516` | list of received skbs, work pending | walk of a page, queue, hand up, free | the worker looks while the poll adds | each packet that is queued is handed up, once |
| life cycle and interrupt, `nf10_main.c` | resources held, NAPI state, `reset` of the loaded module | probe, up, down, remove, interrupt, poll | order of teardown; NIC not told; descriptors not cleared | an interface that is up has the ring it thinks it has; no page freed twice or left behind |
| user access, `nf10_user.c`, `sw/apps/lbuf_rx.c` | `nr_user_mmap`, `rx_prod` / `rx_cons` of the user | open, mmap, ioctl, release | counters shared with the kernel | a page has one reader |
| skb pool, `skbpool.c` | list of skbs, their number, the chain kept from page to page | alloc, free, refill in a work queue, purge | list and counter in two steps, fallback, purge | an skb in one list; the counter close; nothing left |
| Xen backend, `xen_nfback.c` | xenbus state, vif, interrupts, mappings, kernel thread, queue of pages | probe, remove, callbacks, delivery, copies for a guest | three actors, teardown between steps, states published late | teardown complete, a page has one owner, no wake-up lost |
| PHY, ethtool, `ael2005_conf.*`, `nf10_ethtool.c` | step, turn, flag | MDIO writes in sequence | handshake by interrupt, no queue in the card | every transaction once, in order; no sleep for nothing |
| transmit page registers, `tx_huge_pages_addr.v` | address, size, status of two slots | written by the host, status cleared by the engine | written while the engine reads | as the transmit ring |
| transmit engine, `tx_wr_pkt_to_bram.v`, `tx_rd_host_mem.v` | page being read, outstanding tags, answer counters, gc mixer | requests, answers, completion, notification, interrupt | answers out of order, slot posted again early, space in the buffer | a notification never overtakes; no overrun of the buffer |
| transmit MAC interface, `tx_mac_interface.v` | two machines, read addresses | measure, send, underrun, give back | machines in parallel, stale difference, underrun | frames as the host sent them |
| receive page registers, `rx_huge_pages_addr.v` | address, status of two slots | as for transmit | as for transmit | as the receive ring |
| receive write engine, `rx_wr_pkt_to_hugepages.v` | page, words written, sending machine | open, write, close, interrupt | bus held, page changed by a request | pages hold whole frames, fit, are not empty |
| receive MAC interface and trigger, `rx_mac_interface.v`, `rx_tlp_trigger.v` | write addresses, snapshot of what waits, words in the page, timeout | commit or drop, bursts, end of page, timeout | decisions on snapshots and old differences | no overrun; a page ends with a frame; what came is flushed |
| request crossing, `rx_trigger_synch.v` | handshake | request, acknowledge | two clocks | each request served once |
| address crossings, three files | bus, strobe, synchroniser | latch, strobe, sample | two clocks, no acknowledge | never torn, never older, in the end the last |
| arbitration, `enpoint_arbitration.v`, `interrupt_en.v` | turn, interrupts enabled | turns | the write engine keeps the bus; outputs are or-ed | one driver; both engines get the bus |
| MDIO host interface, `mdio_host_interface.v` | register write, `host_int_fsm`, `interrupt_fsm` | write, transaction, interrupt | two clocks, a write it cannot take is dropped | as for the PHY |
| wiring, cores, constraints | - | - | - | - |
| `sw/my_driver` | two pages, one work item, resources held | probe, remove, two interrupt handlers, work | an interrupt that does not say for which page; a loop in the handler | the work keeps in step with the card |

Interactions: driver and NIC by registers (posted writes to BAR 2, in order),
by DMA (pages, completion flags, last-gc address) and by one interrupt; the
interrupt handler and the poll by NAPI's scheduled flag; `start_xmit` and the
poll by `tx_lock`; inside the NIC, machines by registers of one clock, or
across the clocks by the crossings.

`PROJECT.json` lists the hazards line by line with the properties that would
catch them.

## 3. The modules

`DescRing` is the descriptor ring of both directions: `desc`, `prod`, `cons`,
`Inc` (`inc_pointer`), `Full` and `Empty` (`desc_full`, `desc_empty`, which look
at `kern_addr` because both indices meet in both cases), and what it means that
this is enough (`RingExact`).

### TxPath (extends DescRing) and TxService

| model | code |
|---|---|
| `XmitLock`, `XmitBusy`, `XmitWriteAddr`, `XmitWriteStat` | `nf10_lbuf_start_xmit` and `lbuf_xmit`; the two register writes are two steps, with the NIC between them |
| `CheckCompletion` | a turn of the loop of `check_tx_completion`, for either holder of `tx_lock`, with a copy that could not be allocated |
| `GcEnter`, `GcLock`, `GcClean`, `GcCas`, `GcDone` | `nf10_lbuf_clean_tx_irq` and the part of `nf10_poll` that depends on its result; the `cmpxchg64` is a step |
| `NicGive`, `NicRequest` | `give_huge_page_fsm` and the read requests; the last one returns the page |
| `NicCompletion` | the completion write of `tx_rd_host_mem.v` |
| `NicData(k)` | an answer: tags retired in order (`Commit`), the notification machine of the slot counts (`Counted`), the mixer takes what is ready (`MixerTakes`) |
| `NicNotify`, `NicInterrupt` | the write of the last-gc address, and the interrupt |

A buffer is its DMA address; an address comes back as soon as its skb is freed,
so a late read of a freed buffer is a read of somebody else's. Sizes are numbers
of read requests. The pending list is `pending`; `leaked` are the skbs no list
refers to after `add_to_pending_gc_list` failed. One step folds the return of a
page into its last request: the return follows a few cycles later, the answer
takes hundreds.

`TxService` is what the network stack is promised: skbs are accepted, fetched,
and freed oldest first, once, and only when fetched. `TxPath!Queue` (the pending
list followed by the ring) and the set of addresses with no read ahead are the
refinement mapping.

### RxPath (extends DescRing) and RxService

| model | code |
|---|---|
| `PollTx`, `PollExit` | `nf10_poll` around the receive part |
| `PollNothing`, `PollConsume` | `consume_rx_desc` |
| `PollRefill` (with `Allocated`, `NoMemory`, `NotMapped`), `PollReady` | `alloc_and_map_lbuf` and `nf10_lbuf_prepare_rx`, address before status |
| `PollDeliver` | `deliver_lbuf` |
| `NicTake` | `give_huge_page_fsm` of `rx_wr_pkt_to_hugepages.v` |
| `NicOpen`, `NicClose`, `NicInterrupt` | its `send_fsm`: s0, s8-s11, s12; after the interrupt it is in s0 with the bus in its hands (`send = "wait"`) |
| `TxInterrupt` | the interrupt of a transmission, which needs the bus and schedules the same poll |
| `Interrupt` | `nf10_interrupt_handler`: nothing when the poll is scheduled or runs |

`header` is the set of pages whose first dword looks like a length; a page that
is not zeroed may be in it when it is allocated. `dma` is the `dma_addr` of each
descriptor, which `clean_desc` leaves alone, so that a failed allocation posts
an old address.

`RxService`: pages are filled in the order they were given and delivered in the
order they were filled, each once, and a page is in one place. The refinement
mapping lists the pages of the ring from `cons` on, apart those that are filled
and those that are posted; it says which is the k-th by counting (`PagesAt`),
since a recursive selection could not be reasoned about.

### RxPacking

The words of the receive buffer from MAC to page. `mem` are committed words, each
TRUE when it ends a frame; `aux` are the words of the frame being received;
`unseen` are words the bus side has read and the MAC side does not know of.
`RxStart`, `RxWord`, `RxCommit`, `RxDiscard` are `rx_mac_interface.v` (with the
difference of the cycle before, `diff`, which decides about dropping), `RdSynch`
is the crossing, the `Trig...` actions are the states of `rx_tlp_trigger.v`,
`SendOpen` and `Send` the write engine. The page's size, the burst, the buffer
and the drop threshold are constants.

### Device (extends RxPath)

The life of the driver around the ring: `Probe` and `ProbeFails` at each of its
steps, `Unwind` (the error labels), `UpReset`, `UpAlloc`, `UpAllocFails`, `UpPost`
(`nf10_up`), `Down` (`nf10_down` on its own), `Remove` and `Release` (`nf10_remove`,
one resource a step, where `napi_disable` waits for the poll and
`unregister_netdev` frees the ring), and `Reload` of the module. The poll and the
NIC of `RxPath` run through all of it, on pages that may not be zeroed, mapped or
had. `RxPath!Init` is the state `nf10_up` leaves; `UpSafe` and `ServesWhileUp` show
that it is.

### SkbPool

`skbpool.c` under `deliver_packets` with `CONFIG_SKBPOOL`: three actors on llists.
`Poll...` is the walk over a page (the next entry of the chain, or the whole pool,
or one allocated on the spot), `Fill...` the pool's worker, `Up...` the receive
worker, `Close...` `nf10_lbuf_free`. The exchange of a list's head and the counter
are steps of their own, as `llist_del_all` and `atomic_set` are. A list (`Linked`) is
what can be reached along `next` from its first entry, the least set that is closed
under it, which `for_each_entry` visits (`Reach`). A failed fallback
links the address of the node of a NULL entry (`Bad`); where it is followed the
kernel oopses and exploration stops (`oops`).

### XenBackend

`xen_nfback.c`: the xenbus thread runs a callback at a time (`Probe`, `Removed`,
`FrontendChanged`, `Hop...` of `set_backend_state`, `Connect...` with a failure at
each point, `Disconnect`, `HotplugConnected`); `PollConnected` and `PollXmit` are
the two calls of `deliver_lbuf`; `Thread...` and `Rx...` are the kernel thread and
its copies. xenbus, the grant tables, the frontend and the hotplug script are the
environment (`FrontPost`, the guards of `Asks`).

### Mdio and MyDriver

`Mdio` is the configuration of the PHY (`ael2005_conf.c` and the copy in
`sw/my_driver`): clear the flag, write the transaction, sleep until the handler
sets it; and the card's `host_int_fsm` and `interrupt_fsm`. `MyDriver` extends it
with the probe, unwinding and removal of `my_driver.c`, the vector that serves the
PHY first and the pages later, the handler that queues a work for every page, and
the work.

### Builds

A host loads one of three: the driver with the Xen backend, the driver with the
skb pool, or `my_driver`. `Builds` has the steps of one and leaves the others as
they are, so one run checks them all.

### AddrSynch, TriggerSynch, Bus and Card

`AddrSynch` is `rx_rd_addr_synch.v`, `tx_wr_addr_synch.v` and
`tx_rd_addr_synch.v`, register by register, with the two clocks at every phase:
time counts in units of 0.8 ns, 5 to a cycle of `trn_clk` and 8 to one of
`clk156`. A register that changes at the very edge at which it is sampled gives
the old or the new value, and for a bus a mixture (`Torn`). The rigid variable
`way` chooses the crossing.

`TriggerSynch` adds `rx_trigger_synch.v` on the same clocks: `In...` is
`fsm_clk_in` with the trigger that asks, `Out...` `fsm_clk_out` with the write
engine that acknowledges. That each request is begun once is what the one-place
`request` of `RxPacking` rests on.

`Bus` is the transmit side of the PCIe endpoint, a step for each cycle of
`trn_clk`: `Arbitrate` (`enpoint_arbitration.v`), `RxPage` to `RxInterrupt`
(`send_fsm` of the write engine), `TxTake` to `TxInterrupts` (`rd_host_fsm` of the
read engine). When the endpoint is ready is chosen in each cycle. `Card` puts the
crossings and the bus side by side for one run.

### TxMac

`tx_mac_interface.v`, cycle by cycle: `Trigger` is `trigger_frame_fsm`, which
measures the frame at the read address, `Frame` is `tx_frame_fsm`, which sends it,
`Release` the committed read address. Every cycle both make one step (`Cycle`) on
the registers of the cycle before, so the staleness of `diff`, of
`take_your_chances` and of `rd_data` (the word at `prev`) is that of the code.
`Commit` is the environment: any number of words that fit, as `TxEngine` commits
them. `layout` tells where the host's frames begin; a word that is no header may be
taken for any length (`Measure`).

### TxEngine (extends TxMac)

The data side of `tx_wr_pkt_to_bram.v`, which `TxPath` leaves out: `AskPage` and
`Ask` are `trigger_rd_tlp_fsm` (`Sizes` its states s2-s4, `TooMany` the test of one
bit of a sum), `PieceBegins` and `PieceEnds` `wr_to_bram_fsm`, `CommitWords`
`commit_wr_addr_fsm`. `mem` tells for each index of the buffer which of the host's
words is there: a word is named by the address reserved for it. `odd` is the dword
that waits for the other half of its word, which is what tells the states s2-s5
apart. The arrays have four entries and a tag four bits, of which the lower two
select (`Tags`).

States between which no other machine sees a difference are one step: waiting for a
free tag, choosing a size and asking, since tags and room only grow until the
request is made; the two states of `commit_wr_addr_fsm`; the header of an answer
and the first cycle of its words. A piece is two steps because `tlp_addr` and
`received_size` are counted on before the words are there.

`side`, which no step changes, chooses what a behaviour looks at: the MAC side as
`TxMac` has it, with any engine that commits what fits, or the engine, with a MAC
side that gives back a frame when all of it was committed (`MacReleases`). Each
stands on what is checked of the other: `WordExact` implies that no more is
committed than fits, in the host's order, and `KeptUntilSent` and `CompleteSent`
that a frame is given back when it was sent, and not before.

### MC modules, proofs and mutants

`MCTxPath`, `MCRxPath`, `MCRxPacking`, `MCSynch`, `MCTxMac`, `MCTxEngine` and `MCDevice` give
values that cannot be written in a `.cfg`. `TxPath_proofs`, `RxPath_proofs` (with
`Device`), `RxPacking_proofs`, `Card_proofs` (`AddrSynch`, `TriggerSynch`, `Bus`),
`TxEngine_proofs` (with `TxMac`), `MyDriver_proofs`, `SkbPool_proofs` and
`XenBackend_proofs` hold the theorems. Operators whose comment begins with "A mutant of" are plausible
mistakes in the definition that follows them; nothing refers to them: they are
there to be put in its place, to see that the property listed with them in
`PROJECT.json` then fails.

## 4. The runs

| run | checks | shows | bounds |
|---|---|---|---|
| `tx_ring` | `RingExact`, `SlotProtocol`, `RingReopens` | driver and NIC agree on each slot and a full ring opens, whatever the order of answers, with slots reused at once and a descriptor leaked | 2 slots (the code's number), 2 addresses, 1 request a packet |
| `tx_calm` | `GcSafe`, `ImplementsService` | under the three timing assumptions of section 5 no skb is freed under a read, and transmission implements `TxService` | 2 slots, 3 addresses, up to 2 requests a packet |
| `tx_out_of_order` | `GcSafe` violated | section 8 | 3 addresses |
| `tx_stranded` | `SkbFreed` violated | section 8 | 2 addresses |
| `rx_safe` | `PageSafe`, `ImplementsService`, `DeliveredByInterrupts` | with coherent pages and no failed allocation pages are never shared or lost, are delivered in order, once, and in the end as long as interrupts come | 3 slots, 5 pages |
| `rx_stranded` | `PageDelivered` violated | section 8 | 2 slots, 4 pages |
| `rx_packing` | `NoOverrun`, `PageExact`, `Flushed` | no buffered word is written over; pages end with a frame, hold what is sent and are not empty; all that came is flushed without another frame | buffer 11, drop above 6, burst 3, page 15, frame 4 words |
| `synch` | `NeverTorn`, `NeverOlder`, `Follows`, `BegunOnce`, `Begun`, `OneDriver`, `TxServed` | the crossings at every phase: of addresses, all three, and of requests, each begun once and in the end; the bus, with one driver, which the read engine gets in the end | 3 addresses; requests of 3 and 16 words; the bus in full |
| `tx_mac` | `FrameExact`, `SentCommitted`, `KeptUntilSent`, `CompleteSent`; `WordExact`, `AllCommitted` | frames that are begun on chance only when they cannot be hurt by it are sent as the host sent them, given back when sent, sent again after an underrun; what the engine commits are the host's words, and all of them are committed | buffer 16, chance 9, frames of 4 and 5 full words with or without a part; 2 tags, chunks of 4 and 8, pages of one frame or of 18 and 20 words, answers cut after 5 and 8 dwords |
| `device` | `NoNullHeader`, `UpSafe`, `FreedOnce`, `ServesWhileUp` | through probe, up, down, remove and loading again, each of which may fail, on dirty, unmapped and missing pages; an interface that is up is an `RxService` until something fails | 2 slots, 3 pages (symmetric); a life with a fault goes on until the next call of the life cycle (`Clean`) |
| `builds` | `TornDown`, `BugOns`, `OneOwner`, `Told`, `Served`; `OneList`, `CountClose`, `HandedUp`; `PhyExact`, `Awaited`, `InStep`, `EachPageAsked` | the Xen backend; the skb pool; `my_driver` with the PHY | 2 pages of 2 pieces, ring of 2 requests; 3 skbs, minimum 2, batch 1, 2 packets a page; 1 register that is reset, 1 other |
| `tx_mac_chance` | `FrameExact` violated | section 8 | the same, chance 8 |

Why the bounds are enough:

* **Slots.** Two is the code's number. `rx_safe` takes three because with two
  slots a wrong index is often right modulo two. The theorems of section 7 are
  for every number.
* **Addresses and pages.** Transmission holds at most one buffer in each slot
  (two), and one more is enough for an address in the pending list while both
  slots are busy, and for an address that is freed and used again while a
  notification of it is under way. `tx_ring`'s properties do not look at the
  pending list, so two addresses and one leak are enough to fill the ring, wrap
  and reuse. Reception holds one page in each slot and one being delivered;
  `rx_safe` has one page more than that, so a freed page can come back at once or
  stay away.
* **Requests.** One and two tell a packet whose first request is also its last
  from one that has a first and a last. `MaxOutstanding` is 2 in the models and 4
  in the card: with two slots two requests are enough for answers of two packets
  to cross.
* **Packing.** Numbers keep the relations of the code: a burst is less than a
  frame, `MaxDiff` leaves `Size` a margin larger than what can arrive on an old
  difference, a page takes several bursts beside its header, and the remainder
  of a division by the burst takes each value. The page is 15 words and not a
  multiple of what waits, so it ends in every way the trigger has.
* **Clocks.** The pair (in, out) takes every phase of 8:5; three addresses tell
  an old one, the one that crosses and a new one.
* **Device.** Three pages for two slots: a page that is freed comes back in
  another slot, or stays away. The module is loaded any number of times.
* **Xen.** Two pages tell a page that is copied in part from one that waits
  behind it; two pieces and a ring of two requests let a page fit in the ring, not
  fit, and be cut at the ring's end. Any number of connections and of probes.
* **Pool.** Three skbs and a minimum of two: the pool is below, at and above its
  minimum, and runs empty while packets are queued.
* **PHY.** The two kinds of registers, each with an address and a data
  transaction, are treated differently only by the limit of the sleeps; the
  theorems are for tables of any length.
* **Bus.** No bound: the machines are finite.
* **TxMac.** The eight layouts are five frames that come round to address 0
  after both halves of the buffer's addresses, with all orders of four kinds of
  frames that start with a shortest one. A frame and its header take 5 to 7 of
  the sixteen words, so the buffer holds a frame with the next one in part, in
  full, or followed by a part of a third.

* **TxEngine.** Pages of 18 and 20 words are larger than the buffer, so a request
  is for all of an empty buffer, for a chunk or for the rest; chunks of a half and
  a quarter of the buffer stand for the code's half to thirty-second. An answer is
  cut after an odd and an even number of dwords, from either half of a word, so
  each of the four cases of the write machine comes. Two tags are enough for answers
  to cross and for a tag to be used again while the other is under way. One layout of
  frames, which goes round the addresses for ever.

`rx_safe`, `rx_stranded`, `device` and `builds` have `CHECK_DEADLOCK FALSE`: when
both pages are closed within one poll nothing moves any more (that is
`rx_stranded`'s finding, and the states in which it has come about are among
those of `rx_safe` and `device`); a backend whose probe failed early ends in
`BUG()`, a pool that follows a bad pointer in an oops, and a driver that was
purged or removed is at its end. Every other run checks for deadlock.

Sizes, in distinct states: `rx_safe` 257,220, `device` 2,627,946, `builds`
327,502, `synch` 304,473, `tx_mac` 246,194.

### What else the constants show

These are not runs of their own; anyone can see them by changing one constant:

* `tx_calm` with only `PromptNotify` or only `SlowReuse` FALSE breaks `GcSafe`:
  each of the three assumptions is needed.
* `tx_calm` with `MaxLeaks = 1` breaks `GcSafe`: the descriptor that could not be
  copied is in no list when its address is notified, and the whole list is
  purged; the message of `nf10_lbuf.c:238` speaks of a leak only.
* `rx_safe` with `AllocFails = TRUE` breaks `RxRingExact` and `DmaSafe`
  (`nf10_lbuf.c:711` ignores the result): a stale address is posted and the ring
  has a hole, though no NULL is followed (`NoNullHeader`, in `device`).
* `rx_safe` with `Coherent = FALSE` breaks `PageSafe` at once: the first dword of
  a page decides whether it is closed, pages are not zeroed in the default build,
  and a poll that an interrupt of a transmission schedules takes leftover memory
  for a length. The page is freed while the NIC writes to it.
* `builds` with `SameCpu = TRUE`: when the interrupt goes to the CPU that has the
  pending work, `my_driver`'s handler spins in it for ever (`my_driver.c:139`).
* `WordExact` breaks in `tx_mac` with any of these:
  * a page of 32 words, twice the buffer (`Pages`): the first request is for all of
    the buffer, the rest is again as much, and the sum of both has no bit left to
    tell that it does not fit (`tx_wr_pkt_to_bram.v:359`). In the code that is a
    page of 1024 words, 8 KB; the driver's have less than 200.
  * `Stalls = TRUE`: a read request that the endpoint stalls for four cycles and
    more is still being sent when the engine asks for the next one, and
    `request_size` is written under the old tag (line 396). The older request is
    then retired early, or never.
  * `Gaps = TRUE`: in s1 `wr_to_bram_fsm` uses the tag on the bus before it looks at
    `trn_rsrc_rdy_n` (lines 764-779). A pause of the endpoint there lets it clear
    `data_ready` of, and write a word for, a tag that is none.
* `TxServed` fails without the fairness of `RxRests` and without that of a page
  for the write engine: either way the write engine keeps the bus.
* `FrameExact` holds in `tx_mac` (frames of 4 and 5 full words) with `Chance` 9
  and fails with 8: four of the words that follow do not count for a frame that
  is begun on chance, which gives 12 full words for the code's 16.

## 5. Assumptions about the environment

| constant or rule | meaning | basis |
|---|---|---|
| `OrderedReads` | the host answers read requests of different packets in order | PCIe does not promise it for different tags; the comment in `tx_wr_pkt_to_bram.v:727` asks for order within one request only |
| `PromptNotify` | a notification has left before the next answer comes | it waits for the bus, which the write engine may hold |
| `SlowReuse` | a slot is not read again before the last notification of it was taken | true when the driver is slower than the host's memory |
| `MaxLeaks` | allocation failures in `add_to_pending_gc_list` | a bound |
| `Coherent` | pages are zeroed when allocated | only with `CONFIG_LBUF_COHERENT`, which the Makefile sets for Xen only (`sw/driver/Makefile:7-9`) |
| `AllocFails` | `alloc_and_map_lbuf` may fail | always possible |
| `TxTraffic` | transmissions share interrupt and poll | always possible |
| `UpReset` | the interface is opened after the probe returned, and long after the last poll; an interrupt of before the reset has been handled when the reset is over | the reset of the bus takes milliseconds; `register_netdev` comes before `nf10_init`, so an up that is faster would call a NULL `hw_ops` |
| `DeviceNic` | posting the pages takes less than filling one | two register writes against 2 MB |
| `CardCloses` (`MyDriver`) | the card of `my_driver` closes a page only when its last interrupt was handled | one interrupt line, and pages of 2 MB |
| `Sleeps` | in the first step the PHY answers within the limit of sleeps, or the configuration fails | `ael2005_conf.c:53-61` |
| `Stalls`, `Gaps` | FALSE: the endpoint takes a read request in less than four cycles more than it needs, and does not pause within the header of an answer | neither is promised; section 4 says what follows |
| `Pages` | less than two buffers | a packet of the driver has less than 200 words |
| `Pieces` | an answer has at least two dwords | the write machine does not look for the end of an answer in s1; answers are cut at multiples of 64 bytes, and the driver aligns packets to 4 bytes only (`nf10_lbuf.c:730`, a FIXME), so one dword is possible |
| `interrupts_enabled` | on | a switch in a register the driver never writes (`interrupt_en.v:66`) |
| NAPI | `napi_schedule` does nothing while a poll is scheduled or runs | kernels of the driver's time have no "missed" state |
| writes of the NIC | seen by the host in the order they were made; a register write of the host reaches the NIC in order | posted writes of PCIe |
| 8:5 clocks | the two clocks are generated apart; any phase | `my_top.v` |
| `RestsLong`, `PulseLong` | what the theorems of the crossings need of the two periods: a bus rests for two cycles of the reader after its strobe falls; a cycle of the trigger's clock is shorter than two of the engine's | 8:5, in either direction; the counts of `fsm_a` are those of the code |
| MAC | acknowledges a frame in state `ack`, after the first words | use of `mac_tx_ack` in `tx_mac_interface.v` |
| block RAM | data one cycle after the address | the ports of the buffer as generated |
| frame length | at least 4 words of data | Ethernet frames have 60 bytes and more |

## 6. Fairness

* `TxPath`: each machine of the NIC is clocked, so each of its actions is weakly
  fair, and the host answers reads in the end. A poll that is scheduled runs to
  its end, and `start_xmit`, once it holds the lock, too. The stack calls
  `start_xmit` again for an skb it was told `NETDEV_TX_BUSY` for: strong fairness
  of `XmitLock` *on a full ring*, strong because the poll takes the lock in
  between. No packet need ever be sent otherwise.
* `RxPath`: the poll runs once it is scheduled, and the NIC's machines are clocked.
  No page need ever be closed, since frames may stop, and no transmission need
  interrupt. `DeliveredByInterrupts` has its premise in the formula.
* `RxPacking`: the timer of the trigger runs whenever it is idle, so one of its
  actions is taken in the end; the host has a page and the engine gets the bus in
  the end; the read address crosses. No frame need come.
* `Card` (`synch`): the clocks run. The write engine's and the read engine's states
  go on, strongly fair: the endpoint is not always busy in just the cycles of one's
  turn, and a page comes in the end. `RxRests`: now and then the write engine finds
  no request, no credit or the endpoint busy at the end of a burst, which is when it
  gives the bus back; with less, the comment's "risk of starving the tx process"
  is what happens.
* `XenBackend` (`builds`): the kernel thread and interrupts are scheduled, a callback
  that began goes on, and the frontend returns the buffers it got. No callback need
  begin.
* `TrafficSpec` (`rx_stranded`): all of `RxPath`'s, and pages are closed and
  transmissions interrupt whenever they can. It is the most the environment can do,
  and reception stops all the same.
* `TxPath` takes for granted that the engine gets the bus in the end, which is
  `TxServed`, and holds only while reception has a page.
* `TxMac`: the clock runs, and the MAC acknowledges in the end:
  `WF(Cycle(TRUE))`. Nothing is assumed about the engine that fills the buffer;
  `CompleteSent` is only about frames that are there.
* `TxEngine`: its machines are clocked, the read engine gets the bus (`TxServed`), the
  host answers, and the MAC sends what is there (`CompleteSent`). No page need come.

## 7. What is proved

All by TLAPS, for every value of the constants that meets the assumptions
(`RingAssumption`: at least one slot; `ConstantsAssumption` of each module: types,
and that `NULL` is no address).

**TxPath_proofs.** `TypeCorrect`, `RingCorrect` (`RingExact`) and `SlotsCorrect`
(`SlotProtocol`), whatever the order of answers, the speed of notifications, the
reuse of slots and the number of leaks: the findings below lie in the freeing of
buffers, never in the slots. The inductive invariant is `IInv`:

* `SlotProtocol` alone is not inductive: that a completion flag lands on a slot
  in use needs `TurnInv` (the completion writes follow the page returns, one
  step behind), and that the next post does not meet a flag needs `RingExact`.
* `RingExact` is not preserved by a post unless the slot between the two register
  writes is still clean (`PostInv`), which needs that the poll cannot change the
  ring then (`LockInv`).
* `SizeInv`: a posted page has a request left, so the last request is recognised
  by `left = 1`.

The second half is about the freeing, `FreedAfterReading` (`GcSafe`) and
`TransmissionServes` (`ImplementsService`), for every number of slots, addresses,
requests a packet and requests in flight, on a calm host: `Calm` is the three
assumptions of section 5 and `MaxLeaks = 0`, what `tx_calm` fixes and what
section 4 and the finding `tx_out_of_order` show to be needed. The invariant
`CalmInv(Q, s, r, e)` exhibits the abstract queue: `Q` lists the buffers not yet
freed, oldest first, and `s` the slot each was posted in.

* `QueueInv`: `Q` is the pending list followed by the ring from `cons` to `prod`,
  with no address twice. `GcSafe` needs it because the purge looks an address up
  in the list, and frees all of it when the address is not there.
* `PageInv`: the first `e` of `Q` have all their read requests issued, and each of
  them in the ring has its completion flag, or is the one whose flag is due.
* `RequestInv`: the first `r` have them all answered; the requests in flight read
  the buffers from `r + 1` on, in the order of `Q`.
* `CountInv`: a notification machine expects exactly the answers that are
  outstanding for its buffer, so it reaches its count with the last one.
* `NoteInv`: what is notified is one of the first `r`; its completion flag was
  written before its address, so `check_tx_completion` has moved it to the
  pending list by the time `clean_tx_pending_gc` looks for it (`CleanFound`).

Each action of `TxPath` maps `(Q, r)` to itself, to a queue with one more buffer,
to one more buffer read, or to a queue without some that were read (`Served`);
`View` shows that `Queue` is `Q` and that what `TxService` calls fetched are the
first `r` of it.

**RxPath_proofs.** `TypeCorrect` and `NullNeverFollowed` (`NoNullHeader`), with no
assumption at all: not even failed allocations break the agreement of the two
indices outside a refill (`IndexInv`). `PagesCorrect` (`PageSafe`) and
`RxRingCorrect` (`RxRingExact`) under `Reliable == Coherent /\ ~AllocFails`. The
inductive invariant adds which descriptors hold a page and which page is being
delivered at each point of the poll (`HeldInv`), and that the engine writes to a
page it was given (`EngineInv`).

`ReceptionServes` (`ImplementsService`), under `Reliable` too, is the refinement of
`RxService`. The invariant is one number: of the places of the ring, counted from
`cons`, the first `f` are filled and the others posted, and the NIC serves the first
of these (`OrderInv(f)`). `View` shows that the two lists of the mapping are what `f`
makes of the ring; each step posts one page, fills the oldest, delivers the oldest
or changes neither list (`Moves`). What is known of the pages of a ring in which
nothing failed (`WholeInv`) gives that a page that is posted was in neither list
(`Lists`).

The last part is about the life of the driver (`Device`), for any number of
slots and pages, with any step of it failing: `UpIsSafe` (`UpSafe`),
`EachPageFreedOnce` (`FreedOnce`), `NullNeverFollowedInLife` (`NoNullHeader`) and
`ReceptionServesWhileUp` (`ServesWhileUp`). `DInv` says what the driver has acquired in each of its states (`LifeInv`: the
indices into the two orders of acquisition and release), and what the ring is
like while the interface is down (`DownInv`: nothing is owned, no poll holds a
page; and after the reset nothing in the NIC moves, `Quiet`), while pages are
posted (`PostInv`, `PostedInv`: those behind `slot` are the NIC's) and while it is
up, when it is what the theorems on `RxPath` rest on. The step from the last post to
"up" is where the two meet.

`ServesWhileUp` is the refinement again, and needs no assumption on pages or
allocations: each time the interface comes up reception is in a first state of
`RxService`, and each step is one of its until a page is not had, not mapped or not
zeroed, or the interface is taken down. `LifeOrder` carries the order through the
posts of `nf10_up`: exactly the slots behind `slot` are posted, the NIC serves slot 0
because the reset put it there, so the last post gives `OrderInv(0)`. A reset that
left the NIC at its slot (`UpResetTurn`) would keep `UpSafe` and fill the pages in
another order than they are consumed in.

**RxPacking_proofs.** `BufferNeverOverrun` (`NoOverrun`) and `PagesWalkable`
(`PageExact`) for every buffer, burst, page and frame that leave four words beyond
`MaxDiff`, and a page larger than the buffer and a burst. Neither is inductive.
`MacInv` bounds what is occupied by the difference of the cycle before, in each
state of the MAC side. For the pages, `Owed` is what the trigger decided and has not
requested: what is written, requested and owed is what `count` says and fits
(`PageInv`), and *ends where a frame ends* (`Aligned`), because it ends where the
committed words ended when the snapshot was taken.

**Card_proofs.** For any periods and phases that `RestsLong` and `PulseLong` allow:

* `AddressWhole` (`NeverTorn`) and `AddressForward` (`NeverOlder`, an action
  property): no address is taken over while the bus that carries it changes, and
  what is taken over never goes back. The invariant counts time: what was seen of
  the strobe in the reader's registers tells how long the bus will still rest
  (`SeenInv`, over `Left`).
* `RequestOnce` (`BegunOnce`): each request of the trigger is begun once by the write
  engine, and is the one that was asked for. What a four-phase handshake gives for
  nothing, this one with its two fixed waits owes to its periods: `AckInv` bounds
  from both sides the time since the acknowledge (`Since`) by the registers it has
  reached, so that the acknowledge is seen once, and is over before the next
  request; `LineInv` and `DrainedInv` say that the lines in the reader's registers
  are those of the request at hand, or are down when the next is taken.
* `BusOneDriver` (`OneDriver`): a turn is given when nobody drives, for one cycle, in
  which only its owner can begin (`TurnInv`); and an engine's words and interrupts
  are there only while it drives (`RxHolds`, `TxHolds`).

**TxEngine_proofs.** The transmit path of the NIC, for any buffer, layout of frames,
tags, pages and cuts of the answers.

* `KeptUntilTheEnd` (`KeptUntilSent`) needs only where the read address is between
  two frames (`KeptInv`).
* `FramesExact` (`FrameExact`) and `SentWasCommitted` (`SentCommitted`) under
  `ChanceSafe`: a frame has at least three full words and at least four fewer than
  what must follow to begin on chance. `tx_mac_chance` shows that the second is
  needed; the code has 16 words, hence frames up to 12. `MacInv` has a conjunct for
  each state of the frame machine, which places `rd`, `prev` and the measuring
  machine relative to the header of the frame that is next, and says of the stale
  `diff` which words it still vouches for.
* `WordsExact` (`WordExact`) under `EngineSafe`: no `Stalls`, no `Gaps`, pages of less
  than two buffers, and no chunk that is a whole buffer (section 4 shows what the
  first three are for; the chunks of the code are a half and less). `WordInv` orders
  the requests under way by `Rank`, from the tag that is committed next, and says
  that they follow one another without a hole from `wr` to `nextWr` (`OrderInv`),
  that what is due of each is what it has not counted, dword by dword
  (`RequestInv`), that all of it fits (`FitInv`), and that each place that was
  written has the host's word (`MemInv`). Addresses have one bit more than the
  buffer's and wrap; the proof speaks of distances from `rdDone` (`Off`), so that
  the arithmetic modulo `2 * Size` is done once, in lemmas.

**MyDriver_proofs.** `PhyGetsAll` (`PhyExact`) and `NeverAsleepForNothing`
(`Awaited`), for tables of any length, in the whole life of `my_driver`: the
invariant follows a transaction from the flag that is cleared for it, through the
card, to its interrupt (`Asleep`), and says that nothing of the one before is left
when it starts (`Calm`), and that no interrupt is for a page before the
configuration is over (`Early`). `WorkInStep` (`InStep`) and `EachPageHasWork`
(`EachPageAsked`) are about the pages: what was acquired and not given up while the
queue is there (`HeldInv`), whose turn it is and how many requests for work are
under way for how many closed pages (`TurnsInv`), and that work outlives neither the
queue nor its page (`DrainInv`). Both excuse a state in which an interrupt of MDIO
was taken for a page's; `StrayOnlyAfterGivingUp` proves that this takes a
configuration that gave up.

**XenBackend_proofs.** For any number of pages, pieces and ring slots, through all
callbacks and failed connects: `NothingOutlivesVif` (`TornDown`), `NoBugOn`
(`BugOns`), `PageHasOneOwner` (`OneOwner`) and `FrontendTold` (`Told`). `LinkInv` says
what is acquired at each step of connect and disconnect, `WalkInv` where the walk of
`set_backend_state` may be, `RoundInv` what a round of the kernel thread has taken
from the ring. Pages are in sequences, so that each is in one place, once, is
`OwnerInv`; that only the oldest was copied in part is `OffsetInv`. `ToldInv` follows
what was published up to the hotplug script.

**SkbPool_proofs.** For a pool, batches and pages of any size, whatever allocations
fail. `NoPacketForgotten` (`HandedUp`) is inductive. `SkbInOneList` (`OneList`) and
`CounterCloseToPool` (`CountClose`) rest on an invariant of the pointers, proved in
two layers:

* The first knows only a function `nx` from nodes to nodes or nothing, and `Reach`,
  the least set that has a node and what its members point to. When no node is
  pointed to twice (`Single`), lists with heads nothing points to are apart
  (`ReachApart`) and never come back to a member (`ReachForward`). What the code does
  to lists is three lemmas: one behind the last of another (`ReachAppend`), a batch
  chained as it is allocated (`BatchChain`), and a list cut behind its last packet
  with the queue put there (`ReachCut`). Each is proved from `ReachLeast`: to show
  that all of a list is in a set, show that the set has the head and is closed. No
  induction is needed.
* The second is `IInv`: every list the code knows (`Roots`) begins with an entry in
  use that nothing points to, and no two with the same one (`RootInv`); a free entry
  is pointed to by nothing (`PointInv`); the chain goes on with empty entries behind
  the last packet (`PollInv`), which is in the list behind the static node or, after a
  failed allocation, in one that nothing knows (`PacketInv`: that list leaks, and
  still nothing points into it). Only while no allocation failed are the packets of
  the page behind the static node and is every entry in use in a list (`WholeInv`).
  `CountInv` says what the counter will be once the worker has counted.

Induction over the natural numbers is not out of reach: where a proof needs the
nearest of several addresses or tags it takes the least or the greatest element of
a set (`Least`, `Greatest` of `TxEngine_proofs`, from `WellFoundedInduction`).

Every safety property of the passing runs is proved, and so are both
refinements. Stays with TLC, for good, what the prover cannot do: liveness under
fairness and ENABLED (`RingReopens`, `DeliveredByInterrupts`, `Flushed`, `Follows`,
`Begun`, `TxServed`, `Served`, `CompleteSent`, `AllCommitted`).

## 8. Where the code does not do what it says

* **`tx_out_of_order`.** The purge of the pending list frees everything up to the
  notified address, so a notification must not overtake the packets before it.
  The engine notifies a slot as soon as its own answers are counted. Two packets
  are posted, the host answers the second first, and the first packet's skb is
  freed while its read is under way.
* **`tx_stranded`.** `clean_tx_irq` looks at the completion flags, then reads the
  last-gc address. A flag and a notification that both land in between are
  acknowledged, while the skb is still in the ring; "clean complete" is returned
  and nothing is left to free it until another packet is sent.
* **`rx_stranded`.** A poll handles one page. The interrupt of a page closed while
  it runs does nothing. If that was the second slot, the NIC has no page, and the
  write engine waits for one in s0, which it entered with the bus in its hands:
  only s1 gives it back. So the transmit engine cannot interrupt either, nothing
  schedules the poll, and the card has stopped in both directions.
  `DeliveredByInterrupts` (in `rx_safe`) says that a later interrupt, if one comes,
  always makes good.
* **`tx_mac_chance`.** A frame may be begun before it is measured when 16 words
  follow (`take_your_chances`). That is safe for frames of up to 12 full words
  (103 bytes). Of a longer frame that is not yet in the buffer, the measuring
  machine takes the length again from a word of data, and the frame ends in the
  wrong place.

The models also have, and leave alone, behaviour of the code that no comment or
test speaks of. A reader of the code should know of it:

* *Life cycle.* `nf10_down` leaves the NIC armed and `kern_addr` set: a later poll
  reads a freed page and frees it again. The bus is reset by the first up of a
  loaded module only, so a second up posts from slot 0 while the NIC serves another
  slot. `netif_napi_del` comes before `napi_disable`. A page that could not be
  mapped is freed at once and again at down. `nf10_free` comes before
  `unregister_netdev` (`nf10_main.c:334`).
* *Skb pool.* A failed fallback links the address of a NULL entry's node
  (`skbpool.c:116`), which the next page follows. The purge of `skb_free_list` frees
  the static entry and the last skb a second time. The worker's batch is delivered
  last in, first out when several pages are queued.
* *Xen.* The sring pointers are not cleared, so a connect that fails after a
  disconnect unmaps twice; the label `err_rx_unbind` unbinds one interrupt twice when
  there is only one; `FIXME_vif` dangles after remove; a page queued after the
  thread's last look (line 913) stays for ever; a thread that is stopped before it
  ever ran drains nothing; a connect that fails still publishes "Connected"; a
  probe that fails before `be->state` is set ends in `BUG()`.
* *my_driver.* The probe returns 0 when the registers or a page cannot be had, so it
  "succeeds" without data; the pages are freed at remove while the card has their
  addresses; an interrupt of MDIO that comes late is taken for a page's.

## 9. What is not modelled

* **The bytes**: contents of packets, the lengths in a page that `deliver_packets`
  walks along, the words of a TLP and their repetition when the endpoint stalls.
  `start_xmit` pushes a header on the skb before the mapping can fail
  (`nf10_lbuf.c:795`), and a retry after `NETDEV_TX_BUSY` pushes it again: the ring is
  as before the call, the packet is not, and no model has its bytes.
* **User access** (`nf10_user.c`, `lbuf_rx.c`). The code is unfinished and the
  properties worth stating do not hold of it: the poll refills the ring with a page
  the user has not mapped; `PREPARE_RX` posts the slot's new page again and advances
  `prod` a second time; consumed pages are never freed; a page closed between the
  test and the sleep of `WAIT_INTR` is missed; neither release nor `INIT` knows which
  pages are mapped.
* **`interrupt_en.v`**: a switch at BAR2 + 0x20 that nothing writes; and the rings
  of the unused descriptor interface.
* **`nf10_lbuf.c:285`** reads a descriptor that was just freed; the model reads what
  was there.
* The MDIO interface's share of the bus's interrupt line, which is used before any
  page is posted.
* `skbpool_alloc_single` (never called), ethtool (a message level), scripts, and
  the wiring of vendor cores hold no protocol of their own.
* Loss of the link: the card's reset is modelled where `nf10_up` makes it.

## 10. What could come next

1. **Walk**: `deliver_packets` as a function against the frames of a page that
   `PageExact` describes.
2. **Across the life**: the life of `Device` around the transmit ring:
   `free_tx_completion_buffer` at down, the last purge and its `BUG_ON` at free
   (`nf10_lbuf.c:644`).
