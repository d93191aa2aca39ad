------------------------------ MODULE SkbPool ------------------------------
(***************************************************************************)
(* The pool of preallocated skbs (sw/driver/skbpool.c) under the walk over *)
(* a page, deliver_packets of sw/driver/nf10_lbuf.c, with CONFIG_SKBPOOL.  *)
(*                                                                         *)
(* Entries are linked by llist: the pool, the queue of received packets,   *)
(* and the chain the poll works on, whose rest stays behind the static     *)
(* skb_free_list from one page to the next.  The poll takes entries from   *)
(* that chain, the pool's worker allocates, the receive worker hands up    *)
(* and frees.  The list operations are those of llist: the head is         *)
(* exchanged in one step, the counter of the pool in another.              *)
(***************************************************************************)
EXTENDS Naturals, FiniteSets

CONSTANTS
  Entries,   \* objects the cache can allocate
  MinPool,   \* min_skbpool_list
  BatchSize, \* nr_batch_alloc
  MaxPackets \* valid packets in a page

ASSUME PoolAssumption ==
  /\ Entries \in Nat \ {0} /\ MinPool \in Nat \ {0}
  /\ BatchSize \in Nat \ {0} /\ MaxPackets \in Nat

Entry  == 1 .. Entries
Null   == 0
Static == Entries + 1   \* skb_free_list
Bad    == Entries + 2   \* &skb_entry->node of a NULL skb_entry

VARIABLES
  next,                 \* node.next
  skb,                  \* of an entry: "free", "empty", "full", "given"
  pool, nr, poolWork,   \* skbpool_list, nr_skbpool_list, skbpool_work pending
  rxList, rxWork,       \* lbuf_hw.rxq, rx_work pending
  pollAt, entry, first, final, left, got, \* deliver_packets, skbpool_alloc
  fillAt, head, tail, filled,             \* skbpool_worker
  upAt, batch,          \* nf10_lbuf_rx_worker
  failed, oops,         \* no skb for a packet; a Bad pointer was followed
  closing               \* nf10_lbuf_free

listVars == <<next, skb>>
poolList == <<pool, nr, poolWork>>
rxVars   == <<rxList, rxWork>>
pollVars == <<pollAt, entry, first, final, left, got>>
fillVars == <<fillAt, head, tail, filled>>
upVars   == <<upAt, batch>>
poolVars == <<listVars, poolList, rxVars, pollVars, fillVars, upVars, failed,
              oops, closing>>

(* skbpool_init; the counter is a static atomic_t. *)
PoolInit ==
  /\ next = [e \in Entry \cup {Static} |-> Null]
  /\ skb = [e \in Entry |-> "free"]
  /\ pool = Null /\ nr = 0 /\ poolWork = TRUE
  /\ rxList = Null /\ rxWork = FALSE
  /\ pollAt = "idle" /\ entry = Null /\ first = Null /\ final = Null
  /\ left = 0 /\ got = Null
  /\ fillAt = "idle" /\ head = Null /\ tail = Null /\ filled = 0
  /\ upAt = "idle" /\ batch = Null
  /\ failed = FALSE /\ oops = FALSE
  /\ closing = "open"

(* The entries of the list that begins at e (for_each_entry): the least    *)
(* set that has e and what its members point to.                           *)
Closed(nx, s) == \A x \in s : nx[x] \in Entry => nx[x] \in s

Reach(nx, e) ==
  {x \in DOMAIN nx : e \in DOMAIN nx /\ \A s \in SUBSET DOMAIN nx :
                                          e \in s /\ Closed(nx, s) => x \in s}

Linked(e) == Reach(next, e)

Broken(e) == e = Bad \/ \E x \in Linked(e) : next[x] = Bad

(* skbpool_free of all es. What a free object holds is of no interest.     *)
Free(es) ==
  /\ skb' = [e \in Entry |-> IF e \in es THEN "free" ELSE skb[e]]
  /\ next' = [e \in DOMAIN next |-> IF e \in es THEN Null ELSE next[e]]

(* skbpool_entry_alloc: the n objects the cache has at hand, all there are *)
(* when there are fewer.                                                   *)
Batch(n) ==
  LET unused == {e \in Entry : skb[e] = "free"}
  IN {e \in unused : Cardinality({f \in unused : f < e}) < n}

-----------------------------------------------------------------------------
(* deliver_packets on a page with n packets of a valid length; the first   *)
(* skbpool_prefetch_next follows the static entry.                         *)
PollPage ==
  /\ pollAt = "idle" /\ closing = "open"
  /\ \E n \in 1 .. MaxPackets :
       pollAt' = "alloc" /\ left' = n
  /\ entry' = Static /\ first' = Null /\ final' = Null /\ got' = Null
  /\ oops' = (next[Static] = Bad)
  /\ UNCHANGED <<listVars, poolList, rxVars, fillVars, upVars, failed, closing>>

(* The packet is copied to the skb of entry e, or skipped without one.     *)
Packet(e) ==
  /\ entry' = e
  /\ first' = IF first = Null THEN e ELSE first
  /\ final' = IF e = Null THEN final ELSE e
  /\ skb' = [x \in Entry |-> IF x = e THEN "full" ELSE skb[x]]
  /\ left' = left - 1
  /\ pollAt' = IF left > 1 THEN "alloc"
               ELSE IF final' = Null THEN "idle" ELSE "add"

(* skbpool_alloc: the entry linked to the last one. *)
PollNext ==
  /\ pollAt = "alloc" /\ entry # Null /\ next[entry] # Null
  /\ Packet(next[entry])
  /\ UNCHANGED <<next, got, poolList, rxVars, fillVars, upVars, failed, oops,
                 closing>>

AtEnd == pollAt = "alloc" /\ (entry # Null => next[entry] = Null)

(* The whole pool is taken: skbpool_del_all. *)
PollTake ==
  /\ AtEnd /\ pool # Null
  /\ got' = pool
  /\ pool' = Null
  /\ pollAt' = "reset"
  /\ UNCHANGED <<listVars, nr, poolWork, rxVars, entry, first, final, left,
                 fillVars, upVars, failed, oops, closing>>

Link(e) == next' = IF entry = Null THEN next ELSE [next EXCEPT ![entry] = e]

(* A mutant of PollReset: the counter is not set to 0.                     *)
PollResetKeeps ==
  /\ pollAt = "reset"
  /\ poolWork' = TRUE
  /\ Link(got) /\ Packet(got)
  /\ got' = Null
  /\ UNCHANGED <<pool, nr, rxVars, fillVars, upVars, failed, oops, closing>>

(* ... and the counter set, the chain linked, the worker queued.           *)
PollReset ==
  /\ pollAt = "reset"
  /\ nr' = 0
  /\ poolWork' = TRUE
  /\ Link(got) /\ Packet(got)
  /\ got' = Null
  /\ UNCHANGED <<pool, rxVars, fillVars, upVars, failed, oops, closing>>

(* The pool is empty: a single entry. Without memory the address of the    *)
(* node of a NULL entry is linked.                                         *)
PollFallback ==
  /\ AtEnd /\ pool = Null
  /\ poolWork' = TRUE
  /\ \E e \in Batch(1) \cup {Null} :
       /\ IF e = Null
          THEN /\ failed' = TRUE
               /\ Link(Bad)
          ELSE /\ failed' = failed
               /\ next' = [x \in DOMAIN next |->
                             IF x = e THEN Null
                             ELSE IF x = entry THEN e ELSE next[x]]
       /\ Packet(e)
  /\ UNCHANGED <<got, pool, nr, rxVars, fillVars, upVars, oops, closing>>

(* A mutant of PollAdd: the batch is added before its end is kept.         *)
PollAddFirst ==
  /\ pollAt = "add"
  /\ next' = [next EXCEPT ![final] = rxList, ![Static] = rxList]
  /\ rxList' = first
  /\ pollAt' = "queue"
  /\ UNCHANGED <<skb, poolList, rxWork, entry, first, final, left, got, fillVars,
                 upVars, failed, oops, closing>>

(* skb_free_list = *skb_entry_last, and skbpool_add_batch.                 *)
PollAdd ==
  /\ pollAt = "add"
  /\ next' = [next EXCEPT ![final] = rxList, ![Static] = next[final]]
  /\ rxList' = first
  /\ pollAt' = "queue"
  /\ UNCHANGED <<skb, poolList, rxWork, entry, first, final, left, got, fillVars,
                 upVars, failed, oops, closing>>

(* A mutant of PollQueue: the worker is queued only when it is idle.       *)
PollQueueIdle ==
  /\ pollAt = "queue"
  /\ rxWork' = (rxWork \/ upAt = "idle")
  /\ pollAt' = "idle" /\ entry' = Null /\ first' = Null /\ final' = Null
  /\ UNCHANGED <<listVars, poolList, rxList, left, got, fillVars, upVars, failed,
                 oops, closing>>

PollQueue ==
  /\ pollAt = "queue"
  /\ rxWork' = TRUE
  /\ pollAt' = "idle" /\ entry' = Null /\ first' = Null /\ final' = Null
  /\ UNCHANGED <<listVars, poolList, rxList, left, got, fillVars, upVars, failed,
                 oops, closing>>

PollStep == PollNext \/ PollTake \/ PollReset \/ PollFallback \/ PollAdd
            \/ PollQueue

-----------------------------------------------------------------------------
(* skbpool_worker *)
FillStart ==
  /\ fillAt = "idle" /\ poolWork
  /\ poolWork' = FALSE
  /\ fillAt' = "test"
  /\ UNCHANGED <<listVars, pool, nr, rxVars, pollVars, head, tail, filled, upVars,
                 failed, oops, closing>>

(* A batch of up to BatchSize entries, fewer when memory runs out; with    *)
(* none the worker gives up.  The first one allocated is at the tail.      *)
FillBatch ==
  /\ fillAt = "test" /\ nr < MinPool
  /\ \E n \in 0 .. BatchSize :
       LET new == Batch(n)
       IN /\ Cardinality(new) = n
          /\ fillAt' = IF n = 0 THEN "idle" ELSE "add"
          /\ head' = IF n = 0 THEN Null ELSE CHOOSE e \in new : \A f \in new : e >= f
          /\ tail' = IF n = 0 THEN Null ELSE CHOOSE e \in new : \A f \in new : e <= f
          /\ filled' = n
          /\ skb' = [e \in Entry |-> IF e \in new THEN "empty" ELSE skb[e]]
          /\ next' = [e \in DOMAIN next |->
                        IF e \in new \ {tail'}
                        THEN CHOOSE f \in new : f < e /\ \A g \in new : g < e => g <= f
                        ELSE next[e]]
  /\ UNCHANGED <<poolList, rxVars, pollVars, upVars, failed, oops, closing>>

FillEnough ==
  /\ fillAt = "test" /\ nr >= MinPool
  /\ fillAt' = "idle"
  /\ UNCHANGED <<listVars, poolList, rxVars, pollVars, head, tail, filled, upVars,
                 failed, oops, closing>>

FillAdd ==
  /\ fillAt = "add"
  /\ next' = [next EXCEPT ![tail] = pool]
  /\ pool' = head
  /\ head' = Null /\ tail' = Null
  /\ fillAt' = "count"
  /\ UNCHANGED <<skb, nr, poolWork, rxVars, pollVars, filled, upVars, failed,
                 oops, closing>>

(* The counter follows the list: a poll may have taken the batch already.  *)
FillCount ==
  /\ fillAt = "count"
  /\ nr' = nr + filled
  /\ filled' = 0
  /\ fillAt' = "test"
  /\ UNCHANGED <<listVars, pool, poolWork, rxVars, pollVars, head, tail, upVars,
                 failed, oops, closing>>

Fill == FillStart \/ FillBatch \/ FillEnough \/ FillAdd \/ FillCount

-----------------------------------------------------------------------------
(* nf10_lbuf_rx_worker runs, no longer pending; it takes the queue, hands  *)
(* up every skb ...                                                        *)
UpStart ==
  /\ upAt = "idle" /\ rxWork
  /\ rxWork' = FALSE
  /\ upAt' = "take"
  /\ UNCHANGED <<listVars, poolList, rxList, pollVars, fillVars, batch, failed, oops,
                 closing>>

UpTake ==
  /\ upAt = "take"
  /\ batch' = rxList
  /\ rxList' = Null
  /\ upAt' = IF rxList = Null THEN "idle" ELSE "deliver"
  /\ UNCHANGED <<listVars, poolList, rxWork, pollVars, fillVars, failed, oops, closing>>

UpDeliver ==
  /\ upAt = "deliver"
  /\ skb' = [e \in Entry |-> IF e \in Linked(batch) THEN "given" ELSE skb[e]]
  /\ upAt' = "free"
  /\ oops' = Broken(batch)
  /\ UNCHANGED <<next, batch, poolList, rxVars, pollVars, fillVars, failed, closing>>

(* ... and frees the entries.                                              *)
UpFree ==
  /\ upAt = "free"
  /\ Free(Linked(batch))
  /\ upAt' = "idle"
  /\ batch' = Null
  /\ UNCHANGED <<poolList, rxVars, pollVars, fillVars, failed, oops, closing>>

Up == UpStart \/ UpTake \/ UpDeliver \/ UpFree

-----------------------------------------------------------------------------
(* nf10_lbuf_free: the chain behind skb_free_list (and the static entry    *)
(* itself, whose skb is the last one that was handed up), the queue, the   *)
(* pool once its worker is done, the work queue.                           *)
CloseChain ==
  /\ closing = "open" /\ pollAt = "idle"
  /\ closing' = "queue"
  /\ Free(Linked(next[Static]) \cup {Static})
  /\ oops' = Broken(next[Static])
  /\ UNCHANGED <<poolList, rxVars, pollVars, fillVars, upVars, failed>>

CloseQueue ==
  /\ closing = "queue"
  /\ closing' = "pool"
  /\ rxList' = Null
  /\ Free(Linked(rxList))
  /\ oops' = Broken(rxList)
  /\ UNCHANGED <<poolList, rxWork, pollVars, fillVars, upVars, failed>>

ClosePool ==
  /\ closing = "pool" /\ fillAt = "idle" /\ ~poolWork
  /\ closing' = "work"
  /\ pool' = Null /\ nr' = 0
  /\ Free(Linked(pool))
  /\ UNCHANGED <<poolWork, rxVars, pollVars, fillVars, upVars, failed, oops>>

CloseWork ==
  /\ closing = "work" /\ upAt = "idle" /\ ~rxWork
  /\ closing' = "closed"
  /\ UNCHANGED <<listVars, poolList, rxVars, pollVars, fillVars, upVars, failed,
                 oops>>

Close == CloseChain \/ CloseQueue \/ ClosePool \/ CloseWork

PoolNext == ~oops /\ (PollPage \/ PollStep \/ Fill \/ Up \/ Close)

PoolSpec == PoolInit /\ [][PoolNext]_poolVars

(* Work that is queued is done, and a poll ends.                           *)
PoolFairness ==
  /\ WF_poolVars(~oops /\ PollStep)
  /\ WF_poolVars(~oops /\ Fill)
  /\ WF_poolVars(~oops /\ Up)

PoolFairSpec == PoolSpec /\ PoolFairness
-----------------------------------------------------------------------------
(* What the poll holds: its packets and the chain they come from.          *)
PollHolds ==
  Linked(got) \cup Linked(IF first = Null \/ pollAt = "queue" THEN next[Static] ELSE first)

Lists == <<Linked(pool), Linked(rxList), Linked(head),
           PollHolds, Linked(batch)>>

(* An skb is in one list: it is never given to a packet while it is in the *)
(* pool, the queue or the hands of the receive worker, and none is lost,   *)
(* unless a packet got none.  Those of the pool and of the chain hold no   *)
(* packet, those of the queue do.  After nf10_lbuf_free none is left.      *)
OneList ==
  ~failed =>
    /\ \A i, j \in DOMAIN Lists : i # j => Lists[i] \cap Lists[j] = {}
    /\ UNION {Lists[i] : i \in DOMAIN Lists} = {e \in Entry : skb[e] # "free"}
    /\ \A e \in Linked(pool) \cup Linked(head) : skb[e] = "empty"
    /\ \A e \in Linked(rxList) : skb[e] = "full"
    /\ pollAt = "idle" => \A e \in Linked(next[Static]) : skb[e] = "empty"
    /\ closing = "closed" => \A e \in Entry : skb[e] = "free"

(* The counter of the pool, which follows the list in a step of its own,   *)
(* never says more than a batch too much, so that a pool that is empty     *)
(* while the counter stands is still refilled when its worker is queued    *)
(* (for a batch below the minimum).                                        *)
CountClose == pollAt # "reset" => nr <= Cardinality(Linked(pool)) + BatchSize

(* Packets that are queued have a worker to come: no queue_work is lost    *)
(* between the poll that adds and the worker that has just looked.         *)
HandedUp == rxList # Null /\ ~oops => rxWork \/ upAt = "take" \/ pollAt = "queue"
=============================================================================
