------------------------------- MODULE TxPath -------------------------------
(***************************************************************************)
(* Transmission of socket buffers, from start_xmit to the freeing of the   *)
(* skb: the descriptor ring and the pending-gc list of the driver          *)
(* (sw/driver/nf10_lbuf.c), the two words the NIC writes in host memory    *)
(* (the completion flags and the last-gc address) and the page registers,  *)
(* read engine and notification machines of the NIC                        *)
(* (hw/my_engine/src/tx_*.v).                                              *)
(*                                                                         *)
(* Three actors interleave: a CPU in start_xmit, the CPU that runs NAPI    *)
(* and the NIC. tx_lock serialises the first two.  A buffer is named by    *)
(* its DMA address; an address is free to be used again as soon as its skb *)
(* is freed, as kmalloc reuses memory.                                     *)
(***************************************************************************)
EXTENDS DescRing, Sequences, FiniteSets

CONSTANTS
  Addr,          \* DMA addresses an skb can be mapped at
  MaxReq,        \* read requests the largest packet is split into
  MaxOutstanding,\* read requests in flight (4 in the NIC)
  OrderedReads,  \* the host answers read requests in the order they came
  PromptNotify,  \* a notification leaves before the next answer arrives
  SlowReuse,     \* the host reuses a slot after its last notification
  MaxLeaks       \* allocation failures in add_to_pending_gc_list (a bound)

ASSUME ConstantsAssumption ==
  /\ NULL \notin Addr
  /\ MaxReq \in Nat \ {0}
  /\ MaxOutstanding \in Nat \ {0}
  /\ OrderedReads \in BOOLEAN
  /\ PromptNotify \in BOOLEAN
  /\ SlowReuse \in BOOLEAN
  /\ MaxLeaks \in Nat

VARIABLES
  pending,       \* pending_gc_head
  leaked,        \* skbs no list refers to any more
  lock,          \* holder of tx_lock
  xpc,           \* progress of start_xmit
  gpc,           \* progress of nf10_poll on clean_tx_irq
  lastGc,        \* tx_last_gc_addr, the local copy
  complete,      \* the result of clean_tx_irq
  completion,    \* completion flags in host memory, TRUE is 0xcacabeef
  gcAddr,        \* last_gc_addr in host memory
  pageAddr, pageReqs, pageStatus, \* page registers of the NIC
  giveTurn, reading, readAddr, left, \* page being read, requests left
  requests,      \* read requests not yet committed, oldest first
  rdCompleted,   \* send_rd_completed: a completion write is due
  hpIndex,       \* slot of the next completion write
  notif,         \* one notification machine for each slot
  mixer,         \* address in the mixer, waiting for the bus
  irq            \* send_interrupt

gcVars   == <<pending, leaked>>
pollVars == <<gpc, lastGc, complete>>
pageVars == <<pageAddr, pageReqs, pageStatus>>
readVars == <<giveTurn, reading, readAddr, left, requests>>
doneVars == <<rdCompleted, hpIndex>>
noteVars == <<notif, mixer, irq>>
vars == <<ringVars, gcVars, lock, xpc, pollVars, completion, gcAddr,
          pageVars, readVars, doneVars, noteVars>>

-----------------------------------------------------------------------------
(* The driver's ring. *)

(* A mutant of MoreCompleted: the completion flag is not looked at. *)
MoreInRing == ~Empty

(* The loop condition of check_tx_completion. *)
MoreCompleted == ~Empty /\ completion[cons]

Elements(s) == {s[k] : k \in DOMAIN s}

(* Addresses of the skbs that are mapped and not yet freed. *)
Live == ({desc[i] : i \in Slots} \cup Elements(pending) \cup leaked
         \cup (IF xpc = "stat" THEN {pageAddr[prod]} ELSE {})) \ {NULL}

-----------------------------------------------------------------------------
(* The NIC's notification machines. *)

Idle == [state |-> "idle", addr |-> NULL, need |-> 0, got |-> 0]

Armed(a, n) == [state |-> "count", addr |-> a, need |-> n, got |-> 0]

Senders(nf) == {i \in Slots : nf[i].state = "send"}

(* The machine of slot i after its notification was taken: it looks at     *)
(* reading_huge_page again, and starts over if the slot is being read.     *)
Reset(i) == IF reading /\ giveTurn = i
            THEN Armed(pageAddr[i], pageReqs[i])
            ELSE Idle

(* The mixer is free: it takes the notification of the first slot that has *)
(* one. An interrupt is requested when no other slot waits for data.       *)
MixerTakes(nf) ==
  \/ /\ Senders(nf) = {}
     /\ mixer' = NULL
     /\ notif' = nf
     /\ UNCHANGED irq
  \/ \E i \in Senders(nf) :
       /\ \A j \in Senders(nf) : i <= j
       /\ mixer' = nf[i].addr
       /\ notif' = [nf EXCEPT ![i] = Reset(i)]
       /\ irq' = (irq \/ \A j \in Slots \ {i} : nf[j].state = "idle")

-----------------------------------------------------------------------------
Init ==
  /\ desc = [i \in Slots |-> NULL]
  /\ prod = 0
  /\ cons = 0
  /\ pending = <<>>
  /\ leaked = {}
  /\ lock = "free"
  /\ xpc = "idle"
  /\ gpc = "idle"
  /\ lastGc = NULL
  /\ complete = TRUE
  /\ completion = [i \in Slots |-> FALSE]
  /\ gcAddr = NULL
  /\ pageAddr = [i \in Slots |-> NULL]
  /\ pageReqs = [i \in Slots |-> 0]
  /\ pageStatus = [i \in Slots |-> FALSE]
  /\ giveTurn = 0
  /\ reading = FALSE
  /\ readAddr = NULL
  /\ left = 0
  /\ requests = <<>>
  /\ rdCompleted = FALSE
  /\ hpIndex = 0
  /\ notif = [i \in Slots |-> Idle]
  /\ mixer = NULL
  /\ irq = FALSE

-----------------------------------------------------------------------------
(* start_xmit. *)

XmitLock ==
  /\ xpc = "idle"
  /\ lock = "free"
  /\ lock' = "xmit"
  /\ xpc' = "check"
  /\ UNCHANGED <<ringVars, gcVars, pollVars, completion, gcAddr, pageVars,
                 readVars, doneVars, noteVars>>

(* Mutants of CheckCompletion: the descriptor is not cleaned; list_add in  *)
(* the place of list_add_tail.                                             *)
CheckCompletionDirty ==
  /\ \/ lock = "xmit" /\ xpc = "check"
     \/ lock = "gc" /\ gpc = "check"
  /\ MoreCompleted
  /\ pending' = Append(pending, desc[cons])
  /\ completion' = [completion EXCEPT ![cons] = FALSE]
  /\ cons' = Inc(cons)
  /\ UNCHANGED <<desc, leaked, prod, lock, xpc, pollVars, gcAddr, pageVars,
                 readVars, doneVars, noteVars>>

CheckCompletionAtHead ==
  /\ \/ lock = "xmit" /\ xpc = "check"
     \/ lock = "gc" /\ gpc = "check"
  /\ MoreCompleted
  /\ pending' = <<desc[cons]>> \o pending
  /\ desc' = [desc EXCEPT ![cons] = NULL]
  /\ completion' = [completion EXCEPT ![cons] = FALSE]
  /\ cons' = Inc(cons)
  /\ UNCHANGED <<leaked, prod, lock, xpc, pollVars, gcAddr, pageVars,
                 readVars, doneVars, noteVars>>

(* One turn of the loop of check_tx_completion, by the holder of tx_lock.  *)
(* The descriptor is copied to the pending list (or lost when no memory is *)
(* left for the copy), cleaned, and its completion flag cleared.           *)
CheckCompletion ==
  /\ \/ lock = "xmit" /\ xpc = "check"
     \/ lock = "gc" /\ gpc = "check"
  /\ MoreCompleted
  /\ \/ /\ pending' = Append(pending, desc[cons])
        /\ UNCHANGED leaked
     \/ /\ Cardinality(leaked) < MaxLeaks
        /\ leaked' = leaked \cup {desc[cons]}
        /\ UNCHANGED pending
  /\ desc' = [desc EXCEPT ![cons] = NULL]
  /\ completion' = [completion EXCEPT ![cons] = FALSE]
  /\ cons' = Inc(cons)
  /\ UNCHANGED <<prod, lock, xpc, pollVars, gcAddr, pageVars, readVars,
                 doneVars, noteVars>>

(* NETDEV_TX_BUSY: the ring is full, or the skb could not be mapped. *)
XmitBusy ==
  /\ xpc = "check"
  /\ lock = "xmit"
  /\ ~MoreCompleted
  /\ lock' = "free"
  /\ xpc' = "idle"
  /\ UNCHANGED <<ringVars, gcVars, pollVars, completion, gcAddr, pageVars,
                 readVars, doneVars, noteVars>>

(* lbuf_xmit: the address register is written before the status register. *)
XmitWriteAddr(a) ==
  /\ xpc = "check"
  /\ lock = "xmit"
  /\ ~MoreCompleted
  /\ ~Full
  /\ a \notin Live
  /\ pageAddr' = [pageAddr EXCEPT ![prod] = a]
  /\ xpc' = "stat"
  /\ UNCHANGED <<ringVars, gcVars, lock, pollVars, completion, gcAddr,
                 pageReqs, pageStatus, readVars, doneVars, noteVars>>

XmitWriteStat(n) ==
  /\ xpc = "stat"
  /\ lock = "xmit"
  /\ pageReqs' = [pageReqs EXCEPT ![prod] = n]
  /\ pageStatus' = [pageStatus EXCEPT ![prod] = TRUE]
  /\ desc' = [desc EXCEPT ![prod] = pageAddr[prod]]
  /\ prod' = Inc(prod)
  /\ lock' = "free"
  /\ xpc' = "idle"
  /\ UNCHANGED <<cons, gcVars, pollVars, completion, gcAddr, pageAddr,
                 readVars, doneVars, noteVars>>

-----------------------------------------------------------------------------
(* nf10_poll and clean_tx_irq. *)

GcEnter ==
  /\ gpc = "poll"
  /\ IF gcAddr = NULL
     THEN gpc' = "done" /\ complete' = TRUE
     ELSE gpc' = "lock" /\ UNCHANGED complete
  /\ UNCHANGED <<ringVars, gcVars, lock, xpc, lastGc, completion, gcAddr,
                 pageVars, readVars, doneVars, noteVars>>

GcLock ==
  /\ gpc = "lock"
  /\ lock = "free"
  /\ lock' = "gc"
  /\ gpc' = "check"
  /\ UNCHANGED <<ringVars, gcVars, xpc, lastGc, complete, completion, gcAddr,
                 pageVars, readVars, doneVars, noteVars>>

(* clean_tx_pending_gc: the list is freed up to the address, and all of it *)
(* when the address is not in the list.                                    *)
Remaining(a) ==
  IF \E k \in DOMAIN pending : pending[k] = a
  THEN LET k == CHOOSE k \in DOMAIN pending : pending[k] = a
       IN  SubSeq(pending, k + 1, Len(pending))
  ELSE <<>>

GcClean ==
  /\ gpc = "check"
  /\ lock = "gc"
  /\ ~MoreCompleted
  /\ lastGc' = gcAddr
  /\ pending' = Remaining(gcAddr)
  /\ complete' = (pending' = <<>>)
  /\ lock' = "free"
  /\ gpc' = "cas"
  /\ UNCHANGED <<ringVars, leaked, xpc, completion, gcAddr, pageVars,
                 readVars, doneVars, noteVars>>

(* The two tests after the lock is released have the same outcome, so the  *)
(* first is folded into the atomic cmpxchg64.                              *)
GcCas ==
  /\ gpc = "cas"
  /\ IF gcAddr = lastGc
     THEN gcAddr' = NULL /\ gpc' = "done"
     ELSE gpc' = "lock" /\ UNCHANGED gcAddr
  /\ UNCHANGED <<ringVars, gcVars, lock, xpc, lastGc, complete, completion,
                 pageVars, readVars, doneVars, noteVars>>

(* work_done stays below the budget only when the cleaning was complete:   *)
(* napi_complete, or another turn of nf10_poll.                            *)
GcDone ==
  /\ gpc = "done"
  /\ gpc' = IF complete THEN "idle" ELSE "poll"
  /\ UNCHANGED <<ringVars, gcVars, lock, xpc, lastGc, complete, completion,
                 gcAddr, pageVars, readVars, doneVars, noteVars>>

-----------------------------------------------------------------------------
(* The NIC. *)

(* give_huge_page_fsm: the slots are served in turn.  The notification     *)
(* machine of the slot starts if it is idle.                               *)
NicGive ==
  /\ ~reading
  /\ pageStatus[giveTurn]
  /\ SlowReuse => notif[giveTurn].state = "idle"
  /\ reading' = TRUE
  /\ readAddr' = pageAddr[giveTurn]
  /\ left' = pageReqs[giveTurn]
  /\ notif' = IF notif[giveTurn].state = "idle"
              THEN [notif EXCEPT ![giveTurn] =
                      Armed(pageAddr[giveTurn], pageReqs[giveTurn])]
              ELSE notif
  /\ UNCHANGED <<ringVars, gcVars, lock, xpc, pollVars, completion, gcAddr,
                 pageVars, giveTurn, requests, doneVars, mixer, irq>>

(* trigger_rd_tlp: the next read request. The last one returns the page    *)
(* (return_huge_page_to_host) and asks for the completion write, a few     *)
(* clock cycles later and long before the host can answer.                 *)
NicRequest ==
  /\ reading
  /\ ~rdCompleted
  /\ Len(requests) < MaxOutstanding
  /\ requests' = Append(requests,
                   [addr |-> readAddr, slot |-> giveTurn, done |-> FALSE])
  /\ left' = left - 1
  /\ IF left = 1
     THEN /\ reading' = FALSE
          /\ pageStatus' = [pageStatus EXCEPT ![giveTurn] = FALSE]
          /\ giveTurn' = Inc(giveTurn)
          /\ rdCompleted' = TRUE
     ELSE UNCHANGED <<reading, pageStatus, giveTurn, rdCompleted>>
  /\ UNCHANGED <<ringVars, gcVars, lock, xpc, pollVars, completion, gcAddr,
                 pageAddr, pageReqs, readAddr, hpIndex, noteVars>>

(* A mutant of NicCompletion: huge_page_index does not advance. *)
NicCompletionSameSlot ==
  /\ rdCompleted
  /\ rdCompleted' = FALSE
  /\ completion' = [completion EXCEPT ![hpIndex] = TRUE]
  /\ UNCHANGED <<ringVars, gcVars, lock, xpc, pollVars, gcAddr, pageVars,
                 readVars, hpIndex, noteVars>>

(* tx_rd_host_mem s4-s7: the completion flag of huge_page_index is set. *)
NicCompletion ==
  /\ rdCompleted
  /\ rdCompleted' = FALSE
  /\ completion' = [completion EXCEPT ![hpIndex] = TRUE]
  /\ hpIndex' = Inc(hpIndex)
  /\ UNCHANGED <<ringVars, gcVars, lock, xpc, pollVars, gcAddr, pageVars,
                 readVars, noteVars>>

(* commit_wr_addr_fsm retires the answered requests in the order of their  *)
(* tags, up to the first one that is not answered.                         *)
Commit(rs) ==
  \E m \in 1 .. Len(rs) + 1 :
    /\ \A k \in 1 .. m - 1 : rs[k].done
    /\ m <= Len(rs) => ~rs[m].done
    /\ requests' = SubSeq(rs, m, Len(rs))

(* A mutant of Counted: the notification is sent one answer early. *)
CountedEarly(m) ==
  IF m.state # "count" THEN m
  ELSE [m EXCEPT !.got = @ + 1,
                 !.state = IF m.got + 2 >= m.need THEN "send" ELSE "count"]

(* The answer to request k. The machine of its slot counts it, unless it   *)
(* is not counting; a count beyond the size never matches again.           *)
Counted(m) ==
  IF m.state # "count" THEN m
  ELSE [m EXCEPT !.got = IF @ > m.need THEN @ ELSE @ + 1,
                 !.state = IF m.got + 1 = m.need THEN "send" ELSE "count"]

NicData(k) ==
  /\ ~requests[k].done
  /\ OrderedReads => k = 1
  /\ PromptNotify => mixer = NULL
  /\ Commit([requests EXCEPT ![k].done = TRUE])
  /\ LET i  == requests[k].slot
         nf == [notif EXCEPT ![i] = Counted(notif[i])]
     IN  IF mixer = NULL THEN MixerTakes(nf)
                         ELSE notif' = nf /\ UNCHANGED <<mixer, irq>>
  /\ UNCHANGED <<ringVars, gcVars, lock, xpc, pollVars, completion, gcAddr,
                 pageVars, giveTurn, reading, readAddr, left, doneVars>>

(* tx_rd_host_mem s9-s11: the notification is written to host memory; a    *)
(* completion write that is due goes first.                                *)
NicNotify ==
  /\ mixer # NULL
  /\ ~rdCompleted
  /\ gcAddr' = mixer
  /\ MixerTakes(notif)
  /\ UNCHANGED <<ringVars, gcVars, lock, xpc, pollVars, completion, pageVars,
                 readVars, doneVars>>

(* The interrupt leaves after every notification. napi_schedule does       *)
(* nothing when a poll is already scheduled or running.                    *)
NicInterrupt ==
  /\ irq
  /\ mixer = NULL
  /\ ~rdCompleted
  /\ irq' = FALSE
  /\ gpc' = IF gpc = "idle" THEN "poll" ELSE gpc
  /\ UNCHANGED <<ringVars, gcVars, lock, xpc, lastGc, complete, completion,
                 gcAddr, pageVars, readVars, doneVars, notif, mixer>>

-----------------------------------------------------------------------------
Xmit == \/ XmitLock \/ XmitBusy
        \/ \E a \in Addr : XmitWriteAddr(a)
        \/ \E n \in 1 .. MaxReq : XmitWriteStat(n)

Poll == GcEnter \/ GcLock \/ GcClean \/ GcCas \/ GcDone

Nic == \/ NicGive \/ NicRequest \/ NicCompletion
       \/ \E k \in DOMAIN requests : NicData(k)
       \/ NicNotify \/ NicInterrupt

Next == Xmit \/ CheckCompletion \/ Poll \/ Nic

Spec == Init /\ [][Next]_vars

(* Fairness: the NIC's machines are clocked, the CPU that holds or wants   *)
(* tx_lock runs, a scheduled poll runs, and the stack calls start_xmit     *)
(* again for the skb it was told BUSY for, but owes no other call.         *)
Fairness ==
  /\ WF_vars(NicGive) /\ WF_vars(NicRequest) /\ WF_vars(NicCompletion)
  /\ WF_vars(\E k \in DOMAIN requests : NicData(k))
  /\ WF_vars(NicNotify) /\ WF_vars(NicInterrupt)
  /\ WF_vars(Poll)
  /\ WF_vars(CheckCompletion)
  /\ WF_vars(Xmit /\ xpc # "idle")
  /\ SF_vars(XmitLock /\ Full)

FairSpec == Spec /\ Fairness

-----------------------------------------------------------------------------
Request == [addr : Addr, slot : Slots, done : BOOLEAN]

Notification == [state : {"idle", "count", "send"}, addr : Addr \cup {NULL},
                 need : Nat, got : Nat]

(* The type of every variable. *)
TypeOK ==
  /\ desc \in [Slots -> Addr \cup {NULL}]
  /\ prod \in Slots /\ cons \in Slots
  /\ pending \in Seq(Addr)
  /\ leaked \in SUBSET Addr
  /\ lock \in {"free", "xmit", "gc"}
  /\ xpc \in {"idle", "check", "stat"}
  /\ gpc \in {"idle", "poll", "lock", "check", "cas", "done"}
  /\ lastGc \in Addr \cup {NULL}
  /\ complete \in BOOLEAN
  /\ completion \in [Slots -> BOOLEAN]
  /\ gcAddr \in Addr \cup {NULL}
  /\ pageAddr \in [Slots -> Addr \cup {NULL}]
  /\ pageReqs \in [Slots -> 0 .. MaxReq]
  /\ pageStatus \in [Slots -> BOOLEAN]
  /\ giveTurn \in Slots
  /\ reading \in BOOLEAN
  /\ readAddr \in Addr \cup {NULL}
  /\ left \in 0 .. MaxReq
  /\ requests \in Seq(Request)
  /\ rdCompleted \in BOOLEAN
  /\ hpIndex \in Slots
  /\ notif \in [Slots -> Notification]
  /\ mixer \in Addr \cup {NULL}
  /\ irq \in BOOLEAN

(* Each buffer of the ring is at one place of its way through the NIC, and *)
(* what the NIC reads is what the driver posted: a clean slot is not known *)
(* to the NIC, a posted one has no completion flag yet, the slot whose     *)
(* completion write is due has no flag and is not posted.  So the driver   *)
(* never rewrites the registers of a page the NIC still reads, and no      *)
(* completion write is lost or cleared unseen (check_tx_completion clears  *)
(* the flag, lbuf_xmit posts the slot again).                              *)
SlotProtocol ==
  /\ \A i \in Slots :
       /\ desc[i] = NULL => ~pageStatus[i] /\ ~completion[i]
       /\ pageStatus[i] => pageAddr[i] = desc[i] /\ ~completion[i]
  /\ reading => pageStatus[giveTurn] /\ readAddr = desc[giveTurn]
  /\ rdCompleted => /\ desc[hpIndex] # NULL
                    /\ ~pageStatus[hpIndex]
                    /\ ~completion[hpIndex]

(* Reads of the buffer the NIC may still issue, or the host still answer. *)
ReadInFlight(a) ==
  \/ reading /\ readAddr = a
  \/ \E k \in DOMAIN requests : requests[k].addr = a /\ ~requests[k].done

(* No skb is freed (and unmapped) while the NIC still reads it: the purge  *)
(* of clean_tx_pending_gc up to an address that need not be in the list    *)
(* only ever frees what was notified (nf10_lbuf.c:276-293).                *)
GcSafe == \A a \in Addr : ReadInFlight(a) => a \in Live

(* A ring that is full opens again: NETDEV_TX_BUSY is not for ever, though *)
(* the stack's queue is not stopped (nf10_lbuf.c:772-784).                 *)
RingReopens == Full ~> ~Full

(* Every skb handed to the NIC is freed in the end, with no other packet   *)
(* sent after it: clean_tx_irq leaves nothing behind when it returns       *)
(* "clean complete" (nf10_lbuf.c:818-819).                                 *)
SkbFreed == \A a \in Addr : (\E i \in Slots : desc[i] = a) ~> a \notin Live

-----------------------------------------------------------------------------
(* The abstract view: the pending list followed by the ring. *)
RingLength == Cardinality({i \in Slots : desc[i] # NULL})

Queue == pending \o [k \in 1 .. RingLength |-> desc[(cons + k - 1) % N]]

Unread(a) == ReadInFlight(a) \/ \E i \in Slots : pageStatus[i] /\ desc[i] = a

Service == INSTANCE TxService WITH
             queue <- Queue,
             fetched <- {a \in Elements(Queue) : ~Unread(a)}

(* Transmission implements its service: skbs are freed in the order they   *)
(* were accepted, once, and only when fetched.                             *)
ImplementsService == Service!Spec
=============================================================================
