--------------------------- MODULE TxPath_proofs ---------------------------
(***************************************************************************)
(* Proofs about TxPath for every number of slots, every set of addresses   *)
(* and every packet size.                                                  *)
(*                                                                         *)
(* The first part, up to SlotsCorrect, holds for every behaviour of the    *)
(* host bus: it does not depend on OrderedReads, PromptNotify, SlowReuse   *)
(* or MaxLeaks.  The second part assumes the calm host, Calm below: that   *)
(* nothing is freed under the NIC, and that transmission implements its    *)
(* service.  The runs tx_out_of_order and tx_stranded show what happens    *)
(* without it.                                                             *)
(***************************************************************************)
EXTENDS TxPath, SequenceTheorems, FiniteSetTheorems, FunctionTheorems, TLAPS

(* tx_lock is held by the actor whose progress says so. *)
LockInv ==
  /\ xpc # "idle" <=> lock = "xmit"
  /\ gpc = "check" <=> lock = "gc"

(* lbuf_xmit between its two register writes: the slot is still clean, and *)
(* the address that was written is the buffer's.                           *)
PostInv == xpc = "stat" => ~Full /\ pageAddr[prod] \in Addr

(* The completion writes follow the page returns, one step behind. *)
TurnInv == giveTurn = IF rdCompleted THEN Inc(hpIndex) ELSE hpIndex

(* A posted page has something to read, and so has the page being read. *)
SizeInv ==
  /\ \A i \in Slots : pageStatus[i] => pageReqs[i] \in 1 .. MaxReq
  /\ reading => left \in 1 .. MaxReq

IInv == /\ TypeOK /\ LockInv /\ PostInv /\ TurnInv /\ SizeInv
        /\ RingExact /\ SlotProtocol

-----------------------------------------------------------------------------
(* The next slot is a slot. *)
LEMMA IncInSlots == ASSUME NEW p \in Slots PROVE Inc(p) \in Slots
BY RingAssumption, ConstantsAssumption DEF Inc, Slots

(* What is left of a sequence after its first elements are dropped. *)
LEMMA SuffixInSeq ==
  ASSUME NEW S, NEW s \in Seq(S), NEW m \in 1 .. Len(s) + 1
  PROVE  SubSeq(s, m, Len(s)) \in Seq(S)
<1>1. Len(s) \in Nat
  BY LenProperties
<1>2. \A k \in m .. Len(s) : s[k] \in S
  BY <1>1, ElementOfSeq
<1> QED BY <1>1, <1>2, SubSeqProperties

(* What clean_tx_pending_gc leaves is a list of addresses. *)
LEMMA RemainingInSeq ==
  ASSUME TypeOK, NEW a
  PROVE  Remaining(a) \in Seq(Addr)
<1>1. pending \in Seq(Addr) /\ Len(pending) \in Nat
     /\ DOMAIN pending = 1 .. Len(pending)
  BY LenProperties DEF TypeOK
<1>2. CASE \E k \in DOMAIN pending : pending[k] = a
  <2> DEFINE k == CHOOSE k \in DOMAIN pending : pending[k] = a
  <2>1. k \in 1 .. Len(pending)
    BY <1>1, <1>2
  <2>2. Remaining(a) = SubSeq(pending, k + 1, Len(pending))
    BY <1>2 DEF Remaining
  <2> HIDE DEF k
  <2> QED BY <1>1, <2>1, <2>2, SuffixInSeq
<1>3. CASE ~ \E k \in DOMAIN pending : pending[k] = a
  BY <1>3, EmptySeq DEF Remaining
<1> QED BY <1>2, <1>3

-----------------------------------------------------------------------------
(* The first state. *)
LEMMA InitIInv == Init => IInv
<1> SUFFICES ASSUME Init PROVE IInv
  OBVIOUS
<1> USE RingAssumption, ConstantsAssumption DEF Init, Slots
<1>1. TypeOK
  <2>1. Idle \in Notification
    BY DEF Idle, Notification
  <2>2. notif \in [Slots -> Notification]
    BY <2>1
  <2>3. pending \in Seq(Addr) /\ requests \in Seq(Request)
    BY EmptySeq
  <2> QED BY <2>2, <2>3 DEF TypeOK
<1>2. LockInv /\ PostInv /\ TurnInv /\ SizeInv
  BY DEF LockInv, PostInv, TurnInv, SizeInv
<1>3. RingExact /\ SlotProtocol
  BY DEF RingExact, InWindow, Full, SlotProtocol
<1> QED BY <1>1, <1>2, <1>3 DEF IInv

(* A machine is armed with a page's registers. *)
LEMMA ArmedType ==
  ASSUME TypeOK, NEW i \in Slots
  PROVE  Armed(pageAddr[i], pageReqs[i]) \in Notification
<1>1. pageAddr[i] \in Addr \cup {NULL} /\ pageReqs[i] \in Nat
  BY RingAssumption, ConstantsAssumption DEF TypeOK
<1> QED BY <1>1 DEF Armed, Notification

(* What MixerTakes does to the three variables it writes. *)
LEMMA MixerTakesType ==
  ASSUME NEW nf \in [Slots -> Notification],
         TypeOK, MixerTakes(nf)
  PROVE  /\ notif' \in [Slots -> Notification]
         /\ mixer' \in Addr \cup {NULL}
         /\ irq' \in BOOLEAN
<1>1. CASE mixer' = NULL /\ notif' = nf /\ UNCHANGED irq
  BY <1>1 DEF TypeOK
<1>2. ASSUME NEW i \in Slots,
             mixer' = nf[i].addr,
             notif' = [nf EXCEPT ![i] = Reset(i)],
             irq' = (irq \/ \A j \in Slots \ {i} : nf[j].state = "idle")
      PROVE  /\ notif' \in [Slots -> Notification]
             /\ mixer' \in Addr \cup {NULL}
             /\ irq' \in BOOLEAN
  <2>1. Reset(i) \in Notification
    BY ArmedType DEF Reset, Idle, Notification
  <2>2. nf[i].addr \in Addr \cup {NULL}
    BY DEF Notification
  <2>3. irq' \in BOOLEAN
    BY <1>2, Zenon
  <2> QED BY <1>2, <2>1, <2>2, <2>3
<1> QED BY <1>1, <1>2 DEF MixerTakes, Senders

(* A counting machine stays a machine. *)
LEMMA CountedType ==
  ASSUME NEW m \in Notification
  PROVE  Counted(m) \in Notification
<1>1. CASE m.state # "count"
  BY <1>1 DEF Counted
<1>2. CASE m.state = "count"
  <2> DEFINE g == IF m.got > m.need THEN m.got ELSE m.got + 1
             t == IF m.got + 1 = m.need THEN "send" ELSE "count"
  <2>1. g \in Nat /\ t \in {"idle", "count", "send"}
    BY DEF Notification
  <2>2. Counted(m) = [m EXCEPT !.got = g, !.state = t]
    BY <1>2 DEF Counted
  <2> HIDE DEF g, t
  <2> QED BY <2>1, <2>2 DEF Notification
<1> QED BY <1>1, <1>2

(* Every step keeps the types. *)
LEMMA TypeStep == IInv /\ [Next]_vars => TypeOK'
<1> SUFFICES ASSUME IInv, [Next]_vars PROVE TypeOK'
  OBVIOUS
<1>0. TypeOK
  BY DEF IInv
<1> USE <1>0, RingAssumption, ConstantsAssumption
<1>1. CASE Xmit
  <2>1. CASE XmitLock \/ XmitBusy
    <3>1. /\ xpc' \in {"idle", "check", "stat"}
          /\ lock' \in {"free", "xmit", "gc"}
      BY <2>1 DEF XmitLock, XmitBusy
    <3>2. UNCHANGED <<ringVars, gcVars, pollVars, completion, gcAddr, pageVars,
                      readVars, doneVars, noteVars>>
      BY <2>1 DEF XmitLock, XmitBusy
    <3> QED BY <3>1, <3>2 DEF TypeOK, ringVars, gcVars, pollVars, pageVars,
                              readVars, doneVars, noteVars
  <2>2. ASSUME NEW a \in Addr, XmitWriteAddr(a) PROVE TypeOK'
    BY <2>2 DEF XmitWriteAddr, TypeOK, ringVars, gcVars, pollVars,
                readVars, doneVars, noteVars
  <2>3. ASSUME NEW n \in 1 .. MaxReq, XmitWriteStat(n) PROVE TypeOK'
    BY <2>3, IncInSlots DEF XmitWriteStat, TypeOK, gcVars, pollVars,
                readVars, doneVars, noteVars
  <2> QED BY <1>1, <2>1, <2>2, <2>3 DEF Xmit
<1>2. CASE CheckCompletion
  <2>1. desc[cons] \in Addr
    BY <1>2 DEF IInv, CheckCompletion, MoreCompleted, SlotProtocol, TypeOK
  <2>2. Append(pending, desc[cons]) \in Seq(Addr)
    BY <2>1, AppendProperties DEF TypeOK
  <2>3. pending' \in Seq(Addr) /\ leaked' \in SUBSET Addr
    BY <1>2, <2>1, <2>2 DEF CheckCompletion, TypeOK
  <2>4. desc' \in [Slots -> Addr \cup {NULL}] /\ completion' \in [Slots -> BOOLEAN]
    BY <1>2 DEF CheckCompletion, TypeOK
  <2>5. cons' \in Slots
    BY <1>2, IncInSlots DEF CheckCompletion, TypeOK
  <2> QED BY <1>2, <2>3, <2>4, <2>5
          DEF CheckCompletion, TypeOK, pollVars, pageVars, readVars,
              doneVars, noteVars
<1>3. CASE Poll
  <2>1. CASE GcEnter \/ GcLock \/ GcCas \/ GcDone
    <3>1. /\ gpc' \in {"idle", "poll", "lock", "check", "cas", "done"}
          /\ lock' \in {"free", "xmit", "gc"}
          /\ gcAddr' \in Addr \cup {NULL}
      BY <2>1 DEF GcEnter, GcLock, GcCas, GcDone, TypeOK
    <3>2. complete' \in BOOLEAN
      BY <2>1 DEF GcEnter, GcLock, GcCas, GcDone, TypeOK
    <3>3. UNCHANGED <<ringVars, gcVars, xpc, lastGc, completion, pageVars,
                      readVars, doneVars, noteVars>>
      BY <2>1 DEF GcEnter, GcLock, GcCas, GcDone
    <3> QED BY <3>1, <3>2, <3>3 DEF TypeOK, ringVars, gcVars, pageVars,
                                    readVars, doneVars, noteVars
  <2>2. CASE GcClean
    BY <2>2, RemainingInSeq DEF GcClean, TypeOK, ringVars,
                pageVars, readVars, doneVars, noteVars
  <2> QED BY <1>3, <2>1, <2>2 DEF Poll
<1>4. CASE Nic
  <2>1. CASE NicGive
    <3>1. notif' \in [Slots -> Notification]
      BY <2>1, ArmedType DEF NicGive, TypeOK
    <3> QED BY <2>1, <3>1 DEF NicGive, TypeOK, ringVars, gcVars, pollVars,
                pageVars, doneVars
  <2>2. CASE NicRequest
    <3>1. requests' \in Seq(Request)
      <4>1. readAddr \in Addr
        BY <2>2 DEF IInv, NicRequest, SlotProtocol, TypeOK
      <4>2. [addr |-> readAddr, slot |-> giveTurn, done |-> FALSE]
              \in Request
        BY <4>1 DEF TypeOK, Request
      <4> QED BY <2>2, <4>2, AppendProperties DEF NicRequest, TypeOK
    <3>2. left' \in 0 .. MaxReq
      BY <2>2 DEF IInv, NicRequest, SizeInv
    <3>3. /\ reading' \in BOOLEAN /\ rdCompleted' \in BOOLEAN
          /\ pageStatus' \in [Slots -> BOOLEAN]
      <4>1. CASE left = 1
        <5>1. /\ reading' = FALSE /\ rdCompleted' = TRUE
              /\ pageStatus' = [pageStatus EXCEPT ![giveTurn] = FALSE]
          BY <2>2, <4>1 DEF NicRequest
        <5> QED BY <5>1 DEF TypeOK
      <4>2. CASE left # 1
        BY <2>2, <4>2 DEF NicRequest, TypeOK
      <4> QED BY <4>1, <4>2
    <3>4. giveTurn' \in Slots
      <4>1. giveTurn \in Slots
        BY DEF TypeOK
      <4>2. giveTurn' = Inc(giveTurn) \/ giveTurn' = giveTurn
        BY <2>2 DEF NicRequest
      <4> QED BY <4>1, <4>2, IncInSlots
    <3>5. UNCHANGED <<ringVars, gcVars, lock, xpc, pollVars, completion,
                      gcAddr, pageAddr, pageReqs, readAddr, hpIndex, noteVars>>
      BY <2>2 DEF NicRequest
    <3> QED BY <3>1, <3>2, <3>3, <3>4, <3>5
            DEF TypeOK, ringVars, gcVars, pollVars, noteVars
  <2>3. CASE NicCompletion
    <3>1. completion' \in [Slots -> BOOLEAN] /\ rdCompleted' \in BOOLEAN
      BY <2>3 DEF NicCompletion, TypeOK
    <3>2. hpIndex' \in Slots
      BY <2>3, IncInSlots DEF NicCompletion, TypeOK
    <3> QED BY <2>3, <3>1, <3>2 DEF NicCompletion, TypeOK, ringVars, gcVars,
                pollVars, pageVars, readVars, noteVars
  <2>4. ASSUME NEW k \in DOMAIN requests, NicData(k) PROVE TypeOK'
    <3> DEFINE rs == [requests EXCEPT ![k].done = TRUE]
    <3>1. requests \in Seq(Request) /\ k \in 1 .. Len(requests)
      BY LenProperties DEF TypeOK
    <3>2. rs \in Seq(Request)
      <4>1. requests[k] \in Request
        BY <3>1, ElementOfSeq
      <4>2. [requests[k] EXCEPT !.done = TRUE] \in Request
        BY <4>1 DEF Request
      <4> QED BY <3>1, <4>2, ExceptSeq
    <3>3. requests' \in Seq(Request)
      <4>1. PICK m \in 1 .. Len(rs) + 1 : requests' = SubSeq(rs, m, Len(rs))
        BY <2>4 DEF NicData, Commit
      <4> HIDE DEF rs
      <4> QED BY <3>2, <4>1, SuffixInSeq
    <3>4. requests[k].slot \in Slots
      <4>1. requests[k] \in Request
        BY <3>1, ElementOfSeq
      <4> QED BY <4>1 DEF Request
    <3>5. [notif EXCEPT ![requests[k].slot] = Counted(notif[requests[k].slot])]
            \in [Slots -> Notification]
      BY <3>4, CountedType DEF TypeOK
    <3>6. /\ notif' \in [Slots -> Notification]
          /\ mixer' \in Addr \cup {NULL}
          /\ irq' \in BOOLEAN
      BY <2>4, <3>5, MixerTakesType DEF NicData, TypeOK
    <3> QED BY <2>4, <3>3, <3>6
            DEF NicData, TypeOK, ringVars, gcVars, pollVars, pageVars, doneVars
  <2>5. CASE NicNotify
    <3>1. /\ notif' \in [Slots -> Notification]
          /\ mixer' \in Addr \cup {NULL}
          /\ irq' \in BOOLEAN
      BY <2>5, MixerTakesType DEF NicNotify, TypeOK
    <3> QED BY <2>5, <3>1
            DEF NicNotify, TypeOK, ringVars, gcVars, pollVars, pageVars,
                readVars, doneVars
  <2>6. CASE NicInterrupt
    <3>1. irq' \in BOOLEAN
      BY <2>6 DEF NicInterrupt
    <3>2. gpc' \in {"idle", "poll", "lock", "check", "cas", "done"}
      BY <2>6 DEF NicInterrupt, TypeOK
    <3>3. UNCHANGED <<ringVars, gcVars, lock, xpc, lastGc, complete, completion,
                      gcAddr, pageVars, readVars, doneVars, notif, mixer>>
      BY <2>6 DEF NicInterrupt
    <3> QED BY <3>1, <3>2, <3>3 DEF TypeOK, ringVars, gcVars, pageVars,
                                    readVars, doneVars
  <2> QED BY <1>4, <2>1, <2>2, <2>3, <2>4, <2>5, <2>6 DEF Nic
<1>5. CASE UNCHANGED vars
  BY <1>5 DEF TypeOK, vars, ringVars, gcVars, pollVars, pageVars, readVars,
              doneVars, noteVars
<1> QED BY <1>1, <1>2, <1>3, <1>4, <1>5 DEF Next

(* tx_lock is passed on correctly, and nobody but its holder moves the     *)
(* ring between the two register writes of lbuf_xmit. *)
LEMMA LockStep == IInv /\ [Next]_vars => LockInv' /\ PostInv'
<1> SUFFICES ASSUME IInv, [Next]_vars PROVE LockInv' /\ PostInv'
  OBVIOUS
<1> USE RingAssumption, ConstantsAssumption DEF IInv, LockInv, PostInv
<1>1. CASE Xmit
  <2>1. CASE XmitLock \/ XmitBusy
    BY <2>1 DEF XmitLock, XmitBusy, pollVars
  <2>2. ASSUME NEW a \in Addr, XmitWriteAddr(a) PROVE LockInv' /\ PostInv'
    BY <2>2 DEF XmitWriteAddr, pollVars, ringVars, Full, TypeOK
  <2>3. ASSUME NEW n \in 1 .. MaxReq, XmitWriteStat(n)
        PROVE  LockInv' /\ PostInv'
    BY <2>3 DEF XmitWriteStat, pollVars
  <2> QED BY <1>1, <2>1, <2>2, <2>3 DEF Xmit
<1>2. CASE CheckCompletion
  BY <1>2 DEF CheckCompletion, pollVars
<1>3. CASE Poll
  BY <1>3 DEF Poll, GcEnter, GcLock, GcClean, GcCas, GcDone, ringVars,
              pageVars, Full
<1>4. CASE Nic
  <2>1. CASE NicGive \/ NicRequest \/ NicCompletion \/ NicNotify
              \/ \E k \in DOMAIN requests : NicData(k)
    BY <2>1 DEF NicGive, NicRequest, NicCompletion, NicNotify, NicData,
                ringVars, pollVars, pageVars, Full
  <2>2. CASE NicInterrupt
    BY <2>2 DEF NicInterrupt, ringVars, pageVars, Full
  <2> QED BY <1>4, <2>1, <2>2 DEF Nic
<1>5. CASE UNCHANGED vars
  BY <1>5 DEF vars, ringVars, pollVars, pageVars, Full
<1> QED BY <1>1, <1>2, <1>3, <1>4, <1>5 DEF Next

(* The step of the ring indices. *)
LEMMA RingStep == IInv /\ [Next]_vars => RingExact'
<1> SUFFICES ASSUME IInv, [Next]_vars PROVE RingExact'
  OBVIOUS
<1> USE RingAssumption, ConstantsAssumption DEF IInv
<1>0. CASE UNCHANGED ringVars
  BY <1>0 DEF ringVars, RingExact, InWindow, Full
<1>1. ASSUME NEW n \in 1 .. MaxReq, XmitWriteStat(n) PROVE RingExact'
  <2>0. prod \in Slots /\ cons \in Slots /\ ~Full
    BY <1>1 DEF XmitWriteStat, PostInv, TypeOK
  <2>1. desc[prod] = NULL
    BY <2>0 DEF RingExact, InWindow, Full, Slots
  <2>2. pageAddr[prod] # NULL
    BY <1>1 DEF XmitWriteStat, PostInv
  <2>3. /\ cons' = cons /\ prod' = Inc(prod) /\ prod \in Slots /\ cons \in Slots
        /\ desc' = [desc EXCEPT ![prod] = pageAddr[prod]]
        /\ desc \in [Slots -> Addr \cup {NULL}]
    BY <1>1 DEF XmitWriteStat, TypeOK
  <2> QED BY <2>1, <2>2, <2>3 DEF RingExact, InWindow, Full, Inc, Slots
<1>2. CASE CheckCompletion
  <2>1. /\ cons' = Inc(cons) /\ prod' = prod /\ prod \in Slots /\ cons \in Slots
        /\ desc' = [desc EXCEPT ![cons] = NULL]
        /\ desc \in [Slots -> Addr \cup {NULL}]
        /\ desc[cons] # NULL
    BY <1>2 DEF CheckCompletion, MoreCompleted, SlotProtocol, TypeOK
  <2> QED BY <2>1 DEF RingExact, InWindow, Full, Inc, Slots
<1> QED
  <2>1. CASE Xmit
    BY <1>0, <1>1, <2>1 DEF Xmit, XmitLock, XmitBusy, XmitWriteAddr
  <2>2. CASE Poll
    BY <1>0, <2>2 DEF Poll, GcEnter, GcLock, GcClean, GcCas, GcDone
  <2>3. CASE Nic
    BY <1>0, <2>3 DEF Nic, NicGive, NicRequest, NicCompletion, NicData,
                      NicNotify, NicInterrupt
  <2> QED BY <1>0, <1>2, <2>1, <2>2, <2>3 DEF Next, vars

(* The turns of the page returns and of the completion writes, and the     *)
(* sizes of the posted pages. *)
LEMMA TurnStep == IInv /\ [Next]_vars => TurnInv' /\ SizeInv'
<1> SUFFICES ASSUME IInv, [Next]_vars PROVE TurnInv' /\ SizeInv'
  OBVIOUS
<1> USE RingAssumption, ConstantsAssumption DEF IInv, TurnInv, SizeInv
<1>0. CASE UNCHANGED <<giveTurn, rdCompleted, hpIndex, pageStatus, pageReqs,
                       reading, left>>
  BY <1>0
<1>1. ASSUME NEW n \in 1 .. MaxReq, XmitWriteStat(n)
      PROVE  TurnInv' /\ SizeInv'
  BY <1>1 DEF XmitWriteStat, readVars, doneVars, TypeOK
<1>2. CASE NicGive
  BY <1>2 DEF NicGive, pageVars, doneVars, TypeOK
<1>3. CASE NicRequest
  <2>1. ~rdCompleted /\ hpIndex' = hpIndex /\ pageReqs' = pageReqs
        /\ left' = left - 1 /\ left \in 1 .. MaxReq
    BY <1>3 DEF NicRequest
  <2>2. CASE left = 1
    <3>1. /\ giveTurn' = Inc(giveTurn) /\ rdCompleted' = TRUE
          /\ reading' = FALSE
          /\ pageStatus' = [pageStatus EXCEPT ![giveTurn] = FALSE]
      BY <1>3, <2>2 DEF NicRequest
    <3>2. \A i \in Slots : pageStatus'[i] => pageStatus[i]
      BY <3>1 DEF TypeOK
    <3>3. TurnInv'
      BY <2>1, <3>1
    <3>4. SizeInv'
      BY <2>1, <3>1, <3>2
    <3> QED BY <3>3, <3>4
  <2>3. CASE left # 1
    BY <1>3, <2>1, <2>3 DEF NicRequest
  <2> QED BY <2>2, <2>3
<1>4. CASE NicCompletion
  <2>1. TurnInv'
    BY <1>4 DEF NicCompletion, readVars
  <2>2. SizeInv'
    BY <1>4 DEF NicCompletion, pageVars, readVars
  <2> QED BY <2>1, <2>2
<1> QED
  <2>1. CASE Xmit
    BY <1>0, <1>1, <2>1 DEF Xmit, XmitLock, XmitBusy, XmitWriteAddr,
                            readVars, doneVars, pageVars
  <2>2. CASE Poll \/ CheckCompletion
    BY <1>0, <2>2 DEF Poll, GcEnter, GcLock, GcClean, GcCas, GcDone,
                      CheckCompletion, readVars, doneVars, pageVars
  <2>3. CASE Nic
    <3>1. ASSUME NEW k \in DOMAIN requests, NicData(k)
          PROVE  TurnInv' /\ SizeInv'
      BY <1>0, <3>1 DEF NicData, doneVars, pageVars
    <3>2. CASE NicNotify \/ NicInterrupt
      BY <1>0, <3>2 DEF NicNotify, NicInterrupt, readVars, doneVars, pageVars
    <3> QED BY <1>2, <1>3, <1>4, <2>3, <3>1, <3>2 DEF Nic
  <2>4. CASE UNCHANGED vars
    BY <1>0, <2>4 DEF vars, readVars, doneVars, pageVars
  <2> QED BY <2>1, <2>2, <2>3, <2>4 DEF Next

(* The slots: what the NIC knows of each agrees with the driver's ring. *)
LEMMA ProtocolStep == IInv /\ [Next]_vars => SlotProtocol'
<1> SUFFICES ASSUME IInv, [Next]_vars PROVE SlotProtocol'
  OBVIOUS
<1> USE RingAssumption, ConstantsAssumption DEF IInv, SlotProtocol
<1>0. CASE UNCHANGED <<desc, completion, pageAddr, pageStatus, giveTurn,
                       reading, readAddr, rdCompleted, hpIndex>>
  BY <1>0
<1>1. /\ prod \in Slots /\ cons \in Slots /\ giveTurn \in Slots
      /\ hpIndex \in Slots
      /\ desc \in [Slots -> Addr \cup {NULL}]
      /\ pageAddr \in [Slots -> Addr \cup {NULL}]
      /\ pageStatus \in [Slots -> BOOLEAN]
      /\ completion \in [Slots -> BOOLEAN]
  BY DEF TypeOK
<1>2. ~Full => desc[prod] = NULL
  BY <1>1 DEF RingExact, InWindow, Full, Slots
<1>3. ASSUME NEW a \in Addr, XmitWriteAddr(a) PROVE SlotProtocol'
  <2>1. ~pageStatus[prod]
    BY <1>1, <1>2, <1>3 DEF XmitWriteAddr
  <2> QED BY <1>1, <1>3, <2>1
          DEF XmitWriteAddr, ringVars, readVars, doneVars
<1>4. ASSUME NEW n \in 1 .. MaxReq, XmitWriteStat(n) PROVE SlotProtocol'
  <2>1. desc[prod] = NULL /\ pageAddr[prod] # NULL
    BY <1>2, <1>4 DEF XmitWriteStat, PostInv
  <2>2. ~pageStatus[prod] /\ ~completion[prod]
    BY <1>1, <2>1
  <2>3. reading => giveTurn # prod
    BY <2>2
  <2>4. rdCompleted => hpIndex # prod
    BY <2>1
  <2> QED BY <1>1, <1>4, <2>1, <2>2, <2>3, <2>4
          DEF XmitWriteStat, readVars, doneVars
<1>5. CASE CheckCompletion
  <2>1. completion[cons] /\ ~pageStatus[cons]
    BY <1>1, <1>5 DEF CheckCompletion, MoreCompleted
  <2>2. (reading => giveTurn # cons) /\ (rdCompleted => hpIndex # cons)
    BY <2>1
  <2> QED BY <1>1, <1>5, <2>1, <2>2
          DEF CheckCompletion, pageVars, readVars, doneVars
<1>6. CASE NicGive
  BY <1>1, <1>6 DEF NicGive, ringVars, pageVars, doneVars
<1>7. CASE NicRequest
  <2>1. CASE left = 1
    <3>1. hpIndex = giveTurn /\ desc[giveTurn] # NULL /\ ~completion[giveTurn]
      BY <1>1, <1>7 DEF NicRequest, TurnInv
    <3> QED BY <1>1, <1>7, <2>1, <3>1 DEF NicRequest, ringVars
  <2>2. CASE left # 1
    BY <1>7, <2>2 DEF NicRequest, ringVars
  <2> QED BY <2>1, <2>2
<1>8. CASE NicCompletion
  BY <1>1, <1>8 DEF NicCompletion, ringVars, pageVars, readVars
<1>9. ASSUME NEW k \in DOMAIN requests, NicData(k) PROVE SlotProtocol'
  BY <1>0, <1>9 DEF NicData, ringVars, pageVars, doneVars
<1>10. CASE XmitLock \/ XmitBusy
  BY <1>0, <1>10 DEF XmitLock, XmitBusy, ringVars, pageVars, readVars, doneVars
<1>11. CASE Poll
  BY <1>0, <1>11 DEF Poll, GcEnter, GcLock, GcClean, GcCas, GcDone,
                     ringVars, pageVars, readVars, doneVars
<1>12. CASE NicNotify \/ NicInterrupt
  BY <1>0, <1>12 DEF NicNotify, NicInterrupt, ringVars, pageVars, readVars,
                     doneVars
<1>13. CASE UNCHANGED vars
  BY <1>0, <1>13 DEF vars, ringVars, pageVars, readVars, doneVars
<1> QED BY <1>3, <1>4, <1>5, <1>6, <1>7, <1>8, <1>9, <1>10, <1>11, <1>12,
           <1>13 DEF Next, Xmit, Nic

-----------------------------------------------------------------------------
(* The five parts are inductive together. *)
LEMMA Inductive == Spec => []IInv
<1>1. IInv /\ [Next]_vars => IInv'
  BY TypeStep, LockStep, RingStep, TurnStep, ProtocolStep DEF IInv
<1> QED BY InitIInv, <1>1, PTL DEF Spec

(* Every variable keeps its type. *)
THEOREM TypeCorrect == Spec => []TypeOK
<1>1. IInv => TypeOK
  BY DEF IInv
<1> QED BY Inductive, <1>1, PTL

(* The descriptors in use are exactly those from cons up to prod, so the   *)
(* tests desc_full and desc_empty are right, whatever the NIC does.        *)
THEOREM RingCorrect == Spec => []RingExact
<1>1. IInv => RingExact
  BY DEF IInv
<1> QED BY Inductive, <1>1, PTL

(* The NIC and the driver agree on every slot: no register is rewritten    *)
(* under the NIC, no completion write is lost, and what is read is what    *)
(* was posted.                                                             *)
THEOREM SlotsCorrect == Spec => []SlotProtocol
<1>1. IInv => SlotProtocol
  BY DEF IInv
<1> QED BY Inductive, <1>1, PTL

-----------------------------------------------------------------------------
(***************************************************************************)
(* The rest holds on a calm host only, whose answers and notifications     *)
(* keep their order, and that never runs out of memory.                    *)
(***************************************************************************)
Calm == OrderedReads /\ PromptNotify /\ SlowReuse /\ MaxLeaks = 0

(* The slot k places after c. *)
SlotAt(c, k) == IF c + k < N THEN c + k ELSE c + k - N

(* Q is the pending list followed by the ring, no address twice, and s     *)
(* the slot each of its buffers was posted in, the next one last.          *)
QueueInv(Q, s) ==
  /\ Q \in Seq(Addr) /\ s \in [1 .. Len(Q) + 1 -> Slots]
  /\ Len(Q) - Len(pending) \in 0 .. N
  /\ \A p, q \in 1 .. Len(Q) : Q[p] = Q[q] => p = q
  /\ \A p \in 1 .. Len(pending) : Q[p] = pending[p]
  /\ \A p \in Len(pending) + 1 .. Len(Q) : Q[p] = desc[s[p]]
  /\ \A p \in Len(pending) + 1 .. Len(Q) + 1 :
       s[p] = SlotAt(cons, p - Len(pending) - 1)
  /\ s[Len(Q) + 1] = prod
  /\ \A i \in Slots :
       desc[i] # NULL => \E p \in Len(pending) + 1 .. Len(Q) : s[p] = i
  /\ xpc = "stat" => \A p \in 1 .. Len(Q) : Q[p] # pageAddr[prod]
  /\ leaked = {}

(* The first e buffers of Q have all their read requests issued, the first *)
(* r of them have them all answered.                                       *)
PageInv(Q, s, r, e) ==
  /\ r \in 0 .. e /\ e \in Len(pending) .. Len(Q)
  /\ giveTurn = s[e + 1]
  /\ \A p \in Len(pending) + 1 .. Len(Q) : pageStatus[s[p]] <=> p > e
  /\ \A p \in Len(pending) + 1 .. e : completion[s[p]] \/ (rdCompleted /\ p = e)

(* Request k reads the buffer at p in Q. *)
Reads(k, Q, p) == requests[k].addr = Q[p]

(* The requests in flight read the buffers from r + 1 to e, each of them,  *)
(* and the one being read, in the order of Q.                              *)
RequestInv(Q, s, r, e) ==
  /\ \A k \in DOMAIN requests :
       /\ ~requests[k].done
       /\ \E p \in r + 1 .. e + 1 :
            /\ p \in 1 .. Len(Q) /\ Reads(k, Q, p) /\ requests[k].slot = s[p]
            /\ p = e + 1 => reading
  /\ \A k, l \in DOMAIN requests, p, q \in 1 .. Len(Q) :
       k < l /\ Reads(k, Q, p) /\ Reads(l, Q, q) => p <= q
  /\ \A p \in r + 1 .. e : \E k \in DOMAIN requests : Reads(k, Q, p)

(* What is still to be answered of the buffer at a. *)
Reading(rs, a) == Cardinality({k \in DOMAIN rs : rs[k].addr = a})

Outstanding(a) == Reading(requests, a) + (IF reading /\ readAddr = a THEN left ELSE 0)

(* The machines count what is outstanding, one for each buffer, and none   *)
(* has a notification that waits.                                          *)
CountInv ==
  /\ \A i \in Slots :
       \/ notif[i].state = "idle"
       \/ /\ notif[i].state = "count"
          /\ notif[i].need = notif[i].got + Outstanding(notif[i].addr)
          /\ Outstanding(notif[i].addr) > 0
  /\ \A i, j \in Slots :
       /\ notif[i].state = "count" /\ notif[j].state = "count"
       /\ notif[i].addr = notif[j].addr
       => i = j
  /\ \A k \in DOMAIN requests :
       LET m == notif[requests[k].slot]
       IN  m.state = "count" /\ m.addr = requests[k].addr
  /\ reading => notif[giveTurn].state = "count" /\ notif[giveTurn].addr = readAddr

(* The address in host memory was cleaned up to, and is about to be        *)
(* removed.                                                                *)
Used == gpc = "cas" /\ gcAddr = lastGc

(* What is notified was read to the end: the mixer has the last such       *)
(* buffer, and host memory an earlier one, whose completion flag is set.   *)
NoteInv(Q, s, r) ==
  /\ mixer # NULL => r > 0 /\ mixer = Q[r]
  /\ gpc \in {"lock", "check", "cas"} => gcAddr # NULL
  /\ gcAddr # NULL /\ ~Used =>
       \E m \in 1 .. r : /\ gcAddr = Q[m]
                         /\ mixer # NULL => m < r
                         /\ m > Len(pending) => completion[s[m]]

CalmInv(Q, s, r, e) ==
  /\ QueueInv(Q, s) /\ PageInv(Q, s, r, e) /\ RequestInv(Q, s, r, e)
  /\ CountInv /\ NoteInv(Q, s, r)

(* The ranges of what QueueInv speaks of. *)
LEMMA QueueTypes ==
  ASSUME NEW Q, NEW s, TypeOK, QueueInv(Q, s)
  PROVE  /\ Len(Q) \in Nat /\ Len(pending) \in Nat /\ N \in Nat \ {0}
         /\ Len(pending) <= Len(Q) /\ Len(Q) - Len(pending) <= N
         /\ \A p \in 1 .. Len(Q) : Q[p] \in Addr /\ Q[p] # NULL
         /\ DOMAIN pending = 1 .. Len(pending)
         /\ \A p \in 1 .. Len(pending) : pending[p] \in Addr
         /\ \A p \in 1 .. Len(Q) + 1 : s[p] \in Slots
         /\ cons \in 0 .. N - 1 /\ prod \in 0 .. N - 1
<1>1. Q \in Seq(Addr) /\ pending \in Seq(Addr)
  BY DEF QueueInv, TypeOK
<1>2. /\ Len(Q) \in Nat /\ Len(pending) \in Nat
      /\ DOMAIN pending = 1 .. Len(pending)
      /\ \A p \in 1 .. Len(Q) : Q[p] \in Addr
      /\ \A p \in 1 .. Len(pending) : pending[p] \in Addr
  BY <1>1, LenProperties, ElementOfSeq
<1>3. N \in Nat \ {0} /\ NULL \notin Addr
  BY RingAssumption, ConstantsAssumption
<1>4. cons \in 0 .. N - 1 /\ prod \in 0 .. N - 1
  BY DEF TypeOK, Slots
<1>5. Len(Q) - Len(pending) \in 0 .. N
  BY DEF QueueInv
<1>6. \A p \in 1 .. Len(Q) + 1 : s[p] \in Slots
  BY DEF QueueInv
<1> QED BY <1>2, <1>3, <1>4, <1>5, <1>6

(* The slots of the ring differ, and one of them is next unless all are. *)
LEMMA SlotsApart ==
  ASSUME NEW Q, NEW s, TypeOK, QueueInv(Q, s)
  PROVE  /\ \A p, q \in Len(pending) + 1 .. Len(Q) : s[p] = s[q] => p = q
         /\ Len(Q) - Len(pending) < N =>
              \A p \in Len(pending) + 1 .. Len(Q) : s[p] # prod
         /\ s[Len(pending) + 1] = cons
         /\ \A p \in Len(pending) + 1 .. Len(Q) : s[p + 1] = Inc(s[p])
<1> PICK n, l : n = Len(Q) /\ l = Len(pending)
  OBVIOUS
<1>1. /\ n \in Nat /\ l \in Nat /\ N \in Nat \ {0} /\ l <= n /\ n - l <= N
      /\ cons \in 0 .. N - 1
  BY QueueTypes
<1>2. \A p \in l + 1 .. n + 1 : s[p] = SlotAt(cons, p - l - 1)
  BY DEF QueueInv
<1>3. s[n + 1] = prod
  BY DEF QueueInv
<1>4. \A p, q \in l + 1 .. n + 1 : s[p] = s[q] /\ n - l < N => p = q
  BY <1>1, <1>2 DEF SlotAt
<1>5. \A p, q \in l + 1 .. n : s[p] = s[q] => p = q
  <2> SUFFICES ASSUME NEW p \in l + 1 .. n, NEW q \in l + 1 .. n, s[p] = s[q]
               PROVE  p = q
    OBVIOUS
  <2>1. SlotAt(cons, p - l - 1) = SlotAt(cons, q - l - 1)
    BY <1>1, <1>2
  <2> QED BY <1>1, <2>1 DEF SlotAt
<1>6. n - l < N => \A p \in l + 1 .. n : s[p] # prod
  BY <1>1, <1>3, <1>4
<1>7. s[l + 1] = cons
  BY <1>1, <1>2 DEF SlotAt
<1>8. \A p \in l + 1 .. n : s[p + 1] = Inc(s[p])
  <2> SUFFICES ASSUME NEW p \in l + 1 .. n PROVE s[p + 1] = Inc(s[p])
    OBVIOUS
  <2>1. s[p] = SlotAt(cons, p - l - 1) /\ s[p + 1] = SlotAt(cons, p - l)
    BY <1>1, <1>2
  <2>2. SlotAt(cons, p - l) = Inc(SlotAt(cons, p - l - 1))
    BY <1>1 DEF SlotAt, Inc
  <2> QED BY <2>1, <2>2
<1> QED BY <1>5, <1>6, <1>7, <1>8

-----------------------------------------------------------------------------
(* What each part of the invariant depends on. *)
LEMMA KeepQueue ==
  ASSUME NEW Q, NEW s, QueueInv(Q, s), UNCHANGED <<ringVars, gcVars>>,
         xpc' = "stat" => xpc = "stat" /\ pageAddr' = pageAddr
  PROVE  QueueInv(Q, s)'
BY DEF QueueInv, ringVars, gcVars

LEMMA KeepPage ==
  ASSUME NEW Q, NEW s, NEW r, NEW e, PageInv(Q, s, r, e),
         UNCHANGED <<pending, giveTurn, pageStatus, completion, rdCompleted>>
  PROVE  PageInv(Q, s, r, e)'
BY DEF PageInv

LEMMA KeepRequest ==
  ASSUME NEW Q, NEW s, NEW r, NEW e, RequestInv(Q, s, r, e),
         UNCHANGED <<requests, reading>>
  PROVE  RequestInv(Q, s, r, e)'
BY DEF RequestInv, Reads

LEMMA KeepCount ==
  ASSUME CountInv, UNCHANGED <<readVars, notif>>
  PROVE  CountInv'
BY DEF CountInv, Outstanding, Reading, readVars

LEMMA KeepNote ==
  ASSUME NEW Q, NEW s, NEW r, NoteInv(Q, s, r),
         UNCHANGED <<mixer, gpc, gcAddr, lastGc, pending, completion>>
  PROVE  NoteInv(Q, s, r)'
BY DEF NoteInv, Used

-----------------------------------------------------------------------------
(* In the first state nothing is queued. *)
LEMMA InitCalm ==
  ASSUME Init
  PROVE  CalmInv(<<>>, [p \in {1} |-> 0], 0, 0)
<1> PICK Q, s : Q = <<>> /\ s = [p \in {1} |-> 0]
  OBVIOUS
<1>0. /\ Q \in Seq(Addr) /\ Len(Q) = 0 /\ N \in Nat \ {0} /\ 0 \in Slots
      /\ pending = <<>> /\ Len(pending) = 0 /\ s \in [1 .. 1 -> Slots] /\ s[1] = 0
      /\ requests = <<>> /\ DOMAIN requests = {} /\ 1 .. 1 = {1}
  BY RingAssumption, EmptySeq DEF Init, Slots
<1>1. QueueInv(Q, s)
  BY <1>0 DEF Init, QueueInv, SlotAt
<1>2. PageInv(Q, s, 0, 0)
  BY <1>0 DEF Init, PageInv
<1>3. RequestInv(Q, s, 0, 0)
  BY <1>0 DEF RequestInv
<1>4. CountInv
  BY <1>0 DEF CountInv, Init, Idle
<1>5. NoteInv(Q, s, 0)
  BY DEF NoteInv, Init
<1> QED BY <1>1, <1>2, <1>3, <1>4, <1>5 DEF CalmInv

-----------------------------------------------------------------------------
(* What is in Q is mapped and not yet freed. *)
LEMMA QueueLive ==
  ASSUME NEW Q, NEW s, TypeOK, QueueInv(Q, s), NEW p \in 1 .. Len(Q)
  PROVE  Q[p] \in Live
<1> PICK n, l : n = Len(Q) /\ l = Len(pending)
  OBVIOUS
<1>1. /\ n \in Nat /\ l \in Nat /\ l <= n /\ p \in 1 .. n /\ Q[p] # NULL
      /\ DOMAIN pending = 1 .. l /\ \A q \in 1 .. n + 1 : s[q] \in Slots
  BY QueueTypes
<1>2. CASE p <= l
  <2>1. p \in DOMAIN pending /\ Q[p] = pending[p]
    BY <1>1, <1>2 DEF QueueInv
  <2> QED BY <1>1, <2>1 DEF Live, Elements
<1>3. CASE p > l
  <2>1. p \in l + 1 .. n /\ p \in 1 .. n + 1
    BY <1>1, <1>3
  <2>2. Q[p] = desc[s[p]] /\ s[p] \in Slots
    BY <1>1, <2>1 DEF QueueInv
  <2> QED BY <1>1, <2>2 DEF Live
<1> QED BY <1>1, <1>2, <1>3

(* The page whose turn it is, when it is posted, is the first of Q that is *)
(* not issued. *)
LEMMA TurnPosted ==
  ASSUME NEW Q, NEW s, NEW r, NEW e, IInv, QueueInv(Q, s), PageInv(Q, s, r, e),
         pageStatus[giveTurn]
  PROVE  e < Len(Q) /\ desc[giveTurn] = Q[e + 1] /\ pageAddr[giveTurn] = Q[e + 1]
<1> PICK n, l : n = Len(Q) /\ l = Len(pending)
  OBVIOUS
<1>1. n \in Nat /\ l \in Nat /\ e \in l .. n /\ giveTurn = s[e + 1]
  BY QueueTypes DEF PageInv, IInv
<1>2. desc[giveTurn] # NULL /\ giveTurn \in Slots
  BY DEF IInv, SlotProtocol, TypeOK
<1>3. PICK p \in l + 1 .. n : s[p] = giveTurn
  BY <1>2 DEF QueueInv
<1>4. p > e
  BY <1>3 DEF PageInv
<1>5. e + 1 \in l + 1 .. n /\ e < n
  BY <1>1, <1>3, <1>4
<1>6. desc[giveTurn] = Q[e + 1]
  BY <1>1, <1>5 DEF QueueInv
<1>7. pageAddr[giveTurn] = desc[giveTurn]
  BY <1>2 DEF IInv, SlotProtocol
<1> QED BY <1>5, <1>6, <1>7

(* lbuf_xmit writes the address of a buffer that is nowhere in Q. *)
LEMMA WriteAddrQueue ==
  ASSUME NEW Q, NEW s, IInv, QueueInv(Q, s), NEW a \in Addr, XmitWriteAddr(a)
  PROVE  QueueInv(Q, s)'
<1>1. /\ a \notin Live /\ pageAddr' = [pageAddr EXCEPT ![prod] = a]
      /\ UNCHANGED <<ringVars, gcVars>>
  BY DEF XmitWriteAddr
<1>2. pageAddr'[prod] = a /\ prod' = prod
  BY <1>1 DEF IInv, TypeOK, ringVars
<1>3. \A p \in 1 .. Len(Q) : Q[p] # a
  BY <1>1, QueueLive DEF IInv
<1>4. xpc' = "stat" => \A p \in 1 .. Len(Q) : Q[p] # pageAddr'[prod']
  BY <1>2, <1>3
<1> QED BY <1>1, <1>4 DEF QueueInv, ringVars, gcVars

(* A buffer is posted: it is the last of Q, and was nowhere in it. *)
LEMMA WriteStatCalm ==
  ASSUME NEW Q, NEW s, NEW r, NEW e, IInv, CalmInv(Q, s, r, e),
         NEW c \in 1 .. MaxReq, XmitWriteStat(c)
  PROVE  \E a, t : /\ a \in Addr /\ \A p \in 1 .. Len(Q) : Q[p] # a
                   /\ CalmInv(Append(Q, a), t, r, e)'
<1> PICK n, l, a, z : /\ n = Len(Q) /\ l = Len(pending)
                      /\ a = pageAddr[prod] /\ z = Inc(prod)
  OBVIOUS
<1> PICK R, t : /\ R = Append(Q, a)
                /\ t = [p \in 1 .. n + 2 |-> IF p = n + 2 THEN z ELSE s[p]]
  OBVIOUS
<1>0. /\ QueueInv(Q, s) /\ PageInv(Q, s, r, e)
      /\ RequestInv(Q, s, r, e) /\ NoteInv(Q, s, r)
  BY DEF CalmInv
<1>1. /\ n \in Nat /\ l \in Nat /\ N \in Nat \ {0} /\ l <= n /\ n - l <= N
      /\ \A p \in 1 .. n : Q[p] \in Addr /\ Q[p] # NULL
      /\ \A p \in 1 .. n + 1 : s[p] \in Slots
      /\ cons \in 0 .. N - 1 /\ prod \in 0 .. N - 1
  BY <1>0, QueueTypes DEF IInv
<1>2. /\ xpc = "stat" /\ ~Full /\ a \in Addr /\ a # NULL /\ prod \in Slots
      /\ pageStatus' = [pageStatus EXCEPT ![prod] = TRUE]
      /\ desc' = [desc EXCEPT ![prod] = a]
      /\ prod' = z /\ cons' = cons /\ xpc' = "idle" /\ UNCHANGED gcVars
  BY ConstantsAssumption DEF IInv, PostInv, XmitWriteStat, TypeOK
<1>3. z \in Slots
  BY <1>2, IncInSlots
<1>4. /\ R \in Seq(Addr) /\ Len(R) = n + 1 /\ R[n + 1] = a
      /\ \A p \in 1 .. n : R[p] = Q[p]
  <2>1. Q \in Seq(Addr)
    BY <1>0 DEF QueueInv
  <2> QED BY <1>2, <2>1, AppendProperties
<1>5. /\ t \in [1 .. n + 2 -> Slots] /\ t[n + 2] = z
      /\ \A p \in 1 .. n + 1 : t[p] = s[p]
  BY <1>1, <1>3
<1>6. s[n + 1] = prod /\ \A p \in l + 1 .. n + 1 : s[p] = SlotAt(cons, p - l - 1)
  BY <1>0 DEF QueueInv
<1>7. n - l < N
  <2> SUFFICES ASSUME ~(n - l < N) PROVE FALSE
    OBVIOUS
  <2>1. prod = cons
    <3>1. n + 1 \in l + 1 .. n + 1 /\ (n + 1) - l - 1 = N
      BY <1>1
    <3>2. prod = SlotAt(cons, N)
      BY <1>6, <3>1
    <3> QED BY <1>1, <3>2 DEF SlotAt
  <2>2. l + 1 \in l + 1 .. n /\ l + 1 \in 1 .. n
    BY <1>1
  <2>3. desc[s[l + 1]] = Q[l + 1] /\ s[l + 1] = cons
    BY <1>0, <2>2, SlotsApart DEF QueueInv, IInv
  <2> QED BY <1>1, <1>2, <2>1, <2>2, <2>3 DEF Full
<1>8. \A p \in l + 1 .. n : s[p] # prod
  BY <1>0, <1>7, SlotsApart DEF IInv
<1>9. \A p \in 1 .. n : Q[p] # a
  BY <1>0, <1>2 DEF QueueInv
<1>10. /\ pending' = pending /\ leaked' = leaked /\ leaked = {}
       /\ l' = l /\ Len(pending') = l
  BY <1>0, <1>2 DEF QueueInv, gcVars
<1>11. QueueInv(R, t)'
  <2>1. /\ R \in Seq(Addr) /\ t \in [1 .. Len(R) + 1 -> Slots]
        /\ Len(R) - Len(pending') \in 0 .. N
    BY <1>1, <1>4, <1>5, <1>7, <1>10
  <2>2. \A p, q \in 1 .. n + 1 : R[p] = R[q] => p = q
    <3>1. \A p, q \in 1 .. n : Q[p] = Q[q] => p = q
      BY <1>0 DEF QueueInv
    <3> QED BY <1>1, <1>4, <1>9, <3>1
  <2>3. \A p \in 1 .. l : R[p] = pending[p]
    <3>1. \A p \in 1 .. l : Q[p] = pending[p]
      BY <1>0 DEF QueueInv
    <3> QED BY <1>1, <1>4, <3>1
  <2>4. \A p \in l + 1 .. n + 1 : R[p] = desc'[t[p]]
    <3>1. \A p \in l + 1 .. n : Q[p] = desc[s[p]]
      BY <1>0 DEF QueueInv
    <3>2. ASSUME NEW p \in l + 1 .. n PROVE R[p] = desc'[t[p]]
      <4>1. R[p] = desc[s[p]] /\ t[p] = s[p] /\ s[p] \in Slots /\ s[p] # prod
        BY <1>1, <1>4, <1>5, <1>8, <3>1
      <4> QED BY <1>2, <4>1 DEF IInv, TypeOK
    <3>3. R[n + 1] = desc'[t[n + 1]]
      <4>1. t[n + 1] = prod /\ R[n + 1] = a
        BY <1>1, <1>4, <1>5, <1>6
      <4> QED BY <1>2, <4>1 DEF IInv, TypeOK
    <3>4. \A p \in l + 1 .. n + 1 : p = n + 1 \/ p \in l + 1 .. n
      BY <1>1
    <3> QED BY <3>2, <3>3, <3>4
  <2>5. \A p \in l + 1 .. n + 2 : t[p] = SlotAt(cons, p - l - 1)
    <3>1. z = SlotAt(cons, n - l + 1)
      <4>1. prod = SlotAt(cons, n - l)
        <5>1. n + 1 \in l + 1 .. n + 1 /\ (n + 1) - l - 1 = n - l
          BY <1>1
        <5>2. s[n + 1] = SlotAt(cons, (n + 1) - l - 1)
          BY <1>6, <5>1
        <5> QED BY <1>6, <5>1, <5>2
      <4>2. SlotAt(cons, n - l + 1) = Inc(SlotAt(cons, n - l))
        <5> PICK d : d = n - l
          OBVIOUS
        <5>1. d \in 0 .. N - 1 /\ cons \in 0 .. N - 1 /\ N \in Nat \ {0}
          BY <1>1, <1>7
        <5>2. SlotAt(cons, d + 1) = Inc(SlotAt(cons, d))
          BY <5>1, SMTT(60) DEF SlotAt, Inc
        <5> QED BY <5>2
      <4> QED BY <4>1, <4>2
    <3>2. ASSUME NEW p \in l + 1 .. n + 1 PROVE t[p] = SlotAt(cons, p - l - 1)
      <4>1. t[p] = s[p]
        BY <1>1, <1>5
      <4> QED BY <1>6, <4>1
    <3>3. t[n + 2] = SlotAt(cons, (n + 2) - l - 1)
      <4>1. (n + 2) - l - 1 = n - l + 1
        BY <1>1
      <4> QED BY <1>5, <3>1, <4>1
    <3>4. \A p \in l + 1 .. n + 2 : p = n + 2 \/ p \in l + 1 .. n + 1
      BY <1>1
    <3> QED BY <3>2, <3>3, <3>4
  <2>6. \A i \in Slots : desc'[i] # NULL => \E p \in l + 1 .. n + 1 : t[p] = i
    <3> SUFFICES ASSUME NEW i \in Slots, desc'[i] # NULL
                 PROVE  \E p \in l + 1 .. n + 1 : t[p] = i
      OBVIOUS
    <3>1. CASE i = prod
      <4>1. n + 1 \in l + 1 .. n + 1 /\ t[n + 1] = i
        BY <1>1, <1>5, <1>6, <3>1
      <4> QED BY <4>1
    <3>2. CASE i # prod
      <4>1. desc[i] # NULL
        BY <1>2, <3>2 DEF IInv, TypeOK
      <4>2. PICK p \in l + 1 .. n : s[p] = i
        BY <1>0, <4>1 DEF QueueInv
      <4>3. p \in l + 1 .. n + 1 /\ t[p] = i
        BY <1>1, <1>5, <4>2
      <4> QED BY <4>3
    <3> QED BY <3>1, <3>2
  <2>7. PICK u : u = n + 1
    OBVIOUS
  <2>8. /\ u + 1 = n + 2 /\ u = Len(R) /\ l = Len(pending') /\ t[u + 1] = prod'
        /\ R \in Seq(Addr) /\ t \in [1 .. u + 1 -> Slots] /\ u - l \in 0 .. N
    BY <1>1, <1>2, <1>4, <1>5, <1>10, <2>1, <2>7
  <2>9. \A p \in l + 1 .. u + 1 : t[p] = SlotAt(cons', p - l - 1)
    BY <1>2, <2>5, <2>8
  <2>10. xpc' # "stat" /\ leaked' = {}
    BY <1>2, <1>10
  <2>11. \A p \in 1 .. l : R[p] = pending'[p]
    BY <1>10, <2>3
  <2>12. \A p, q \in 1 .. u : R[p] = R[q] => p = q
    BY <2>2, <2>7
  <2>13. \A p \in l + 1 .. u : R[p] = desc'[t[p]]
    BY <2>4, <2>7
  <2>14. \A i \in Slots : desc'[i] # NULL => \E p \in l + 1 .. u : t[p] = i
    BY <2>6, <2>7
  <2>21. R \in Seq(Addr) /\ t \in [1 .. Len(R) + 1 -> Slots]
    BY <2>8
  <2>22. Len(R) - Len(pending') \in 0 .. N
    BY <2>8
  <2>23. \A p, q \in 1 .. Len(R) : R[p] = R[q] => p = q
    BY <2>8, <2>12
  <2>24. \A p \in 1 .. Len(pending') : R[p] = pending'[p]
    BY <2>8, <2>11
  <2>25. \A p \in Len(pending') + 1 .. Len(R) : R[p] = desc'[t[p]]
    BY <2>8, <2>13
  <2>26. \A p \in Len(pending') + 1 .. Len(R) + 1 :
          t[p] = SlotAt(cons', p - Len(pending') - 1)
    BY <2>8, <2>9
  <2>27. \A i \in Slots :
       desc'[i] # NULL => \E p \in Len(pending') + 1 .. Len(R) : t[p] = i
    BY <2>8, <2>14
  <2>28. t[Len(R) + 1] = prod'
    BY <2>8
  <2> QED BY <2>10, <2>21, <2>22, <2>23, <2>24, <2>25, <2>26, <2>27, <2>28 DEF QueueInv
<1>12. PageInv(R, t, r, e)'
  <2>1. UNCHANGED <<giveTurn, completion, rdCompleted>>
    BY DEF XmitWriteStat, readVars, doneVars
  <2>2. /\ r \in 0 .. e /\ e \in l .. n /\ giveTurn = s[e + 1]
        /\ \A p \in l + 1 .. n : pageStatus[s[p]] <=> p > e
        /\ \A p \in l + 1 .. e : completion[s[p]] \/ (rdCompleted /\ p = e)
    BY <1>0 DEF PageInv
  <2>3. \A p \in l + 1 .. n + 1 : pageStatus'[t[p]] <=> p > e
    <3>1. ASSUME NEW p \in l + 1 .. n PROVE pageStatus'[t[p]] <=> p > e
      <4>1. t[p] = s[p] /\ s[p] \in Slots /\ s[p] # prod
        BY <1>1, <1>5, <1>8
      <4> QED BY <1>2, <2>2, <4>1 DEF IInv, TypeOK
    <3>2. pageStatus'[t[n + 1]] /\ n + 1 > e
      <4>1. t[n + 1] = prod
        BY <1>1, <1>5, <1>6
      <4>2. pageStatus \in [Slots -> BOOLEAN]
        BY DEF IInv, TypeOK
      <4>3. pageStatus'[prod]
        BY <1>2, <4>2
      <4>4. n + 1 > e
        BY <1>1, <2>2
      <4> QED BY <4>1, <4>3, <4>4
    <3>3. \A p \in l + 1 .. n + 1 : p = n + 1 \/ p \in l + 1 .. n
      BY <1>1
    <3> QED BY <3>1, <3>2, <3>3
  <2>4. t[e + 1] = giveTurn
    BY <1>1, <1>5, <2>2
  <2>5. \A p \in l + 1 .. e : completion[t[p]] \/ (rdCompleted /\ p = e)
    BY <1>1, <1>5, <2>2
  <2>6. e \in l .. n + 1
    BY <1>1, <2>2
  <2> QED BY <1>4, <1>10, <2>1, <2>2, <2>3, <2>4, <2>5, <2>6 DEF PageInv
<1>13. RequestInv(R, t, r, e)'
  <2>0. UNCHANGED <<requests, reading>> /\ r \in 0 .. e /\ e \in l .. n
    BY <1>0 DEF XmitWriteStat, readVars, PageInv
  <2>1. ASSUME NEW k \in DOMAIN requests
        PROVE  /\ ~requests[k].done
               /\ \E p \in r + 1 .. e + 1 :
                    /\ p \in 1 .. n + 1 /\ requests[k].addr = R[p]
                    /\ requests[k].slot = t[p]
                    /\ p = e + 1 => reading
    <3>1. ~requests[k].done
      BY <1>0 DEF RequestInv
    <3>2. PICK p \in r + 1 .. e + 1 :
                    /\ p \in 1 .. n /\ requests[k].addr = Q[p]
                    /\ requests[k].slot = s[p]
                    /\ p = e + 1 => reading
      BY <1>0 DEF RequestInv, Reads
    <3>3. p \in 1 .. n + 1 /\ R[p] = Q[p] /\ t[p] = s[p]
      BY <1>1, <1>4, <1>5, <3>2
    <3> QED BY <3>1, <3>2, <3>3
  <2>2. ASSUME NEW k \in DOMAIN requests, NEW p \in 1 .. n + 1, requests[k].addr = R[p]
        PROVE  p \in 1 .. n /\ requests[k].addr = Q[p]
    <3>1. PICK q \in 1 .. n : requests[k].addr = Q[q]
      BY <1>0 DEF RequestInv, Reads
    <3>2. p = n + 1 \/ p \in 1 .. n
      <4>1. n \in Nat
        BY <1>1
      <4> QED BY <4>1
    <3>3. p # n + 1
      <4>1. Q[q] # a
        BY <1>9
      <4>2. R[p] # R[n + 1]
        BY <1>4, <2>2, <3>1, <4>1
      <4> QED BY <4>2
    <3> QED BY <1>4, <2>2, <3>2, <3>3
  <2>3. \A k, j \in DOMAIN requests, p, q \in 1 .. n + 1 :
          k < j /\ requests[k].addr = R[p] /\ requests[j].addr = R[q] => p <= q
    <3>1. \A k, j \in DOMAIN requests, p, q \in 1 .. n :
            k < j /\ requests[k].addr = Q[p] /\ requests[j].addr = Q[q] => p <= q
      BY <1>0 DEF RequestInv, Reads
    <3> QED BY <2>2, <3>1
  <2>4. \A p \in r + 1 .. e : \E k \in DOMAIN requests : requests[k].addr = R[p]
    <3>1. \A p \in r + 1 .. e : p \in 1 .. n
      BY <1>1, <2>0
    <3>2. \A p \in r + 1 .. e : \E k \in DOMAIN requests : requests[k].addr = Q[p]
      BY <1>0 DEF RequestInv, Reads
    <3> QED BY <1>4, <3>1, <3>2
  <2>5. requests' = requests /\ reading' = reading /\ Len(R) = n + 1
    BY <1>4, <2>0
  <2>6. \A k \in DOMAIN requests' :
          /\ ~requests'[k].done
          /\ \E p \in r + 1 .. e + 1 :
               /\ p \in 1 .. Len(R) /\ Reads(k, R, p)' /\ requests'[k].slot = t[p]
               /\ p = e + 1 => reading'
    BY <2>1, <2>5 DEF Reads
  <2>7. \A k, j \in DOMAIN requests', p, q \in 1 .. Len(R) :
          k < j /\ Reads(k, R, p)' /\ Reads(j, R, q)' => p <= q
    BY <2>3, <2>5 DEF Reads
  <2>8. \A p \in r + 1 .. e : \E k \in DOMAIN requests' : Reads(k, R, p)'
    BY <2>4, <2>5 DEF Reads
  <2> QED BY <2>6, <2>7, <2>8 DEF RequestInv
<1>14. CountInv'
  BY KeepCount DEF CalmInv, XmitWriteStat, noteVars
<1>15. NoteInv(R, t, r)'
  <2>1. UNCHANGED <<mixer, gpc, gcAddr, lastGc, pending, completion>>
    BY <1>10 DEF XmitWriteStat, pollVars, noteVars
  <2>2. r \in 0 .. n
    BY <1>0, <1>1 DEF PageInv
  <2>3. mixer # NULL => r > 0 /\ mixer = R[r]
    BY <1>0, <1>1, <1>4, <2>2 DEF NoteInv
  <2>4. ASSUME gcAddr # NULL, ~Used
        PROVE  \E m \in 1 .. r : /\ gcAddr = R[m]
                                 /\ mixer # NULL => m < r
                                 /\ m > l => completion[t[m]]
    <3>1. PICK m \in 1 .. r : /\ gcAddr = Q[m]
                              /\ mixer # NULL => m < r
                              /\ m > l => completion[s[m]]
      BY <1>0, <2>4 DEF NoteInv
    <3>2. R[m] = Q[m] /\ t[m] = s[m]
      BY <1>1, <1>4, <1>5, <2>2, <3>1
    <3> QED BY <3>1, <3>2
  <2>5. gpc \in {"lock", "check", "cas"} => gcAddr # NULL
    BY <1>0 DEF NoteInv
  <2> QED BY <1>10, <2>1, <2>3, <2>4, <2>5 DEF NoteInv, Used
<1> QED BY <1>2, <1>9, <1>11, <1>12, <1>13, <1>14, <1>15 DEF CalmInv

-----------------------------------------------------------------------------
(* A completed descriptor moves to the pending list: Q stays as it is. *)
LEMMA CheckCalm ==
  ASSUME NEW Q, NEW s, NEW r, NEW e, IInv, CalmInv(Q, s, r, e), Calm,
         CheckCompletion
  PROVE  CalmInv(Q, s, r, e)'
<1> PICK n, l : n = Len(Q) /\ l = Len(pending)
  OBVIOUS
<1>0. /\ QueueInv(Q, s) /\ PageInv(Q, s, r, e)
      /\ RequestInv(Q, s, r, e) /\ NoteInv(Q, s, r)
  BY DEF CalmInv
<1>1. /\ n \in Nat /\ l \in Nat /\ N \in Nat \ {0} /\ l <= n /\ n - l <= N
      /\ \A p \in 1 .. n : Q[p] \in Addr /\ Q[p] # NULL
      /\ \A p \in 1 .. n + 1 : s[p] \in Slots
      /\ cons \in 0 .. N - 1 /\ prod \in 0 .. N - 1
  BY <1>0, QueueTypes DEF IInv
<1>2. /\ completion[cons] /\ cons \in Slots
      /\ desc' = [desc EXCEPT ![cons] = NULL]
      /\ completion' = [completion EXCEPT ![cons] = FALSE]
      /\ cons' = Inc(cons) /\ prod' = prod
  BY DEF CheckCompletion, MoreCompleted, IInv, TypeOK
<1>3. desc[cons] # NULL /\ ~pageStatus[cons]
  BY <1>2 DEF IInv, SlotProtocol
<1>4. n > l
  <2>1. PICK p \in l + 1 .. n : s[p] = cons
    BY <1>0, <1>2, <1>3 DEF QueueInv
  <2> QED BY <1>1, <2>1
<1>5. /\ \A p, q \in l + 1 .. n : s[p] = s[q] => p = q
      /\ s[l + 1] = cons
  BY <1>0, SlotsApart DEF IInv
<1>6. \A p \in l + 2 .. n : s[p] # cons /\ s[p] \in Slots
  BY <1>1, <1>4, <1>5
<1>7. /\ r \in 0 .. e /\ e \in l .. n /\ giveTurn = s[e + 1]
      /\ \A p \in l + 1 .. n : pageStatus[s[p]] <=> p > e
      /\ \A p \in l + 1 .. e : completion[s[p]] \/ (rdCompleted /\ p = e)
  BY <1>0 DEF PageInv
<1>8. e \in l + 1 .. n
  <2>1. l + 1 \in l + 1 .. n
    BY <1>1, <1>4
  <2>2. ~(l + 1 > e)
    BY <1>3, <1>5, <1>7, <2>1
  <2> QED BY <1>1, <1>7, <2>2
<1>9. Q[l + 1] = desc[cons]
  <2>1. l + 1 \in l + 1 .. n
    BY <1>1, <1>4
  <2> QED BY <1>0, <1>5, <2>1 DEF QueueInv
<1>10. /\ leaked' = {} /\ Len(pending') = l + 1
       /\ pending'[l + 1] = Q[l + 1]
       /\ \A p \in 1 .. l : pending'[p] = pending[p]
  <2>1. leaked = {} /\ Cardinality({}) = 0 /\ ~(0 < MaxLeaks)
    BY <1>0, FS_EmptySet DEF QueueInv, Calm
  <2>2. pending' = Append(pending, desc[cons]) /\ leaked' = leaked
    BY <2>1 DEF CheckCompletion
  <2>3. pending \in Seq(Addr) /\ desc[cons] \in Addr
    BY <1>2, <1>3 DEF IInv, TypeOK
  <2> QED BY <1>9, <2>1, <2>2, <2>3, AppendProperties
<1>11. QueueInv(Q, s)'
  <2>1. Q \in Seq(Addr) /\ s \in [1 .. Len(Q) + 1 -> Slots] /\ prod' = s[Len(Q) + 1]
        /\ \A p, q \in 1 .. Len(Q) : Q[p] = Q[q] => p = q
    BY <1>0, <1>2 DEF QueueInv
  <2>2. Len(Q) - Len(pending') \in 0 .. N
    BY <1>1, <1>4, <1>10
  <2>3. \A p \in 1 .. Len(pending') : Q[p] = pending'[p]
    <3>1. \A p \in 1 .. l : Q[p] = pending'[p]
      BY <1>0, <1>10 DEF QueueInv
    <3>2. \A p \in 1 .. l + 1 : p = l + 1 \/ p \in 1 .. l
      BY <1>1
    <3> QED BY <1>10, <3>1, <3>2
  <2>4. \A p \in Len(pending') + 1 .. Len(Q) : Q[p] = desc'[s[p]]
    <3>1. \A p \in l + 1 .. n : Q[p] = desc[s[p]]
      BY <1>0 DEF QueueInv
    <3>2. \A p \in l + 2 .. n : Q[p] = desc'[s[p]]
      BY <1>1, <1>2, <1>6, <3>1 DEF IInv, TypeOK
    <3>3. Len(pending') + 1 = l + 2
      BY <1>1, <1>10
    <3> QED BY <3>2, <3>3
  <2>5. \A p \in Len(pending') + 1 .. Len(Q) + 1 :
          s[p] = SlotAt(cons', p - Len(pending') - 1)
    <3>1. \A p \in l + 1 .. n + 1 : s[p] = SlotAt(cons, p - l - 1)
      BY <1>0 DEF QueueInv
    <3>2. ASSUME NEW p \in l + 2 .. n + 1
          PROVE  s[p] = SlotAt(cons', p - (l + 1) - 1)
      <4>1. s[p] = SlotAt(cons, p - l - 1)
        BY <1>1, <3>1
      <4>2. SlotAt(cons, p - l - 1) = SlotAt(cons', p - (l + 1) - 1)
        BY <1>1, <1>2 DEF SlotAt, Inc
      <4> QED BY <4>1, <4>2
    <3>3. Len(pending') + 1 = l + 2
      BY <1>1, <1>10
    <3> QED BY <1>10, <3>2, <3>3
  <2>6. \A i \in Slots :
          desc'[i] # NULL => \E p \in Len(pending') + 1 .. Len(Q) : s[p] = i
    <3> SUFFICES ASSUME NEW i \in Slots, desc'[i] # NULL
                 PROVE  \E p \in Len(pending') + 1 .. Len(Q) : s[p] = i
      OBVIOUS
    <3>1. desc[i] # NULL /\ i # cons
      BY <1>2 DEF IInv, TypeOK
    <3>2. PICK p \in l + 1 .. n : s[p] = i
      BY <1>0, <3>1 DEF QueueInv
    <3>3. p \in Len(pending') + 1 .. Len(Q)
      BY <1>1, <1>5, <1>10, <3>1, <3>2
    <3> QED BY <3>2, <3>3
  <2>7. xpc' = "stat" => \A p \in 1 .. Len(Q) : Q[p] # pageAddr'[prod']
    BY <1>0, <1>2 DEF CheckCompletion, QueueInv, pageVars
  <2> QED BY <1>10, <2>1, <2>2, <2>3, <2>4, <2>5, <2>6, <2>7 DEF QueueInv
<1>12. PageInv(Q, s, r, e)'
  <2>1. UNCHANGED <<giveTurn, pageStatus, rdCompleted>> /\ Len(pending') = l + 1
    BY <1>10 DEF CheckCompletion, pageVars, readVars, doneVars
  <2>2. \A p \in l + 1 + 1 .. n : pageStatus[s[p]] <=> p > e
    BY <1>1, <1>7
  <2>3. \A p \in l + 1 + 1 .. e : completion'[s[p]] \/ (rdCompleted /\ p = e)
    <3>1. \A p \in l + 1 + 1 .. e : p \in l + 1 .. e /\ p \in l + 2 .. n
      BY <1>1, <1>7
    <3> QED BY <1>2, <1>6, <1>7, <3>1 DEF IInv, TypeOK
  <2> QED BY <1>7, <1>8, <2>1, <2>2, <2>3 DEF PageInv
<1>13. RequestInv(Q, s, r, e)' /\ CountInv'
  BY <1>0, KeepRequest, KeepCount DEF CheckCompletion, CalmInv, readVars, noteVars
<1>14. NoteInv(Q, s, r)'
  <2>1. UNCHANGED <<mixer, gpc, gcAddr, lastGc>> /\ Len(pending') = l + 1
    BY <1>10 DEF CheckCompletion, pollVars, noteVars
  <2>2. ASSUME gcAddr # NULL, ~Used
        PROVE  \E m \in 1 .. r : /\ gcAddr = Q[m]
                                 /\ mixer # NULL => m < r
                                 /\ m > l + 1 => completion'[s[m]]
    <3>1. PICK m \in 1 .. r : /\ gcAddr = Q[m]
                              /\ mixer # NULL => m < r
                              /\ m > l => completion[s[m]]
      BY <1>0, <2>2 DEF NoteInv
    <3>2. m > l + 1 => completion'[s[m]]
      <4>1. m > l + 1 => m \in l + 2 .. n /\ m > l
        BY <1>1, <1>7
      <4> QED BY <1>2, <1>6, <3>1, <4>1 DEF IInv, TypeOK
    <3> QED BY <3>1, <3>2
  <2> QED BY <1>0, <2>1, <2>2 DEF NoteInv, Used
<1> QED BY <1>11, <1>12, <1>13, <1>14 DEF CalmInv

(* The steps of nf10_poll around the cleaning. *)
LEMMA PollCalm ==
  ASSUME NEW Q, NEW s, NEW r, NEW e, CalmInv(Q, s, r, e),
         GcEnter \/ GcLock \/ GcCas \/ GcDone
  PROVE  CalmInv(Q, s, r, e)'
<1>1. QueueInv(Q, s)'
  BY KeepQueue DEF CalmInv, GcEnter, GcLock, GcCas, GcDone, pageVars
<1>2. PageInv(Q, s, r, e)'
  BY KeepPage DEF CalmInv, GcEnter, GcLock, GcCas, GcDone, pageVars, readVars,
                  doneVars, gcVars
<1>3. RequestInv(Q, s, r, e)'
  BY KeepRequest DEF CalmInv, GcEnter, GcLock, GcCas, GcDone, readVars
<1>4. CountInv'
  BY KeepCount DEF CalmInv, GcEnter, GcLock, GcCas, GcDone, noteVars
<1>5. NoteInv(Q, s, r)'
  <2>1. NoteInv(Q, s, r) /\ UNCHANGED <<mixer, pending, completion>>
    BY DEF CalmInv, GcEnter, GcLock, GcCas, GcDone, noteVars, gcVars
  <2>2. CASE GcEnter \/ GcLock \/ GcDone
    <3>1. UNCHANGED <<gcAddr, lastGc>> /\ gpc # "cas"
      BY <2>2 DEF GcEnter, GcLock, GcDone
    <3>2. gpc' \in {"lock", "check", "cas"} => gcAddr # NULL
      BY <2>1, <2>2 DEF GcEnter, GcLock, GcDone, NoteInv
    <3>3. ~Used
      BY <3>1 DEF Used
    <3> QED BY <2>1, <3>1, <3>2, <3>3 DEF NoteInv
  <2>3. CASE GcCas
    <3>1. CASE gcAddr = lastGc
      BY <2>1, <2>3, <3>1 DEF GcCas, NoteInv
    <3>2. CASE gcAddr # lastGc
      <4>1. ~Used /\ gcAddr # NULL /\ gcAddr' = gcAddr
        BY <2>1, <2>3, <3>2 DEF GcCas, NoteInv, Used
      <4> QED BY <2>1, <4>1 DEF NoteInv
    <3> QED BY <3>1, <3>2
  <2> QED BY <2>2, <2>3
<1> QED BY <1>1, <1>2, <1>3, <1>4, <1>5 DEF CalmInv

-----------------------------------------------------------------------------
(* The cleaning finds its address in the pending list, and frees what was  *)
(* read to the end. *)
LEMMA CleanFound ==
  ASSUME NEW Q, NEW s, NEW r, NEW e, IInv, CalmInv(Q, s, r, e), GcClean
  PROVE  \E m \in 1 .. r :
           /\ m <= Len(pending)
           /\ mixer # NULL => m < r
           /\ pending' = SubSeq(pending, m + 1, Len(pending))
<1> PICK n, l : n = Len(Q) /\ l = Len(pending)
  OBVIOUS
<1>0. QueueInv(Q, s) /\ PageInv(Q, s, r, e) /\ NoteInv(Q, s, r)
  BY DEF CalmInv
<1>1. /\ n \in Nat /\ l \in Nat /\ l <= n /\ DOMAIN pending = 1 .. l
      /\ \A p \in 1 .. n : Q[p] \in Addr /\ Q[p] # NULL
  BY <1>0, QueueTypes DEF IInv
<1>2. /\ r \in 0 .. e /\ e \in l .. n
      /\ \A p \in l + 1 .. e : completion[s[p]] \/ (rdCompleted /\ p = e)
  BY <1>0 DEF PageInv
<1>3. /\ \A p, q \in 1 .. n : Q[p] = Q[q] => p = q
      /\ \A p \in 1 .. l : Q[p] = pending[p]
      /\ \A p \in l + 1 .. n : Q[p] = desc[s[p]]
  BY <1>0 DEF QueueInv
<1>4. gcAddr # NULL /\ ~Used
  BY <1>0 DEF GcClean, NoteInv, Used
<1>5. PICK m \in 1 .. r : /\ gcAddr = Q[m]
                          /\ mixer # NULL => m < r
                          /\ m > l => completion[s[m]]
  BY <1>0, <1>4 DEF NoteInv
<1>6. m <= l
  <2> SUFFICES ASSUME m > l PROVE FALSE
    BY <1>1, <1>2
  <2>1. l + 1 \in l + 1 .. e /\ l + 1 \in l + 1 .. n /\ l + 1 \in 1 .. n
    BY <1>1, <1>2
  <2>2. s[l + 1] = cons
    BY <1>0, SlotsApart DEF IInv
  <2>3. completion[cons]
    <3>1. CASE m = l + 1
      BY <1>5, <2>2, <3>1
    <3>2. CASE m # l + 1
      <4>1. l + 1 # e
        BY <1>1, <1>2, <3>2
      <4> QED BY <1>2, <2>1, <2>2, <4>1
    <3> QED BY <3>1, <3>2
  <2>4. desc[cons] # NULL
    BY <1>1, <1>3, <2>1, <2>2
  <2> QED BY <2>3, <2>4 DEF GcClean, MoreCompleted, Empty
<1>7. m \in 1 .. l /\ m \in 1 .. n
  BY <1>1, <1>2, <1>6
<1>8. \A k \in DOMAIN pending : pending[k] = gcAddr <=> k = m
  BY <1>1, <1>3, <1>5, <1>7
<1>9. Remaining(gcAddr) = SubSeq(pending, m + 1, Len(pending))
  <2>1. \E k \in DOMAIN pending : pending[k] = gcAddr
    BY <1>1, <1>7, <1>8
  <2>2. (CHOOSE k \in DOMAIN pending : pending[k] = gcAddr) = m
    BY <1>8, <2>1
  <2> QED BY <2>1, <2>2 DEF Remaining
<1> QED BY <1>5, <1>6, <1>9 DEF GcClean

(* What is freed is dropped from the front of Q. *)
LEMMA CleanCalm ==
  ASSUME NEW Q, NEW s, NEW r, NEW e, IInv, CalmInv(Q, s, r, e), GcClean
  PROVE  \E m, t : /\ m \in 1 .. r
                   /\ CalmInv(SubSeq(Q, m + 1, Len(Q)), t, r - m, e - m)'
<1> PICK n, l : n = Len(Q) /\ l = Len(pending)
  OBVIOUS
<1>0. /\ QueueInv(Q, s) /\ PageInv(Q, s, r, e)
      /\ RequestInv(Q, s, r, e) /\ NoteInv(Q, s, r)
  BY DEF CalmInv
<1>1. /\ n \in Nat /\ l \in Nat /\ N \in Nat \ {0} /\ l <= n /\ n - l <= N
      /\ \A p \in 1 .. n : Q[p] \in Addr /\ Q[p] # NULL
      /\ \A p \in 1 .. n + 1 : s[p] \in Slots
  BY <1>0, QueueTypes DEF IInv
<1>2. PICK m \in 1 .. r : /\ m <= l
                          /\ mixer # NULL => m < r
                          /\ pending' = SubSeq(pending, m + 1, l)
  BY CleanFound
<1>3. /\ r \in 0 .. e /\ e \in l .. n /\ giveTurn = s[e + 1]
      /\ \A p \in l + 1 .. n : pageStatus[s[p]] <=> p > e
      /\ \A p \in l + 1 .. e : completion[s[p]] \/ (rdCompleted /\ p = e)
  BY <1>0 DEF PageInv
<1>4. m \in 1 .. l /\ m \in Nat
  BY <1>1, <1>2, <1>3
<1> PICK R, t, f, g, u, v : /\ R = SubSeq(Q, m + 1, n) /\ f = r - m /\ g = e - m
                            /\ u = n - m /\ v = l - m
                            /\ t = [p \in 1 .. u + 1 |-> s[p + m]]
  OBVIOUS
<1>5. /\ u \in Nat /\ v \in Nat /\ f \in 0 .. g /\ g \in v .. u
      /\ u - v = n - l
  <2>1. r \in Nat /\ e \in Nat /\ m <= r /\ r <= e /\ e <= n /\ l <= e
    BY <1>1, <1>2, <1>3
  <2>2. f \in Nat /\ g \in Nat /\ f <= g /\ u \in Nat /\ v \in Nat
    BY <1>1, <1>4, <2>1
  <2>3. v <= g /\ g <= u /\ u - v = n - l
    BY <1>1, <1>4, <2>1
  <2> QED BY <2>2, <2>3
<1>6. /\ R \in Seq(Addr) /\ Len(R) = u
      /\ \A p \in 1 .. u : R[p] = Q[p + m] /\ p + m \in 1 .. n
  <2>1. Q \in Seq(Addr)
    BY <1>0 DEF QueueInv
  <2>2. m + 1 \in 1 .. n + 1 /\ \A p \in m + 1 .. n : p \in 1 .. n
    BY <1>1, <1>4
  <2>3. R \in Seq(Addr)
    BY <2>1, <2>2, SuffixInSeq
  <2>4. Len(R) = u
    <3>1. Len(R) = IF m + 1 <= n THEN n - (m + 1) + 1 ELSE 0
      BY <1>1, <2>1, <2>2, SubSeqProperties
    <3> QED BY <1>1, <1>4, <3>1
  <2>5. \A p \in 1 .. u : R[p] = Q[p + m]
    <3>1. \A p \in 1 .. n - (m + 1) + 1 : R[p] = Q[(m + 1) + p - 1]
      BY <1>1, <2>1, <2>2, SubSeqProperties
    <3>2. \A p \in 1 .. u : p \in 1 .. n - (m + 1) + 1 /\ (m + 1) + p - 1 = p + m
      BY <1>1, <1>4
    <3> QED BY <3>1, <3>2
  <2>6. \A p \in 1 .. u : p + m \in 1 .. n
    BY <1>1, <1>4
  <2> QED BY <2>3, <2>4, <2>5, <2>6
<1>7. /\ t \in [1 .. u + 1 -> Slots]
      /\ \A p \in 1 .. u + 1 : t[p] = s[p + m] /\ p + m \in 1 .. n + 1
  <2>1. \A p \in 1 .. u + 1 : p + m \in 1 .. n + 1
    BY <1>1, <1>4
  <2> QED BY <1>1, <2>1
<1>8. Len(pending') = v /\ \A p \in 1 .. v : pending'[p] = pending[p + m]
  <2>1. pending \in Seq(Addr)
    BY DEF IInv, TypeOK
  <2>2. m + 1 \in 1 .. l + 1 /\ \A p \in m + 1 .. l : p \in 1 .. l
    BY <1>1, <1>4
  <2>4. Len(pending') = v
    <3>1. Len(pending') = IF m + 1 <= l THEN l - (m + 1) + 1 ELSE 0
      BY <1>1, <1>2, <2>1, <2>2, SubSeqProperties
    <3> QED BY <1>1, <1>4, <3>1
  <2>5. \A p \in 1 .. v : pending'[p] = pending[p + m]
    <3>1. \A p \in 1 .. l - (m + 1) + 1 : pending'[p] = pending[(m + 1) + p - 1]
      BY <1>1, <1>2, <2>1, <2>2, SubSeqProperties
    <3>2. \A p \in 1 .. v : p \in 1 .. l - (m + 1) + 1 /\ (m + 1) + p - 1 = p + m
      BY <1>1, <1>4
    <3> QED BY <3>1, <3>2
  <2> QED BY <2>4, <2>5
<1>9. /\ UNCHANGED <<ringVars, leaked, xpc, completion, pageVars, readVars,
                  doneVars, noteVars>>
      /\ gcAddr' = gcAddr /\ gpc' = "cas" /\ lastGc' = gcAddr
  BY DEF GcClean
<1>10. QueueInv(R, t)'
  <2>1. R \in Seq(Addr) /\ t \in [1 .. Len(R) + 1 -> Slots]
    BY <1>6, <1>7
  <2>2. Len(R) - Len(pending') \in 0 .. N
    BY <1>1, <1>5, <1>6, <1>8
  <2>3. \A p, q \in 1 .. Len(R) : R[p] = R[q] => p = q
    <3>1. \A p, q \in 1 .. n : Q[p] = Q[q] => p = q
      BY <1>0 DEF QueueInv
    <3> SUFFICES ASSUME NEW p \in 1 .. u, NEW q \in 1 .. u, R[p] = R[q]
                 PROVE  p = q
      BY <1>6
    <3>2. p + m = q + m
      BY <1>6, <3>1
    <3> QED BY <1>4, <1>5, <3>2
  <2>4. \A p \in 1 .. Len(pending') : R[p] = pending'[p]
    <3>1. \A p \in 1 .. l : Q[p] = pending[p]
      BY <1>0 DEF QueueInv
    <3>2. \A p \in 1 .. v : p \in 1 .. u /\ p + m \in 1 .. l
      BY <1>1, <1>4
    <3> QED BY <1>6, <1>8, <3>1, <3>2
  <2>5. \A p \in Len(pending') + 1 .. Len(R) : R[p] = desc'[t[p]]
    <3>1. \A p \in l + 1 .. n : Q[p] = desc[s[p]]
      BY <1>0 DEF QueueInv
    <3>2. \A p \in v + 1 .. u : p \in 1 .. u /\ p \in 1 .. u + 1 /\ p + m \in l + 1 .. n
      BY <1>1, <1>4
    <3> QED BY <1>6, <1>7, <1>8, <1>9, <3>1, <3>2 DEF ringVars
  <2>6. \A p \in Len(pending') + 1 .. Len(R) + 1 :
          t[p] = SlotAt(cons', p - Len(pending') - 1)
    <3>1. \A p \in l + 1 .. n + 1 : s[p] = SlotAt(cons, p - l - 1)
      BY <1>0 DEF QueueInv
    <3>2. ASSUME NEW p \in v + 1 .. u + 1 PROVE t[p] = SlotAt(cons, p - v - 1)
      <4>1. p \in 1 .. u + 1 /\ p + m \in l + 1 .. n + 1 /\ (p + m) - l - 1 = p - v - 1
        BY <1>1, <1>4
      <4> QED BY <1>7, <3>1, <4>1
    <3> QED BY <1>6, <1>8, <1>9, <3>2 DEF ringVars
  <2>7. \A i \in Slots :
          desc'[i] # NULL => \E p \in Len(pending') + 1 .. Len(R) : t[p] = i
    <3> SUFFICES ASSUME NEW i \in Slots, desc'[i] # NULL
                 PROVE  \E p \in v + 1 .. u : t[p] = i
      BY <1>6, <1>8
    <3>1. desc[i] # NULL
      BY <1>9 DEF ringVars
    <3>2. PICK p \in l + 1 .. n : s[p] = i
      BY <1>0, <3>1 DEF QueueInv
    <3>3. p - m \in v + 1 .. u /\ p - m \in 1 .. u + 1 /\ (p - m) + m = p
      BY <1>1, <1>4
    <3>4. t[p - m] = i
      BY <1>7, <3>2, <3>3
    <3> QED BY <3>3, <3>4
  <2>8. t[Len(R) + 1] = prod'
    <3>1. s[n + 1] = prod
      BY <1>0 DEF QueueInv
    <3>2. u + 1 \in 1 .. u + 1 /\ (u + 1) + m = n + 1
      BY <1>1, <1>4, <1>5
    <3> QED BY <1>6, <1>7, <1>9, <3>1, <3>2 DEF ringVars
  <2>9. xpc' = "stat" => \A p \in 1 .. Len(R) : R[p] # pageAddr'[prod']
    <3>1. xpc = "stat" => \A p \in 1 .. n : Q[p] # pageAddr[prod]
      BY <1>0 DEF QueueInv
    <3> QED BY <1>6, <1>9, <3>1 DEF ringVars, pageVars
  <2>10. leaked' = {}
    BY <1>0, <1>9 DEF QueueInv
  <2> QED BY <2>1, <2>2, <2>3, <2>4, <2>5, <2>6, <2>7, <2>8, <2>9, <2>10 DEF QueueInv
<1>11. PageInv(R, t, f, g)'
  <2>1. UNCHANGED <<giveTurn, pageStatus, completion, rdCompleted>>
    BY <1>9 DEF pageVars, readVars, doneVars
  <2>2. t[g + 1] = giveTurn
    <3>1. g + 1 \in 1 .. u + 1 /\ (g + 1) + m = e + 1
      BY <1>1, <1>3, <1>4, <1>5
    <3> QED BY <1>3, <1>7, <3>1
  <2>3. \A p \in v + 1 .. u : pageStatus[t[p]] <=> p > g
    <3> SUFFICES ASSUME NEW p \in v + 1 .. u PROVE pageStatus[t[p]] <=> p > g
      OBVIOUS
    <3>1. p \in 1 .. u + 1 /\ p + m \in l + 1 .. n /\ (p + m > e <=> p > g)
      BY <1>1, <1>3, <1>4
    <3> QED BY <1>3, <1>7, <3>1
  <2>4. \A p \in v + 1 .. g : completion[t[p]] \/ (rdCompleted /\ p = g)
    <3> SUFFICES ASSUME NEW p \in v + 1 .. g
                 PROVE  completion[t[p]] \/ (rdCompleted /\ p = g)
      OBVIOUS
    <3>1. p \in 1 .. u + 1 /\ p + m \in l + 1 .. e /\ (p + m = e <=> p = g)
      BY <1>1, <1>3, <1>4
    <3> QED BY <1>3, <1>7, <3>1
  <2> QED BY <1>5, <1>6, <1>8, <2>1, <2>2, <2>3, <2>4 DEF PageInv
<1>12. RequestInv(R, t, f, g)'
  <2>0. requests' = requests /\ reading' = reading
    BY <1>9 DEF readVars
  <2>1. ASSUME NEW k \in DOMAIN requests
        PROVE  /\ ~requests[k].done
               /\ \E p \in f + 1 .. g + 1 :
                    /\ p \in 1 .. u
                    /\ requests[k].addr = R[p] /\ requests[k].slot = t[p]
                    /\ p = g + 1 => reading
    <3>1. ~requests[k].done
      BY <1>0 DEF RequestInv
    <3>2. PICK p \in r + 1 .. e + 1 :
                    /\ p \in 1 .. n
                    /\ requests[k].addr = Q[p] /\ requests[k].slot = s[p]
                    /\ p = e + 1 => reading
      BY <1>0 DEF RequestInv, Reads
    <3>3. /\ p - m \in f + 1 .. g + 1 /\ p - m \in 1 .. u /\ p - m \in 1 .. u + 1
          /\ (p - m) + m = p /\ (p - m = g + 1 <=> p = e + 1)
      BY <1>1, <1>3, <1>4, <3>2
    <3>4. R[p - m] = Q[p] /\ t[p - m] = s[p]
      BY <1>6, <1>7, <3>3
    <3> QED BY <3>1, <3>2, <3>3, <3>4
  <2>2. \A k \in DOMAIN requests' :
          /\ ~requests'[k].done
          /\ \E p \in f + 1 .. g + 1 :
               /\ p \in 1 .. Len(R) /\ Reads(k, R, p)' /\ requests'[k].slot = t[p]
               /\ p = g + 1 => reading'
    BY <1>6, <2>0, <2>1 DEF Reads
  <2>3. \A k, j \in DOMAIN requests', p, q \in 1 .. Len(R) :
          k < j /\ Reads(k, R, p)' /\ Reads(j, R, q)' => p <= q
    <3>1. ASSUME NEW k \in DOMAIN requests, NEW j \in DOMAIN requests,
                 NEW p \in 1 .. u, NEW q \in 1 .. u,
                 k < j, requests[k].addr = R[p], requests[j].addr = R[q]
          PROVE  p <= q
      <4>1. p + m <= q + m
        BY <1>0, <1>6, <3>1 DEF RequestInv, Reads
      <4>2. m \in Nat /\ p \in Nat /\ q \in Nat
        BY <1>4, <1>5
      <4> QED BY <4>1, <4>2
    <3>2. \A k, j \in DOMAIN requests, p, q \in 1 .. u :
            k < j /\ requests[k].addr = R[p] /\ requests[j].addr = R[q] => p <= q
      BY <3>1
    <3>3. Len(R) = u
      BY <1>6
    <3> QED BY <2>0, <3>2, <3>3, ZenonT(60) DEF Reads
  <2>4. \A p \in f + 1 .. g : \E k \in DOMAIN requests' : Reads(k, R, p)'
    <3> SUFFICES ASSUME NEW p \in f + 1 .. g
                 PROVE  \E k \in DOMAIN requests : requests[k].addr = R[p]
      BY <2>0 DEF Reads
    <3>1. p \in 1 .. u /\ p + m \in r + 1 .. e
      BY <1>1, <1>3, <1>4
    <3> QED BY <1>0, <1>6, <3>1 DEF RequestInv, Reads
  <2> QED BY <2>2, <2>3, <2>4 DEF RequestInv
<1>13. CountInv'
  BY <1>9, KeepCount DEF CalmInv, noteVars
<1>14. NoteInv(R, t, f)'
  <2>1. mixer' = mixer /\ Used' /\ gcAddr' # NULL
    BY <1>0, <1>9 DEF NoteInv, GcClean, Used, noteVars
  <2>2. mixer # NULL => f > 0 /\ mixer = R[f]
    <3> HAVE mixer # NULL
    <3>1. m < r /\ mixer = Q[r]
      BY <1>0, <1>2 DEF NoteInv
    <3>2. f \in 1 .. u /\ f + m = r /\ f > 0
      <4>1. r \in Nat /\ r <= n
        BY <1>1, <1>3
      <4> QED BY <1>1, <1>4, <3>1, <4>1
    <3>3. R[f] = Q[f + m]
      BY <1>6, <3>2
    <3> QED BY <3>1, <3>2, <3>3
  <2> QED BY <2>1, <2>2 DEF NoteInv
<1> QED BY <1>2, <1>10, <1>11, <1>12, <1>13, <1>14 DEF CalmInv

-----------------------------------------------------------------------------
(* The number of requests that read a buffer, as the sequence changes. *)
LEMMA ReadingType ==
  ASSUME NEW rs \in Seq(Request), NEW a
  PROVE  /\ IsFiniteSet({k \in DOMAIN rs : rs[k].addr = a})
         /\ Reading(rs, a) \in Nat
         /\ Reading(rs, a) = 0 <=> \A k \in DOMAIN rs : rs[k].addr # a
<1> PICK S : S = {k \in DOMAIN rs : rs[k].addr = a}
  OBVIOUS
<1>1. DOMAIN rs = 1 .. Len(rs) /\ Len(rs) \in Nat
  BY LenProperties
<1>2. IsFiniteSet(1 .. Len(rs))
  BY <1>1, FS_Interval
<1>3. S \in SUBSET (1 .. Len(rs))
  BY <1>1
<1>4. IsFiniteSet(S)
  BY <1>2, <1>3, FS_Subset
<1>5. Cardinality(S) \in Nat /\ (Cardinality(S) = 0 <=> S = {})
  BY <1>4, FS_CardinalityType, FS_EmptySet
<1>6. S = {} <=> \A k \in DOMAIN rs : rs[k].addr # a
  OBVIOUS
<1> QED BY <1>4, <1>5, <1>6 DEF Reading

(* A request that is issued adds one to what is read of its buffer. *)
LEMMA ReadingAppend ==
  ASSUME NEW rs \in Seq(Request), NEW q \in Request, NEW a
  PROVE  Reading(Append(rs, q), a) = Reading(rs, a) + (IF q.addr = a THEN 1 ELSE 0)
<1> PICK n, ts, S, T : /\ n = Len(rs) /\ ts = Append(rs, q)
                       /\ S = {k \in DOMAIN rs : rs[k].addr = a}
                       /\ T = {k \in DOMAIN ts : ts[k].addr = a}
  OBVIOUS
<1>1. /\ n \in Nat /\ DOMAIN rs = 1 .. n /\ DOMAIN ts = 1 .. n + 1
      /\ ts[n + 1] = q /\ \A k \in 1 .. n : ts[k] = rs[k]
  BY LenProperties, AppendProperties
<1>2. IsFiniteSet(S) /\ Cardinality(S) \in Nat
  BY ReadingType DEF Reading
<1>3. n + 1 \notin S
  BY <1>1
<1>4. CASE q.addr = a
  <2>1. T = S \cup {n + 1}
    BY <1>1, <1>4
  <2>2. Cardinality(S \cup {n + 1}) = Cardinality(S) + 1
    BY <1>2, <1>3, FS_AddElement
  <2> QED BY <1>4, <2>1, <2>2 DEF Reading
<1>5. CASE q.addr # a
  <2>1. T = S
    BY <1>1, <1>5
  <2>2. Reading(ts, a) = Cardinality(T) /\ Reading(rs, a) = Cardinality(S)
    BY DEF Reading
  <2> QED BY <1>2, <1>5, <2>1, <2>2
<1> QED BY <1>4, <1>5

(* The answer to the oldest request takes one away. *)
LEMMA ReadingTail ==
  ASSUME NEW rs \in Seq(Request), NEW ts \in Seq(Request), NEW a,
         Len(rs) = Len(ts) + 1,
         \A k \in 1 .. Len(ts) : ts[k].addr = rs[k + 1].addr
  PROVE  Reading(rs, a) = Reading(ts, a) + (IF rs[1].addr = a THEN 1 ELSE 0)
<1> PICK n, S, T, U, f : /\ n = Len(ts)
                         /\ S = {k \in DOMAIN rs : rs[k].addr = a}
                         /\ T = {k \in DOMAIN ts : ts[k].addr = a}
                         /\ U = S \ {1}
                         /\ f = [k \in T |-> k + 1]
  OBVIOUS
<1>1. /\ n \in Nat /\ DOMAIN rs = 1 .. n + 1 /\ DOMAIN ts = 1 .. n
      /\ \A k \in 1 .. n : ts[k].addr = rs[k + 1].addr
  BY LenProperties
<1>2. /\ IsFiniteSet(S) /\ Cardinality(S) \in Nat
      /\ IsFiniteSet(T) /\ Cardinality(T) \in Nat
  <2>1. IsFiniteSet({k \in DOMAIN rs : rs[k].addr = a})
    BY ReadingType
  <2>2. IsFiniteSet({k \in DOMAIN ts : ts[k].addr = a})
    BY ReadingType
  <2>3. IsFiniteSet(S) /\ IsFiniteSet(T)
    BY <2>1, <2>2
  <2> QED BY <2>3, FS_CardinalityType
<1>3. \A k \in T : k \in 1 .. n /\ k + 1 \in U /\ f[k] = k + 1
  BY <1>1
<1>4. \A k \in U : k - 1 \in T /\ f[k - 1] = k
  BY <1>1
<1>5. f \in [T -> U]
  BY <1>3
<1>6. \A k, j \in T : f[k] = f[j] => k = j
  BY <1>1, <1>3
<1>7. \A k \in U : \E j \in T : f[j] = k
  BY <1>4
<1>8. f \in Bijection(T, U)
  <2>1. f \in Injection(T, U)
    BY <1>5, <1>6, Fun_IsInj
  <2>2. f \in Surjection(T, U)
    BY <1>5, <1>7, Fun_IsSurj
  <2> QED BY <2>1, <2>2 DEF Bijection
<1>9. Cardinality(U) = Cardinality(T)
  <2>1. ExistsBijection(T, U)
    BY <1>8, Fun_ExistsBij
  <2> QED BY <1>2, <2>1, FS_Bijection
<1>10. Cardinality(U) = IF 1 \in S THEN Cardinality(S) - 1 ELSE Cardinality(S)
  BY <1>2, FS_RemoveElement
<1>11. 1 \in S <=> rs[1].addr = a
  BY <1>1
<1>12. Reading(rs, a) = Cardinality(S) /\ Reading(ts, a) = Cardinality(T)
  BY DEF Reading
<1> QED BY <1>2, <1>9, <1>10, <1>11, <1>12

(* What is outstanding is a number, and none means that no request is. *)
LEMMA OutstandingType ==
  ASSUME IInv, NEW a
  PROVE  /\ Outstanding(a) \in Nat /\ Reading(requests, a) \in Nat
         /\ Reading(requests, a) = 0
              <=> \A k \in DOMAIN requests : requests[k].addr # a
<1>1. requests \in Seq(Request) /\ left \in Nat
  BY DEF IInv, TypeOK
<1>2. /\ Reading(requests, a) \in Nat
      /\ Reading(requests, a) = 0
           <=> \A k \in DOMAIN requests : requests[k].addr # a
  BY <1>1, ReadingType
<1>3. Outstanding(a) \in Nat
  BY <1>1, <1>2 DEF Outstanding
<1> QED BY <1>2, <1>3

-----------------------------------------------------------------------------
(* A page is taken: its machine starts to count. *)
LEMMA GiveCalm ==
  ASSUME NEW Q, NEW s, NEW r, NEW e, IInv, CalmInv(Q, s, r, e), Calm, NicGive
  PROVE  CalmInv(Q, s, r, e)'
<1> PICK n, l, g, b, c : /\ n = Len(Q) /\ l = Len(pending) /\ g = giveTurn
                         /\ b = pageAddr[g] /\ c = pageReqs[g]
  OBVIOUS
<1>0. /\ QueueInv(Q, s) /\ PageInv(Q, s, r, e)
      /\ RequestInv(Q, s, r, e) /\ NoteInv(Q, s, r)
      /\ CountInv
  BY DEF CalmInv
<1>1. /\ ~reading /\ pageStatus[g] /\ notif[g].state = "idle"
      /\ reading' = TRUE /\ readAddr' = b /\ left' = c
      /\ notif' = [notif EXCEPT ![g] = Armed(b, c)]
      /\ requests' = requests /\ giveTurn' = g /\ g \in Slots
  BY DEF NicGive, Calm, IInv, TypeOK
<1>2. c \in 1 .. MaxReq /\ c > 0 /\ c \in Nat
  BY <1>1, ConstantsAssumption DEF IInv, SizeInv
<1>3. e < n /\ b = Q[e + 1]
  BY <1>0, <1>1, TurnPosted
<1>4. n \in Nat /\ l \in Nat /\ r \in 0 .. e /\ e \in l .. n /\ e + 1 \in 1 .. n
  BY <1>0, <1>3, QueueTypes DEF IInv, PageInv
<1>5. \A k \in DOMAIN requests : requests[k].addr # b
  <2> SUFFICES ASSUME NEW k \in DOMAIN requests, requests[k].addr = b PROVE FALSE
    OBVIOUS
  <2>1. PICK p \in r + 1 .. e + 1 : p \in 1 .. n /\ requests[k].addr = Q[p] /\ p # e + 1
    BY <1>0, <1>1 DEF RequestInv, Reads
  <2> QED BY <1>0, <1>3, <1>4, <2>1 DEF QueueInv
<1>6. \A a : Outstanding(a) = Reading(requests, a) /\ Reading(requests, a) \in Nat
             /\ (Reading(requests, a) = 0
                  <=> \A k \in DOMAIN requests : requests[k].addr # a)
  <2> TAKE a
  <2>1. Reading(requests, a) \in Nat
    BY OutstandingType
  <2> QED BY <1>1, <2>1, OutstandingType DEF Outstanding
<1>7. QueueInv(Q, s)'
  BY <1>0, KeepQueue DEF NicGive, pageVars
<1>8. PageInv(Q, s, r, e)'
  BY <1>0, KeepPage DEF NicGive, pageVars, doneVars, gcVars
<1>9. RequestInv(Q, s, r, e)'
  BY <1>0, <1>1 DEF RequestInv, Reads
<1>10. NoteInv(Q, s, r)'
  BY <1>0, KeepNote DEF NicGive, pollVars, gcVars
<1>11. CountInv'
  <2>1. /\ notif'[g] = Armed(b, c) /\ \A i \in Slots \ {g} : notif'[i] = notif[i]
    BY <1>1 DEF IInv, TypeOK
  <2>2. /\ notif'[g].state = "count" /\ notif'[g].addr = b
        /\ notif'[g].need = c /\ notif'[g].got = 0
    BY <2>1 DEF Armed
  <2>3. \A a : Outstanding(a)' = IF a = b THEN c ELSE Outstanding(a)
    <3> TAKE a
    <3>1. Outstanding(a)' = Reading(requests, a)
            + (IF b = a THEN c ELSE 0)
      BY <1>1 DEF Outstanding, Reading
    <3> QED BY <1>2, <1>5, <1>6, <3>1
  <2>4. ASSUME NEW i \in Slots, notif[i].state = "count" PROVE notif[i].addr # b
    <3>1. Outstanding(notif[i].addr) > 0
      BY <1>0, <2>4 DEF CountInv
    <3> QED BY <1>5, <1>6, <3>1
  <2>5. ASSUME NEW i \in Slots
        PROVE  \/ notif'[i].state = "idle"
               \/ /\ notif'[i].state = "count"
                  /\ notif'[i].need = notif'[i].got + Outstanding(notif[i].addr)'
                  /\ Outstanding(notif[i].addr)' > 0
    <3>1. CASE i = g
      <4>0. Outstanding(notif[i].addr)' = Outstanding(b)'
        BY <2>2, <3>1 DEF Outstanding
      <4>1. Outstanding(notif[i].addr)' = c
        BY <2>3, <4>0
      <4> QED BY <1>2, <2>2, <3>1, <4>1
    <3>2. CASE i # g
      <4> PICK a : a = notif[i].addr
        OBVIOUS
      <4>1. notif'[i] = notif[i] /\ a = notif'[i].addr
        BY <2>1, <3>2
      <4>2. Outstanding(notif[i].addr)' = Outstanding(a)'
        BY <4>1 DEF Outstanding
      <4>3. notif[i].state = "count" => Outstanding(a)' = Outstanding(a)
        BY <2>3, <2>4
      <4> QED BY <1>0, <4>1, <4>2, <4>3 DEF CountInv
    <3> QED BY <3>1, <3>2
  <2>6. \A i, j \in Slots :
          /\ notif'[i].state = "count" /\ notif'[j].state = "count"
          /\ notif'[i].addr = notif'[j].addr
          => i = j
    BY <1>0, <2>1, <2>2, <2>4 DEF CountInv
  <2>7. \A k \in DOMAIN requests' :
          notif'[requests'[k].slot].state = "count"
          /\ notif'[requests'[k].slot].addr = requests'[k].addr
    <3> SUFFICES ASSUME NEW k \in DOMAIN requests
                 PROVE  /\ notif'[requests[k].slot].state = "count"
                        /\ notif'[requests[k].slot].addr = requests[k].addr
      BY <1>1
    <3>1. /\ notif[requests[k].slot].state = "count"
          /\ notif[requests[k].slot].addr = requests[k].addr
      BY <1>0 DEF CountInv
    <3>2. requests[k].slot \in Slots
      <4>1. requests[k] \in Request
        BY ElementOfSeq, LenProperties DEF IInv, TypeOK
      <4> QED BY <4>1 DEF Request
    <3>3. requests[k].slot # g
      BY <1>1, <3>1
    <3> QED BY <2>1, <3>1, <3>2, <3>3
  <2> QED BY <1>1, <2>2, <2>5, <2>6, <2>7 DEF CountInv
<1> QED BY <1>7, <1>8, <1>9, <1>10, <1>11 DEF CalmInv

(* A request is sent: the last one of its page returns the page. *)
LEMMA RequestCalm ==
  ASSUME NEW Q, NEW s, NEW r, NEW e, IInv, CalmInv(Q, s, r, e), NicRequest
  PROVE  \E e2 : CalmInv(Q, s, r, e2)'
<1> PICK n, l, g, b, q : /\ n = Len(Q) /\ l = Len(pending) /\ g = giveTurn
                         /\ b = readAddr
                         /\ q = [addr |-> b, slot |-> g, done |-> FALSE]
  OBVIOUS
<1> PICK e2, k2 : e2 = (IF left = 1 THEN e + 1 ELSE e) /\ k2 = Len(requests) + 1
  OBVIOUS
<1>0. /\ QueueInv(Q, s) /\ PageInv(Q, s, r, e)
      /\ RequestInv(Q, s, r, e) /\ NoteInv(Q, s, r)
      /\ CountInv
  BY DEF CalmInv
<1>1. /\ reading /\ ~rdCompleted /\ pageStatus[g] /\ g \in Slots
      /\ requests' = Append(requests, q)
      /\ left \in 1 .. MaxReq /\ left' = left - 1 /\ readAddr' = b
  BY DEF NicRequest, IInv, TypeOK, SlotProtocol, SizeInv
<1>2. left \in Nat /\ left > 0
  BY <1>1, ConstantsAssumption
<1>3. e < n /\ b = Q[e + 1]
  BY <1>0, <1>1, TurnPosted DEF IInv, SlotProtocol
<1>4. /\ n \in Nat /\ l \in Nat /\ r \in 0 .. e /\ e \in l .. n /\ e + 1 \in 1 .. n
      /\ e + 1 \in l + 1 .. n /\ e \in Nat /\ r \in Nat
      /\ \A p \in 1 .. n + 1 : s[p] \in Slots
      /\ \A p \in 1 .. n : Q[p] \in Addr
  BY <1>0, <1>3, QueueTypes DEF IInv, PageInv
<1>5. q \in Request /\ requests \in Seq(Request)
  BY <1>1, <1>3, <1>4 DEF Request, IInv, TypeOK
<1>6. /\ k2 \in Nat /\ DOMAIN requests = 1 .. k2 - 1 /\ DOMAIN requests' = 1 .. k2
      /\ requests'[k2] = q
      /\ \A k \in DOMAIN requests : requests'[k] = requests[k] /\ k < k2
  BY <1>1, <1>5, AppendProperties, LenProperties
<1>7. /\ g = s[e + 1]
      /\ \A p \in l + 1 .. n : pageStatus[s[p]] <=> p > e
      /\ \A p \in l + 1 .. e : completion[s[p]]
  BY <1>0, <1>1 DEF PageInv
<1>8. \A p, j \in 1 .. n : Q[p] = Q[j] => p = j
  BY <1>0 DEF QueueInv
<1>9. /\ UNCHANGED <<ringVars, gcVars, xpc, completion, pageAddr, notif, mixer,
                  gpc, gcAddr, lastGc>>
      /\ left = 1 => /\ reading' = FALSE /\ giveTurn' = Inc(g) /\ rdCompleted' = TRUE
                     /\ pageStatus' = [pageStatus EXCEPT ![g] = FALSE]
      /\ left # 1 => /\ reading' = reading /\ giveTurn' = g
                      /\ rdCompleted' = rdCompleted
                     /\ pageStatus' = pageStatus
  BY DEF NicRequest, pollVars, noteVars
<1>10. QueueInv(Q, s)'
  BY <1>0, <1>9, KeepQueue
<1>11. PageInv(Q, s, r, e2)'
  <2>1. CASE left # 1
    BY <1>0, <1>9, <2>1 DEF PageInv, gcVars
  <2>2. CASE left = 1
    <3>1. e2 = e + 1 /\ r \in 0 .. e2 /\ e2 \in l .. n
      BY <1>4, <2>2
    <3>2. /\ \A p, j \in l + 1 .. n : s[p] = s[j] => p = j
          /\ \A p \in l + 1 .. n : s[p + 1] = Inc(s[p])
      BY <1>0, SlotsApart DEF IInv
    <3>3. giveTurn' = s[e2 + 1]
      BY <1>4, <1>7, <1>9, <2>2, <3>1, <3>2
    <3>4. ASSUME NEW p \in l + 1 .. n PROVE pageStatus'[s[p]] <=> p > e2
      <4>1. s[p] \in Slots
        BY <1>4
      <4>2. pageStatus'[s[p]] <=> pageStatus[s[p]] /\ s[p] # g
        BY <1>9, <2>2, <4>1 DEF IInv, TypeOK
      <4>3. s[p] = g <=> p = e + 1
        BY <1>4, <1>7, <3>2
      <4> QED BY <1>4, <1>7, <3>1, <4>2, <4>3
    <3>5. \A p \in l + 1 .. e2 : completion[s[p]] \/ p = e2
      BY <1>4, <1>7, <3>1
    <3>6. pending' = pending /\ completion' = completion /\ rdCompleted' = TRUE
      BY <1>9, <2>2 DEF gcVars
    <3> QED BY <3>1, <3>3, <3>4, <3>5, <3>6 DEF PageInv
  <2> QED BY <2>1, <2>2
<1>12. RequestInv(Q, s, r, e2)'
  <2>0. e2 \in Nat /\ (e2 = e \/ e2 = e + 1) /\ (left = 1 <=> e2 = e + 1)
    BY <1>4
  <2>9. e2 # e + 1 => reading'
    BY <1>1, <1>9, <2>0
  <2>1. ASSUME NEW k \in DOMAIN requests'
        PROVE  /\ ~requests'[k].done
               /\ \E p \in r + 1 .. e2 + 1 :
                    /\ p \in 1 .. Len(Q) /\ Reads(k, Q, p)'
                    /\ requests'[k].slot = s[p]
                    /\ p = e2 + 1 => reading'
    <3>1. CASE k = k2
      <4>1. /\ requests'[k].addr = Q[e + 1] /\ requests'[k].slot = s[e + 1]
            /\ ~requests'[k].done
        BY <1>3, <1>6, <1>7, <3>1
      <4>2. e + 1 \in r + 1 .. e2 + 1 /\ e + 1 \in 1 .. Len(Q)
        BY <1>4, <2>0
      <4>3. e + 1 = e2 + 1 => reading'
        BY <1>4, <2>0, <2>9
      <4> QED BY <4>1, <4>2, <4>3 DEF Reads
    <3>2. CASE k # k2
      <4>1. k \in DOMAIN requests /\ requests'[k] = requests[k]
        BY <1>6, <3>2
      <4>2. PICK p \in r + 1 .. e + 1 :
                    /\ p \in 1 .. n
                    /\ requests[k].addr = Q[p] /\ requests[k].slot = s[p]
        BY <1>0, <4>1 DEF RequestInv, Reads
      <4>3. ~requests[k].done
        BY <1>0, <4>1 DEF RequestInv
      <4>4. p \in r + 1 .. e2 + 1
        BY <1>4, <2>0
      <4>5. p = e2 + 1 => reading'
        BY <1>4, <2>0, <2>9
      <4> QED BY <4>1, <4>2, <4>3, <4>4, <4>5 DEF Reads
    <3> QED BY <3>1, <3>2
  <2>2. \A k, j \in DOMAIN requests', p, h \in 1 .. Len(Q) :
          k < j /\ Reads(k, Q, p)' /\ Reads(j, Q, h)' => p <= h
    <3> SUFFICES ASSUME NEW k \in DOMAIN requests', NEW j \in DOMAIN requests',
                        NEW p \in 1 .. n, NEW h \in 1 .. n,
                        k < j, requests'[k].addr = Q[p], requests'[j].addr = Q[h]
                 PROVE  p <= h
      BY DEF Reads
    <3>1. k \in DOMAIN requests /\ requests[k].addr = Q[p]
      BY <1>6
    <3>2. CASE j = k2
      <4>1. h = e + 1
        BY <1>3, <1>4, <1>6, <1>8, <3>2
      <4>2. PICK w \in r + 1 .. e + 1 : w \in 1 .. n /\ requests[k].addr = Q[w]
        BY <1>0, <3>1 DEF RequestInv, Reads
      <4>3. p = w
        BY <1>8, <3>1, <4>2
      <4> QED BY <1>4, <4>1, <4>2, <4>3
    <3>3. CASE j # k2
      <4>1. j \in DOMAIN requests /\ requests[j].addr = Q[h]
        BY <1>6, <3>3
      <4> QED BY <1>0, <3>1, <4>1 DEF RequestInv, Reads
    <3> QED BY <3>2, <3>3
  <2>3. \A p \in r + 1 .. e2 : \E k \in DOMAIN requests' : Reads(k, Q, p)'
    <3> SUFFICES ASSUME NEW p \in r + 1 .. e2
                 PROVE  \E k \in DOMAIN requests' : requests'[k].addr = Q[p]
      BY DEF Reads
    <3>1. CASE p \in r + 1 .. e
      <4>1. PICK k \in DOMAIN requests : requests[k].addr = Q[p]
        BY <1>0, <3>1 DEF RequestInv, Reads
      <4> QED BY <1>6, <4>1
    <3>2. CASE p = e + 1
      BY <1>3, <1>6, <3>2
    <3> QED BY <1>4, <2>0, <3>1, <3>2
  <2> QED BY <2>1, <2>2, <2>3 DEF RequestInv
<1>13. CountInv'
  <2>1. \A a : Reading(requests', a) = Reading(requests, a) + (IF b = a THEN 1 ELSE 0)
    BY <1>1, <1>5, ReadingAppend
  <2>2. \A a : Outstanding(a)' = Outstanding(a)
    <3> TAKE a
    <3>1. Reading(requests, a) \in Nat
      BY OutstandingType
    <3>2. Outstanding(a) = Reading(requests, a)
            + (IF b = a THEN left ELSE 0)
      BY <1>1 DEF Outstanding
    <3>3. Outstanding(a)' = Reading(requests', a)
            + (IF reading' /\ b = a THEN left - 1 ELSE 0)
      BY <1>1 DEF Outstanding, Reading
    <3>4. ~reading' <=> left = 1
      BY <1>1, <1>9
    <3> QED BY <1>2, <2>1, <3>1, <3>2, <3>3, <3>4
  <2>3. \A i \in Slots : Outstanding(notif[i].addr)' = Outstanding(notif[i].addr)
    <3> TAKE i \in Slots
    <3> PICK a : a = notif[i].addr
      OBVIOUS
    <3>1. Outstanding(notif[i].addr)' = Outstanding(a)'
      BY <1>9 DEF Outstanding
    <3> QED BY <2>2, <3>1
  <2>4. ASSUME NEW k \in DOMAIN requests'
        PROVE  notif[requests'[k].slot].state = "count"
               /\ notif[requests'[k].slot].addr = requests'[k].addr
    <3>1. CASE k = k2
      BY <1>0, <1>1, <1>6, <3>1 DEF CountInv
    <3>2. CASE k # k2
      <4>1. k \in DOMAIN requests /\ requests'[k] = requests[k]
        BY <1>6, <3>2
      <4> QED BY <1>0, <4>1 DEF CountInv
    <3> QED BY <3>1, <3>2
  <2>5. reading' => /\ notif[giveTurn'].state = "count"
                    /\ notif[giveTurn'].addr = readAddr'
    BY <1>0, <1>1, <1>9 DEF CountInv
  <2>6. notif' = notif
    BY <1>9
  <2> QED BY <1>0, <2>3, <2>4, <2>5, <2>6 DEF CountInv
<1>14. NoteInv(Q, s, r)'
  BY <1>0, <1>9, KeepNote DEF gcVars
<1> QED BY <1>10, <1>11, <1>12, <1>13, <1>14 DEF CalmInv

(* The completion flag of the last page that was returned is set. *)
LEMMA CompletionCalm ==
  ASSUME NEW Q, NEW s, NEW r, NEW e, IInv, CalmInv(Q, s, r, e), NicCompletion
  PROVE  CalmInv(Q, s, r, e)'
<1> PICK n, l : n = Len(Q) /\ l = Len(pending)
  OBVIOUS
<1>0. /\ QueueInv(Q, s) /\ PageInv(Q, s, r, e)
      /\ RequestInv(Q, s, r, e) /\ NoteInv(Q, s, r)
  BY DEF CalmInv
<1>1. /\ rdCompleted /\ hpIndex \in Slots
      /\ completion' = [completion EXCEPT ![hpIndex] = TRUE]
      /\ UNCHANGED <<ringVars, gcVars, xpc, pollVars, gcAddr, pageVars, readVars,
                  noteVars>>
  BY DEF NicCompletion, IInv, TypeOK
<1>2. \A i \in Slots : completion'[i] <=> completion[i] \/ i = hpIndex
  BY <1>1 DEF IInv, TypeOK
<1>3. QueueInv(Q, s)'
  BY <1>0, <1>1, KeepQueue DEF pageVars
<1>4. /\ n \in Nat /\ l \in Nat /\ r \in 0 .. e /\ e \in l .. n
      /\ \A p \in 1 .. n + 1 : s[p] \in Slots
      /\ \A p \in l + 1 .. e : completion[s[p]] \/ p = e
      /\ giveTurn = s[e + 1]
  BY <1>0, QueueTypes DEF IInv, PageInv
<1>5. PageInv(Q, s, r, e)'
  <2>1. ASSUME NEW p \in l + 1 .. e PROVE completion'[s[p]]
    <3>0. p \in l + 1 .. n /\ s[p] \in Slots
      BY <1>4
    <3>1. CASE completion[s[p]]
      BY <1>2, <3>0, <3>1
    <3>2. CASE p = e
      <4>1. s[e + 1] = Inc(s[e])
        BY <1>0, <3>0, <3>2, SlotsApart DEF IInv
      <4>2. Inc(s[e]) = Inc(hpIndex)
        BY <1>1, <1>4, <4>1 DEF IInv, TurnInv
      <4>3. s[e] = hpIndex
        <5> PICK w, h : w = s[e] /\ h = hpIndex
          OBVIOUS
        <5>1. w \in 0 .. N - 1 /\ h \in 0 .. N - 1 /\ N \in Nat /\ Inc(w) = Inc(h)
          BY <1>1, <3>0, <3>2, <4>2, RingAssumption DEF Slots
        <5>2. w = h
          BY <5>1 DEF Inc
        <5> QED BY <5>2
      <4> QED BY <1>2, <3>0, <3>2, <4>3
    <3> QED BY <1>4, <3>1, <3>2
  <2>2. UNCHANGED <<pending, giveTurn, pageStatus>>
    BY <1>1 DEF gcVars, pageVars, readVars
  <2> QED BY <1>0, <2>1, <2>2 DEF PageInv
<1>6. RequestInv(Q, s, r, e)' /\ CountInv'
  BY <1>0, <1>1, KeepRequest, KeepCount DEF CalmInv, readVars, noteVars
<1>7. NoteInv(Q, s, r)'
  <2>1. UNCHANGED <<mixer, gpc, gcAddr, lastGc, pending>>
    BY <1>1 DEF gcVars, noteVars, pollVars
  <2>2. ASSUME gcAddr # NULL, ~Used
        PROVE  \E m \in 1 .. r : /\ gcAddr = Q[m]
                                 /\ mixer # NULL => m < r
                                 /\ m > l => completion'[s[m]]
    <3>1. PICK m \in 1 .. r : /\ gcAddr = Q[m]
                              /\ mixer # NULL => m < r
                              /\ m > l => completion[s[m]]
      BY <1>0, <2>2 DEF NoteInv
    <3>2. s[m] \in Slots
      BY <1>4
    <3> QED BY <1>2, <3>1, <3>2
  <2> QED BY <1>0, <2>1, <2>2 DEF NoteInv, Used
<1> QED BY <1>3, <1>5, <1>6, <1>7 DEF CalmInv

(* What is notified has its completion flag. *)
LEMMA NotifyCalm ==
  ASSUME NEW Q, NEW s, NEW r, NEW e, IInv, CalmInv(Q, s, r, e), NicNotify
  PROVE  CalmInv(Q, s, r, e)'
<1> PICK n, l : n = Len(Q) /\ l = Len(pending)
  OBVIOUS
<1>0. /\ QueueInv(Q, s) /\ PageInv(Q, s, r, e)
      /\ RequestInv(Q, s, r, e) /\ NoteInv(Q, s, r)
      /\ CountInv
  BY DEF CalmInv
<1>1. /\ mixer # NULL /\ ~rdCompleted /\ gcAddr' = mixer
      /\ UNCHANGED <<ringVars, gcVars, xpc, pollVars, completion, pageVars,
                  readVars, doneVars>>
  BY DEF NicNotify
<1>2. mixer' = NULL /\ notif' = notif
  <2>1. Senders(notif) = {}
    BY <1>0 DEF Senders, CountInv
  <2> QED BY <2>1 DEF NicNotify, MixerTakes
<1>3. QueueInv(Q, s)' /\ PageInv(Q, s, r, e)' /\ RequestInv(Q, s, r, e)' /\ CountInv'
  BY <1>0, <1>1, <1>2, KeepQueue, KeepPage, KeepRequest, KeepCount
     DEF gcVars, pageVars, readVars, doneVars
<1>4. NoteInv(Q, s, r)'
  <2>1. /\ n \in Nat /\ l \in Nat /\ r \in 0 .. e /\ e \in l .. n
        /\ \A p \in l + 1 .. e : completion[s[p]]
        /\ \A p \in 1 .. n : Q[p] # NULL
    BY <1>0, <1>1, QueueTypes DEF IInv, PageInv
  <2>2. r > 0 /\ mixer = Q[r]
    BY <1>0, <1>1 DEF NoteInv
  <2>3. r \in 1 .. r /\ (r > l => completion[s[r]]) /\ Q[r] # NULL
    BY <2>1, <2>2
  <2>4. gcAddr' = Q[r] /\ gcAddr' # NULL /\ mixer' = NULL /\ pending' = pending
        /\ completion' = completion
    BY <1>1, <1>2, <2>2, <2>3 DEF gcVars
  <2> QED BY <2>3, <2>4 DEF NoteInv
<1> QED BY <1>3, <1>4 DEF CalmInv

(* The interrupt starts a poll, at most. *)
LEMMA InterruptCalm ==
  ASSUME NEW Q, NEW s, NEW r, NEW e, IInv, CalmInv(Q, s, r, e), NicInterrupt
  PROVE  CalmInv(Q, s, r, e)'
<1>1. UNCHANGED <<ringVars, gcVars, lock, xpc, lastGc, complete, completion,
                  gcAddr, pageVars, readVars, doneVars, notif, mixer>>
  BY DEF NicInterrupt
<1>2. QueueInv(Q, s)' /\ PageInv(Q, s, r, e)' /\ RequestInv(Q, s, r, e)' /\ CountInv'
  BY <1>1, KeepQueue, KeepPage, KeepRequest, KeepCount
     DEF CalmInv, gcVars, pageVars, readVars, doneVars
<1>3. NoteInv(Q, s, r)'
  <2>1. NoteInv(Q, s, r) /\ UNCHANGED <<pending, completion, gcAddr, lastGc, mixer>>
    BY <1>1 DEF CalmInv, gcVars
  <2>2. gpc' = gpc \/ (gpc = "idle" /\ gpc' = "poll")
    BY DEF NicInterrupt
  <2> QED BY <2>1, <2>2 DEF NoteInv, Used
<1> QED BY <1>2, <1>3 DEF CalmInv

(* The oldest request is answered: its machine counts it, and the last one *)
(* of its buffer puts the address in the mixer. *)
LEMMA DataCalm ==
  ASSUME NEW Q, NEW s, NEW r, NEW e, IInv, CalmInv(Q, s, r, e), Calm,
         NEW k0 \in DOMAIN requests, NicData(k0)
  PROVE  CalmInv(Q, s, r, e)' \/ (r + 1 \in 1 .. Len(Q) /\ CalmInv(Q, s, r + 1, e)')
<1> PICK n, l, a, i, u : /\ n = Len(Q) /\ l = Len(pending)
                         /\ a = requests[1].addr /\ i = requests[1].slot
                         /\ u = Len(requests)
  OBVIOUS
<1>0. /\ QueueInv(Q, s) /\ PageInv(Q, s, r, e)
      /\ RequestInv(Q, s, r, e) /\ NoteInv(Q, s, r)
      /\ CountInv
  BY DEF CalmInv
<1>1. /\ requests \in Seq(Request) /\ u \in Nat /\ u > 0 /\ DOMAIN requests = 1 .. u
      /\ 1 \in DOMAIN requests /\ requests[1] \in Request
  <2>1. requests \in Seq(Request)
    BY DEF IInv, TypeOK
  <2>2. u \in Nat /\ DOMAIN requests = 1 .. u
    BY <2>1, LenProperties
  <2> QED BY <2>1, <2>2, ElementOfSeq
<1>2. a \in Addr /\ i \in Slots /\ a # NULL
  BY <1>1, ConstantsAssumption DEF Request
<1>3. /\ n \in Nat /\ l \in Nat /\ r \in Nat /\ e \in Nat
      /\ r \in 0 .. e /\ e \in l .. n
  BY <1>0, QueueTypes DEF IInv, PageInv
<1>4. \A p, j \in 1 .. n : Q[p] = Q[j] => p = j
  BY <1>0 DEF QueueInv
<1>5. /\ k0 = 1 /\ mixer = NULL
      /\ Commit([requests EXCEPT ![1].done = TRUE])
      /\ MixerTakes([notif EXCEPT ![i] = Counted(notif[i])])
      /\ UNCHANGED <<ringVars, gcVars, xpc, pollVars, completion, gcAddr,
                     pageVars, giveTurn, reading, readAddr, left, doneVars>>
  BY DEF NicData, Calm
<1>6. /\ requests' \in Seq(Request) /\ u = Len(requests') + 1
      /\ DOMAIN requests' = 1 .. u - 1
      /\ \A k \in 1 .. u - 1 : requests'[k] = requests[k + 1] /\ k + 1 \in 1 .. u
  <2> PICK rs : rs = [requests EXCEPT ![1].done = TRUE]
    OBVIOUS
  <2>1. [requests[1] EXCEPT !.done = TRUE] \in Request
    BY <1>1 DEF Request
  <2>2. rs = [requests EXCEPT ![1] = [requests[1] EXCEPT !.done = TRUE]]
    OBVIOUS
  <2>3. /\ rs \in Seq(Request) /\ Len(rs) = u
    BY <1>1, <2>1, <2>2, ExceptSeq
  <2>4. /\ rs[1] = [requests[1] EXCEPT !.done = TRUE]
        /\ \A k \in 2 .. u : rs[k] = requests[k]
    <3>1. \A k \in 1 .. u : rs[k] = IF k = 1 THEN [requests[1] EXCEPT !.done = TRUE]
                                             ELSE requests[k]
      BY <1>1, <2>1, <2>2, ExceptSeq
    <3>2. 1 \in 1 .. u /\ \A k \in 2 .. u : k \in 1 .. u /\ k # 1
      BY <1>1
    <3> QED BY <3>1, <3>2
  <2>5. rs[1].done /\ \A k \in 2 .. u : ~rs[k].done
    <3>1. rs[1].done
      BY <1>1, <2>4 DEF Request
    <3>2. \A k \in 2 .. u : ~requests[k].done
      BY <1>0, <1>1 DEF RequestInv
    <3> QED BY <2>4, <3>1, <3>2
  <2>6. PICK m \in 1 .. u + 1 : /\ \A k \in 1 .. m - 1 : rs[k].done
                                /\ m <= u => ~rs[m].done
                                /\ requests' = SubSeq(rs, m, u)
    BY <1>5, <2>3 DEF Commit
  <2>7. m = 2
    <3>1. m # 1
      BY <1>1, <2>5, <2>6
    <3>2. ~(m > 2)
      <4> SUFFICES ASSUME m > 2 PROVE FALSE
        OBVIOUS
      <4>1. 2 \in 1 .. m - 1 /\ 2 \in 2 .. u
        BY <1>1
      <4> QED BY <2>5, <2>6, <4>1
    <3> QED BY <1>1, <3>1, <3>2
  <2>8. \A k \in 2 .. u : rs[k] \in Request
    BY <1>1, <2>3, ElementOfSeq
  <2>9. /\ requests' \in Seq(Request)
        /\ Len(requests') = IF 2 <= u THEN u - 2 + 1 ELSE 0
        /\ \A k \in 1 .. u - 2 + 1 : requests'[k] = rs[2 + k - 1]
    BY <1>1, <2>6, <2>7, <2>8, SubSeqProperties
  <2>10. \A k \in 1 .. u - 1 :
           k \in 1 .. u - 2 + 1 /\ 2 + k - 1 = k + 1 /\ k + 1 \in 2 .. u
    BY <1>1
  <2>11. u = Len(requests') + 1
    BY <1>1, <2>9
  <2>12. DOMAIN requests' = 1 .. u - 1
    <3>1. DOMAIN requests' = 1 .. Len(requests') /\ Len(requests') \in Nat
      BY <2>9, LenProperties
    <3>2. Len(requests') = u - 1
      BY <1>1, <2>11, <3>1
    <3> QED BY <3>1, <3>2
  <2>13. ASSUME NEW k \in 1 .. u - 1
         PROVE  requests'[k] = requests[k + 1] /\ k + 1 \in 1 .. u
    <3>1. requests'[k] = rs[k + 1]
      BY <2>9, <2>10
    <3>2. k + 1 \in 2 .. u /\ k + 1 \in 1 .. u
      BY <1>1
    <3> QED BY <2>4, <3>1, <3>2
  <2> QED BY <2>9, <2>11, <2>12, <2>13
<1>7. \A b : Reading(requests, b) = Reading(requests', b) + (IF a = b THEN 1 ELSE 0)
             /\ Reading(requests', b) \in Nat
             /\ (Reading(requests', b) = 0
                  <=> \A k \in DOMAIN requests' : requests'[k].addr # b)
  <2> TAKE b
  <2>1. \A k \in 1 .. Len(requests') : requests'[k].addr = requests[k + 1].addr
    BY <1>1, <1>6
  <2>2. Reading(requests, b) = Reading(requests', b) + (IF a = b THEN 1 ELSE 0)
    BY <1>1, <1>6, <2>1, ReadingTail
  <2> QED BY <1>6, <2>2, ReadingType
<1>8. /\ left \in Nat /\ (reading => left > 0)
      /\ \A b : Outstanding(b) = Outstanding(b)' + (IF a = b THEN 1 ELSE 0)
      /\ \A b : Outstanding(b)' \in Nat
  <2>1. left \in Nat /\ (reading => left > 0)
    BY ConstantsAssumption DEF IInv, SizeInv, TypeOK
  <2>2. ASSUME NEW b
        PROVE  /\ Outstanding(b) = Outstanding(b)' + (IF a = b THEN 1 ELSE 0)
               /\ Outstanding(b)' \in Nat
    <3>1. Outstanding(b) = Reading(requests, b)
            + (IF reading /\ readAddr = b THEN left ELSE 0)
      BY DEF Outstanding
    <3>2. Outstanding(b)' = Reading(requests', b)
            + (IF reading /\ readAddr = b THEN left ELSE 0)
      BY <1>5 DEF Outstanding, Reading
    <3> QED BY <1>7, <2>1, <3>1, <3>2
  <2> QED BY <2>1, <2>2
<1>9. QueueInv(Q, s)'
  BY <1>0, <1>5, KeepQueue DEF pageVars
<1>10. PageInv(Q, s, r, e)'
  BY <1>0, <1>5, KeepPage DEF gcVars, pageVars, doneVars
(* The machine of the request. *)
<1> PICK m, nf : m = notif[i] /\ nf = [notif EXCEPT ![i] = Counted(notif[i])]
  OBVIOUS
<1>11. /\ m.state = "count" /\ m.addr = a /\ m \in Notification
       /\ m.need = m.got + Outstanding(a) /\ m.got \in Nat
  <2>1. m.state = "count" /\ m.addr = a
    BY <1>0, <1>1 DEF CountInv
  <2>2. m \in Notification
    BY <1>2 DEF IInv, TypeOK
  <2>3. m.need = m.got + Outstanding(m.addr)
    BY <1>0, <1>2, <2>1 DEF CountInv
  <2> QED BY <2>1, <2>2, <2>3 DEF Notification
<1>12. PICK w : w = Outstanding(a)' /\ w \in Nat /\ Outstanding(a) = w + 1
  BY <1>8
<1>13. /\ Counted(m).addr = a /\ Counted(m).need = Counted(m).got + w
       /\ Counted(m).state = IF w = 0 THEN "send" ELSE "count"
  <2> PICK h : h = m.got + 1
    OBVIOUS
  <2> PICK z, x : z = m.need /\ x = m.got
    OBVIOUS
  <2>0. w \in Nat /\ x \in Nat /\ z = x + (w + 1) /\ h = x + 1
    BY <1>11, <1>12
  <2>1. z = h + w /\ x <= z /\ h \in Nat /\ ~(x > z)
    <3>1. z \in Nat /\ h \in Nat
      BY <2>0
    <3>2. z = h + w
      BY <2>0, SMTT(60)
    <3>3. x <= z
      BY <2>0
    <3>4. ~(x > z)
      BY <2>0, <3>1, <3>3
    <3> QED BY <3>1, <3>2, <3>3, <3>4
  <2>2. Counted(m) = [m EXCEPT !.got = h,
                               !.state = IF h = m.need THEN "send" ELSE "count"]
    BY <1>11, <2>1 DEF Counted
  <2>3. h = m.need <=> w = 0
    BY <1>12, <2>1
  <2> QED BY <1>11, <2>1, <2>2, <2>3 DEF Notification
<1>14. /\ nf[i] = Counted(m) /\ \A j \in Slots \ {i} : nf[j] = notif[j]
       /\ nf \in [Slots -> Notification]
  <2>1. notif \in [Slots -> Notification]
    BY DEF IInv, TypeOK
  <2> QED BY <1>2, <1>11, <2>1, CountedType
<1>15. \A j \in Slots \ {i} :
         /\ notif[j].state = "idle" \/ (notif[j].state = "count" /\ notif[j].addr # a)
         /\ notif[j].state = "count" =>
               /\ notif[j].need = notif[j].got + Outstanding(notif[j].addr)
               /\ Outstanding(notif[j].addr) > 0
  BY <1>0, <1>2, <1>11 DEF CountInv
(* The other requests and the other machines stay as they are. *)
<1>16. ASSUME NEW k \in DOMAIN requests'
       PROVE  /\ ~requests'[k].done
              /\ requests'[k].slot \in Slots
              /\ \E p \in r + 1 .. e + 1 :
                   /\ p \in 1 .. n
                   /\ requests'[k].addr = Q[p] /\ requests'[k].slot = s[p]
                   /\ p = e + 1 => reading
              /\ notif[requests'[k].slot].state = "count"
              /\ notif[requests'[k].slot].addr = requests'[k].addr
  <2>1. k + 1 \in DOMAIN requests /\ requests'[k] = requests[k + 1]
    BY <1>1, <1>6
  <2>2. requests'[k].slot \in Slots
    <3>1. requests'[k] \in Request
      BY <1>1, <2>1, ElementOfSeq
    <3> QED BY <3>1 DEF Request
  <2>3. /\ ~requests[k + 1].done
        /\ \E p \in r + 1 .. e + 1 :
             /\ p \in 1 .. n
             /\ requests[k + 1].addr = Q[p] /\ requests[k + 1].slot = s[p]
             /\ p = e + 1 => reading
    BY <1>0, <2>1 DEF RequestInv, Reads
  <2>4. /\ notif[requests[k + 1].slot].state = "count"
        /\ notif[requests[k + 1].slot].addr = requests[k + 1].addr
    BY <1>0, <2>1 DEF CountInv
  <2> QED BY <2>1, <2>2, <2>3, <2>4
<1>17. \A k, j \in DOMAIN requests', p, q \in 1 .. Len(Q) :
         k < j /\ Reads(k, Q, p)' /\ Reads(j, Q, q)' => p <= q
  <2> SUFFICES ASSUME NEW k \in DOMAIN requests', NEW j \in DOMAIN requests',
                      NEW p \in 1 .. n, NEW q \in 1 .. n,
                      k < j, requests'[k].addr = Q[p], requests'[j].addr = Q[q]
               PROVE  p <= q
    BY DEF Reads
  <2>1. /\ k + 1 \in DOMAIN requests /\ requests[k + 1].addr = Q[p]
        /\ j + 1 \in DOMAIN requests /\ requests[j + 1].addr = Q[q]
        /\ k + 1 < j + 1
    BY <1>1, <1>6
  <2> QED BY <1>0, <2>1 DEF RequestInv, Reads
<1>18. ASSUME NEW p \in r + 1 .. e, Q[p] # a
       PROVE  \E k \in DOMAIN requests' : requests'[k].addr = Q[p]
  <2>1. PICK k \in DOMAIN requests : requests[k].addr = Q[p]
    BY <1>0 DEF RequestInv, Reads
  <2>2. k # 1
    BY <1>18, <2>1
  <2>3. k - 1 \in 1 .. u - 1 /\ (k - 1) + 1 = k
    BY <1>1, <2>2
  <2> QED BY <1>6, <2>1, <2>3
<1>19. \A j \in Slots \ {i} : notif[j].state = "count" =>
         Outstanding(notif[j].addr) = Reading(requests', notif[j].addr)
                + (IF reading /\ readAddr = notif[j].addr THEN left ELSE 0)
  <2> SUFFICES ASSUME NEW j \in Slots \ {i}, notif[j].state = "count"
               PROVE  Outstanding(notif[j].addr) = Reading(requests', notif[j].addr)
                + (IF reading /\ readAddr = notif[j].addr THEN left ELSE 0)
    OBVIOUS
  <2> PICK b : b = notif[j].addr
    OBVIOUS
  <2>1. b # a /\ Reading(requests, b) = Reading(requests', b)
    BY <1>7, <1>15
  <2> QED BY <2>1 DEF Outstanding
<1>20. w = Reading(requests', a) + (IF reading /\ readAddr = a THEN left ELSE 0)
  BY <1>5, <1>12 DEF Outstanding, Reading
<1>21. CASE w # 0
  <2>1. Senders(nf) = {}
    BY <1>13, <1>14, <1>15, <1>21 DEF Senders
  <2>2. mixer' = NULL /\ notif' = nf
    BY <1>5, <2>1 DEF MixerTakes
  <2>3. RequestInv(Q, s, r, e)'
    <3>1. \A k \in DOMAIN requests' :
            /\ ~requests'[k].done
            /\ \E p \in r + 1 .. e + 1 :
                 /\ p \in 1 .. Len(Q) /\ Reads(k, Q, p)' /\ requests'[k].slot = s[p]
                 /\ p = e + 1 => reading'
      BY <1>5, <1>16 DEF Reads
    <3>2. \A p \in r + 1 .. e : \E k \in DOMAIN requests' : Reads(k, Q, p)'
      <4> SUFFICES ASSUME NEW p \in r + 1 .. e
                   PROVE  \E k \in DOMAIN requests' : requests'[k].addr = Q[p]
        BY DEF Reads
      <4>1. CASE Q[p] # a
        BY <1>18, <4>1
      <4>2. CASE Q[p] = a
        <5>1. ~(reading /\ readAddr = a)
          <6> SUFFICES ASSUME reading, readAddr = a PROVE FALSE
            OBVIOUS
          <6>1. e < n /\ Q[e + 1] = a
            BY <1>0, TurnPosted DEF IInv, SlotProtocol
          <6>2. p \in 1 .. n /\ e + 1 \in 1 .. n /\ p # e + 1
            BY <1>3, <6>1
          <6> QED BY <1>4, <4>2, <6>1, <6>2
        <5>2. Reading(requests', a) # 0
          BY <1>7, <1>12, <1>20, <1>21, <5>1
        <5> QED BY <1>7, <4>2, <5>2
      <4> QED BY <4>1, <4>2
    <3> QED BY <1>17, <3>1, <3>2 DEF RequestInv
  <2>4. CountInv'
    <3>1. ASSUME NEW j \in Slots
          PROVE  \/ notif'[j].state = "idle"
                 \/ /\ notif'[j].state = "count"
                    /\ notif'[j].need = notif'[j].got + Outstanding(notif[j].addr)'
                    /\ Outstanding(notif[j].addr)' > 0
      <4> PICK b : b = notif'[j].addr
        OBVIOUS
      <4>1. Outstanding(notif[j].addr)' = Reading(requests', b)
                    + (IF reading /\ readAddr = b THEN left ELSE 0)
        BY <1>5 DEF Outstanding, Reading
      <4>2. CASE j = i
        <5>1. b = a /\ Outstanding(notif[j].addr)' = w
          BY <1>13, <1>14, <1>20, <2>2, <4>1, <4>2
        <5> QED BY <1>12, <1>13, <1>14, <1>21, <2>2, <4>2, <5>1
      <4>3. CASE j # i
        <5>1. notif'[j] = notif[j]
          BY <1>14, <2>2, <4>3
        <5> QED BY <1>15, <1>19, <4>1, <4>3, <5>1
      <4> QED BY <4>2, <4>3
    <3>2. ASSUME NEW j \in Slots
          PROVE  notif'[j].state = notif[j].state /\ notif'[j].addr = notif[j].addr
      <4>1. CASE j = i
        BY <1>11, <1>13, <1>14, <1>21, <2>2, <4>1
      <4>2. CASE j # i
        BY <1>14, <2>2, <4>2
      <4> QED BY <4>1, <4>2
    <3>3. \A j, h \in Slots :
            /\ notif'[j].state = "count" /\ notif'[h].state = "count"
            /\ notif'[j].addr = notif'[h].addr
            => j = h
      BY <1>0, <3>2 DEF CountInv
    <3>4. \A k \in DOMAIN requests' :
            /\ notif'[requests'[k].slot].state = "count"
            /\ notif'[requests'[k].slot].addr = requests'[k].addr
      BY <1>16, <3>2
    <3>5. reading => /\ notif'[giveTurn].state = "count"
                     /\ notif'[giveTurn].addr = readAddr
      BY <1>0, <3>2 DEF CountInv, IInv, TypeOK
    <3> QED BY <1>5, <3>1, <3>3, <3>4, <3>5 DEF CountInv
  <2>5. NoteInv(Q, s, r)'
    <3>1. UNCHANGED <<gpc, gcAddr, lastGc, pending, completion>>
      BY <1>5 DEF gcVars, pollVars
    <3> QED BY <1>0, <1>5, <2>2, <3>1 DEF NoteInv, Used
  <2> QED BY <1>9, <1>10, <2>3, <2>4, <2>5 DEF CalmInv
<1>22. CASE w = 0
  <2>1. Reading(requests', a) = 0 /\ ~(reading /\ readAddr = a)
    BY <1>7, <1>8, <1>20, <1>22
  <2>2. \A k \in DOMAIN requests' : requests'[k].addr # a
    BY <1>7, <2>1
  <2>3. Senders(nf) = {i}
    BY <1>2, <1>13, <1>14, <1>15, <1>22 DEF Senders
  <2>4. ~(reading /\ giveTurn = i)
    BY <1>0, <1>11, <2>1 DEF CountInv
  <2>5. mixer' = a /\ notif' = [nf EXCEPT ![i] = Idle]
    <3>1. mixer' = nf[i].addr /\ notif' = [nf EXCEPT ![i] = Reset(i)]
      BY <1>5, <2>3 DEF MixerTakes
    <3>2. Reset(i) = Idle
      BY <2>4 DEF Reset
    <3> QED BY <1>13, <1>14, <3>1, <3>2
  <2>6. PICK p \in r + 1 .. e + 1 : p \in 1 .. n /\ Q[p] = a /\ (p = e + 1 => reading)
    BY <1>0, <1>1 DEF RequestInv, Reads
  <2>7. p # e + 1
    <3> SUFFICES ASSUME p = e + 1 PROVE FALSE
      OBVIOUS
    <3>1. reading /\ readAddr = Q[e + 1]
      BY <1>0, <2>6, TurnPosted DEF IInv, SlotProtocol
    <3> QED BY <2>1, <2>6, <3>1
  <2>8. p = r + 1
    <3> SUFFICES ASSUME p # r + 1 PROVE FALSE
      OBVIOUS
    <3>1. r + 1 \in r + 1 .. e /\ r + 1 \in 1 .. n /\ r + 1 < p
      BY <1>3, <2>6, <2>7
    <3>2. PICK k \in DOMAIN requests : requests[k].addr = Q[r + 1]
      BY <1>0, <3>1 DEF RequestInv, Reads
    <3>3. Q[r + 1] # a
      BY <1>4, <2>6, <3>1
    <3>4. 1 < k
      BY <1>1, <3>2, <3>3
    <3>5. p <= r + 1
      BY <1>0, <1>1, <2>6, <3>1, <3>2, <3>4 DEF RequestInv, Reads
    <3> QED BY <1>3, <2>6, <3>1, <3>5
  <2>9. r + 1 \in 0 .. e /\ r + 1 \in 1 .. n /\ Q[r + 1] = a
    BY <1>3, <2>6, <2>7, <2>8
  <2>10. PageInv(Q, s, r + 1, e)'
    BY <1>10, <2>9 DEF PageInv
  <2>11. RequestInv(Q, s, r + 1, e)'
    <3>1. ASSUME NEW k \in DOMAIN requests'
          PROVE  /\ ~requests'[k].done
                 /\ \E j \in (r + 1) + 1 .. e + 1 :
                      /\ j \in 1 .. Len(Q) /\ Reads(k, Q, j)'
                      /\ requests'[k].slot = s[j]
                      /\ j = e + 1 => reading'
      <4>1. PICK j \in r + 1 .. e + 1 :
                   /\ j \in 1 .. n
                   /\ requests'[k].addr = Q[j] /\ requests'[k].slot = s[j]
                   /\ j = e + 1 => reading
        BY <1>16
      <4>2. j # r + 1
        BY <2>2, <2>9, <4>1
      <4>3. j \in (r + 1) + 1 .. e + 1
        BY <1>3, <4>2
      <4> QED BY <1>5, <1>16, <4>1, <4>3 DEF Reads
    <3>2. \A j \in (r + 1) + 1 .. e : \E k \in DOMAIN requests' : Reads(k, Q, j)'
      <4> SUFFICES ASSUME NEW j \in (r + 1) + 1 .. e
                   PROVE  \E k \in DOMAIN requests' : requests'[k].addr = Q[j]
        BY DEF Reads
      <4>1. j \in r + 1 .. e /\ j \in 1 .. n /\ j # r + 1
        BY <1>3
      <4>2. Q[j] # a
        BY <1>4, <2>9, <4>1
      <4> QED BY <1>18, <4>1, <4>2
    <3> QED BY <1>17, <3>1, <3>2 DEF RequestInv
  <2>12. CountInv'
    <3>0. /\ notif'[i].state = "idle"
          /\ \A j \in Slots \ {i} : notif'[j] = notif[j]
      BY <1>2, <1>14, <2>5 DEF Idle
    <3>1. ASSUME NEW j \in Slots
          PROVE  \/ notif'[j].state = "idle"
                 \/ /\ notif'[j].state = "count"
                    /\ notif'[j].need = notif'[j].got + Outstanding(notif[j].addr)'
                    /\ Outstanding(notif[j].addr)' > 0
      <4> PICK b : b = notif'[j].addr
        OBVIOUS
      <4>1. Outstanding(notif[j].addr)' = Reading(requests', b)
                    + (IF reading /\ readAddr = b THEN left ELSE 0)
        BY <1>5 DEF Outstanding, Reading
      <4>2. CASE j = i
        BY <3>0, <4>2
      <4>3. CASE j # i
        <5>1. notif'[j] = notif[j]
          BY <3>0, <4>3
        <5> QED BY <1>15, <1>19, <4>1, <4>3, <5>1
      <4> QED BY <4>2, <4>3
    <3>2. \A j \in Slots : notif'[j].state = "count" =>
            j # i /\ notif[j].state = "count" /\ notif'[j].addr = notif[j].addr
      BY <3>0
    <3>3. \A j, h \in Slots :
            /\ notif'[j].state = "count" /\ notif'[h].state = "count"
            /\ notif'[j].addr = notif'[h].addr
            => j = h
      BY <1>0, <3>2 DEF CountInv
    <3>4. \A k \in DOMAIN requests' :
            /\ notif'[requests'[k].slot].state = "count"
            /\ notif'[requests'[k].slot].addr = requests'[k].addr
      <4> TAKE k \in DOMAIN requests'
      <4>1. requests'[k].slot # i
        BY <1>11, <1>16, <2>2
      <4> QED BY <1>16, <3>0, <4>1
    <3>5. reading => /\ notif'[giveTurn].state = "count"
                     /\ notif'[giveTurn].addr = readAddr
      BY <1>0, <2>4, <3>0 DEF CountInv, IInv, TypeOK
    <3> QED BY <1>5, <3>1, <3>3, <3>4, <3>5 DEF CountInv
  <2>13. NoteInv(Q, s, r + 1)'
    <3>1. UNCHANGED <<gpc, gcAddr, lastGc, pending, completion>>
      BY <1>5 DEF gcVars, pollVars
    <3>2. gpc \in {"lock", "check", "cas"} => gcAddr # NULL
      BY <1>0 DEF NoteInv
    <3>3. ASSUME gcAddr # NULL, ~Used
          PROVE  \E j \in 1 .. r + 1 : /\ gcAddr = Q[j]
                                       /\ j < r + 1
                                       /\ j > l => completion[s[j]]
      <4>1. PICK j \in 1 .. r : gcAddr = Q[j] /\ (j > l => completion[s[j]])
        BY <1>0, <3>3 DEF NoteInv
      <4>2. j \in 1 .. r + 1 /\ j < r + 1
        BY <1>3
      <4> QED BY <4>1, <4>2
    <3>4. r + 1 > 0 /\ mixer' = Q[r + 1]
      BY <1>3, <2>5, <2>9
    <3> QED BY <3>1, <3>2, <3>3, <3>4 DEF NoteInv, Used
  <2> QED BY <1>9, <2>9, <2>10, <2>11, <2>12, <2>13 DEF CalmInv
<1> QED BY <1>21, <1>22

(* The address register alone posts nothing. *)
LEMMA WriteAddrCalm ==
  ASSUME NEW Q, NEW s, NEW r, NEW e, IInv, CalmInv(Q, s, r, e),
         NEW a \in Addr, XmitWriteAddr(a)
  PROVE  CalmInv(Q, s, r, e)'
<1>1. QueueInv(Q, s)'
  BY WriteAddrQueue DEF CalmInv
<1>2. UNCHANGED <<ringVars, gcVars, lock, pollVars, completion, gcAddr,
                  pageReqs, pageStatus, readVars, doneVars, noteVars>>
  BY DEF XmitWriteAddr
<1>3. PageInv(Q, s, r, e)' /\ RequestInv(Q, s, r, e)' /\ CountInv'
  BY <1>2, KeepPage, KeepRequest, KeepCount
     DEF CalmInv, gcVars, readVars, doneVars, noteVars
<1>4. NoteInv(Q, s, r)'
  BY <1>2, KeepNote DEF CalmInv, gcVars, pollVars, noteVars
<1> QED BY <1>1, <1>3, <1>4 DEF CalmInv

(* Steps that touch tx_lock only. *)
LEMMA StillCalm ==
  ASSUME NEW Q, NEW s, NEW r, NEW e, CalmInv(Q, s, r, e),
         XmitLock \/ XmitBusy \/ UNCHANGED vars
  PROVE  CalmInv(Q, s, r, e)'
<1>1. /\ UNCHANGED <<ringVars, gcVars, pollVars, completion, gcAddr, pageVars,
                     readVars, doneVars, noteVars>>
      /\ xpc' = "stat" => xpc = "stat"
  BY DEF XmitLock, XmitBusy, vars
<1>2. QueueInv(Q, s)'
  BY <1>1, KeepQueue DEF CalmInv, pageVars
<1>3. PageInv(Q, s, r, e)' /\ RequestInv(Q, s, r, e)' /\ CountInv'
  BY <1>1, KeepPage, KeepRequest, KeepCount
     DEF CalmInv, gcVars, pageVars, readVars, doneVars, noteVars
<1>4. NoteInv(Q, s, r)'
  BY <1>1, KeepNote DEF CalmInv, gcVars, pollVars, noteVars
<1> QED BY <1>2, <1>3, <1>4 DEF CalmInv

-----------------------------------------------------------------------------
(* What a step does to Q and to the number of its buffers that were read:  *)
(* one is accepted, one was read to the end, or some that were are freed.  *)
Served(Q, r, R, f) ==
  \/ R = Q /\ f = r
  \/ \E a \in Addr : /\ \A p \in 1 .. Len(Q) : Q[p] # a
                     /\ R = Append(Q, a) /\ f = r
  \/ R = Q /\ f = r + 1 /\ f <= Len(Q)
  \/ \E m \in 1 .. r : R = SubSeq(Q, m + 1, Len(Q)) /\ f = r - m

(* The invariant is inductive, and every step serves. *)
LEMMA CalmStep ==
  ASSUME NEW Q, NEW s, NEW r, NEW e, IInv, Calm, CalmInv(Q, s, r, e), [Next]_vars
  PROVE  \E R, t, f, g : Served(Q, r, R, f) /\ CalmInv(R, t, f, g)'
<1>1. CASE CalmInv(Q, s, r, e)'
  BY <1>1 DEF Served
<1>2. CASE Xmit
  <2>1. CASE XmitLock \/ XmitBusy
    BY <1>1, <2>1, StillCalm
  <2>2. ASSUME NEW a \in Addr, XmitWriteAddr(a) PROVE CalmInv(Q, s, r, e)'
    BY <2>2, WriteAddrCalm
  <2>3. ASSUME NEW c \in 1 .. MaxReq, XmitWriteStat(c)
        PROVE  \E R, t, f, g : Served(Q, r, R, f) /\ CalmInv(R, t, f, g)'
    <3>1. PICK a, t : /\ a \in Addr /\ \A p \in 1 .. Len(Q) : Q[p] # a
                      /\ CalmInv(Append(Q, a), t, r, e)'
      BY <2>3, WriteStatCalm
    <3>2. Served(Q, r, Append(Q, a), r)
      BY <3>1 DEF Served
    <3> QED BY <3>1, <3>2
  <2> QED BY <1>1, <1>2, <2>1, <2>2, <2>3 DEF Xmit
<1>3. CASE CheckCompletion
  BY <1>1, <1>3, CheckCalm
<1>4. CASE Poll
  <2>1. CASE GcEnter \/ GcLock \/ GcCas \/ GcDone
    BY <1>1, <2>1, PollCalm
  <2>2. CASE GcClean
    <3>1. PICK m, t : /\ m \in 1 .. r
                      /\ CalmInv(SubSeq(Q, m + 1, Len(Q)), t, r - m, e - m)'
      BY <2>2, CleanCalm
    <3>2. Served(Q, r, SubSeq(Q, m + 1, Len(Q)), r - m)
      BY <3>1 DEF Served
    <3> QED BY <3>1, <3>2
  <2> QED BY <1>4, <2>1, <2>2 DEF Poll
<1>5. CASE Nic
  <2>1. CASE NicGive
    BY <1>1, <2>1, GiveCalm
  <2>2. CASE NicRequest
    <3>1. PICK g : CalmInv(Q, s, r, g)'
      BY <2>2, RequestCalm
    <3> QED BY <3>1 DEF Served
  <2>3. CASE NicCompletion
    BY <1>1, <2>3, CompletionCalm
  <2>4. ASSUME NEW k \in DOMAIN requests, NicData(k)
        PROVE  \E R, t, f, g : Served(Q, r, R, f) /\ CalmInv(R, t, f, g)'
    <3>1. CASE r + 1 \in 1 .. Len(Q) /\ CalmInv(Q, s, r + 1, e)'
      <4>1. Len(Q) \in Nat
        BY QueueTypes DEF IInv, CalmInv
      <4>2. r + 1 <= Len(Q)
        BY <3>1, <4>1
      <4>3. Served(Q, r, Q, r + 1)
        BY <4>2 DEF Served
      <4> QED BY <3>1, <4>3
    <3> QED BY <1>1, <2>4, <3>1, DataCalm
  <2>5. CASE NicNotify
    BY <1>1, <2>5, NotifyCalm
  <2>6. CASE NicInterrupt
    BY <1>1, <2>6, InterruptCalm
  <2> QED BY <1>5, <2>1, <2>2, <2>3, <2>4, <2>5, <2>6 DEF Nic
<1>6. CASE UNCHANGED vars
  BY <1>1, <1>6, StillCalm
<1> QED BY <1>2, <1>3, <1>4, <1>5, <1>6 DEF Next

SomeCalm == \E Q, s, r, e : CalmInv(Q, s, r, e)

(* So it holds in every state. *)
LEMMA AlwaysCalm ==
  ASSUME Calm
  PROVE  Spec => [](IInv /\ SomeCalm)
<1>1. Init => SomeCalm
  BY InitCalm DEF SomeCalm
<1>2. IInv /\ SomeCalm /\ [Next]_vars => SomeCalm'
  BY CalmStep DEF SomeCalm
<1> QED BY <1>1, <1>2, Inductive, PTL DEF Spec

(* No skb is freed (and unmapped) while the NIC still reads it, on a calm  *)
(* host: the address the purge of clean_tx_pending_gc looks for is in the  *)
(* list, and all up to it was read to the end.                             *)
THEOREM FreedAfterReading ==
  ASSUME Calm
  PROVE  Spec => []GcSafe
<1>1. ASSUME IInv, SomeCalm PROVE GcSafe
  <2> PICK Q, s, r, e : CalmInv(Q, s, r, e)
    BY <1>1 DEF SomeCalm
  <2> SUFFICES ASSUME NEW a \in Addr, ReadInFlight(a) PROVE a \in Live
    BY DEF GcSafe
  <2>1. CASE reading /\ readAddr = a
    <3>1. giveTurn \in Slots /\ a = desc[giveTurn] /\ a # NULL
      BY <1>1, <2>1, ConstantsAssumption DEF IInv, SlotProtocol, TypeOK
    <3> QED BY <3>1 DEF Live
  <2>2. ASSUME NEW k \in DOMAIN requests, requests[k].addr = a PROVE a \in Live
    <3>1. PICK p \in 1 .. Len(Q) : a = Q[p]
      BY <2>2 DEF CalmInv, RequestInv, Reads
    <3> QED BY <1>1, <3>1, QueueLive DEF CalmInv, IInv
  <2> QED BY <2>1, <2>2 DEF ReadInFlight
<1> QED BY <1>1, AlwaysCalm, PTL

-----------------------------------------------------------------------------
(* Two facts about sequences: a function on 1 .. c is one, *)
LEMMA FunctionIsSeq ==
  ASSUME NEW S, NEW c \in Nat, NEW f \in [1 .. c -> S]
  PROVE  f \in Seq(S) /\ Len(f) = c
<1>1. f = [k \in 1 .. c |-> f[k]] /\ \A k \in 1 .. c : f[k] \in S
  OBVIOUS
<1>2. [k \in 1 .. c |-> f[k]] \in Seq(S)
  BY <1>1, IsASeq
<1>2a. f \in Seq(S)
  BY <1>1, <1>2
<1>3. Len(f) \in Nat /\ 1 .. Len(f) = 1 .. c
  BY <1>2a, LenProperties
<1> QED BY <1>2a, <1>3

(* and what two of them joined hold. *)
LEMMA JoinedSeqs ==
  ASSUME NEW S, NEW x \in Seq(S), NEW y \in Seq(S), NEW l, NEW c,
         l = Len(x), c = Len(y)
  PROVE  /\ x \o y \in Seq(S) /\ Len(x \o y) = l + c
         /\ \A p \in 1 .. l + c : (x \o y)[p] = IF p <= l THEN x[p] ELSE y[p - l]
BY ConcatProperties

(* A step of the service from queue Q and fetched F to R and G. *)
Moves(Q, R, F, G) ==
  \/ R = Q /\ G = F
  \/ \E a \in Addr : /\ \A k \in DOMAIN Q : Q[k] # a
                     /\ R = Append(Q, a) /\ G = F
  \/ \E a \in Addr : /\ \E k \in DOMAIN Q : Q[k] = a
                     /\ G = F \cup {a} /\ R = Q
  \/ \E m \in 1 .. Len(Q) : /\ \A k \in 1 .. m : Q[k] \in F
                            /\ R = SubSeq(Q, m + 1, Len(Q))
                            /\ G = F \ {Q[k] : k \in 1 .. m}

(* What Served allows is such a step, F the first r buffers of Q and G     *)
(* the first f of R. *)
LEMMA ServedIsService ==
  ASSUME NEW Q \in Seq(Addr), NEW R, NEW r \in 0 .. Len(Q), NEW f,
         \A p, q \in 1 .. Len(Q) : Q[p] = Q[q] => p = q,
         Served(Q, r, R, f),
         NEW F, F = {Q[p] : p \in 1 .. r}, NEW G, G = {R[p] : p \in 1 .. f}
  PROVE  Moves(Q, R, F, G)
<1> PICK n : n = Len(Q)
  OBVIOUS
<1>1. n \in Nat /\ DOMAIN Q = 1 .. n /\ r \in 0 .. n /\ \A p \in 1 .. n : Q[p] \in Addr
  BY LenProperties, ElementOfSeq
<1>2. CASE R = Q /\ f = r
  BY <1>2 DEF Moves
<1>3. ASSUME NEW a \in Addr, \A p \in 1 .. n : Q[p] # a, R = Append(Q, a), f = r
      PROVE  (\A k \in DOMAIN Q : Q[k] # a) /\ R = Append(Q, a) /\ G = F
  <2>1. \A p \in 1 .. n : R[p] = Q[p]
    BY <1>3, AppendProperties
  <2>2. \A p \in 1 .. r : p \in 1 .. n
    BY <1>1
  <2>3. \A p \in 1 .. r : R[p] = Q[p]
    BY <2>1, <2>2
  <2> QED BY <1>1, <1>3, <2>3
<1>4. CASE R = Q /\ f = r + 1 /\ f <= n
  <2>1. f \in 1 .. n /\ \A p \in 1 .. f : p \in 1 .. r \/ p = f
    BY <1>1, <1>4
  <2>2. \A p \in 1 .. r : p \in 1 .. f
    BY <1>1, <1>4
  <2>3. G = F \cup {Q[f]}
    BY <1>4, <2>1, <2>2
  <2>4. Q[f] \in Addr /\ f \in DOMAIN Q
    BY <1>1, <2>1
  <2> QED BY <1>4, <2>3, <2>4 DEF Moves
<1>5. ASSUME NEW m \in 1 .. r, R = SubSeq(Q, m + 1, n), f = r - m
      PROVE  /\ m \in 1 .. n /\ \A k \in 1 .. m : Q[k] \in F
             /\ R = SubSeq(Q, m + 1, n)
             /\ G = F \ {Q[k] : k \in 1 .. m}
  <2>1. m \in 1 .. n /\ m + 1 \in Int /\ n \in Int /\ \A k \in 1 .. m : k \in 1 .. r
    BY <1>1
  <2>2. \A k \in 1 .. m : Q[k] \in F
    BY <2>1
  <2>3. \A k \in m + 1 .. n : Q[k] \in Addr
    BY <1>1, <2>1
  <2>4. \A k \in 1 .. n - (m + 1) + 1 : R[k] = Q[(m + 1) + k - 1]
    BY <1>5, <2>1, <2>3, SubSeqProperties
  <2>5. \A k \in 1 .. f : R[k] = Q[m + k] /\ m + k \in m + 1 .. r
    <3> SUFFICES ASSUME NEW k \in 1 .. f
                 PROVE  R[k] = Q[m + k] /\ m + k \in m + 1 .. r
      OBVIOUS
    <3>1. k \in 1 .. n - (m + 1) + 1 /\ (m + 1) + k - 1 = m + k /\ m + k \in m + 1 .. r
      BY <1>1, <1>5, <2>1
    <3> QED BY <2>4, <3>1
  <2>6. \A p \in m + 1 .. r : p - m \in 1 .. f /\ m + (p - m) = p
    BY <1>1, <1>5, <2>1
  <2>7. G = {Q[p] : p \in m + 1 .. r}
    <3>1. G \subseteq {Q[p] : p \in m + 1 .. r}
      BY <2>5
    <3>2. ASSUME NEW p \in m + 1 .. r PROVE Q[p] \in G
      <4>1. R[p - m] = Q[p] /\ p - m \in 1 .. f
        BY <2>5, <2>6
      <4> QED BY <4>1
    <3>3. {Q[p] : p \in m + 1 .. r} \subseteq G
      BY <3>2
    <3> QED BY <3>1, <3>3
  <2>8. \A p \in m + 1 .. r :
          /\ p \in 1 .. r /\ p \in 1 .. n
          /\ \A k \in 1 .. m : k \in 1 .. n /\ k # p
    BY <1>1, <2>1
  <2>9. \A p \in 1 .. r : p \in 1 .. m \/ p \in m + 1 .. r
    BY <1>1, <2>1
  <2>10. \A p \in m + 1 .. r, k \in 1 .. m : Q[p] # Q[k]
    BY <2>8
  <2>11. G = F \ {Q[k] : k \in 1 .. m}
    <3>1. {Q[p] : p \in m + 1 .. r} \subseteq F \ {Q[k] : k \in 1 .. m}
      BY <2>8, <2>10
    <3>2. F \ {Q[k] : k \in 1 .. m} \subseteq {Q[p] : p \in m + 1 .. r}
      BY <2>9
    <3> QED BY <2>7, <3>1, <3>2
  <2> QED BY <1>5, <2>1, <2>2, <2>11
<1> QED BY <1>2, <1>3, <1>4, <1>5 DEF Served, Moves

-----------------------------------------------------------------------------
(* The abstract view of TxService, as TxPath defines it. *)
Fetched == {a \in Elements(Queue) : ~Unread(a)}

(* The remainder of an index that wraps once. *)
LEMMA ModOnce ==
  ASSUME NEW d \in Nat \ {0}, NEW x \in 0 .. 2 * d - 1
  PROVE  x % d = IF x < d THEN x ELSE x - d
OBVIOUS

(* The ring holds what Q has behind the pending list. *)
LEMMA RingLengthIs ==
  ASSUME NEW Q, NEW s, TypeOK, QueueInv(Q, s)
  PROVE  RingLength = Len(Q) - Len(pending)
<1> PICK n, l, S, f : /\ n = Len(Q) /\ l = Len(pending)
                      /\ S = {i \in Slots : desc[i] # NULL}
                      /\ f = [p \in l + 1 .. n |-> s[p]]
  OBVIOUS
<1>1. /\ n \in Nat /\ l \in Nat /\ l <= n /\ l + 1 \in Int /\ n \in Int
      /\ \A p \in l + 1 .. n : p \in 1 .. n /\ p \in 1 .. n + 1
      /\ \A p \in 1 .. n : Q[p] # NULL
      /\ \A p \in 1 .. n + 1 : s[p] \in Slots
  BY QueueTypes
<1>2. \A p \in l + 1 .. n : f[p] = s[p] /\ f[p] \in S
  BY <1>1 DEF QueueInv
<1>3. f \in [l + 1 .. n -> S]
  BY <1>2
<1>4. \A p, q \in l + 1 .. n : f[p] = f[q] => p = q
  BY <1>2, SlotsApart
<1>5. \A i \in S : \E p \in l + 1 .. n : f[p] = i
  BY <1>2 DEF QueueInv
<1>6. f \in Bijection(l + 1 .. n, S)
  <2>1. f \in Injection(l + 1 .. n, S)
    BY <1>3, <1>4, Fun_IsInj
  <2>2. f \in Surjection(l + 1 .. n, S)
    BY <1>3, <1>5, Fun_IsSurj
  <2> QED BY <2>1, <2>2 DEF Bijection
<1>7. /\ IsFiniteSet(l + 1 .. n)
      /\ Cardinality(l + 1 .. n) = IF l + 1 > n THEN 0 ELSE n - (l + 1) + 1
  BY <1>1, FS_Interval
<1>8. Cardinality(S) = Cardinality(l + 1 .. n)
  <2>1. ExistsBijection(l + 1 .. n, S)
    BY <1>6, Fun_ExistsBij
  <2> QED BY <1>7, <2>1, FS_Bijection
<1>9. Cardinality(S) = n - l
  BY <1>1, <1>7, <1>8
<1> QED BY <1>9 DEF RingLength

(* The abstract queue is Q. *)
LEMMA QueueIs ==
  ASSUME NEW Q, NEW s, TypeOK, QueueInv(Q, s)
  PROVE  Queue = Q
<1> PICK n, l, c : n = Len(Q) /\ l = Len(pending) /\ c = n - l
  OBVIOUS
<1>0. PICK ring : ring = [k \in 1 .. c |-> desc[(cons + k - 1) % N]]
  OBVIOUS
<1>1. /\ n \in Nat /\ l \in Nat /\ N \in Nat \ {0} /\ l <= n /\ c <= N /\ c \in Nat
      /\ n = l + c /\ cons \in 0 .. N - 1
      /\ \A p \in 1 .. n : Q[p] \in Addr
  BY QueueTypes
<1>2. pending \in Seq(Addr) /\ Q \in Seq(Addr)
  BY DEF TypeOK, QueueInv
<1>3. ASSUME NEW k \in 1 .. c PROVE desc[(cons + k - 1) % N] = Q[l + k]
  <2>1. l + k \in l + 1 .. n /\ l + k \in l + 1 .. n + 1 /\ (l + k) - l - 1 = k - 1
    BY <1>1
  <2>2. s[l + k] = SlotAt(cons, k - 1) /\ Q[l + k] = desc[s[l + k]]
    BY <2>1 DEF QueueInv
  <2>3. (cons + k - 1) % N = SlotAt(cons, k - 1)
    <3> PICK x : x = cons + k - 1
      OBVIOUS
    <3>0. k \in 1 .. N /\ cons \in 0 .. N - 1 /\ N \in Nat \ {0}
      BY <1>1
    <3>1. x \in 0 .. 2 * N - 1 /\ x = cons + (k - 1)
      BY <3>0
    <3>2. x % N = IF x < N THEN x ELSE x - N
      BY <1>1, <3>1, ModOnce
    <3>3. SlotAt(cons, k - 1) = IF x < N THEN x ELSE x - N
      BY <1>1, <3>1 DEF SlotAt
    <3> QED BY <3>2, <3>3
  <2> QED BY <2>2, <2>3
<1>4. /\ ring \in Seq(Addr) /\ Len(ring) = c
      /\ \A k \in 1 .. c : ring[k] = Q[l + k]
  <2>1. \A k \in 1 .. c : ring[k] = Q[l + k]
    BY <1>0, <1>3
  <2>2. \A k \in 1 .. c : l + k \in 1 .. n
    BY <1>1
  <2>3. ring \in [1 .. c -> Addr]
    <3>1. \A k \in 1 .. c : ring[k] \in Addr
      BY <1>1, <2>1, <2>2
    <3> QED BY <1>0, <3>1
  <2>4. ring \in Seq(Addr) /\ Len(ring) = c
    BY <1>1, <2>3, FunctionIsSeq
  <2> QED BY <2>1, <2>4
<1>5. Queue = pending \o ring
  BY <1>0, RingLengthIs DEF Queue
<1>6. /\ pending \o ring \in Seq(Addr) /\ Len(pending \o ring) = n
      /\ \A p \in 1 .. n :
           (pending \o ring)[p] = IF p <= l THEN pending[p] ELSE ring[p - l]
  <2>1. /\ pending \o ring \in Seq(Addr) /\ Len(pending \o ring) = l + c
        /\ \A p \in 1 .. l + c :
             (pending \o ring)[p] = IF p <= l THEN pending[p] ELSE ring[p - l]
    BY <1>2, <1>4, JoinedSeqs
  <2> QED BY <1>1, <2>1
<1>7. ASSUME NEW p \in 1 .. n PROVE (pending \o ring)[p] = Q[p]
  <2>1. CASE p <= l
    <3>1. p \in 1 .. l
      BY <1>1, <2>1
    <3> QED BY <1>6, <2>1, <3>1 DEF QueueInv
  <2>2. CASE ~(p <= l)
    <3>1. p - l \in 1 .. c /\ l + (p - l) = p
      BY <1>1, <2>2
    <3> QED BY <1>4, <1>6, <2>2, <3>1
  <2> QED BY <2>1, <2>2
<1>8. pending \o ring = Q
  BY <1>2, <1>6, <1>7, SeqEqual
<1> QED BY <1>5, <1>8

(* What the NIC has read to the end are the first r buffers of Q. *)
LEMMA UnreadIs ==
  ASSUME NEW Q, NEW s, NEW r, NEW e, IInv, CalmInv(Q, s, r, e), NEW p \in 1 .. Len(Q)
  PROVE  Unread(Q[p]) <=> p > r
<1> PICK n, l : n = Len(Q) /\ l = Len(pending)
  OBVIOUS
<1>0. QueueInv(Q, s) /\ PageInv(Q, s, r, e) /\ RequestInv(Q, s, r, e)
  BY DEF CalmInv
<1>1. /\ n \in Nat /\ l \in Nat /\ r \in 0 .. e /\ e \in l .. n /\ p \in 1 .. n
      /\ Q[p] # NULL /\ r \in Nat /\ e \in Nat
      /\ \A q \in 1 .. n + 1 : s[q] \in Slots
      /\ \A q \in l + 1 .. n : pageStatus[s[q]] <=> q > e
  BY <1>0, QueueTypes DEF IInv, PageInv
<1>2. /\ \A q, w \in 1 .. n : Q[q] = Q[w] => q = w
      /\ \A q \in l + 1 .. n : Q[q] = desc[s[q]]
      /\ \A i \in Slots : desc[i] # NULL => \E q \in l + 1 .. n : s[q] = i
  BY <1>0 DEF QueueInv
<1>3. ASSUME p > e PROVE Unread(Q[p])
  <2>1. p \in l + 1 .. n /\ p \in 1 .. n + 1
    BY <1>1, <1>3
  <2>2. pageStatus[s[p]] /\ desc[s[p]] = Q[p] /\ s[p] \in Slots
    BY <1>1, <1>2, <1>3, <2>1
  <2> QED BY <2>2 DEF Unread
<1>4. ASSUME p > r, ~(p > e) PROVE Unread(Q[p])
  <2>1. p \in r + 1 .. e
    BY <1>1, <1>4
  <2>2. PICK k \in DOMAIN requests : requests[k].addr = Q[p]
    BY <1>0, <2>1 DEF RequestInv, Reads
  <2>3. ~requests[k].done
    BY <1>0 DEF RequestInv
  <2> QED BY <2>2, <2>3 DEF Unread, ReadInFlight
<1>5. ASSUME Unread(Q[p]) PROVE p > r
  <2>1. CASE reading /\ readAddr = Q[p]
    <3>1. e < n /\ Q[e + 1] = Q[p]
      BY <1>0, <2>1, TurnPosted DEF IInv, SlotProtocol
    <3>2. e + 1 \in 1 .. n
      BY <1>1, <3>1
    <3>3. p = e + 1
      BY <1>1, <1>2, <3>1, <3>2
    <3> QED BY <1>1, <3>3
  <2>2. ASSUME NEW k \in DOMAIN requests, requests[k].addr = Q[p] PROVE p > r
    <3>1. PICK q \in r + 1 .. e + 1 : q \in 1 .. n /\ requests[k].addr = Q[q]
      BY <1>0 DEF RequestInv, Reads
    <3>2. Q[p] = Q[q]
      BY <2>2, <3>1
    <3>3. p = q
      BY <1>1, <1>2, <3>1, <3>2
    <3> QED BY <1>1, <3>1, <3>3
  <2>3. ASSUME NEW i \in Slots, pageStatus[i], desc[i] = Q[p] PROVE p > r
    <3>1. PICK q \in l + 1 .. n : s[q] = i
      BY <1>1, <1>2, <2>3
    <3>2. q > e /\ Q[q] = Q[p] /\ q \in 1 .. n
      BY <1>1, <1>2, <2>3, <3>1
    <3>3. p = q
      BY <1>1, <1>2, <3>2
    <3> QED BY <1>1, <3>2, <3>3
  <2> QED BY <1>5, <2>1, <2>2, <2>3 DEF Unread, ReadInFlight
<1> QED BY <1>3, <1>4, <1>5

Seen == \A Q, s, r, e :
          CalmInv(Q, s, r, e) =>
            /\ Queue = Q /\ Fetched = {Q[p] : p \in 1 .. r}
            /\ Q \in Seq(Addr) /\ r \in 0 .. Len(Q)
            /\ \A p, q \in 1 .. Len(Q) : Q[p] = Q[q] => p = q

(* So the abstract state is Q and the first r of its buffers. *)
LEMMA View == IInv => Seen
<1> SUFFICES ASSUME IInv, NEW Q, NEW s, NEW r, NEW e, CalmInv(Q, s, r, e)
             PROVE  /\ Queue = Q /\ Fetched = {Q[p] : p \in 1 .. r}
                    /\ Q \in Seq(Addr) /\ r \in 0 .. Len(Q)
                    /\ \A p, q \in 1 .. Len(Q) : Q[p] = Q[q] => p = q
  BY DEF Seen
<1>1. Queue = Q
  BY QueueIs DEF IInv, CalmInv
<1>2. /\ Q \in Seq(Addr) /\ \A p, q \in 1 .. Len(Q) : Q[p] = Q[q] => p = q
  BY DEF CalmInv, QueueInv
<1>3. Len(Q) \in Nat /\ DOMAIN Q = 1 .. Len(Q)
  BY <1>2, LenProperties
<1>4. r \in 0 .. Len(Q)
  BY <1>3, QueueTypes DEF CalmInv, PageInv, IInv
<1>5. \A p \in 1 .. Len(Q) : Unread(Q[p]) <=> p > r
  BY UnreadIs
<1>6. Elements(Q) = {Q[p] : p \in 1 .. Len(Q)}
  BY <1>3 DEF Elements
<1>7. \A p \in 1 .. Len(Q) : ~(p > r) <=> p \in 1 .. r
  BY <1>3, <1>4
<1>8. \A p \in 1 .. r : p \in 1 .. Len(Q)
  BY <1>3, <1>4
<1>9. {a \in Elements(Q) : ~Unread(a)} = {Q[p] : p \in 1 .. r}
  BY <1>5, <1>6, <1>7, <1>8
<1> QED BY <1>1, <1>2, <1>4, <1>9 DEF Fetched

(* The first state maps to the first state of the service. *)
LEMMA ServiceInit == Init => Service!Init
<1> SUFFICES ASSUME Init PROVE Queue = <<>> /\ Fetched = {}
  BY DEF Service!Init, Fetched
<1>1. Queue = <<>> /\ Fetched = {<<>>[p] : p \in 1 .. 0}
  BY InitIInv, InitCalm, View DEF Seen
<1>2. 1 .. 0 = {}
  OBVIOUS
<1> QED BY <1>1, <1>2

(* Every step maps to a step of the service, or to none. *)
LEMMA ServiceStep ==
  ASSUME IInv, IInv', Calm, SomeCalm, [Next]_vars
  PROVE  [Service!Next]_<<Queue, Fetched>>
<1>1. Seen /\ Seen'
  <2>1. IInv' => Seen'
    BY View, PTL
  <2> QED BY <2>1, View
<1>2. PICK Q, s, r, e : CalmInv(Q, s, r, e)
  BY DEF SomeCalm
<1>3. PICK R, t, f, g : Served(Q, r, R, f) /\ CalmInv(R, t, f, g)'
  BY <1>2, CalmStep
<1>4. /\ Queue = Q /\ Fetched = {Q[p] : p \in 1 .. r}
      /\ Q \in Seq(Addr) /\ r \in 0 .. Len(Q)
      /\ \A p, q \in 1 .. Len(Q) : Q[p] = Q[q] => p = q
  BY <1>1, <1>2 DEF Seen
<1>5. Queue' = R /\ Fetched' = {R[p] : p \in 1 .. f}
  BY <1>1, <1>3 DEF Seen
<1> PICK F, G : F = Fetched /\ G = Fetched'
  OBVIOUS
<1>6. Moves(Q, R, F, G)
  <2>1. F = {Q[p] : p \in 1 .. r} /\ G = {R[p] : p \in 1 .. f}
    BY <1>4, <1>5
  <2>2. Served(Q, r, R, f)
    BY <1>3
  <2> QED BY <1>4, <2>1, <2>2, ServedIsService
<1>7. CASE R = Q /\ G = F
  BY <1>4, <1>5, <1>7
<1>8. ASSUME NEW a \in Addr, \A k \in DOMAIN Q : Q[k] # a, R = Append(Q, a), G = F
      PROVE  Service!Next
  <2>1. Service!Accept(a)
    BY <1>4, <1>5, <1>8 DEF Service!Accept, Fetched
  <2> QED BY <2>1 DEF Service!Next
<1>9. ASSUME NEW a \in Addr, \E k \in DOMAIN Q : Q[k] = a, G = F \cup {a}, R = Q
      PROVE  Service!Next
  <2>1. Service!Fetch(a)
    BY <1>4, <1>5, <1>9 DEF Service!Fetch, Fetched
  <2> QED BY <2>1 DEF Service!Next
<1>10. ASSUME NEW m \in 1 .. Len(Q), \A k \in 1 .. m : Q[k] \in F,
              R = SubSeq(Q, m + 1, Len(Q)), G = F \ {Q[k] : k \in 1 .. m}
       PROVE  Service!Next
  <2>1. Service!Release(m)
    BY <1>4, <1>5, <1>10 DEF Service!Release, Fetched
  <2> QED BY <1>4, <2>1 DEF Service!Next
<1> QED BY <1>6, <1>7, <1>8, <1>9, <1>10 DEF Moves

(* Transmission implements its service on a calm host: skbs are freed in   *)
(* the order they were accepted, once each, and only when the NIC has read *)
(* them to the end.                                                        *)
THEOREM TransmissionServes ==
  ASSUME Calm
  PROVE  Spec => ImplementsService
<1>1. IInv /\ IInv' /\ SomeCalm /\ [Next]_vars => [Service!Next]_<<Queue, Fetched>>
  BY ServiceStep
<1>2. Spec => [](IInv /\ SomeCalm)
  BY AlwaysCalm
<1> QED BY <1>1, <1>2, ServiceInit, PTL
        DEF Spec, ImplementsService, Service!Spec, Fetched
=============================================================================
