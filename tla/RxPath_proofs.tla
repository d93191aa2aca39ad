--------------------------- MODULE RxPath_proofs ---------------------------
(***************************************************************************)
(* Reception, for every ring size and every set of pages: the driver never *)
(* follows a NULL kern_addr; and, when new pages are zeroed and never      *)
(* refused, NIC and host never use a page at the same time and the ring    *)
(* indices tell which descriptors hold a page; and then reception          *)
(* implements its service (RxService).                                     *)
(*                                                                         *)
(* Then the driver's life (Device), the receive ring in it: an interface   *)
(* that comes up has a whole ring, and no page is freed twice.             *)
(***************************************************************************)
EXTENDS Device, SequenceTheorems, FiniteSetTheorems, TLAPS

(* The conditions under which no page is lost or shared. *)
Reliable == Coherent /\ ~AllocFails

(* Outside a refill the two indices agree. *)
IndexInv ==
  IF Refilling THEN cons = Inc(prod) ELSE prod = cons

(* Which descriptors hold a page, and when there is one being delivered. *)
HeldInv ==
  /\ ppc = "refill" => desc[prod] = NULL
  /\ \A i \in Slots : desc[i] = NULL => ppc = "refill" /\ i = prod
  /\ cur # NULL <=> ppc \in {"refill", "ready", "deliver"}
  /\ cur # NULL => cur \in header /\ \A i \in Slots : desc[i] # cur
  /\ ppc = "ready" => /\ pageAddr[prod] = desc[prod]
                      /\ ~pageStatus[prod]
                      /\ desc[prod] \notin header

(* The write engine writes to a page it was given and did not return. *)
EngineInv == send = "open" => avail

IInv == TypeOK /\ IndexInv /\ (Reliable => HeldInv /\ EngineInv /\ PageSafe)

-----------------------------------------------------------------------------
(* inc_pointer stays on the ring. *)
LEMMA IncInSlots == ASSUME NEW p \in Slots PROVE Inc(p) \in Slots
BY RingAssumption DEF Inc, Slots

LEMMA ZeroInSlots == 0 \in Slots
BY RingAssumption DEF Slots

LEMMA InitIInv == Init => IInv
<1> SUFFICES ASSUME Init PROVE IInv
  OBVIOUS
<1> USE DEF Init
<1>1. TypeOK
  <2>1. desc \in [Slots -> Page] /\ owned \in SUBSET Page
    OBVIOUS
  <2>2. header \in SUBSET Page
    BY <2>1
  <2> QED
    BY <2>1, <2>2, ZeroInSlots DEF TypeOK
<1>2. IndexInv
  BY DEF IndexInv, Refilling
<1>3. ASSUME Reliable PROVE HeldInv /\ EngineInv /\ PageSafe
  <2> header = {} /\ desc \in [Slots -> Page]
    BY <1>3 DEF Reliable
  <2> NULL \notin Page
    BY ConstantsAssumption
  <2>1. HeldInv
    BY DEF HeldInv
  <2>2. EngineInv
    BY DEF EngineInv
  <2>3. PageSafe
    BY DEF PageSafe, DmaSafe
  <2> QED
    BY <2>1, <2>2, <2>3
<1> QED
  BY <1>1, <1>2, <1>3 DEF IInv

LEMMA TypeStep == TypeOK /\ [Next]_vars => TypeOK'
<1> SUFFICES ASSUME TypeOK, [Next]_vars PROVE TypeOK'
  OBVIOUS
<1> USE DEF TypeOK
<1>1. ASSUME NEW p \in Slots PROVE Inc(p) \in Slots
  BY IncInSlots
<1>2. CASE PollTx
  BY <1>2 DEF PollTx, ringVars, regVars, nicVars
<1>3. CASE PollNothing
  BY <1>3 DEF PollNothing, ringVars, regVars, nicVars
<1>4. CASE PollConsume
  <2> desc[cons] # NULL => desc[cons] \in Page
    OBVIOUS
  <2> Inc(cons) \in Slots
    BY <1>1
  <2> QED
    BY <1>4 DEF PollConsume, regVars, nicVars
<1>5. CASE PollRefill
  BY <1>5 DEF PollRefill, Allocated, NotMapped, NoMemory, nicVars
<1>6. CASE PollReady
  BY <1>6, <1>1 DEF PollReady, nicVars
<1>7. CASE PollDeliver
  BY <1>7 DEF PollDeliver, ringVars, regVars, nicVars
<1>8. CASE PollExit
  BY <1>8 DEF PollExit, ringVars, regVars, nicVars
<1>9. CASE NicTake
  BY <1>9 DEF NicTake, ringVars, hostVars, regVars
<1>10. CASE NicOpen
  BY <1>10 DEF NicOpen, ringVars, hostVars, regVars
<1>11. CASE NicClose
  BY <1>11, <1>1 DEF NicClose, ringVars, hostVars
<1>12. CASE NicInterrupt
  BY <1>12 DEF NicInterrupt, ringVars, hostVars, regVars
<1>13. CASE TxInterrupt
  BY <1>13 DEF TxInterrupt, ringVars, hostVars, regVars
<1>14. CASE Interrupt
  BY <1>14 DEF Interrupt, ringVars, regVars
<1>15. CASE UNCHANGED vars
  BY <1>15 DEF vars, ringVars, hostVars, regVars, nicVars
<1> QED
  BY <1>2, <1>3, <1>4, <1>5, <1>6, <1>7, <1>8, <1>9, <1>10, <1>11, <1>12,
     <1>13, <1>14, <1>15 DEF Next, Poll, Nic

(* Each poll moves both indices or none. *)
LEMMA IndexStep == TypeOK /\ IndexInv /\ [Next]_vars => IndexInv'
<1> SUFFICES ASSUME TypeOK, IndexInv, [Next]_vars PROVE IndexInv'
  OBVIOUS
<1> USE DEF IndexInv, Refilling, Inc
<1>1. CASE PollTx
  BY <1>1 DEF PollTx, ringVars
<1>2. CASE PollNothing
  BY <1>2 DEF PollNothing, ringVars
<1>3. CASE PollConsume
  BY <1>3 DEF PollConsume
<1>4. CASE PollRefill
  BY <1>4 DEF PollRefill
<1>5. CASE PollReady
  BY <1>5 DEF PollReady
<1>6. CASE PollDeliver
  BY <1>6 DEF PollDeliver, ringVars
<1>7. CASE PollExit
  BY <1>7 DEF PollExit, ringVars
<1>8. CASE Nic \/ TxInterrupt \/ Interrupt \/ UNCHANGED vars
  BY <1>8 DEF Nic, NicTake, NicOpen, NicClose, NicInterrupt, TxInterrupt,
              Interrupt, vars, ringVars, hostVars
<1> QED
  BY <1>1, <1>2, <1>3, <1>4, <1>5, <1>6, <1>7, <1>8 DEF Next, Poll

-----------------------------------------------------------------------------
(* The reliable driver: one step of each action. *)

(* A page handed over by the NIC or by the driver stays with one of them.  *)
LEMMA PageStep ==
  ASSUME TypeOK, IndexInv, HeldInv, EngineInv, PageSafe,
         [Next]_vars, PollRefill => ~Faulty
  PROVE  HeldInv' /\ EngineInv' /\ PageSafe'
<1> USE DEF HeldInv, EngineInv, PageSafe, DmaSafe
<1> NULL \notin Page
  BY ConstantsAssumption
<1>0. TypeOK /\ TypeOK' /\ IndexInv /\ HeldInv /\ EngineInv /\ PageSafe
  BY TypeStep
<1>1. CASE PollTx \/ PollNothing \/ PollExit
  <2>1. /\ UNCHANGED <<ringVars, dma, owned, cur, header, regVars, nicVars>>
        /\ ppc \notin {"refill", "ready", "deliver"}
        /\ ppc' \notin {"refill", "ready", "deliver"}
    BY <1>1 DEF PollTx, PollNothing, PollExit
  <2>2. HeldInv'
    BY <1>0, <2>1 DEF ringVars, regVars, nicVars
  <2>3. PageSafe' /\ EngineInv'
    BY <1>0, <2>1 DEF ringVars, regVars, nicVars
  <2> QED
    BY <2>2, <2>3
<1>2. CASE PollConsume
  <2> USE <1>0, <1>2 DEF PollConsume, regVars, nicVars, TypeOK
  <2>1. desc[cons] \in Page /\ cur = NULL /\ prod = cons
    BY DEF IndexInv, Refilling
  <2>2. ~pageStatus[cons]
    OBVIOUS
  <2>3. HeldInv'
    BY <2>1
  <2>4. PageSafe'
    BY <2>1, <2>2
  <2> QED
    BY <2>3, <2>4
<1>3. CASE PollRefill
  <2> USE <1>0, <1>3 DEF PollRefill, nicVars, TypeOK
  <2>1. ~Full
    OBVIOUS
  <2>2. PICK p \in Page : Allocated(p) /\ p \notin header'
    <3>1. /\ desc'[prod] # NULL /\ dma'[prod] = desc'[prod]
          /\ desc'[prod] \notin header'
      BY DEF Faulty
    <3>2. ASSUME NEW p \in Page, NotMapped(p) PROVE FALSE
      BY <3>1, <3>2 DEF NotMapped
    <3>3. ~NoMemory
      BY <3>1 DEF NoMemory
    <3>4. PICK p \in Page : Allocated(p)
      BY <3>2, <3>3
    <3>5. desc'[prod] = p
      BY <3>4 DEF Allocated
    <3> QED
      BY <3>1, <3>4, <3>5
  <2> USE <2>2 DEF Allocated
  <2>3. header' = header \ {p} /\ pageAddr' = [pageAddr EXCEPT ![prod] = p]
    OBVIOUS
  <2>4. desc[prod] = NULL /\ ~pageStatus[prod]
    OBVIOUS
  <2>5. HeldInv'
    BY <2>3, <2>4
  <2>6. PageSafe'
    BY <2>3, <2>4
  <2> QED
    BY <2>5, <2>6
<1>4. CASE PollReady
  <2> USE <1>0, <1>4 DEF PollReady, nicVars, TypeOK
  <2>1. desc[prod] \in Page /\ desc[prod] \in owned \ {cur}
    OBVIOUS
  <2>2. HeldInv'
    OBVIOUS
  <2>3. PageSafe'
    BY <2>1
  <2> QED
    BY <2>2, <2>3
<1>5. CASE PollDeliver
  <2> USE <1>0, <1>5 DEF PollDeliver, ringVars, regVars, nicVars, TypeOK
  <2>1. cur \in header
    OBVIOUS
  <2> QED
    BY <2>1
<1>6. CASE NicTake
  BY <1>0, <1>6 DEF NicTake, ringVars, hostVars, regVars, TypeOK
<1>7. CASE NicOpen
  BY <1>0, <1>7 DEF NicOpen, ringVars, hostVars, regVars, TypeOK
<1>8. CASE NicClose
  <2> USE <1>0, <1>8 DEF NicClose, ringVars, hostVars, TypeOK
  <2>1. avail /\ pageStatus[turn] /\ curAddr = desc[turn] /\ curAddr \in Page
    OBVIOUS
  <2>2. header' = header \cup {curAddr}
    BY <2>1
  <2>3. ppc = "ready" => prod # turn
    BY <2>1
  <2>4. HeldInv'
    BY <2>1, <2>2, <2>3
  <2>5. PageSafe'
    BY <2>1, <2>2
  <2> QED
    BY <2>4, <2>5
<1>9. CASE NicInterrupt \/ TxInterrupt \/ Interrupt
  BY <1>0, <1>9 DEF NicInterrupt, TxInterrupt, Interrupt, ringVars, hostVars,
                    regVars, nicVars, TypeOK
<1>10. CASE UNCHANGED vars
  BY <1>0, <1>10 DEF vars, ringVars, hostVars, regVars, nicVars
<1> QED
  BY <1>1, <1>2, <1>3, <1>4, <1>5, <1>6, <1>7, <1>8, <1>9, <1>10
     DEF Next, Poll, Nic

(* No page is refused, or not zeroed. *)
LEMMA ReliablePages ==
  ASSUME TypeOK, Reliable, PollRefill
  PROVE  ~Faulty
<1> USE DEF TypeOK
<1>1. PICK p \in Page : Allocated(p)
  BY DEF PollRefill, Reliable, NotMapped, NoMemory
<1>2. desc'[prod] = p /\ dma'[prod] = p /\ header' = header \ {p}
  BY <1>1 DEF Allocated, Reliable
<1> QED
  BY <1>2, ConstantsAssumption DEF Faulty

LEMMA Inductive == Spec => []IInv
<1>1. Init => IInv
  BY InitIInv
<1>2. IInv /\ [Next]_vars => IInv'
  BY TypeStep, IndexStep, PageStep, ReliablePages DEF IInv, Reliable
<1> QED
  BY <1>1, <1>2, PTL DEF Spec

(* The indices tell which descriptors hold a page. *)
LEMMA RingFromIndices == TypeOK /\ IndexInv /\ HeldInv => RxRingExact
<1> SUFFICES ASSUME TypeOK, IndexInv, HeldInv, ppc # "ready",
                    NEW i \in Slots
             PROVE  desc[i] # NULL <=> InWindow(i)
  BY DEF RxRingExact, RingExact
<1>1. CASE ppc = "refill"
  <2>1. desc[i] = NULL <=> i = prod
    BY <1>1 DEF HeldInv
  <2>2. InWindow(i) <=> i # prod
    BY <1>1, <2>1, RingAssumption DEF IndexInv, Refilling, InWindow, Full, Inc,
       Slots, TypeOK, HeldInv
  <2> QED
    BY <2>1, <2>2
<1>2. CASE ppc # "refill"
  BY <1>2 DEF IndexInv, HeldInv, Refilling, InWindow, Full, Slots, TypeOK
<1> QED
  BY <1>1, <1>2

-----------------------------------------------------------------------------
(* Type correctness. *)
THEOREM TypeCorrect == Spec => []TypeOK
<1>1. IInv => TypeOK
  BY DEF IInv
<1> QED
  BY <1>1, Inductive, PTL

(* The driver never reads a header through a NULL kern_addr, allocations   *)
(* failing or not.                                                         *)
THEOREM NullNeverFollowed == Spec => []NoNullHeader
<1>1. IInv => NoNullHeader
  BY DEF IInv, IndexInv, Refilling, NoNullHeader, Empty
<1> QED
  BY <1>1, Inductive, PTL

(* With zeroed pages that are never refused, NIC and host never share a    *)
(* page and none is lost.                                                  *)
THEOREM PagesCorrect == ASSUME Reliable PROVE Spec => []PageSafe
<1>1. IInv => PageSafe
  BY DEF IInv
<1> QED
  BY <1>1, Inductive, PTL

(* With zeroed pages that are never refused, the indices tell which        *)
(* descriptors hold a page.                                                *)
THEOREM RxRingCorrect == ASSUME Reliable PROVE Spec => []RxRingExact
<1>1. IInv => RxRingExact
  BY RingFromIndices DEF IInv
<1> QED
  BY <1>1, Inductive, PTL
-----------------------------------------------------------------------------
(***************************************************************************)
(* Reception implements its service, as long as nothing failed.  The first *)
(* f places of the ring, from cons on, are filled, the others are posted,  *)
(* and the NIC serves the first of these.                                  *)
(***************************************************************************)
WholeInv == TypeOK /\ IndexInv /\ HeldInv /\ EngineInv /\ PageSafe

SlotAt(c, k) == IF c + k < N THEN c + k ELSE c + k - N

OrderInv(f) ==
  /\ f \in 0 .. RingLength
  /\ turn = SlotAt(cons, f)
  /\ \A k \in 1 .. RingLength : pageStatus[SlotAt(cons, k - 1)] <=> k > f

(* The abstract state, with the places counted. *)
ArmedPages(f) == [k \in 1 .. RingLength - f |-> desc[SlotAt(cons, f + k - 1)]]

FilledPages(f) ==
  IF cur = NULL
  THEN [k \in 1 .. f |-> desc[SlotAt(cons, k - 1)]]
  ELSE [k \in 1 .. f + 1 |-> IF k = 1 THEN cur ELSE desc[SlotAt(cons, k - 2)]]

(* Going round the ring. *)
LEMMA SlotFacts ==
  ASSUME NEW c \in Slots
  PROVE  /\ N \in Nat \ {0} /\ c \in 0 .. N - 1 /\ Inc(c) \in Slots
         /\ SlotAt(c, 0) = c /\ SlotAt(c, N) = c /\ SlotAt(Inc(c), N - 1) = c
         /\ \A k \in 0 .. N : SlotAt(c, k) \in Slots
         /\ \A j, k \in 0 .. N - 1 : SlotAt(c, j) = SlotAt(c, k) => j = k
         /\ \A k \in 0 .. N - 1 : /\ SlotAt(Inc(c), k) = SlotAt(c, k + 1)
                                  /\ Inc(SlotAt(c, k)) = SlotAt(c, k + 1)
         /\ \A k \in 0 .. N - 2 : SlotAt(Inc(c), k) # c
<1>1. N \in Nat \ {0} /\ c \in 0 .. N - 1
  BY RingAssumption DEF Slots
<1> QED BY <1>1 DEF SlotAt, Inc, Slots

(* A function on 1 .. n is a sequence of n elements. *)
LEMMA FunctionIsSeq ==
  ASSUME NEW S, NEW n \in Nat, NEW f \in [1 .. n -> S]
  PROVE  f \in Seq(S) /\ Len(f) = n
<1>1. f = [k \in 1 .. n |-> f[k]] /\ \A k \in 1 .. n : f[k] \in S
  OBVIOUS
<1>2. [k \in 1 .. n |-> f[k]] \in Seq(S)
  BY <1>1, IsASeq
<1>3. f \in Seq(S)
  BY <1>1, <1>2
<1>4. Len(f) \in Nat /\ 1 .. Len(f) = 1 .. n
  BY <1>3, LenProperties
<1> QED BY <1>3, <1>4

(* An element put ahead of a sequence. *)
LEMMA AtFront ==
  ASSUME NEW S, NEW a \in S, NEW x \in Seq(S), NEW f, f = Len(x)
  PROVE  /\ <<a>> \o x \in Seq(S) /\ Len(<<a>> \o x) = f + 1
         /\ \A k \in 1 .. f + 1 : (<<a>> \o x)[k] = IF k = 1 THEN a ELSE x[k - 1]
<1>1. <<a>> \in Seq(S) /\ Len(<<a>>) = 1 /\ <<a>>[1] = a
  OBVIOUS
<1>2. f \in Nat
  BY LenProperties
<1>3. /\ <<a>> \o x \in Seq(S) /\ Len(<<a>> \o x) = Len(<<a>>) + Len(x)
      /\ \A k \in 1 .. Len(<<a>>) + Len(x) :
           (<<a>> \o x)[k] = IF k <= Len(<<a>>) THEN <<a>>[k] ELSE x[k - Len(<<a>>)]
  BY <1>1, ConcatProperties
<1>4. /\ <<a>> \o x \in Seq(S) /\ Len(<<a>> \o x) = 1 + f
      /\ \A k \in 1 .. 1 + f : (<<a>> \o x)[k] = IF k <= 1 THEN <<a>>[k] ELSE x[k - 1]
  BY <1>1, <1>3
<1>5. 1 + f = f + 1 /\ \A k \in 1 .. f + 1 : k <= 1 <=> k = 1
  BY <1>2
<1> QED BY <1>1, <1>4, <1>5

(* The k-th of the places from a + 1 to b. *)
LEMMA NthOfRange ==
  ASSUME NEW a \in Nat, NEW b \in Nat, a <= b
  PROVE  /\ Cardinality(a + 1 .. b) = b - a
         /\ \A k \in 1 .. b - a : Nth(a + 1 .. b, k) = a + k
<1>0. \A n \in a .. b : Cardinality(a + 1 .. n) = n - a
  <2> SUFFICES ASSUME NEW n \in a .. b PROVE Cardinality(a + 1 .. n) = n - a
    OBVIOUS
  <2>1. n \in Int /\ a + 1 \in Int
    OBVIOUS
  <2>2. Cardinality(a + 1 .. n) = IF a + 1 > n THEN 0 ELSE n - (a + 1) + 1
    BY <2>1, FS_Interval
  <2> QED BY <2>2
<1>1. Cardinality(a + 1 .. b) = b - a
  BY <1>0
<1>2. ASSUME NEW i \in a + 1 .. b
      PROVE  Cardinality({j \in a + 1 .. b : j <= i}) = i - a
  <2>1. {j \in a + 1 .. b : j <= i} = a + 1 .. i
    OBVIOUS
  <2>2. i \in a .. b
    OBVIOUS
  <2> QED BY <1>0, <2>1, <2>2
<1>3. ASSUME NEW k \in 1 .. b - a PROVE Nth(a + 1 .. b, k) = a + k
  <2>1. a + k \in a + 1 .. b /\ (a + k) - a = k
    OBVIOUS
  <2>2. Cardinality({j \in a + 1 .. b : j <= a + k}) = k
    BY <1>2, <2>1
  <2>3. \A i \in a + 1 .. b :
          Cardinality({j \in a + 1 .. b : j <= i}) = k => i = a + k
    BY <1>2
  <2> QED BY <2>1, <2>2, <2>3 DEF Nth
<1> QED BY <1>1, <1>3

(* The remainder of an index that wraps once. *)
LEMMA ModOnce ==
  ASSUME NEW d \in Nat \ {0}, NEW x \in 0 .. 2 * d - 1
  PROVE  x % d = IF x < d THEN x ELSE x - d
OBVIOUS

(* A place of the ring is a slot. *)
LEMMA RingSlotIs ==
  ASSUME cons \in Slots, NEW k \in 1 .. N
  PROVE  RingSlot(k) = SlotAt(cons, k - 1)
<1>1. N \in Nat \ {0} /\ cons \in 0 .. N - 1
  BY SlotFacts
<1> PICK x : x = cons + k - 1
  OBVIOUS
<1>2. x \in 0 .. 2 * N - 1 /\ x = cons + (k - 1)
  BY <1>1
<1>3. x % N = IF x < N THEN x ELSE x - N
  BY <1>1, <1>2, ModOnce
<1>4. SlotAt(cons, k - 1) = IF x < N THEN x ELSE x - N
  BY <1>1, <1>2 DEF SlotAt
<1> QED BY <1>3, <1>4 DEF RingSlot

(* The pages at consecutive places. *)
LEMMA PagesAtRange ==
  ASSUME cons \in Slots, NEW a \in Nat, NEW b \in 0 .. N, a <= b
  PROVE  PagesAt(a + 1 .. b) = [k \in 1 .. b - a |-> desc[SlotAt(cons, a + k - 1)]]
<1>1. N \in Nat \ {0} /\ b \in Nat
  BY SlotFacts
<1>2. /\ Cardinality(a + 1 .. b) = b - a
      /\ \A k \in 1 .. b - a : Nth(a + 1 .. b, k) = a + k
  BY <1>1, NthOfRange
<1>3. \A k \in 1 .. b - a : a + k \in 1 .. N
  BY <1>1
<1>4. \A k \in 1 .. b - a : RingSlot(a + k) = SlotAt(cons, a + k - 1)
  BY <1>3, RingSlotIs
<1> QED BY <1>2, <1>4 DEF PagesAt

(* The number of places. *)
LEMMA RingLengthIs == RingLength \in 0 .. N /\ RingLength \in Nat /\ N \in Nat \ {0}
BY RingAssumption DEF RingLength

(* So the abstract state is what the number of filled places makes it. *)
LEMMA View ==
  ASSUME TypeOK, NEW f, OrderInv(f)
  PROVE  /\ PagesAt(Places(TRUE)) = ArmedPages(f)
         /\ (IF cur = NULL THEN <<>> ELSE <<cur>>) \o PagesAt(Places(FALSE))
              = FilledPages(f)
<1> PICK n : n = RingLength
  OBVIOUS
<1>1. /\ n \in 0 .. N /\ n \in Nat /\ N \in Nat \ {0} /\ f \in 0 .. n /\ f \in Nat
      /\ cons \in Slots /\ f <= n /\ f \in 0 .. N /\ 0 \in Nat /\ 0 <= f
  BY RingLengthIs DEF OrderInv, TypeOK
<1>2. \A k \in 1 .. n : /\ k \in 1 .. N
                        /\ RingSlot(k) = SlotAt(cons, k - 1)
                        /\ RingSlot(k) \in Slots
  BY <1>1, RingSlotIs, SlotFacts
<1>3. \A k \in 1 .. n :
        pageStatus[RingSlot(k)] \in BOOLEAN /\ (pageStatus[RingSlot(k)] <=> k > f)
  BY <1>2 DEF OrderInv, TypeOK
<1>4. Places(TRUE) = f + 1 .. n
  <2>1. Places(TRUE) = {k \in 1 .. n : k > f}
    BY <1>3 DEF Places
  <2>2. {k \in 1 .. n : k > f} = f + 1 .. n
    <3>1. n \in Nat /\ f \in Nat
      BY <1>1
    <3> QED BY <3>1
  <2> QED BY <2>1, <2>2
<1>5. Places(FALSE) = 0 + 1 .. f
  <2>1. Places(FALSE) = {k \in 1 .. n : ~(k > f)}
    BY <1>3 DEF Places
  <2>2. {k \in 1 .. n : ~(k > f)} = 0 + 1 .. f
    <3>1. n \in Nat /\ f \in Nat /\ f <= n
      BY <1>1
    <3> QED BY <3>1
  <2> QED BY <2>1, <2>2
<1>6. PagesAt(Places(TRUE)) = [k \in 1 .. n - f |-> desc[SlotAt(cons, f + k - 1)]]
  BY <1>1, <1>4, PagesAtRange
<1>7. PagesAt(Places(FALSE)) = [k \in 1 .. f - 0 |-> desc[SlotAt(cons, 0 + k - 1)]]
  BY <1>1, <1>5, PagesAtRange
<1>8a. PICK F : F = [k \in 1 .. f |-> desc[SlotAt(cons, k - 1)]]
  OBVIOUS
<1>8. PagesAt(Places(FALSE)) = F
  <2>1. f - 0 = f /\ \A k \in 1 .. f : 0 + k - 1 = k - 1
    BY <1>1
  <2> QED BY <1>8a, <1>7, <2>1
<1>8b. PICK S : S = Page \cup {NULL}
  OBVIOUS
<1>9. F \in Seq(S) /\ Len(F) = f
  <2>1. \A k \in 1 .. f : k - 1 \in 0 .. N
    BY <1>1
  <2>2. \A k \in 1 .. f : SlotAt(cons, k - 1) \in Slots
    BY <1>1, <2>1, SlotFacts
  <2>3. F \in [1 .. f -> S]
    BY <1>8a, <1>8b, <2>2 DEF TypeOK
  <2> QED BY <1>1, <2>3, FunctionIsSeq
<1>10. CASE cur = NULL
  BY <1>8a, <1>6, <1>8, <1>9, <1>10, ConcatEmptySeq DEF ArmedPages, FilledPages
<1>11. CASE cur # NULL
  <2>1. cur \in S
    BY <1>8b DEF TypeOK
  <2>2. /\ <<cur>> \o F \in Seq(S) /\ Len(<<cur>> \o F) = f + 1
        /\ \A k \in 1 .. f + 1 :
             (<<cur>> \o F)[k] = IF k = 1 THEN cur ELSE F[k - 1]
    <3>1. f = Len(F) /\ F \in Seq(S)
      BY <1>9
    <3> QED BY <2>1, <3>1, AtFront
  <2>3. ASSUME NEW k \in 1 .. f + 1, k # 1
        PROVE  F[k - 1] = desc[SlotAt(cons, k - 2)]
    <3>1. k - 1 \in 1 .. f /\ (k - 1) - 1 = k - 2
      BY <1>1, <2>3
    <3> QED BY <1>8a, <3>1
  <2>4. <<cur>> \o F \in [1 .. f + 1 -> S]
    BY <2>2, LenProperties
  <2>5. <<cur>> \o F = FilledPages(f)
    BY <1>11, <2>2, <2>3, <2>4 DEF FilledPages
  <2> QED BY <1>6, <1>8, <1>11, <2>5 DEF ArmedPages
<1> QED BY <1>10, <1>11

-----------------------------------------------------------------------------
(* The places of the ring are slots apart, each with a page, and the slot  *)
(* that is refilled is none of them.                                       *)
LEMMA RingPlaces ==
  ASSUME WholeInv, NEW k \in 1 .. RingLength
  PROVE  /\ SlotAt(cons, k - 1) \in Slots /\ desc[SlotAt(cons, k - 1)] \in Page
         /\ Refilling => SlotAt(cons, k - 1) # prod
         /\ \A j \in 1 .. RingLength :
              SlotAt(cons, j - 1) = SlotAt(cons, k - 1) => j = k
<1> PICK n : n = RingLength
  OBVIOUS
<1>1. /\ n \in 0 .. N /\ N \in Nat \ {0} /\ cons \in Slots /\ prod \in Slots
      /\ k \in 1 .. n /\ n \in Nat
      /\ Refilling => n = N - 1
  BY RingLengthIs DEF WholeInv, TypeOK, RingLength
<1>2. /\ k - 1 \in 0 .. N /\ k - 1 \in 0 .. N - 1
      /\ \A j \in 1 .. n : j - 1 \in 0 .. N - 1
      /\ Refilling => k - 1 \in 0 .. N - 2
  BY <1>1
<1>3. SlotAt(cons, k - 1) \in Slots
  BY <1>1, <1>2, SlotFacts
<1>4. ASSUME Refilling PROVE SlotAt(cons, k - 1) # prod
  <2>1. cons = Inc(prod)
    BY <1>4 DEF WholeInv, IndexInv
  <2> QED BY <1>1, <1>2, <1>4, <2>1, SlotFacts
<1>5. desc[SlotAt(cons, k - 1)] \in Page
  <2>1. desc[SlotAt(cons, k - 1)] # NULL
    BY <1>3, <1>4 DEF WholeInv, HeldInv, Refilling
  <2> QED BY <1>3, <2>1 DEF WholeInv, TypeOK
<1>6. ASSUME NEW j \in 1 .. n, SlotAt(cons, j - 1) = SlotAt(cons, k - 1) PROVE j = k
  <2>1. j - 1 = k - 1
    BY <1>1, <1>2, <1>6, SlotFacts
  <2> QED BY <1>1, <2>1
<1> QED BY <1>3, <1>4, <1>5, <1>6

(* The two lists of pages, element by element. *)
LEMMA Lists ==
  ASSUME WholeInv, NEW f, OrderInv(f), NEW n, n = RingLength,
         NEW c, c = IF cur = NULL THEN 0 ELSE 1
  PROVE  /\ n \in Nat /\ f \in Nat /\ f <= n /\ n <= N /\ N \in Nat \ {0}
         /\ ArmedPages(f) \in Seq(Page) /\ Len(ArmedPages(f)) = n - f
         /\ \A k \in 1 .. n - f : ArmedPages(f)[k] = desc[SlotAt(cons, f + k - 1)]
         /\ FilledPages(f) \in Seq(Page) /\ Len(FilledPages(f)) = f + c
         /\ \A k \in 1 .. f + c : FilledPages(f)[k] =
              IF k <= c THEN cur ELSE desc[SlotAt(cons, k - c - 1)]
<1> PICK A, B : A = ArmedPages(f) /\ B = FilledPages(f)
  OBVIOUS
<1>1. n \in Nat /\ f \in Nat /\ f <= n /\ n <= N /\ N \in Nat \ {0} /\ c \in {0, 1}
  BY RingLengthIs DEF OrderInv
<1>2. \A k \in 1 .. n : desc[SlotAt(cons, k - 1)] \in Page
  BY RingPlaces
<1>3. A \in Seq(Page) /\ Len(A) = n - f
  <2>1. \A k \in 1 .. n - f : f + k \in 1 .. n /\ (f + k) - 1 = f + k - 1
    BY <1>1
  <2>2. \A k \in 1 .. n - f : desc[SlotAt(cons, f + k - 1)] \in Page
    BY <1>2, <2>1
  <2>3. A \in [1 .. n - f -> Page] /\ n - f \in Nat
    <3>1. A = [k \in 1 .. n - f |-> desc[SlotAt(cons, f + k - 1)]]
      BY DEF ArmedPages
    <3>2. n - f \in Nat
      BY <1>1
    <3> QED BY <2>2, <3>1, <3>2
  <2> QED BY <2>3, FunctionIsSeq
<1>4. \A k \in 1 .. n - f : A[k] = desc[SlotAt(cons, f + k - 1)]
  BY DEF ArmedPages
<1>5. \A k \in 1 .. f + c : B[k] = IF k <= c THEN cur ELSE desc[SlotAt(cons, k - c - 1)]
  <2>1. CASE cur = NULL
    <3>1. c = 0 /\ f + c = f /\ \A k \in 1 .. f : ~(k <= 0) /\ k - 0 - 1 = k - 1
      BY <1>1, <2>1
    <3>2. \A k \in 1 .. f : B[k] = desc[SlotAt(cons, k - 1)]
      BY <2>1 DEF FilledPages
    <3> QED BY <3>1, <3>2
  <2>2. CASE cur # NULL
    <3>1. c = 1 /\ \A k \in 1 .. f + 1 : (k <= 1 <=> k = 1) /\ k - 1 - 1 = k - 2
      BY <1>1, <2>2
    <3>2. \A k \in 1 .. f + 1 : B[k] = IF k = 1 THEN cur ELSE desc[SlotAt(cons, k - 2)]
      BY <2>2 DEF FilledPages
    <3> QED BY <3>1, <3>2
  <2> QED BY <2>1, <2>2
<1>6. B \in Seq(Page) /\ Len(B) = f + c
  <2>1. B \in [1 .. f + c -> Page]
    <3>1. DOMAIN B = 1 .. f + c /\ B = [k \in DOMAIN B |-> B[k]]
      <4>1. CASE cur = NULL
        <5>1. B = [k \in 1 .. f |-> desc[SlotAt(cons, k - 1)]]
          BY <4>1 DEF FilledPages
        <5>2. f + c = f
          BY <1>1, <4>1
        <5> QED BY <5>1, <5>2
      <4>2. CASE cur # NULL
        <5>1. B = [k \in 1 .. f + 1 |->
                     IF k = 1 THEN cur ELSE desc[SlotAt(cons, k - 2)]]
          BY <4>2 DEF FilledPages
        <5>2. f + c = f + 1
          BY <1>1, <4>2
        <5> QED BY <5>1, <5>2
      <4> QED BY <4>1, <4>2
    <3>2. \A k \in 1 .. f + c : ~(k <= c) => k - c \in 1 .. n /\ (k - c) - 1 = k - c - 1
      BY <1>1
    <3>3. \A k \in 1 .. f + c : k <= c => cur \in Page
      <4>1. c = 1 => cur # NULL
        OBVIOUS
      <4>2. cur # NULL => cur \in Page
        BY DEF WholeInv, TypeOK
      <4>3. \A k \in 1 .. f + c : k <= c => c = 1
        BY <1>1
      <4> QED BY <4>1, <4>2, <4>3
    <3>4. \A k \in 1 .. f + c : B[k] \in Page
      BY <1>2, <1>5, <3>2, <3>3
    <3> QED BY <3>1, <3>4
  <2>2. f + c \in Nat
    BY <1>1
  <2> QED BY <2>1, <2>2, FunctionIsSeq
<1> QED BY <1>1, <1>3, <1>4, <1>5, <1>6

(* The same of two lists with names of their own. *)
Listed(f, n, c, A, B) ==
  /\ n \in Nat /\ f \in Nat /\ f <= n /\ n <= N /\ N \in Nat \ {0}
  /\ A \in Seq(Page) /\ Len(A) = n - f
  /\ \A k \in 1 .. n - f : A[k] = desc[SlotAt(cons, f + k - 1)]
  /\ B \in Seq(Page) /\ Len(B) = f + c
  /\ \A k \in 1 .. f + c :
       B[k] = IF k <= c THEN cur ELSE desc[SlotAt(cons, k - c - 1)]

ListsHold == \A f, n, c, A, B :
  /\ OrderInv(f) /\ n = RingLength /\ c = (IF cur = NULL THEN 0 ELSE 1)
  /\ A = ArmedPages(f) /\ B = FilledPages(f)
  => Listed(f, n, c, A, B)

(* What Lists says, as a formula of one state. *)
LEMMA AllLists == WholeInv => ListsHold
<1> SUFFICES ASSUME WholeInv, NEW f, NEW n, NEW c, NEW A, NEW B, OrderInv(f),
                    n = RingLength, c = (IF cur = NULL THEN 0 ELSE 1),
                    A = ArmedPages(f), B = FilledPages(f)
             PROVE  Listed(f, n, c, A, B)
  BY DEF ListsHold
<1> QED BY Lists DEF Listed

(* A step of the service, from the lists A and B to C and D. *)
Moves(A, B, C, D) ==
  \/ C = A /\ D = B
  \/ \E p \in Page : /\ \A k \in 1 .. Len(A) : A[k] # p
                     /\ \A k \in 1 .. Len(B) : B[k] # p
                     /\ C = Append(A, p) /\ D = B
  \/ A # <<>> /\ D = Append(B, Head(A)) /\ C = Tail(A)
  \/ B # <<>> /\ D = Tail(B) /\ C = A

(* Steps that leave the places of the ring as they are. *)
LEMMA KeepPlaces ==
  ASSUME WholeInv, NEW f, OrderInv(f),
         UNCHANGED <<cons, cur, turn, pageStatus>>, Refilling' = Refilling,
         \A k \in 1 .. RingLength :
           desc'[SlotAt(cons, k - 1)] = desc[SlotAt(cons, k - 1)]
  PROVE  /\ OrderInv(f)' /\ ArmedPages(f)' = ArmedPages(f)
         /\ FilledPages(f)' = FilledPages(f)
<1> PICK n : n = RingLength
  OBVIOUS
<1>1. n \in Nat /\ f \in 0 .. n /\ n = RingLength'
  BY RingLengthIs DEF OrderInv, RingLength
<1>2. OrderInv(f)'
  BY <1>1 DEF OrderInv
<1>3. ArmedPages(f)' = ArmedPages(f)
  <2>1. \A k \in 1 .. n - f : f + k \in 1 .. n /\ (f + k) - 1 = f + k - 1
    <3>1. n \in Nat /\ f \in Nat /\ f <= n
      BY <1>1
    <3> QED BY <3>1
  <2>2. \A k \in 1 .. n - f :
          desc'[SlotAt(cons, f + k - 1)] = desc[SlotAt(cons, f + k - 1)]
    BY <2>1
  <2>3. /\ ArmedPages(f) = [k \in 1 .. n - f |-> desc[SlotAt(cons, f + k - 1)]]
        /\ ArmedPages(f)' = [k \in 1 .. n - f |-> desc'[SlotAt(cons, f + k - 1)]]
    BY <1>1 DEF ArmedPages
  <2> QED BY <2>2, <2>3
<1>4. FilledPages(f)' = FilledPages(f)
  <2>1. \A k \in 1 .. f : k \in 1 .. n
    BY <1>1
  <2>2. \A k \in 1 .. f + 1 : k # 1 => k - 1 \in 1 .. n /\ (k - 1) - 1 = k - 2
    <3>1. n \in Nat /\ f \in Nat /\ f <= n
      BY <1>1
    <3> QED BY <3>1
  <2>3. CASE cur = NULL
    <3>1. /\ FilledPages(f) = [k \in 1 .. f |-> desc[SlotAt(cons, k - 1)]]
          /\ FilledPages(f)' = [k \in 1 .. f |-> desc'[SlotAt(cons, k - 1)]]
      BY <2>3 DEF FilledPages
    <3> QED BY <2>1, <3>1
  <2>4. CASE cur # NULL
    <3>1. \A k \in 1 .. f + 1 : k # 1 =>
            desc'[SlotAt(cons, k - 2)] = desc[SlotAt(cons, k - 2)]
      BY <2>2
    <3>2. /\ FilledPages(f) = [k \in 1 .. f + 1 |->
                IF k = 1 THEN cur ELSE desc[SlotAt(cons, k - 2)]]
          /\ FilledPages(f)' = [k \in 1 .. f + 1 |->
                IF k = 1 THEN cur ELSE desc'[SlotAt(cons, k - 2)]]
      BY <2>4 DEF FilledPages
    <3> QED BY <3>1, <3>2
  <2> QED BY <2>3, <2>4
<1> QED BY <1>2, <1>3, <1>4

(* Steps of the poll and of the NIC that move no page between the lists. *)
LEMMA StillServes ==
  ASSUME WholeInv, NEW f, OrderInv(f),
         \/ PollTx \/ PollNothing \/ PollRefill \/ PollExit
         \/ NicTake \/ NicOpen \/ NicInterrupt \/ TxInterrupt \/ Interrupt
         \/ UNCHANGED vars
  PROVE  \E g : /\ OrderInv(g)'
                /\ Moves(ArmedPages(f), FilledPages(f),
                         ArmedPages(g)', FilledPages(g)')
<1>1. UNCHANGED <<cons, cur, turn, pageStatus>> /\ Refilling' = Refilling
  <2>1. CASE PollTx \/ PollNothing \/ PollExit
    <3>1. CASE PollTx
      BY <3>1 DEF PollTx, ringVars, regVars, nicVars, Refilling
    <3>2. CASE PollNothing
      BY <3>2 DEF PollNothing, ringVars, regVars, nicVars, Refilling
    <3>3. CASE PollExit
      <4>1. ~Refilling /\ ~Refilling'
        BY <3>3 DEF PollExit, Refilling
      <4>2. UNCHANGED <<cons, cur, turn, pageStatus>>
        BY <3>3 DEF PollExit, ringVars, regVars, nicVars
      <4> QED BY <4>1, <4>2 DEF Refilling
    <3> QED BY <2>1, <3>1, <3>2, <3>3
  <2>2. CASE PollRefill
    BY <2>2 DEF PollRefill, nicVars, Refilling
  <2>3. CASE NicTake \/ NicOpen \/ NicInterrupt \/ TxInterrupt
    BY <2>3 DEF NicTake, NicOpen, NicInterrupt, TxInterrupt, ringVars, hostVars,
                regVars, Refilling
  <2>4. CASE Interrupt
    BY <2>4 DEF Interrupt, ringVars, regVars, Refilling
  <2>5. CASE UNCHANGED vars
    BY <2>5 DEF vars, ringVars, hostVars, regVars, nicVars, Refilling
  <2> QED BY <2>1, <2>2, <2>3, <2>4, <2>5
<1>2. \/ desc' = desc
      \/ /\ Refilling /\ desc \in [Slots -> Page \cup {NULL}] /\ prod \in Slots
         /\ \A i \in Slots \ {prod} : desc'[i] = desc[i]
  <2>1. CASE PollRefill
    <3>1. desc \in [Slots -> Page \cup {NULL}] /\ prod \in Slots
      BY DEF WholeInv, TypeOK
    <3>2. \E x : desc' = [desc EXCEPT ![prod] = x]
      BY <2>1 DEF PollRefill, Allocated, NotMapped, NoMemory
    <3> QED BY <2>1, <3>1, <3>2 DEF PollRefill, Refilling
  <2>2. CASE ~PollRefill
    BY <2>2 DEF PollTx, PollNothing, PollExit, NicTake, NicOpen,
         NicInterrupt, TxInterrupt, Interrupt, vars, ringVars
  <2> QED BY <2>1, <2>2
<1>3. \A k \in 1 .. RingLength :
        desc'[SlotAt(cons, k - 1)] = desc[SlotAt(cons, k - 1)]
  BY <1>2, RingPlaces
<1>4. /\ OrderInv(f)' /\ ArmedPages(f)' = ArmedPages(f)
      /\ FilledPages(f)' = FilledPages(f)
  BY <1>1, <1>3, KeepPlaces
<1> QED BY <1>4 DEF Moves

(* The oldest page leaves the ring to be delivered: the first place of the *)
(* ring becomes the page ahead of it.                                      *)
LEMMA ConsumeServes ==
  ASSUME WholeInv, WholeInv', NEW f, OrderInv(f), PollConsume
  PROVE  \E g : /\ OrderInv(g)'
                /\ Moves(ArmedPages(f), FilledPages(f),
                         ArmedPages(g)', FilledPages(g)')
<1> PICK n, A, B, a : /\ n = RingLength /\ A = ArmedPages(f) /\ B = FilledPages(f)
                      /\ a = Inc(cons)
  OBVIOUS
<1>0. ListsHold /\ ListsHold'
  <2>1. WholeInv' => ListsHold'
    BY AllLists, PTL
  <2> QED BY <2>1, AllLists
<1>1. /\ ppc = "consume" /\ ppc' = "refill" /\ desc[cons] \in header /\ desc[cons] # NULL
      /\ cur' = desc[cons] /\ desc' = [desc EXCEPT ![cons] = NULL] /\ cons' = a
      /\ UNCHANGED <<prod, pageStatus, turn>>
      /\ cons \in Slots /\ desc \in [Slots -> Page \cup {NULL}] /\ header \in SUBSET Page
      /\ NULL \notin Page
  BY ConstantsAssumption DEF PollConsume, regVars, nicVars, WholeInv, TypeOK
<1>2. cur = NULL /\ RingLength = N /\ RingLength' = N - 1 /\ n = N
  BY <1>1 DEF WholeInv, HeldInv, RingLength, Refilling
<1>3. Listed(f, n, 0, A, B)
  BY <1>0, <1>2 DEF ListsHold
<1>4. /\ N \in Nat \ {0} /\ f \in Nat /\ f <= N /\ cons \in 0 .. N - 1
      /\ \A k \in 0 .. N - 1 : SlotAt(a, k) = SlotAt(cons, k + 1)
      /\ \A k \in 0 .. N : SlotAt(cons, k) \in Slots
      /\ \A j, k \in 0 .. N - 1 : SlotAt(cons, j) = SlotAt(cons, k) => j = k
      /\ SlotAt(cons, 0) = cons
  <2>1. f \in Nat /\ f <= N
    BY <1>2, <1>3 DEF Listed
  <2>2. cons \in Slots
    BY <1>1
  <2>3. \A k \in 0 .. N - 1 : SlotAt(a, k) = SlotAt(cons, k + 1)
    BY <2>2, SlotFacts
  <2>4. /\ N \in Nat \ {0} /\ cons \in 0 .. N - 1 /\ SlotAt(cons, 0) = cons
        /\ \A k \in 0 .. N : SlotAt(cons, k) \in Slots
        /\ \A j, k \in 0 .. N - 1 : SlotAt(cons, j) = SlotAt(cons, k) => j = k
    BY <2>2, SlotFacts
  <2> QED BY <2>1, <2>3, <2>4
<1>5. f > 0
  <2>1. ~pageStatus[cons]
    BY <1>1 DEF WholeInv, PageSafe
  <2>2. pageStatus[SlotAt(cons, 1 - 1)] <=> 1 > f
    <3>1. 1 \in 1 .. N
      BY <1>4
    <3> QED BY <1>2, <3>1 DEF OrderInv
  <2>3. 1 - 1 = 0
    OBVIOUS
  <2> QED BY <1>4, <2>1, <2>2, <2>3
<1> PICK g : g = f - 1
  OBVIOUS
<1>6. g \in 0 .. N - 1 /\ f = g + 1 /\ g \in Nat
  BY <1>4, <1>5
<1>7. OrderInv(g)'
  <2>1. turn' = SlotAt(a, g)
    BY <1>1, <1>4, <1>6 DEF OrderInv
  <2>2. ASSUME NEW k \in 1 .. N - 1 PROVE pageStatus[SlotAt(a, k - 1)] <=> k > g
    <3>1. /\ k - 1 \in 0 .. N - 1 /\ (k - 1) + 1 = (k + 1) - 1 /\ k + 1 \in 1 .. N
          /\ k + 1 > f <=> k > g
      BY <1>4, <1>6
    <3>2. SlotAt(a, k - 1) = SlotAt(cons, (k + 1) - 1)
      BY <1>4, <3>1
    <3> QED BY <1>2, <3>1, <3>2 DEF OrderInv
  <2> QED BY <1>1, <1>2, <1>6, <2>1, <2>2 DEF OrderInv
<1> PICK C, D : C = ArmedPages(g)' /\ D = FilledPages(g)'
  OBVIOUS
<1>8. Listed(g, N - 1, 1, C, D)'
  <2>1. N - 1 = RingLength' /\ 1 = (IF cur' = NULL THEN 0 ELSE 1)
    BY <1>1, <1>2
  <2> QED BY <1>0, <1>7, <2>1 DEF ListsHold
<1>9. ASSUME NEW k \in 1 .. N - 1 PROVE desc'[SlotAt(a, k - 1)] = desc[SlotAt(cons, k)]
  <2>1. /\ k - 1 \in 0 .. N - 1 /\ (k - 1) + 1 = k /\ 0 \in 0 .. N - 1
        /\ k \in 0 .. N - 1 /\ k # 0 /\ k \in 0 .. N
    BY <1>4
  <2>2. /\ SlotAt(a, k - 1) = SlotAt(cons, k)
        /\ SlotAt(cons, k) # cons /\ SlotAt(cons, k) \in Slots
    BY <1>4, <2>1
  <2> QED BY <1>1, <2>2
<1>10. C = A
  <2>1. Len(C) = (N - 1) - g /\ Len(A) = N - f /\ (N - 1) - g = N - f
    BY <1>2, <1>3, <1>4, <1>6, <1>8 DEF Listed
  <2>2. ASSUME NEW k \in 1 .. N - f PROVE C[k] = A[k]
    <3>1. /\ g + k \in 1 .. N - 1 /\ (g + k) - 1 = g + k - 1 /\ g + k = f + k - 1
          /\ k \in 1 .. (N - 1) - g
      BY <1>4, <1>6
    <3>2. C[k] = desc'[SlotAt(a, g + k - 1)]
      BY <1>1, <1>8, <3>1 DEF Listed
    <3>3. A[k] = desc[SlotAt(cons, f + k - 1)]
      BY <1>2, <1>3 DEF Listed
    <3> QED BY <1>9, <3>1, <3>2, <3>3
  <2>3. A \in Seq(Page) /\ C \in Seq(Page)
    BY <1>3, <1>8 DEF Listed
  <2> QED BY <2>1, <2>2, <2>3, SeqEqual
<1>11. D = B
  <2>1. Len(D) = g + 1 /\ Len(B) = f + 0 /\ f + 0 = f /\ g + 1 = f
    BY <1>3, <1>4, <1>6, <1>8 DEF Listed
  <2>2. ASSUME NEW k \in 1 .. f PROVE D[k] = B[k]
    <3>1. /\ k \in 1 .. g + 1 /\ k \in 1 .. f + 0 /\ ~(k <= 0)
          /\ k - 0 - 1 = k - 1 /\ (k <= 1 <=> k = 1)
      BY <1>4, <1>6
    <3>2. D[k] = IF k <= 1 THEN cur' ELSE desc'[SlotAt(a, k - 1 - 1)]
      BY <1>1, <1>8, <3>1 DEF Listed
    <3>3. B[k] = desc[SlotAt(cons, k - 1)]
      BY <1>3, <3>1 DEF Listed
    <3>4. CASE k = 1
      <4>1. k - 1 = 0
        BY <3>4
      <4> QED BY <1>1, <1>4, <3>1, <3>2, <3>3, <3>4, <4>1
    <3>5. CASE k # 1
      <4>1. k - 1 \in 1 .. N - 1 /\ ~(k <= 1)
        BY <1>4, <3>5
      <4> QED BY <1>9, <3>2, <3>3, <4>1
    <3> QED BY <3>4, <3>5
  <2>3. B \in Seq(Page) /\ D \in Seq(Page)
    BY <1>3, <1>8 DEF Listed
  <2> QED BY <2>1, <2>2, <2>3, SeqEqual
<1> QED BY <1>7, <1>10, <1>11 DEF Moves

(* A page is posted at the last place of the ring. *)
LEMMA ReadyServes ==
  ASSUME WholeInv, WholeInv', NEW f, OrderInv(f), PollReady
  PROVE  \E g : /\ OrderInv(g)'
                /\ Moves(ArmedPages(f), FilledPages(f),
                         ArmedPages(g)', FilledPages(g)')
<1> PICK A, B, C, D, p : /\ A = ArmedPages(f) /\ B = FilledPages(f) /\ p = desc[prod]
                         /\ C = ArmedPages(f)' /\ D = FilledPages(f)'
  OBVIOUS
<1>0. ListsHold /\ ListsHold'
  <2>1. WholeInv' => ListsHold'
    BY AllLists, PTL
  <2> QED BY <2>1, AllLists
<1>1. /\ ppc = "ready" /\ ppc' = "deliver" /\ prod' = Inc(prod)
      /\ pageStatus' = [pageStatus EXCEPT ![prod] = TRUE]
      /\ UNCHANGED <<desc, cons, turn, cur>>
      /\ prod \in Slots /\ cons \in Slots /\ cons = Inc(prod)
      /\ pageStatus \in [Slots -> BOOLEAN]
  BY DEF PollReady, nicVars, WholeInv, TypeOK, IndexInv, Refilling
<1>2. RingLength = N - 1 /\ RingLength' = N
  BY <1>1 DEF RingLength, Refilling
<1>3. cur # NULL /\ p \in Page /\ p # cur
  <2>1. p # NULL /\ cur # NULL /\ \A i \in Slots : desc[i] # cur
    BY <1>1 DEF WholeInv, HeldInv
  <2> QED BY <1>1, <2>1 DEF WholeInv, TypeOK
<1>4. Listed(f, N - 1, 1, A, B)
  <2>1. 1 = (IF cur = NULL THEN 0 ELSE 1)
    BY <1>3
  <2> QED BY <1>0, <1>2, <2>1 DEF ListsHold
<1>5. /\ N \in Nat \ {0} /\ f \in Nat /\ f <= N - 1
      /\ SlotAt(cons, N - 1) = prod
      /\ \A k \in 1 .. N - 1 : SlotAt(cons, k - 1) # prod /\ SlotAt(cons, k - 1) \in Slots
  <2>1. N \in Nat \ {0} /\ SlotAt(cons, N - 1) = prod
    BY <1>1, SlotFacts
  <2>2. \A k \in 1 .. N - 1 : SlotAt(cons, k - 1) # prod /\ SlotAt(cons, k - 1) \in Slots
    BY <1>1, <1>2, RingPlaces DEF Refilling
  <2>3. f \in Nat /\ f <= N - 1
    BY <1>4 DEF Listed
  <2> QED BY <2>1, <2>2, <2>3
<1>6. OrderInv(f)'
  <2>1. ASSUME NEW k \in 1 .. N PROVE pageStatus'[SlotAt(cons, k - 1)] <=> k > f
    <3>1. CASE k = N
      BY <1>1, <1>5, <3>1
    <3>2. CASE k # N
      <4>1. k \in 1 .. N - 1
        BY <1>5, <3>2
      <4>2. pageStatus'[SlotAt(cons, k - 1)] = pageStatus[SlotAt(cons, k - 1)]
        BY <1>1, <1>5, <4>1
      <4> QED BY <1>2, <4>1, <4>2 DEF OrderInv
    <3> QED BY <3>1, <3>2
  <2>2. turn' = SlotAt(cons, f) /\ f \in 0 .. N
    BY <1>1, <1>5 DEF OrderInv
  <2> QED BY <1>1, <1>2, <2>1, <2>2 DEF OrderInv
<1>7. Listed(f, N, 1, C, D)'
  <2>1. 1 = (IF cur' = NULL THEN 0 ELSE 1)
    BY <1>1, <1>3
  <2> QED BY <1>0, <1>2, <1>6, <2>1 DEF ListsHold
<1>8. /\ A \in Seq(Page) /\ Len(A) = N - 1 - f
      /\ \A k \in 1 .. N - 1 - f : A[k] = desc[SlotAt(cons, f + k - 1)]
      /\ B \in Seq(Page) /\ Len(B) = f + 1
      /\ \A k \in 1 .. f + 1 :
           B[k] = IF k <= 1 THEN cur ELSE desc[SlotAt(cons, k - 1 - 1)]
  BY <1>4 DEF Listed
<1>9. /\ C \in Seq(Page) /\ Len(C) = N - f
      /\ \A k \in 1 .. N - f : C[k] = desc[SlotAt(cons, f + k - 1)]
      /\ D \in Seq(Page) /\ Len(D) = f + 1
      /\ \A k \in 1 .. f + 1 :
           D[k] = IF k <= 1 THEN cur ELSE desc[SlotAt(cons, k - 1 - 1)]
  BY <1>1, <1>7 DEF Listed
<1>10. D = B
  <2>1. \A k \in 1 .. Len(D) : D[k] = B[k]
    BY <1>8, <1>9
  <2> QED BY <1>8, <1>9, <2>1, SeqEqual
<1>11. C = Append(A, p)
  <2> PICK E : E = Append(A, p)
    OBVIOUS
  <2>1. /\ E \in Seq(Page) /\ Len(E) = Len(A) + 1
        /\ \A k \in 1 .. Len(A) : E[k] = A[k]
        /\ E[Len(A) + 1] = p
    BY <1>3, <1>8, AppendProperties
  <2>2. Len(A) + 1 = N - f /\ N - f \in Nat /\ f + (N - f) - 1 = N - 1
    BY <1>5, <1>8
  <2>3. ASSUME NEW k \in 1 .. N - f PROVE C[k] = E[k]
    <3>1. CASE k = N - f
      BY <1>5, <1>9, <2>1, <2>2, <3>1
    <3>2. CASE k # N - f
      <4>1. k \in 1 .. N - 1 - f
        BY <1>5, <3>2
      <4>2. E[k] = A[k]
        BY <1>8, <2>1, <4>1
      <4> QED BY <1>8, <1>9, <4>1, <4>2
    <3> QED BY <3>1, <3>2
  <2>4. C = E
    <3>1. Len(C) = Len(E) /\ \A k \in 1 .. Len(C) : C[k] = E[k]
      BY <1>9, <2>1, <2>2, <2>3
    <3> QED BY <1>9, <2>1, <3>1, SeqEqual
  <2> QED BY <2>4
<1>12. \A i \in Slots \ {prod} : desc[i] # p
  BY <1>1, <1>3, ConstantsAssumption DEF WholeInv, PageSafe
<1>13. \A k \in 1 .. Len(A) : A[k] # p
  <2> SUFFICES ASSUME NEW k \in 1 .. N - 1 - f PROVE A[k] # p
    BY <1>8
  <2>1. f + k \in 1 .. N - 1 /\ (f + k) - 1 = f + k - 1
    BY <1>5
  <2>2. A[k] = desc[SlotAt(cons, (f + k) - 1)]
    BY <1>8, <2>1
  <2> QED BY <1>5, <1>12, <2>1, <2>2
<1>14. \A k \in 1 .. Len(B) : B[k] # p
  <2> SUFFICES ASSUME NEW k \in 1 .. f + 1 PROVE B[k] # p
    BY <1>8
  <2>1. CASE k <= 1
    BY <1>3, <1>8, <2>1
  <2>2. CASE ~(k <= 1)
    <3>1. k - 1 \in 1 .. N - 1
      BY <1>5, <2>2
    <3>2. B[k] = desc[SlotAt(cons, (k - 1) - 1)]
      BY <1>8, <2>2
    <3> QED BY <1>5, <1>12, <3>1, <3>2
  <2> QED BY <2>1, <2>2
<1> QED BY <1>3, <1>6, <1>10, <1>11, <1>13, <1>14 DEF Moves

(* The page being delivered is freed. *)
LEMMA DeliverServes ==
  ASSUME WholeInv, WholeInv', NEW f, OrderInv(f), PollDeliver
  PROVE  \E g : /\ OrderInv(g)'
                /\ Moves(ArmedPages(f), FilledPages(f),
                         ArmedPages(g)', FilledPages(g)')
<1> PICK n, A, B, C, D : /\ n = RingLength /\ A = ArmedPages(f) /\ B = FilledPages(f)
                         /\ C = ArmedPages(f)' /\ D = FilledPages(f)'
  OBVIOUS
<1>0. ListsHold /\ ListsHold'
  <2>1. WholeInv' => ListsHold'
    BY AllLists, PTL
  <2> QED BY <2>1, AllLists
<1>1. /\ ppc = "deliver" /\ ppc' = "exit" /\ cur' = NULL
      /\ UNCHANGED <<desc, cons, turn, pageStatus>>
  BY DEF PollDeliver, ringVars, regVars, nicVars
<1>2. RingLength' = n
  BY <1>1 DEF RingLength, Refilling
<1>3. cur # NULL
  BY <1>1 DEF WholeInv, HeldInv
<1>4. OrderInv(f)'
  BY <1>1, <1>2 DEF OrderInv
<1>5. Listed(f, n, 1, A, B)
  <2>1. 1 = (IF cur = NULL THEN 0 ELSE 1)
    BY <1>3
  <2> QED BY <1>0, <2>1 DEF ListsHold
<1>6. Listed(f, n, 0, C, D)'
  <2>1. 0 = (IF cur' = NULL THEN 0 ELSE 1)
    BY <1>1
  <2> QED BY <1>0, <1>2, <1>4, <2>1 DEF ListsHold
<1>7. /\ n \in Nat /\ f \in Nat /\ f <= n
      /\ A \in Seq(Page) /\ Len(A) = n - f
      /\ \A k \in 1 .. n - f : A[k] = desc[SlotAt(cons, f + k - 1)]
      /\ B \in Seq(Page) /\ Len(B) = f + 1
      /\ \A k \in 1 .. f + 1 :
           B[k] = IF k <= 1 THEN cur ELSE desc[SlotAt(cons, k - 1 - 1)]
  BY <1>5 DEF Listed
<1>8. /\ C \in Seq(Page) /\ Len(C) = n - f
      /\ \A k \in 1 .. n - f : C[k] = desc[SlotAt(cons, f + k - 1)]
      /\ D \in Seq(Page) /\ Len(D) = f + 0
      /\ \A k \in 1 .. f + 0 :
           D[k] = IF k <= 0 THEN NULL ELSE desc[SlotAt(cons, k - 0 - 1)]
  BY <1>1, <1>6 DEF Listed
<1>9. C = A
  <2>1. \A k \in 1 .. Len(C) : C[k] = A[k]
    BY <1>7, <1>8
  <2> QED BY <1>7, <1>8, <2>1, SeqEqual
<1>10. B # <<>> /\ D = Tail(B)
  <2>1. f + 1 # 0
    BY <1>7
  <2>2. B # <<>>
    BY <1>7, <2>1, EmptySeq
  <2> PICK T : T = Tail(B)
    OBVIOUS
  <2>3. /\ T \in Seq(Page) /\ Len(T) = Len(B) - 1
        /\ \A k \in 1 .. Len(T) : T[k] = B[k + 1]
    BY <1>7, <2>2, HeadTailProperties
  <2>4. Len(T) = f /\ Len(D) = f
    BY <1>7, <1>8, <2>3
  <2>5. ASSUME NEW k \in 1 .. f PROVE D[k] = T[k]
    <3>1. /\ k \in 1 .. f + 0 /\ ~(k <= 0) /\ k - 0 - 1 = k - 1
          /\ k + 1 \in 1 .. f + 1 /\ ~(k + 1 <= 1) /\ (k + 1) - 1 - 1 = k - 1
      BY <1>7
    <3>2. T[k] = B[k + 1]
      BY <2>3, <2>4
    <3>3. B[k + 1] = desc[SlotAt(cons, k - 1)]
      BY <1>7, <3>1
    <3>4. D[k] = desc[SlotAt(cons, k - 1)]
      BY <1>8, <3>1
    <3> QED BY <3>2, <3>3, <3>4
  <2>6. D = T
    BY <1>8, <2>3, <2>4, <2>5, SeqEqual
  <2> QED BY <2>2, <2>6
<1> QED BY <1>4, <1>9, <1>10 DEF Moves

(* The page of the slot being served is closed. *)
LEMMA CloseServes ==
  ASSUME WholeInv, WholeInv', NEW f, OrderInv(f), NicClose
  PROVE  \E g : /\ OrderInv(g)'
                /\ Moves(ArmedPages(f), FilledPages(f),
                         ArmedPages(g)', FilledPages(g)')
<1> PICK n, c, A, B, g : /\ n = RingLength /\ c = (IF cur = NULL THEN 0 ELSE 1)
                         /\ A = ArmedPages(f) /\ B = FilledPages(f) /\ g = f + 1
  OBVIOUS
<1>0. ListsHold /\ ListsHold'
  <2>1. WholeInv' => ListsHold'
    BY AllLists, PTL
  <2> QED BY <2>1, AllLists
<1>1. /\ turn' = Inc(turn) /\ pageStatus' = [pageStatus EXCEPT ![turn] = FALSE]
      /\ UNCHANGED <<desc, cons, ppc, cur>>
      /\ turn \in Slots /\ cons \in Slots /\ pageStatus \in [Slots -> BOOLEAN]
      /\ pageStatus[turn]
  BY DEF NicClose, ringVars, hostVars, WholeInv, TypeOK, EngineInv, PageSafe
<1>2. RingLength' = n /\ c = (IF cur' = NULL THEN 0 ELSE 1)
  BY <1>1 DEF RingLength, Refilling
<1>3. Listed(f, n, c, A, B)
  BY <1>0 DEF ListsHold
<1>4. n \in Nat /\ f \in Nat /\ f <= n /\ n <= N /\ N \in Nat \ {0} /\ c \in {0, 1}
  BY <1>3 DEF Listed
<1>5. turn = SlotAt(cons, f)
  BY DEF OrderInv
<1>6. f < n
  <2>1. CASE f = n /\ Refilling
    <3>1. n = N - 1 /\ cons = Inc(prod) /\ prod \in Slots
      BY <2>1 DEF RingLength, WholeInv, IndexInv, TypeOK
    <3>2. turn = prod
      BY <1>5, <2>1, <3>1, SlotFacts
    <3>3. ~pageStatus[prod]
      BY <2>1, <3>1, ConstantsAssumption
         DEF Refilling, WholeInv, HeldInv, PageSafe, DmaSafe, TypeOK
    <3> QED BY <1>1, <3>2, <3>3
  <2>2. CASE f = n /\ ~Refilling
    <3>1. n = N
      BY <2>2 DEF RingLength
    <3>2. turn = cons /\ SlotAt(cons, 0) = cons
      BY <1>1, <1>5, <2>2, <3>1, SlotFacts
    <3>3. pageStatus[SlotAt(cons, 1 - 1)] <=> 1 > f
      <4>1. 1 \in 1 .. n
        BY <1>4, <3>1
      <4> QED BY <4>1 DEF OrderInv
    <3>4. 1 - 1 = 0 /\ ~(1 > f)
      BY <1>4, <2>2, <3>1
    <3> QED BY <1>1, <3>2, <3>3, <3>4
  <2> QED BY <1>4, <2>1, <2>2
<1>7. g \in Nat /\ g <= n /\ g \in 1 .. n /\ g - 1 = f /\ g \in 0 .. n
  BY <1>4, <1>6
<1>8. OrderInv(g)'
  <2>1. turn' = SlotAt(cons, g)
    <3>1. f \in 0 .. N - 1
      BY <1>4, <1>6
    <3>2. Inc(SlotAt(cons, f)) = SlotAt(cons, f + 1)
      BY <1>1, <3>1, SlotFacts
    <3> QED BY <1>1, <1>5, <3>2
  <2>2. ASSUME NEW k \in 1 .. n PROVE pageStatus'[SlotAt(cons, k - 1)] <=> k > g
    <3>1. SlotAt(cons, k - 1) \in Slots /\ (pageStatus[SlotAt(cons, k - 1)] <=> k > f)
      BY RingPlaces DEF OrderInv
    <3>2. CASE k = g
      <4>1. ~(k > g) /\ SlotAt(cons, k - 1) = turn
        BY <1>5, <1>7, <3>2
      <4> QED BY <1>1, <4>1
    <3>3. CASE k # g
      <4>1. SlotAt(cons, k - 1) # SlotAt(cons, g - 1)
        BY <1>7, <3>3, RingPlaces
      <4>2. SlotAt(cons, k - 1) # turn
        BY <1>5, <1>7, <4>1
      <4>3. k > f <=> k > g
        BY <1>4, <3>3
      <4> QED BY <1>1, <3>1, <4>2, <4>3
    <3> QED BY <3>2, <3>3
  <2> QED BY <1>1, <1>2, <1>7, <2>1, <2>2 DEF OrderInv
<1> PICK C, D : C = ArmedPages(g)' /\ D = FilledPages(g)'
  OBVIOUS
<1>9. Listed(g, n, c, C, D)'
  BY <1>0, <1>2, <1>8 DEF ListsHold
<1>10. /\ A \in Seq(Page) /\ Len(A) = n - f
       /\ \A k \in 1 .. n - f : A[k] = desc[SlotAt(cons, f + k - 1)]
       /\ B \in Seq(Page) /\ Len(B) = f + c
       /\ \A k \in 1 .. f + c :
            B[k] = IF k <= c THEN cur ELSE desc[SlotAt(cons, k - c - 1)]
  BY <1>3 DEF Listed
<1>11. /\ C \in Seq(Page) /\ Len(C) = n - g
       /\ \A k \in 1 .. n - g : C[k] = desc[SlotAt(cons, g + k - 1)]
       /\ D \in Seq(Page) /\ Len(D) = g + c
       /\ \A k \in 1 .. g + c :
            D[k] = IF k <= c THEN cur ELSE desc[SlotAt(cons, k - c - 1)]
  BY <1>1, <1>9 DEF Listed
<1> PICK h, T, E : h = Head(A) /\ T = Tail(A) /\ E = Append(B, h)
  OBVIOUS
<1>12. A # <<>>
  <2>1. Len(A) # 0
    BY <1>4, <1>6, <1>10
  <2> QED BY <1>10, <2>1, EmptySeq
<1>13. /\ h \in Page /\ h = A[1] /\ T \in Seq(Page) /\ Len(T) = Len(A) - 1
       /\ \A k \in 1 .. Len(T) : T[k] = A[k + 1]
  BY <1>10, <1>12, HeadTailProperties, ElementOfSeq
<1>14. C = T
  <2>1. Len(T) = n - g /\ Len(C) = n - g
    BY <1>4, <1>10, <1>11, <1>13
  <2>2. ASSUME NEW k \in 1 .. n - g PROVE C[k] = T[k]
    <3>1. k + 1 \in 1 .. n - f /\ f + (k + 1) - 1 = g + k - 1
      BY <1>4, <1>7
    <3>2. T[k] = A[k + 1]
      BY <1>13, <2>1
    <3>3. A[k + 1] = desc[SlotAt(cons, f + (k + 1) - 1)]
      BY <1>10, <3>1
    <3>4. C[k] = desc[SlotAt(cons, g + k - 1)]
      BY <1>11
    <3> QED BY <3>1, <3>2, <3>3, <3>4
  <2> QED BY <1>11, <1>13, <2>1, <2>2, SeqEqual
<1>15. D = E
  <2>1. /\ E \in Seq(Page) /\ Len(E) = Len(B) + 1
        /\ \A k \in 1 .. Len(B) : E[k] = B[k]
        /\ E[Len(B) + 1] = h
    BY <1>10, <1>13, AppendProperties
  <2>2. Len(E) = g + c /\ Len(B) + 1 = g + c /\ Len(D) = g + c
    BY <1>4, <1>10, <1>11, <2>1
  <2>3. ASSUME NEW k \in 1 .. g + c PROVE D[k] = E[k]
    <3>1. CASE k = g + c
      <4>1. ~(k <= c) /\ k - c - 1 = f /\ 1 \in 1 .. n - f /\ f + 1 - 1 = f
        BY <1>4, <1>6, <1>7, <3>1
      <4>2. D[k] = desc[SlotAt(cons, f)]
        BY <1>11, <4>1
      <4>3. A[1] = desc[SlotAt(cons, f)]
        BY <1>10, <4>1
      <4> QED BY <1>13, <2>1, <2>2, <3>1, <4>2, <4>3
    <3>2. CASE k # g + c
      <4>1. k \in 1 .. f + c
        BY <1>4, <1>7, <3>2
      <4>2. E[k] = B[k]
        BY <1>10, <2>1, <4>1
      <4> QED BY <1>10, <1>11, <4>1, <4>2
    <3> QED BY <3>1, <3>2
  <2>4. D \in Seq(Page) /\ \A k \in 1 .. Len(D) : D[k] = E[k]
    BY <1>11, <2>2, <2>3
  <2> QED BY <2>1, <2>2, <2>4, SeqEqual
<1> QED BY <1>8, <1>12, <1>14, <1>15 DEF Moves

-----------------------------------------------------------------------------
SomeOrder == \E f : OrderInv(f)

(* The ring stays in order, and every step serves. *)
LEMMA OrderStep ==
  ASSUME WholeInv, WholeInv', NEW f, OrderInv(f), [Next]_vars
  PROVE  \E g : /\ OrderInv(g)'
                /\ Moves(ArmedPages(f), FilledPages(f),
                         ArmedPages(g)', FilledPages(g)')
<1>1. CASE PollConsume
  BY <1>1, ConsumeServes
<1>2. CASE PollReady
  BY <1>2, ReadyServes
<1>3. CASE PollDeliver
  BY <1>3, DeliverServes
<1>4. CASE NicClose
  BY <1>4, CloseServes
<1>5. CASE \/ PollTx \/ PollNothing \/ PollRefill \/ PollExit
           \/ NicTake \/ NicOpen \/ NicInterrupt \/ TxInterrupt \/ Interrupt
           \/ UNCHANGED vars
  BY <1>5, StillServes
<1> QED BY <1>1, <1>2, <1>3, <1>4, <1>5 DEF Next, Poll, Nic

Seen == \A f : OrderInv(f) => ArmedList = ArmedPages(f) /\ FullList = FilledPages(f)

(* The refinement mapping is what OrderInv says. *)
LEMMA SeenAlways == WholeInv => Seen
BY View DEF Seen, ArmedList, FullList, WholeInv

(* When the interface comes up every slot is posted. *)
LEMMA OrderBegins ==
  turn = 0 /\ cons = 0 /\ ~Refilling /\ (\A i \in Slots : pageStatus[i]) => OrderInv(0)
<1> SUFFICES ASSUME turn = 0, cons = 0, ~Refilling, \A i \in Slots : pageStatus[i]
             PROVE  OrderInv(0)
  OBVIOUS
<1>1. RingLength = N /\ N \in Nat \ {0} /\ 0 \in Slots
  BY ZeroInSlots, RingAssumption DEF RingLength
<1>2. turn = SlotAt(cons, 0)
  BY <1>1 DEF SlotAt
<1>3. ASSUME NEW k \in 1 .. N PROVE pageStatus[SlotAt(cons, k - 1)] <=> k > 0
  <2>1. k - 1 \in 0 .. N
    BY <1>1
  <2>2. SlotAt(cons, k - 1) \in Slots
    BY <1>1, <2>1, SlotFacts
  <2> QED BY <1>1, <2>2
<1>4. 0 \in 0 .. RingLength
  BY <1>1
<1> QED BY <1>1, <1>2, <1>3, <1>4 DEF OrderInv

(* That state maps to a first state of the service. *)
LEMMA ServiceBegins == WholeInv /\ OrderInv(0) /\ cur = NULL => Service!Init
<1> SUFFICES ASSUME WholeInv, OrderInv(0), cur = NULL PROVE Service!Init
  OBVIOUS
<1>1. WholeInv /\ OrderInv(0)
  OBVIOUS
<1> PICK n, A, B : n = RingLength /\ A = ArmedPages(0) /\ B = FilledPages(0)
  OBVIOUS
<1>2. ArmedList = A /\ FullList = B
  BY <1>1, SeenAlways DEF Seen
<1>3. Listed(0, n, 0, A, B)
  <2>1. 0 = (IF cur = NULL THEN 0 ELSE 1)
    OBVIOUS
  <2> QED BY <1>1, <2>1, AllLists DEF ListsHold
<1>4. /\ n \in Nat /\ A \in Seq(Page) /\ Len(A) = n - 0
      /\ \A k \in 1 .. n - 0 : A[k] = desc[SlotAt(cons, 0 + k - 1)]
      /\ B \in Seq(Page) /\ Len(B) = 0 + 0
  BY <1>3 DEF Listed
<1>5. B = <<>>
  BY <1>4, EmptySeq
<1>6. DOMAIN A = 1 .. n /\ \A k \in 1 .. n : A[k] = desc[SlotAt(cons, k - 1)]
  <2>1. n - 0 = n /\ \A k \in 1 .. n : 0 + k - 1 = k - 1
    BY <1>4
  <2> QED BY <1>4, <2>1, LenProperties
<1>7. ASSUME NEW j \in 1 .. n, NEW k \in 1 .. n, A[j] = A[k] PROVE j = k
  <2>1. /\ SlotAt(cons, j - 1) \in Slots /\ SlotAt(cons, k - 1) \in Slots
        /\ desc[SlotAt(cons, j - 1)] \in Page
        /\ SlotAt(cons, j - 1) = SlotAt(cons, k - 1) => j = k
    BY <1>1, RingPlaces
  <2>2. desc[SlotAt(cons, j - 1)] = desc[SlotAt(cons, k - 1)]
    BY <1>6, <1>7
  <2>3. SlotAt(cons, j - 1) = SlotAt(cons, k - 1)
    BY <1>1, <2>1, <2>2, ConstantsAssumption DEF WholeInv, PageSafe
  <2> QED BY <2>1, <2>3
<1> QED BY <1>2, <1>4, <1>5, <1>6, <1>7 DEF Service!Init, ArmedList, FullList

(* Every step maps to a step of the service, or to none. *)
LEMMA ServiceStep ==
  ASSUME WholeInv, WholeInv', SomeOrder, [Next]_vars
  PROVE  [Service!Next]_<<ArmedList, FullList>> /\ SomeOrder'
<1>1. Seen /\ Seen'
  <2>1. WholeInv' => Seen'
    BY SeenAlways, PTL
  <2> QED BY <2>1, SeenAlways
<1>2. PICK f : OrderInv(f)
  BY DEF SomeOrder
<1>3. PICK g : /\ OrderInv(g)'
               /\ Moves(ArmedPages(f), FilledPages(f),
                         ArmedPages(g)', FilledPages(g)')
  BY <1>2, OrderStep
<1>4. PICK A, B, C, D : A = ArmedList /\ B = FullList /\ C = ArmedList' /\ D = FullList'
  OBVIOUS
<1>5. Moves(A, B, C, D)
  BY <1>1, <1>2, <1>3, <1>4 DEF Seen
<1>6. ASSUME C = A, D = B PROVE UNCHANGED <<ArmedList, FullList>>
  BY <1>4, <1>6
<1>7. ASSUME NEW p \in Page, \A k \in 1 .. Len(A) : A[k] # p,
             \A k \in 1 .. Len(B) : B[k] # p, C = Append(A, p), D = B
      PROVE  Service!Next
  <2>1. A \in Seq(Page) /\ B \in Seq(Page)
    BY <1>1, <1>2, <1>4, Lists DEF Seen
  <2>2. DOMAIN A = 1 .. Len(A) /\ DOMAIN B = 1 .. Len(B)
    BY <2>1, LenProperties
  <2>3. {k \in DOMAIN A : A[k] = p} = {} /\ {k \in DOMAIN B : B[k] = p} = {}
    BY <1>7, <2>2
  <2>4. Service!At(p) = {}
    BY <1>4, <2>3 DEF Service!At, ArmedList, FullList
  <2>5. Service!Arm(p)
    BY <1>4, <1>7, <2>4 DEF Service!Arm, ArmedList, FullList
  <2> QED BY <2>5 DEF Service!Next
<1>8. ASSUME A # <<>>, D = Append(B, Head(A)), C = Tail(A) PROVE Service!Next
  <2>1. Service!Fill
    BY <1>4, <1>8 DEF Service!Fill, ArmedList, FullList
  <2> QED BY <2>1 DEF Service!Next
<1>9. ASSUME B # <<>>, D = Tail(B), C = A PROVE Service!Next
  <2>1. Service!Deliver
    BY <1>4, <1>9 DEF Service!Deliver, ArmedList, FullList
  <2> QED BY <2>1 DEF Service!Next
<1>10. SomeOrder'
  BY <1>3 DEF SomeOrder
<1> QED BY <1>5, <1>6, <1>7, <1>8, <1>9, <1>10 DEF Moves

(* With coherent pages and no failed allocation reception implements its   *)
(* service: pages are filled in the order they were posted, delivered in   *)
(* the order they were filled, each once, and a page that is posted is     *)
(* nowhere else (nf10_lbuf.c:655-717, rx_wr_pkt_to_hugepages.v).           *)
THEOREM ReceptionServes ==
  ASSUME Reliable
  PROVE  Spec => ImplementsService
<1>1. IInv => WholeInv
  BY DEF IInv, WholeInv
<1>2. Init => SomeOrder /\ Service!Init
  <2>1. Init => OrderInv(0) /\ cur = NULL
    BY OrderBegins DEF Init, Refilling
  <2> QED BY <1>1, <2>1, InitIInv, ServiceBegins DEF SomeOrder
<1>3. WholeInv /\ WholeInv' /\ SomeOrder /\ [Next]_vars =>
        [Service!Next]_<<ArmedList, FullList>> /\ SomeOrder'
  BY ServiceStep
<1> QED BY <1>1, <1>2, <1>3, Inductive, PTL
        DEF Spec, ImplementsService, Service!Spec

-----------------------------------------------------------------------------
(* The life of the driver. *)

Resource == {"device", "regions", "etherdev", "bar0", "bar2", "msi", "irq", "netdev",
             "hw", "fops", "napi"}

(* What is held in each state: napi and the net device as long as the      *)
(* interface may be up, and the poll runs only under napi.                 *)
LifeInv ==
  /\ at \in Resource \cup {"phy", "bound", "unwind", "remove", "gone"}
  /\ held \subseteq Resource
  /\ open \in {"down", "alloc", "post", "up"}
  /\ reset \in BOOLEAN
  /\ at = "gone" => held = {}
  /\ reset => at \in {"bound", "remove", "gone"}
  /\ at \in {"hw", "fops", "napi"} => "netdev" \in held
  /\ at = "bound" => {"napi", "netdev"} \subseteq held
  /\ "napi" \in held => at \in {"bound", "remove"}
  /\ open # "down" => at \in {"bound", "remove"} /\ "netdev" \in held /\ reset
  /\ open \in {"alloc", "post"} => at = "bound"
  /\ ppc # "idle" => "napi" \in held

(* A poll of a ring that was never filled finds nothing. *)
Lazy == cur = NULL /\ ppc \in {"idle", "scheduled", "consume", "exit"}

(* The NIC has no page, and no interrupt is under way. *)
Quiet ==
  /\ \A i \in Slots : ~pageStatus[i]
  /\ ~avail /\ send = "idle" /\ turn = 0 /\ ~irq /\ ppc = "idle"

(* The interface is down, or is coming up. *)
DownInv ==
  /\ owned = {} /\ Lazy
  /\ ~reset => \A i \in Slots : desc[i] = NULL
  /\ reset /\ "napi" \in held => Quiet

(* The pages are being posted. *)
PostInv ==
  /\ ppc = "idle" /\ cur = NULL /\ ~irq
  /\ send \in {"idle", "open"} /\ turn = 0
  /\ slot \in Slots /\ prod = slot /\ cons = 0

(* The descriptors of a ring that is full. *)
PostedInv ==
  /\ \A i \in Slots : desc[i] # NULL /\ dma[i] = desc[i]
  /\ \A i \in Slots : pageStatus[i] => i < slot
  /\ \A i \in Slots : desc[i] \notin header
  /\ EngineInv /\ PageSafe

(* Between nf10_up and nf10_down the indices are those of a ring that is   *)
(* full, or of one that is refilled.                                       *)
DeviceIndex == open # "post" => IndexInv

DInv ==
  /\ TypeOK /\ LifeInv /\ DeviceIndex
  /\ open = "alloc" => Clean /\ DownInv
  /\ open = "post" => PostInv
  /\ Clean =>
       /\ ~again
       /\ open = "down" => DownInv
       /\ open = "post" => PostedInv
       /\ open = "up" => HeldInv /\ EngineInv /\ PageSafe

-----------------------------------------------------------------------------
(* The orders in which things are acquired and released. *)
LEMMA ProbeOrderFacts ==
  /\ Len(ProbeOrder) = 13 /\ DOMAIN ProbeOrder = 1 .. 13
  /\ \A i, j \in 1 .. 13 : ProbeOrder[i] = ProbeOrder[j] => i = j
BY DEF ProbeOrder

LEMMA ProbeNext ==
  ASSUME NEW k \in 1 .. 12, at = ProbeOrder[k], Probe
  PROVE  at' = ProbeOrder[k + 1]
<1>1. \A i \in 1 .. 13 : ProbeOrder[i] = at => i = k
  BY ProbeOrderFacts
<1>2. Index(ProbeOrder, at) = k
  BY <1>1, ProbeOrderFacts DEF Index
<1> QED
  BY <1>2 DEF Probe

LEMMA RemoveOrderFacts ==
  /\ DOMAIN RemoveOrder = 1 .. 11
  /\ \A i, j \in 1 .. 11 : RemoveOrder[i] = RemoveOrder[j] => i = j
  /\ RemoveOrder[1] = "fops" /\ RemoveOrder[2] = "napi" /\ RemoveOrder[4] = "netdev"
  /\ \A r \in Resource : \E i \in 1 .. 11 : RemoveOrder[i] = r
<1>1. /\ DOMAIN RemoveOrder = 1 .. 11
      /\ \A i, j \in 1 .. 11 : RemoveOrder[i] = RemoveOrder[j] => i = j
      /\ RemoveOrder[1] = "fops" /\ RemoveOrder[2] = "napi" /\ RemoveOrder[4] = "netdev"
  BY DEF RemoveOrder
<1>2. /\ RemoveOrder[3] = "hw" /\ RemoveOrder[5] = "irq" /\ RemoveOrder[6] = "msi"
      /\ RemoveOrder[7] = "bar2" /\ RemoveOrder[8] = "bar0"
      /\ RemoveOrder[9] = "etherdev" /\ RemoveOrder[10] = "regions"
      /\ RemoveOrder[11] = "device"
  BY DEF RemoveOrder
<1>3. /\ 1 \in 1 .. 11 /\ 2 \in 1 .. 11 /\ 3 \in 1 .. 11 /\ 4 \in 1 .. 11
      /\ 5 \in 1 .. 11 /\ 6 \in 1 .. 11 /\ 7 \in 1 .. 11 /\ 8 \in 1 .. 11
      /\ 9 \in 1 .. 11 /\ 10 \in 1 .. 11 /\ 11 \in 1 .. 11
  OBVIOUS
<1>4. \A r \in Resource : \E i \in 1 .. 11 : RemoveOrder[i] = r
  BY <1>1, <1>2, <1>3, Zenon DEF Resource
<1> QED
  BY <1>1, <1>4

LEMMA RemoveIndex ==
  ASSUME NEW i \in 1 .. 11
  PROVE  Index(RemoveOrder, RemoveOrder[i]) = i
<1>1. \A j \in 1 .. 11 : RemoveOrder[j] = RemoveOrder[i] => j = i
  BY RemoveOrderFacts
<1> QED
  BY <1>1, RemoveOrderFacts DEF Index

(* napi is released before the net device. *)
LEMMA NapiFirst ==
  ASSUME held \subseteq Resource, "napi" \in held
  PROVE  FirstHeld \in {"fops", "napi"} /\ FirstHeld \in held
<1> DEFINE Least(r) == \A q \in held : Index(RemoveOrder, r) <= Index(RemoveOrder, q)
<1>1. \A q \in Resource : \E i \in 1 .. 11 : RemoveOrder[i] = q /\ Index(RemoveOrder, q) = i
  BY RemoveOrderFacts, RemoveIndex
<1>2. Index(RemoveOrder, "fops") = 1 /\ Index(RemoveOrder, "napi") = 2
  <2>1. 1 \in 1 .. 11 /\ 2 \in 1 .. 11
    OBVIOUS
  <2> QED
    BY <2>1, RemoveIndex, RemoveOrderFacts
<1>3. \A q \in Resource : Index(RemoveOrder, q) \in 1 .. 11
  BY <1>1
<1>4. \A q \in Resource \ {"fops"} : Index(RemoveOrder, q) >= 2
  <2> TAKE q \in Resource \ {"fops"}
  <2>1. PICK i \in 1 .. 11 : RemoveOrder[i] = q /\ Index(RemoveOrder, q) = i
    BY <1>1
  <2>2. i # 1
    BY <2>1, RemoveOrderFacts
  <2> QED
    BY <2>1, <2>2
<1>5. \E r \in held : Least(r)
  <2>1. CASE "fops" \in held
    <3>1. Least("fops")
      BY <1>2, <1>3
    <3> QED
      BY <2>1, <3>1
  <2>2. CASE "fops" \notin held
    <3>1. Least("napi")
      BY <1>2, <1>4, <2>2
    <3> QED
      BY <3>1
  <2> QED
    BY <2>1, <2>2
<1> DEFINE f == CHOOSE r \in held : Least(r)
<1>6. f \in held /\ Least(f)
  BY <1>5
<1>7. FirstHeld = f
  BY DEF FirstHeld
<1>8. Index(RemoveOrder, f) \in 1 .. 11 /\ Index(RemoveOrder, f) <= 2
  BY <1>6, <1>2, <1>3
<1>9. PICK i \in 1 .. 11 : RemoveOrder[i] = f /\ Index(RemoveOrder, f) = i
  BY <1>1, <1>6
<1>10. i = 1 \/ i = 2
  BY <1>8, <1>9
<1> QED
  BY <1>6, <1>7, <1>9, <1>10, RemoveOrderFacts

(* What a release does to the life. *)
LEMMA ReleaseLife ==
  ASSUME LifeInv, Release
  PROVE  LifeInv'
<1> DEFINE r == FirstHeld
<1>1. /\ at = "remove" /\ held' = held \ {r}
      /\ at' = IF held = {r} THEN "gone" ELSE at
      /\ r = "napi" => ppc = "idle"
      /\ UNCHANGED <<ppc, reset>>
      /\ open' = IF r = "netdev" /\ open = "up" THEN "down" ELSE open
  BY DEF Release, Drop, FreeBuffers
<1>2. open \in {"down", "up"}
  BY <1>1 DEF LifeInv
<1>3. open' # "down" => open = "up" /\ r # "netdev" /\ "netdev" \in held
  BY <1>1, <1>2 DEF LifeInv
<1>4. at' = "gone" => held' = {}
  BY <1>1
<1>5. open' # "down" => at' = "remove" /\ "netdev" \in held' /\ reset'
  BY <1>1, <1>3 DEF LifeInv
<1>6. "napi" \in held' => at' = "remove"
  BY <1>1
<1>7. ppc' # "idle" => "napi" \in held'
  BY <1>1 DEF LifeInv
<1> QED
  BY <1>1, <1>2, <1>4, <1>5, <1>6, <1>7 DEF LifeInv

LEMMA ProbeLife ==
  ASSUME LifeInv, Probe
  PROVE  LifeInv'
<1>1. PICK k \in 1 .. 12 : at = ProbeOrder[k]
  BY ProbeOrderFacts DEF Probe
<1>2. at' = ProbeOrder[k + 1]
  BY <1>1, ProbeNext
<1>3. \/ at = "device" /\ at' = "regions"
      \/ at = "regions" /\ at' = "etherdev"
      \/ at = "etherdev" /\ at' = "bar0"
      \/ at = "bar0" /\ at' = "bar2"
      \/ at = "bar2" /\ at' = "msi"
      \/ at = "msi" /\ at' = "phy"
      \/ at = "phy" /\ at' = "irq"
      \/ at = "irq" /\ at' = "netdev"
      \/ at = "netdev" /\ at' = "hw"
      \/ at = "hw" /\ at' = "fops"
      \/ at = "fops" /\ at' = "napi"
      \/ at = "napi" /\ at' = "bound"
  BY <1>1, <1>2 DEF ProbeOrder
<1>4. held' = held \cup ({at} \ {"phy"}) /\ UNCHANGED <<ppc, reset, open>>
  BY DEF Probe, vars, hostVars
<1>5. "napi" \notin held /\ open = "down" /\ ppc = "idle"
  BY <1>3 DEF LifeInv
<1>6. held' \subseteq Resource /\ at' \in Resource \cup {"phy", "bound"}
  BY <1>3, <1>4 DEF LifeInv, Resource
<1>7. at' \in {"hw", "fops", "napi", "bound"} => "netdev" \in held'
  BY <1>3, <1>4 DEF LifeInv
<1>8. "napi" \in held' <=> at' = "bound"
  BY <1>3, <1>4, <1>5
<1>9. ~reset
  BY <1>3 DEF LifeInv
<1> QED
  BY <1>3, <1>4, <1>5, <1>6, <1>7, <1>8, <1>9 DEF LifeInv

LEMMA ProbeNotReset ==
  ASSUME LifeInv, Probe
  PROVE  ~reset
<1>1. PICK k \in 1 .. 12 : at = ProbeOrder[k]
  BY ProbeOrderFacts DEF Probe
<1>2. at \notin {"bound", "remove", "gone"}
  BY <1>1 DEF ProbeOrder
<1> QED
  BY <1>2 DEF LifeInv

LEMMA LifeStep ==
  ASSUME LifeInv, [DeviceNext]_deviceVars
  PROVE  LifeInv'
<1>1. CASE Probe
  BY <1>1, ProbeLife
<1>2. CASE ProbeFails
  <2>1. /\ at \in {ProbeOrder[i] : i \in 1 .. Index(ProbeOrder, "hw")}
        /\ at' = "unwind" /\ UNCHANGED <<held, ppc, reset, open>>
    BY <1>2 DEF ProbeFails, vars, hostVars
  <2>2. at \notin {"bound", "remove", "gone"}
    <3>1. ProbeOrder[10] = "hw" /\ 10 \in 1 .. 13
      BY DEF ProbeOrder
    <3>2. \A i \in 1 .. 13 : ProbeOrder[i] = "hw" => i = 10
      BY <3>1, ProbeOrderFacts
    <3>3. Index(ProbeOrder, "hw") = 10
      BY <3>1, <3>2, ProbeOrderFacts DEF Index
    <3>4. PICK i \in 1 .. 10 : at = ProbeOrder[i]
      BY <2>1, <3>3
    <3> QED
      BY <3>4 DEF ProbeOrder
  <2> QED
    BY <2>1, <2>2 DEF LifeInv
<1>3. CASE Unwind
  <2>1. at = "unwind" /\ at' = "gone" /\ held' = {} /\ UNCHANGED <<ppc, reset, open>>
    BY <1>3 DEF Unwind, vars, hostVars
  <2> QED
    BY <2>1 DEF LifeInv
<1>4. CASE Reload
  <2>1. at = "gone" /\ at' = "device" /\ reset' = FALSE /\ UNCHANGED <<ppc, held, open>>
    BY <1>4 DEF Reload
  <2> QED
    BY <2>1 DEF LifeInv, Resource
<1>5. CASE UpReset
  <2>1. /\ at = "bound" /\ open' = "alloc" /\ reset' = TRUE
        /\ UNCHANGED <<at, held, ppc>>
    BY <1>5 DEF UpReset, hostVars
  <2> QED
    BY <2>1 DEF LifeInv
<1>6. CASE UpAlloc
  <2>1. open = "alloc" /\ open' = "post" /\ UNCHANGED <<at, held, reset, ppc>>
    BY <1>6 DEF UpAlloc, lifeVars
  <2> QED
    BY <2>1 DEF LifeInv
<1>7. CASE UpAllocFails
  <2>1. open = "alloc" /\ open' = "down" /\ UNCHANGED <<at, held, reset, ppc>>
    BY <1>7 DEF UpAllocFails, lifeVars
  <2> QED
    BY <2>1 DEF LifeInv
<1>8. CASE UpPost
  <2>1. open = "post" /\ open' \in {"up", "post"} /\ UNCHANGED <<at, held, reset, ppc>>
    BY <1>8 DEF UpPost, lifeVars, hostVars
  <2> QED
    BY <2>1 DEF LifeInv
<1>9. CASE Down
  <2>1. open' = "down" /\ UNCHANGED <<at, held, reset, ppc>>
    BY <1>9 DEF Down, FreeBuffers, lifeVars
  <2> QED
    BY <2>1 DEF LifeInv
<1>10. CASE Remove
  <2>1. /\ at = "bound" /\ open \in {"down", "up"} /\ at' = "remove"
        /\ UNCHANGED <<held, reset, ppc, open>>
    BY <1>10 DEF Remove, vars, hostVars
  <2> QED
    BY <2>1 DEF LifeInv
<1>11. CASE Release
  BY <1>11, ReleaseLife
<1>12. CASE DevicePoll
  <2>1. UNCHANGED <<at, held, reset, open>> /\ ppc # "idle"
    BY <1>12 DEF DevicePoll, lifeVars, Poll, PollTx, PollNothing, PollConsume,
       PollRefill, PollReady, PollDeliver, PollExit
  <2> QED
    BY <2>1 DEF LifeInv
<1>13. CASE DeviceNic \/ InterruptLost
  <2>1. UNCHANGED <<at, held, reset, open, ppc>>
    BY <1>13 DEF DeviceNic, InterruptLost, lifeVars, hostVars, NicTake, NicOpen,
       NicClose, NicInterrupt, TxInterrupt
  <2> QED
    BY <2>1 DEF LifeInv
<1>14. CASE DeviceInterrupt
  <2>1. UNCHANGED <<at, held, reset, open>> /\ "napi" \in held
    BY <1>14 DEF DeviceInterrupt, lifeVars
  <2> QED
    BY <2>1 DEF LifeInv
<1>15. CASE UNCHANGED deviceVars
  BY <1>15 DEF deviceVars, vars, hostVars, lifeVars, LifeInv
<1> QED
  BY <1>1, <1>2, <1>3, <1>4, <1>5, <1>6, <1>7, <1>8, <1>9, <1>10, <1>11, <1>12,
     <1>13, <1>14, <1>15 DEF DeviceNext, Up

-----------------------------------------------------------------------------
(* The steps of RxPath. *)
Runs == DevicePoll \/ DeviceNic \/ DeviceInterrupt

LEMMA RunsAreNext ==
  ASSUME Runs
  PROVE  Next /\ UNCHANGED <<at, held, reset, open, slot, downed>>
BY DEF Runs, DevicePoll, DeviceNic, DeviceInterrupt, Next, Nic, lifeVars, faultVars

LEMMA DeviceTypeStep ==
  ASSUME TypeOK, [DeviceNext]_deviceVars
  PROVE  TypeOK'
<1>1. CASE Runs
  BY <1>1, RunsAreNext, TypeStep
<1>2. CASE UNCHANGED vars
  BY <1>2, TypeStep
<1>3. CASE Reload
  <2>1. /\ desc' = [i \in Slots |-> NULL] /\ dma' = desc' /\ prod' = 0 /\ cons' = 0
        /\ UNCHANGED <<owned, ppc, cur, repoll, header, pageAddr, pageStatus, turn,
                       avail, curAddr, send, irq>>
    BY <1>3 DEF Reload, regVars, nicVars
  <2> QED
    BY <2>1, ZeroInSlots DEF TypeOK
<1>4. CASE UpReset
  <2>1. /\ UNCHANGED <<desc, prod, cons, dma, owned, ppc, cur, repoll, header, pageAddr,
                       curAddr, irq>>
        /\ \/ UNCHANGED <<pageStatus, turn, avail, send>>
           \/ /\ pageStatus' = [i \in Slots |-> FALSE]
              /\ turn' = 0 /\ avail' = FALSE /\ send' = "idle"
    BY <1>4 DEF UpReset, regVars, nicVars, ringVars, hostVars
  <2> QED
    BY <2>1, ZeroInSlots DEF TypeOK
<1>5. CASE UpAlloc
  <2>1. /\ UNCHANGED <<ppc, cur, repoll, pageAddr, pageStatus, turn, avail, curAddr,
                       send, irq>>
        /\ prod' = 0 /\ cons' = 0 /\ dma' = desc'
        /\ desc' \in [Slots -> Page \ owned]
        /\ owned' = owned \cup {desc'[i] : i \in Slots}
    BY <1>5 DEF UpAlloc, regVars, nicVars
  <2>2. desc' \in [Slots -> Page]
    BY <2>1
  <2>3. {desc'[i] : i \in Slots} \subseteq Page
    BY <2>2
  <2>4. header' \in SUBSET Page
    <3> DEFINE new == {desc'[i] : i \in Slots}
    <3>1. \E h \in IF Coherent THEN {{}} ELSE SUBSET new : header' = (header \ new) \cup h
      BY <1>5 DEF UpAlloc
    <3>2. PICK h \in SUBSET new : header' = (header \ new) \cup h
      BY <3>1
    <3> QED
      BY <3>2, <2>3 DEF TypeOK
  <2> QED
    BY <2>1, <2>2, <2>3, <2>4, ZeroInSlots DEF TypeOK
<1>6. CASE UpAllocFails
  <2>1. /\ UNCHANGED <<owned, ppc, cur, repoll, header, pageAddr, pageStatus, turn,
                       avail, curAddr, send, irq>>
        /\ prod' = 0 /\ cons' = 0
    BY <1>6 DEF UpAllocFails, regVars, nicVars
  <2>2. desc' \in [Slots -> Page \cup {NULL}] /\ dma' \in [Slots -> Page \cup {NULL}]
    <3>1. CASE UNCHANGED <<desc, dma>>
      BY <3>1 DEF TypeOK
    <3>2. ASSUME NEW k \in Slots, NEW p \in [Slots -> Page \ owned],
                 /\ desc' = [i \in Slots |-> IF i < k THEN p[i]
                                            ELSE IF i = k THEN NULL ELSE desc[i]]
                 /\ dma' = [i \in Slots |-> IF i < k THEN p[i] ELSE dma[i]]
          PROVE  desc' \in [Slots -> Page \cup {NULL}] /\ dma' \in [Slots -> Page \cup {NULL}]
      BY <3>2 DEF TypeOK
    <3> QED
      BY <1>6, <3>1, <3>2 DEF UpAllocFails
  <2> QED
    BY <2>1, <2>2, ZeroInSlots DEF TypeOK
<1>7. CASE UpPost
  <2>1. /\ UNCHANGED <<desc, cons, dma, owned, ppc, cur, repoll, header, turn, avail,
                       curAddr, send, irq>>
        /\ pageAddr' = [pageAddr EXCEPT ![slot] = dma[slot]]
        /\ pageStatus' = [pageStatus EXCEPT ![slot] = TRUE]
        /\ prod' = Inc(prod)
    BY <1>7 DEF UpPost, nicVars, hostVars
  <2>2. pageAddr' \in [Slots -> Page \cup {NULL}] /\ pageStatus' \in [Slots -> BOOLEAN]
    BY <2>1 DEF TypeOK
  <2> QED
    BY <2>1, <2>2, IncInSlots DEF TypeOK
<1>8. CASE Down \/ Release
  <2>1. /\ UNCHANGED <<desc, prod, cons, dma, ppc, cur, repoll, header, pageAddr,
                       pageStatus, turn, avail, curAddr, send, irq>>
        /\ owned' \subseteq owned
    BY <1>8 DEF Down, Release, Drop, FreeBuffers, ringVars, regVars, nicVars
  <2> QED
    BY <2>1 DEF TypeOK
<1>9. CASE InterruptLost
  <2>1. /\ UNCHANGED <<desc, prod, cons, dma, owned, ppc, cur, repoll, header, pageAddr,
                       pageStatus, turn, avail, curAddr, send>>
        /\ irq' = FALSE
    BY <1>9 DEF InterruptLost, ringVars, regVars, hostVars
  <2> QED
    BY <2>1 DEF TypeOK
<1> QED
  BY <1>1, <1>2, <1>3, <1>4, <1>5, <1>6, <1>7, <1>8, <1>9
     DEF DeviceNext, Up, Runs, Probe, ProbeFails, Unwind, Remove, deviceVars

LEMMA DeviceIndexStep ==
  ASSUME TypeOK, LifeInv, DeviceIndex, open = "alloc" => DownInv, open = "post" => PostInv,
         [DeviceNext]_deviceVars
  PROVE  DeviceIndex'
<1>1. CASE Runs
  <2>1. [Next]_vars /\ open' = open
    BY <1>1, RunsAreNext
  <2> QED
    BY <2>1, IndexStep DEF DeviceIndex
<1>2. CASE UNCHANGED <<ringVars, ppc>> /\ open' \in {open, "down", "alloc"} /\ open # "post"
  BY <1>2 DEF DeviceIndex, IndexInv, Refilling, ringVars, Inc
<1>3. CASE Reload
  <2>1. /\ prod' = 0 /\ cons' = 0 /\ ppc' = ppc /\ ppc = "idle"
    BY <1>3 DEF Reload, LifeInv
  <2> QED
    BY <2>1 DEF DeviceIndex, IndexInv, Refilling
<1>4. CASE UpAlloc
  BY <1>4 DEF UpAlloc, DeviceIndex
<1>5. CASE UpAllocFails
  <2>1. /\ prod' = 0 /\ cons' = 0 /\ ppc' = ppc /\ open = "alloc"
    BY <1>5 DEF UpAllocFails
  <2> QED
    BY <2>1 DEF DeviceIndex, IndexInv, Refilling, DownInv, Lazy
<1>6. CASE UpPost
  <2>1. /\ prod' = Inc(prod) /\ cons' = cons /\ ppc' = ppc /\ open = "post"
        /\ open' = IF slot = N - 1 THEN "up" ELSE "post"
    BY <1>6 DEF UpPost, hostVars
  <2> QED
    BY <2>1 DEF DeviceIndex, IndexInv, Refilling, PostInv, Inc
<1>7. CASE UNCHANGED <<ringVars, ppc, open>>
  BY <1>7 DEF DeviceIndex, IndexInv, Refilling, ringVars, Inc
<1>8. CASE Down \/ Release \/ UpReset
  <2>1. UNCHANGED <<ringVars, ppc>> /\ open' \in {open, "down", "alloc"}
    BY <1>8 DEF Down, Release, Drop, FreeBuffers, UpReset, hostVars
  <2>2. open # "post"
    BY <1>8 DEF Down, Release, UpReset, LifeInv
  <2> QED
    BY <2>1, <2>2, <1>2
<1>9. CASE Probe \/ ProbeFails \/ Unwind \/ Remove \/ InterruptLost \/ UNCHANGED deviceVars
  <2>1. UNCHANGED <<ringVars, ppc, open>>
    BY <1>9 DEF Probe, ProbeFails, Unwind, Remove, InterruptLost, deviceVars, vars,
       hostVars
  <2> QED
    BY <2>1, <1>7
<1> QED
  BY <1>1, <1>3, <1>4, <1>5, <1>6, <1>8, <1>9 DEF DeviceNext, Up, Runs

(* Nothing happens around a ring that is empty. *)
LEMMA DownRuns ==
  ASSUME TypeOK, LifeInv, IndexInv, DownInv, open \in {"down", "alloc"}, Runs,
         open = "alloc" => Clean
  PROVE  DownInv' /\ (dirty' => dirty) /\ (again' => again)
<1>0. UNCHANGED <<at, held, reset, open, slot, downed>>
  BY RunsAreNext
<1>1. CASE DevicePoll
  <2>1. ppc \in {"scheduled", "consume", "exit"} /\ ~(reset /\ "napi" \in held)
    BY <1>1 DEF DevicePoll, DownInv, Lazy, Quiet, Poll, PollTx, PollNothing,
       PollConsume, PollRefill, PollReady, PollDeliver, PollExit
  <2>2. "napi" \in held /\ ~reset
    BY <2>1 DEF LifeInv
  <2>3. \A i \in Slots : desc[i] = NULL
    BY <2>2 DEF DownInv
  <2>4. prod = cons /\ Empty
    BY <2>1, <2>3 DEF IndexInv, Refilling, Empty, TypeOK
  <2>5. PollTx \/ PollNothing \/ PollExit
    BY <1>1, <2>1, <2>4 DEF DevicePoll, Poll, PollConsume, PollRefill, PollReady,
       PollDeliver
  <2>6. UNCHANGED <<desc, owned, cur>> /\ ppc' \in {"consume", "exit", "scheduled", "idle"}
    BY <2>5 DEF PollTx, PollNothing, PollExit, ringVars
  <2>7. (dirty' => dirty) /\ (again' => again)
    BY <1>1, <2>1 DEF DevicePoll, Faulty
  <2> QED
    BY <1>0, <2>2, <2>6, <2>7 DEF DownInv, Lazy
<1>2. CASE DeviceNic
  <2>1. UNCHANGED <<desc, owned, cur, ppc, dirty, again>>
    BY <1>2 DEF DeviceNic, NicTake, NicOpen, NicClose, NicInterrupt, TxInterrupt,
       ringVars, hostVars, faultVars
  <2>2. reset /\ "napi" \in held => FALSE
    BY <1>2 DEF DownInv, Quiet, DeviceNic, NicTake, NicOpen, NicClose, NicInterrupt,
       TypeOK
  <2> QED
    BY <1>0, <2>1, <2>2 DEF DownInv, Lazy
<1>3. CASE DeviceInterrupt
  <2>1. /\ irq /\ "napi" \in held /\ UNCHANGED <<desc, owned, cur, dirty, again>>
        /\ ppc' = IF ppc = "idle" THEN "scheduled" ELSE ppc
    BY <1>3 DEF DeviceInterrupt, Interrupt, ringVars, faultVars
  <2>2. ~reset
    BY <2>1 DEF DownInv, Quiet
  <2> QED
    BY <1>0, <2>1, <2>2 DEF DownInv, Lazy
<1> QED
  BY <1>1, <1>2, <1>3 DEF Runs

LEMMA PostRuns ==
  ASSUME TypeOK, PostInv, open = "post", Runs
  PROVE  /\ PostInv' /\ (PostedInv => PostedInv')
         /\ (dirty' => dirty) /\ (again' => again)
<1>0. UNCHANGED <<at, held, reset, open, slot, downed>>
  BY RunsAreNext
<1>1. ~DevicePoll /\ ~DeviceInterrupt
  BY DEF PostInv, DevicePoll, DeviceInterrupt, Interrupt, Poll, PollTx, PollNothing,
     PollConsume, PollRefill, PollReady, PollDeliver, PollExit
<1>2. /\ NicTake \/ NicOpen
      /\ UNCHANGED <<dirty, again>>
  BY <1>1 DEF Runs, DeviceNic, NicInterrupt, PostInv, faultVars
<1>3. CASE NicTake
  <2>1. /\ ~avail /\ pageStatus[turn] /\ avail' = TRUE /\ curAddr' = pageAddr[turn]
        /\ UNCHANGED <<desc, prod, cons, dma, owned, ppc, cur, header, pageAddr,
                       pageStatus, turn, send, irq>>
    BY <1>3 DEF NicTake, ringVars, hostVars, regVars
  <2>2. PostInv'
    BY <1>0, <2>1 DEF PostInv
  <2>3. PostedInv => PostedInv'
    <3> HAVE PostedInv
    <3>1. EngineInv' /\ DmaSafe'
      BY <2>1 DEF PostedInv, EngineInv, PageSafe, DmaSafe, TypeOK
    <3>2. PageSafe'
      BY <2>1, <3>1 DEF PostedInv, PageSafe
    <3> QED
      BY <1>0, <2>1, <3>1, <3>2 DEF PostedInv
  <2> QED
    BY <1>2, <2>2, <2>3
<1>4. CASE NicOpen
  <2>1. /\ avail /\ send' = "open"
        /\ UNCHANGED <<desc, prod, cons, dma, owned, ppc, cur, header, pageAddr,
                       pageStatus, turn, avail, curAddr, irq>>
    BY <1>4 DEF NicOpen, ringVars, hostVars, regVars
  <2>2. PostInv'
    BY <1>0, <2>1 DEF PostInv
  <2>3. PostedInv => PostedInv'
    BY <1>0, <2>1 DEF PostedInv, EngineInv, PageSafe, DmaSafe
  <2> QED
    BY <1>2, <2>2, <2>3
<1> QED
  BY <1>2, <1>3, <1>4

LEMMA UpRuns ==
  ASSUME TypeOK, IndexInv, HeldInv, EngineInv, PageSafe, Runs, Clean'
  PROVE  HeldInv' /\ EngineInv' /\ PageSafe' /\ (again' => again)
<1>1. PollRefill => ~Faulty
  <2>1. CASE DevicePoll
    BY <2>1 DEF DevicePoll, Clean
  <2>2. CASE DeviceNic
    BY <2>2 DEF DeviceNic, NicTake, NicOpen, NicClose, NicInterrupt, TxInterrupt,
       hostVars, PollRefill
  <2>3. CASE DeviceInterrupt
    BY <2>3 DEF DeviceInterrupt, Interrupt, PollRefill
  <2> QED
    BY <2>1, <2>2, <2>3 DEF Runs
<1>2. HeldInv' /\ EngineInv' /\ PageSafe'
  BY <1>1, RunsAreNext, PageStep
<1>3. again' => again
  <2>1. ppc = "deliver" => cur \in owned
    BY DEF HeldInv, PageSafe
  <2> QED
    BY <2>1 DEF Runs, DevicePoll, DeviceNic, DeviceInterrupt, faultVars
<1> QED
  BY <1>2, <1>3

(* A step of the poll or of the NIC. *)
LEMMA DRuns ==
  ASSUME DInv, Runs, TypeOK', LifeInv', DeviceIndex'
  PROVE  DInv'
<1>1. UNCHANGED <<at, held, reset, open, slot, downed>>
  BY RunsAreNext
<1>2. dirty => dirty'
  BY DEF Runs, DevicePoll, DeviceNic, DeviceInterrupt, faultVars
<1>3. Clean' => Clean
  BY <1>1, <1>2 DEF Clean
<1>4. CASE open \in {"down", "alloc"}
  <2>1. CASE DownInv
    <3>1. DownInv' /\ (dirty' => dirty) /\ (again' => again)
      BY <1>4, <2>1, DownRuns DEF DInv, DeviceIndex
    <3> QED
      BY <1>1, <1>3, <1>4, <3>1 DEF DInv, Clean
  <2>2. CASE ~DownInv
    BY <1>1, <1>3, <1>4, <2>2 DEF DInv
  <2> QED
    BY <2>1, <2>2
<1>5. CASE open = "post"
  <2>1. PostInv' /\ (PostedInv => PostedInv') /\ (again' => again)
    BY <1>5, PostRuns DEF DInv
  <2> QED
    BY <1>1, <1>3, <1>5, <2>1 DEF DInv
<1>6. CASE open = "up"
  <2>1. Clean' => HeldInv' /\ EngineInv' /\ PageSafe' /\ ~again'
    BY <1>3, <1>6, UpRuns DEF DInv, DeviceIndex
  <2> QED
    BY <1>1, <1>6, <2>1 DEF DInv
<1> QED
  BY <1>4, <1>5, <1>6 DEF DInv, LifeInv

LEMMA DReset ==
  ASSUME DInv, UpReset, TypeOK', LifeInv', DeviceIndex'
  PROVE  DInv'
<1>1. /\ open = "down" /\ ppc = "idle" /\ ~irq /\ Clean /\ open' = "alloc" /\ reset' = TRUE
      /\ at = "bound"
      /\ UNCHANGED <<desc, owned, cur, ppc, irq, held, dirty, downed, again>>
      /\ \/ reset /\ UNCHANGED <<pageStatus, avail, send, turn>>
         \/ /\ pageStatus' = [i \in Slots |-> FALSE]
            /\ turn' = 0 /\ avail' = FALSE /\ send' = "idle"
  BY DEF UpReset, ringVars, hostVars, regVars, nicVars, faultVars
<1>2. DownInv /\ ~again /\ "napi" \in held
  BY <1>1 DEF DInv, LifeInv
<1>3. Quiet'
  BY <1>1, <1>2 DEF DownInv, Quiet
<1>4. DownInv' /\ Clean'
  BY <1>1, <1>2, <1>3 DEF DownInv, Lazy, Clean
<1> QED
  BY <1>1, <1>2, <1>4 DEF DInv

LEMMA DAlloc ==
  ASSUME DInv, UpAlloc, TypeOK', LifeInv', DeviceIndex'
  PROVE  DInv'
<1>1. /\ open = "alloc" /\ open' = "post" /\ slot' = 0 /\ prod' = 0 /\ cons' = 0
      /\ desc' \in [Slots -> Page \ owned]
      /\ \A i, j \in Slots : desc'[i] = desc'[j] => i = j
      /\ dma' = desc' /\ owned' = owned \cup {desc'[i] : i \in Slots}
      /\ \E h \in SUBSET {desc'[i] : i \in Slots} :
           /\ header' = (header \ {desc'[i] : i \in Slots}) \cup h
           /\ dirty' = (dirty \/ h # {})
      /\ UNCHANGED <<ppc, cur, pageAddr, pageStatus, turn, avail, curAddr, send, irq,
                     at, held, reset, downed, again>>
  BY DEF UpAlloc, regVars, nicVars, lifeVars
<1>2. Clean /\ owned = {} /\ cur = NULL /\ reset /\ "napi" \in held
  BY <1>1 DEF DInv, DownInv, Lazy, LifeInv
<1>3. Quiet /\ ~again
  BY <1>1, <1>2 DEF DInv, DownInv
<1>4. PostInv'
  BY <1>1, <1>2, <1>3, ZeroInSlots DEF PostInv, Quiet
<1>5. Clean' => PostedInv'
  <2> HAVE Clean'
  <2>1. header' = header \ {desc'[i] : i \in Slots}
    BY <1>1 DEF Clean
  <2>2. NULL \notin Page
    BY ConstantsAssumption
  <2>3. \A i \in Slots : desc'[i] # NULL /\ desc'[i] \notin header'
    BY <1>1, <2>1, <2>2
  <2>4. \A i \in Slots : ~pageStatus'[i]
    BY <1>1, <1>3 DEF Quiet
  <2>5. ~avail' /\ send' # "open" /\ cur' = NULL
    BY <1>1, <1>2, <1>3 DEF Quiet
  <2>6. owned' = ({desc'[i] : i \in Slots} \cup {cur'}) \ {NULL}
    BY <1>1, <1>2, <2>3, <2>5
  <2>7. PageSafe' /\ EngineInv'
    BY <1>1, <2>4, <2>5, <2>6 DEF PageSafe, DmaSafe, EngineInv
  <2> QED
    BY <1>1, <2>3, <2>4, <2>7 DEF PostedInv
<1>6. Clean' => ~again'
  BY <1>1, <1>3
<1> QED
  BY <1>1, <1>4, <1>5, <1>6 DEF DInv

LEMMA DAllocFails ==
  ASSUME DInv, UpAllocFails, TypeOK', LifeInv', DeviceIndex'
  PROVE  DInv'
<1>1. /\ open = "alloc" /\ open' = "down"
      /\ UNCHANGED <<owned, ppc, cur, pageStatus, turn, avail, send, irq,
                     held, reset, dirty, downed, again>>
  BY DEF UpAllocFails, regVars, nicVars, lifeVars, faultVars
<1>2. DownInv /\ Clean /\ reset /\ ~again
  BY <1>1 DEF DInv, LifeInv
<1>3. DownInv'
  BY <1>1, <1>2 DEF DownInv, Lazy, Quiet
<1> QED
  BY <1>1, <1>2, <1>3 DEF DInv

LEMMA DPost ==
  ASSUME DInv, UpPost, TypeOK', LifeInv', DeviceIndex'
  PROVE  DInv'
<1>1. /\ open = "post"
      /\ pageAddr' = [pageAddr EXCEPT ![slot] = dma[slot]]
      /\ pageStatus' = [pageStatus EXCEPT ![slot] = TRUE]
      /\ prod' = Inc(prod) /\ slot' = slot + 1
      /\ open' = IF slot = N - 1 THEN "up" ELSE "post"
      /\ UNCHANGED <<desc, cons, dma, owned, ppc, cur, header, turn, avail, curAddr,
                     send, irq, dirty, downed, again>>
  BY DEF UpPost, hostVars, nicVars, faultVars
<1>2. PostInv /\ slot \in Slots /\ TypeOK
  BY <1>1 DEF DInv, PostInv
<1>3. open' = "post" => PostInv'
  BY <1>1, <1>2, RingAssumption DEF PostInv, Slots, Inc
<1>4. Clean' => PostedInv /\ ~again'
  BY <1>1 DEF DInv, Clean
<1>5. ASSUME PostedInv
      PROVE  PageSafe' /\ EngineInv' /\ (\A i \in Slots : desc'[i] # NULL)
  <2>1. pageAddr'[slot] = desc[slot] /\ pageStatus'[slot] = TRUE
    BY <1>1, <1>2, <1>5 DEF PostedInv, TypeOK
  <2>2. \A i \in Slots : i # slot =>
          pageAddr'[i] = pageAddr[i] /\ pageStatus'[i] = pageStatus[i]
    BY <1>1, <1>2 DEF TypeOK
  <2>3. ~pageStatus[slot]
    BY <1>2, <1>5 DEF PostedInv, Slots
  <2>4. avail => turn # slot
    BY <1>5, <2>3 DEF PostedInv, PageSafe
  <2>5. desc[slot] \in owned \ {cur}
    BY <1>2, <1>5 DEF PostedInv, PageSafe, PostInv
  <2>6. DmaSafe'
    BY <1>1, <1>5, <2>1, <2>2, <2>5 DEF PostedInv, PageSafe, DmaSafe
  <2>7. turn \in Slots
    BY <1>2 DEF TypeOK
  <2>8. \A i \in Slots : pageStatus'[i] =>
           pageAddr'[i] = desc'[i] /\ desc'[i] \notin header'
    BY <1>1, <1>5, <2>1, <2>2 DEF PostedInv, PageSafe
  <2>9. avail' => pageStatus'[turn'] /\ curAddr' = pageAddr'[turn']
    BY <1>1, <1>5, <2>2, <2>4, <2>7 DEF PostedInv, PageSafe
  <2>10. PageSafe'
    BY <1>1, <1>5, <2>6, <2>8, <2>9 DEF PostedInv, PageSafe
  <2> QED
    BY <1>1, <1>5, <2>10 DEF PostedInv, EngineInv
<1>6. Clean' /\ open' = "post" => PostedInv'
  <2> HAVE Clean' /\ open' = "post"
  <2>1. PostedInv
    BY <1>4
  <2>2. \A i \in Slots : pageStatus'[i] => i < slot'
    BY <1>1, <1>2, <2>1 DEF PostedInv, TypeOK, Slots
  <2> QED
    BY <1>1, <1>5, <2>1, <2>2 DEF PostedInv
<1>7. Clean' /\ open' = "up" => HeldInv' /\ EngineInv' /\ PageSafe'
  <2> HAVE Clean' /\ open' = "up"
  <2>1. PageSafe' /\ EngineInv' /\ (\A i \in Slots : desc'[i] # NULL)
    BY <1>4, <1>5
  <2>2. HeldInv'
    BY <1>1, <1>2, <2>1 DEF HeldInv, PostInv
  <2> QED
    BY <2>1, <2>2
<1>8. open' \in {"post", "up"}
  BY <1>1
<1> QED
  BY <1>3, <1>4, <1>6, <1>7, <1>8 DEF DInv

LEMMA DDown ==
  ASSUME DInv, Down, TypeOK', LifeInv', DeviceIndex'
  PROVE  DInv'
<1>1. downed' = TRUE /\ open' = "down"
  BY DEF Down, FreeBuffers
<1> QED
  BY <1>1 DEF DInv, Clean

(* The net device is released when napi is gone, and with it the poll: the *)
(* pages of the descriptors are then all there are.                        *)
LEMMA DRelease ==
  ASSUME DInv, Release, TypeOK', LifeInv', DeviceIndex'
  PROVE  DInv'
<1> DEFINE r == FirstHeld
<1>1. /\ at = "remove" /\ held' = held \ {r}
      /\ UNCHANGED <<desc, prod, cons, dma, ppc, cur, header, pageAddr, pageStatus,
                     turn, avail, curAddr, send, irq, reset, dirty, downed>>
  BY DEF Release, Drop, ringVars, regVars, nicVars
<1>2. open \in {"down", "up"} /\ (Clean' <=> Clean)
  BY <1>1 DEF DInv, LifeInv, Clean
<1>3. CASE r = "netdev" /\ open = "up"
  <2>1. /\ owned' = owned \ ({desc[i] : i \in Slots} \ {NULL})
        /\ again' = (again \/ ~({desc[i] : i \in Slots} \ {NULL} \subseteq owned))
        /\ open' = "down"
    BY <1>3 DEF Release, Drop, FreeBuffers
  <2>2. "napi" \notin held
    BY <1>3, NapiFirst DEF DInv, LifeInv
  <2>3. ppc = "idle" /\ reset
    BY <1>3, <2>2 DEF DInv, LifeInv
  <2>4. Clean => HeldInv /\ PageSafe /\ ~again
    BY <1>3 DEF DInv
  <2>5. Clean => cur = NULL /\ owned = {desc[i] : i \in Slots} \ {NULL}
    BY <2>3, <2>4 DEF HeldInv, PageSafe
  <2>6. Clean => owned' = {} /\ ~again'
    BY <2>1, <2>4, <2>5
  <2>7. Clean => DownInv'
    BY <1>1, <2>2, <2>3, <2>5, <2>6 DEF DownInv, Lazy
  <2> QED
    BY <1>2, <2>1, <2>6, <2>7 DEF DInv
<1>4. CASE ~(r = "netdev" /\ open = "up")
  <2>1. UNCHANGED <<owned, again, open>>
    BY <1>4 DEF Release, Drop
  <2>2. "napi" \in held' => "napi" \in held
    BY <1>1
  <2>3. DownInv => DownInv'
    BY <1>1, <2>1, <2>2 DEF DownInv, Lazy, Quiet
  <2>4. HeldInv /\ EngineInv /\ PageSafe => HeldInv' /\ EngineInv' /\ PageSafe'
    BY <1>1, <2>1 DEF HeldInv, EngineInv, PageSafe, DmaSafe
  <2> QED
    BY <1>2, <2>1, <2>3, <2>4 DEF DInv
<1> QED
  BY <1>3, <1>4

(* Steps of the life that touch neither ring nor NIC. *)
LEMMA DStill ==
  ASSUME DInv, Probe \/ ProbeFails \/ Unwind \/ Remove \/ UNCHANGED deviceVars,
         TypeOK', LifeInv', DeviceIndex'
  PROVE  DInv'
<1>1. UNCHANGED <<vars, reset, open, slot, faultVars>>
  BY DEF Probe, ProbeFails, Unwind, Remove, deviceVars, lifeVars
<1>2. UNCHANGED <<desc, prod, cons, dma, owned, ppc, cur, header, pageAddr, pageStatus,
                  turn, avail, curAddr, send, irq, reset, open, slot, dirty, downed,
                  again>>
  BY <1>1 DEF vars, ringVars, hostVars, regVars, nicVars, faultVars
<1>3. reset /\ "napi" \in held' => "napi" \in held
  <2>1. CASE Probe
    BY <1>2, <2>1, ProbeNotReset DEF DInv
  <2>2. CASE ProbeFails \/ Unwind \/ Remove \/ UNCHANGED deviceVars
    BY <2>2 DEF ProbeFails, Unwind, Remove, deviceVars, lifeVars
  <2> QED
    BY <2>1, <2>2
<1>4. DownInv => DownInv'
  BY <1>2, <1>3 DEF DownInv, Lazy, Quiet
<1>5. PostInv => PostInv'
  BY <1>2 DEF PostInv
<1>6. PostedInv => PostedInv'
  BY <1>2 DEF PostedInv, EngineInv, PageSafe, DmaSafe
<1>7. HeldInv /\ EngineInv /\ PageSafe => HeldInv' /\ EngineInv' /\ PageSafe'
  BY <1>2 DEF HeldInv, EngineInv, PageSafe, DmaSafe
<1>8. Clean' <=> Clean
  BY <1>2 DEF Clean
<1> QED
  BY <1>2, <1>4, <1>5, <1>6, <1>7, <1>8 DEF DInv

(* The module loaded again finds nothing of the one before. *)
LEMMA DReload ==
  ASSUME DInv, Reload, TypeOK', LifeInv', DeviceIndex'
  PROVE  DInv'
<1>1. /\ at = "gone" /\ reset' = FALSE /\ desc' = [i \in Slots |-> NULL]
      /\ UNCHANGED <<owned, ppc, cur, open, dirty, downed, again>>
  BY DEF Reload, faultVars
<1>2. open = "down"
  BY <1>1 DEF DInv, LifeInv
<1>3. Clean' => DownInv' /\ ~again'
  BY <1>1, <1>2 DEF DInv, Clean, DownInv, Lazy
<1> QED
  BY <1>1, <1>2, <1>3 DEF DInv

LEMMA DLost ==
  ASSUME DInv, InterruptLost, TypeOK', LifeInv', DeviceIndex'
  PROVE  DInv'
<1>1. /\ irq /\ "napi" \notin held /\ irq' = FALSE
      /\ UNCHANGED <<desc, prod, cons, dma, owned, ppc, cur, header, pageAddr,
                     pageStatus, turn, avail, curAddr, send, held, reset, open, slot,
                     dirty, downed, again>>
  BY DEF InterruptLost, ringVars, hostVars, regVars, lifeVars, faultVars
<1>2. DownInv => DownInv'
  BY <1>1 DEF DownInv, Lazy, Quiet
<1>3. PostInv => PostInv'
  BY <1>1 DEF PostInv
<1>4. PostedInv => PostedInv'
  BY <1>1 DEF PostedInv, EngineInv, PageSafe, DmaSafe
<1>5. HeldInv /\ EngineInv /\ PageSafe => HeldInv' /\ EngineInv' /\ PageSafe'
  BY <1>1 DEF HeldInv, EngineInv, PageSafe, DmaSafe
<1>6. Clean' <=> Clean
  BY <1>1 DEF Clean
<1> QED
  BY <1>1, <1>2, <1>3, <1>4, <1>5, <1>6 DEF DInv

LEMMA DStep == DInv /\ [DeviceNext]_deviceVars => DInv'
<1> SUFFICES ASSUME DInv, [DeviceNext]_deviceVars
             PROVE  DInv'
  OBVIOUS
<1>1. TypeOK' /\ LifeInv' /\ DeviceIndex'
  <2>1. open = "alloc" => DownInv
    BY DEF DInv
  <2>2. open = "post" => PostInv
    BY DEF DInv
  <2> QED
    BY <2>1, <2>2, DeviceTypeStep, LifeStep, DeviceIndexStep DEF DInv
<1>2. CASE Probe \/ ProbeFails \/ Unwind \/ Remove \/ UNCHANGED deviceVars
  BY <1>1, <1>2, DStill
<1>3. CASE Reload \/ InterruptLost
  BY <1>1, <1>3, DReload, DLost
<1>4. CASE Up
  BY <1>1, <1>4, DReset, DAlloc, DAllocFails, DPost DEF Up
<1>5. CASE Down \/ Release
  BY <1>1, <1>5, DDown, DRelease
<1>6. CASE Runs
  BY <1>1, <1>6, DRuns
<1> QED
  BY <1>2, <1>3, <1>4, <1>5, <1>6 DEF DeviceNext, Runs

LEMMA DInit == DeviceInit => DInv
<1> SUFFICES ASSUME DeviceInit PROVE DInv
  OBVIOUS
<1> USE DEF DeviceInit
<1>1. TypeOK
  BY ZeroInSlots DEF TypeOK
<1>2. LifeInv
  BY DEF LifeInv, Resource
<1>3. DeviceIndex
  BY DEF DeviceIndex, IndexInv, Refilling
<1>4. DownInv
  BY DEF DownInv, Lazy
<1> QED
  BY <1>1, <1>2, <1>3, <1>4 DEF DInv

LEMMA DeviceInductive == DeviceSpec => []DInv
BY DInit, DStep, PTL DEF DeviceSpec

-----------------------------------------------------------------------------
(* Whatever was loaded, failed and removed before, an interface that comes *)
(* up has a whole ring and shares no page with the NIC (unless a page was  *)
(* not had or not zeroed, or nf10_down ran on its own).                    *)
THEOREM UpIsSafe == DeviceSpec => []UpSafe
<1>1. DInv => UpSafe
  <2> SUFFICES ASSUME DInv, Clean
               PROVE  /\ open \in {"post", "up"} => PageSafe
                      /\ open = "up" => RxRingExact
    BY DEF UpSafe
  <2>1. open \in {"post", "up"} => PageSafe
    BY DEF DInv, PostedInv
  <2>2. open = "up" => RxRingExact
    BY RingFromIndices DEF DInv, DeviceIndex
  <2> QED
    BY <2>1, <2>2
<1> QED
  BY <1>1, DeviceInductive, PTL

(* With the same exceptions no page is freed twice, by whatever sequence   *)
(* of failures, ups and removals, and a driver that is gone left none.     *)
THEOREM EachPageFreedOnce == DeviceSpec => []FreedOnce
<1>1. DInv => FreedOnce
  BY DEF DInv, LifeInv, DownInv, FreedOnce
<1> QED
  BY <1>1, DeviceInductive, PTL

(* Nor is a NULL kern_addr ever followed in all of the driver's life.      *)
THEOREM NullNeverFollowedInLife == DeviceSpec => []NoNullHeader
<1>1. DInv => NoNullHeader
  <2> SUFFICES ASSUME DInv, ppc = "consume" PROVE prod = cons
    BY DEF NoNullHeader, Empty
  <2>1. open # "post"
    BY DEF DInv, PostInv
  <2> QED
    BY <2>1 DEF DInv, DeviceIndex, IndexInv, Refilling
<1> QED
  BY <1>1, DeviceInductive, PTL

-----------------------------------------------------------------------------
(* Reception while the interface is up.                                    *)

(* While pages are posted those behind slot are; and as long as nothing    *)
(* failed the ring of an interface that is up is in order.                 *)
LifeOrder ==
  Clean => /\ open = "post" => \A i \in Slots : pageStatus[i] <=> i < slot
           /\ open = "up" => SomeOrder

(* The step a driver that is up takes, or takes to be up.                  *)
Serves ==
  Clean' /\ open' = "up" =>
    IF open = "up" THEN [Service!Next]_<<ArmedList, FullList>> ELSE Service!Init'

IsUp == DInv /\ Clean /\ open = "up"

LEMMA UpWhole == IsUp => WholeInv
BY DEF IsUp, DInv, DeviceIndex, WholeInv

(* Then the refinement mapping is what OrderInv says.                      *)
LEMMA UpSeen == IsUp => Seen
BY UpWhole, SeenAlways

(* The state in which the interface comes up.                              *)
Fresh == /\ WholeInv /\ turn = 0 /\ cons = 0 /\ cur = NULL /\ ~Refilling
         /\ \A i \in Slots : pageStatus[i]

LEMMA FreshServes == Fresh => Service!Init /\ SomeOrder
BY OrderBegins, ServiceBegins DEF Fresh, SomeOrder

LEMMA CleanBefore == [DeviceNext]_deviceVars /\ Clean' => Clean
<1> SUFFICES ASSUME [DeviceNext]_deviceVars, Clean' PROVE Clean
  OBVIOUS
<1>1. CASE Probe \/ ProbeFails \/ Unwind \/ Reload \/ Remove \/ UNCHANGED deviceVars
  BY <1>1 DEF Probe, ProbeFails, Unwind, Reload, Remove, deviceVars, faultVars, Clean
<1>2. CASE Up
  <2>1. CASE UpReset \/ UpAllocFails \/ UpPost
    BY <2>1 DEF UpReset, UpAllocFails, UpPost, faultVars, Clean
  <2>2. CASE UpAlloc
    <3>1. (\E h : dirty' = (dirty \/ h # {})) /\ downed' = downed
      BY <2>2 DEF UpAlloc
    <3> QED BY <3>1 DEF Clean
  <2> QED BY <1>2, <2>1, <2>2 DEF Up
<1>3. CASE Down \/ Release
  BY <1>3 DEF Down, Release, Drop, Clean
<1>4. CASE DevicePoll
  BY <1>4 DEF DevicePoll, Clean
<1>5. CASE DeviceNic \/ DeviceInterrupt \/ InterruptLost
  BY <1>5 DEF DeviceNic, DeviceInterrupt, InterruptLost, faultVars, Clean
<1> QED
  BY <1>1, <1>2, <1>3, <1>4, <1>5 DEF DeviceNext

(* What keeps the ring and what the NIC serves keeps the two lists.        *)
LEMMA SameLists ==
  ASSUME DInv, DInv', LifeOrder,
         UNCHANGED <<desc, cons, turn, pageStatus, ppc, cur, open, slot, dirty, downed>>
  PROVE  LifeOrder' /\ Serves
<1>1. ASSUME NEW f PROVE OrderInv(f)' <=> OrderInv(f)
  <2>1. RingLength' = RingLength /\ \A k : SlotAt(cons, k)' = SlotAt(cons, k)
    BY DEF RingLength, Refilling, SlotAt
  <2> QED BY <2>1 DEF OrderInv
<1>2. LifeOrder'
  BY <1>1 DEF LifeOrder, SomeOrder, Clean
<1>3. ASSUME Clean', open' = "up" PROVE UNCHANGED <<ArmedList, FullList>>
  <2>1. Clean /\ open = "up"
    BY <1>3 DEF Clean
  <2>2. PICK f : OrderInv(f)
    BY <2>1 DEF LifeOrder, SomeOrder
  <2>3. Seen /\ Seen'
    <3>1. IsUp' => Seen'
      BY UpSeen, PTL
    <3> QED BY <1>3, <2>1, <3>1, UpSeen DEF IsUp
  <2>4. ArmedPages(f)' = ArmedPages(f) /\ FilledPages(f)' = FilledPages(f)
    BY DEF ArmedPages, FilledPages, RingLength, Refilling, SlotAt
  <2> QED BY <1>1, <2>2, <2>3, <2>4 DEF Seen
<1> QED
  BY <1>2, <1>3 DEF Serves

(* The steps of RxPath, while pages are posted and when they are.          *)
LEMMA OrderRuns ==
  ASSUME DInv, DInv', LifeOrder, Runs, Clean' => Clean
  PROVE  LifeOrder' /\ Serves
<1>1. Next /\ UNCHANGED <<open, slot>>
  BY RunsAreNext
<1>2. CASE open = "up"
  <2> SUFFICES ASSUME Clean', open' = "up"
               PROVE  SomeOrder' /\ [Service!Next]_<<ArmedList, FullList>>
    BY <1>1, <1>2 DEF LifeOrder, Serves
  <2>1. WholeInv /\ SomeOrder
    BY <1>2, UpWhole DEF LifeOrder, IsUp
  <2>2. IsUp' => WholeInv'
    BY UpWhole, PTL
  <2>3. WholeInv'
    BY <2>2 DEF IsUp
  <2> QED BY <1>1, <2>1, <2>3, ServiceStep
<1>3. CASE open = "post"
  <2>1. PostInv
    BY <1>3 DEF DInv
  <2>2. ~DevicePoll /\ ~DeviceInterrupt
    BY <2>1 DEF PostInv, DevicePoll, DeviceInterrupt, Interrupt, Poll, PollTx,
       PollNothing, PollConsume, PollRefill, PollReady, PollDeliver, PollExit
  <2>3. UNCHANGED pageStatus
    BY <1>3, <2>2 DEF Runs, DeviceNic, NicTake, NicOpen, NicInterrupt, regVars
  <2> QED BY <1>1, <1>3, <2>3 DEF LifeOrder, Serves
<1>4. CASE open \notin {"post", "up"}
  BY <1>1, <1>4 DEF LifeOrder, Serves
<1> QED
  BY <1>2, <1>3, <1>4

(* The last page that is posted completes the order.                       *)
LEMMA OrderPost ==
  ASSUME DInv, DInv', LifeOrder, UpPost, Clean' => Clean
  PROVE  LifeOrder' /\ Serves
<1>1. /\ open = "post"
      /\ pageStatus' = [pageStatus EXCEPT ![slot] = TRUE]
      /\ slot' = slot + 1
      /\ open' = IF slot = N - 1 THEN "up" ELSE "post"
      /\ UNCHANGED <<cons, ppc, cur, turn>>
  BY DEF UpPost, hostVars, nicVars
<1>2. /\ slot \in Slots /\ turn = 0 /\ cons = 0 /\ ppc = "idle" /\ cur = NULL
      /\ pageStatus \in [Slots -> BOOLEAN] /\ N \in Nat \ {0}
  BY <1>1, RingAssumption DEF DInv, PostInv, TypeOK
<1>3. ASSUME Clean' PROVE \A i \in Slots : pageStatus'[i] <=> i < slot + 1
  <2>1. \A i \in Slots : pageStatus[i] <=> i < slot
    BY <1>1, <1>3 DEF LifeOrder
  <2>2. \A i \in Slots : pageStatus'[i] <=> i = slot \/ i < slot
    BY <1>1, <1>2, <2>1
  <2>3. \A i \in Slots : i < slot + 1 <=> i = slot \/ i < slot
    BY <1>2 DEF Slots
  <2> QED BY <2>2, <2>3
<1>4. CASE slot # N - 1
  BY <1>1, <1>3, <1>4 DEF LifeOrder, Serves
<1>5. CASE slot = N - 1
  <2> SUFFICES ASSUME Clean' PROVE SomeOrder' /\ Service!Init'
    BY <1>1, <1>5 DEF LifeOrder, Serves
  <2>1. \A i \in Slots : pageStatus'[i]
    BY <1>2, <1>3, <1>5 DEF Slots
  <2>2. turn' = 0 /\ cons' = 0 /\ cur' = NULL /\ ~Refilling' /\ open' = "up"
    BY <1>1, <1>2, <1>5 DEF Refilling
  <2>3. IsUp' => WholeInv'
    BY UpWhole, PTL
  <2>4. Fresh' => Service!Init' /\ SomeOrder'
    BY FreshServes, PTL
  <2>5. WholeInv'
    BY <2>2, <2>3 DEF IsUp
  <2> QED BY <2>1, <2>2, <2>4, <2>5 DEF Fresh
<1> QED
  BY <1>4, <1>5

LEMMA OrderLifeStep ==
  ASSUME DInv, DInv', LifeOrder, [DeviceNext]_deviceVars
  PROVE  LifeOrder' /\ Serves
<1>1. Clean' => Clean
  BY CleanBefore
<1>2. CASE Probe \/ ProbeFails \/ Unwind \/ Remove \/ UNCHANGED deviceVars
  <2>1. UNCHANGED <<vars, open, slot, faultVars>>
    BY <1>2 DEF Probe, ProbeFails, Unwind, Remove, deviceVars, lifeVars
  <2> QED
    BY <2>1, SameLists DEF vars, ringVars, hostVars, regVars, nicVars, faultVars
<1>3. CASE InterruptLost
  BY <1>3, SameLists
     DEF InterruptLost, ringVars, hostVars, regVars, lifeVars, faultVars
<1>4. CASE Reload
  <2>1. at = "gone" /\ open' = open
    BY <1>4 DEF Reload
  <2>2. open = "down"
    BY <2>1 DEF DInv, LifeInv
  <2> QED BY <2>1, <2>2 DEF LifeOrder, Serves
<1>5. CASE UpReset \/ UpAllocFails \/ Down
  BY <1>5 DEF UpReset, UpAllocFails, Down, FreeBuffers, LifeOrder, Serves
<1>6. CASE UpAlloc
  <2>1. /\ open = "alloc" /\ open' = "post" /\ slot' = 0
        /\ UNCHANGED pageStatus
    BY <1>6 DEF UpAlloc, regVars
  <2>2. Quiet
    BY <2>1 DEF DInv, LifeInv, DownInv
  <2>3. \A i \in Slots : ~pageStatus'[i] /\ ~(i < 0)
    BY <2>1, <2>2 DEF Quiet, Slots
  <2> QED BY <2>1, <2>3 DEF LifeOrder, Serves
<1>7. CASE UpPost
  BY <1>1, <1>7, OrderPost
<1>8. CASE Release
  <2>1. /\ UNCHANGED <<desc, cons, turn, pageStatus, ppc, cur, slot, dirty, downed>>
        /\ open' \in {open, "down"}
    BY <1>8 DEF Release, Drop, FreeBuffers, ringVars, regVars, nicVars
  <2>2. CASE open' = open
    BY <2>1, <2>2, SameLists
  <2>3. CASE open' = "down"
    BY <2>3 DEF LifeOrder, Serves
  <2> QED BY <2>1, <2>2, <2>3
<1>9. CASE Runs
  BY <1>1, <1>9, OrderRuns
<1> QED
  BY <1>2, <1>3, <1>4, <1>5, <1>6, <1>7, <1>8, <1>9 DEF DeviceNext, Up, Runs

(* Each time the interface comes up, whatever was loaded, failed and       *)
(* removed before, reception begins as its service does, and is its        *)
(* service as long as nothing fails and the interface is not taken down.   *)
THEOREM ReceptionServesWhileUp == DeviceSpec => ServesWhileUp
<1>1. DeviceInit => LifeOrder
  BY DEF DeviceInit, LifeOrder
<1>2. DInv /\ DInv' /\ LifeOrder /\ [DeviceNext]_deviceVars => LifeOrder' /\ Serves
  BY OrderLifeStep
<1>3. DeviceSpec => [][Serves]_deviceVars
  BY <1>1, <1>2, DeviceInductive, PTL DEF DeviceSpec
<1> QED
  BY <1>3 DEF ServesWhileUp, Serves
=============================================================================
