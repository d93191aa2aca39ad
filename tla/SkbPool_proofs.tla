--------------------------- MODULE SkbPool_proofs ---------------------------
(***************************************************************************)
(* Proofs about the pool, for pools, batches and pages of any size,        *)
(* whatever allocations fail: packets the poll has queued are never left   *)
(* without a worker to come; every skb is in one list, and none is lost,   *)
(* as long as every packet got one; the counter follows the list.          *)
(***************************************************************************)
EXTENDS SkbPool, Integers, FiniteSetTheorems, WellFoundedInduction, TLAPS

(* The worker is not pending any more only when it is about to look, and   *)
(* has looked only when it took the whole queue.                           *)
LEMMA PollKeeps ==
  ASSUME HandedUp, ~oops, PollPage \/ PollStep
  PROVE  HandedUp'
<1>1. CASE PollPage
  BY <1>1 DEF PollPage, HandedUp, rxVars, upVars
<1>2. CASE PollNext
  BY <1>2 DEF PollNext, HandedUp, rxVars, upVars
<1>3. CASE PollTake
  BY <1>3 DEF PollTake, AtEnd, HandedUp, rxVars, upVars
<1>4. CASE PollReset
  BY <1>4 DEF PollReset, HandedUp, rxVars, upVars
<1>5. CASE PollFallback
  BY <1>5 DEF PollFallback, AtEnd, HandedUp, rxVars, upVars
<1>6. CASE PollAdd
  BY <1>6 DEF PollAdd, HandedUp
<1>7. CASE PollQueue
  BY <1>7 DEF PollQueue, HandedUp
<1> QED
  BY <1>1, <1>2, <1>3, <1>4, <1>5, <1>6, <1>7 DEF PollStep

LEMMA UpKeeps ==
  ASSUME HandedUp, ~oops, Up
  PROVE  HandedUp'
<1>1. CASE UpStart
  BY <1>1 DEF UpStart, HandedUp
<1>2. CASE UpTake
  BY <1>2 DEF UpTake, HandedUp
<1>3. CASE UpDeliver
  BY <1>3 DEF UpDeliver, HandedUp, rxVars, pollVars
<1>4. CASE UpFree
  BY <1>4 DEF UpFree, HandedUp, rxVars, pollVars
<1> QED
  BY <1>1, <1>2, <1>3, <1>4 DEF Up

LEMMA OthersKeep ==
  ASSUME HandedUp, ~oops, Fill \/ Close
  PROVE  HandedUp'
<1>1. CASE Fill
  BY <1>1 DEF Fill, FillStart, FillBatch, FillEnough, FillAdd, FillCount, HandedUp,
              rxVars, pollVars, upVars
<1>2. CASE CloseQueue
  BY <1>2 DEF CloseQueue, HandedUp
<1>3. CASE CloseChain
  BY <1>3 DEF CloseChain, HandedUp, rxVars, pollVars, upVars
<1>4. CASE ClosePool \/ CloseWork
  BY <1>4 DEF ClosePool, CloseWork, HandedUp, rxVars, pollVars, upVars
<1> QED
  BY <1>1, <1>2, <1>3, <1>4 DEF Close

(* queue_work of deliver_packets (nf10_lbuf.c:504) is never lost against   *)
(* nf10_lbuf_rx_worker, which may have just found the queue empty.         *)
THEOREM NoPacketForgotten == PoolSpec => []HandedUp
<1>1. PoolInit => HandedUp
  BY DEF PoolInit, HandedUp
<1>2. HandedUp /\ [PoolNext]_poolVars => HandedUp'
  <2> SUFFICES ASSUME HandedUp, [PoolNext]_poolVars PROVE HandedUp'
    OBVIOUS
  <2>1. CASE PoolNext
    BY <2>1, PollKeeps, UpKeeps, OthersKeep DEF PoolNext
  <2>2. CASE UNCHANGED poolVars
    BY <2>2 DEF poolVars, rxVars, pollVars, upVars, HandedUp
  <2> QED
    BY <2>1, <2>2
<1> QED
  BY <1>1, <1>2, PTL DEF PoolSpec

-----------------------------------------------------------------------------
(* Lists. Every node points to one other at most; when none is pointed to  *)
(* twice, two lists with heads that nothing points to have nothing in      *)
(* common.                                                                 *)
Node == Entry \cup {Static}
Pointers == [Node -> Entry \cup {Null, Bad}]

Single(nx) == \A x, y \in Node : nx[x] = nx[y] /\ nx[x] \in Entry => x = y
IsHead(nx, e) == e \in Node /\ \A x \in Node : nx[x] # e

LEMMA NodeFacts ==
  /\ Null \notin Node /\ Bad \notin Node /\ Static \notin Entry /\ Null # Bad
  /\ \A e \in Entry : e \in Node /\ e \in Nat /\ e # Null /\ e # Bad
BY PoolAssumption DEF Node, Entry, Null, Bad, Static

LEMMA ReachIn ==
  ASSUME NEW nx \in Pointers, NEW e \in Node
  PROVE  /\ e \in Reach(nx, e)
         /\ Reach(nx, e) \subseteq Node
         /\ \A x \in Reach(nx, e) : nx[x] \in Entry => nx[x] \in Reach(nx, e)
<1>1. DOMAIN nx = Node
  BY DEF Pointers
<1>2. \A x \in Reach(nx, e) : nx[x] \in Entry => nx[x] \in Reach(nx, e)
  BY <1>1, NodeFacts DEF Reach, Closed
<1> QED
  BY <1>1, <1>2 DEF Reach

LEMMA ReachNone ==
  ASSUME NEW nx \in Pointers, NEW e, e \notin Node
  PROVE  Reach(nx, e) = {}
BY DEF Reach, Pointers

LEMMA ReachLeast ==
  ASSUME NEW nx \in Pointers, NEW e, NEW S, S \subseteq Node, e \in Node => e \in S,
         \A x \in S : nx[x] \in Entry => nx[x] \in S
  PROVE  Reach(nx, e) \subseteq S
BY DEF Reach, Closed, Pointers

(* A member is the head, or another one points to it. *)
LEMMA ReachFrom ==
  ASSUME NEW nx \in Pointers, NEW e, NEW x \in Reach(nx, e), x # e
  PROVE  \E y \in Reach(nx, e) : nx[y] = x
<1> SUFFICES ASSUME \A y \in Reach(nx, e) : nx[y] # x PROVE FALSE
  OBVIOUS
<1>1. e \in Node
  BY ReachNone
<1>2. Reach(nx, e) \subseteq Reach(nx, e) \ {x}
  <2> DEFINE S == Reach(nx, e) \ {x}
  <2>1. S \subseteq Node /\ e \in S /\ \A y \in S : nx[y] \in Entry => nx[y] \in S
    BY <1>1, ReachIn
  <2> HIDE DEF S
  <2>2. Reach(nx, e) \subseteq S
    BY <2>1, ReachLeast
  <2> QED
    BY <2>2 DEF S
<1> QED
  BY <1>2

LEMMA ReachEntries ==
  ASSUME NEW nx \in Pointers, NEW e, NEW x \in Reach(nx, e)
  PROVE  /\ x \in Node /\ e \in Node
         /\ x # e => x \in Entry
<1>1. e \in Node
  BY ReachNone
<1>2. x \in Node
  BY <1>1, ReachIn
<1>3. ASSUME x # e PROVE x # Static
  <2>1. PICK y \in Reach(nx, e) : nx[y] = x
    BY <1>3, ReachFrom
  <2> QED
    BY <1>1, <2>1, ReachIn, NodeFacts DEF Pointers, Bad, Static, Entry, Null
<1> QED
  BY <1>1, <1>2, <1>3 DEF Node

LEMMA ReachOf ==
  ASSUME NEW nx \in Pointers, NEW e, NEW x \in Reach(nx, e)
  PROVE  Reach(nx, x) \subseteq Reach(nx, e)
<1>1. e \in Node /\ x \in Node
  BY ReachEntries
<1> QED
  BY <1>1, ReachIn, ReachLeast

LEMMA ReachStep ==
  ASSUME NEW nx \in Pointers, NEW e \in Node
  PROVE  Reach(nx, e) = {e} \cup Reach(nx, nx[e])
<1>1. /\ nx[e] \in Entry \cup {Null, Bad}
      /\ Entry \subseteq Node
  BY NodeFacts DEF Pointers
<1>2. Reach(nx, e) \subseteq {e} \cup Reach(nx, nx[e])
  <2> DEFINE S == {e} \cup Reach(nx, nx[e])
  <2>1. S \subseteq Node
    BY ReachEntries
  <2>2. \A x \in S : nx[x] \in Entry => nx[x] \in S
    <3>1. nx[e] \in Entry => nx[e] \in Reach(nx, nx[e])
      BY <1>1, ReachIn
    <3>2. ASSUME NEW x \in Reach(nx, nx[e]), nx[x] \in Entry PROVE nx[x] \in Reach(nx, nx[e])
      BY <3>2, ReachEntries, ReachIn
    <3> QED
      BY <3>1, <3>2
  <2> HIDE DEF S
  <2>3. e \in S
    BY DEF S
  <2>4. Reach(nx, e) \subseteq S
    BY <2>1, <2>2, <2>3, ReachLeast
  <2> QED
    BY <2>4 DEF S
<1>3. Reach(nx, nx[e]) \subseteq Reach(nx, e)
  <2>1. CASE nx[e] \in Entry
    BY <2>1, ReachIn, ReachOf
  <2>2. CASE nx[e] \notin Entry
    BY <1>1, <2>2, ReachNone, NodeFacts
  <2> QED
    BY <2>1, <2>2
<1> QED
  BY <1>2, <1>3, ReachIn

(* A list of which no pointer changes. *)
LEMMA ReachSame ==
  ASSUME NEW nx \in Pointers, NEW mx \in Pointers, NEW e,
         \A x \in Reach(nx, e) : mx[x] = nx[x]
  PROVE  Reach(mx, e) = Reach(nx, e)
<1>1. CASE e \notin Node
  BY <1>1, ReachNone
<1>2. CASE e \in Node
  <2>1. /\ e \in Reach(nx, e) /\ Reach(nx, e) \subseteq Node
        /\ \A x \in Reach(nx, e) : nx[x] \in Entry => nx[x] \in Reach(nx, e)
    BY <1>2, ReachIn
  <2>2. Reach(mx, e) \subseteq Reach(nx, e)
    <3>1. \A x \in Reach(nx, e) : mx[x] \in Entry => mx[x] \in Reach(nx, e)
      BY <2>1
    <3> QED
      BY <2>1, <3>1, ReachLeast
  <2>3. /\ e \in Reach(mx, e) /\ Reach(mx, e) \subseteq Node
        /\ \A x \in Reach(mx, e) : mx[x] \in Entry => mx[x] \in Reach(mx, e)
    BY <1>2, ReachIn
  <2>4. Reach(nx, e) \subseteq Reach(mx, e)
    <3>1. \A x \in Reach(mx, e) : nx[x] \in Entry => nx[x] \in Reach(mx, e)
      BY <2>2, <2>3
    <3> QED
      BY <2>3, <3>1, ReachLeast
  <2> QED
    BY <2>2, <2>4
<1> QED
  BY <1>1, <1>2

(* Two lists with heads of their own. *)
LEMMA ReachApart ==
  ASSUME NEW nx \in Pointers, Single(nx), NEW a, NEW b, IsHead(nx, a), IsHead(nx, b), a # b
  PROVE  Reach(nx, a) \cap Reach(nx, b) = {}
<1>1. /\ a \in Node /\ b \in Node
      /\ \A x \in Node : nx[x] # a /\ nx[x] # b
  BY DEF IsHead
<1>2. a \notin Reach(nx, b)
  <2> SUFFICES ASSUME a \in Reach(nx, b) PROVE FALSE
    OBVIOUS
  <2>1. PICK y \in Reach(nx, b) : nx[y] = a
    BY ReachFrom
  <2> QED
    BY <1>1, <2>1, ReachEntries
<1>3. Reach(nx, a) \subseteq Reach(nx, a) \ Reach(nx, b)
  <2> DEFINE S == Reach(nx, a) \ Reach(nx, b)
  <2>1. S \subseteq Node /\ a \in S
    BY <1>1, <1>2, ReachIn
  <2>2. ASSUME NEW x \in S, nx[x] \in Entry PROVE nx[x] \in S
    <3>1. nx[x] \in Reach(nx, a) /\ x \in Node
      BY <1>1, <2>2, ReachIn
    <3>2. ASSUME nx[x] \in Reach(nx, b) PROVE FALSE
      <4>1. nx[x] # b
        BY <1>1, <3>1
      <4>2. PICK y \in Reach(nx, b) : nx[y] = nx[x]
        BY <3>2, <4>1, ReachFrom
      <4>3. y \in Node
        BY ReachEntries
      <4>4. x = y
        BY <2>2, <3>1, <4>2, <4>3 DEF Single
      <4> QED
        BY <4>4
    <3> QED
      BY <3>1, <3>2
  <2> HIDE DEF S
  <2>3. Reach(nx, a) \subseteq S
    BY <2>1, <2>2, ReachLeast
  <2> QED
    BY <2>3 DEF S
<1> QED
  BY <1>3

(* A list that begins with its head never comes back to a member. *)
LEMMA ReachForward ==
  ASSUME NEW nx \in Pointers, Single(nx), NEW a, IsHead(nx, a), NEW x \in Reach(nx, a)
  PROVE  x \notin Reach(nx, nx[x])
<1> DEFINE S == {y \in Reach(nx, a) : y \notin Reach(nx, nx[y])}
<1>1. a \in Node /\ (\A y \in Node : nx[y] # a) /\ \A y \in Reach(nx, a) : y \in Node
  BY ReachEntries DEF IsHead
<1>2. a \in S
  <2>1. ASSUME a \in Reach(nx, nx[a]) PROVE FALSE
    <3>1. PICK y \in Reach(nx, nx[a]) : nx[y] = a
      BY <1>1, <2>1, ReachFrom
    <3> QED
      BY <1>1, <3>1, ReachEntries
  <2> QED
    BY <1>1, <2>1, ReachIn
<1>3. ASSUME NEW y \in S, nx[y] \in Entry PROVE nx[y] \in S
  <2>1. PICK z : z = nx[y]
    OBVIOUS
  <2>2. z \in Reach(nx, a) /\ z \in Entry /\ z \in Node /\ y \in Node
    BY <1>1, <1>3, <2>1, ReachIn
  <2>3. Reach(nx, z) = {z} \cup Reach(nx, nx[z]) /\ y \notin Reach(nx, z)
    BY <2>1, <2>2, ReachStep
  <2>4. ASSUME z \in Reach(nx, nx[z]) PROVE FALSE
    <3>1. \E w \in Reach(nx, nx[z]) \cup {z} : nx[w] = z
      BY <2>4, ReachFrom
    <3>2. PICK w \in Reach(nx, z) : nx[w] = z
      BY <2>3, <3>1
    <3>3. w = y
      BY <2>1, <2>2, <3>2, ReachEntries DEF Single
    <3> QED
      BY <2>3, <3>2, <3>3
  <2> QED
    BY <2>1, <2>2, <2>4
<1> HIDE DEF S
<1>4. S \subseteq Node
  BY <1>1 DEF S
<1>5. Reach(nx, a) \subseteq S
  BY <1>2, <1>3, <1>4, ReachLeast
<1> QED
  BY <1>5 DEF S

(* A list put behind the last member of another one. *)
LEMMA ReachAppend ==
  ASSUME NEW nx \in Pointers, NEW e, NEW x \in Reach(nx, e), nx[x] = Null,
         NEW g \in Entry \cup {Null, Bad}, x \notin Reach(nx, g),
         NEW mx \in Pointers, mx[x] = g, \A y \in Node \ {x} : mx[y] = nx[y]
  PROVE  /\ Reach(mx, g) = Reach(nx, g)
         /\ Reach(mx, e) = Reach(nx, e) \cup Reach(nx, g)
<1>1. e \in Node /\ x \in Node /\ DOMAIN nx = Node /\ Null \notin Entry
  BY ReachEntries, NodeFacts DEF Pointers
<1>2. mx[x] = g /\ \A y \in Node : y # x => mx[y] = nx[y]
  BY <1>1
<1>3. Reach(mx, g) = Reach(nx, g)
  <2>1. \A y \in Reach(nx, g) : y \in Node
    BY ReachEntries
  <2>2. \A y \in Reach(nx, g) : mx[y] = nx[y]
    BY <1>2, <2>1
  <2> QED
    BY <2>2, ReachSame
<1>4. Reach(mx, e) \subseteq Reach(nx, e) \cup Reach(nx, g)
  <2> DEFINE S == Reach(nx, e) \cup Reach(nx, g)
  <2>1. S \subseteq Node /\ e \in S
    BY <1>1, ReachEntries, ReachIn
  <2>2. ASSUME NEW y \in S, mx[y] \in Entry PROVE mx[y] \in S
    <3>1. CASE y = x
      BY <1>2, <2>2, <3>1, ReachIn, NodeFacts
    <3>2. CASE y # x
      <4>1. mx[y] = nx[y] /\ nx[y] \in Entry
        BY <1>2, <2>1, <2>2, <3>2
      <4>2. y \in Reach(nx, g) => g \in Node
        BY ReachEntries
      <4> QED
        BY <1>1, <4>1, <4>2, ReachIn
    <3> QED
      BY <3>1, <3>2
  <2> HIDE DEF S
  <2>3. Reach(mx, e) \subseteq S
    BY <1>1, <2>1, <2>2, ReachLeast
  <2> QED
    BY <2>3 DEF S
<1>5. Reach(nx, e) \subseteq Reach(mx, e)
  <2>1. /\ e \in Reach(mx, e) /\ Reach(mx, e) \subseteq Node
        /\ \A y \in Reach(mx, e) : mx[y] \in Entry => mx[y] \in Reach(mx, e)
    BY <1>1, ReachIn
  <2>2. \A y \in Reach(mx, e) : nx[y] \in Entry => nx[y] \in Reach(mx, e)
    BY <1>1, <1>2, <2>1
  <2> QED
    BY <2>1, <2>2, ReachLeast
<1>6. Reach(nx, g) \subseteq Reach(mx, e)
  <2>1. CASE g \notin Entry
    <3>1. g \notin Node
      BY <2>1, NodeFacts
    <3> QED
      BY <3>1, ReachNone
  <2>2. CASE g \in Entry
    <3>1. g \in Reach(mx, e)
      BY <1>1, <1>2, <1>5, <2>2, ReachIn
    <3>2. Reach(mx, g) \subseteq Reach(mx, e)
      BY <3>1, ReachOf
    <3> QED
      BY <1>3, <3>2
  <2> QED
    BY <2>1, <2>2
<1> QED
  BY <1>3, <1>4, <1>5, <1>6

(* A set of numbers has a least one and, when it is bounded, a largest.    *)
LEMMA Least ==
  ASSUME NEW S, S \subseteq Nat, S # {}
  PROVE  \E m \in S : \A n \in S : m <= n
<1>1. PICK R : IsWellFoundedOn(R, Nat) /\ \A x, y \in Nat : x < y => <<x, y>> \in R
  <2> DEFINE R == OpToRel(<, Nat)
  <2>1. IsWellFoundedOn(R, Nat)
    BY NatLessThanWellFounded
  <2>2. \A x, y \in Nat : x < y => <<x, y>> \in R
    BY DEF OpToRel
  <2> HIDE DEF R
  <2> QED
    BY <2>1, <2>2
<1>2. PICK m \in S : \A n \in S : <<n, m>> \notin R
  <2>1. /\ IsWellFoundedOn(R, Nat) /\ S \subseteq Nat /\ S # {}
    BY <1>1
  <2>2. \E m \in S : \A n \in Nat : <<n, m>> \in R => n \notin S
    BY ONLY <2>1, WFMin
  <2> QED
    BY <2>2
<1>3. \A n \in S : ~(n < m)
  BY <1>1, <1>2
<1> QED
  BY <1>2, <1>3

LEMMA Largest ==
  ASSUME NEW S, S \subseteq Entry, S # {}
  PROVE  \E m \in S : \A n \in S : n <= m
<1> DEFINE T == {n \in Nat : Entries - n \in S}
<1>1. Entries \in Nat /\ \A n \in S : n \in Nat /\ Entries - n \in Nat /\ Entries - (Entries - n) = n
  BY PoolAssumption DEF Entry
<1>2. T \subseteq Nat /\ T # {}
  BY <1>1
<1>3. PICK k \in T : \A n \in T : k <= n
  BY <1>2, Least
<1>4. Entries - k \in S
  OBVIOUS
<1>5. ASSUME NEW n \in S PROVE n <= Entries - k
  <2>1. Entries - n \in T
    BY <1>1
  <2>2. k <= Entries - n /\ k \in Nat /\ n \in Nat
    BY <1>1, <1>3, <2>1
  <2> QED
    BY <1>1, <2>2
<1> QED
  BY <1>4, <1>5

(* The chain that skbpool_entry_alloc makes of its batch: each one is      *)
(* linked to the one allocated before it.                                  *)
Lower(S, e) == CHOOSE f \in S : f < e /\ \A g \in S : g < e => g <= f

LEMMA LowerIs ==
  ASSUME NEW S, S \subseteq Entry, NEW m \in S, \A f \in S : m <= f, NEW e \in S \ {m}
  PROVE  /\ Lower(S, e) \in S /\ Lower(S, e) < e
         /\ \A g \in S : g < e => g <= Lower(S, e)
<1> DEFINE L == {f \in S : f < e}
<1>1. m < e /\ L \subseteq Entry /\ L # {}
  <2>1. m \in Nat /\ e \in Nat /\ m <= e /\ m # e
    BY NodeFacts
  <2>2. m < e
    BY <2>1
  <2>3. m \in L
    BY <2>2
  <2> QED
    BY <2>2, <2>3
<1>2. PICK f \in L : \A g \in L : g <= f
  BY <1>1, Largest
<1>3. \E f1 \in S : f1 < e /\ \A g \in S : g < e => g <= f1
  BY <1>2
<1> QED
  BY <1>3 DEF Lower

LEMMA BatchChain ==
  ASSUME NEW nx \in Pointers, NEW S, S \subseteq Entry,
         NEW hd \in S, \A f \in S : f <= hd, NEW tl \in S, \A f \in S : tl <= f,
         NEW mx, DOMAIN mx = Node, mx = [e \in Node |-> mx[e]], mx[tl] = Null,
         \A e \in Node \ S : mx[e] = nx[e],
         \A e \in S \ {tl} : mx[e] = Lower(S, e)
  PROVE  /\ mx \in Pointers
         /\ \A e \in S : mx[e] \in (S \ {hd}) \cup {Null}
         /\ \A d, e \in S : mx[d] = mx[e] /\ mx[d] \in Entry => d = e
         /\ Reach(mx, hd) = S
<1>0. \A e \in S : e \in Nat
  BY NodeFacts
<1>1. hd \in S /\ \A f \in S : f <= hd
  OBVIOUS
<1>2. tl \in S /\ \A f \in S : tl <= f
  OBVIOUS
<1>3. Entry \subseteq Node /\ Null \notin Entry
  BY NodeFacts
<1>4. \A e \in Node \ S : mx[e] = nx[e]
  OBVIOUS
<1>5. mx[tl] = Null
  OBVIOUS
<1>6. ASSUME NEW e \in S \ {tl}
      PROVE  mx[e] \in S /\ mx[e] < e /\ \A g \in S : g < e => g <= mx[e]
  <2>1. tl \in S /\ (\A f \in S : tl <= f) /\ e \in S \ {tl}
    BY <1>2
  <2>2. /\ Lower(S, e) \in S /\ Lower(S, e) < e
        /\ \A g \in S : g < e => g <= Lower(S, e)
    BY ONLY <2>1, LowerIs, S \subseteq Entry
  <2> QED
    BY <2>2
<1>7. \A e \in S : mx[e] \in (S \ {hd}) \cup {Null}
  <2> SUFFICES ASSUME NEW e \in S PROVE mx[e] \in (S \ {hd}) \cup {Null}
    OBVIOUS
  <2>1. CASE e = tl
    BY <1>5, <2>1
  <2>2. CASE e # tl
    <3>1. mx[e] \in S /\ mx[e] < e /\ e <= hd
      BY <1>1, <1>6, <2>2
    <3>2. mx[e] \in Nat /\ e \in Nat /\ hd \in Nat
      BY <1>0, <1>1, <3>1
    <3>3. mx[e] # hd
      BY ONLY <3>1, <3>2
    <3> QED
      BY <3>1, <3>3
  <2> QED
    BY <2>1, <2>2
<1>8. mx \in Pointers
  <2>1. ASSUME NEW e \in Node PROVE mx[e] \in Entry \cup {Null, Bad}
    BY <1>4, <1>7 DEF Pointers
  <2> QED
    BY <2>1 DEF Pointers
<1>9. \A d, e \in S : mx[d] = mx[e] /\ mx[d] \in Entry => d = e
  <2>1. ASSUME NEW d \in S, NEW e \in S, mx[d] = mx[e], mx[d] \in Entry, d < e
        PROVE  FALSE
    <3>1. d # tl /\ e # tl
      BY <1>3, <1>5, <2>1
    <3>2. mx[d] < d /\ d <= mx[e] /\ mx[d] \in S
      BY <1>6, <2>1, <3>1
    <3>3. mx[d] \in Nat /\ d \in Nat
      BY <1>0, <3>2
    <3> QED
      BY <2>1, <3>2, <3>3
  <2>2. ASSUME NEW d \in S, NEW e \in S PROVE d < e \/ e < d \/ d = e
    <3>1. d \in Nat /\ e \in Nat
      BY <1>0
    <3> QED
      BY ONLY <3>1
  <2> QED
    BY <2>1, <2>2
<1>10. Reach(mx, hd) \subseteq S
  <2>1. S \subseteq Node /\ \A e \in S : mx[e] \in Entry => mx[e] \in S
    BY <1>3, <1>7
  <2> QED
    BY <1>1, <1>8, <2>1, ReachLeast
<1>11. S \subseteq Reach(mx, hd)
  <2> DEFINE M == S \ Reach(mx, hd)
  <2> SUFFICES ASSUME M # {} PROVE FALSE
    OBVIOUS
  <2>1. PICK x \in M : \A y \in M : y <= x
    BY Largest
  <2>2. hd \in Reach(mx, hd) /\ \A y \in Reach(mx, hd) : mx[y] \in Entry => mx[y] \in Reach(mx, hd)
    BY <1>1, <1>3, <1>8, ReachIn
  <2>3. x \in S /\ x # hd /\ x < hd
    BY <1>0, <1>1, <2>1, <2>2
  <2> DEFINE U == {y \in S : x < y}
  <2>4. U \subseteq Nat /\ U # {}
    BY <1>0, <1>1, <2>3
  <2>5. PICK u \in U : \A y \in U : u <= y
    BY <2>4, Least
  <2>6. u \in S /\ x < u /\ u # tl
    BY <1>0, <1>2, <2>3, <2>5
  <2>7. mx[u] = x
    <3>1. mx[u] \in S /\ mx[u] < u /\ x <= mx[u]
      BY <1>6, <2>3, <2>6
    <3>2. x \in Nat /\ u \in Nat /\ mx[u] \in Nat
      BY <1>0, <2>3, <2>6, <3>1
    <3>3. x < mx[u] => u <= mx[u]
      BY <2>5, <3>1
    <3> QED
      BY ONLY <3>1, <3>2, <3>3
  <2>8. u \in Reach(mx, hd)
    BY <1>0, <2>1, <2>3, <2>6
  <2> QED
    BY <2>1, <2>2, <2>3, <2>7, <2>8
<1> QED
  BY <1>7, <1>8, <1>9, <1>10, <1>11

(* The packets of a page are put before the queue, and what is left of the *)
(* chain behind the static node.                                           *)
LEMMA ReachCut ==
  ASSUME NEW nx \in Pointers, Single(nx), NEW e \in Entry, NEW x \in Reach(nx, e),
         NEW g \in Entry \cup {Null}, NEW m, m = nx[x], x \notin Reach(nx, m),
         \A y \in Entry : nx[y] # e, x \notin Reach(nx, g), x # Static, m = Null \/ m \in Entry,
         NEW mx \in Pointers, mx[x] = g, mx[Static] = m,
         \A y \in Node \ {x, Static} : mx[y] = nx[y]
  PROVE  /\ Reach(mx, m) = Reach(nx, m) /\ Reach(mx, g) = Reach(nx, g)
         /\ Reach(mx, e) \subseteq (Reach(nx, e) \ Reach(nx, m)) \cup Reach(nx, g)
         /\ Reach(nx, e) \subseteq Reach(mx, e) \cup Reach(nx, m)
         /\ Reach(nx, g) \subseteq Reach(mx, e)
<1>1. /\ e \in Node /\ x \in Node /\ DOMAIN nx = Node
      /\ Null \notin Entry /\ Static \notin Entry /\ Static \in Node
      /\ Null \notin Node
  BY ReachEntries, NodeFacts DEF Pointers, Node
<1>2. mx[x] = g /\ \A y \in Entry : y # x => mx[y] = nx[y]
  BY <1>1, NodeFacts
<1>3. ASSUME NEW h, h \in Entry \cup {Null}, x \notin Reach(nx, h)
      PROVE  Reach(mx, h) = Reach(nx, h)
  <2>1. \A y \in Reach(nx, h) : y \in Entry
    <3> SUFFICES ASSUME NEW y \in Reach(nx, h) PROVE y \in Entry
      OBVIOUS
    <3>1. y = h \/ y \in Entry
      BY ReachEntries
    <3>2. h \in Node
      BY ReachEntries
    <3> QED
      BY <1>1, <1>3, <3>1, <3>2
  <2>2. \A y \in Reach(nx, h) : mx[y] = nx[y]
    BY <1>2, <1>3, <2>1
  <2> QED
    BY <2>2, ReachSame
<1>4. Reach(mx, m) = Reach(nx, m) /\ Reach(mx, g) = Reach(nx, g)
  BY <1>3
<1>5. \A y \in Reach(nx, e) : y \in Entry
  BY ReachEntries
<1>6. \A y \in Reach(mx, e) : y \in Entry
  BY ReachEntries
<1>7. Reach(mx, e) \subseteq (Reach(nx, e) \ Reach(nx, m)) \cup Reach(nx, g)
  <2> DEFINE S == (Reach(nx, e) \ Reach(nx, m)) \cup Reach(nx, g)
  <2>1. \A y \in Reach(nx, m) : y \in Entry /\ m \in Entry
    <3> SUFFICES ASSUME NEW y \in Reach(nx, m) PROVE y \in Entry /\ m \in Entry
      OBVIOUS
    <3>1. (y = m \/ y \in Entry) /\ m \in Node
      BY ReachEntries
    <3> QED
      BY <1>1, <3>1
  <2>2. \A y \in Reach(nx, g) : y \in Entry /\ g \in Entry
    <3> SUFFICES ASSUME NEW y \in Reach(nx, g) PROVE y \in Entry /\ g \in Entry
      OBVIOUS
    <3>1. (y = g \/ y \in Entry) /\ g \in Node
      BY ReachEntries
    <3> QED
      BY <1>1, <3>1
  <2>3. e \notin Reach(nx, m)
    <3> SUFFICES ASSUME e \in Reach(nx, m) PROVE FALSE
      OBVIOUS
    <3>1. e # m
      BY <1>5
    <3>2. PICK y \in Reach(nx, m) : nx[y] = e
      BY <3>1, ReachFrom
    <3> QED
      BY <2>1, <3>2
  <2>4. S \subseteq Node /\ e \in S
    BY <1>1, <2>3, ReachEntries, ReachIn
  <2>5. ASSUME NEW y \in Reach(nx, g), mx[y] \in Entry PROVE mx[y] \in Reach(nx, g)
    <3>1. mx[y] = nx[y] /\ g \in Node
      BY <1>2, <2>2, ReachEntries
    <3> QED
      BY <2>5, <3>1, ReachIn
  <2>6. ASSUME NEW y \in Reach(nx, e) \ Reach(nx, m), y # x, mx[y] \in Entry
        PROVE  mx[y] \in Reach(nx, e) \ Reach(nx, m)
    <3>1. y \in Entry /\ mx[y] = nx[y]
      BY <1>2, <1>5, <2>6
    <3>2. nx[y] \in Reach(nx, e)
      BY <1>1, <2>6, <3>1, ReachIn
    <3>3. nx[y] # m
      BY <1>1, <1>5, <2>6, <3>1, NodeFacts DEF Single
    <3>4. ASSUME nx[y] \in Reach(nx, m) PROVE FALSE
      <4>1. PICK z \in Reach(nx, m) : nx[z] = nx[y]
        BY <3>3, <3>4, ReachFrom
      <4>2. z = y
        BY <2>1, <2>6, <3>1, <4>1, NodeFacts DEF Single
      <4> QED
        BY <2>6, <4>1, <4>2
    <3> QED
      BY <3>1, <3>2, <3>4
  <2>7. mx[x] \in Entry => mx[x] \in Reach(nx, g)
    BY <1>2, ReachIn, NodeFacts
  <2>8. \A y \in S : mx[y] \in Entry => mx[y] \in S
    BY <2>5, <2>6, <2>7
  <2> HIDE DEF S
  <2>9. Reach(mx, e) \subseteq S
    BY <2>4, <2>8, ReachLeast
  <2> QED
    BY <2>9 DEF S
<1>8. Reach(nx, e) \subseteq Reach(mx, e) \cup Reach(nx, m)
  <2> DEFINE S == Reach(mx, e) \cup Reach(nx, m)
  <2>1. S \subseteq Node /\ e \in S
    BY <1>1, ReachIn, ReachEntries
  <2>2. ASSUME NEW y \in S, nx[y] \in Entry PROVE nx[y] \in S
    <3>1. CASE y \in Reach(nx, m)
      BY <2>2, <3>1, ReachIn, ReachEntries
    <3>2. CASE y \in Reach(mx, e) /\ y = x
      <4>1. m \in Node /\ m = nx[y]
        BY <2>2, <3>2, NodeFacts
      <4> QED
        BY <4>1, ReachIn
    <3>3. CASE y \in Reach(mx, e) /\ y # x
      BY <1>1, <1>2, <1>6, <2>2, <3>3, ReachIn
    <3> QED
      BY <3>1, <3>2, <3>3
  <2> HIDE DEF S
  <2>3. Reach(nx, e) \subseteq S
    BY <2>1, <2>2, ReachLeast
  <2> QED
    BY <2>3 DEF S
<1>9. x \in Reach(mx, e)
  <2> SUFFICES ASSUME x \notin Reach(mx, e) PROVE FALSE
    OBVIOUS
  <2>1. \A y \in Reach(mx, e) : nx[y] = mx[y]
    BY <1>2, <1>6
  <2>2. Reach(nx, e) = Reach(mx, e)
    BY <2>1, ReachSame
  <2> QED
    BY <2>2
<1>10. Reach(nx, g) \subseteq Reach(mx, e)
  <2>1. CASE g = Null
    BY <1>1, <2>1, ReachNone
  <2>2. CASE g \in Entry
    <3>1. g \in Reach(mx, e)
      BY <1>1, <1>2, <1>9, <2>2, ReachIn
    <3> QED
      BY <1>4, <3>1, ReachOf
  <2> QED
    BY <2>1, <2>2
<1> QED
  BY <1>4, <1>7, <1>8, <1>10


-----------------------------------------------------------------------------
(* The pool, the queue, and what else is a list of its own. *)
Roots == {pool, head, rxList, batch, got}

PoolType ==
  /\ next \in Pointers /\ skb \in [Entry -> {"free", "empty", "full", "given"}]
  /\ {pool, rxList, head, batch, got, first, final} \subseteq Entry \cup {Null}
  /\ entry \in Node \cup {Null}
  /\ nr \in Nat /\ filled \in 0 .. BatchSize
  /\ pollAt \in {"idle", "alloc", "reset", "add", "queue"}
  /\ failed \in BOOLEAN /\ oops \in BOOLEAN

(* No entry is pointed to twice, and one that is free not at all.          *)
PointInv ==
  /\ Single(next)
  /\ \A e \in Entry : skb[e] = "free" => next[e] = Null /\ IsHead(next, e)
  /\ \A e \in Entry : skb[e] = "empty" => next[e] # Bad

(* An entry in use that nothing points to. *)
Live(h) == IsHead(next, h) /\ (h \in Entry => skb[h] # "free")

RootInv ==
  /\ pool # Null => pool \notin {head, rxList, batch, got}
  /\ head # Null => head \notin {rxList, batch, got}
  /\ rxList # Null => rxList \notin {batch, got}
  /\ batch # Null => batch # got
  /\ \A e \in Roots \ {Null} : Live(e)

EmptyInv ==
  /\ \A e \in Linked(pool) : skb[e] = "empty"
  /\ \A e \in Linked(head) : skb[e] = "empty"
  /\ \A e \in Linked(got) : skb[e] = "empty"

(* The worker's batch, until it is in the pool. *)
FillInv ==
  IF fillAt = "add"
  THEN /\ head # Null /\ tail \in Linked(head) /\ next[tail] = Null
       /\ Cardinality(Linked(head)) = filled
  ELSE head = Null

UpInv == upAt \in {"idle", "take"} => batch = Null

(* The node of the last packet; the poll's chain goes on behind it. What   *)
(* goes on is behind the static node, or, when an allocation failed, in a  *)
(* list that nothing knows.                                                *)
Busy == pollAt \in {"alloc", "reset", "add"}
Last == IF Busy /\ final # Null THEN final ELSE Static
Own(h) == Live(h) /\ h \notin Roots

PacketInv ==
  /\ first = Null <=> final = Null
  /\ entry \in {Null, Last}
  /\ pollAt = "add" => final # Null
  /\ final # Null => skb[final] = "full"
  /\ first # Null => /\ skb[first] # "free" /\ first \notin Roots
                     /\ \A x \in Entry : next[x] # first
  /\ entry # Null => oops \/ next[entry] # Bad
  /\ pollAt = "reset" /\ entry # Null => next[entry] = Null
  /\ \E h : Own(h) /\ (h = Static \/ failed) /\ Last \in Linked(h)

PollInv ==
  /\ got # Null <=> pollAt = "reset"
  /\ pollAt = "idle" => first = Null
  /\ \A x \in Linked(next[Last]) : skb[x] = "empty"
  /\ Busy => PacketInv

CloseInv ==
  /\ closing # "open" => pollAt = "idle" /\ next[Static] = Null
  /\ closing \in {"pool", "work", "closed"} => rxList = Null
  /\ closing \in {"work", "closed"} => pool = Null /\ fillAt = "idle" /\ ~poolWork
  /\ closing = "closed" => upAt = "idle" /\ ~rxWork

(* As long as no allocation failed: the packets of the page are behind the *)
(* static node, and every entry in use is in a list.                       *)
Packed == \A x \in Linked(next[Static]) : x \in Linked(next[Last]) \/ skb[x] = "full"
QueueFull == \A x \in Linked(rxList) : skb[x] = "full"
NoneLost ==
  \A e \in Entry : skb[e] # "free" =>
    \/ e \in Linked(pool) \/ e \in Linked(head) \/ e \in Linked(rxList)
    \/ e \in Linked(batch) \/ e \in Linked(got) \/ e \in Linked(next[Static])

WholeInv ==
  ~failed =>
    /\ Busy => entry # Null /\ (first # Null => next[Static] = first)
    /\ Packed /\ QueueFull /\ NoneLost

(* What the counter of the pool will be when the worker has counted. *)
CountInv ==
  pollAt # "reset" =>
    nr + (IF fillAt = "count" THEN filled ELSE 0) <= Cardinality(Linked(pool)) + BatchSize

IInv ==
  /\ PoolType /\ PointInv /\ RootInv /\ EmptyInv /\ FillInv /\ UpInv
  /\ PollInv /\ CloseInv /\ WholeInv /\ CountInv

-----------------------------------------------------------------------------
LEMMA StaticHead ==
  ASSUME NEW nx \in Pointers
  PROVE  IsHead(nx, Static)
<1>1. Static \in Node /\ Static \notin Entry /\ Static # Null /\ Static # Bad
  BY PoolAssumption DEF Node, Entry, Null, Bad, Static
<1> QED
  BY <1>1 DEF IsHead, Pointers

LEMMA LiveLists ==
  ASSUME PoolType, PointInv, NEW a, Live(a)
  PROVE  /\ a \in Node /\ a \in Linked(a) /\ Linked(a) \subseteq Node
         /\ \A x \in Linked(a) : x \in Entry => skb[x] # "free"
         /\ \A x \in Linked(a) : next[x] \in Entry => next[x] \in Linked(a)
         /\ \A x \in Linked(a) : x = a \/ x \in Entry
         /\ \A x \in Linked(a) : x # a => \E y \in Linked(a) : next[y] = x
         /\ \A b : Live(b) /\ b # a => Linked(a) \cap Linked(b) = {}
         /\ \A x \in Node : next[x] # a
<1>1. next \in Pointers /\ a \in Node /\ \A x \in Node : next[x] # a
  BY DEF PoolType, Live, IsHead
<1>2. /\ a \in Linked(a) /\ Linked(a) \subseteq Node
      /\ \A x \in Linked(a) : next[x] \in Entry => next[x] \in Linked(a)
  BY <1>1, ReachIn DEF Linked
<1>3. \A x \in Linked(a) : x # a => \E y \in Linked(a) : next[y] = x
  BY <1>1, ReachFrom DEF Linked
<1>4. \A x \in Linked(a) : x = a \/ x \in Entry
  BY <1>1, ReachEntries DEF Linked
<1>5. ASSUME NEW b, Live(b), b # a PROVE Linked(a) \cap Linked(b) = {}
  BY <1>1, <1>5, ReachApart DEF Live, PointInv, Linked
<1>6. ASSUME NEW x \in Linked(a), x \in Entry PROVE skb[x] # "free"
  <2>1. CASE x = a
    BY <1>6, <2>1 DEF Live
  <2>2. CASE x # a
    <3>1. PICK y \in Linked(a) : next[y] = x
      BY <1>3, <2>2
    <3>2. ~IsHead(next, x)
      BY <1>2, <3>1 DEF IsHead
    <3> QED
      BY <1>6, <3>2 DEF PointInv
  <2> QED
    BY <2>1, <2>2
<1> QED
  BY <1>1, <1>2, <1>3, <1>4, <1>5, <1>6

LEMMA RootLists ==
  ASSUME PoolType, PointInv, RootInv, NEW r \in Roots
  PROVE  /\ r = Null \/ Live(r)
         /\ Linked(r) \subseteq Entry
         /\ Linked(Null) = {}
         /\ Static \notin Linked(r)
<1>1. next \in Pointers /\ r \in Entry \cup {Null} /\ Null \notin Node /\ Static \notin Entry
  BY NodeFacts DEF PoolType, Roots
<1>2. Linked(Null) = {}
  BY <1>1, ReachNone DEF Linked
<1>3. r = Null \/ Live(r)
  BY DEF RootInv
<1>4. Linked(r) \subseteq Entry
  BY <1>1, <1>2, <1>3, LiveLists
<1> QED
  BY <1>1, <1>2, <1>3, <1>4

LEMMA StaticLists ==
  ASSUME PoolType, PointInv, RootInv
  PROVE  /\ Own(Static)
         /\ Linked(Static) = {Static} \cup Linked(next[Static])
         /\ Linked(next[Static]) \subseteq Entry
         /\ \A r \in Roots : Linked(r) \cap Linked(Static) = {}
<1>1. next \in Pointers /\ Static \in Node /\ Static \notin Entry /\ Static # Null
      /\ next[Static] \in Entry \cup {Null, Bad}
  BY NodeFacts DEF PoolType, Pointers, Node, Null, Static
<1>2. Live(Static)
  BY <1>1, StaticHead DEF Live
<1>3. Static \notin Roots
  BY <1>1 DEF PoolType, Roots
<1>4. Linked(Static) = {Static} \cup Linked(next[Static])
  BY <1>1, ReachStep DEF Linked
<1>5. Linked(next[Static]) \subseteq Entry
  <2> SUFFICES ASSUME NEW x \in Linked(next[Static]) PROVE x \in Entry
    OBVIOUS
  <2>1. next[Static] \in Node /\ (x = next[Static] \/ x \in Entry)
    BY <1>1, ReachEntries DEF Linked
  <2> QED
    BY <1>1, <2>1, NodeFacts
<1>6. ASSUME NEW r \in Roots PROVE Linked(r) \cap Linked(Static) = {}
  <2>1. r = Null => Linked(r) = {}
    BY RootLists
  <2>2. r # Null => Live(r) /\ r # Static
    BY <1>3, RootLists
  <2> QED
    BY <1>2, <2>1, <2>2, LiveLists
<1> QED
  BY <1>2, <1>3, <1>4, <1>5, <1>6 DEF Own

(* The roots are apart. *)
LEMMA RootsApart ==
  ASSUME PoolType, PointInv, RootInv
  PROVE  /\ Linked(pool) \cap (Linked(head) \cup Linked(rxList) \cup Linked(batch) \cup Linked(got)) = {}
         /\ Linked(head) \cap (Linked(rxList) \cup Linked(batch) \cup Linked(got)) = {}
         /\ Linked(rxList) \cap (Linked(batch) \cup Linked(got)) = {}
         /\ Linked(batch) \cap Linked(got) = {}
<1>1. ASSUME NEW a \in Roots, NEW b \in Roots, a # Null => a # b
      PROVE  Linked(a) \cap Linked(b) = {}
  <2>1. CASE a = Null \/ b = Null
    BY <2>1, RootLists
  <2>2. CASE a # Null /\ b # Null
    BY <1>1, <2>2, RootLists, LiveLists
  <2> QED
    BY <2>1, <2>2
<1>2. pool \in Roots /\ head \in Roots /\ rxList \in Roots /\ batch \in Roots /\ got \in Roots
  BY DEF Roots
<1> QED
  BY <1>1, <1>2 DEF RootInv

LEMMA LastLists ==
  ASSUME PoolType, PointInv, RootInv, PollInv
  PROVE  /\ Last \in Node /\ next[Last] \in Entry \cup {Null, Bad}
         /\ \A r \in Roots : Last \notin Linked(r) /\ Linked(r) \cap Linked(next[Last]) = {}
         /\ Linked(next[Last]) \subseteq Entry
         /\ \A x \in Linked(next[Last]) : next[x] \in Entry => next[x] \in Linked(next[Last])
         /\ \E h : /\ Own(h) /\ (h = Static \/ failed) /\ Last \in Linked(h)
                   /\ Linked(next[Last]) \subseteq Linked(h)
<1>1. PICK h : Own(h) /\ (h = Static \/ failed) /\ Last \in Linked(h)
  <2>1. CASE Busy
    BY <2>1 DEF PollInv, PacketInv
  <2>2. CASE ~Busy
    BY <2>2, StaticLists DEF Last
  <2> QED
    BY <2>1, <2>2
<1>2. /\ Linked(h) \subseteq Node
      /\ \A x \in Linked(h) : next[x] \in Entry => next[x] \in Linked(h)
      /\ \A x \in Linked(h) : x = h \/ x \in Entry
      /\ \A b : Live(b) /\ b # h => Linked(h) \cap Linked(b) = {}
  BY <1>1, LiveLists DEF Own
<1>3. Last \in Node /\ next \in Pointers /\ next[Last] \in Entry \cup {Null, Bad}
  BY <1>1, <1>2 DEF PoolType, Pointers
<1>4. Linked(Last) = {Last} \cup Linked(next[Last])
  BY <1>3, ReachStep DEF Linked
<1>5. Linked(Last) \subseteq Linked(h)
  BY <1>1, <1>3, ReachOf DEF Linked
<1>6. ASSUME NEW r \in Roots
      PROVE  Linked(r) \cap Linked(h) = {}
  BY <1>1, <1>2, RootLists DEF Own
<1>7. ASSUME NEW x \in Linked(next[Last])
      PROVE  x \in Entry /\ (next[x] \in Entry => next[x] \in Linked(next[Last]))
  <2>1. next[Last] \in Node /\ (x = next[Last] \/ x \in Entry)
    BY <1>3, ReachEntries DEF Linked
  <2>2. next[x] \in Entry => next[x] \in Linked(next[Last])
    BY <1>3, <2>1, ReachIn DEF Linked
  <2> QED
    BY <1>3, <2>1, <2>2, NodeFacts
<1> QED
  BY <1>1, <1>3, <1>4, <1>5, <1>6, <1>7

(* A step of another than the poll, which leaves the poll's lists alone. *)
LEMMA PollFrame ==
  ASSUME IInv, UNCHANGED <<pollVars, failed>>, oops => oops', next' \in Pointers,
         \A h : Own(h) =>
           Own(h)' /\ \A x \in Linked(h) : next'[x] = next[x] /\ (x \in Entry => skb'[x] = skb[x]),
         Busy /\ first # Null =>
           skb'[first] # "free" /\ first \notin Roots' /\ \A x \in Entry : next'[x] # first
  PROVE  /\ PollInv'
         /\ Linked(next[Static])' = Linked(next[Static]) /\ next'[Static] = next[Static]
         /\ ~failed => Packed' /\ (Busy' => entry' # Null /\ (first' # Null => next'[Static] = first'))
<1>1. PoolType /\ PointInv /\ RootInv /\ PollInv /\ next \in Pointers
  BY DEF IInv, PoolType
<1>2. /\ pollAt' = pollAt /\ entry' = entry /\ first' = first /\ final' = final /\ got' = got
      /\ failed' = failed /\ Busy' = Busy /\ Last' = Last
  BY DEF pollVars, Busy, Last
<1>3. PICK h : /\ Own(h) /\ (h = Static \/ failed) /\ Last \in Linked(h)
               /\ Linked(next[Last]) \subseteq Linked(h)
  BY <1>1, LastLists
<1>4. ASSUME NEW a, Own(a) PROVE Linked(a)' = Linked(a)
  BY <1>1, <1>4, ReachSame DEF Linked
<1>5. /\ next'[Last] = next[Last] /\ Linked(next[Last])' = Linked(next[Last])
      /\ \A x \in Linked(next[Last]) : skb'[x] = skb[x]
  <2>1. next'[Last] = next[Last]
    BY <1>3
  <2>2. \A x \in Linked(next[Last]) : next'[x] = next[x] /\ skb'[x] = skb[x]
    BY <1>1, <1>3, LastLists
  <2>3. Reach(next', next[Last]) = Reach(next, next[Last])
    BY <1>1, <2>2, ReachSame DEF Linked
  <2> QED
    BY <1>2, <2>1, <2>2, <2>3 DEF Linked
<1>6. /\ next'[Static] = next[Static] /\ Linked(next[Static])' = Linked(next[Static])
      /\ \A x \in Linked(next[Static]) : skb'[x] = skb[x]
  <2>1. Own(Static) /\ Static \in Linked(Static) /\ Linked(next[Static]) \subseteq Linked(Static)
        /\ Linked(next[Static]) \subseteq Entry
    BY <1>1, StaticLists
  <2>2. next'[Static] = next[Static]
    BY <2>1
  <2>3. \A x \in Linked(next[Static]) : next'[x] = next[x] /\ skb'[x] = skb[x]
    BY <2>1
  <2>4. Reach(next', next[Static]) = Reach(next, next[Static])
    BY <1>1, <2>3, ReachSame DEF Linked
  <2> QED
    BY <2>2, <2>3, <2>4 DEF Linked
<1>7. Busy => PacketInv'
  <2> SUFFICES ASSUME Busy PROVE PacketInv'
    OBVIOUS
  <2>1. PacketInv
    BY <1>1 DEF PollInv
  <2>2. /\ (first = Null <=> final = Null)'
        /\ (entry \in {Null, Last})'
        /\ (pollAt = "add" => final # Null)'
    BY <1>2, <2>1 DEF PacketInv
  <2>3. (final # Null => skb[final] = "full")'
    <3> SUFFICES ASSUME final # Null PROVE skb'[final] = "full"
      BY <1>2
    <3>1. Last = final /\ final \in Entry /\ skb[final] = "full"
      BY <1>1, <2>1 DEF Last, PoolType, PacketInv
    <3> QED
      BY <1>3, <3>1
  <2>4. (first # Null => /\ skb[first] # "free" /\ first \notin Roots
                         /\ \A x \in Entry : next[x] # first)'
    BY <1>2
  <2>5. (entry # Null => oops \/ next[entry] # Bad)'
        /\ (pollAt = "reset" /\ entry # Null => next[entry] = Null)'
    BY <1>2, <1>5, <2>1 DEF PacketInv
  <2>6. (\E a : Own(a) /\ (a = Static \/ failed) /\ Last \in Linked(a))'
    <3>1. Own(h)' /\ (h = Static \/ failed') /\ Last' \in Linked(h)'
      BY <1>2, <1>3, <1>4
    <3> QED
      BY <3>1
  <2> QED
    BY <2>2, <2>3, <2>4, <2>5, <2>6 DEF PacketInv
<1>8. PollInv'
  <2>1. (got # Null <=> pollAt = "reset")' /\ (pollAt = "idle" => first = Null)'
    BY <1>1, <1>2 DEF PollInv
  <2>2. (\A x \in Linked(next[Last]) : skb[x] = "empty")'
    BY <1>1, <1>5 DEF PollInv
  <2> QED
    BY <1>2, <1>7, <2>1, <2>2 DEF PollInv
<1>9. ~failed => Packed' /\ (Busy' => entry' # Null /\ (first' # Null => next'[Static] = first'))
  <2> SUFFICES ASSUME ~failed
               PROVE  Packed' /\ (Busy' => entry' # Null /\ (first' # Null => next'[Static] = first'))
    OBVIOUS
  <2>1. Packed /\ (Busy => entry # Null /\ (first # Null => next[Static] = first))
    BY DEF IInv, WholeInv
  <2>2. Packed'
    BY <1>5, <1>6, <2>1 DEF Packed
  <2> QED
    BY <1>2, <1>6, <2>1, <2>2
<1> QED
  BY <1>6, <1>8, <1>9

(* A step that leaves the lists alone. *)
LEMMA ListsSame ==
  ASSUME IInv, UNCHANGED <<listVars, pool, rxList, head, batch, pollVars, failed, oops>>
  PROVE  /\ PointInv' /\ RootInv' /\ EmptyInv' /\ PollInv' /\ WholeInv'
         /\ Linked(pool)' = Linked(pool) /\ Linked(head)' = Linked(head)
<1>1. /\ next' = next /\ skb' = skb /\ pool' = pool /\ rxList' = rxList /\ head' = head
      /\ batch' = batch /\ got' = got /\ pollAt' = pollAt /\ entry' = entry
      /\ first' = first /\ final' = final /\ failed' = failed /\ oops' = oops
  BY DEF listVars, pollVars
<1>2. /\ Roots' = Roots /\ Busy' = Busy /\ Last' = Last
      /\ \A e : Live(e)' = Live(e)
      /\ \A e : Own(e)' = Own(e)
  BY <1>1 DEF Roots, Busy, Last, Live, Own
<1>3. \A e : Linked(e)' = Linked(e)
  BY <1>1 DEF Linked
<1>4. /\ Linked(pool)' = Linked(pool) /\ Linked(head)' = Linked(head)
      /\ Linked(rxList)' = Linked(rxList) /\ Linked(batch)' = Linked(batch)
      /\ Linked(got)' = Linked(got) /\ Linked(next[Static])' = Linked(next[Static])
      /\ Linked(next[Last])' = Linked(next[Last])
  BY <1>1, <1>2 DEF Linked
<1>5. PointInv' /\ RootInv' /\ EmptyInv'
  BY <1>1, <1>2, <1>4 DEF IInv, PointInv, RootInv, EmptyInv
<1>6. PollInv'
  <2>1. PacketInv => PacketInv'
    BY <1>1, <1>2, <1>3 DEF PacketInv
  <2> QED
    BY <1>1, <1>2, <1>4, <2>1 DEF IInv, PollInv
<1>7. WholeInv'
  BY <1>1, <1>2, <1>4 DEF IInv, WholeInv, Packed, QueueFull, NoneLost
<1> QED
  BY <1>4, <1>5, <1>6, <1>7

(* skbpool_free of a whole list. *)
LEMMA FreeFacts ==
  ASSUME PoolType, PointInv, RootInv, NEW r, r = Null \/ Live(r), Free(Linked(r))
  PROVE  /\ next' \in Pointers /\ skb' \in [Entry -> {"free", "empty", "full", "given"}]
         /\ PointInv'
         /\ \A x \in Node : x \notin Linked(r) => next'[x] = next[x]
         /\ \A x \in Entry : skb'[x] = IF x \in Linked(r) THEN "free" ELSE skb[x]
         /\ \A x \in Linked(r) : next'[x] = Null
         /\ \A a : Live(a) /\ a # r =>
              Live(a)' /\ Linked(a) \cap Linked(r) = {} /\ Reach(next', a) = Linked(a)
<1>1. next \in Pointers /\ DOMAIN next = Node /\ Null \notin Entry /\ Entry \subseteq Node
      /\ Null # Bad /\ Null \notin Node
  BY NodeFacts DEF PoolType, Pointers
<1>2. Linked(r) \subseteq Node
  BY <1>1, ReachEntries DEF Linked
<1>3. /\ \A x \in Node : next'[x] = IF x \in Linked(r) THEN Null ELSE next[x]
      /\ \A x \in Entry : skb'[x] = IF x \in Linked(r) THEN "free" ELSE skb[x]
  BY <1>1 DEF Free
<1>4. next' \in Pointers
  BY <1>1, <1>3 DEF Free, Pointers
<1>5. skb' \in [Entry -> {"free", "empty", "full", "given"}]
  BY DEF Free, PoolType
<1>6. \A y \in Node : next'[y] \in Entry => y \notin Linked(r) /\ next[y] = next'[y]
  BY <1>1, <1>3
<1>7. ASSUME NEW a, IsHead(next, a) PROVE IsHead(next', a)
  <2>1. a \in Node /\ \A x \in Node : next[x] # a /\ a # Null
    BY <1>1, <1>7 DEF IsHead
  <2> QED
    BY <1>3, <2>1 DEF IsHead
<1>8. PointInv'
  <2>1. Single(next')
    BY <1>6 DEF PointInv, Single
  <2>2. ASSUME NEW e \in Entry, skb'[e] = "free"
        PROVE  next'[e] = Null /\ IsHead(next', e)
    <3>1. CASE e \notin Linked(r)
      BY <1>1, <1>3, <1>7, <2>2, <3>1 DEF PointInv
    <3>2. CASE e \in Linked(r)
      <4>1. r # Null
        BY <1>1, <3>2, ReachNone DEF Linked
      <4>2. Live(r)
        BY <4>1
      <4>3. ASSUME NEW y \in Node, next'[y] = e PROVE FALSE
        <5>1. y \notin Linked(r) /\ next[y] = e
          BY <1>6, <4>3
        <5>2. e # r
          BY <4>2, <5>1, LiveLists
        <5>3. PICK z \in Linked(r) : next[z] = e
          BY <3>2, <4>2, <5>2, LiveLists
        <5> QED
          BY <1>2, <5>1, <5>3 DEF PointInv, Single
      <4> QED
        BY <1>1, <1>3, <3>2, <4>3 DEF IsHead
    <3> QED
      BY <3>1, <3>2
  <2>3. ASSUME NEW e \in Entry, skb'[e] = "empty" PROVE next'[e] # Bad
    BY <1>1, <1>3, <2>3 DEF PointInv
  <2> QED
    BY <2>1, <2>2, <2>3 DEF PointInv
<1>9. ASSUME NEW a, Live(a), a # r
      PROVE  Live(a)' /\ Linked(a) \cap Linked(r) = {} /\ Reach(next', a) = Linked(a)
  <2>1. Linked(a) \cap Linked(r) = {}
    <3>1. CASE r = Null
      BY <1>1, <3>1, ReachNone DEF Linked
    <3>2. CASE r # Null
      BY <1>9, <3>2, LiveLists
    <3> QED
      BY <3>1, <3>2
  <2>2. a \in Linked(a) /\ Linked(a) \subseteq Node
    BY <1>9, LiveLists
  <2>3. \A x \in Linked(a) : next'[x] = next[x]
    BY <1>3, <2>1, <2>2
  <2>4. Reach(next', a) = Linked(a)
    BY <1>1, <1>4, <2>3, ReachSame DEF Linked
  <2>5. Live(a)'
    <3>1. IsHead(next', a)
      BY <1>7, <1>9 DEF Live
    <3>2. a \in Entry => skb'[a] # "free"
      BY <1>3, <1>9, <2>1, <2>2 DEF Live
    <3> QED
      BY <3>1, <3>2 DEF Live
  <2> QED
    BY <2>1, <2>4, <2>5
<1> QED
  BY <1>1, <1>2, <1>3, <1>4, <1>5, <1>8, <1>9

(* The list of a root is freed, and the root given up. *)
LEMMA RootFreed ==
  ASSUME IInv, NEW r \in Roots, Free(Linked(r)), r \notin Roots' \/ r = Null,
         Roots' \subseteq Roots \cup {Null}, UNCHANGED <<pollVars, failed>>, oops => oops'
  PROVE  /\ next' \in Pointers /\ skb' \in [Entry -> {"free", "empty", "full", "given"}]
         /\ PointInv' /\ PollInv' /\ next'[Static] = next[Static]
         /\ \A e \in Roots' \ {Null} : Live(e)'
         /\ \A e \in Roots : e # r \/ e = Null => Reach(next', e) = Linked(e)
         /\ \A e \in Roots : e # r => \A x \in Linked(e) : skb'[x] = skb[x] /\ next'[x] = next[x]
         /\ \A x \in Entry : skb'[x] # "free" => skb[x] # "free" /\ x \notin Linked(r)
         /\ Linked(next[Static])' = Linked(next[Static])
         /\ ~failed => Packed' /\ (Busy' => entry' # Null /\ (first' # Null => next'[Static] = first'))
<1>1. PoolType /\ PointInv /\ RootInv /\ PollInv /\ next \in Pointers
      /\ Null \notin Node /\ Entry \subseteq Node
  BY NodeFacts DEF IInv, PoolType
<1>2. r = Null \/ Live(r)
  BY <1>1, RootLists
<1>3. /\ next' \in Pointers /\ skb' \in [Entry -> {"free", "empty", "full", "given"}]
      /\ PointInv'
      /\ \A x \in Node : x \notin Linked(r) => next'[x] = next[x]
      /\ \A x \in Entry : skb'[x] = IF x \in Linked(r) THEN "free" ELSE skb[x]
      /\ \A x \in Linked(r) : next'[x] = Null
      /\ \A a : Live(a) /\ a # r =>
           Live(a)' /\ Linked(a) \cap Linked(r) = {} /\ Reach(next', a) = Linked(a)
  BY <1>1, <1>2, FreeFacts
<1>4. ASSUME NEW h, Own(h)
      PROVE  Own(h)' /\ \A x \in Linked(h) : next'[x] = next[x] /\ (x \in Entry => skb'[x] = skb[x])
  <2>1. Live(h) /\ h # r /\ h # Null
    BY <1>1, <1>4 DEF Own, Live, IsHead
  <2>2. Live(h)' /\ Linked(h) \cap Linked(r) = {}
    BY <1>3, <2>1
  <2>3. h \notin Roots'
    BY <1>4, <2>1 DEF Own
  <2>4. Linked(h) \subseteq Node
    BY <1>1, <2>1, LiveLists
  <2> QED
    BY <1>3, <2>2, <2>3, <2>4 DEF Own
<1>5. Busy /\ first # Null =>
        skb'[first] # "free" /\ first \notin Roots' /\ \A x \in Entry : next'[x] # first
  <2> SUFFICES ASSUME Busy, first # Null
               PROVE  skb'[first] # "free" /\ first \notin Roots' /\ \A x \in Entry : next'[x] # first
    OBVIOUS
  <2>1. first \in Entry /\ skb[first] # "free" /\ first \notin Roots
        /\ \A x \in Entry : next[x] # first
    BY <1>1 DEF PollInv, PacketInv, PoolType
  <2>2. first \notin Linked(r)
    <3> SUFFICES ASSUME first \in Linked(r) PROVE FALSE
      OBVIOUS
    <3>1. r # Null /\ first # r /\ Linked(r) \subseteq Entry
      BY <1>1, <2>1, RootLists
    <3>2. PICK y \in Linked(r) : next[y] = first
      BY <1>1, <1>2, <3>1, LiveLists
    <3> QED
      BY <2>1, <3>1, <3>2
  <2>3. \A x \in Entry : next'[x] # first
    BY <1>1, <1>3, <2>1
  <2> QED
    BY <1>3, <2>1, <2>2, <2>3
<1>6. /\ PollInv' /\ Linked(next[Static])' = Linked(next[Static]) /\ next'[Static] = next[Static]
      /\ ~failed => Packed' /\ (Busy' => entry' # Null /\ (first' # Null => next'[Static] = first'))
  BY <1>3, <1>4, <1>5, PollFrame
<1>7. \A e \in Roots' \ {Null} : Live(e)'
  BY <1>1, <1>3, RootLists
<1>8. ASSUME NEW e \in Roots, e # r \/ e = Null
      PROVE  /\ Reach(next', e) = Linked(e)
             /\ \A x \in Linked(e) : skb'[x] = skb[x] /\ next'[x] = next[x]
  <2>1. CASE e = Null
    <3>1. Linked(e) = {} /\ Reach(next', e) = {}
      BY <1>1, <1>3, <2>1, ReachNone DEF Linked
    <3> QED
      BY <3>1
  <2>2. CASE e # Null
    <3>1. Live(e) /\ e # r /\ Linked(e) \subseteq Entry
      BY <1>1, <1>8, <2>2, RootLists
    <3>2. Linked(e) \cap Linked(r) = {} /\ Reach(next', e) = Linked(e)
      BY <1>3, <3>1
    <3> QED
      BY <1>1, <1>3, <3>1, <3>2
  <2> QED
    BY <2>1, <2>2
<1>9. \A x \in Entry : skb'[x] # "free" => skb[x] # "free" /\ x \notin Linked(r)
  BY <1>3
<1> QED
  BY <1>3, <1>6, <1>7, <1>8, <1>9

-----------------------------------------------------------------------------
(* The receive worker. *)
LEMMA UpStartSafe ==
  ASSUME IInv, ~oops, UpStart
  PROVE  IInv'
<1>1. UNCHANGED <<listVars, pool, rxList, head, batch, pollVars, failed, oops>>
  BY DEF UpStart, poolList, rxVars, fillVars
<1>2. /\ PointInv' /\ RootInv' /\ EmptyInv' /\ PollInv' /\ WholeInv'
      /\ Linked(pool)' = Linked(pool) /\ Linked(head)' = Linked(head)
  BY <1>1, ListsSame
<1>3. PoolType'
  BY <1>1 DEF UpStart, IInv, PoolType, listVars, poolList, pollVars, fillVars
<1>4. FillInv' /\ CountInv'
  BY <1>1, <1>2 DEF UpStart, IInv, FillInv, CountInv, listVars, poolList, pollVars, fillVars
<1>5. UpInv' /\ CloseInv'
  BY <1>1 DEF UpStart, IInv, UpInv, CloseInv, listVars, poolList, pollVars, fillVars
<1> QED
  BY <1>2, <1>3, <1>4, <1>5 DEF IInv

LEMMA UpTakeSafe ==
  ASSUME IInv, ~oops, UpTake
  PROVE  IInv'
<1>1. /\ next' = next /\ skb' = skb /\ pool' = pool /\ nr' = nr /\ poolWork' = poolWork
      /\ head' = head /\ tail' = tail /\ filled' = filled /\ fillAt' = fillAt
      /\ rxWork' = rxWork /\ failed' = failed /\ oops' = oops /\ closing' = closing
      /\ UNCHANGED pollVars
      /\ pollAt' = pollAt /\ got' = got /\ entry' = entry /\ first' = first /\ final' = final
  BY DEF UpTake, listVars, poolList, fillVars, pollVars
<1>2. PoolType /\ PointInv /\ RootInv /\ batch = Null /\ next \in Pointers /\ Null \notin Node
      /\ Entry \subseteq Node
  BY NodeFacts DEF UpTake, IInv, UpInv, PoolType
<1>3. batch' = rxList /\ rxList' = Null
  BY DEF UpTake
<1>4. Roots' \subseteq Roots \cup {Null} /\ \A e : Live(e)' = Live(e)
  BY <1>1, <1>3 DEF Roots, Live
<1>5. /\ \A h : Own(h) =>
           Own(h)' /\ \A x \in Linked(h) : next'[x] = next[x] /\ (x \in Entry => skb'[x] = skb[x])
      /\ Busy /\ first # Null =>
           skb'[first] # "free" /\ first \notin Roots' /\ \A x \in Entry : next'[x] # first
  <2>1. \A h : Own(h) => h # Null
    BY <1>2 DEF Own, Live, IsHead
  <2>2. Busy /\ first # Null =>
          skb[first] # "free" /\ first \notin Roots /\ \A x \in Entry : next[x] # first
    BY DEF IInv, PollInv, PacketInv
  <2> QED
    BY <1>1, <1>4, <2>1, <2>2 DEF Own
<1>6. /\ PollInv' /\ Linked(next[Static])' = Linked(next[Static])
      /\ ~failed => Packed' /\ (Busy' => entry' # Null /\ (first' # Null => next'[Static] = first'))
  BY <1>1, <1>2, <1>5, PollFrame
<1>7. /\ Linked(pool)' = Linked(pool) /\ Linked(head)' = Linked(head)
      /\ Linked(got)' = Linked(got) /\ Linked(batch)' = Linked(rxList)
      /\ Linked(rxList)' = {} /\ Linked(batch) = {}
  BY <1>1, <1>2, <1>3, ReachNone DEF Linked
<1>8. PoolType' /\ PointInv'
  BY <1>1, <1>2, <1>3 DEF PoolType, PointInv
<1>9. RootInv'
  <2>1. \A e \in Roots' \ {Null} : Live(e)'
    BY <1>2, <1>4 DEF RootInv
  <2>2. /\ pool # Null => pool \notin {head, rxList, batch, got}
        /\ head # Null => head \notin {rxList, batch, got}
        /\ rxList # Null => rxList \notin {batch, got}
    BY <1>2 DEF RootInv
  <2> QED
    BY <1>1, <1>2, <1>3, <2>1, <2>2 DEF RootInv
<1>10. EmptyInv' /\ FillInv' /\ CountInv'
  BY <1>1, <1>7 DEF IInv, EmptyInv, FillInv, CountInv
<1>11. UpInv' /\ CloseInv'
  BY <1>1, <1>3 DEF UpTake, IInv, UpInv, CloseInv
<1>12. WholeInv'
  <2> SUFFICES ASSUME ~failed PROVE Packed' /\ QueueFull' /\ NoneLost'
    BY <1>1, <1>6 DEF WholeInv
  <2>1. NoneLost
    BY DEF IInv, WholeInv
  <2> QED
    BY <1>1, <1>6, <1>7, <2>1 DEF QueueFull, NoneLost
<1> QED
  BY <1>6, <1>8, <1>9, <1>10, <1>11, <1>12 DEF IInv

LEMMA UpDeliverSafe ==
  ASSUME IInv, ~oops, UpDeliver
  PROVE  IInv'
<1>1. /\ next' = next /\ pool' = pool /\ nr' = nr /\ poolWork' = poolWork
      /\ head' = head /\ tail' = tail /\ filled' = filled /\ fillAt' = fillAt
      /\ rxList' = rxList /\ rxWork' = rxWork /\ batch' = batch /\ failed' = failed
      /\ closing' = closing /\ UNCHANGED pollVars
      /\ pollAt' = pollAt /\ got' = got /\ entry' = entry /\ first' = first /\ final' = final
  BY DEF UpDeliver, poolList, rxVars, fillVars, pollVars
<1>2. PoolType /\ PointInv /\ RootInv /\ next \in Pointers /\ batch \in Roots
  BY DEF IInv, PoolType, Roots
<1>3. \A x \in Entry : skb'[x] = IF x \in Linked(batch) THEN "given" ELSE skb[x]
  BY DEF UpDeliver
<1>4. /\ \A x \in Entry : skb'[x] = "free" <=> skb[x] = "free"
      /\ \A x \in Entry : skb'[x] = "empty" => skb[x] = "empty"
  <2>1. \A x \in Linked(batch) : skb[x] # "free"
    <3>1. batch = Null \/ Live(batch)
      BY <1>2, RootLists
    <3> QED
      BY <1>2, <3>1, RootLists, LiveLists
  <2> QED
    BY <1>3, <2>1
<1>5. Roots' = Roots /\ (\A e : Live(e)' <=> Live(e)) /\ \A e : Own(e)' <=> Own(e)
  <2>1. \A e : Live(e)' <=> Live(e)
    BY <1>1, <1>4 DEF Live
  <2>2. Roots' = Roots
    BY <1>1 DEF Roots
  <2> QED
    BY <2>1, <2>2 DEF Own
<1>6. /\ \A h : Own(h) =>
           Own(h)' /\ \A x \in Linked(h) : next'[x] = next[x] /\ (x \in Entry => skb'[x] = skb[x])
      /\ Busy /\ first # Null =>
           skb'[first] # "free" /\ first \notin Roots' /\ \A x \in Entry : next'[x] # first
  <2>1. ASSUME NEW h, Own(h) PROVE Linked(h) \cap Linked(batch) = {}
    BY <1>2, <2>1, RootLists, LiveLists DEF Own
  <2>2. Busy /\ first # Null =>
          skb[first] # "free" /\ first \in Entry /\ first \notin Roots /\ \A x \in Entry : next[x] # first
    BY DEF IInv, PollInv, PacketInv, PoolType
  <2> QED
    BY <1>1, <1>3, <1>4, <1>5, <2>1, <2>2
<1>7. /\ PollInv' /\ Linked(next[Static])' = Linked(next[Static])
      /\ ~failed => Packed' /\ (Busy' => entry' # Null /\ (first' # Null => next'[Static] = first'))
  <2>1. oops => oops'
    OBVIOUS
  <2> QED
    BY <1>1, <1>2, <1>6, <2>1, PollFrame
<1>8. \A r \in Roots : Reach(next', r) = Linked(r)
  BY <1>1 DEF Linked
<1>9. /\ Linked(pool)' = Linked(pool) /\ Linked(head)' = Linked(head)
      /\ Linked(got)' = Linked(got) /\ Linked(batch)' = Linked(batch)
      /\ Linked(rxList)' = Linked(rxList)
  BY <1>1 DEF Linked
<1>10. PoolType'
  <2>1. skb' \in [Entry -> {"free", "empty", "full", "given"}] /\ oops' \in BOOLEAN
    BY DEF UpDeliver, IInv, PoolType, Broken
  <2> QED
    BY <1>1, <1>2, <2>1 DEF PoolType
<1>11. PointInv' /\ RootInv'
  <2>1. PointInv'
    BY <1>1, <1>2, <1>4 DEF PointInv
  <2>2. RootInv'
    BY <1>1, <1>2, <1>5 DEF RootInv
  <2> QED
    BY <2>1, <2>2
<1>12. \A x \in Linked(pool) \cup Linked(head) \cup Linked(got) \cup Linked(rxList) :
         x \in Entry /\ skb'[x] = skb[x]
  BY <1>2, <1>3, RootsApart, RootLists DEF Roots
<1>13. EmptyInv' /\ FillInv' /\ CountInv'
  <2>1. EmptyInv'
    BY <1>9, <1>12 DEF IInv, EmptyInv
  <2> QED
    BY <1>1, <1>9, <2>1 DEF IInv, FillInv, CountInv
<1>14. UpInv' /\ CloseInv'
  BY <1>1 DEF UpDeliver, IInv, UpInv, CloseInv
<1>15. WholeInv'
  <2> SUFFICES ASSUME ~failed PROVE Packed' /\ QueueFull' /\ NoneLost'
    BY <1>1, <1>7 DEF WholeInv
  <2>1. NoneLost /\ QueueFull
    BY DEF IInv, WholeInv
  <2> QED
    BY <1>4, <1>7, <1>9, <1>12, <2>1 DEF QueueFull, NoneLost
<1> QED
  BY <1>7, <1>10, <1>11, <1>13, <1>14, <1>15 DEF IInv

LEMMA UpFreeSafe ==
  ASSUME IInv, ~oops, UpFree
  PROVE  IInv'
<1>1. /\ pool' = pool /\ nr' = nr /\ poolWork' = poolWork
      /\ head' = head /\ tail' = tail /\ filled' = filled /\ fillAt' = fillAt
      /\ rxList' = rxList /\ rxWork' = rxWork /\ batch' = Null /\ failed' = failed /\ oops' = oops
      /\ closing' = closing /\ UNCHANGED pollVars
      /\ pollAt' = pollAt /\ got' = got /\ entry' = entry /\ first' = first /\ final' = final
  BY DEF UpFree, poolList, rxVars, fillVars, pollVars
<1>2. PoolType /\ PointInv /\ RootInv /\ batch \in Roots /\ Null \notin Node
  BY NodeFacts DEF IInv, Roots
<1>3. Roots' \subseteq Roots \cup {Null} /\ (batch \notin Roots' \/ batch = Null)
  BY <1>1, <1>2 DEF Roots, RootInv
<1>4. Free(Linked(batch))
  BY DEF UpFree
<1>5. /\ next' \in Pointers /\ skb' \in [Entry -> {"free", "empty", "full", "given"}]
      /\ PointInv' /\ PollInv' /\ next'[Static] = next[Static]
      /\ \A e \in Roots' \ {Null} : Live(e)'
      /\ \A e \in Roots : e # batch \/ e = Null => Reach(next', e) = Linked(e)
      /\ \A e \in Roots : e # batch => \A x \in Linked(e) : skb'[x] = skb[x] /\ next'[x] = next[x]
      /\ \A x \in Entry : skb'[x] # "free" => skb[x] # "free" /\ x \notin Linked(batch)
      /\ Linked(next[Static])' = Linked(next[Static])
      /\ ~failed => Packed' /\ (Busy' => entry' # Null /\ (first' # Null => next'[Static] = first'))
  BY <1>1, <1>2, <1>3, <1>4, RootFreed
<1>6. /\ \A e \in {pool, head, got, rxList} : e # batch \/ e = Null
      /\ pool \in Roots /\ head \in Roots /\ got \in Roots /\ rxList \in Roots
      /\ Linked(Null) = {}
  BY <1>2, RootLists DEF RootInv, Roots
<1>7. /\ Linked(pool)' = Linked(pool) /\ Linked(head)' = Linked(head)
      /\ Linked(got)' = Linked(got) /\ Linked(rxList)' = Linked(rxList)
  BY <1>1, <1>5, <1>6 DEF Linked
<1>8. \A x \in Linked(pool) \cup Linked(head) \cup Linked(got) \cup Linked(rxList) :
        skb'[x] = skb[x] /\ next'[x] = next[x]
  <2>1. \A e \in {pool, head, got, rxList} : \A x \in Linked(e) : skb'[x] = skb[x] /\ next'[x] = next[x]
    BY <1>5, <1>6
  <2> QED
    BY <2>1
<1>9. PoolType'
  BY <1>1, <1>2, <1>5 DEF PoolType
<1>10. RootInv'
  BY <1>1, <1>2, <1>5 DEF RootInv
<1>11. EmptyInv' /\ FillInv' /\ CountInv'
  <2>1. EmptyInv'
    BY <1>7, <1>8 DEF IInv, EmptyInv
  <2>2. FillInv'
    BY <1>1, <1>7, <1>8 DEF IInv, FillInv
  <2> QED
    BY <1>1, <1>7, <2>1, <2>2 DEF IInv, CountInv
<1>12. UpInv' /\ CloseInv'
  BY <1>1, <1>5 DEF UpFree, IInv, UpInv, CloseInv
<1>13. WholeInv'
  <2> SUFFICES ASSUME ~failed PROVE QueueFull' /\ NoneLost'
    BY <1>1, <1>5 DEF WholeInv
  <2>1. NoneLost /\ QueueFull
    BY DEF IInv, WholeInv
  <2>2. QueueFull'
    BY <1>7, <1>8, <2>1 DEF QueueFull
  <2>3. NoneLost'
    BY <1>5, <1>7, <2>1 DEF NoneLost
  <2> QED
    BY <2>2, <2>3
<1> QED
  BY <1>5, <1>9, <1>10, <1>11, <1>12, <1>13 DEF IInv

-----------------------------------------------------------------------------
(* nf10_lbuf_free. *)
LEMMA CloseChainSafe ==
  ASSUME IInv, ~oops, CloseChain
  PROVE  IInv'
<1>1. /\ pool' = pool /\ nr' = nr /\ poolWork' = poolWork
      /\ head' = head /\ tail' = tail /\ filled' = filled /\ fillAt' = fillAt
      /\ rxList' = rxList /\ rxWork' = rxWork /\ batch' = batch /\ upAt' = upAt /\ failed' = failed
      /\ pollAt' = pollAt /\ got' = got /\ entry' = entry /\ first' = first /\ final' = final
      /\ pollAt = "idle" /\ closing = "open" /\ closing' = "queue"
  BY DEF CloseChain, poolList, rxVars, fillVars, pollVars, upVars
<1>2. PoolType /\ PointInv /\ RootInv /\ PollInv /\ next \in Pointers /\ Null \notin Node
      /\ Entry \subseteq Node
  BY NodeFacts DEF IInv, PoolType
<1>3. /\ Own(Static) /\ Linked(Static) = {Static} \cup Linked(next[Static])
      /\ \A r \in Roots : Linked(r) \cap Linked(Static) = {}
  BY <1>2, StaticLists
<1>4. Free(Linked(Static)) /\ Live(Static) /\ Static \notin Roots
  <2>1. Linked(next[Static]) \cup {Static} = Linked(Static)
    BY <1>3
  <2> QED
    BY <1>3, <2>1 DEF CloseChain, Own
<1>5. /\ next' \in Pointers /\ skb' \in [Entry -> {"free", "empty", "full", "given"}]
      /\ PointInv'
      /\ \A x \in Node : x \notin Linked(Static) => next'[x] = next[x]
      /\ \A x \in Entry : skb'[x] = IF x \in Linked(Static) THEN "free" ELSE skb[x]
      /\ \A x \in Linked(Static) : next'[x] = Null
      /\ \A a : Live(a) /\ a # Static =>
           Live(a)' /\ Linked(a) \cap Linked(Static) = {} /\ Reach(next', a) = Linked(a)
  BY <1>2, <1>4, FreeFacts
<1>6. \A r \in Roots : /\ Reach(next', r) = Linked(r)
                       /\ \A x \in Linked(r) : skb'[x] = skb[x] /\ next'[x] = next[x]
  <2> SUFFICES ASSUME NEW r \in Roots
               PROVE  /\ Reach(next', r) = Linked(r)
                      /\ \A x \in Linked(r) : skb'[x] = skb[x] /\ next'[x] = next[x]
    OBVIOUS
  <2>1. CASE r = Null
    BY <1>2, <1>5, <2>1, ReachNone DEF Linked
  <2>2. CASE r # Null
    <3>1. Live(r) /\ r # Static /\ Linked(r) \subseteq Entry
      BY <1>2, <1>4, <2>2, RootLists
    <3> QED
      BY <1>2, <1>5, <3>1
  <2> QED
    BY <2>1, <2>2
<1>7. /\ Linked(pool)' = Linked(pool) /\ Linked(head)' = Linked(head)
      /\ Linked(got)' = Linked(got) /\ Linked(rxList)' = Linked(rxList)
      /\ Linked(batch)' = Linked(batch)
  BY <1>1, <1>6 DEF Linked, Roots
<1>8. next'[Static] = Null /\ Linked(next[Static])' = {}
  <2>1. next'[Static] = Null
    BY <1>3, <1>5
  <2> QED
    BY <1>2, <1>5, <2>1, ReachNone DEF Linked
<1>9. PoolType'
  <2>1. oops' \in BOOLEAN
    BY DEF CloseChain, Broken
  <2> QED
    BY <1>1, <1>2, <1>5, <2>1 DEF PoolType
<1>10. RootInv'
  <2>1. Roots' = Roots
    BY <1>1 DEF Roots
  <2>2. \A e \in Roots' \ {Null} : Live(e)'
    BY <1>2, <1>4, <1>5, <2>1 DEF RootInv
  <2> QED
    BY <1>1, <1>2, <2>2 DEF RootInv
<1>11. EmptyInv' /\ FillInv' /\ CountInv'
  <2>1. EmptyInv'
    BY <1>6, <1>7 DEF IInv, EmptyInv, Roots
  <2>2. FillInv'
    BY <1>1, <1>6, <1>7 DEF IInv, FillInv, Roots
  <2> QED
    BY <1>1, <1>7, <2>1, <2>2 DEF IInv, CountInv
<1>12. UpInv' /\ CloseInv'
  BY <1>1, <1>8 DEF IInv, UpInv, CloseInv
<1>13. PollInv'
  <2>1. Last' = Static /\ ~Busy'
    BY <1>1 DEF Last, Busy
  <2>2. Linked(next[Last])' = {}
    BY <1>8, <2>1 DEF Linked
  <2> QED
    BY <1>1, <1>2, <2>1, <2>2 DEF PollInv
<1>14. WholeInv'
  <2> SUFFICES ASSUME ~failed PROVE Packed' /\ QueueFull' /\ NoneLost'
    BY <1>1 DEF WholeInv, Busy
  <2>1. NoneLost /\ QueueFull
    BY DEF IInv, WholeInv
  <2>2. QueueFull'
    BY <1>6, <1>7, <2>1 DEF QueueFull, Roots
  <2>3. NoneLost'
    BY <1>3, <1>5, <1>7, <2>1 DEF NoneLost
  <2> QED
    BY <1>8, <2>2, <2>3 DEF Packed
<1> QED
  BY <1>5, <1>9, <1>10, <1>11, <1>12, <1>13, <1>14 DEF IInv

LEMMA CloseQueueSafe ==
  ASSUME IInv, ~oops, CloseQueue
  PROVE  IInv'
<1>1. /\ pool' = pool /\ nr' = nr /\ poolWork' = poolWork
      /\ head' = head /\ tail' = tail /\ filled' = filled /\ fillAt' = fillAt
      /\ rxList' = Null /\ rxWork' = rxWork /\ batch' = batch /\ upAt' = upAt /\ failed' = failed
      /\ UNCHANGED pollVars
      /\ pollAt' = pollAt /\ got' = got /\ entry' = entry /\ first' = first /\ final' = final
      /\ closing = "queue" /\ closing' = "pool"
  BY DEF CloseQueue, poolList, fillVars, pollVars, upVars
<1>2. PoolType /\ PointInv /\ RootInv /\ rxList \in Roots /\ Null \notin Node /\ pollAt = "idle"
  BY <1>1, NodeFacts DEF IInv, Roots, CloseInv
<1>3. /\ Roots' \subseteq Roots \cup {Null} /\ (rxList \notin Roots' \/ rxList = Null)
      /\ (oops => oops') /\ Free(Linked(rxList))
  BY <1>1, <1>2 DEF Roots, RootInv, CloseQueue
<1>4. /\ next' \in Pointers /\ skb' \in [Entry -> {"free", "empty", "full", "given"}]
      /\ PointInv' /\ PollInv' /\ next'[Static] = next[Static]
      /\ \A e \in Roots' \ {Null} : Live(e)'
      /\ \A e \in Roots : e # rxList \/ e = Null => Reach(next', e) = Linked(e)
      /\ \A e \in Roots : e # rxList => \A x \in Linked(e) : skb'[x] = skb[x] /\ next'[x] = next[x]
      /\ \A x \in Entry : skb'[x] # "free" => skb[x] # "free" /\ x \notin Linked(rxList)
      /\ Linked(next[Static])' = Linked(next[Static])
      /\ ~failed => Packed' /\ (Busy' => entry' # Null /\ (first' # Null => next'[Static] = first'))
  BY <1>1, <1>2, <1>3, RootFreed
<1>5. /\ \A e \in {pool, head, got, batch} : e # rxList \/ e = Null
      /\ pool \in Roots /\ head \in Roots /\ got \in Roots /\ batch \in Roots
      /\ Linked(Null) = {}
  BY <1>2, RootLists DEF RootInv, Roots
<1>6. /\ Linked(pool)' = Linked(pool) /\ Linked(head)' = Linked(head)
      /\ Linked(got)' = Linked(got) /\ Linked(batch)' = Linked(batch)
  BY <1>1, <1>4, <1>5 DEF Linked
<1>7. \A x \in Linked(pool) \cup Linked(head) \cup Linked(got) :
        skb'[x] = skb[x] /\ next'[x] = next[x]
  <2>1. \A e \in {pool, head, got} : \A x \in Linked(e) : skb'[x] = skb[x] /\ next'[x] = next[x]
    BY <1>4, <1>5
  <2> QED
    BY <2>1
<1>8. Linked(rxList)' = {}
  BY <1>1, <1>2, <1>4, ReachNone DEF Linked
<1>9. PoolType'
  <2>1. oops' \in BOOLEAN
    BY DEF CloseQueue, Broken
  <2> QED
    BY <1>1, <1>2, <1>4, <2>1 DEF PoolType
<1>10. RootInv'
  BY <1>1, <1>2, <1>4 DEF RootInv
<1>11. EmptyInv' /\ FillInv' /\ CountInv'
  <2>1. EmptyInv'
    BY <1>6, <1>7 DEF IInv, EmptyInv
  <2>2. FillInv'
    BY <1>1, <1>6, <1>7 DEF IInv, FillInv
  <2> QED
    BY <1>1, <1>6, <2>1, <2>2 DEF IInv, CountInv
<1>12. UpInv' /\ CloseInv'
  BY <1>1, <1>4 DEF IInv, UpInv, CloseInv
<1>13. WholeInv'
  <2> SUFFICES ASSUME ~failed PROVE QueueFull' /\ NoneLost'
    BY <1>1, <1>4 DEF WholeInv
  <2>1. NoneLost
    BY DEF IInv, WholeInv
  <2> QED
    BY <1>4, <1>6, <1>8, <2>1 DEF QueueFull, NoneLost
<1> QED
  BY <1>4, <1>9, <1>10, <1>11, <1>12, <1>13 DEF IInv

LEMMA ClosePoolSafe ==
  ASSUME IInv, ~oops, ClosePool
  PROVE  IInv'
<1>1. /\ pool' = Null /\ nr' = 0 /\ poolWork' = poolWork /\ ~poolWork
      /\ head' = head /\ tail' = tail /\ filled' = filled /\ fillAt' = fillAt /\ fillAt = "idle"
      /\ rxList' = rxList /\ rxWork' = rxWork /\ batch' = batch /\ upAt' = upAt
      /\ failed' = failed /\ oops' = oops /\ UNCHANGED pollVars
      /\ pollAt' = pollAt /\ got' = got /\ entry' = entry /\ first' = first /\ final' = final
      /\ closing = "pool" /\ closing' = "work"
  BY DEF ClosePool, fillVars, pollVars, upVars, rxVars
<1>2. PoolType /\ PointInv /\ RootInv /\ pool \in Roots /\ Null \notin Node /\ pollAt = "idle"
      /\ head = Null
  BY <1>1, NodeFacts DEF IInv, Roots, CloseInv, FillInv
<1>3. /\ Roots' \subseteq Roots \cup {Null} /\ (pool \notin Roots' \/ pool = Null)
      /\ (oops => oops') /\ Free(Linked(pool))
  BY <1>1, <1>2 DEF Roots, RootInv, ClosePool
<1>4. /\ next' \in Pointers /\ skb' \in [Entry -> {"free", "empty", "full", "given"}]
      /\ PointInv' /\ PollInv' /\ next'[Static] = next[Static]
      /\ \A e \in Roots' \ {Null} : Live(e)'
      /\ \A e \in Roots : e # pool \/ e = Null => Reach(next', e) = Linked(e)
      /\ \A e \in Roots : e # pool => \A x \in Linked(e) : skb'[x] = skb[x] /\ next'[x] = next[x]
      /\ \A x \in Entry : skb'[x] # "free" => skb[x] # "free" /\ x \notin Linked(pool)
      /\ Linked(next[Static])' = Linked(next[Static])
      /\ ~failed => Packed' /\ (Busy' => entry' # Null /\ (first' # Null => next'[Static] = first'))
  BY <1>1, <1>2, <1>3, RootFreed
<1>5. /\ \A e \in {head, rxList, got, batch} : e # pool \/ e = Null
      /\ rxList \in Roots /\ head \in Roots /\ got \in Roots /\ batch \in Roots
      /\ Linked(Null) = {}
  BY <1>2, RootLists DEF RootInv, Roots
<1>6. /\ Linked(head)' = Linked(head) /\ Linked(rxList)' = Linked(rxList)
      /\ Linked(got)' = Linked(got) /\ Linked(batch)' = Linked(batch)
  BY <1>1, <1>4, <1>5 DEF Linked
<1>7. \A x \in Linked(rxList) \cup Linked(head) \cup Linked(got) : skb'[x] = skb[x]
  <2>1. \A e \in {rxList, head, got} : \A x \in Linked(e) : skb'[x] = skb[x]
    BY <1>4, <1>5
  <2> QED
    BY <2>1
<1>8. Linked(pool)' = {} /\ Cardinality({}) = 0
  BY <1>1, <1>2, <1>4, ReachNone, FS_EmptySet DEF Linked
<1>9. PoolType'
  BY <1>1, <1>2, <1>4 DEF PoolType
<1>10. RootInv'
  BY <1>1, <1>2, <1>4 DEF RootInv
<1>11. EmptyInv' /\ FillInv' /\ CountInv'
  <2>1. EmptyInv'
    BY <1>6, <1>7, <1>8 DEF IInv, EmptyInv
  <2>2. FillInv'
    BY <1>1, <1>2 DEF FillInv
  <2>3. nr' = 0 /\ fillAt' # "count" /\ BatchSize \in Nat
    BY <1>1, PoolAssumption
  <2> QED
    BY <1>8, <2>1, <2>2, <2>3 DEF CountInv
<1>12. UpInv' /\ CloseInv'
  BY <1>1, <1>4 DEF IInv, UpInv, CloseInv
<1>13. WholeInv'
  <2> SUFFICES ASSUME ~failed PROVE QueueFull' /\ NoneLost'
    BY <1>1, <1>4 DEF WholeInv
  <2>1. NoneLost /\ QueueFull
    BY DEF IInv, WholeInv
  <2> QED
    BY <1>4, <1>6, <1>7, <2>1 DEF QueueFull, NoneLost
<1> QED
  BY <1>4, <1>9, <1>10, <1>11, <1>12, <1>13 DEF IInv

LEMMA CloseWorkSafe ==
  ASSUME IInv, ~oops, CloseWork
  PROVE  IInv'
<1>1. UNCHANGED <<listVars, pool, rxList, head, batch, pollVars, failed, oops>>
  BY DEF CloseWork, poolList, rxVars, fillVars, upVars
<1>2. /\ PointInv' /\ RootInv' /\ EmptyInv' /\ PollInv' /\ WholeInv'
      /\ Linked(pool)' = Linked(pool) /\ Linked(head)' = Linked(head)
  BY <1>1, ListsSame
<1>3. PoolType'
  BY <1>1 DEF CloseWork, IInv, PoolType, listVars, poolList, pollVars, fillVars
<1>4. FillInv' /\ CountInv'
  BY <1>1, <1>2 DEF CloseWork, IInv, FillInv, CountInv, listVars, poolList, pollVars, fillVars
<1>5. UpInv' /\ CloseInv'
  BY <1>1 DEF CloseWork, IInv, UpInv, CloseInv, listVars, poolList, pollVars, fillVars, upVars, rxVars
<1> QED
  BY <1>2, <1>3, <1>4, <1>5 DEF IInv

-----------------------------------------------------------------------------
(* The pool's worker. *)
LEMMA ListSizes ==
  ASSUME PoolType, PointInv, RootInv, NEW r \in Roots
  PROVE  IsFiniteSet(Linked(r)) /\ Cardinality(Linked(r)) \in Nat
<1>1. Linked(r) \subseteq Entry
  BY RootLists
<1>2. IsFiniteSet(Entry)
  BY PoolAssumption, FS_Interval DEF Entry
<1>3. IsFiniteSet(Linked(r))
  BY <1>1, <1>2, FS_Subset
<1> QED
  BY <1>3, FS_CardinalityType

LEMMA FillStartSafe ==
  ASSUME IInv, ~oops, FillStart
  PROVE  IInv'
<1>1. UNCHANGED <<listVars, pool, rxList, head, batch, pollVars, failed, oops>>
  BY DEF FillStart, rxVars, upVars
<1>2. /\ PointInv' /\ RootInv' /\ EmptyInv' /\ PollInv' /\ WholeInv'
      /\ Linked(pool)' = Linked(pool) /\ Linked(head)' = Linked(head)
  BY <1>1, ListsSame
<1>3. PoolType'
  BY <1>1 DEF FillStart, IInv, PoolType, listVars, pollVars
<1>4. FillInv' /\ CountInv'
  BY <1>1, <1>2 DEF FillStart, IInv, FillInv, CountInv, listVars, pollVars
<1>5. UpInv' /\ CloseInv'
  BY <1>1 DEF FillStart, IInv, UpInv, CloseInv, listVars, pollVars, upVars, rxVars
<1> QED
  BY <1>2, <1>3, <1>4, <1>5 DEF IInv

LEMMA FillEnoughSafe ==
  ASSUME IInv, ~oops, FillEnough
  PROVE  IInv'
<1>1. UNCHANGED <<listVars, pool, rxList, head, batch, pollVars, failed, oops>>
  BY DEF FillEnough, poolList, rxVars, upVars
<1>2. /\ PointInv' /\ RootInv' /\ EmptyInv' /\ PollInv' /\ WholeInv'
      /\ Linked(pool)' = Linked(pool) /\ Linked(head)' = Linked(head)
  BY <1>1, ListsSame
<1>3. PoolType'
  BY <1>1 DEF FillEnough, IInv, PoolType, listVars, poolList, pollVars
<1>4. FillInv' /\ CountInv'
  BY <1>1, <1>2 DEF FillEnough, IInv, FillInv, CountInv, listVars, poolList, pollVars
<1>5. UpInv' /\ CloseInv'
  BY <1>1 DEF FillEnough, IInv, UpInv, CloseInv, listVars, poolList, pollVars, upVars, rxVars
<1> QED
  BY <1>2, <1>3, <1>4, <1>5 DEF IInv

LEMMA FillCountSafe ==
  ASSUME IInv, ~oops, FillCount
  PROVE  IInv'
<1>1. UNCHANGED <<listVars, pool, rxList, head, batch, pollVars, failed, oops>>
  BY DEF FillCount, rxVars, upVars
<1>2. /\ PointInv' /\ RootInv' /\ EmptyInv' /\ PollInv' /\ WholeInv'
      /\ Linked(pool)' = Linked(pool) /\ Linked(head)' = Linked(head)
  BY <1>1, ListsSame
<1>3. PoolType /\ PointInv /\ RootInv /\ BatchSize \in Nat
  BY PoolAssumption DEF IInv
<1>4. PoolType'
  <2>1. nr' \in Nat /\ filled' \in 0 .. BatchSize
    BY <1>3 DEF FillCount, PoolType
  <2> QED
    BY <1>1, <1>3, <2>1 DEF PoolType, listVars, pollVars
<1>5. FillInv'
  BY <1>1, <1>2 DEF FillCount, IInv, FillInv
<1>6. CountInv'
  <2> SUFFICES ASSUME pollAt # "reset"
               PROVE  nr' + 0 <= Cardinality(Linked(pool)) + BatchSize
    BY <1>1, <1>2 DEF FillCount, CountInv, pollVars
  <2>1. nr + filled <= Cardinality(Linked(pool)) + BatchSize
    BY DEF FillCount, IInv, CountInv
  <2>2. nr' = nr + filled /\ nr \in Nat /\ filled \in Nat
    BY <1>3 DEF FillCount, PoolType
  <2>3. Cardinality(Linked(pool)) \in Nat
    BY <1>3, ListSizes DEF Roots
  <2> QED
    BY <1>3, <2>1, <2>2, <2>3
<1>7. UpInv' /\ CloseInv'
  BY <1>1 DEF FillCount, IInv, UpInv, CloseInv, listVars, pollVars, upVars, rxVars
<1> QED
  BY <1>2, <1>4, <1>5, <1>6, <1>7 DEF IInv

LEMMA FillBatchSafe ==
  ASSUME IInv, ~oops, FillBatch
  PROVE  IInv'
<1>1. /\ fillAt = "test" /\ head = Null
      /\ PoolType /\ PointInv /\ RootInv /\ next \in Pointers
      /\ DOMAIN next = Node /\ Entry \subseteq Node
      /\ Null \notin Node /\ Null # Bad /\ Bad \notin Node
  BY NodeFacts DEF FillBatch, IInv, FillInv, PoolType, Pointers
<1>2. /\ pool' = pool /\ nr' = nr /\ poolWork' = poolWork /\ rxList' = rxList /\ rxWork' = rxWork
      /\ batch' = batch /\ upAt' = upAt /\ failed' = failed /\ oops' = oops
      /\ closing' = closing /\ UNCHANGED pollVars
      /\ pollAt' = pollAt /\ got' = got /\ entry' = entry /\ first' = first /\ final' = final
  BY DEF FillBatch, poolList, rxVars, pollVars, upVars
<1>3. PICK n \in 0 .. BatchSize :
       LET new == Batch(n)
       IN /\ Cardinality(new) = n
          /\ fillAt' = IF n = 0 THEN "idle" ELSE "add"
          /\ head' = IF n = 0 THEN Null ELSE CHOOSE e \in new : \A f \in new : e >= f
          /\ tail' = IF n = 0 THEN Null ELSE CHOOSE e \in new : \A f \in new : e <= f
          /\ filled' = n
          /\ skb' = [e \in Entry |-> IF e \in new THEN "empty" ELSE skb[e]]
          /\ next' = [e \in DOMAIN next |->
                        IF e \in new \ {tail'}
                        THEN CHOOSE f \in new : f < e /\ \A g \in new : g < e => g <= f
                        ELSE next[e]]
  BY DEF FillBatch
<1>4. PICK new : new = Batch(n)
  OBVIOUS
<1>5. /\ new \subseteq Entry /\ \A e \in new : skb[e] = "free" /\ next[e] = Null /\ IsHead(next, e)
      /\ IsFiniteSet(new)
  <2>1. new \subseteq Entry /\ \A e \in new : skb[e] = "free"
    BY <1>4 DEF Batch
  <2>2. IsFiniteSet(Entry)
    BY PoolAssumption, FS_Interval DEF Entry
  <2> QED
    BY <1>1, <2>1, <2>2, FS_Subset DEF PointInv
<1>6. CASE n = 0
  <2>1. new = {}
    BY <1>3, <1>4, <1>5, <1>6, FS_EmptySet
  <2>2. next' = next /\ skb' = skb
    <3>1. \A e \in Node : next'[e] = next[e]
      BY <1>1, <1>3, <1>4, <2>1
    <3>2. \A e \in Entry : skb'[e] = skb[e]
      BY <1>3, <1>4, <2>1
    <3>3. next' = [e \in Node |-> next'[e]] /\ next = [e \in Node |-> next[e]]
      BY <1>1, <1>3 DEF Pointers
    <3>4. skb' = [e \in Entry |-> skb'[e]] /\ skb = [e \in Entry |-> skb[e]]
      BY <1>1, <1>3 DEF PoolType
    <3> QED
      BY <3>1, <3>2, <3>3, <3>4
  <2>3. head' = Null /\ fillAt' = "idle" /\ filled' = 0
    BY <1>3, <1>6
  <2>4. UNCHANGED <<listVars, pool, rxList, head, batch, pollVars, failed, oops>>
    BY <1>1, <1>2, <2>2, <2>3 DEF listVars
  <2>5. /\ PointInv' /\ RootInv' /\ EmptyInv' /\ PollInv' /\ WholeInv'
        /\ Linked(pool)' = Linked(pool)
    BY <2>4, ListsSame
  <2>6. PoolType'
    <3>1. filled' \in 0 .. BatchSize
      BY <2>3, PoolAssumption
    <3> QED
      BY <1>1, <1>2, <2>2, <2>3, <3>1 DEF PoolType
  <2>7. FillInv' /\ CountInv'
    BY <1>1, <1>2, <2>3, <2>5 DEF IInv, FillInv, CountInv
  <2>8. UpInv' /\ CloseInv'
    BY <1>2, <2>2, <2>3 DEF IInv, UpInv, CloseInv
  <2> QED
    BY <2>5, <2>6, <2>7, <2>8 DEF IInv
<1>7. CASE n # 0
  <2>1. new # {}
    BY <1>3, <1>4, <1>7, FS_EmptySet
  <2>2. /\ next' \in Pointers /\ head' \in new /\ tail' \in new /\ next'[tail'] = Null
        /\ \A e \in Node \ new : next'[e] = next[e]
        /\ \A e \in new : next'[e] \in (new \ {head'}) \cup {Null}
        /\ \A d, e \in new : next'[d] = next'[e] /\ next'[d] \in Entry => d = e
        /\ Reach(next', head') = new
    <3>1. head' \in new /\ \A f \in new : f <= head'
      <4>1. \E e \in new : \A f \in new : e >= f
        BY <1>5, <2>1, Largest, NodeFacts
      <4>2. head' \in new /\ \A f \in new : head' >= f
        BY <1>3, <1>4, <1>7, <4>1
      <4> QED
        BY <1>5, <4>2, NodeFacts
    <3>2. tail' \in new /\ \A f \in new : tail' <= f
      <4>1. \E e \in new : \A f \in new : e <= f
        BY <1>5, <2>1, Least, NodeFacts
      <4> QED
        BY <1>3, <1>4, <1>7, <4>1
    <3>3. next' = [e \in Node |->
                     IF e \in new \ {tail'}
                     THEN CHOOSE f \in new : f < e /\ \A g \in new : g < e => g <= f
                     ELSE next[e]]
      BY <1>1, <1>3, <1>4
    <3>4. /\ DOMAIN next' = Node /\ next' = [e \in Node |-> next'[e]]
          /\ \A e \in Node \ new : next'[e] = next[e]
          /\ next'[tail'] = Null
      BY <1>1, <1>5, <3>2, <3>3
    <3>5. \A e \in new \ {tail'} : next'[e] = Lower(new, e)
      BY <1>1, <1>5, <3>3 DEF Lower
    <3>6. PICK hd, tl, mx : hd = head' /\ tl = tail' /\ mx = next'
      OBVIOUS
    <3>7. PICK nx : nx = next
      OBVIOUS
    <3>8. /\ nx \in Pointers /\ new \subseteq Entry
          /\ hd \in new /\ (\A f \in new : f <= hd) /\ tl \in new /\ (\A f \in new : tl <= f)
          /\ DOMAIN mx = Node /\ mx = [e \in Node |-> mx[e]] /\ mx[tl] = Null
          /\ (\A e \in Node \ new : mx[e] = nx[e])
          /\ \A e \in new \ {tl} : mx[e] = Lower(new, e)
      BY <1>1, <1>5, <3>1, <3>2, <3>4, <3>5, <3>6, <3>7
    <3>9. /\ mx \in Pointers
          /\ \A e \in new : mx[e] \in (new \ {hd}) \cup {Null}
          /\ \A d, e \in new : mx[d] = mx[e] /\ mx[d] \in Entry => d = e
          /\ Reach(mx, hd) = new
      BY <3>8, BatchChain, SMTT(60)
    <3> QED
      BY <3>1, <3>2, <3>4, <3>6, <3>9
  <2>3. /\ \A e \in Entry : skb'[e] = IF e \in new THEN "empty" ELSE skb[e]
        /\ skb' \in [Entry -> {"free", "empty", "full", "given"}]
        /\ fillAt' = "add" /\ filled' = n /\ Cardinality(new) = n
    BY <1>1, <1>3, <1>4, <1>7 DEF PoolType
  <2>4. PointInv'
    <3>1. ASSUME NEW x \in Node, NEW y \in Node, next'[x] = next'[y], next'[x] \in Entry
          PROVE  x = y
      <4>1. CASE x \in new /\ y \in new
        BY <2>2, <3>1, <4>1
      <4>2. CASE x \notin new /\ y \notin new
        BY <1>1, <2>2, <3>1, <4>2 DEF PointInv, Single
      <4>3. CASE x \in new /\ y \notin new
        <5>1. next[y] = next'[x] /\ next'[x] \in new
          BY <1>1, <2>2, <3>1, <4>3
        <5> QED
          BY <1>5, <5>1 DEF IsHead
      <4>4. CASE x \notin new /\ y \in new
        <5>1. next[x] = next'[y] /\ next'[y] \in new
          BY <1>1, <2>2, <3>1, <4>4
        <5> QED
          BY <1>5, <5>1 DEF IsHead
      <4> QED
        BY <4>1, <4>2, <4>3, <4>4
    <3>2. ASSUME NEW e \in Entry, skb'[e] = "free"
          PROVE  next'[e] = Null /\ IsHead(next', e)
      <4>1. e \notin new /\ skb[e] = "free"
        BY <2>3, <3>2
      <4>2. next[e] = Null /\ IsHead(next, e)
        BY <1>1, <4>1 DEF PointInv
      <4> QED
        BY <1>1, <2>2, <4>1, <4>2 DEF IsHead
    <3>3. ASSUME NEW e \in Entry, skb'[e] = "empty" PROVE next'[e] # Bad
      BY <1>1, <1>5, <2>2, <2>3, <3>3 DEF PointInv
    <3> QED
      BY <3>1, <3>2, <3>3 DEF PointInv, Single
  <2>5. ASSUME NEW a, Live(a)
        PROVE  /\ Live(a)' /\ Reach(next', a) = Linked(a) /\ a # head'
               /\ \A x \in Linked(a) : next'[x] = next[x] /\ (x \in Entry => skb'[x] = skb[x])
    <3>1. /\ a \in Linked(a) /\ Linked(a) \subseteq Node
          /\ \A x \in Linked(a) : x \notin new
      BY <1>1, <1>5, <2>5, LiveLists
    <3>2. \A x \in Linked(a) : next'[x] = next[x] /\ (x \in Entry => skb'[x] = skb[x])
      BY <2>2, <2>3, <3>1
    <3>3. Reach(next', a) = Linked(a)
      BY <1>1, <2>2, <3>2, ReachSame DEF Linked
    <3>4. IsHead(next', a)
      BY <1>1, <2>2, <2>5, <3>1 DEF Live, IsHead
    <3>5. Live(a)'
      BY <2>5, <3>1, <3>2, <3>4 DEF Live
    <3> QED
      BY <2>2, <3>1, <3>2, <3>3, <3>5
  <2>6. Live(head)'
    <3>1. IsHead(next', head')
      BY <1>1, <1>5, <2>2 DEF IsHead
    <3> QED
      BY <1>5, <2>2, <2>3, <3>1 DEF Live
  <2>7. Roots' \subseteq Roots \cup {head'} /\ head' \notin Roots /\ head' \in Entry
    <3>1. head' \notin Roots
      BY <1>1, <1>5, <2>2, <2>5, RootLists
    <3> QED
      BY <1>2, <1>5, <2>2, <3>1 DEF Roots
  <2>8. \A r \in Roots : /\ Reach(next', r) = Linked(r)
                         /\ \A x \in Linked(r) : next'[x] = next[x] /\ skb'[x] = skb[x]
    <3> SUFFICES ASSUME NEW r \in Roots
                 PROVE  /\ Reach(next', r) = Linked(r)
                        /\ \A x \in Linked(r) : next'[x] = next[x] /\ skb'[x] = skb[x]
      OBVIOUS
    <3>1. CASE r = Null
      <4>1. Linked(r) = {} /\ Reach(next', r) = {}
        BY <1>1, <2>2, <3>1, ReachNone DEF Linked
      <4> QED
        BY <4>1
    <3>2. CASE r # Null
      BY <1>1, <2>5, <3>2, RootLists
    <3> QED
      BY <3>1, <3>2
  <2>9. /\ Linked(pool)' = Linked(pool) /\ Linked(head)' = new
        /\ Linked(got)' = Linked(got) /\ Linked(rxList)' = Linked(rxList)
        /\ Linked(batch)' = Linked(batch)
    BY <1>2, <2>2, <2>8 DEF Linked, Roots
  <2>10. /\ PollInv' /\ Linked(next[Static])' = Linked(next[Static])
         /\ ~failed => Packed' /\ (Busy' => entry' # Null /\ (first' # Null => next'[Static] = first'))
    <3>1. ASSUME NEW h, Own(h)
          PROVE  Own(h)' /\ \A x \in Linked(h) : next'[x] = next[x] /\ (x \in Entry => skb'[x] = skb[x])
      BY <2>5, <2>7, <3>1 DEF Own
    <3>2. Busy /\ first # Null =>
            skb'[first] # "free" /\ first \notin Roots' /\ \A x \in Entry : next'[x] # first
      <4> SUFFICES ASSUME Busy, first # Null
                   PROVE  skb'[first] # "free" /\ first \notin Roots' /\ \A x \in Entry : next'[x] # first
        OBVIOUS
      <4>1. first \in Entry /\ skb[first] # "free" /\ first \notin Roots
            /\ \A x \in Entry : next[x] # first
        BY DEF IInv, PollInv, PacketInv, PoolType
      <4>2. first \notin new
        BY <1>5, <4>1
      <4> QED
        BY <1>1, <2>2, <2>3, <2>7, <4>1, <4>2
    <3> QED
      BY <1>2, <2>2, <3>1, <3>2, PollFrame
  <2>11. PoolType'
    BY <1>1, <1>2, <2>2, <2>3, <2>7 DEF PoolType
  <2>12. RootInv'
    <3>1. \A e \in Roots' \ {Null} : Live(e)'
      <4>1. \A e \in Roots \ {Null} : Live(e)'
        BY <1>1, <2>5, RootLists
      <4>2. \A e \in Roots' \ {Null} : e \in Roots \ {Null} \/ e = head'
        BY <2>7
      <4> QED
        BY <2>6, <4>1, <4>2
    <3>2. head' \notin {rxList, batch, got} /\ pool # head'
      BY <2>7 DEF Roots
    <3> QED
      BY <1>1, <1>2, <3>1, <3>2 DEF RootInv
  <2>13. EmptyInv' /\ FillInv' /\ CountInv'
    <3>1. EmptyInv'
      BY <1>5, <2>3, <2>8, <2>9 DEF IInv, EmptyInv, Roots
    <3>2. FillInv'
      BY <1>1, <2>2, <2>3, <2>7, <2>9, NodeFacts DEF FillInv
    <3>3. CountInv'
      BY <1>1, <1>2, <2>3, <2>9 DEF IInv, CountInv
    <3> QED
      BY <3>1, <3>2, <3>3
  <2>14. UpInv' /\ CloseInv'
    <3>1. next'[Static] = next[Static]
      BY <1>1, <1>5, <2>2, NodeFacts DEF Node
    <3> QED
      BY <1>1, <1>2, <3>1 DEF IInv, UpInv, CloseInv
  <2>15. WholeInv'
    <3> SUFFICES ASSUME ~failed PROVE QueueFull' /\ NoneLost'
      BY <1>2, <2>10 DEF WholeInv
    <3>1. NoneLost /\ QueueFull
      BY DEF IInv, WholeInv
    <3>2. QueueFull'
      BY <2>8, <2>9, <3>1 DEF QueueFull, Roots
    <3>3. NoneLost'
      <4>1. head = Null /\ Linked(head) = {}
        BY <1>1, ReachNone DEF Linked
      <4> QED
        BY <2>3, <2>9, <2>10, <3>1, <4>1 DEF NoneLost
    <3> QED
      BY <3>2, <3>3
  <2> QED
    BY <2>4, <2>10, <2>11, <2>12, <2>13, <2>14, <2>15 DEF IInv
<1> QED
  BY <1>6, <1>7

LEMMA FillAddSafe ==
  ASSUME IInv, ~oops, FillAdd
  PROVE  IInv'
<1>1. /\ fillAt = "add" /\ head # Null /\ tail \in Linked(head) /\ next[tail] = Null
      /\ Cardinality(Linked(head)) = filled
      /\ PoolType /\ PointInv /\ RootInv /\ next \in Pointers
      /\ DOMAIN next = Node /\ Entry \subseteq Node
      /\ Null \notin Node /\ Null # Bad /\ Bad \notin Node
      /\ pool \in Roots /\ head \in Roots /\ pool \in Entry \cup {Null} /\ head \in Entry
  BY NodeFacts DEF FillAdd, IInv, FillInv, PoolType, Pointers, Roots
<1>2. /\ pool' = head /\ head' = Null /\ skb' = skb /\ nr' = nr /\ poolWork' = poolWork
      /\ rxList' = rxList /\ rxWork' = rxWork /\ filled' = filled /\ fillAt' = "count"
      /\ batch' = batch /\ upAt' = upAt /\ failed' = failed /\ oops' = oops
      /\ closing' = closing /\ UNCHANGED pollVars
      /\ pollAt' = pollAt /\ got' = got /\ entry' = entry /\ first' = first /\ final' = final
  BY DEF FillAdd, poolList, rxVars, pollVars, upVars
<1>3. /\ Live(head) /\ Linked(head) \subseteq Entry /\ tail \in Entry
      /\ pool # Null => Live(pool) /\ pool # head
      /\ Linked(head) \cap Linked(pool) = {}
  BY <1>1, RootLists, RootsApart DEF RootInv
<1>4. /\ next' = [next EXCEPT ![tail] = pool]
      /\ next'[tail] = pool /\ \A x \in Node : x # tail => next'[x] = next[x]
      /\ next' \in Pointers
  <2>1. next' = [next EXCEPT ![tail] = pool]
    BY DEF FillAdd
  <2> QED
    BY <1>1, <1>3, <2>1 DEF Pointers
<1>5. Reach(next', head) = Linked(head) \cup Linked(pool)
  <2>1. PICK nx, mx, e, x, g : nx = next /\ mx = next' /\ e = head /\ x = tail /\ g = pool
    OBVIOUS
  <2>2. /\ nx \in Pointers /\ x \in Reach(nx, e) /\ nx[x] = Null
        /\ g \in Entry \cup {Null, Bad} /\ x \notin Reach(nx, g)
        /\ mx \in Pointers /\ mx[x] = g /\ \A y \in Node \ {x} : mx[y] = nx[y]
    BY <1>1, <1>3, <1>4, <2>1 DEF Linked
  <2>3. Reach(mx, e) = Reach(nx, e) \cup Reach(nx, g)
    BY <2>2, ReachAppend
  <2> QED
    BY <2>1, <2>3 DEF Linked
<1>6. ASSUME NEW a, Live(a), a # head
      PROVE  /\ Reach(next', a) = Linked(a)
             /\ \A x \in Linked(a) : next'[x] = next[x]
             /\ a # pool => Live(a)'
  <2>1. Linked(a) \subseteq Node /\ tail \notin Linked(a) /\ IsHead(next, a)
    BY <1>1, <1>3, <1>6, LiveLists DEF Live
  <2>2. \A x \in Linked(a) : next'[x] = next[x]
    BY <1>4, <2>1
  <2>3. Reach(next', a) = Linked(a)
    BY <1>1, <1>4, <2>2, ReachSame DEF Linked
  <2>4. a # pool => IsHead(next', a)
    BY <1>4, <2>1 DEF IsHead
  <2> QED
    BY <1>2, <1>6, <2>2, <2>3, <2>4 DEF Live
<1>7. ASSUME NEW a, a = head PROVE Live(a)'
  <2>1. IsHead(next', a)
    <3>1. a \in Node /\ (\A x \in Node : next[x] # a) /\ pool # a
      BY <1>1, <1>3, <1>7 DEF Live, IsHead
    <3> QED
      BY <1>4, <3>1 DEF IsHead
  <2> QED
    BY <1>2, <1>3, <1>7, <2>1 DEF Live
<1>8. Roots' \subseteq Roots \cup {Null} /\ pool \notin Roots' \ {Null}
  BY <1>1, <1>2, <1>3 DEF Roots, RootInv
<1>9. PointInv'
  <2>1. Single(next')
    <3> SUFFICES ASSUME NEW x \in Node, NEW y \in Node, next'[x] = next'[y], next'[x] \in Entry
                 PROVE  x = y
      BY DEF Single
    <3>1. CASE x # tail /\ y # tail
      BY <1>1, <1>4, <3>1 DEF PointInv, Single
    <3>2. CASE x = tail \/ y = tail
      BY <1>3, <1>4, <3>2, NodeFacts DEF Live, IsHead
    <3> QED
      BY <3>1, <3>2
  <2>2. ASSUME NEW e \in Entry, skb'[e] = "free"
        PROVE  next'[e] = Null /\ IsHead(next', e)
    <3>1. next[e] = Null /\ IsHead(next, e) /\ skb[e] = "free"
      BY <1>1, <1>2, <2>2 DEF PointInv
    <3>2. e # tail /\ e # pool
      BY <1>1, <1>3, <3>1, LiveLists, NodeFacts DEF Live
    <3> QED
      BY <1>1, <1>4, <3>1, <3>2 DEF IsHead
  <2>3. ASSUME NEW e \in Entry, skb'[e] = "empty" PROVE next'[e] # Bad
    BY <1>1, <1>2, <1>4, <2>3, NodeFacts DEF PointInv
  <2> QED
    BY <2>1, <2>2, <2>3 DEF PointInv
<1>10. ASSUME NEW r \in Roots, r # head PROVE Reach(next', r) = Linked(r)
  <2>1. CASE r = Null
    BY <1>1, <1>4, <2>1, ReachNone DEF Linked
  <2>2. CASE r # Null
    BY <1>1, <1>6, <1>10, <2>2, RootLists
  <2> QED
    BY <2>1, <2>2
<1>11. /\ Linked(pool)' = Linked(head) \cup Linked(pool) /\ Linked(head)' = {}
       /\ Linked(got)' = Linked(got) /\ Linked(rxList)' = Linked(rxList)
       /\ Linked(batch)' = Linked(batch)
  <2>1. got # head /\ rxList # head /\ batch # head
    BY <1>1 DEF RootInv
  <2>2. Reach(next', Null) = {}
    BY <1>1, <1>4, ReachNone
  <2> QED
    BY <1>2, <1>5, <1>10, <2>1, <2>2 DEF Linked, Roots
<1>12. /\ PollInv' /\ Linked(next[Static])' = Linked(next[Static])
       /\ ~failed => Packed' /\ (Busy' => entry' # Null /\ (first' # Null => next'[Static] = first'))
  <2>1. ASSUME NEW h, Own(h)
        PROVE  Own(h)' /\ \A x \in Linked(h) : next'[x] = next[x] /\ (x \in Entry => skb'[x] = skb[x])
    <3>1. Live(h) /\ h # head /\ h # pool /\ h # Null
      BY <1>1, <2>1 DEF Own, Live, IsHead
    <3>2. h \notin Roots'
      BY <1>8, <2>1, <3>1 DEF Own
    <3> QED
      BY <1>2, <1>6, <3>1, <3>2 DEF Own
  <2>2. Busy /\ first # Null =>
          skb'[first] # "free" /\ first \notin Roots' /\ \A x \in Entry : next'[x] # first
    <3> SUFFICES ASSUME Busy, first # Null
                 PROVE  skb'[first] # "free" /\ first \notin Roots' /\ \A x \in Entry : next'[x] # first
      OBVIOUS
    <3>1. skb[first] # "free" /\ first \notin Roots /\ \A x \in Entry : next[x] # first
      BY DEF IInv, PollInv, PacketInv
    <3> QED
      BY <1>1, <1>2, <1>4, <1>8, <3>1
  <2> QED
    BY <1>2, <1>4, <2>1, <2>2, PollFrame
<1>13. PoolType'
  BY <1>1, <1>2, <1>4 DEF PoolType
<1>14. RootInv'
  <2>1. \A e \in Roots' \ {Null} : Live(e)'
    <3> SUFFICES ASSUME NEW e \in Roots' \ {Null} PROVE Live(e)'
      OBVIOUS
    <3>1. e \in Roots /\ e # pool /\ Live(e)
      BY <1>1, <1>8 DEF RootInv
    <3> QED
      BY <1>6, <1>7, <3>1
  <2> QED
    BY <1>1, <1>2, <2>1 DEF RootInv
<1>15. EmptyInv' /\ FillInv'
  BY <1>2, <1>11 DEF IInv, EmptyInv, FillInv
<1>16. CountInv'
  <2> SUFFICES ASSUME pollAt # "reset"
               PROVE  nr + filled <= Cardinality(Linked(head) \cup Linked(pool)) + BatchSize
    BY <1>2, <1>11 DEF CountInv
  <2>1. /\ IsFiniteSet(Linked(head)) /\ Cardinality(Linked(head)) \in Nat
        /\ IsFiniteSet(Linked(pool)) /\ Cardinality(Linked(pool)) \in Nat
    BY <1>1, ListSizes
  <2>2. Cardinality(Linked(head) \cup Linked(pool))
          = Cardinality(Linked(head)) + Cardinality(Linked(pool)) - 0
    <3>1. Cardinality(Linked(head) \cup Linked(pool))
            = Cardinality(Linked(head)) + Cardinality(Linked(pool))
              - Cardinality(Linked(head) \cap Linked(pool))
      BY <2>1, FS_Union
    <3> QED
      BY <1>3, <3>1, FS_EmptySet
  <2>3. nr + 0 <= Cardinality(Linked(pool)) + BatchSize
    BY <1>1 DEF IInv, CountInv
  <2>4. nr \in Nat /\ filled \in Nat /\ BatchSize \in Nat
    BY <1>1, PoolAssumption DEF PoolType
  <2> QED
    BY <1>1, <2>1, <2>2, <2>3, <2>4
<1>17. UpInv' /\ CloseInv'
  <2>1. next'[Static] = next[Static]
    BY <1>3, <1>4, NodeFacts DEF Node
  <2> QED
    BY <1>1, <1>2, <2>1 DEF IInv, UpInv, CloseInv
<1>18. WholeInv'
  <2> SUFFICES ASSUME ~failed PROVE QueueFull' /\ NoneLost'
    BY <1>2, <1>12 DEF WholeInv
  <2>1. NoneLost /\ QueueFull
    BY DEF IInv, WholeInv
  <2> QED
    BY <1>2, <1>11, <1>12, <2>1 DEF QueueFull, NoneLost
<1> QED
  BY <1>9, <1>12, <1>13, <1>14, <1>15, <1>16, <1>17, <1>18 DEF IInv

-----------------------------------------------------------------------------
(* The poll: a page begins, and the pool is taken. *)
LEMMA PollPageSafe ==
  ASSUME IInv, ~oops, PollPage
  PROVE  IInv'
<1>1. /\ next' = next /\ skb' = skb /\ pool' = pool /\ nr' = nr /\ poolWork' = poolWork
      /\ head' = head /\ tail' = tail /\ filled' = filled /\ fillAt' = fillAt
      /\ rxList' = rxList /\ rxWork' = rxWork /\ batch' = batch /\ upAt' = upAt
      /\ failed' = failed /\ closing' = closing
  BY DEF PollPage, listVars, poolList, rxVars, fillVars, upVars
<1>2. /\ pollAt = "idle" /\ closing = "open" /\ pollAt' = "alloc" /\ entry' = Static
      /\ first' = Null /\ final' = Null /\ got' = Null /\ oops' = (next[Static] = Bad)
      /\ got = Null /\ PoolType /\ PointInv /\ RootInv
  BY DEF PollPage, IInv, PollInv
<1>3. /\ Roots' = Roots /\ (\A e : Live(e)' = Live(e)) /\ \A e : Own(e)' = Own(e)
      /\ Last = Static /\ Last' = Static /\ Busy'
  BY <1>1, <1>2 DEF Roots, Live, Own, Last, Busy
<1>4. \A e : Linked(e)' = Linked(e)
  BY <1>1 DEF Linked
<1>5. /\ Linked(pool)' = Linked(pool) /\ Linked(head)' = Linked(head)
      /\ Linked(rxList)' = Linked(rxList) /\ Linked(batch)' = Linked(batch)
      /\ Linked(got)' = Linked(got) /\ Linked(next[Static])' = Linked(next[Static])
      /\ Linked(next[Last])' = Linked(next[Last])
  BY <1>1, <1>2, <1>3 DEF Linked
<1>6. PointInv' /\ RootInv' /\ EmptyInv'
  <2>1. PointInv'
    BY <1>1, <1>2 DEF PointInv
  <2>2. RootInv'
    BY <1>1, <1>2, <1>3 DEF RootInv
  <2>3. EmptyInv'
    BY <1>1, <1>5 DEF IInv, EmptyInv
  <2> QED
    BY <2>1, <2>2, <2>3
<1>7. PoolType'
  <2>1. Static \in Node /\ oops' \in BOOLEAN
    BY DEF Node, PollPage
  <2> QED
    BY <1>1, <1>2, <2>1 DEF PoolType
<1>8. FillInv' /\ UpInv' /\ CloseInv' /\ CountInv'
  BY <1>1, <1>2, <1>5 DEF IInv, FillInv, UpInv, CloseInv, CountInv
<1>9. PollInv'
  <2>1. (\E h : Own(h) /\ (h = Static \/ failed) /\ Last \in Linked(h))'
    <3>1. Own(Static) /\ Static \in Linked(Static)
      BY <1>2, StaticLists
    <3>2. Own(Static)' /\ Static \in Linked(Static)'
      BY <1>3, <1>4, <3>1
    <3> QED
      BY <1>3, <1>4, <3>1
  <2>2. (entry # Null => oops \/ next[entry] # Bad)'
    BY <1>1, <1>2
  <2>3. PacketInv'
    BY <1>2, <1>3, <2>1, <2>2 DEF PacketInv
  <2>4. \A x \in Linked(next[Last]) : skb[x] = "empty"
    BY DEF IInv, PollInv
  <2> QED
    BY <1>1, <1>2, <1>5, <2>3, <2>4 DEF PollInv
<1>10. WholeInv'
  <2>1. Static # Null
    BY PoolAssumption DEF Static, Null
  <2> QED
    BY <1>1, <1>2, <1>3, <1>5, <2>1 DEF IInv, WholeInv, Packed, QueueFull, NoneLost
<1> QED
  BY <1>6, <1>7, <1>8, <1>9, <1>10 DEF IInv

LEMMA PollTakeSafe ==
  ASSUME IInv, ~oops, PollTake
  PROVE  IInv'
<1>1. /\ next' = next /\ skb' = skb /\ nr' = nr /\ poolWork' = poolWork
      /\ head' = head /\ tail' = tail /\ filled' = filled /\ fillAt' = fillAt
      /\ rxList' = rxList /\ rxWork' = rxWork /\ batch' = batch /\ upAt' = upAt
      /\ failed' = failed /\ closing' = closing /\ oops' = oops
      /\ entry' = entry /\ first' = first /\ final' = final
  BY DEF PollTake, listVars, rxVars, fillVars, upVars
<1>2. /\ pollAt = "alloc" /\ (entry # Null => next[entry] = Null) /\ pool # Null
      /\ got' = pool /\ pool' = Null /\ pollAt' = "reset"
      /\ got = Null /\ PoolType /\ PointInv /\ RootInv /\ next \in Pointers /\ Null \notin Node
  BY NodeFacts DEF PollTake, AtEnd, IInv, PollInv, PoolType
<1>3. Busy /\ Busy' /\ Last' = Last /\ (\A e : Live(e)' = Live(e)) /\ Roots' \subseteq Roots \cup {Null}
  BY <1>1, <1>2 DEF Busy, Last, Live, Roots
<1>4. ASSUME NEW h, Own(h) PROVE Own(h)'
  <2>1. h # Null
    BY <1>2, <1>4 DEF Own, Live, IsHead
  <2> QED
    BY <1>3, <1>4, <2>1 DEF Own
<1>5. /\ Linked(pool)' = {} /\ Linked(got)' = Linked(pool) /\ Linked(got) = {}
      /\ Linked(head)' = Linked(head) /\ Linked(rxList)' = Linked(rxList)
      /\ Linked(batch)' = Linked(batch) /\ Linked(next[Static])' = Linked(next[Static])
      /\ Linked(next[Last])' = Linked(next[Last]) /\ \A e : Linked(e)' = Linked(e)
  BY <1>1, <1>2, <1>3, ReachNone DEF Linked
<1>6. PoolType' /\ PointInv' /\ EmptyInv'
  BY <1>1, <1>2, <1>5 DEF IInv, PoolType, PointInv, EmptyInv
<1>7. RootInv'
  <2>1. \A e \in Roots' \ {Null} : Live(e)'
    BY <1>2, <1>3 DEF RootInv
  <2> QED
    BY <1>1, <1>2, <2>1 DEF RootInv
<1>8. FillInv' /\ UpInv' /\ CloseInv' /\ CountInv'
  BY <1>1, <1>2, <1>5 DEF IInv, FillInv, UpInv, CloseInv, CountInv
<1>9. PollInv'
  <2>1. PacketInv
    BY <1>3 DEF IInv, PollInv
  <2>2. PICK h : Own(h) /\ (h = Static \/ failed) /\ Last \in Linked(h)
    BY <2>1 DEF PacketInv
  <2>3. (\E a : Own(a) /\ (a = Static \/ failed) /\ Last \in Linked(a))'
    <3>1. Own(h)' /\ (h = Static \/ failed') /\ Last' \in Linked(h)'
      BY <1>1, <1>3, <1>4, <1>5, <2>2
    <3> QED
      BY <3>1
  <2>4. (first # Null => /\ skb[first] # "free" /\ first \notin Roots
                         /\ \A x \in Entry : next[x] # first)'
    BY <1>1, <1>3, <2>1 DEF PacketInv
  <2>5. PacketInv'
    BY <1>1, <1>2, <1>3, <2>1, <2>3, <2>4 DEF PacketInv
  <2> QED
    BY <1>1, <1>2, <1>5, <2>5 DEF IInv, PollInv
<1>10. WholeInv'
  BY <1>1, <1>2, <1>3, <1>5 DEF IInv, WholeInv, Packed, QueueFull, NoneLost
<1> QED
  BY <1>6, <1>7, <1>8, <1>9, <1>10 DEF IInv

LEMMA PollQueueSafe ==
  ASSUME IInv, ~oops, PollQueue
  PROVE  IInv'
<1>1. /\ next' = next /\ skb' = skb /\ pool' = pool /\ nr' = nr /\ poolWork' = poolWork
      /\ head' = head /\ tail' = tail /\ filled' = filled /\ fillAt' = fillAt
      /\ rxList' = rxList /\ batch' = batch /\ upAt' = upAt /\ got' = got
      /\ failed' = failed /\ closing' = closing /\ oops' = oops
  BY DEF PollQueue, listVars, poolList, fillVars, upVars
<1>2. /\ pollAt = "queue" /\ pollAt' = "idle" /\ entry' = Null /\ first' = Null /\ final' = Null
      /\ PoolType /\ PointInv /\ RootInv
  BY DEF PollQueue, IInv
<1>3. /\ Roots' = Roots /\ (\A e : Live(e)' = Live(e)) /\ ~Busy /\ ~Busy'
      /\ Last' = Static /\ Last = Static
  BY <1>1, <1>2 DEF Roots, Live, Last, Busy
<1>4. /\ Linked(pool)' = Linked(pool) /\ Linked(head)' = Linked(head)
      /\ Linked(rxList)' = Linked(rxList) /\ Linked(batch)' = Linked(batch)
      /\ Linked(got)' = Linked(got) /\ Linked(next[Static])' = Linked(next[Static])
      /\ Linked(next[Last])' = Linked(next[Last])
  BY <1>1, <1>3 DEF Linked
<1>5. PoolType' /\ PointInv' /\ RootInv' /\ EmptyInv'
  BY <1>1, <1>2, <1>3, <1>4 DEF IInv, PoolType, PointInv, RootInv, EmptyInv
<1>6. FillInv' /\ UpInv' /\ CountInv'
  BY <1>1, <1>2, <1>4 DEF IInv, FillInv, UpInv, CountInv
<1>7. PollInv' /\ CloseInv'
  BY <1>1, <1>2, <1>3, <1>4 DEF IInv, PollInv, CloseInv
<1>8. WholeInv'
  BY <1>1, <1>2, <1>3, <1>4 DEF IInv, WholeInv, Packed, QueueFull, NoneLost
<1> QED
  BY <1>5, <1>6, <1>7, <1>8 DEF IInv

(* The poll: a packet is copied to the skb of e, whose list goes on with   *)
(* empty ones.                                                             *)
LEMMA PacketSafe ==
  ASSUME IInv, ~oops, Busy, pollAt # "add", NEW e \in Entry, Packet(e), got' = Null,
         UNCHANGED <<rxVars, fillVars, upVars, failed, oops, closing>>, pool' = pool, nr' \in Nat,
         next' \in Pointers, PointInv', CountInv',
         \A r \in Roots \ {Null, got} :
           r # e /\ Live(r)' /\ \A x \in Linked(r) : x # e /\ next'[x] = next[x],
         next'[e] # Bad,
         \A x \in Reach(next', next'[e]) : x # e /\ x \in Entry /\ skb[x] = "empty",
         \E h : IsHead(next', h) /\ (h \in Entry => h = e \/ skb[h] # "free")
                /\ h \notin Roots \ {got} /\ (h = Static \/ failed) /\ e \in Reach(next', h),
         first = Null => \A x \in Entry : next'[x] # e,
         first # Null => first # got /\ \A x \in Entry : next'[x] # first,
         ~failed => next'[Static] = IF first = Null THEN e ELSE first,
         ~failed => \A x \in Reach(next', next'[Static]) :
           x \in Reach(next', next'[e]) \/ x = e \/ (x \in Entry /\ skb[x] = "full"),
         ~failed => e \in Reach(next', next'[Static])
                    /\ Linked(next[Static]) \cup Linked(got) \subseteq Reach(next', next'[Static]),
         \A x \in Linked(rxList) : x # e
  PROVE  IInv'
<1>1. /\ entry' = e /\ first' = (IF first = Null THEN e ELSE first) /\ final' = e
      /\ skb' = [x \in Entry |-> IF x = e THEN "full" ELSE skb[x]]
      /\ pollAt' \in {"alloc", "add"} /\ e # Null
      /\ PoolType /\ PointInv /\ RootInv /\ PacketInv /\ Null \notin Node
  BY NodeFacts DEF Packet, IInv, PollInv
<1>2. /\ rxList' = rxList /\ rxWork' = rxWork /\ fillAt' = fillAt /\ head' = head
      /\ tail' = tail /\ filled' = filled /\ upAt' = upAt /\ batch' = batch
      /\ failed' = failed /\ oops' = oops /\ closing' = closing /\ pool' = pool /\ got' = Null
  BY DEF rxVars, fillVars, upVars
<1>3. Busy' /\ Last' = e
  BY <1>1 DEF Busy, Last
<1>4. /\ Roots' \subseteq Roots \cup {Null}
      /\ \A r \in Roots' \ {Null} : r \in Roots \ {Null, got}
      /\ pool # Null => pool # got
      /\ head # Null => head # got
      /\ rxList # Null => rxList # got
      /\ batch # Null => batch # got
  BY <1>1, <1>2 DEF Roots, RootInv
<1>5. \A x \in Entry : skb'[x] = IF x = e THEN "full" ELSE skb[x]
  BY <1>1
<1>6. ASSUME NEW r \in Roots, r = Null \/ r # got
      PROVE  /\ Reach(next', r) = Linked(r)
             /\ \A x \in Linked(r) : x \in Entry /\ x # e
  <2>1. CASE r = Null
    <3>1. Linked(r) = {} /\ Reach(next', r) = {}
      BY <1>1, <2>1, ReachNone DEF Linked, PoolType
    <3> QED
      BY <3>1
  <2>2. CASE r # Null
    <3>1. \A x \in Linked(r) : x # e /\ next'[x] = next[x]
      BY <1>6, <2>2
    <3>2. Reach(next', r) = Linked(r)
      BY <1>1, <3>1, ReachSame DEF Linked, PoolType
    <3> QED
      BY <1>1, <3>1, <3>2, RootLists
  <2> QED
    BY <2>1, <2>2
<1>7. /\ Linked(pool)' = Linked(pool) /\ Linked(head)' = Linked(head)
      /\ Linked(rxList)' = Linked(rxList) /\ Linked(batch)' = Linked(batch)
      /\ Linked(got)' = {}
  <2>1. Reach(next', Null) = {}
    BY <1>1, ReachNone
  <2> QED
    BY <1>2, <1>4, <1>6, <2>1 DEF Linked, Roots
<1>8. /\ \A x \in Linked(pool) \cup Linked(head) \cup Linked(rxList) \cup Linked(batch) :
           x \in Entry /\ x # e /\ skb'[x] = skb[x]
  BY <1>4, <1>5, <1>6 DEF Roots
<1>9. PoolType'
  <2>1. first' \in Entry \cup {Null} /\ skb' \in [Entry -> {"free", "empty", "full", "given"}]
    BY <1>1 DEF PoolType
  <2>2. entry' \in Node \cup {Null} /\ final' \in Entry
    BY <1>1 DEF Node
  <2> QED
    BY <1>1, <1>2, <2>1, <2>2 DEF PoolType
<1>10. RootInv'
  <2>1. \A r \in Roots' \ {Null} : Live(r)'
    BY <1>4
  <2> QED
    BY <1>1, <1>2, <2>1 DEF RootInv
<1>11. EmptyInv'
  BY <1>7, <1>8 DEF IInv, EmptyInv
<1>12. FillInv'
  <2>1. CASE fillAt = "add"
    <3>1. head # Null /\ tail \in Linked(head) /\ next[tail] = Null
          /\ Cardinality(Linked(head)) = filled
      BY <2>1 DEF IInv, FillInv
    <3>2. next'[tail] = next[tail]
      BY <1>4, <3>1 DEF Roots
    <3> QED
      BY <1>2, <1>7, <2>1, <3>1, <3>2 DEF FillInv
  <2>2. CASE fillAt # "add"
    BY <1>2, <2>2 DEF IInv, FillInv
  <2> QED
    BY <2>1, <2>2
<1>13. UpInv' /\ CloseInv'
  <2>1. closing = "open"
    BY DEF IInv, CloseInv, Busy
  <2> QED
    BY <1>2, <2>1 DEF IInv, UpInv, CloseInv
<1>14. PacketInv'
  <2>1. (\E h : Own(h) /\ (h = Static \/ failed) /\ Last \in Linked(h))'
    <3>1. PICK h : IsHead(next', h) /\ (h \in Entry => h = e \/ skb[h] # "free")
                   /\ h \notin Roots \ {got} /\ (h = Static \/ failed) /\ e \in Reach(next', h)
      OBVIOUS
    <3>2. h # Null
      BY <1>1, <3>1 DEF IsHead
    <3>3. h \notin Roots'
      BY <1>4, <3>1, <3>2
    <3>4. Live(h)'
      BY <1>5, <3>1 DEF Live
    <3>5. Own(h)' /\ (h = Static \/ failed') /\ Last' \in Linked(h)'
      BY <1>2, <1>3, <3>1, <3>3, <3>4 DEF Own, Linked
    <3> QED
      BY <3>5
  <2>2. skb'[e] = "full"
    BY <1>5
  <2>3. CASE first = Null
    <3>1. e \notin Roots'
      BY <1>1, <1>4
    <3> QED
      BY <1>1, <1>2, <1>3, <2>1, <2>2, <2>3, <3>1 DEF PacketInv
  <2>4. CASE first # Null
    <3>1. skb[first] # "free" /\ first \notin Roots /\ first \in Entry
      BY <1>1, <2>4 DEF PacketInv, PoolType
    <3>2. skb'[first] # "free" /\ first \notin Roots' /\ \A x \in Entry : next'[x] # first
      BY <1>4, <1>5, <2>4, <3>1
    <3> QED
      BY <1>1, <1>2, <1>3, <2>1, <2>2, <2>4, <3>2 DEF PacketInv
  <2> QED
    BY <2>3, <2>4
<1>15. PollInv'
  <2>1. (\A x \in Linked(next[Last]) : skb[x] = "empty")'
    BY <1>3, <1>5 DEF Linked
  <2> QED
    BY <1>1, <1>2, <1>14, <2>1 DEF PollInv
<1>16. WholeInv'
  <2> SUFFICES ASSUME ~failed
               PROVE  /\ entry' # Null /\ (first' # Null => next'[Static] = first')
                      /\ Packed' /\ QueueFull' /\ NoneLost'
    BY <1>2 DEF WholeInv
  <2>1. Packed /\ QueueFull /\ NoneLost
    BY DEF IInv, WholeInv
  <2>2. Packed'
    BY <1>3, <1>5 DEF Packed, Linked
  <2>3. QueueFull'
    BY <1>7, <1>8, <2>1 DEF QueueFull
  <2>4. NoneLost'
    <3> SUFFICES ASSUME NEW x \in Entry, skb'[x] # "free"
                 PROVE  x \in Linked(pool) \/ x \in Linked(head) \/ x \in Linked(rxList)
                        \/ x \in Linked(batch) \/ x \in Reach(next', next'[Static])
      BY <1>7 DEF NoneLost, Linked
    <3>1. x = e \/ skb[x] # "free"
      BY <1>5
    <3> QED
      BY <2>1, <3>1 DEF NoneLost
  <2> QED
    BY <1>1, <2>2, <2>3, <2>4
<1> QED
  BY <1>9, <1>10, <1>11, <1>12, <1>13, <1>14, <1>15, <1>16 DEF IInv

(* The entry linked to the last one. *)
LEMMA PollNextSafe ==
  ASSUME IInv, ~oops, PollNext
  PROVE  IInv'
<1>1. /\ next' = next /\ pool' = pool /\ nr' = nr /\ got' = got
      /\ UNCHANGED <<rxVars, fillVars, upVars, failed, oops, closing>>
      /\ fillAt' = fillAt /\ filled' = filled
      /\ pollAt = "alloc" /\ entry # Null /\ next[entry] # Null /\ Packet(next[entry])
  BY DEF PollNext, poolList, fillVars
<1>2. /\ PoolType /\ PointInv /\ RootInv /\ PollInv /\ Busy /\ PacketInv /\ got = Null
      /\ next \in Pointers /\ entry = Last
  BY <1>1 DEF IInv, PollInv, Busy, PacketInv, PoolType
<1>3. PICK e : e = next[Last]
  OBVIOUS
<1>4. /\ Last \in Node /\ e \in Entry /\ e \in Node /\ e # Null /\ Packet(e)
  <2>1. Last \in Node /\ e \in Entry \cup {Null, Bad}
    BY <1>2, <1>3, LastLists
  <2>2. e # Null /\ e # Bad
    BY <1>1, <1>2, <1>3 DEF PacketInv
  <2> QED
    BY <1>1, <1>2, <1>3, <2>1, <2>2, NodeFacts
<1>5. PICK h : /\ Own(h) /\ (h = Static \/ failed) /\ Last \in Linked(h)
               /\ Linked(e) \subseteq Linked(h)
  BY <1>2, <1>3, LastLists
<1>6. /\ Linked(e) = {e} \cup Linked(next[e]) /\ e \in Linked(e)
      /\ Linked(e) \subseteq Entry /\ (\A x \in Linked(e) : skb[x] = "empty")
      /\ \A r \in Roots : Linked(r) \cap Linked(e) = {}
  <2>1. Linked(e) = {e} \cup Linked(next[e])
    BY <1>2, <1>4, ReachStep DEF Linked
  <2>2. \A x \in Linked(e) : skb[x] = "empty"
    BY <1>2, <1>3 DEF PollInv
  <2> QED
    BY <1>2, <1>3, <2>1, <2>2, LastLists
<1>7. e \notin Linked(next[e])
  BY <1>2, <1>5, <1>6, ReachForward DEF Own, Live, Linked, PointInv
<1>8. \A x \in Entry : skb'[x] = IF x = e THEN "full" ELSE skb[x]
  BY <1>4 DEF Packet
<1>9. /\ \A x \in Entry : skb'[x] = "free" <=> skb[x] = "free"
      /\ \A x \in Entry : skb'[x] = "empty" => skb[x] = "empty"
  BY <1>6, <1>8
<1>10. (\A a : Live(a)' <=> Live(a)) /\ PointInv'
  <2>1. \A a : Live(a)' <=> Live(a)
    BY <1>1, <1>9 DEF Live
  <2>2. PointInv'
    BY <1>1, <1>2, <1>9 DEF PointInv
  <2> QED
    BY <2>1, <2>2
<1>11. \A r \in Roots \ {Null, got} :
         r # e /\ Live(r)' /\ \A x \in Linked(r) : x # e /\ next'[x] = next[x]
  <2> SUFFICES ASSUME NEW r \in Roots \ {Null, got}
               PROVE  r # e /\ Live(r)' /\ \A x \in Linked(r) : x # e /\ next'[x] = next[x]
    OBVIOUS
  <2>1. Live(r) /\ r \in Linked(r)
    BY <1>2, RootLists, LiveLists
  <2> QED
    BY <1>1, <1>6, <1>10, <2>1
<1>12. /\ next'[e] # Bad
       /\ \A x \in Reach(next', next'[e]) : x # e /\ x \in Entry /\ skb[x] = "empty"
  BY <1>1, <1>2, <1>4, <1>6, <1>7 DEF PointInv, Linked
<1>13. \E a : IsHead(next', a) /\ (a \in Entry => a = e \/ skb[a] # "free")
               /\ a \notin Roots \ {got} /\ (a = Static \/ failed) /\ e \in Reach(next', a)
  <2>1. IsHead(next', h) /\ (h \in Entry => h = e \/ skb[h] # "free")
        /\ h \notin Roots \ {got} /\ (h = Static \/ failed) /\ e \in Reach(next', h)
    BY <1>1, <1>5, <1>6 DEF Own, Live, Linked
  <2> QED
    BY <2>1
<1>14. first = Null => next[Static] = e /\ \A x \in Entry : next'[x] # e
  <2> SUFFICES ASSUME first = Null PROVE next[Static] = e /\ \A x \in Entry : next[x] # e
    BY <1>1
  <2>1. Last = Static
    BY <1>2 DEF PacketInv, Last
  <2> QED
    BY <1>2, <1>3, <1>4, <2>1, NodeFacts DEF PointInv, Single
<1>15. first # Null => first # got /\ \A x \in Entry : next'[x] # first
  BY <1>1, <1>2 DEF PacketInv
<1>16. ASSUME ~failed
       PROVE  /\ next'[Static] = IF first = Null THEN e ELSE first
              /\ \A x \in Reach(next', next'[Static]) :
                   x \in Reach(next', next'[e]) \/ x = e \/ (x \in Entry /\ skb[x] = "full")
              /\ e \in Reach(next', next'[Static])
              /\ Linked(next[Static]) \cup Linked(got) \subseteq Reach(next', next'[Static])
  <2>1. Packed /\ (first # Null => next[Static] = first)
    BY <1>2, <1>16 DEF IInv, WholeInv
  <2>2. Linked(Static) = {Static} \cup Linked(next[Static]) /\ Linked(next[Static]) \subseteq Entry
    BY <1>2, StaticLists
  <2>3. e \in Linked(next[Static])
    BY <1>4, <1>5, <1>6, <1>16, <2>2, NodeFacts
  <2>4. \A x \in Linked(next[Static]) : x \in Linked(e) \/ skb[x] = "full"
    BY <1>3, <2>1 DEF Packed
  <2>5. Linked(got) = {}
    BY <1>2, RootLists DEF Roots
  <2> QED
    BY <1>1, <1>6, <1>14, <2>1, <2>2, <2>3, <2>4, <2>5 DEF Linked
<1>17. \A x \in Linked(rxList) : x # e
  BY <1>6 DEF Roots
<1>18. CountInv' /\ nr' \in Nat
  <2>1. Linked(pool)' = Linked(pool)
    BY <1>1 DEF Linked
  <2> QED
    BY <1>1, <1>2, <2>1 DEF IInv, CountInv, PoolType
<1>19. pollAt # "add" /\ got' = Null /\ next' \in Pointers
  BY <1>1, <1>2
<1> QED
  BY <1>1, <1>2, <1>4, <1>10, <1>11, <1>12, <1>13, <1>14, <1>15, <1>16, <1>17, <1>18, <1>19,
     PacketSafe

(* A list of empty entries linked to the last one. *)
LEMMA AppendSafe ==
  ASSUME IInv, ~oops, pollAt \in {"alloc", "reset"}, NEW e \in Entry, Packet(e), got' = Null,
         UNCHANGED <<rxVars, fillVars, upVars, failed, oops, closing>>, pool' = pool,
         nr' = 0 \/ (pollAt = "alloc" /\ nr' = nr),
         next' \in Pointers, \A x \in Node : next'[x] = IF x = entry THEN e ELSE next[x],
         entry # Null => next[entry] = Null,
         got \in {Null, e}, e \notin Roots \ {got}, e # first, ~Own(e), IsHead(next, e),
         next[e] # Bad, skb[e] # "full",
         \A x \in Reach(next, next[e]) : x # e /\ x \in Entry /\ skb[x] = "empty",
         \A a : Live(a) /\ a # e => Linked(a) \cap Linked(e) = {}
  PROVE  IInv'
<1>1. /\ PoolType /\ PointInv /\ RootInv /\ Busy /\ PacketInv /\ next \in Pointers
      /\ entry = Null \/ entry = Last
      /\ pollAt # "add" /\ Null \notin Node /\ e \in Node /\ e # Null /\ Entry \subseteq Node
      /\ Static \in Node /\ Static \notin Entry /\ Null \notin Entry /\ Null # Bad
  BY NodeFacts DEF IInv, PollInv, Busy, PacketInv, PoolType, Node
<1>2. PICK h : Own(h) /\ (h = Static \/ failed) /\ Last \in Linked(h)
  BY <1>1 DEF PacketInv
<1>3. \A x \in Node : next'[x] = IF x = entry THEN e ELSE next[x]
  OBVIOUS
<1>4. /\ Linked(e) = {e} \cup Linked(next[e]) /\ e \in Linked(e) /\ Linked(e) \subseteq Entry
  BY <1>1, ReachStep DEF Linked
<1>5. h # e /\ Linked(h) \cap Linked(e) = {} /\ Last \in Node /\ Last \notin Linked(e)
  <2>1. h # e
    BY <1>2
  <2>2. Linked(h) \cap Linked(e) = {}
    BY <1>2, <2>1 DEF Own
  <2> QED
    BY <1>1, <1>2, <2>1, <2>2, LiveLists DEF Own
<1>6. ASSUME NEW r \in Roots \ {Null, got}
      PROVE  /\ r # e /\ Live(r) /\ Linked(r) \cap Linked(e) = {}
             /\ entry \notin Linked(r)
             /\ \A x \in Linked(r) : x \in Node /\ x # e /\ next'[x] = next[x]
  <2>1. r # e /\ Live(r) /\ Linked(r) \subseteq Node
    BY <1>1, RootLists, LiveLists
  <2>2. Linked(r) \cap Linked(e) = {}
    BY <2>1
  <2>3. Last \notin Linked(r) /\ Null \notin Linked(r)
    <3>1. r # h
      BY <1>2 DEF Own
    <3>2. Linked(h) \cap Linked(r) = {}
      BY <1>1, <1>2, <2>1, <3>1, LiveLists DEF Own
    <3> QED
      BY <1>1, <1>2, <2>1, <3>2
  <2> QED
    BY <1>1, <1>3, <1>4, <2>1, <2>2, <2>3
<1>7. \A x \in Entry : skb'[x] = IF x = e THEN "full" ELSE skb[x]
  BY DEF Packet
<1>8. entry \in Entry => skb[entry] = "full"
  BY <1>1 DEF PacketInv, Last
<1>9. PointInv'
  <2>1. Single(next')
    <3> SUFFICES ASSUME NEW x \in Node, NEW y \in Node, next'[x] = next'[y], next'[x] \in Entry
                 PROVE  x = y
      BY DEF Single
    <3>1. CASE x # entry /\ y # entry
      BY <1>1, <1>3, <3>1 DEF PointInv, Single
    <3>2. CASE x = entry \/ y = entry
      BY <1>3, <3>2 DEF IsHead
    <3> QED
      BY <3>1, <3>2
  <2>2. ASSUME NEW f \in Entry, skb'[f] = "free"
        PROVE  next'[f] = Null /\ IsHead(next', f)
    <3>1. f # e /\ skb[f] = "free"
      BY <1>7, <2>2
    <3>2. f # entry /\ next[f] = Null /\ IsHead(next, f)
      BY <1>1, <1>8, <3>1 DEF PointInv
    <3> QED
      BY <1>1, <1>3, <3>1, <3>2 DEF IsHead
  <2>3. ASSUME NEW f \in Entry, skb'[f] = "empty" PROVE next'[f] # Bad
    <3>1. skb[f] = "empty"
      BY <1>7, <2>3
    <3>2. f # entry /\ next[f] # Bad
      BY <1>1, <1>8, <3>1 DEF PointInv
    <3> QED
      BY <1>1, <1>3, <3>2
  <2> QED
    BY <2>1, <2>2, <2>3 DEF PointInv
<1>10. \A r \in Roots \ {Null, got} :
         r # e /\ Live(r)' /\ \A x \in Linked(r) : x # e /\ next'[x] = next[x]
  <2> SUFFICES ASSUME NEW r \in Roots \ {Null, got}
               PROVE  r # e /\ Live(r)' /\ \A x \in Linked(r) : x # e /\ next'[x] = next[x]
    OBVIOUS
  <2>1. IsHead(next', r)
    BY <1>3, <1>6 DEF Live, IsHead
  <2>2. r \in Entry => skb'[r] # "free"
    BY <1>6, <1>7 DEF Live
  <2>3. Live(r)'
    BY <2>1, <2>2 DEF Live
  <2> QED
    BY <1>6, <2>3
<1>11. next'[e] = next[e] /\ Reach(next', next'[e]) = Linked(next[e])
  <2>1. next'[e] = next[e]
    BY <1>1, <1>3, <1>4, <1>5
  <2>2. \A x \in Reach(next, next[e]) : next'[x] = next[x]
    BY <1>1, <1>3, <1>4, <1>5 DEF Linked
  <2>3. Reach(next', next[e]) = Reach(next, next[e])
    BY <1>1, <2>2, ReachSame
  <2> QED
    BY <2>1, <2>3 DEF Linked
<1>12. ASSUME entry # Null
       PROVE  Reach(next', h) = Linked(h) \cup Linked(e)
  <2>1. PICK nx, mx, x : nx = next /\ mx = next' /\ x = entry
    OBVIOUS
  <2>2. /\ nx \in Pointers /\ x \in Reach(nx, h) /\ nx[x] = Null
        /\ e \in Entry \cup {Null, Bad} /\ x \notin Reach(nx, e)
        /\ mx \in Pointers /\ mx[x] = e /\ \A y \in Node \ {x} : mx[y] = nx[y]
    BY <1>1, <1>2, <1>3, <1>5, <1>12, <2>1 DEF Linked
  <2>3. Reach(mx, h) = Reach(nx, h) \cup Reach(nx, e)
    BY <2>2, ReachAppend
  <2> QED
    BY <2>1, <2>3 DEF Linked
<1>13. \E a : IsHead(next', a) /\ (a \in Entry => a = e \/ skb[a] # "free")
              /\ a \notin Roots \ {got} /\ (a = Static \/ failed) /\ e \in Reach(next', a)
  <2>1. CASE entry # Null
    <3>1. IsHead(next', h)
      BY <1>2, <1>3, <1>5 DEF Own, Live, IsHead
    <3>2. h \in Entry => skb[h] # "free"
      BY <1>2 DEF Own, Live
    <3>3. h \notin Roots /\ (h = Static \/ failed) /\ e \in Reach(next', h)
      BY <1>2, <1>4, <1>12, <2>1 DEF Own
    <3> QED
      BY <3>1, <3>2, <3>3
  <2>2. CASE entry = Null
    <3>1. failed
      BY <1>1, <2>2 DEF IInv, WholeInv
    <3>2. IsHead(next', e)
      BY <1>1, <1>3, <2>2 DEF IsHead
    <3>3. e \in Reach(next', e)
      BY <1>1, ReachIn
    <3> QED
      BY <3>1, <3>2, <3>3
  <2> QED
    BY <2>1, <2>2
<1>14. first = Null => \A x \in Entry : next'[x] # e
  <2> SUFFICES ASSUME first = Null, NEW x \in Entry PROVE next'[x] # e
    OBVIOUS
  <2>1. Last = Static
    BY <1>1 DEF PacketInv, Last
  <2> QED
    BY <1>1, <1>3, <2>1 DEF IsHead
<1>15. first # Null => first # got /\ \A x \in Entry : next'[x] # first
  BY <1>1, <1>3 DEF PacketInv, Roots
<1>16. ASSUME ~failed
       PROVE  /\ next'[Static] = IF first = Null THEN e ELSE first
              /\ \A x \in Reach(next', next'[Static]) :
                   x \in Reach(next', next'[e]) \/ x = e \/ (x \in Entry /\ skb[x] = "full")
              /\ e \in Reach(next', next'[Static])
              /\ Linked(next[Static]) \cup Linked(got) \subseteq Reach(next', next'[Static])
  <2>1. /\ Packed /\ entry # Null /\ (first # Null => next[Static] = first)
    BY <1>1, <1>16 DEF IInv, WholeInv
  <2>2. entry = Last /\ next[Last] = Null /\ h = Static
    BY <1>1, <1>2, <1>16, <2>1
  <2>3. Linked(Static) = {Static} \cup Linked(next[Static]) /\ Linked(next[Static]) \subseteq Entry
    BY <1>1, StaticLists
  <2>4. Reach(next', Static) = {Static} \cup Reach(next', next'[Static])
    BY <1>1, ReachStep
  <2>5. Reach(next', Static) = Linked(Static) \cup Linked(e)
    BY <1>12, <2>1, <2>2
  <2>6. Linked(next[Last]) = {}
    BY <1>1, <2>2, ReachNone DEF Linked
  <2>7. \A x \in Linked(next[Static]) : skb[x] = "full"
    BY <2>1, <2>6 DEF Packed
  <2>8. Static \notin Reach(next', next'[Static])
    <3>1. next'[Static] # Static
      BY <1>1, StaticHead DEF IsHead
    <3> QED
      BY <1>1, <3>1, ReachEntries
  <2>9. next'[Static] = IF first = Null THEN e ELSE first
    <3>1. CASE first = Null
      <4>1. Last = Static
        BY <1>1, <3>1 DEF PacketInv, Last
      <4> QED
        BY <1>1, <1>3, <2>2, <3>1, <4>1
    <3>2. CASE first # Null
      <4>1. final \in Entry /\ Last = final
        BY <1>1, <3>2 DEF PacketInv, Last, PoolType
      <4> QED
        BY <1>1, <1>3, <2>1, <2>2, <3>2, <4>1
    <3> QED
      BY <3>1, <3>2
  <2>10. Reach(next', next'[Static]) = Linked(next[Static]) \cup Linked(e)
    BY <1>1, <1>4, <2>3, <2>4, <2>5, <2>8
  <2>11. Linked(got) \subseteq Linked(e)
    BY <1>1, RootLists DEF Roots
  <2> QED
    BY <1>4, <1>11, <2>3, <2>7, <2>9, <2>10, <2>11
<1>17. \A x \in Linked(rxList) : x # e
  <2>1. CASE rxList = Null
    BY <1>1, <2>1, RootLists DEF Roots
  <2>2. CASE rxList # Null
    BY <1>1, <1>6, <2>2 DEF Roots, RootInv
  <2> QED
    BY <2>1, <2>2
<1>18. CountInv' /\ nr' \in Nat
  <2>1. Linked(pool)' = Linked(pool)
    <3>1. CASE pool = Null
      <4>1. Reach(next, pool) = {} /\ Reach(next', pool) = {}
        BY <1>1, <3>1, ReachNone
      <4> QED
        BY <4>1 DEF Linked
    <3>2. CASE pool # Null
      <4>1. \A x \in Linked(pool) : next'[x] = next[x]
        BY <1>1, <1>6, <3>2 DEF Roots, RootInv
      <4>2. Reach(next', pool) = Reach(next, pool)
        BY <1>1, <4>1, ReachSame DEF Linked
      <4> QED
        BY <4>2 DEF Linked
    <3> QED
      BY <3>1, <3>2
  <2>2. nr \in Nat /\ filled \in 0 .. BatchSize /\ BatchSize \in Nat
        /\ Cardinality(Linked(pool)) \in Nat
    BY <1>1, PoolAssumption, ListSizes DEF PoolType, Roots
  <2>3. fillAt' = fillAt /\ filled' = filled
    BY DEF fillVars
  <2>4. CASE nr' = 0
    BY <2>1, <2>2, <2>3, <2>4 DEF CountInv
  <2>5. CASE pollAt = "alloc" /\ nr' = nr
    BY <2>1, <2>2, <2>3, <2>5 DEF CountInv, IInv
  <2> QED
    BY <2>4, <2>5
<1>19. next'[e] # Bad /\ \A x \in Reach(next', next'[e]) : x # e /\ x \in Entry /\ skb[x] = "empty"
  BY <1>11 DEF Linked
<1> QED
  BY <1>1, <1>9, <1>10, <1>13, <1>14, <1>15, <1>16, <1>17, <1>18, <1>19, PacketSafe

(* The pool that was taken, and a single entry when it was empty. *)
LEMMA PollResetSafe ==
  ASSUME IInv, ~oops, PollReset
  PROVE  IInv'
<1>1. /\ pollAt = "reset" /\ got' = Null /\ pool' = pool /\ nr' = 0 /\ Packet(got) /\ Link(got)
      /\ UNCHANGED <<rxVars, fillVars, upVars, failed, oops, closing>>
  BY DEF PollReset
<1>2. /\ PoolType /\ PointInv /\ RootInv /\ Busy /\ PacketInv /\ next \in Pointers
      /\ got # Null /\ (entry = Null \/ entry = Last) /\ (entry # Null => next[entry] = Null)
      /\ got \in Roots /\ got \in Entry
  BY <1>1 DEF IInv, PollInv, Busy, PacketInv, PoolType, Roots
<1>3. PICK e : e = got
  OBVIOUS
<1>4. e \in Entry /\ e \in Node /\ Live(e) /\ IsHead(next, e) /\ e \in Linked(e)
      /\ Linked(e) = {e} \cup Linked(next[e]) /\ (\A x \in Linked(e) : x \in Entry /\ skb[x] = "empty")
  <2>1. Live(e) /\ Linked(e) \subseteq Entry
    BY <1>2, <1>3, RootLists
  <2>2. \A x \in Linked(e) : skb[x] = "empty"
    BY <1>3 DEF IInv, EmptyInv
  <2> QED
    BY <1>2, <1>3, <2>1, <2>2, ReachStep, LiveLists DEF Live, Linked, IsHead
<1>5. e \notin Linked(next[e]) /\ next[e] # Bad
  BY <1>2, <1>4, ReachForward DEF Linked, PointInv
<1>6. next' \in Pointers /\ \A x \in Node : next'[x] = IF x = entry THEN e ELSE next[x]
  <2>1. CASE entry = Null
    BY <1>1, <1>2, <2>1, NodeFacts DEF Link
  <2>2. CASE entry # Null
    <3>1. next' = [next EXCEPT ![entry] = e]
      BY <1>1, <1>3, <2>2 DEF Link
    <3> QED
      BY <1>2, <1>4, <3>1 DEF Pointers
  <2> QED
    BY <2>1, <2>2
<1>7. e # first /\ ~Own(e)
  BY <1>2, <1>3, NodeFacts DEF PacketInv, Own
<1>8. \A a : Live(a) /\ a # e => Linked(a) \cap Linked(e) = {}
  BY <1>2, <1>4, LiveLists
<1>9. skb[e] # "full" /\ \A x \in Reach(next, next[e]) : x # e /\ x \in Entry /\ skb[x] = "empty"
  BY <1>4, <1>5 DEF Linked
<1>10. Packet(e) /\ got \in {Null, e} /\ e \notin Roots \ {got} /\ pollAt \in {"alloc", "reset"}
       /\ (nr' = 0 \/ (pollAt = "alloc" /\ nr' = nr))
  BY <1>1, <1>3
<1> QED
  BY <1>1, <1>2, <1>4, <1>5, <1>6, <1>7, <1>8, <1>9, <1>10, AppendSafe

LEMMA PollFallbackSafe ==
  ASSUME IInv, ~oops, PollFallback
  PROVE  IInv'
<1>1. /\ pollAt = "alloc" /\ pool = Null /\ got' = got /\ pool' = pool /\ nr' = nr
      /\ UNCHANGED <<rxVars, fillVars, upVars, oops, closing>>
      /\ (entry # Null => next[entry] = Null)
  BY DEF PollFallback, AtEnd
<1>2. /\ PoolType /\ PointInv /\ RootInv /\ Busy /\ PollInv /\ PacketInv /\ next \in Pointers
      /\ got = Null /\ (entry = Null \/ entry = Last) /\ DOMAIN next = Node
      /\ Null \notin Node /\ Null # Bad /\ Bad \notin Node /\ Null \notin Entry /\ Bad \notin Entry
      /\ Static \notin Entry /\ Static \in Node
  BY <1>1, NodeFacts DEF IInv, PollInv, Busy, PacketInv, PoolType, Pointers, Node
<1>3. PICK e \in Batch(1) \cup {Null} :
        /\ IF e = Null
           THEN /\ failed' = TRUE
                /\ Link(Bad)
           ELSE /\ failed' = failed
                /\ next' = [x \in DOMAIN next |->
                              IF x = e THEN Null
                              ELSE IF x = entry THEN e ELSE next[x]]
        /\ Packet(e)
  BY DEF PollFallback
<1>4. CASE e # Null
  <2>1. e \in Entry /\ e \in Node /\ skb[e] = "free" /\ next[e] = Null /\ IsHead(next, e)
    <3>1. e \in Entry /\ skb[e] = "free"
      BY <1>3, <1>4 DEF Batch
    <3> QED
      BY <1>2, <3>1, NodeFacts DEF PointInv
  <2>2. e # first /\ ~Live(e) /\ e \notin Roots /\ e # entry
    <3>1. e # first
      BY <1>2, <1>4, <2>1 DEF PacketInv
    <3>2. ~Live(e)
      BY <2>1 DEF Live
    <3>3. e \notin Roots
      BY <1>2, <1>4, <3>2, RootLists
    <3>4. e # Last
      BY <1>2, <2>1 DEF PacketInv, Last
    <3> QED
      BY <1>2, <1>4, <3>1, <3>2, <3>3, <3>4
  <2>3. Linked(e) = {e} /\ Reach(next, next[e]) = {}
    <3>1. Reach(next, next[e]) = {}
      BY <1>2, <2>1, ReachNone
    <3> QED
      BY <1>2, <2>1, <3>1, ReachStep DEF Linked
  <2>4. next' \in Pointers /\ \A x \in Node : next'[x] = IF x = entry THEN e ELSE next[x]
    <3>1. next' = [x \in Node |-> IF x = e THEN Null ELSE IF x = entry THEN e ELSE next[x]]
      BY <1>2, <1>3, <1>4
    <3> QED
      BY <1>2, <2>1, <2>2, <3>1 DEF Pointers
  <2>5. \A a : Live(a) /\ a # e => Linked(a) \cap Linked(e) = {}
    BY <1>2, <2>1, <2>3, LiveLists
  <2>6. next[e] # Bad /\ skb[e] # "full" /\ ~Own(e)
        /\ \A x \in Reach(next, next[e]) : x # e /\ x \in Entry /\ skb[x] = "empty"
    BY <1>2, <2>1, <2>2, <2>3 DEF Own
  <2>7. UNCHANGED <<rxVars, fillVars, upVars, failed, oops, closing>>
    BY <1>1, <1>3, <1>4
  <2>8. Packet(e) /\ got' = Null /\ got \in {Null, e} /\ e \notin Roots \ {got}
        /\ pollAt \in {"alloc", "reset"} /\ (nr' = 0 \/ (pollAt = "alloc" /\ nr' = nr))
    BY <1>1, <1>2, <1>3, <2>2
  <2> QED
    BY <1>1, <2>1, <2>2, <2>4, <2>5, <2>6, <2>7, <2>8, AppendSafe
<1>5. CASE e = Null
  <2>1. /\ entry' = Null /\ first' = first /\ final' = final /\ failed' = TRUE
        /\ pollAt' \in {"idle", "alloc", "add"} /\ (pollAt' = "idle" => final = Null)
        /\ (pollAt' = "add" => final # Null) /\ Link(Bad) /\ skb' = skb
    <3>1. \A x \in Entry : skb'[x] = skb[x]
      BY <1>2, <1>3, <1>5 DEF Packet
    <3>2. skb' = skb
      BY <1>2, <1>3, <3>1 DEF Packet, PoolType
    <3> QED
      BY <1>3, <1>5, <3>2 DEF Packet
  <2>2. /\ rxList' = rxList /\ rxWork' = rxWork /\ fillAt' = fillAt /\ head' = head
        /\ tail' = tail /\ filled' = filled /\ upAt' = upAt /\ batch' = batch
        /\ oops' = oops /\ closing' = closing /\ pool' = pool /\ got' = got /\ nr' = nr
    BY <1>1 DEF rxVars, fillVars, upVars
  <2>3. next' \in Pointers /\ \A x \in Node : next'[x] = IF x = entry THEN Bad ELSE next[x]
    <3>1. CASE entry = Null
      BY <1>2, <2>1, <3>1 DEF Link
    <3>2. CASE entry # Null
      <4>1. next' = [next EXCEPT ![entry] = Bad]
        BY <2>1, <3>2 DEF Link
      <4> QED
        BY <1>2, <4>1 DEF Pointers
    <3> QED
      BY <3>1, <3>2
  <2>4. \A a : Reach(next', a) = Linked(a)
    <3> SUFFICES ASSUME NEW a PROVE Reach(next', a) = Linked(a)
      OBVIOUS
    <3>1. CASE a \notin Node
      BY <1>2, <2>3, <3>1, ReachNone DEF Linked
    <3>2. CASE a \in Node
      <4>1. Linked(a) \subseteq Reach(next', a)
        <5>1. a \in Reach(next', a) /\ Reach(next', a) \subseteq Node
              /\ \A x \in Reach(next', a) : next'[x] \in Entry => next'[x] \in Reach(next', a)
          BY <2>3, <3>2, ReachIn
        <5>2. \A x \in Reach(next', a) : next[x] \in Entry => next[x] \in Reach(next', a)
          BY <1>1, <1>2, <2>3, <5>1
        <5> QED
          BY <1>2, <5>1, <5>2, ReachLeast DEF Linked
      <4>2. Reach(next', a) \subseteq Linked(a)
        <5>1. a \in Linked(a) /\ Linked(a) \subseteq Node
              /\ \A x \in Linked(a) : next[x] \in Entry => next[x] \in Linked(a)
          BY <1>2, <3>2, ReachIn DEF Linked
        <5>2. \A x \in Linked(a) : next'[x] \in Entry => next'[x] \in Linked(a)
          BY <1>2, <2>3, <5>1
        <5> QED
          BY <2>3, <5>1, <5>2, ReachLeast
      <4> QED
        BY <4>1, <4>2
    <3> QED
      BY <3>1, <3>2
  <2>5. /\ Linked(pool)' = Linked(pool) /\ Linked(head)' = Linked(head)
        /\ Linked(rxList)' = Linked(rxList) /\ Linked(batch)' = Linked(batch)
        /\ Linked(got)' = Linked(got)
    BY <2>2, <2>4 DEF Linked
  <2>6. Roots' = Roots /\ Last' = Last /\ \A a : Live(a) => Live(a)'
    <3>1. Roots' = Roots /\ Last' = Last
      BY <1>2, <2>1, <2>2 DEF Roots, Last, Busy
    <3>2. ASSUME NEW a, Live(a) PROVE Live(a)'
      BY <1>2, <2>1, <2>3, <3>2 DEF Live, IsHead
    <3> QED
      BY <3>1, <3>2
  <2>7. PoolType' /\ EmptyInv'
    <3>1. PoolType'
      BY <1>2, <2>1, <2>2, <2>3 DEF PoolType
    <3>2. EmptyInv'
      BY <2>1, <2>5 DEF IInv, EmptyInv
    <3> QED
      BY <3>1, <3>2
  <2>8. PointInv'
    <3>0. entry \in Entry => skb[entry] = "full"
      BY <1>2 DEF PacketInv, Last
    <3>1. Single(next')
      BY <1>2, <2>3 DEF PointInv, Single
    <3>2. ASSUME NEW f \in Entry, skb'[f] = "free" PROVE next'[f] = Null /\ IsHead(next', f)
      <4>1. f # entry /\ next[f] = Null /\ IsHead(next, f) /\ f \in Node
        BY <1>2, <2>1, <3>0, <3>2, NodeFacts DEF PointInv
      <4> QED
        BY <1>2, <2>3, <4>1 DEF IsHead
    <3>3. ASSUME NEW f \in Entry, skb'[f] = "empty" PROVE next'[f] # Bad
      <4>1. f # entry /\ next[f] # Bad /\ f \in Node
        BY <1>2, <2>1, <3>0, <3>3, NodeFacts DEF PointInv
      <4> QED
        BY <2>3, <4>1
    <3> QED
      BY <3>1, <3>2, <3>3 DEF PointInv
  <2>9. RootInv'
    BY <1>2, <2>2, <2>6 DEF RootInv
  <2>10. FillInv'
    <3>1. CASE fillAt = "add"
      <4>1. head # Null /\ tail \in Linked(head) /\ next[tail] = Null
            /\ Cardinality(Linked(head)) = filled /\ head \in Roots
        BY <3>1 DEF IInv, FillInv, Roots
      <4>2. Last \notin Linked(head) /\ Linked(head) \subseteq Entry
        BY <1>2, <4>1, LastLists, RootLists
      <4>3. next'[tail] = Null
        BY <1>2, <2>3, <4>1, <4>2 DEF Node
      <4> QED
        BY <2>2, <2>5, <3>1, <4>1, <4>3 DEF FillInv
    <3>2. CASE fillAt # "add"
      BY <2>2, <3>2 DEF IInv, FillInv
    <3> QED
      BY <3>1, <3>2
  <2>11. UpInv' /\ CloseInv' /\ WholeInv'
    <3>1. closing = "open"
      BY <1>1 DEF IInv, CloseInv
    <3> QED
      BY <2>1, <2>2, <3>1 DEF IInv, UpInv, CloseInv, WholeInv
  <2>12. PollInv'
    <3>1. \A x \in Linked(next[Last])' : skb'[x] = "empty"
      <4>1. CASE entry = Null
        <5>1. next'[Last] = next[Last]
          BY <1>2, <2>3, <4>1, LastLists
        <5>2. Linked(next[Last])' = Linked(next[Last])
          BY <2>4, <2>6, <5>1 DEF Linked
        <5> QED
          BY <1>2, <2>1, <5>2 DEF PollInv
      <4>2. CASE entry # Null
        <5>1. next'[Last] = Bad
          BY <1>2, <2>3, <4>2, LastLists
        <5>2. Reach(next', Bad) = {}
          BY <1>2, <2>3, ReachNone
        <5> QED
          BY <2>6, <5>1, <5>2 DEF Linked
      <4> QED
        BY <4>1, <4>2
    <3>2. PICK h : Own(h) /\ Last \in Linked(h)
      BY <1>2 DEF PacketInv
    <3>3. (\E a : Own(a) /\ (a = Static \/ failed) /\ Last \in Linked(a))'
      <4>1. Own(h)' /\ failed' /\ Last' \in Linked(h)'
        BY <2>1, <2>4, <2>6, <3>2 DEF Own, Linked
      <4> QED
        BY <4>1
    <3>4. (first # Null => /\ skb[first] # "free" /\ first \notin Roots
                           /\ \A x \in Entry : next[x] # first)'
      <4> SUFFICES ASSUME first # Null
                   PROVE  skb[first] # "free" /\ first \notin Roots /\ \A x \in Entry : next'[x] # first
        BY <2>1, <2>6
      <4>1. skb[first] # "free" /\ first \notin Roots /\ first \in Entry
            /\ \A x \in Entry : next[x] # first
        BY <1>2 DEF PacketInv, PoolType
      <4> QED
        BY <1>2, <2>3, <4>1, NodeFacts
    <3>5. Busy' => PacketInv'
      BY <1>2, <2>1, <2>6, <3>3, <3>4 DEF PacketInv, Busy
    <3> QED
      BY <1>2, <2>1, <2>2, <3>1, <3>5 DEF PollInv, PacketInv
  <2>13. CountInv'
    BY <1>1, <2>2, <2>5 DEF IInv, CountInv
  <2> QED
    BY <2>7, <2>8, <2>9, <2>10, <2>11, <2>12, <2>13 DEF IInv
<1> QED
  BY <1>4, <1>5

(* The packets of the page are put before the queue. *)
LEMMA PollAddSafe ==
  ASSUME IInv, ~oops, PollAdd
  PROVE  IInv'
<1>1. /\ pollAt = "add" /\ pollAt' = "queue" /\ skb' = skb /\ rxList' = first
      /\ next' = [next EXCEPT ![final] = rxList, ![Static] = next[final]]
      /\ rxWork' = rxWork /\ entry' = entry /\ first' = first /\ final' = final /\ got' = got
      /\ pool' = pool /\ nr' = nr /\ poolWork' = poolWork /\ head' = head /\ tail' = tail
      /\ filled' = filled /\ fillAt' = fillAt /\ upAt' = upAt /\ batch' = batch
      /\ failed' = failed /\ oops' = oops /\ closing' = closing
  BY DEF PollAdd, poolList, fillVars, upVars
<1>2. /\ PoolType /\ PointInv /\ RootInv /\ Busy /\ PollInv /\ PacketInv /\ next \in Pointers
      /\ got = Null /\ DOMAIN next = Node
      /\ Null \notin Node /\ Null # Bad /\ Bad \notin Node /\ Null \notin Entry /\ Bad \notin Entry
      /\ Static \notin Entry /\ Static \in Node /\ Entry \subseteq Node
  BY <1>1, NodeFacts DEF IInv, PollInv, Busy, PacketInv, PoolType, Pointers, Node
<1>3. /\ final \in Entry /\ first \in Entry /\ Last = final /\ final # Static
      /\ skb[final] = "full" /\ skb[first] # "free" /\ first \notin Roots
      /\ \A x \in Entry : next[x] # first
  BY <1>1, <1>2 DEF PacketInv, Last, PoolType
<1>4. PICK m : m = next[final]
  OBVIOUS
<1>5. m \in Entry \cup {Null, Bad} /\ rxList \in Entry \cup {Null}
  BY <1>2, <1>3, <1>4 DEF Pointers, PoolType
<1>6. /\ next'[final] = rxList /\ next'[Static] = m
      /\ \A x \in Node : x # final /\ x # Static => next'[x] = next[x]
      /\ next' \in Pointers
  <2>1. \A x \in Node : next'[x] = IF x = Static THEN m ELSE IF x = final THEN rxList ELSE next[x]
    BY <1>1, <1>2, <1>3, <1>4
  <2>2. next' \in Pointers
    BY <1>1, <1>2, <1>5, <2>1 DEF Pointers
  <2> QED
    BY <1>2, <1>3, <2>1, <2>2
<1>7. PICK h : Own(h) /\ (h = Static \/ failed) /\ final \in Linked(h)
  BY <1>2, <1>3 DEF PacketInv
<1>8. final \notin Linked(m)
  BY <1>2, <1>4, <1>7, ReachForward DEF Own, Live, Linked, PointInv
<1>9. Linked(m) \subseteq Entry /\ \A x \in Linked(m) : skb[x] = "empty"
  BY <1>2, <1>3, <1>4, LastLists DEF PollInv
<1>10. Reach(next', m) = Linked(m)
  <2>1. \A x \in Reach(next, m) : next'[x] = next[x]
    BY <1>2, <1>6, <1>8, <1>9 DEF Linked
  <2> QED
    BY <1>2, <1>6, <2>1, ReachSame DEF Linked
<1>11. rxList # Null => Live(rxList)
  BY <1>2, RootLists DEF Roots
<1>12. PointInv'
  <2>1. Single(next')
    <3> SUFFICES ASSUME NEW x \in Node, NEW y \in Node, next'[x] = next'[y], next'[x] \in Entry
                 PROVE  x = y
      BY DEF Single
    <3>1. CASE x = final \/ y = final
      <4>1. Live(rxList)
        BY <1>2, <1>6, <1>11, <3>1
      <4>2. \A z \in Node : next[z] # rxList
        BY <4>1 DEF Live, IsHead
      <4>3. \A z \in Node : z # final => next'[z] # rxList
        BY <1>2, <1>3, <1>4, <1>6, <4>2
      <4> QED
        BY <1>6, <3>1, <4>3
    <3>2. CASE x # final /\ y # final /\ (x = Static \/ y = Static)
      <4>1. m \in Entry /\ \A z \in Node : z # final => next[z] # m
        BY <1>2, <1>3, <1>4, <1>6, <3>2 DEF PointInv, Single
      <4> QED
        BY <1>6, <3>2, <4>1
    <3>3. CASE x \notin {final, Static} /\ y \notin {final, Static}
      BY <1>2, <1>6, <3>3 DEF PointInv, Single
    <3> QED
      BY <3>1, <3>2, <3>3
  <2>2. ASSUME NEW f \in Entry, skb'[f] = "free" PROVE next'[f] = Null /\ IsHead(next', f)
    <3>1. f # final /\ f # Static /\ f # rxList /\ next[f] = Null /\ IsHead(next, f)
      BY <1>1, <1>2, <1>3, <1>11, <2>2 DEF PointInv, Live
    <3>2. \A x \in Node : next[x] # f
      BY <3>1 DEF IsHead
    <3>3. \A x \in Node : next'[x] # f
      BY <1>2, <1>3, <1>4, <1>6, <3>1, <3>2
    <3> QED
      BY <1>2, <1>6, <3>1, <3>3 DEF IsHead
  <2>3. ASSUME NEW f \in Entry, skb'[f] = "empty" PROVE next'[f] # Bad
    BY <1>1, <1>2, <1>3, <1>6, <2>3 DEF PointInv
  <2> QED
    BY <2>1, <2>2, <2>3 DEF PointInv
<1>13. Live(first)' /\ first \in Roots' /\ Roots' \subseteq Roots \cup {first}
  <2>1. PICK a : a = first
    OBVIOUS
  <2>2. a # rxList /\ a # m /\ a \in Node
    BY <1>2, <1>3, <1>4, <2>1 DEF Roots
  <2>3. IsHead(next', a)
    <3>1. ASSUME NEW x \in Node PROVE next'[x] # a
      <4>1. CASE x = final \/ x = Static
        BY <1>6, <2>2, <4>1
      <4>2. CASE x # final /\ x # Static
        BY <1>2, <1>3, <1>6, <2>1, <4>2 DEF Node
      <4> QED
        BY <4>1, <4>2
    <3> QED
      BY <2>2, <3>1 DEF IsHead
  <2>4. Live(a)'
    BY <1>1, <1>3, <2>1, <2>3 DEF Live
  <2> QED
    BY <1>1, <2>1, <2>4 DEF Roots, Live
<1>14. ASSUME NEW r \in Roots
       PROVE  /\ Reach(next', r) = Linked(r)
              /\ \A x \in Linked(r) : next'[x] = next[x]
  <2>1. Linked(r) \subseteq Entry /\ final \notin Linked(r)
    BY <1>2, <1>3, RootLists, LastLists
  <2>2. \A x \in Linked(r) : next'[x] = next[x]
    BY <1>2, <1>6, <2>1
  <2>3. Reach(next', r) = Linked(r)
    BY <1>2, <1>6, <2>2, ReachSame DEF Linked
  <2> QED
    BY <2>2, <2>3
<1>15. ASSUME NEW r \in Roots \ {Null}, r # rxList PROVE Live(r)'
  <2>1. Live(r)
    BY <1>2, RootLists
  <2>2. IsHead(next', r)
    <3>1. r \in Node /\ \A x \in Node : next[x] # r
      BY <2>1 DEF Live, IsHead
    <3>2. \A x \in Node : next'[x] # r
      BY <1>2, <1>3, <1>4, <1>6, <1>15, <3>1
    <3> QED
      BY <3>1, <3>2 DEF IsHead
  <2> QED
    BY <1>1, <2>1, <2>2 DEF Live
<1>16. /\ Linked(pool)' = Linked(pool) /\ Linked(head)' = Linked(head)
       /\ Linked(batch)' = Linked(batch) /\ Linked(got)' = Linked(got)
       /\ Linked(rxList)' = Reach(next', first)
       /\ Linked(next[Static])' = Linked(m)
  BY <1>1, <1>6, <1>10, <1>14 DEF Linked, Roots
<1>17. PoolType'
  BY <1>1, <1>2, <1>3, <1>6 DEF PoolType
<1>18. RootInv'
  <2>1. /\ first \notin {pool, head, batch, got}
        /\ pool # Null => pool \notin {head, batch, got, rxList}
        /\ head # Null => head \notin {batch, got, rxList}
        /\ batch # Null => batch # got /\ batch # rxList
    BY <1>2, <1>3 DEF RootInv, Roots
  <2>2. ASSUME NEW e \in Roots' \ {Null} PROVE Live(e)'
    <3>1. CASE e = first
      <4>1. PICK a : a = first
        OBVIOUS
      <4>2. Live(a)'
        BY <1>1, <1>13, <4>1 DEF Live
      <4> QED
        BY <3>1, <4>1, <4>2
    <3>2. CASE e # first
      <4>1. e \in {pool, head, batch, got} /\ e # Null
        BY <1>1, <2>2, <3>2 DEF Roots
      <4>2. e \in Roots \ {Null} /\ e # rxList
        BY <1>2, <2>1, <4>1 DEF Roots
      <4> QED
        BY <1>15, <4>2
    <3> QED
      BY <3>1, <3>2
  <2> QED
    BY <1>1, <2>1, <2>2 DEF RootInv
<1>19. EmptyInv' /\ CountInv'
  BY <1>1, <1>16 DEF IInv, EmptyInv, CountInv
<1>20. FillInv'
  <2>1. CASE fillAt = "add"
    <3>1. head # Null /\ tail \in Linked(head) /\ next[tail] = Null
          /\ Cardinality(Linked(head)) = filled
      BY <2>1 DEF IInv, FillInv
    <3>2. next'[tail] = next[tail]
      BY <1>14, <3>1 DEF Roots
    <3> QED
      BY <1>1, <1>16, <2>1, <3>1, <3>2 DEF FillInv
  <2>2. CASE fillAt # "add"
    BY <1>1, <2>2 DEF IInv, FillInv
  <2> QED
    BY <2>1, <2>2
<1>21. UpInv' /\ CloseInv'
  <2>1. closing = "open"
    BY <1>1 DEF IInv, CloseInv
  <2> QED
    BY <1>1, <2>1 DEF IInv, UpInv, CloseInv
<1>22. Last' = Static /\ ~Busy'
  BY <1>1 DEF Last, Busy
<1>23. PollInv'
  <2>1. (\A x \in Linked(next[Last]) : skb[x] = "empty")'
    BY <1>1, <1>6, <1>9, <1>10, <1>22 DEF Linked
  <2> QED
    BY <1>1, <1>2, <1>22, <2>1 DEF PollInv
<1>24. WholeInv'
  <2> SUFFICES ASSUME ~failed PROVE Packed' /\ QueueFull' /\ NoneLost'
    BY <1>1, <1>22 DEF WholeInv
  <2>1. /\ Packed /\ QueueFull /\ NoneLost /\ next[Static] = first /\ entry = final
        /\ m # Bad /\ h = Static
    BY <1>2, <1>3, <1>4, <1>7 DEF IInv, WholeInv, PacketInv
  <2>2. Linked(Static) = {Static} \cup Linked(first)
    BY <1>2, <2>1, StaticLists
  <2>3. final \in Linked(first)
    BY <1>3, <1>7, <2>1, <2>2
  <2>4. /\ Reach(next', first) \subseteq (Linked(first) \ Linked(m)) \cup Linked(rxList)
        /\ Linked(first) \subseteq Reach(next', first) \cup Linked(m)
        /\ Linked(rxList) \subseteq Reach(next', first)
    <3>1. PICK nx, mx, e, x, g : nx = next /\ mx = next' /\ e = first /\ x = final /\ g = rxList
      OBVIOUS
    <3>2. final \notin Linked(rxList)
      BY <1>2, <1>3, LastLists DEF Roots
    <3>3. /\ nx \in Pointers /\ Single(nx) /\ e \in Entry /\ x \in Reach(nx, e)
          /\ g \in Entry \cup {Null} /\ m = nx[x] /\ x \notin Reach(nx, m)
          /\ (\A y \in Entry : nx[y] # e) /\ x \notin Reach(nx, g) /\ x # Static
          /\ (m = Null \/ m \in Entry)
          /\ mx \in Pointers /\ mx[x] = g /\ mx[Static] = m
          /\ \A y \in Node \ {x, Static} : mx[y] = nx[y]
      BY <1>2, <1>3, <1>4, <1>5, <1>6, <1>8, <2>1, <2>3, <3>1, <3>2 DEF Linked, PointInv
    <3>4. /\ Reach(mx, e) \subseteq (Reach(nx, e) \ Reach(nx, m)) \cup Reach(nx, g)
          /\ Reach(nx, e) \subseteq Reach(mx, e) \cup Reach(nx, m)
          /\ Reach(nx, g) \subseteq Reach(mx, e)
      BY <3>3, ReachCut
    <3> QED
      BY <3>1, <3>4 DEF Linked
  <2>5. Packed'
    BY <1>22 DEF Packed
  <2>6. QueueFull'
    <3>1. \A x \in Linked(first) \ Linked(m) : skb[x] = "full"
      BY <1>3, <1>4, <2>1 DEF Packed
    <3> QED
      BY <1>1, <1>16, <2>1, <2>4, <3>1 DEF QueueFull
  <2>7. NoneLost'
    BY <1>1, <1>16, <2>1, <2>4 DEF NoneLost
  <2> QED
    BY <2>5, <2>6, <2>7
<1> QED
  BY <1>12, <1>17, <1>18, <1>19, <1>20, <1>21, <1>23, <1>24 DEF IInv

-----------------------------------------------------------------------------
LEMMA IInvStarts ==
  ASSUME PoolInit
  PROVE  IInv
<1>1. /\ next = [e \in Node |-> Null] /\ skb = [e \in Entry |-> "free"]
      /\ pool = Null /\ nr = 0 /\ rxList = Null /\ pollAt = "idle" /\ entry = Null
      /\ first = Null /\ final = Null /\ got = Null /\ fillAt = "idle" /\ head = Null
      /\ filled = 0 /\ batch = Null /\ failed = FALSE /\ oops = FALSE /\ closing = "open"
  BY DEF PoolInit, Node
<1>2. /\ Null \notin Node /\ Null \notin Entry /\ Null # Bad /\ Static \in Node
      /\ Entry \subseteq Node /\ BatchSize \in Nat /\ next \in Pointers
      /\ (\A x \in Node : next[x] = Null) /\ \A x \in Entry : skb[x] = "free"
  BY <1>1, NodeFacts, PoolAssumption DEF Node, Pointers
<1>3. Linked(Null) = {} /\ Roots = {Null} /\ ~Busy /\ Last = Static /\ next[Static] = Null
  BY <1>1, <1>2, ReachNone DEF Linked, Roots, Busy, Last
<1>4. PoolType
  <2>1. skb \in [Entry -> {"free", "empty", "full", "given"}]
    BY <1>1
  <2>2. nr \in Nat /\ filled \in 0 .. BatchSize
    BY <1>1, <1>2
  <2> QED
    BY <1>1, <1>2, <2>1, <2>2 DEF PoolType
<1>5. PointInv
  BY <1>1, <1>2, NodeFacts DEF PointInv, Single, IsHead
<1>6. RootInv /\ EmptyInv /\ FillInv /\ UpInv /\ PollInv /\ CloseInv
  BY <1>1, <1>3 DEF RootInv, EmptyInv, FillInv, UpInv, PollInv, CloseInv
<1>7. WholeInv
  BY <1>1, <1>2, <1>3 DEF WholeInv, Packed, QueueFull, NoneLost
<1>8. CountInv
  <2>1. Cardinality(Linked(pool)) = 0
    BY <1>1, <1>3, FS_EmptySet
  <2> QED
    BY <1>1, <1>2, <2>1 DEF CountInv
<1> QED
  BY <1>4, <1>5, <1>6, <1>7, <1>8 DEF IInv

LEMMA IInvKept ==
  ASSUME IInv, [PoolNext]_poolVars
  PROVE  IInv'
<1>1. CASE ~oops /\ (PollPage \/ PollStep)
  BY <1>1, PollPageSafe, PollNextSafe, PollTakeSafe, PollResetSafe, PollFallbackSafe,
     PollAddSafe, PollQueueSafe DEF PollStep
<1>2. CASE ~oops /\ Fill
  BY <1>2, FillStartSafe, FillBatchSafe, FillEnoughSafe, FillAddSafe, FillCountSafe DEF Fill
<1>3. CASE ~oops /\ Up
  BY <1>3, UpStartSafe, UpTakeSafe, UpDeliverSafe, UpFreeSafe DEF Up
<1>4. CASE ~oops /\ Close
  BY <1>4, CloseChainSafe, CloseQueueSafe, ClosePoolSafe, CloseWorkSafe DEF Close
<1>5. CASE UNCHANGED poolVars
  <2>1. UNCHANGED <<listVars, poolList, rxVars, pollVars, fillVars, upVars, failed, oops, closing>>
    BY <1>5 DEF poolVars
  <2>2. UNCHANGED <<listVars, pool, rxList, head, batch, pollVars, failed, oops>>
    BY <2>1 DEF poolList, rxVars, fillVars, upVars
  <2>3. /\ PointInv' /\ RootInv' /\ EmptyInv' /\ PollInv' /\ WholeInv'
        /\ Linked(pool)' = Linked(pool) /\ Linked(head)' = Linked(head)
    BY <2>2, ListsSame
  <2>4. PoolType'
    BY <2>1 DEF IInv, PoolType, listVars, poolList, rxVars, pollVars, fillVars, upVars
  <2>5. FillInv' /\ CountInv'
    BY <2>1, <2>3 DEF IInv, FillInv, CountInv, listVars, poolList, pollVars, fillVars
  <2>6. UpInv' /\ CloseInv'
    BY <2>1 DEF IInv, UpInv, CloseInv, listVars, poolList, rxVars, pollVars, fillVars, upVars
  <2> QED
    BY <2>3, <2>4, <2>5, <2>6 DEF IInv
<1> QED
  BY <1>1, <1>2, <1>3, <1>4, <1>5 DEF PoolNext

LEMMA WholeLists ==
  ASSUME IInv, ~failed
  PROVE  /\ \A i, j \in DOMAIN Lists : i # j => Lists[i] \cap Lists[j] = {}
         /\ UNION {Lists[i] : i \in DOMAIN Lists} = {e \in Entry : skb[e] # "free"}
<1>1. PoolType /\ PointInv /\ RootInv /\ PollInv /\ WholeInv
  BY DEF IInv
<1>2. PollHolds = Linked(got) \cup Linked(next[Static])
  <2>1. first # Null /\ pollAt # "queue" => Busy
    BY <1>1 DEF PollInv, PoolType, Busy
  <2>2. first # Null /\ pollAt # "queue" => next[Static] = first
    BY <1>1, <2>1 DEF WholeInv
  <2> QED
    BY <2>2 DEF PollHolds
<1>3. \A r \in Roots : /\ Linked(r) \cap Linked(next[Static]) = {}
                       /\ Linked(r) \subseteq {e \in Entry : skb[e] # "free"}
  <2> SUFFICES ASSUME NEW r \in Roots
               PROVE  /\ Linked(r) \cap Linked(next[Static]) = {}
                      /\ Linked(r) \subseteq {e \in Entry : skb[e] # "free"}
    OBVIOUS
  <2>1. Linked(r) \cap Linked(next[Static]) = {}
    BY <1>1, StaticLists
  <2>2. CASE r = Null
    BY <1>1, <2>1, <2>2, RootLists
  <2>3. CASE r # Null
    BY <1>1, <2>1, <2>3, RootLists, LiveLists
  <2> QED
    BY <2>2, <2>3
<1>4. Linked(next[Static]) \subseteq {e \in Entry : skb[e] # "free"}
  <2>1. Live(Static) /\ Linked(next[Static]) \subseteq Linked(Static)
        /\ Linked(next[Static]) \subseteq Entry
    BY <1>1, StaticLists DEF Own
  <2> QED
    BY <1>1, <2>1, LiveLists
<1>5. DOMAIN Lists = 1 .. 5
      /\ Lists[1] = Linked(pool) /\ Lists[2] = Linked(rxList) /\ Lists[3] = Linked(head)
      /\ Lists[4] = Linked(got) \cup Linked(next[Static]) /\ Lists[5] = Linked(batch)
  BY <1>2 DEF Lists
<1>6. \A i \in DOMAIN Lists : i = 1 \/ i = 2 \/ i = 3 \/ i = 4 \/ i = 5
  BY <1>5
<1>7. \A i, j \in DOMAIN Lists : i # j => Lists[i] \cap Lists[j] = {}
  BY <1>1, <1>3, <1>5, <1>6, RootsApart DEF Roots
<1>8. UNION {Lists[i] : i \in DOMAIN Lists} \subseteq {e \in Entry : skb[e] # "free"}
  BY <1>3, <1>4, <1>5, <1>6 DEF Roots
<1>9. ASSUME NEW e \in Entry, skb[e] # "free" PROVE \E i \in DOMAIN Lists : e \in Lists[i]
  <2>1. NoneLost
    BY <1>1 DEF WholeInv
  <2> QED
    BY <1>5, <1>9, <2>1 DEF NoneLost
<1> QED
  BY <1>7, <1>8, <1>9

(* Every skb of the pool is in one list at most, wherever the poll, the    *)
(* pool's worker, the receive worker and nf10_lbuf_free are in their steps *)
(* (skbpool.c:35-155, nf10_lbuf.c:414-510, 637-639), and none is lost, as  *)
(* long as every packet got one.                                           *)
THEOREM SkbInOneList == PoolSpec => []OneList
<1>1. IInv => OneList
  <2> SUFFICES ASSUME IInv, ~failed
               PROVE  /\ \A i, j \in DOMAIN Lists : i # j => Lists[i] \cap Lists[j] = {}
                      /\ UNION {Lists[i] : i \in DOMAIN Lists} = {e \in Entry : skb[e] # "free"}
                      /\ \A e \in Linked(pool) \cup Linked(head) : skb[e] = "empty"
                      /\ \A e \in Linked(rxList) : skb[e] = "full"
                      /\ pollAt = "idle" => \A e \in Linked(next[Static]) : skb[e] = "empty"
                      /\ closing = "closed" => \A e \in Entry : skb[e] = "free"
    BY DEF OneList
  <2>1. PoolType /\ PointInv /\ RootInv /\ EmptyInv /\ FillInv /\ UpInv /\ PollInv /\ CloseInv
        /\ QueueFull /\ NoneLost
    BY DEF IInv, WholeInv
  <2>2. \A e \in Linked(pool) \cup Linked(head) : skb[e] = "empty"
    BY <2>1 DEF EmptyInv
  <2>3. \A e \in Linked(rxList) : skb[e] = "full"
    BY <2>1 DEF QueueFull
  <2>4. pollAt = "idle" => \A e \in Linked(next[Static]) : skb[e] = "empty"
    BY <2>1 DEF PollInv, Last, Busy
  <2>5. ASSUME closing = "closed" PROVE \A e \in Entry : skb[e] = "free"
    <3>1. pool = Null /\ head = Null /\ rxList = Null /\ batch = Null /\ got = Null
          /\ next[Static] = Null
      BY <2>1, <2>5 DEF CloseInv, FillInv, UpInv, PollInv
    <3>2. Linked(Null) = {}
      BY <2>1, RootLists DEF Roots
    <3> QED
      BY <2>1, <3>1, <3>2 DEF NoneLost
  <2> QED
    BY <2>2, <2>3, <2>4, <2>5, WholeLists
<1> QED
  BY <1>1, IInvStarts, IInvKept, PTL DEF PoolSpec

(* The counter of the pool is a batch too high at most: atomic_set of      *)
(* skbpool_alloc against atomic_add of skbpool_worker (skbpool.c:63, 108).  *)
THEOREM CounterCloseToPool == PoolSpec => []CountClose
<1>1. IInv => CountClose
  <2> SUFFICES ASSUME IInv, pollAt # "reset"
               PROVE  nr <= Cardinality(Linked(pool)) + BatchSize
    BY DEF CountClose
  <2>1. /\ nr \in Nat /\ filled \in Nat /\ BatchSize \in Nat
        /\ Cardinality(Linked(pool)) \in Nat
    BY PoolAssumption, ListSizes DEF IInv, PoolType, Roots
  <2>2. nr + (IF fillAt = "count" THEN filled ELSE 0) <= Cardinality(Linked(pool)) + BatchSize
    BY DEF IInv, CountInv
  <2> QED
    BY <2>1, <2>2
<1> QED
  BY <1>1, IInvStarts, IInvKept, PTL DEF PoolSpec
=============================================================================
