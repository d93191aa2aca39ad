----------------------------- MODULE Card_proofs -----------------------------
(***************************************************************************)
(* What the models of the card rest on: an address crosses its clocks      *)
(* whole and in order, a request of the trigger crosses them once, and the *)
(* engines never drive the bus together.                                   *)
(*                                                                         *)
(* The crossings are proved for any lengths of the cycles and of the       *)
(* strobes that RestsLong and PulseLong allow: the invariants say how much *)
(* time is left, or has gone, in each state.                               *)
(***************************************************************************)
EXTENDS Card, Integers, TLAPS

-----------------------------------------------------------------------------
(* The crossing of an address. *)

(* The time left before fsm_a may change the bus. *)
Left == in + (IF fsm = 0 THEN 0 ELSE (way.last + 1 - fsm) * way.periodIn)

ClockInv ==
  /\ way \in Crossing
  /\ in \in 1 .. way.periodIn
  /\ out \in 1 .. way.periodOut

AddrType ==
  /\ fsm \in 0 .. way.last
  /\ input \in Value /\ last \in Value
  /\ {synch, synch0, synch1} \subseteq BOOLEAN

(* The strobe is up when the bus was set, and goes down in time. *)
StrobeInv ==
  /\ fsm # 0 => cross \in Value
  /\ synch => fsm \in 2 .. way.clear

(* What was seen of the strobe tells how long the bus will stay. *)
SeenInv ==
  /\ synch0 => cross \in Value /\ Left >= out + way.periodOut
  /\ synch1 => cross0 \in Value /\ cross0 = cross /\ Left >= out

AddrInv ==
  /\ ClockInv
  /\ output \in Value
  /\ look = "address" => AddrType /\ StrobeInv /\ SeenInv

-----------------------------------------------------------------------------
(* The crossing of a request. *)

(* Acknowledged, and not begun. *)
Fresh == begun # asked

Up == inAt \in {"s2", "s4", "s5"}

RequestType ==
  /\ asked \in 0 .. 1 /\ begun \in 0 .. 1
  /\ inAt \in {"s0", "s1", "s2", "s3", "s4", "s5", "s6"}
  /\ outAt \in {0, 1} \cup 4 .. 15
  /\ busy \in 0 .. 4 /\ remember \in BOOLEAN
  /\ ask \in Requests \cup {None}
  /\ handed \in Requests \cup {None}
  /\ way.periodOut < way.periodIn

(* What the trigger's side holds is the request handed to it last. *)
InSide ==
  /\ line = IF Up THEN handed.kind ELSE "none"
  /\ inAt \in {"s1", "s2"} => handed.kind = "tlp"
  /\ inAt \in {"s3", "s4"} => handed.kind = "last"
  /\ inAt = "s5" => handed.kind = "change" /\ handed.words = 0
  /\ inAt \in {"s1", "s2", "s3", "s4"} => bus = handed.words
  /\ inAt \in {"s1", "s3"} => Fresh
  /\ inAt \in {"s0", "s6"} => ~Fresh

(* What the engine's side has seen of the lines is of that request, or is  *)
(* what is left of the one before, which rests.                            *)
LineInv ==
  /\ Fresh => /\ line0 # "none" => Up /\ line0 = line
              /\ line1 # "none" => Up /\ line1 = line
  /\ ~Fresh /\ outAt # 1 =>
       /\ line # "none" => outAt \in 4 .. 9
       /\ line0 # "none" => outAt \in 4 .. 10
       /\ line1 # "none" => outAt \in 4 .. 11
  /\ Up /\ line1 # "none" /\ Fresh /\ line # "change" => bus0 = bus

(* The lines are down in the registers when a request is taken. *)
DrainedInv ==
  /\ inAt = "s6" => /\ line0 # "none" => out < in
                    /\ line1 # "none" => out < in + way.periodIn
  /\ inAt = "s0" => line0 = "none" /\ (line1 # "none" => out < in)

OfferInv ==
  /\ outAt # 1 => offer = None /\ ~remember /\ engineAck = "none"
  /\ outAt = 1 =>
       /\ Up /\ offer = handed /\ offer # None
       /\ Fresh => ~remember /\ engineAck = "none"
       /\ ~Fresh => (remember <=> engineAck = "none")
       /\ remember => offer.kind = "last"
       /\ engineAck # "none" =>
            busy = 4 /\ engineAck = IF offer.kind = "tlp" THEN "tlp" ELSE "change"

(* The time from the acknowledge of the engine's side to the next edge of  *)
(* the trigger's clock, and what is left to the next of the engine's.      *)
Since == in + (outAt - 3) * way.periodOut

Resting == Up /\ ~Fresh /\ outAt # 1

(* The acknowledge is seen once, in time, and is gone when the line is     *)
(* down.                                                                   *)
AckInv ==
  /\ ~Resting => ack0 = "none" /\ outAck = "none"
  /\ ~Resting /\ inAt # "s6" => ack1 = "none"
  /\ outAck # "none" => outAt \in {4, 5}
  /\ Resting =>
       /\ outAck # "none" => outAck = line
       /\ ack0 # "none" => ack0 = line
       /\ ack1 # "none" => ack1 = line
       /\ ack0 = "none" /\ ack1 = "none" =>
            outAck = line /\ in < out + (5 - outAt) * way.periodOut
       /\ ack0 # "none" /\ ack1 = "none" =>
            /\ Since >= out + way.periodIn
            /\ Since <= out + 2 * way.periodOut + way.periodIn
       /\ ack1 # "none" =>
            /\ Since >= out + 2 * way.periodIn
            /\ Since <= out + 2 * way.periodOut + 2 * way.periodIn

RequestInv ==
  look = "request" =>
    RequestType /\ InSide /\ LineInv /\ DrainedInv /\ OfferInv /\ AckInv
-----------------------------------------------------------------------------
LEMMA WayFacts ==
  ASSUME way \in Crossing
  PROVE  /\ way.periodIn \in Nat \ {0} /\ way.periodOut \in Nat \ {0}
         /\ way.clear \in Nat /\ way.last \in Nat
         /\ 1 < way.clear /\ way.clear < way.last
BY ConstantsAssumption

(* The products of the invariants. *)
LEMMA MulSucc ==
  ASSUME NEW p \in Nat, NEW n \in Nat
  PROVE  n * p \in Nat /\ (n + 1) * p = n * p + p
OBVIOUS

LEMMA MulMono ==
  ASSUME NEW p \in Nat, NEW m \in Nat, NEW n \in Nat, m <= n
  PROVE  m * p <= n * p
<1>1. PICK d \in Nat : n = m + d
  BY n - m \in Nat, n = m + (n - m)
<1>2. (m + d) * p = m * p + d * p /\ d * p \in Nat /\ m * p \in Nat
  OBVIOUS
<1> QED
  BY <1>1, <1>2

(* The clocks go on. *)
LEMMA ClockStep ==
  ASSUME ClockInv, way' = way,
         \/ in < out /\ in' = way.periodIn /\ out' = out - in
         \/ out < in /\ out' = way.periodOut /\ in' = in - out
         \/ in = out /\ in' = way.periodIn /\ out' = way.periodOut
  PROVE  ClockInv'
<1>1. way.periodIn \in Nat \ {0} /\ way.periodOut \in Nat \ {0}
  BY WayFacts DEF ClockInv
<1> QED
  BY <1>1 DEF ClockInv

(* While time is left the bus does not change. *)
LEMMA BusRests ==
  ASSUME ClockInv, AddrType, EdgeIn, Left > in
  PROVE  cross' = cross
BY DEF ClockInv, AddrType, EdgeIn, Left

LEMMA EdgeInCounts ==
  ASSUME EdgeIn
  PROVE  fsm' = IF fsm = way.last \/ (fsm = 0 /\ last = input) THEN 0 ELSE fsm + 1
BY DEF EdgeIn

LEMMA LeftRest ==
  ASSUME NEW p \in Nat, NEW l \in Nat, NEW f \in 0 .. l
  PROVE  (l + 1 - f) * p \in Nat
<1>1. l + 1 - f \in Nat
  OBVIOUS
<1> QED
  BY <1>1

LEMMA LeftNat == ClockInv /\ AddrType => Left \in Nat /\ Left >= in
<1> SUFFICES ASSUME ClockInv, AddrType PROVE Left \in Nat /\ Left >= in
  OBVIOUS
<1>1. way.periodIn \in Nat /\ way.last \in Nat /\ fsm \in 0 .. way.last /\ in \in Nat
  BY WayFacts DEF ClockInv, AddrType
<1>2. (way.last + 1 - fsm) * way.periodIn \in Nat
  BY <1>1, LeftRest
<1> QED
  BY <1>1, <1>2 DEF Left

(* An edge takes as much of the time as it took. *)
LEMMA LeftGoes ==
  ASSUME ClockInv, AddrType, EdgeIn, way' = way, in' = way.periodIn
  PROVE  Left' >= Left - in
<1> DEFINE P == way.periodIn
<1>1. P \in Nat /\ way.last \in Nat /\ way.last > 1 /\ fsm \in 0 .. way.last
      /\ in \in Nat
  BY WayFacts DEF ClockInv, AddrType
<1>2. CASE fsm = 0
  <2>1. Left = in
    BY <1>1, <1>2 DEF Left
  <2>2. fsm' = 0 \/ fsm' = 1
    <3>1. fsm' = 0 \/ fsm' = fsm + 1
      BY EdgeInCounts
    <3> QED
      BY <3>1, <1>2
  <2>3. Left' = P \/ Left' = P + (way.last + 1 - 1) * P
    BY <2>2, <1>1 DEF Left
  <2>4. (way.last + 1 - 1) * P \in Nat
    BY <1>1, MulSucc
  <2> QED
    BY <2>1, <2>3, <2>4, <1>1
<1>3. CASE fsm = way.last
  <2>1. fsm' = 0
    BY <1>3, EdgeInCounts
  <2>2. Left' = P
    BY <2>1, <1>1 DEF Left
  <2>3. Left = in + (way.last + 1 - way.last) * P
    BY <1>1, <1>3 DEF Left
  <2>4. way.last + 1 - way.last = 1
    BY <1>1
  <2>5. Left = in + P
    BY <2>3, <2>4, <1>1
  <2> QED
    BY <2>2, <2>5, <1>1
<1>4. CASE fsm # 0 /\ fsm # way.last
  <2>1. fsm' = fsm + 1
    BY <1>1, <1>4, EdgeInCounts
  <2>2. way.last - fsm \in Nat /\ way.last + 1 - fsm = (way.last - fsm) + 1
        /\ way.last + 1 - (fsm + 1) = way.last - fsm /\ fsm + 1 # 0
    BY <1>1
  <2>3. Left = in + ((way.last - fsm) + 1) * P
    BY <2>2, <1>4 DEF Left
  <2>4. Left' = P + (way.last - fsm) * P
    BY <2>1, <2>2 DEF Left
  <2>5. ((way.last - fsm) + 1) * P = (way.last - fsm) * P + P
        /\ (way.last - fsm) * P \in Nat
    BY <2>2, <1>1, MulSucc
  <2> QED
    BY <2>3, <2>4, <2>5, <1>1
<1> QED
  BY <1>2, <1>3, <1>4

(* Two cycles of the other clock, and more, are left when the strobe is    *)
(* seen.                                                                   *)
LEMMA LeftWhenSeen ==
  ASSUME ClockInv, NEW f \in 1 .. way.clear
  PROVE  (way.last + 1 - f) * way.periodIn >= 2 * way.periodOut
<1>1. /\ way.periodIn \in Nat /\ way.periodOut \in Nat /\ way.last \in Nat
      /\ way.clear \in Nat /\ way.clear < way.last
  BY WayFacts DEF ClockInv
<1>2. way.last + 1 - f \in Nat /\ way.last + 1 - way.clear \in Nat
      /\ way.last + 1 - way.clear <= way.last + 1 - f
  BY <1>1
<1>3. (way.last + 1 - way.clear) * way.periodIn <= (way.last + 1 - f) * way.periodIn
  BY <1>1, <1>2, MulMono
<1>4. 2 * way.periodOut <= (way.last + 1 - way.clear) * way.periodIn
  BY RestsLong DEF ClockInv
<1>5. (way.last + 1 - way.clear) * way.periodIn \in Nat
      /\ (way.last + 1 - f) * way.periodIn \in Nat
  BY <1>1, <1>2, MulSucc
<1> QED
  BY <1>1, <1>3, <1>4, <1>5

LEMMA EdgeInKeeps ==
  ASSUME ClockInv, AddrType, StrobeInv, EdgeIn, way' = way
  PROVE  /\ fsm' \in 0 .. way.last /\ input' \in Value /\ last' \in Value
         /\ synch' \in BOOLEAN
         /\ StrobeInv'
<1>1. /\ way.clear \in Nat /\ way.last \in Nat /\ 1 < way.clear
      /\ way.clear < way.last /\ fsm \in 0 .. way.last
  BY WayFacts DEF ClockInv, AddrType
<1>2. fsm' \in 0 .. way.last
  <2>1. fsm' = 0 \/ (fsm' = fsm + 1 /\ fsm # way.last)
    BY EdgeInCounts
  <2> QED
    BY <2>1, <1>1
<1>3. input' \in Value /\ last' \in Value /\ synch' \in BOOLEAN
  <2>1. input' \in Value
    BY DEF EdgeIn
  <2>2. (last' = cross /\ fsm = 1) \/ last' = last
    BY DEF EdgeIn
  <2>3. synch' = TRUE \/ synch' = FALSE \/ synch' = synch
    BY DEF EdgeIn
  <2>4. last' \in Value
    BY <2>2 DEF AddrType, StrobeInv
  <2>5. synch \in BOOLEAN
    BY DEF AddrType
  <2>6. synch' \in BOOLEAN
    BY <2>3, <2>5
  <2> QED
    BY <2>1, <2>4, <2>6
<1>4. fsm' # 0 => cross' \in Value
  BY <1>1 DEF EdgeIn, AddrType, StrobeInv
<1>5. synch' => fsm' \in 2 .. way.clear
  <2>1. CASE fsm = 1
    BY <2>1, <1>1, EdgeInCounts
  <2>2. CASE fsm # 1
    <3>1. synch' => synch /\ fsm # way.clear
      BY <2>2 DEF EdgeIn
    <3>2. synch' => fsm \in 2 .. way.clear - 1
      BY <3>1, <1>1 DEF StrobeInv
    <3> QED
      BY <3>2, <1>1, EdgeInCounts
  <2> QED
    BY <2>1, <2>2
<1> QED
  BY <1>2, <1>3, <1>4, <1>5 DEF StrobeInv

(* One step per clock that ticks. *)
LEMMA AddrStep ==
  ASSUME ClockInv, AddrType, StrobeInv, SeenInv, output \in Value, Next
  PROVE  /\ ClockInv' /\ AddrType' /\ StrobeInv' /\ SeenInv' /\ output' \in Value
         /\ output' # output => output' = cross
<1>0. (ClockInv /\ AddrType)' => (Left \in Nat)'
  BY LeftNat, PTL
<1>1. ClockInv'
  BY ClockStep DEF Next, TickIn, TickOut, TickBoth
<1>2. way' = way
  BY DEF Next, TickIn, TickOut, TickBoth
<1>3. /\ in \in Nat /\ out \in Nat /\ way.periodOut \in Nat \ {0} /\ way.periodIn \in Nat
      /\ out <= way.periodOut /\ fsm \in Nat
      /\ way.clear \in Nat /\ way.last \in Nat /\ 1 < way.clear /\ way.clear < way.last
  BY WayFacts DEF ClockInv, AddrType
<1>4. Left \in Nat
  BY LeftNat
<1>5. CASE TickIn
  <2>1. in < out /\ EdgeIn /\ in' = way.periodIn /\ out' = out - in
        /\ synch0' = synch0 /\ synch1' = synch1 /\ cross0' = cross0 /\ output' = output
    BY <1>5 DEF TickIn, bVars
  <2>2. AddrType' /\ StrobeInv'
    <3>1. /\ fsm' \in 0 .. way.last /\ input' \in Value /\ last' \in Value
          /\ synch' \in BOOLEAN /\ StrobeInv'
      BY <2>1, <1>2, EdgeInKeeps
    <3> QED
      BY <3>1, <2>1, <1>2 DEF AddrType
  <2>3. Left' >= Left - in
    BY <2>1, <1>2, LeftGoes
  <2>4. Left' \in Nat
    BY <1>0, <1>1, <2>2
  <2>5. synch0 => cross' = cross /\ Left' >= out' + way.periodOut
    BY <2>1, <2>3, <2>4, <1>3, <1>4, BusRests DEF SeenInv
  <2>6. synch1 => cross' = cross /\ Left' >= out'
    BY <2>1, <2>3, <2>4, <1>3, <1>4, BusRests DEF SeenInv
  <2>7. SeenInv'
    BY <2>1, <2>5, <2>6, <1>2 DEF SeenInv
  <2> QED
    BY <1>1, <2>1, <2>2, <2>7
<1>6. CASE TickOut
  <2>1. /\ out < in /\ out' = way.periodOut /\ in' = in - out
        /\ input' = input /\ fsm' = fsm /\ last' = last /\ synch' = synch
        /\ cross' = cross
    BY <1>6 DEF TickOut, aVars
  <2>2. /\ synch0' = synch /\ synch1' = synch0 /\ cross0' = cross
        /\ output' = IF synch1 THEN cross0 ELSE output
    BY <1>6, <2>1 DEF TickOut, EdgeOut
  <2>3. AddrType' /\ StrobeInv'
    BY <2>1, <2>2, <1>2 DEF AddrType, StrobeInv
  <2>4. Left' = Left - out
    <3>1. (IF fsm = 0 THEN 0 ELSE (way.last + 1 - fsm) * way.periodIn) \in Nat
      BY <1>3, <1>4, LeftRest DEF AddrType
    <3> QED
      BY <3>1, <2>1, <1>2, <1>3 DEF Left
  <2>5. synch => cross \in Value /\ Left' >= out' + way.periodOut
    <3> SUFFICES ASSUME synch PROVE cross \in Value /\ Left' >= out' + way.periodOut
      OBVIOUS
    <3>1. fsm \in 2 .. way.clear /\ fsm \in 1 .. way.clear /\ fsm # 0
      BY <1>3 DEF StrobeInv
    <3>2. (way.last + 1 - fsm) * way.periodIn >= 2 * way.periodOut
      BY <3>1, LeftWhenSeen
    <3>3. (way.last + 1 - fsm) * way.periodIn \in Nat
      BY <1>3, <3>1, LeftRest DEF AddrType
    <3>4. Left = in + (way.last + 1 - fsm) * way.periodIn
      BY <3>1 DEF Left
    <3> QED
      BY <3>1, <3>2, <3>3, <3>4, <2>1, <2>4, <1>3 DEF StrobeInv
  <2>6. synch0 => cross \in Value /\ Left' >= out'
    BY <2>1, <2>4, <1>3, <1>4 DEF SeenInv
  <2>7. SeenInv'
    BY <2>1, <2>2, <2>5, <2>6, <1>2 DEF SeenInv
  <2>8. output' \in Value /\ (output' # output => output' = cross)
    BY <2>2 DEF SeenInv
  <2> QED
    BY <1>1, <2>3, <2>7, <2>8
<1>7. CASE TickBoth
  <2>1. in = out /\ EdgeIn /\ in' = way.periodIn /\ out' = way.periodOut
    BY <1>7 DEF TickBoth
  <2>2. /\ synch0' \in {synch, synch'} /\ synch1' = synch0
        /\ cross' = cross => cross0' = cross
        /\ output' = IF synch1 THEN cross0 ELSE output
    BY <1>7 DEF TickBoth, EdgeOut
  <2>3. /\ fsm' \in 0 .. way.last /\ input' \in Value /\ last' \in Value
        /\ synch' \in BOOLEAN /\ StrobeInv'
    BY <2>1, <1>2, EdgeInKeeps
  <2>4. AddrType'
    BY <2>2, <2>3, <1>2 DEF AddrType
  <2>5. Left' >= Left - in /\ Left' \in Nat
    BY <1>0, <1>1, <1>2, <2>1, <2>4, LeftGoes
  <2>6. synch0' => cross' \in Value /\ Left' >= out' + way.periodOut
    <3> SUFFICES ASSUME synch0' PROVE cross' \in Value /\ Left' >= out' + way.periodOut
      OBVIOUS
    <3>1. synch \/ synch'
      BY <2>2
    <3>2. fsm \in 1 .. way.clear
      BY <3>1, <2>1, <1>3 DEF StrobeInv, EdgeIn, AddrType
    <3>3. fsm' = fsm + 1 /\ fsm' # 0
      BY <3>2, <2>1, <1>3 DEF EdgeIn
    <3>4. cross' \in Value
      BY <2>3, <3>3 DEF StrobeInv
    <3>5. (way.last + 1 - fsm) * way.periodIn >= 2 * way.periodOut
      BY <3>2, LeftWhenSeen
    <3>6. Left' = way.periodIn + (way.last + 1 - (fsm + 1)) * way.periodIn
      BY <3>3, <2>1, <1>2 DEF Left
    <3>7. /\ way.last - fsm \in Nat /\ way.last + 1 - (fsm + 1) = way.last - fsm
          /\ way.last + 1 - fsm = (way.last - fsm) + 1
      BY <3>2, <1>3
    <3>8. ((way.last - fsm) + 1) * way.periodIn
            = (way.last - fsm) * way.periodIn + way.periodIn
          /\ (way.last - fsm) * way.periodIn \in Nat
      BY <3>7, <1>3, MulSucc
    <3>9. Left' >= 2 * way.periodOut
      BY <3>5, <3>6, <3>7, <3>8, <1>3
    <3> QED
      <4>1. Left' \in Nat
        BY <2>5
      <4>2. way.periodOut + way.periodOut = 2 * way.periodOut
        BY <1>3
      <4> QED
        BY <3>4, <3>9, <4>1, <4>2, <2>1
  <2>7. synch0 => cross' = cross /\ cross \in Value /\ Left' >= out'
    BY <2>1, <2>5, <1>3, <1>4, BusRests DEF SeenInv
  <2>8. SeenInv'
    BY <2>1, <2>2, <2>6, <2>7, <1>2 DEF SeenInv
  <2>9. output' \in Value /\ (output' # output => output' = cross)
    BY <2>2 DEF SeenInv
  <2> QED
    BY <1>1, <2>3, <2>4, <2>8, <2>9
<1> QED
  BY <1>5, <1>6, <1>7 DEF Next
-----------------------------------------------------------------------------
RInv == /\ ClockInv /\ RequestType /\ InSide
        /\ LineInv /\ DrainedInv /\ OfferInv /\ AckInv

RequestNext == way' = way /\ (RequestIn \/ RequestOut \/ RequestBoth)

(* Which of the two sides moves. *)
InEdge  == in <= out /\ in' = way.periodIn /\ EdgeAsk /\ SampleAck
InStill == out < in /\ in' = in - out /\ UNCHANGED askVars
OutEdge  == out <= in /\ out' = way.periodOut /\ EdgeOffer /\ SampleLine
OutStill == in < out /\ out' = out - in /\ UNCHANGED <<offerVars, engineVars>>

LEMMA Sides ==
  ASSUME ClockInv, RequestNext
  PROVE  /\ InEdge \/ InStill
         /\ OutEdge \/ OutStill
         /\ in < out => InEdge /\ OutStill
         /\ out < in => InStill /\ OutEdge
         /\ in = out => InEdge /\ OutEdge
<1>1. in \in Nat /\ out \in Nat
  BY WayFacts DEF ClockInv
<1>2. CASE RequestIn
  BY <1>1, <1>2 DEF RequestIn, InEdge, OutStill
<1>3. CASE RequestOut
  BY <1>1, <1>3 DEF RequestOut, OutEdge, InStill
<1>4. CASE RequestBoth
  BY <1>1, <1>4 DEF RequestBoth, OutEdge, InEdge
<1> QED
  BY <1>2, <1>3, <1>4 DEF RequestNext

(* The kinds. *)
LEMMA Kinds ==
  ASSUME NEW r \in Requests
  PROVE  /\ r.kind \in {"tlp", "last", "change"}
         /\ r.kind = "change" => r.words = 0
         /\ r = [kind |-> r.kind, words |-> r.words]
         /\ r # None
BY DEF Requests, None

(* A line that is up tells what was handed over. *)
LEMMA LineUp ==
  ASSUME RequestType, InSide, Up
  PROVE  line \in {"tlp", "last", "change"} /\ line = handed.kind
BY DEF RequestType, InSide, Up

(* While a request is not begun its line stays as it is. *)
LEMMA FreshStays ==
  ASSUME RInv, RequestNext, Up, Fresh \/ outAt = 1
  PROVE  UNCHANGED <<inAt, line, bus, handed, asked>>
<1>1. CASE InStill
  BY <1>1 DEF InStill, askVars
<1>2. CASE InEdge
  <2>1. ack1 = "none"
    BY DEF RInv, AckInv, Resting, Up
  <2>2. line # "none"
    BY LineUp DEF RInv
  <2>3. InWait \/ InTake \/ InRaise \/ InRest
    BY <1>2 DEF InEdge, EdgeAsk
  <2> QED
    BY <2>1, <2>2, <2>3 DEF InWait, InTake, InRaise, InRest, Up
<1> QED
  BY <1>1, <1>2, Sides DEF RInv

(* The write engine begins what is offered, and that is the fresh request. *)
LEMMA Takes ==
  ASSUME RInv, EngineTakes
  PROVE  Up /\ outAt = 1 /\ Fresh /\ offer = handed /\ begun' = asked
         /\ engineAck = "none"
<1>1. offer # None /\ busy = 0 /\ ~remember /\ begun' = 1 - begun
  BY DEF EngineTakes
<1>2. outAt = 1
  BY <1>1 DEF RInv, OfferInv
<1>3. engineAck = "none"
  BY <1>1, <1>2 DEF RInv, OfferInv
<1>4. Fresh
  BY <1>1, <1>2, <1>3 DEF RInv, OfferInv
<1>5. begun' = asked
  BY <1>1, <1>4 DEF RInv, RequestType, Fresh
<1> QED
  BY <1>2, <1>3, <1>4, <1>5 DEF RInv, OfferInv

LEMMA EngineMarks ==
  ASSUME RequestNext, ClockInv
  PROVE  begun' = begun \/ (EngineTakes /\ OutEdge)
<1>1. CASE OutStill
  BY <1>1 DEF OutStill, engineVars
<1>2. CASE OutEdge
  BY <1>2 DEF OutEdge, EdgeOffer, EngineMoves, EngineStays, EngineGoesOn, EngineCloses
<1> QED
  BY <1>1, <1>2, Sides

LEMMA AskMarks ==
  ASSUME RequestNext, ClockInv
  PROVE  UNCHANGED <<asked, handed, bus>> \/ (InTake /\ InEdge)
<1>1. CASE InStill
  BY <1>1 DEF InStill, askVars
<1>2. CASE InEdge
  BY <1>2 DEF InEdge, EdgeAsk, InRaise, InWait, InRest
<1> QED
  BY <1>1, <1>2, Sides

(* What becomes of the request that is under way. *)
LEMMA Marks ==
  ASSUME RInv, RequestNext
  PROVE  \/ UNCHANGED <<asked, begun, handed, bus>> /\ (Fresh' <=> Fresh)
         \/ /\ EngineTakes /\ OutEdge /\ Fresh /\ ~Fresh' /\ Up /\ outAt = 1 /\ outAt' = 1
            /\ UNCHANGED <<inAt, line, bus, handed, asked>>
         \/ /\ InTake /\ InEdge /\ ~Fresh /\ Fresh' /\ outAt # 1
            /\ begun' = begun
<1>1. CASE EngineTakes /\ OutEdge
  <2>1. Up /\ outAt = 1 /\ Fresh /\ begun' = asked /\ engineAck = "none"
        /\ offer = handed
    BY <1>1, Takes
  <2>2. UNCHANGED <<inAt, line, bus, handed, asked>>
    BY <2>1, FreshStays
  <2>3. outAt' = 1
    BY <1>1, <2>1 DEF OutEdge, EdgeOffer, OutShow, OutWait, OutRest
  <2> QED
    BY <1>1, <2>1, <2>2, <2>3 DEF Fresh
<1>2. CASE ~(EngineTakes /\ OutEdge)
  <2>1. begun' = begun
    BY <1>2, EngineMarks DEF RInv
  <2>2. CASE InTake /\ InEdge
    <3>1. inAt = "s0" /\ asked' = 1 - asked
      BY <2>2 DEF InTake
    <3>2. ~Fresh /\ outAt # 1
      BY <3>1 DEF RInv, InSide, OfferInv, Up
    <3>3. Fresh'
      BY <2>1, <3>1, <3>2 DEF Fresh, RInv, RequestType
    <3> QED
      BY <2>1, <2>2, <3>2, <3>3
  <2>3. CASE ~(InTake /\ InEdge)
    BY <2>1, <2>3, AskMarks DEF RInv, Fresh
  <2> QED
    BY <2>2, <2>3
<1> QED
  BY <1>1, <1>2

LEMMA RequestTypeStep ==
  ASSUME RInv, RequestNext
  PROVE  RequestType'
<1>1. asked' \in 0 .. 1 /\ begun' \in 0 .. 1
  <2>1. asked' = asked \/ asked' = 1 - asked
    BY AskMarks DEF RInv, InTake
  <2>2. begun' = begun \/ begun' = 1 - begun
    BY EngineMarks DEF RInv, EngineTakes
  <2> QED
    BY <2>1, <2>2 DEF RInv, RequestType
<1>2. inAt' \in {"s0", "s1", "s2", "s3", "s4", "s5", "s6"}
  <2>1. CASE InStill
    BY <2>1 DEF InStill, askVars, RInv, RequestType
  <2>2. CASE InEdge
    BY <2>2 DEF InEdge, EdgeAsk, InTake, InRaise, InWait, InRest, RInv, RequestType
  <2> QED
    BY <2>1, <2>2, Sides DEF RInv
<1>3. outAt' \in {0, 1} \cup 4 .. 15
  <2>1. CASE OutStill
    BY <2>1 DEF OutStill, offerVars, RInv, RequestType
  <2>2. CASE OutEdge
    BY <2>2 DEF OutEdge, EdgeOffer, OutShow, OutWait, OutRest, RInv, RequestType
  <2> QED
    BY <2>1, <2>2, Sides DEF RInv
<1>4. busy' \in 0 .. 4 /\ remember' \in BOOLEAN
  <2>1. CASE OutStill
    BY <2>1 DEF OutStill, engineVars, RInv, RequestType
  <2>2. CASE OutEdge
    <3>1. EngineMoves \/ EngineStays
      BY <2>2 DEF OutEdge, EdgeOffer
    <3>2. busy' \in 0 .. 4
      BY <3>1 DEF EngineMoves, EngineStays, EngineGoesOn, EngineCloses, EngineTakes,
                  RInv, RequestType
    <3>3. remember' = remember \/ remember' = FALSE \/ remember' = (offer.kind = "last")
      BY <3>1 DEF EngineMoves, EngineStays, EngineGoesOn, EngineCloses, EngineTakes
    <3>4. remember' \in BOOLEAN
      BY <3>3 DEF RInv, RequestType
    <3> QED
      BY <3>2, <3>4
  <2> QED
    BY <2>1, <2>2, Sides DEF RInv
<1>5. ask' \in Requests \cup {None}
  <2>1. CASE InStill
    BY <2>1 DEF InStill, askVars, RInv, RequestType
  <2>2. CASE InEdge
    BY <2>2 DEF InEdge, EdgeAsk, Ask, RInv, RequestType
  <2> QED
    BY <2>1, <2>2, Sides DEF RInv
<1>6. handed' \in Requests \cup {None}
  BY AskMarks DEF RInv, RequestType, InTake
<1>7. way'.periodOut < way'.periodIn
  BY DEF RInv, RequestType, RequestNext
<1> QED
  BY <1>1, <1>2, <1>3, <1>4, <1>5, <1>6, <1>7 DEF RequestType

LEMMA InSideStep ==
  ASSUME RInv, RequestNext
  PROVE  InSide'
<1>1. CASE EngineTakes /\ OutEdge /\ Fresh /\ Up /\ UNCHANGED <<inAt, line, bus, handed>>
  BY <1>1 DEF RInv, InSide, Up
<1>2. CASE InTake /\ InEdge /\ Fresh'
  <2>1. /\ inAt = "s0" /\ ask # None /\ handed' = ask
        /\ IF ask.kind = "change"
           THEN inAt' = "s5" /\ line' = "change"
           ELSE /\ inAt' = IF ask.kind = "tlp" THEN "s1" ELSE "s3"
                /\ bus' = ask.words /\ line' = line
    BY <1>2 DEF InTake
  <2>2. ask \in Requests
    BY <2>1 DEF RInv, RequestType
  <2>3. ask.kind \in {"tlp", "last", "change"} /\ (ask.kind = "change" => ask.words = 0)
    BY <2>2, Kinds
  <2>4. line = "none"
    BY <2>1 DEF RInv, InSide, Up
  <2> QED
    BY <1>2, <2>1, <2>3, <2>4 DEF InSide, Up
<1>3. CASE UNCHANGED <<asked, begun, handed, bus>> /\ (Fresh' <=> Fresh)
  <2>1. CASE InStill
    BY <2>1, <1>3 DEF InStill, askVars, RInv, InSide, Up
  <2>2. CASE InEdge
    <3>1. InTake \/ InRaise \/ InWait \/ InRest
      BY <2>2 DEF InEdge, EdgeAsk
    <3>2. CASE InTake
      BY <3>2, <1>3 DEF InTake, RInv, RequestType
    <3>3. CASE InRaise
      BY <3>3, <1>3 DEF InRaise, RInv, InSide, Up
    <3>4. CASE InWait
      <4>1. ack1 = line => ~Fresh
        BY <3>4, LineUp DEF InWait, RInv, AckInv, Resting, Up
      <4> QED
        BY <3>4, <4>1, <1>3 DEF InWait, RInv, InSide, Up
    <3>5. CASE InRest
      BY <3>5, <1>3 DEF InRest, RInv, InSide, Up
    <3> QED
      BY <3>1, <3>2, <3>3, <3>4, <3>5
  <2> QED
    BY <2>1, <2>2, Sides DEF RInv
<1> QED
  BY <1>1, <1>2, <1>3, Marks

LEMMA PeriodFacts ==
  ASSUME RInv
  PROVE  /\ way.periodIn \in Nat /\ way.periodOut \in Nat \ {0}
         /\ way.periodOut < way.periodIn
         /\ in \in 1 .. way.periodIn /\ out \in 1 .. way.periodOut
         /\ in \in Nat /\ out \in Nat
BY WayFacts DEF RInv, ClockInv, RequestType

LEMMA DrainedStep ==
  ASSUME RInv, RequestNext, ClockInv', way' = way
  PROVE  DrainedInv'
<1>1. /\ way.periodIn \in Nat /\ way.periodOut \in Nat \ {0}
      /\ way.periodOut < way.periodIn /\ in \in Nat /\ out \in Nat
      /\ in <= way.periodIn /\ out <= way.periodOut
  BY PeriodFacts
<1>2. out' \in Nat /\ out' <= way.periodOut
  BY <1>1 DEF ClockInv
<1>3. CASE InStill
  <2>1. OutEdge /\ inAt' = inAt /\ line' = line /\ in' = in - out /\ out < in
        /\ out' = way.periodOut
    BY <1>3, <1>1, Sides DEF InStill, askVars, RInv, OutEdge
  <2>2. inAt \in {"s0", "s6"} => line = "none"
    BY DEF RInv, InSide, Up
  <2>3. inAt \in {"s0", "s6"} => line0' = "none" /\ line1' = line0
    BY <2>1, <2>2 DEF OutEdge, SampleLine
  <2>4. inAt = "s6" => out' < in' + way.periodIn
    BY <2>1, <1>1
  <2>5. inAt = "s0" => line0 = "none"
    BY DEF RInv, DrainedInv
  <2> QED
    BY <2>1, <2>3, <2>4, <2>5, <1>1 DEF DrainedInv, RequestNext
<1>4. CASE InEdge
  <2>1. in <= out /\ in' = way.periodIn
    BY <1>4 DEF InEdge
  <2>2. inAt' = "s6" => out' < in'
    BY <2>1, <1>1, <1>2
  <2>3. ASSUME inAt' = "s0"
        PROVE  line0' = "none" /\ (line1' # "none" => out' < in')
    <3>1. InRest
      BY <1>4, <2>3 DEF InEdge, EdgeAsk, InTake, InRaise, InWait
    <3>2. inAt \in {"s0", "s6"} /\ line' = line
      BY <3>1 DEF InRest
    <3>3. line = "none" /\ line0 = "none"
      BY <3>2, <2>1, <1>1 DEF RInv, InSide, Up, DrainedInv
    <3>4. CASE OutEdge
      BY <3>4, <3>2, <3>3 DEF OutEdge, SampleLine
    <3>5. CASE OutStill
      <4>1. line0' = line0 /\ out' < in'
        BY <3>5, <2>1, <1>1, <1>2 DEF OutStill, offerVars
      <4> QED
        BY <4>1, <3>3
    <3> QED
      BY <3>4, <3>5, Sides DEF RInv
  <2>4. inAt' = "s6" => out' < in' + way.periodIn
    BY <2>2, <2>1, <1>1, <1>2
  <2> QED
    BY <2>2, <2>3, <2>4, <1>1 DEF DrainedInv, RequestNext
<1> QED
  BY <1>3, <1>4, Sides DEF RInv

(* What a line is offered as. *)
LEMMA Shown ==
  ASSUME RInv, OutShow, outAt' = 1
  PROVE  Fresh /\ Up /\ line1 = handed.kind /\ offer' = handed /\ outAck' = outAck
         /\ handed \in Requests
<1>1. /\ line1 # "none" /\ outAt = 0 /\ outAck' = outAck
      /\ offer' = [kind |-> line1, words |-> IF line1 = "change" THEN 0 ELSE bus0]
  BY DEF OutShow
<1>2. Fresh
  BY <1>1 DEF RInv, LineInv
<1>3. Up /\ line1 = line
  BY <1>1, <1>2 DEF RInv, LineInv
<1>4. line \in {"tlp", "last", "change"} /\ line = handed.kind
  BY <1>3, LineUp DEF RInv
<1>5. handed \in Requests
  <2>1. None.kind = "none"
    BY DEF None
  <2> QED
    BY <2>1, <1>4 DEF RInv, RequestType
<1>6. handed = [kind |-> handed.kind, words |-> handed.words]
      /\ (handed.kind = "change" => handed.words = 0)
  BY <1>5, Kinds
<1>7. line # "change" => bus0 = handed.words
  <2>1. line # "change" => inAt \in {"s2", "s4"}
    BY <1>3, <1>4 DEF RInv, InSide, Up
  <2> QED
    BY <2>1, <1>1, <1>2, <1>3 DEF RInv, LineInv, InSide
<1>8. offer' = [kind |-> handed.kind, words |-> handed.words]
  BY <1>1, <1>3, <1>4, <1>6, <1>7
<1> QED
  BY <1>1, <1>2, <1>3, <1>4, <1>5, <1>6, <1>8

LEMMA OfferStep ==
  ASSUME RInv, RequestNext
  PROVE  OfferInv'
<1>1. CASE OutStill
  <2>1. UNCHANGED <<offer, outAt, remember, engineAck, busy>> /\ InEdge
    BY <1>1, PeriodFacts, Sides DEF OutStill, offerVars, engineVars, RInv, InEdge
  <2>2. CASE outAt # 1
    BY <2>1, <2>2 DEF OfferInv, RInv
  <2>3. CASE outAt = 1
    <3>1. UNCHANGED <<inAt, handed, asked>> /\ begun' = begun
      BY <2>3, <1>1, FreshStays DEF RInv, OfferInv, OutStill, engineVars
    <3> QED
      BY <2>1, <2>3, <3>1 DEF OfferInv, RInv, Up, Fresh
  <2> QED
    BY <2>2, <2>3
<1>2. CASE OutEdge
  <2>1. (OutShow \/ OutWait \/ OutRest) /\ (EngineMoves \/ EngineStays)
    BY <1>2 DEF OutEdge, EdgeOffer
  <2>2. CASE outAt # 1
    <3>1. offer = None /\ ~remember /\ engineAck = "none"
      BY <2>2 DEF RInv, OfferInv
    <3>2. remember' = remember /\ engineAck' = "none" /\ begun' = begun
      BY <2>1, <3>1 DEF EngineMoves, EngineStays, EngineGoesOn, EngineCloses, EngineTakes
    <3>3. CASE outAt' # 1
      <4>1. offer' = offer
        BY <2>1, <2>2, <3>3 DEF OutShow, OutWait, OutRest
      <4> QED
        BY <3>1, <3>2, <3>3, <4>1 DEF OfferInv
    <3>4. CASE outAt' = 1
      <4>1. OutShow
        BY <2>1, <2>2, <3>4 DEF OutWait, OutRest, RInv, RequestType
      <4>2. Fresh /\ Up /\ offer' = handed /\ handed \in Requests
        BY <4>1, <3>4, Shown
      <4>3. UNCHANGED <<inAt, handed, asked>>
        BY <4>2, FreshStays
      <4>4. handed # None
        BY <4>2, Kinds
      <4> QED
        BY <3>1, <3>2, <3>4, <4>2, <4>3, <4>4 DEF OfferInv, Up, Fresh
    <3> QED
      BY <3>3, <3>4
  <2>3. CASE outAt = 1
    <3>1. /\ Up /\ offer = handed /\ offer # None
          /\ (Fresh => ~remember /\ engineAck = "none")
          /\ (~Fresh => (remember <=> engineAck = "none"))
          /\ (remember => offer.kind = "last")
          /\ (engineAck # "none" =>
               busy = 4 /\ engineAck = IF offer.kind = "tlp" THEN "tlp" ELSE "change")
      BY <2>3 DEF RInv, OfferInv
    <3>2. OutWait
      BY <2>1, <2>3 DEF OutShow, OutRest
    <3>3. UNCHANGED <<inAt, handed, asked>>
      BY <3>1, <2>3, FreshStays
    <3>4. offer.kind \in {"tlp", "last", "change"}
      <4>1. offer \in Requests
        BY <3>1 DEF RInv, RequestType
      <4> QED
        BY <4>1, Kinds
    <3>5. CASE outAt' # 1
      <4>1. /\ engineAck = (IF offer.kind = "tlp" THEN "tlp" ELSE "change")
            /\ offer' = None
        BY <3>2, <3>5, <2>3 DEF OutWait
      <4>2. busy = 4 /\ ~remember
        BY <4>1, <3>1
      <4>3. remember' = remember /\ engineAck' = "none"
        BY <2>1, <4>2 DEF EngineMoves, EngineStays, EngineGoesOn, EngineCloses, EngineTakes
      <4> QED
        BY <4>1, <4>2, <4>3, <3>5 DEF OfferInv
    <3>6. CASE outAt' = 1
      <4>1. offer' = offer /\ engineAck = "none"
        BY <3>2, <3>6, <3>1 DEF OutWait
      <4>2. CASE EngineTakes
        <5>1. Fresh /\ begun' = asked
          BY <4>2, Takes
        <5>2. /\ busy' = 4 /\ ~remember
              /\ remember' = (offer.kind = "last")
              /\ engineAck' = IF offer.kind = "last" THEN "none" ELSE offer.kind
          BY <4>2 DEF EngineTakes
        <5>3. ~Fresh'
          BY <5>1, <3>3 DEF Fresh
        <5>4. remember' <=> engineAck' = "none"
          BY <5>2, <3>4
        <5>5. engineAck' # "none" =>
                engineAck' = IF offer.kind = "tlp" THEN "tlp" ELSE "change"
          BY <5>2, <3>4
        <5> QED
          BY <3>1, <3>3, <3>6, <4>1, <5>2, <5>3, <5>4, <5>5 DEF OfferInv, Up
      <4>3. CASE EngineCloses
        <5>1. /\ busy' = 4 /\ remember /\ ~remember' /\ engineAck' = "change"
              /\ begun' = begun
          BY <4>3 DEF EngineCloses
        <5>2. ~Fresh /\ ~Fresh' /\ offer.kind = "last"
          BY <5>1, <3>1, <3>3 DEF Fresh
        <5> QED
          BY <3>1, <3>3, <3>6, <4>1, <5>1, <5>2 DEF OfferInv, Up
      <4>4. CASE EngineGoesOn \/ EngineStays
        <5>1. remember' = remember /\ engineAck' = "none" /\ begun' = begun
          BY <4>4 DEF EngineGoesOn, EngineStays
        <5>2. Fresh' <=> Fresh
          BY <5>1, <3>3 DEF Fresh
        <5> QED
          BY <3>1, <3>3, <3>6, <4>1, <5>1, <5>2 DEF OfferInv, Up
      <4> QED
        BY <2>1, <4>2, <4>3, <4>4 DEF EngineMoves
    <3> QED
      BY <3>5, <3>6
  <2> QED
    BY <2>2, <2>3
<1> QED
  BY <1>1, <1>2, Sides DEF RInv

LEMMA Ages ==
  ASSUME NEW q \in Nat, NEW n \in 4 .. 15
  PROVE  /\ (n - 3) * q \in Nat /\ (n + 1 - 3) * q = (n - 3) * q + q
         /\ n = 4 => (n - 3) * q = q /\ (5 - n) * q = q
         /\ n = 5 => (n - 3) * q = 2 * q /\ (5 - n) * q = 0
         /\ n >= 10 => (n - 3) * q >= 7 * q
         /\ n <= 5 => (n - 3) * q <= 2 * q
<1>1. n - 3 \in Nat /\ n + 1 - 3 = (n - 3) + 1
  OBVIOUS
<1>2. (n - 3) * q \in Nat /\ ((n - 3) + 1) * q = (n - 3) * q + q
  BY <1>1, MulSucc
<1>3. n = 4 => (n - 3) * q = q /\ (5 - n) * q = q
  OBVIOUS
<1>4. n = 5 => (n - 3) * q = 2 * q /\ (5 - n) * q = 0
  OBVIOUS
<1>5. n >= 10 => (n - 3) * q >= 7 * q
  <2> HAVE n >= 10
  <2>1. 7 <= n - 3 /\ 7 \in Nat
    OBVIOUS
  <2>2. 7 * q <= (n - 3) * q
    BY <2>1, <1>1, MulMono
  <2> QED
    BY <2>2, <1>2
<1>6. n <= 5 => (n - 3) * q <= 2 * q
  <2> HAVE n <= 5
  <2>1. n = 4 \/ n = 5
    OBVIOUS
  <2> QED
    BY <2>1, <1>3, <1>4
<1> QED
  BY <1>1, <1>2, <1>3, <1>4, <1>5, <1>6

(* The line is down long before the engine's side looks for the next. *)
LEMMA RestBound ==
  /\ ClockInv /\ RequestType /\ InSide /\ AckInv /\ Resting
  => outAt \in 4 .. 9
<1> SUFFICES ASSUME ClockInv, RequestType, InSide, AckInv, Resting
             PROVE  outAt \in 4 .. 9
  OBVIOUS
<1> DEFINE P == way.periodIn
           Q == way.periodOut
           k == (outAt - 3) * Q
<1>1. /\ P \in Nat /\ Q \in Nat \ {0} /\ Q < P /\ P < 2 * Q
      /\ in \in Nat /\ out \in Nat /\ in <= P /\ out <= Q
  BY WayFacts, PulseLong DEF ClockInv, RequestType
<1>2. line \in {"tlp", "last", "change"}
  BY LineUp DEF Resting
<1>3. outAt \in {0} \cup 4 .. 15
  BY DEF Resting, RequestType
<1>4. ack0 = "none" /\ ack1 = "none" => outAck = line
  BY DEF AckInv
<1>5. ack0 = "none" /\ ack1 = "none" => outAt \in {4, 5}
  BY <1>2, <1>4 DEF AckInv
<1>6. ack0 # "none" \/ ack1 # "none" =>
        /\ in + k >= out + P
        /\ in + k <= out + 2 * Q + 2 * P
  <2>1. CASE ack1 # "none"
    <3>1. in + k >= out + 2 * P /\ in + k <= out + 2 * Q + 2 * P
      BY <2>1 DEF AckInv, Since
    <3>2. k \in Int
      BY <1>1, <1>3
    <3> QED
      BY <3>1, <3>2, <1>1
  <2>2. CASE ack0 # "none" /\ ack1 = "none"
    <3>1. in + k >= out + P /\ in + k <= out + 2 * Q + P
      BY <2>2 DEF AckInv, Since
    <3>2. k \in Int
      BY <1>1, <1>3
    <3> QED
      BY <3>1, <3>2, <1>1
  <2> QED
    BY <2>1, <2>2
<1>7. CASE ack0 # "none" \/ ack1 # "none"
  <2>1. in + k >= out + P /\ in + k <= out + 2 * Q + 2 * P
    BY <1>6, <1>7
  <2>2. CASE outAt = 0
    <3>1. k = (0 - 3) * Q
      BY <2>2
    <3> QED
      BY <3>1, <2>1, <1>1
  <2>3. CASE outAt \in 10 .. 15
    <3>1. k \in Nat /\ k >= 7 * Q
      BY <2>3, <1>1, Ages
    <3> QED
      BY <3>1, <2>1, <1>1
  <2> QED
    BY <2>2, <2>3, <1>3
<1> QED
  BY <1>5, <1>7

(* What the engine's side does with its acknowledge. *)
LEMMA OutAcks ==
  ASSUME RInv, RequestNext
  PROVE  /\ outAt # 1 => outAck' = outAck \/ outAck' = "none"
         /\ outAt = 1 /\ outAt' = 1 => outAck' = outAck
         /\ outAt = 1 /\ outAt' # 1 =>
              /\ OutEdge /\ outAt' = 4 /\ outAck' = offer.kind
              /\ engineAck # "none"
<1>1. CASE OutStill
  BY <1>1 DEF OutStill, offerVars
<1>2. CASE OutEdge
  <2>1. OutShow \/ OutWait \/ OutRest
    BY <1>2 DEF OutEdge, EdgeOffer
  <2>2. CASE outAt # 1
    BY <2>1, <2>2 DEF OutShow, OutWait, OutRest
  <2>3. CASE outAt = 1
    BY <2>1, <2>3, <1>2 DEF OutShow, OutWait, OutRest
  <2> QED
    BY <2>2, <2>3
<1> QED
  BY <1>1, <1>2, Sides DEF RInv

(* The engine's side begins to rest, and shows its acknowledge. *)
LEMMA RestBegins ==
  ASSUME RInv, RequestNext, outAt = 1, outAt' # 1
  PROVE  AckInv' /\ Resting'
<1> DEFINE P == way.periodIn
           Q == way.periodOut
<1>1. /\ P \in Nat /\ Q \in Nat \ {0} /\ Q < P /\ P < 2 * Q
      /\ in \in Nat /\ out \in Nat /\ in <= P /\ out <= Q
  BY PeriodFacts, PulseLong DEF RInv, ClockInv
<1>2. OutEdge /\ outAt' = 4 /\ outAck' = offer.kind /\ engineAck # "none"
  BY OutAcks
<1>3. Up /\ offer = handed /\ ~Fresh
  BY <1>2 DEF RInv, OfferInv
<1>4. UNCHANGED <<inAt, line, bus, handed, asked>>
  BY <1>3, FreshStays
<1>5. line \in {"tlp", "last", "change"} /\ line = handed.kind
  BY <1>3, LineUp DEF RInv
<1>6. ~Fresh'
  BY <1>2, <1>3, Marks
<1>7. Resting'
  BY <1>2, <1>3, <1>4, <1>6 DEF Resting, Up
<1>8. ack0 = "none" /\ ack1 = "none" /\ outAck = "none"
  BY <1>3 DEF RInv, AckInv, Resting, Up
<1>9. out' = Q /\ way' = way /\ out <= in
  BY <1>2 DEF OutEdge, RequestNext
<1>10. CASE InStill
  <2>1. ack0' = "none" /\ ack1' = "none" /\ in' = in - out
    BY <1>8, <1>10 DEF InStill, askVars
  <2>2. in' < out' + (5 - outAt') * way'.periodOut
    BY <2>1, <1>1, <1>2, <1>9
  <2> QED
    BY <1>2, <1>3, <1>4, <1>5, <1>7, <2>1, <2>2 DEF AckInv
<1>11. CASE InEdge
  <2>1. ack1' = "none" /\ ack0' \in {"none", line} /\ in' = P
    BY <1>2, <1>3, <1>5, <1>8, <1>11 DEF InEdge, SampleAck
  <2>2. in' < out' + (5 - outAt') * way'.periodOut
    BY <2>1, <1>1, <1>2, <1>9
  <2>3. Since' = P + Q
    BY <2>1, <1>1, <1>2, <1>9 DEF Since
  <2>4. Since' >= out' + way'.periodIn
        /\ Since' <= out' + 2 * way'.periodOut + way'.periodIn
    BY <2>3, <1>1, <1>9
  <2>5. outAck' = line
    BY <1>2, <1>3, <1>5
  <2> QED
    BY <1>2, <1>4, <1>5, <1>7, <2>1, <2>2, <2>4, <2>5 DEF AckInv
<1> QED
  BY <1>7, <1>10, <1>11, Sides DEF RInv

(* It goes on resting: the trigger's side sees the acknowledge. *)
LEMMA RestGoesOn ==
  ASSUME RInv, RequestNext, Resting, Up'
  PROVE  AckInv' /\ Resting'
<1> DEFINE P == way.periodIn
           Q == way.periodOut
           k == (outAt - 3) * Q
<1>1. /\ P \in Nat /\ Q \in Nat \ {0} /\ Q < P /\ P < 2 * Q
      /\ in \in Nat /\ out \in Nat /\ in <= P /\ out <= Q
  BY PeriodFacts, PulseLong DEF RInv, ClockInv
<1>2. outAt \in 4 .. 9
  BY RestBound DEF RInv
<1>3. Up /\ ~Fresh /\ outAt # 1
  BY DEF Resting
<1>4. line \in {"tlp", "last", "change"}
  BY <1>3, LineUp DEF RInv
<1>5. /\ k \in Nat /\ (outAt + 1 - 3) * Q = k + Q /\ k >= Q
      /\ outAt = 4 => k = Q /\ (5 - outAt) * Q = Q
      /\ outAt = 5 => k = 2 * Q /\ (5 - outAt) * Q = 0
  <2>1. 1 * Q <= k
    BY <1>1, <1>2, MulMono, outAt - 3 \in Nat, 1 <= outAt - 3, 1 \in Nat
  <2> QED
    BY <2>1, <1>1, <1>2, Ages
<1>6. CASE InStill /\ OutEdge /\ out < in
  <2>1. /\ UNCHANGED <<inAt, line, ack0, ack1, asked>>
        /\ in' = in - out /\ out' = Q /\ way' = way
    BY <1>6 DEF InStill, OutEdge, askVars, RequestNext
  <2>2. OutRest
    BY <1>2, <1>6 DEF OutEdge, EdgeOffer, OutShow, OutWait
  <2>3. /\ outAt' = outAt + 1 /\ outAt' \in 5 .. 10
        /\ outAck' = IF outAt = 5 THEN "none" ELSE outAck
    BY <2>2, <1>2 DEF OutRest
  <2>4. ~Fresh'
    BY <1>3, Marks DEF InTake, Up
  <2>5. Resting'
    BY <2>1, <2>3, <2>4, <1>3 DEF Resting, Up
  <2>6. Since' = Since - out + Q /\ Since \in Nat /\ Since = in + k
    <3>1. Since' = in' + (outAt + 1 - 3) * Q
      <4>1. Since' = in' + (outAt' - 3) * way'.periodOut
        BY DEF Since
      <4>2. outAt' - 3 = outAt + 1 - 3
        BY <2>3, <1>2
      <4>3. way'.periodOut = Q
        BY <2>1
      <4> QED
        BY <4>1, <4>2, <4>3
    <3>2. Since' = in - out + (k + Q)
      BY <3>1, <2>1, <1>5
    <3>3. Since = in + k
      BY DEF Since
    <3> QED
      BY <3>2, <3>3, <1>1, <1>5
  <2>7. ack0 = "none" /\ ack1 = "none" =>
          outAck' = line' /\ in' < out' + (5 - outAt') * way'.periodOut
    <3> HAVE ack0 = "none" /\ ack1 = "none"
    <3>1. outAck = line /\ in < out + (5 - outAt) * Q
      BY DEF RInv, AckInv
    <3>2. outAt \in {4, 5}
      BY <3>1, <1>4 DEF RInv, AckInv
    <3>3. outAt = 4
      BY <3>1, <3>2, <1>1, <1>5, <1>6
    <3>4. in' < out' + (5 - 5) * Q
      BY <3>1, <3>3, <2>1, <1>1, <1>5, <1>6
    <3> QED
      BY <3>1, <3>3, <3>4, <2>1, <2>3
  <2>8. ack0 # "none" /\ ack1 = "none" =>
            /\ Since' >= out' + way'.periodIn
            /\ Since' <= out' + 2 * way'.periodOut + way'.periodIn
    <3> HAVE ack0 # "none" /\ ack1 = "none"
    <3>1. Since >= out + P /\ Since <= out + 2 * Q + P
      BY DEF RInv, AckInv
    <3> QED
      BY <3>1, <2>1, <2>6, <1>1
  <2>9. ack1 # "none" =>
            /\ Since' >= out' + 2 * way'.periodIn
            /\ Since' <= out' + 2 * way'.periodOut + 2 * way'.periodIn
    <3> HAVE ack1 # "none"
    <3>1. Since >= out + 2 * P /\ Since <= out + 2 * Q + 2 * P
      BY DEF RInv, AckInv
    <3> QED
      BY <3>1, <2>1, <2>6, <1>1
  <2>10. /\ outAck' # "none" => outAt' \in {4, 5} /\ outAck' = line
         /\ ack0 # "none" => ack0 = line
         /\ ack1 # "none" => ack1 = line
    BY <2>3 DEF RInv, AckInv
  <2> QED
    BY <2>1, <2>5, <2>7, <2>8, <2>9, <2>10 DEF AckInv
<1>7. CASE InEdge
  <2>1. /\ in' = P /\ way' = way /\ in <= out
        /\ ack0' \in {outAck, outAck'} /\ ack1' = ack0
    BY <1>7 DEF InEdge, SampleAck, RequestNext
  <2>2. InWait /\ ack1 # line /\ line' = line /\ inAt' = inAt
    BY <1>3, <1>7 DEF InEdge, EdgeAsk, InTake, InRaise, InWait, InRest, Up
  <2>3. ack1 = "none"
    BY <2>2 DEF RInv, AckInv
  <2>4. /\ outAt' \in {outAt, outAt + 1}
        /\ outAt = 4 => outAck' = outAck
        /\ outAck' = outAck \/ outAck' = "none"
        /\ \/ OutStill /\ outAt' = outAt /\ out' = out - in /\ outAck' = outAck
           \/ /\ OutEdge /\ outAt' = outAt + 1 /\ out' = Q /\ in = out
              /\ outAck' = IF outAt = 5 THEN "none" ELSE outAck
    <3>1. CASE OutStill
      BY <3>1 DEF OutStill, offerVars
    <3>2. CASE OutEdge
      <4>1. OutRest /\ in = out
        BY <1>1, <1>2, <2>1, <3>2 DEF OutEdge, EdgeOffer, OutShow, OutWait
      <4>2. outAt' = outAt + 1
        BY <4>1, <1>2 DEF OutRest
      <4> QED
        BY <4>1, <4>2, <1>2, <3>2 DEF OutRest, OutEdge
    <3> QED
      BY <3>1, <3>2, Sides DEF RInv
  <2>5. ~Fresh'
    BY <1>3, <2>2, Marks DEF InTake, InWait
  <2>6. Resting'
    BY <2>2, <2>4, <2>5, <1>2, <1>3 DEF Resting, Up
  <2>7. /\ outAck # "none" => outAck = line /\ outAt \in {4, 5}
        /\ ack0 # "none" => ack0 = line
    BY DEF RInv, AckInv
  <2>8. /\ outAck' # "none" => outAt' \in {4, 5} /\ outAck' = line
        /\ ack0' # "none" => ack0' = line
        /\ ack1' # "none" => ack1' = line
    BY <2>1, <2>4, <2>7, <1>2
  <2>9. CASE ack0 = "none"
    <3>1. outAck = line /\ in < out + (5 - outAt) * Q /\ outAt \in {4, 5}
      BY <2>3, <2>9, <2>7, <1>4 DEF RInv, AckInv
    <3>2. outAck' = outAck /\ (OutEdge => outAt = 4 \/ outAt' = outAt)
      BY <3>1, <2>1, <2>4, <1>1, <1>5
    <3>3. ack0' = line /\ ack1' = "none"
      BY <3>1, <3>2, <2>1, <2>9
    <3>4. /\ Since' >= out' + way'.periodIn
          /\ Since' <= out' + 2 * way'.periodOut + way'.periodIn
      <4>1. CASE outAt' = outAt /\ out' = out - in
        <5>1. Since' = P + k
          BY <4>1, <2>1 DEF Since
        <5>2. in + k <= out + 2 * Q
          BY <3>1, <1>1, <1>5
        <5> QED
          BY <4>1, <5>1, <5>2, <2>1, <1>1, <1>5
      <4>2. CASE outAt = 4 /\ outAt' = 5 /\ out' = Q
        <5>1. Since' = P + 2 * Q
          BY <4>2, <2>1, <1>1 DEF Since
        <5> QED
          BY <4>2, <5>1, <2>1, <1>1
      <4> QED
        BY <3>1, <2>1, <2>4, <1>1, <1>5, <4>1, <4>2
    <3> QED
      BY <2>2, <2>6, <2>8, <3>3, <3>4, <1>4 DEF AckInv
  <2>10. CASE ack0 # "none"
    <3>1. Since >= out + P /\ Since <= out + 2 * Q + P /\ Since = in + k
      BY <2>3, <2>10 DEF RInv, AckInv, Since
    <3>2. ack1' = line
      BY <2>1, <2>7, <2>10
    <3>3. /\ Since' >= out' + 2 * way'.periodIn
          /\ Since' <= out' + 2 * way'.periodOut + 2 * way'.periodIn
      <4>1. CASE outAt' = outAt /\ out' = out - in
        <5>1. Since' = P + k
          BY <4>1, <2>1 DEF Since
        <5> QED
          BY <4>1, <5>1, <3>1, <2>1, <1>1, <1>5
      <4>2. CASE outAt' = outAt + 1 /\ out' = Q /\ in = out
        <5>1. Since' = P + (k + Q)
          <6>1. Since' = in' + (outAt' - 3) * way'.periodOut
            BY DEF Since
          <6>2. Since' = P + (outAt + 1 - 3) * Q
            <7>1. outAt' - 3 = outAt + 1 - 3
              BY <4>2, <1>2
            <7>2. way'.periodOut = Q
              BY <2>1
            <7> QED
              BY <6>1, <7>1, <7>2, <2>1
          <6> QED
            BY <6>2, <1>5
        <5> QED
          BY <4>2, <5>1, <3>1, <2>1, <1>1, <1>5
      <4> QED
        BY <2>4, <4>1, <4>2
    <3> QED
      BY <2>2, <2>6, <2>8, <3>2, <3>3, <1>4 DEF AckInv
  <2> QED
    BY <2>9, <2>10
<1> QED
  BY <1>1, <1>6, <1>7, Sides DEF RInv

(* It does not rest, or does so no longer. *)
LEMMA RestEnds ==
  ASSUME RInv, RequestNext, Resting, ~Up'
  PROVE  AckInv'
<1> DEFINE P == way.periodIn
           Q == way.periodOut
           k == (outAt - 3) * Q
<1>1. /\ P \in Nat /\ Q \in Nat \ {0} /\ Q < P
      /\ in \in Nat /\ out \in Nat
  BY PeriodFacts
<1>2. outAt \in 4 .. 9 /\ Up
  BY RestBound DEF RInv, Resting
<1>3. InEdge
  BY <1>2, Sides DEF InStill, askVars, Up, RInv
<1>4. /\ in <= out /\ ack0' \in {outAck, outAck'}
      /\ InWait /\ ack1 = line /\ inAt' = "s6"
  BY <1>2, <1>3 DEF InEdge, SampleAck, EdgeAsk, InTake, InRaise, InWait, InRest, Up
<1>5. ack1 # "none"
  BY <1>2, <1>4, LineUp DEF RInv
<1>6. in + k >= out + 2 * P
  BY <1>5 DEF RInv, AckInv, Since
<1>7. k \in Nat /\ (outAt <= 5 => k <= 2 * Q)
  BY <1>1, <1>2, Ages
<1>8. outAt > 5
  BY <1>1, <1>2, <1>4, <1>6, <1>7
<1>9. outAck = "none"
  BY <1>8 DEF RInv, AckInv
<1>10. outAck' = "none"
  BY <1>2, <1>9, OutAcks
<1> QED
  BY <1>4, <1>9, <1>10 DEF AckInv, Resting, Up

LEMMA NoRest ==
  ASSUME RInv, RequestNext, ~Resting, ~(outAt = 1 /\ outAt' # 1)
  PROVE  AckInv'
<1>1. ack0 = "none" /\ outAck = "none" /\ (inAt # "s6" => ack1 = "none")
  BY DEF RInv, AckInv
<1>2. outAck' = "none"
  BY <1>1, OutAcks
<1>3. ack0' = "none" /\ (inAt' # "s6" => ack1' = "none")
  <2>1. CASE InStill
    BY <2>1, <1>1 DEF InStill, askVars
  <2>2. CASE InEdge
    BY <2>2, <1>1, <1>2 DEF InEdge, SampleAck
  <2> QED
    BY <2>1, <2>2, Sides DEF RInv
<1>4. ~Resting'
  <2> SUFFICES ASSUME Up', ~Fresh', outAt' # 1 PROVE FALSE
    BY DEF Resting
  <2>1. outAt # 1
    OBVIOUS
  <2>2. ~Fresh
    BY <2>1, Marks
  <2>3. ~Up
    BY <2>1, <2>2 DEF Resting
  <2>4. inAt \in {"s0", "s6"}
    BY <2>2, <2>3 DEF RInv, InSide, RequestType, Up
  <2>5. InEdge
    BY <2>3, Sides DEF InStill, askVars, Up, RInv
  <2>6. ~InTake
    <3>1. UNCHANGED <<asked, begun, handed, bus>>
      BY <2>2, Marks
    <3> QED
      BY <3>1 DEF InTake, RInv, RequestType
  <2> QED
    BY <2>4, <2>5, <2>6 DEF InEdge, EdgeAsk, InRaise, InWait, InRest, Up
<1> QED
  BY <1>2, <1>3, <1>4 DEF AckInv

LEMMA AckStep ==
  ASSUME RInv, RequestNext
  PROVE  AckInv'
BY RestBegins, RestGoesOn, RestEnds, NoRest DEF Resting

LEMMA LineStep ==
  ASSUME RInv, RequestNext,
         ClockInv', RequestType', InSide', AckInv', way' = way
  PROVE  LineInv'
<1>0. (/\ ClockInv /\ RequestType /\ InSide /\ AckInv /\ Resting
       => outAt \in 4 .. 9)'
  BY RestBound, PTL
<1>1. in \in Nat /\ out \in Nat
  BY PeriodFacts
<1>2. \/ line0' = line0 /\ line1' = line1 /\ bus0' = bus0
      \/ /\ line0' \in {line, line'} /\ line1' = line0
         /\ bus' = bus => bus0' = bus
  <2>1. CASE OutStill
    BY <2>1 DEF OutStill, offerVars
  <2>2. CASE OutEdge
    BY <2>2 DEF OutEdge, SampleLine
  <2> QED
    BY <2>1, <2>2, Sides DEF RInv
<1>3. line # "none" => Up
  BY DEF RInv, InSide
<1>4. line' # "none" => Up'
  BY DEF InSide
<1>5. CASE InTake /\ InEdge /\ ~Fresh /\ Fresh'
  <2>1. inAt = "s0" /\ in <= out
    BY <1>5 DEF InTake, InEdge
  <2>2. line = "none" /\ line0 = "none" /\ line1 = "none"
    BY <2>1, <1>1, <1>3 DEF RInv, DrainedInv, Up
  <2>3. line1' = "none" /\ line0' \in {"none", line'}
    BY <2>2, <1>2
  <2> QED
    BY <1>4, <1>5, <2>3 DEF LineInv
<1>6. CASE /\ EngineTakes /\ OutEdge /\ Fresh /\ ~Fresh' /\ outAt' = 1
  BY <1>6 DEF LineInv
<1>7. CASE UNCHANGED <<asked, begun, handed, bus>> /\ Fresh /\ Fresh'
  <2>1. (line0 # "none" => Up /\ line0 = line) /\ (line1 # "none" => Up /\ line1 = line)
    BY <1>7 DEF RInv, LineInv
  <2>2. Up => Up' /\ line' = line
    BY <1>7, FreshStays DEF Up
  <2>3. line' # "none" => Up'
    BY <1>4
  <2>4. /\ line0' # "none" => Up' /\ line0' = line'
        /\ line1' # "none" => Up' /\ line1' = line'
    <3>1. line # "none" => line' = line
      BY <1>3, <2>2
    <3> QED
      BY <1>2, <2>1, <2>2, <2>3, <3>1
  <2>5. Up' /\ line1' # "none" /\ line' # "change" => bus0' = bus'
    <3> HAVE Up' /\ line1' # "none" /\ line' # "change"
    <3>1. CASE line1' = line1 /\ bus0' = bus0
      <4>1. line1 # "none" /\ Up /\ line' = line
        BY <3>1, <2>1, <2>2
      <4> QED
        BY <4>1, <3>1, <1>7 DEF RInv, LineInv
    <3>2. CASE bus' = bus => bus0' = bus
      BY <3>2, <1>7
    <3> QED
      BY <3>1, <3>2, <1>2
  <2> QED
    BY <1>7, <2>4, <2>5 DEF LineInv
<1>8. CASE UNCHANGED <<asked, begun, handed, bus>> /\ ~Fresh /\ ~Fresh'
  <2> SUFFICES ASSUME outAt' # 1
               PROVE  /\ line' # "none" => outAt' \in 4 .. 9
                      /\ line0' # "none" => outAt' \in 4 .. 10
                      /\ line1' # "none" => outAt' \in 4 .. 11
    BY <1>8 DEF LineInv
  <2>1. line' # "none" => outAt' \in 4 .. 9
    <3> HAVE line' # "none"
    <3>1. Resting'
      BY <1>4, <1>8 DEF Resting
    <3> QED
      BY <1>0, <3>1
  <2>2. CASE outAt = 1
    <3>1. outAt' = 4
      BY <2>2, OutAcks
    <3> QED
      BY <3>1
  <2>3. CASE outAt # 1
    <3>1. /\ line # "none" => outAt \in 4 .. 9
          /\ line0 # "none" => outAt \in 4 .. 10
          /\ line1 # "none" => outAt \in 4 .. 11
      BY <1>8, <2>3 DEF RInv, LineInv
    <3>2. CASE OutStill
      <4>1. line0' = line0 /\ line1' = line1 /\ outAt' = outAt
        BY <3>2 DEF OutStill, offerVars
      <4> QED
        BY <2>1, <3>1, <4>1
    <3>3. CASE OutEdge
      <4>1. line0' \in {line, line'} /\ line1' = line0
        BY <3>3 DEF OutEdge, SampleLine
      <4>2. OutShow \/ OutRest
        BY <2>3, <3>3 DEF OutEdge, EdgeOffer, OutWait
      <4>3. outAt \in 4 .. 15 => outAt' = (outAt + 1) % 16
        BY <4>2 DEF OutShow, OutRest
      <4>4. \A n \in 4 .. 10 : (n + 1) % 16 = n + 1
        OBVIOUS
      <4>5. outAt \in 4 .. 10 => outAt' = outAt + 1
        BY <4>3, <4>4
      <4>6. line0 # "none" => outAt' \in 5 .. 11
        BY <3>1, <4>5
      <4>7. line # "none" => outAt' \in 5 .. 10
        BY <3>1, <4>5
      <4> QED
        BY <2>1, <4>1, <4>6, <4>7
    <3> QED
      BY <3>2, <3>3, Sides DEF RInv
  <2> QED
    BY <2>2, <2>3
<1> QED
  BY <1>5, <1>6, <1>7, <1>8, Marks

LEMMA RequestStep ==
  ASSUME RInv, RequestNext
  PROVE  RInv'
<1>1. ClockInv'
  BY ClockStep DEF RequestNext, RequestIn, RequestOut, RequestBoth, RInv
<1>2. RequestType' /\ InSide' /\ OfferInv' /\ AckInv' /\ way' = way
  BY RequestTypeStep, InSideStep, OfferStep, AckStep DEF RequestNext
<1>3. LineInv' /\ DrainedInv'
  BY <1>1, <1>2, LineStep, DrainedStep
<1> QED
  BY <1>1, <1>2, <1>3 DEF RInv
-----------------------------------------------------------------------------
Idle == begun = asked /\ offer = None

CInv ==
  /\ look \in {"address", "request"}
  /\ AddrInv
  /\ look = "address" => Idle
  /\ look = "request" => RInv

LEMMA CInvInit == CardInit => CInv
<1> SUFFICES ASSUME CardInit PROVE CInv
  OBVIOUS
<1>1. ClockInv /\ output \in Value
  BY DEF CardInit, SynchInit, Init, ClockInv
<1>2. AddrType /\ StrobeInv /\ SeenInv
  <2>1. fsm = 0 /\ way.last \in Nat
    BY <1>1, WayFacts DEF CardInit, SynchInit, Init, ClockInv
  <2>2. fsm \in 0 .. way.last
    BY <2>1
  <2>3. synch = FALSE /\ synch0 = FALSE /\ synch1 = FALSE
        /\ input \in Value /\ last \in Value
    BY DEF CardInit, SynchInit, Init
  <2>4. AddrType
    BY <2>2, <2>3 DEF AddrType
  <2> QED
    BY <2>1, <2>3, <2>4 DEF StrobeInv, SeenInv
<1>3. look = "request" => RInv
  <2> HAVE look = "request"
  <2>1. /\ ask = None /\ inAt = "s0" /\ line = "none" /\ handed = None
        /\ ack0 = "none" /\ ack1 = "none" /\ line0 = "none" /\ line1 = "none"
        /\ outAt = 0 /\ offer = None /\ outAck = "none" /\ busy = 0
        /\ engineAck = "none" /\ remember = FALSE /\ asked = 0 /\ begun = 0
    BY DEF CardInit, SynchInit
  <2>2. way.periodOut < way.periodIn
    <3>1. way.periodIn > way.periodOut
      BY DEF CardInit, SynchInit
    <3>2. way.periodIn \in Nat /\ way.periodOut \in Nat
      BY <1>1, WayFacts DEF ClockInv
    <3> QED
      BY <3>1, <3>2
  <2>3. RequestType
    <3>1. outAt \in {0, 1} \cup 4 .. 15 /\ busy \in 0 .. 4
      BY <2>1
    <3>2. asked \in 0 .. 1 /\ begun \in 0 .. 1
      BY <2>1
    <3>3. ask \in Requests \cup {None} /\ handed \in Requests \cup {None}
      BY <2>1
    <3>4. remember \in BOOLEAN
      BY <2>1
    <3> QED
      BY <2>1, <2>2, <3>1, <3>2, <3>3, <3>4 DEF RequestType
  <2>4. InSide /\ LineInv /\ DrainedInv /\ OfferInv /\ AckInv
    BY <2>1 DEF InSide, LineInv, DrainedInv, OfferInv, AckInv, Resting, Up, Fresh
  <2> QED
    BY <1>1, <2>3, <2>4 DEF RInv
<1>4. look \in {"address", "request"} /\ Idle
  BY DEF CardInit, SynchInit, Idle
<1> QED
  BY <1>1, <1>2, <1>3, <1>4 DEF CInv, AddrInv

LEMMA CInvStep ==
  ASSUME CInv, [CardNext]_cardVars
  PROVE  CInv' /\ (output' # output => output' = cross)
<1>1. CASE UNCHANGED synchVars
  BY <1>1 DEF synchVars, vars, aVars, bVars, requestVars, askVars, offerVars,
       engineVars, CInv, Idle, AddrInv, ClockInv, AddrType, StrobeInv, SeenInv, Left, RInv,
       RequestType, InSide, LineInv, DrainedInv, OfferInv, AckInv, Since, Resting, Up,
       Fresh
<1>2. CASE SynchNext
  <2>1. CASE look = "address" /\ Next /\ UNCHANGED <<look, requestVars>>
    <3>1. AddrInv' /\ (output' # output => output' = cross)
      BY <2>1, AddrStep DEF CInv, AddrInv
    <3>2. look' = "address" /\ Idle'
      BY <2>1 DEF CInv, Idle, requestVars, askVars, offerVars, engineVars
    <3> QED
      BY <3>1, <3>2 DEF CInv
  <2>2. CASE /\ look = "request" /\ UNCHANGED <<look, way, aVars, bVars>>
             /\ RequestIn \/ RequestOut \/ RequestBoth
    <3>1. RInv'
      BY <2>2, RequestStep DEF CInv, RequestNext
    <3>2. output' = output /\ look' = "request"
      BY <2>2 DEF bVars
    <3> QED
      BY <3>1, <3>2 DEF CInv, AddrInv, RInv
  <2> QED
    BY <1>2, <2>1, <2>2 DEF SynchNext
<1> QED
  BY <1>1, <1>2 DEF CardNext, OfCrossings, OfBus, cardVars

LEMMA CInvariant == CardSpec => []CInv
<1>1. CardInit => CInv
  BY CInvInit
<1>2. CInv /\ [CardNext]_cardVars => CInv'
  BY CInvStep
<1> QED
  BY <1>1, <1>2, PTL DEF CardSpec

(* The far side of a crossing of addresses never holds a mixture of two,   *)
(* whatever the phases of the clocks and whenever the address changes:     *)
(* rx_rd_addr_synch.v, tx_wr_addr_synch.v, tx_rd_addr_synch.v.             *)
THEOREM AddressWhole == CardSpec => []NeverTorn
<1>1. CInv => NeverTorn
  BY ConstantsAssumption DEF CInv, AddrInv, NeverTorn
<1> QED
  BY <1>1, CInvariant, PTL

(* What it takes is the address latched last, never an older one, so that  *)
(* no pointer of a buffer goes back.                                       *)
THEOREM AddressForward == CardSpec => NeverOlder
<1>1. CInv /\ [CardNext]_cardVars => [output' # output => output' = cross]_vars
  BY CInvStep
<1> QED
  BY <1>1, CInvariant, PTL DEF CardSpec, NeverOlder

(* Every request of rx_tlp_trigger.v that rx_trigger_synch.v acknowledges  *)
(* is begun once by the write engine, as it was asked.                     *)
THEOREM RequestOnce == CardSpec => []BegunOnce
<1>1. CInv => BegunOnce
  BY DEF CInv, Idle, RInv, InSide, OfferInv, Fresh, BegunOnce
<1> QED
  BY <1>1, CInvariant, PTL

-----------------------------------------------------------------------------
(* The bus. *)

(* The turns: one at most, for one cycle, and when nobody drives the bus. *)
TurnInv ==
  /\ turnBit \in BOOLEAN
  /\ arb = "s0" => ~rxTurn /\ ~txTurn
  /\ ~(rxTurn /\ txTurn)
  /\ rxTurn \/ txTurn => ~rxDrives /\ ~txDrives
  /\ ~(rxDrives /\ txDrives)

(* The write engine has the bus while it sends, and as long as its last    *)
(* word is there.                                                          *)
RxHolds ==
  /\ rxAt \notin {"s0", "s1"} => rxDrives
  /\ rxTd => rxDrives
  /\ rxInt => rxAt = "s12"

(* So has the read engine. *)
TxHolds ==
  /\ txAt # "s0" => txDrives
  /\ txTd => txAt \in {"s2", "s3"}
  /\ txInt => txAt = "s8"

BusInv == TurnInv /\ RxHolds /\ TxHolds

(* An engine that drives after a step drove before it, or had the turn. *)
LEMMA RxTurns ==
  ASSUME RxCycle, RxHolds
  PROVE  rxDrives' => rxDrives \/ rxTurn
BY DEF RxCycle, RxHolds, RxPage, RxTake, RxPause, RxSend, RxInterrupt

LEMMA TxTurns ==
  ASSUME TxCycle, TxHolds
  PROVE  txDrives' => txDrives \/ txTurn
BY DEF TxCycle, TxHolds, TxTake, TxWait, TxSend, TxInterrupts

LEMMA RxHoldsStep ==
  ASSUME RxCycle, RxHolds
  PROVE  RxHolds'
<1>1. CASE RxPage
  BY <1>1 DEF RxHolds, RxPage
<1>2. CASE RxTake
  BY <1>2 DEF RxHolds, RxTake
<1>3. CASE RxPause
  BY <1>3 DEF RxHolds, RxPause
<1>4. CASE RxSend
  BY <1>4 DEF RxHolds, RxSend
<1>5. CASE RxInterrupt
  BY <1>5 DEF RxHolds, RxInterrupt
<1> QED
  BY <1>1, <1>2, <1>3, <1>4, <1>5 DEF RxCycle

LEMMA TxHoldsStep ==
  ASSUME TxCycle, TxHolds
  PROVE  TxHolds'
<1>1. CASE TxTake
  BY <1>1 DEF TxHolds, TxTake
<1>2. CASE TxWait
  BY <1>2 DEF TxHolds, TxWait
<1>3. CASE TxSend
  BY <1>3 DEF TxHolds, TxSend
<1>4. CASE TxInterrupts
  BY <1>4 DEF TxHolds, TxInterrupts
<1> QED
  BY <1>1, <1>2, <1>3, <1>4 DEF TxCycle

LEMMA TurnStep ==
  ASSUME BusNext, BusInv
  PROVE  TurnInv'
<1> USE DEF BusNext, BusInv
<1>1. (rxDrives' => rxDrives \/ rxTurn) /\ (txDrives' => txDrives \/ txTurn)
  BY RxTurns, TxTurns
<1>2. CASE arb = "s0" /\ ~rxDrives /\ ~txDrives
  <2>1. ~rxDrives' /\ ~txDrives'
    BY <1>1, <1>2 DEF TurnInv
  <2>2. /\ arb' = "s1" /\ turnBit' = ~turnBit
        /\ rxTurn' = ~turnBit /\ txTurn' = turnBit
    BY <1>2 DEF Arbitrate
  <2>3. turnBit = TRUE \/ turnBit = FALSE
    BY DEF TurnInv
  <2>4. turnBit' \in BOOLEAN /\ ~(rxTurn' /\ txTurn')
    BY <2>2, <2>3
  <2> QED
    BY <2>1, <2>2, <2>4 DEF TurnInv
<1>3. CASE arb = "s0" /\ (rxDrives \/ txDrives)
  BY <1>1, <1>3 DEF TurnInv, Arbitrate, arbVars
<1>4. CASE arb = "s1"
  BY <1>1, <1>4 DEF TurnInv, Arbitrate
<1> QED
  BY <1>2, <1>3, <1>4 DEF Arbitrate

(* The bus is never driven by both engines, and neither finds the other's  *)
(* last word on it: the turns alone see to it, whatever the endpoint does  *)
(* (enpoint_arbitration.v, rx_wr_pkt_to_hugepages.v:222).                  *)
THEOREM BusOneDriver == BusSpec => []OneDriver
<1>1. BusInit => BusInv
  BY DEF BusInit, BusInv, TurnInv, RxHolds, TxHolds
<1>2. BusInv /\ [BusNext]_busVars => BusInv'
  <2> SUFFICES ASSUME BusInv, [BusNext]_busVars PROVE BusInv'
    OBVIOUS
  <2>1. CASE BusNext
    BY <2>1, TurnStep, RxHoldsStep, TxHoldsStep DEF BusNext, BusInv
  <2>2. CASE UNCHANGED busVars
    BY <2>2 DEF busVars, arbVars, rxBusVars, txBusVars, BusInv, TurnInv, RxHolds,
                TxHolds
  <2> QED
    BY <2>1, <2>2
<1>3. BusInv => OneDriver
  BY DEF BusInv, TurnInv, RxHolds, TxHolds, OneDriver
<1> QED
  BY <1>1, <1>2, <1>3, PTL DEF BusSpec
=============================================================================
