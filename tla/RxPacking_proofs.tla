-------------------------- MODULE RxPacking_proofs --------------------------
(***************************************************************************)
(* For a buffer, bursts, pages and frames of any size that satisfy the     *)
(* assumptions: no word of the buffer is written over before it was sent,  *)
(* and every page that is closed is one the driver can walk.               *)
(***************************************************************************)
EXTENDS RxPacking, SequenceTheorems, TLAPS

Numbers ==
  /\ aux \in Nat /\ diff \in Nat /\ unseen \in Nat
  /\ left \in Nat /\ toSend \in Nat /\ count \in Nat /\ remaining \in Nat
  /\ page \in Nat
  /\ rxState \in {"idle", "frame", "good", "drop"}
  /\ trig \in {"idle", "burst", "change", "last"}
  /\ send \in {"wait", "open", "closed"}
  /\ dirty \in BOOLEAN /\ ended \in BOOLEAN

RequestInv ==
  /\ request \in [kind : {"none", "tlp", "last", "change"}, words : Nat]
  /\ request.kind = "none" <=> request = None
  /\ request.kind = "tlp" => request.words = Burst
  /\ request.kind = "last" => request.words > 0
  /\ request.kind = "change" => request.words = 0

(* What is committed leaves room for a frame's beginning: its first word,  *)
(* and one more until the difference of the cycle before is tested.        *)
MacInv ==
  /\ rxState = "idle" <=> aux = 0
  /\ Len(mem) + unseen <= MaxDiff + 2
  /\ rxState = "frame" => Occupied <= diff + 1 /\ diff <= MaxDiff + 2
  /\ rxState = "good" => Occupied <= MaxDiff + 2
  /\ rxState = "drop" => Occupied <= MaxDiff + 4

(* The words the trigger has decided to send and not yet requested. *)
Owed == IF trig = "burst" THEN left * Burst + remaining
        ELSE IF trig = "last" THEN toSend ELSE remaining

(* The words of the page being written. *)
Written == IF send = "open" THEN page ELSE 0

(* The page takes what is written, requested and decided. *)
PageInv ==
  /\ request.words + Owed <= Len(mem)
  /\ count + Owed <= PageSize
  /\ request.kind \in {"none", "tlp"} => count = Burst + Written + request.words
  /\ request.kind \in {"last", "change"} => count = Burst
  /\ Burst + Written + request.words <= PageSize
  /\ Burst + page <= PageSize

(* What the trigger's flags say of the page. *)
TrigInv ==
  /\ trig = "idle" /\ dirty => count > Burst
  /\ trig = "idle" /\ ~dirty => count = Burst /\ remaining = 0
  /\ trig = "burst" => left > 0 /\ dirty
  /\ trig = "change" => remaining = 0 /\ count > Burst
  /\ trig = "last" => toSend > 0
  /\ request.kind = "change" => send = "open" /\ page > 0

(* What is decided ends where a frame ends, and so does what is committed, *)
(* and a page that is closed.                                              *)
Aligned ==
  /\ request.words + Owed = 0 => ended
  /\ request.words + Owed > 0 => mem[request.words + Owed]

EndInv ==
  /\ mem \in Seq(BOOLEAN)
  /\ Len(mem) > 0 => mem[Len(mem)]
  /\ Aligned
  /\ request.kind = "last" => mem[request.words]
  /\ request.kind = "change" => ended
  /\ send = "closed" => ended /\ page > 0

IInv == Numbers /\ RequestInv /\ MacInv /\ PageInv /\ TrigInv /\ EndInv

-----------------------------------------------------------------------------
LEMMA DivMod ==
  ASSUME NEW a \in Nat, NEW b \in Nat, b > 0
  PROVE  /\ a \div b \in Nat /\ a % b \in Nat /\ a % b < b
         /\ (a \div b) * b + (a % b) = a
         /\ a >= b => a \div b > 0
<1>1. /\ a \div b \in Nat /\ a % b \in Nat /\ a % b < b
      /\ (a \div b) * b + (a % b) = a
  OBVIOUS
<1>2. ASSUME NEW q \in Nat, NEW r \in Nat, q * b + r = a, r < b, a >= b
      PROVE  q > 0
  <2>1. CASE q = 0
    BY <1>2, <2>1
  <2> QED
    BY <1>2, <2>1
<1> QED
  BY <1>1, <1>2

LEMMA OneLess ==
  ASSUME NEW a \in Nat, NEW b \in Nat, a > 0
  PROVE  /\ a * b \in Nat /\ a - 1 \in Nat /\ a * b >= b
         /\ (a - 1) * b = a * b - b
OBVIOUS

LEMMA Sizes ==
  /\ Size \in Nat /\ MaxDiff \in Nat /\ Burst \in Nat /\ PageSize \in Nat
  /\ MaxFrame \in Nat
  /\ Burst > 0 /\ MaxDiff + 4 < Size /\ Burst + Size < PageSize
BY ConstantsAssumption

LEMMA OwedNat ==
  ASSUME IInv
  PROVE  /\ Owed \in Nat /\ Len(mem) \in Nat
         /\ request.words \in Nat /\ left * Burst \in Nat
<1>1. left * Burst \in Nat
  BY Sizes DEF IInv, Numbers
<1> QED
  BY <1>1 DEF IInv, Numbers, RequestInv, Owed, EndInv

(* The difference was at most MaxDiff a cycle ago: there is room.          *)
LEMMA Room ==
  ASSUME IInv
  PROVE  Occupied < Size
BY Sizes, OwedNat DEF IInv, Numbers, MacInv, Occupied

-----------------------------------------------------------------------------
(* The MAC side. *)
LEMMA MacFrame ==
  ASSUME IInv, Numbers', MacInv',
         UNCHANGED <<mem, trigVars, request, sendVars>>
  PROVE  IInv'
BY DEF IInv, RequestInv, PageInv, TrigInv, EndInv, Aligned, Owed, Written, trigVars,
       sendVars

LEMMA MacStep ==
  ASSUME IInv, Mac
  PROVE  IInv'
<1> USE DEF IInv
<1>1. CASE RxStart
  <2>1. Numbers' /\ MacInv'
    BY <1>1, Sizes, OwedNat DEF RxStart, Numbers, MacInv, Occupied, trigVars, sendVars
  <2> QED
    BY <1>1, <2>1, MacFrame DEF RxStart
<1>2. CASE RxWord
  <2>1. Numbers' /\ MacInv'
    BY <1>2, Sizes, OwedNat DEF RxWord, Numbers, MacInv, Occupied, trigVars, sendVars
  <2> QED
    BY <1>2, <2>1, MacFrame DEF RxWord
<1>3. CASE RxDiscard
  <2>1. Numbers' /\ MacInv'
    BY <1>3, Sizes, OwedNat DEF RxDiscard, Numbers, MacInv, Occupied, trigVars,
                                sendVars
  <2> QED
    BY <1>3, <2>1, MacFrame DEF RxDiscard
<1>4. CASE RdSynch
  <2>1. Numbers' /\ MacInv'
    BY <1>4, Sizes, OwedNat DEF RdSynch, Numbers, MacInv, Occupied, macVars,
                                trigVars, sendVars
  <2> QED
    BY <1>4, <2>1, MacFrame DEF RdSynch
<1>5. CASE RxCommit
  <2> DEFINE frame == [k \in 1 .. aux |-> k = aux]
  <2>1. mem' = mem \o frame /\ rxState = "good" /\ aux > 0 /\ aux \in Nat
    BY <1>5 DEF RxCommit, MacInv, Numbers
  <2>2. frame \in Seq(BOOLEAN) /\ Len(frame) = aux /\ frame[aux] = TRUE
    <3>1. frame \in [1 .. aux -> BOOLEAN]
      OBVIOUS
    <3>2. \A n \in Nat : \A f \in [1 .. n -> BOOLEAN] : f \in Seq(BOOLEAN) /\ Len(f) = n
      OBVIOUS
    <3>3. aux \in 1 .. aux
      BY <2>1
    <3>4. frame[aux] = (aux = aux)
      BY <3>3, Zenon
    <3> HIDE DEF frame
    <3> QED
      BY <2>1, <3>1, <3>2, <3>4
  <2>3. mem \in Seq(BOOLEAN)
    BY DEF EndInv
  <2> HIDE DEF frame
  <2>4. /\ mem' \in Seq(BOOLEAN) /\ Len(mem') = Len(mem) + aux
        /\ \A i \in 1 .. Len(mem) : mem'[i] = mem[i]
        /\ mem'[Len(mem) + aux] = TRUE
    <3>1. /\ mem' \in Seq(BOOLEAN) /\ Len(mem') = Len(mem) + aux
          /\ \A i \in 1 .. Len(mem) + aux :
               mem'[i] = IF i <= Len(mem) THEN mem[i] ELSE frame[i - Len(mem)]
      BY <2>1, <2>2, <2>3, ConcatProperties
    <3>2. Len(mem) \in Nat
      BY OwedNat
    <3> QED
      BY <2>1, <2>2, <3>1, <3>2
  <2>5. /\ aux' = 0 /\ diff' = Occupied /\ rxState' = "idle"
        /\ UNCHANGED <<unseen, trigVars, request, sendVars>>
    BY <1>5 DEF RxCommit
  <2>6. Numbers' /\ MacInv' /\ RequestInv' /\ TrigInv' /\ Owed' = Owed
    BY <2>1, <2>4, <2>5, OwedNat, Sizes DEF Numbers, MacInv, RequestInv, TrigInv,
       Owed, Occupied, trigVars, sendVars
  <2>7. PageInv'
    BY <2>1, <2>4, <2>5, <2>6, OwedNat, Sizes DEF Numbers, PageInv, Written, trigVars,
       sendVars
  <2>8. request.words + Owed <= Len(mem)
    BY DEF PageInv
  <2>9. Aligned'
    BY <2>4, <2>5, <2>6, <2>8, OwedNat DEF EndInv, Aligned, sendVars
  <2>10. EndInv'
    BY <2>1, <2>4, <2>5, <2>8, <2>9, OwedNat DEF EndInv, RequestInv, sendVars
  <2> QED
    BY <2>6, <2>7, <2>10
<1> QED
  BY <1>1, <1>2, <1>3, <1>4, <1>5 DEF Mac

-----------------------------------------------------------------------------
(* The trigger: what it decides, it takes from what waits.                 *)
LEMMA TriggerFrame ==
  ASSUME IInv, Numbers', RequestInv', PageInv', TrigInv', Aligned',
         UNCHANGED <<mem, macVars, unseen, sendVars>>,
         request'.kind = "last" => mem[request'.words],
         request'.kind = "change" => ended
  PROVE  IInv'
BY DEF IInv, MacInv, EndInv, Occupied, macVars, sendVars

LEMMA WaitingFits ==
  ASSUME IInv
  PROVE  /\ Waiting \in Int /\ Len(mem) = request.words + Waiting
         /\ Len(mem) < Size /\ Owed <= Waiting
<1>1. Len(mem) < Size
  BY Room, OwedNat, Sizes DEF IInv, Occupied, Numbers
<1>2. request.words + Owed <= Len(mem)
  BY DEF IInv, PageInv
<1> QED
  BY <1>1, <1>2, OwedNat DEF Waiting

(* What waits ends where a frame ends. *)
LEMMA WaitingEnds ==
  ASSUME IInv, Waiting > 0
  PROVE  mem[request.words + Waiting]
BY WaitingFits, OwedNat DEF IInv, EndInv

LEMMA TriggerStep ==
  ASSUME IInv, Trigger
  PROVE  IInv'
<1> USE DEF IInv
<1>1. CASE TrigBurst
  <2> DEFINE w == Waiting
             q == w \div Burst
             r == w % Burst
  <2>1. /\ trig = "idle" /\ w >= Burst /\ count + w < PageSize
        /\ dirty' = TRUE /\ remaining' = r /\ left' = q /\ trig' = "burst"
        /\ UNCHANGED <<mem, macVars, unseen, toSend, count, request, sendVars>>
    BY <1>1 DEF TrigBurst
  <2>2. w \in Nat
    BY <2>1, WaitingFits, Sizes
  <2>3. q \in Nat /\ r \in Nat /\ q * Burst + r = w /\ q > 0
    BY <2>1, <2>2, DivMod, Sizes
  <2>4. Len(mem) = request.words + w /\ (w > 0 => mem[request.words + w])
    BY WaitingFits, WaitingEnds
  <2> HIDE DEF w, q, r
  <2>5. Owed' = w
    BY <2>1, <2>3 DEF Owed
  <2>6. Numbers' /\ RequestInv' /\ TrigInv'
    BY <2>1, <2>3 DEF Numbers, RequestInv, TrigInv, macVars, sendVars
  <2>7. PageInv'
    BY <2>1, <2>2, <2>4, <2>5, OwedNat, Sizes DEF PageInv, Written, Numbers, sendVars
  <2>8. Aligned'
    BY <2>1, <2>2, <2>4, <2>5, OwedNat, Sizes DEF Aligned, sendVars
  <2> QED
    BY <2>1, <2>6, <2>7, <2>8, TriggerFrame DEF EndInv
<1>2. CASE TrigFull \/ TrigTimeout
  <2>1. /\ trig = "idle" /\ dirty' = TRUE /\ toSend' = remaining
        /\ trig' = IF remaining = 0 THEN "change" ELSE "last"
        /\ UNCHANGED <<mem, macVars, unseen, left, count, remaining, request,
                       sendVars>>
        /\ count > Burst
    <3>1. CASE TrigFull
      <4>1. count + Waiting >= PageSize /\ count # Burst
        BY <3>1, WaitingFits, OwedNat, Sizes DEF TrigFull
      <4> QED
        BY <3>1, <4>1 DEF TrigFull, EndPage, TrigInv, Numbers
    <3>2. CASE TrigTimeout
      BY <3>2 DEF TrigTimeout, EndPage, TrigInv, Numbers
    <3> QED
      BY <1>2, <3>1, <3>2
  <2>2. Owed' = Owed /\ Owed = remaining
    BY <2>1 DEF Owed
  <2>3. Numbers' /\ RequestInv' /\ TrigInv'
    BY <2>1 DEF Numbers, RequestInv, TrigInv, macVars, sendVars
  <2>4. PageInv' /\ Aligned'
    BY <2>1, <2>2 DEF PageInv, Written, EndInv, Aligned, sendVars
  <2> QED
    BY <2>1, <2>3, <2>4, TriggerFrame DEF EndInv
<1>3. CASE TrigFlush
  <2>1. /\ trig = "idle" /\ 0 < Waiting /\ Waiting < Burst /\ ~dirty
        /\ toSend' = Waiting /\ trig' = "last"
        /\ UNCHANGED <<mem, macVars, unseen, left, count, dirty, remaining, request,
                       sendVars>>
    BY <1>3 DEF TrigFlush
  <2>2. Owed' = Waiting /\ Waiting \in Nat /\ count = Burst
    BY <2>1, WaitingFits DEF Owed, TrigInv
  <2>3. Numbers' /\ RequestInv' /\ TrigInv'
    BY <2>1, <2>2 DEF Numbers, RequestInv, TrigInv, macVars, sendVars
  <2>4. PageInv'
    BY <2>1, <2>2, WaitingFits, Sizes, OwedNat DEF PageInv, Written, sendVars
  <2>5. Aligned'
    BY <2>1, <2>2, WaitingEnds, OwedNat DEF Aligned, sendVars
  <2> QED
    BY <2>1, <2>3, <2>4, <2>5, TriggerFrame DEF EndInv
<1>4. CASE TrigTlp
  <2>1. /\ trig = "burst" /\ request = None
        /\ request' = [kind |-> "tlp", words |-> Burst]
        /\ count' = count + Burst /\ left' = left - 1
        /\ trig' = IF left > 1 THEN "burst" ELSE "idle"
        /\ UNCHANGED <<mem, macVars, unseen, toSend, dirty, remaining, sendVars>>
    BY <1>4 DEF TrigTlp, Hand
  <2>2. left \in Nat /\ left > 0 /\ dirty
    BY <2>1 DEF Numbers, TrigInv
  <2>3. /\ left * Burst \in Nat /\ left - 1 \in Nat /\ left * Burst >= Burst
        /\ (left - 1) * Burst = left * Burst - Burst
        /\ left = 1 => left * Burst = Burst
    BY <2>2, OneLess, Sizes
  <2>4. Owed = left * Burst + remaining /\ remaining \in Nat
    BY <2>1 DEF Owed, Numbers
  <2>5. Owed' = Owed - Burst
    <3>1. CASE left > 1
      BY <2>1, <2>3, <2>4, <3>1, Sizes DEF Owed
    <3>2. CASE left = 1
      BY <2>1, <2>3, <2>4, <3>2, Sizes DEF Owed
    <3> QED
      BY <2>2, <3>1, <3>2
  <2>6. Numbers' /\ RequestInv'
    BY <2>1, <2>3, Sizes DEF Numbers, RequestInv, None, macVars, sendVars
  <2>7. request.words = 0 /\ request.kind = "none" /\ request'.words = Burst
        /\ request'.kind = "tlp"
    BY <2>1 DEF None
  <2>8. PageInv' /\ TrigInv'
    BY <2>1, <2>2, <2>4, <2>5, <2>7, OwedNat, Sizes DEF PageInv, TrigInv, Written,
       Numbers, sendVars
  <2>9. Aligned'
    BY <2>1, <2>4, <2>5, <2>7, OwedNat, Sizes DEF EndInv, Aligned, sendVars
  <2> QED
    BY <2>1, <2>6, <2>7, <2>8, <2>9, TriggerFrame
<1>5. CASE TrigChange
  <2>1. /\ trig = "change" /\ request = None
        /\ request' = [kind |-> "change", words |-> 0]
        /\ count' = Burst /\ dirty' = FALSE /\ trig' = "idle"
        /\ UNCHANGED <<mem, macVars, unseen, left, toSend, remaining, sendVars>>
    BY <1>5 DEF TrigChange, Hand
  <2>2. request.words = 0 /\ request.kind = "none" /\ request'.words = 0
        /\ request'.kind = "change"
    BY <2>1 DEF None
  <2>3. remaining = 0 /\ count > Burst /\ Owed = 0 /\ Owed' = 0
    BY <2>1 DEF TrigInv, Owed
  <2>4. send = "open" /\ page > 0 /\ ended
    BY <2>1, <2>2, <2>3, Sizes DEF PageInv, Written, Numbers, EndInv, Aligned
  <2>5. Numbers' /\ RequestInv'
    BY <2>1, Sizes DEF Numbers, RequestInv, None, macVars, sendVars
  <2>6. PageInv' /\ TrigInv' /\ Aligned'
    BY <2>1, <2>2, <2>3, <2>4, OwedNat, Sizes DEF PageInv, TrigInv, Aligned, Written,
       Numbers, sendVars
  <2> QED
    BY <2>1, <2>2, <2>4, <2>5, <2>6, TriggerFrame
<1>6. CASE TrigLast
  <2>1. /\ trig = "last" /\ request = None
        /\ request' = [kind |-> "last", words |-> toSend]
        /\ count' = Burst /\ remaining' = 0 /\ dirty' = FALSE /\ trig' = "idle"
        /\ UNCHANGED <<mem, macVars, unseen, left, toSend, sendVars>>
    BY <1>6 DEF TrigLast, Hand
  <2>2. request.words = 0 /\ request.kind = "none" /\ request'.words = toSend
        /\ request'.kind = "last"
    BY <2>1 DEF None
  <2>3. toSend > 0 /\ toSend \in Nat /\ Owed = toSend /\ Owed' = 0
    BY <2>1 DEF TrigInv, Numbers, Owed
  <2>4. mem[toSend]
    BY <2>2, <2>3 DEF EndInv, Aligned
  <2>5. Numbers' /\ RequestInv'
    BY <2>1, <2>3, Sizes DEF Numbers, RequestInv, None, macVars, sendVars
  <2>6. PageInv' /\ TrigInv' /\ Aligned'
    BY <2>1, <2>2, <2>3, <2>4, OwedNat, Sizes DEF PageInv, TrigInv, Aligned, Written,
       Numbers, sendVars
  <2> QED
    BY <2>1, <2>2, <2>4, <2>5, <2>6, TriggerFrame
<1> QED
  BY <1>1, <1>2, <1>3, <1>4, <1>5, <1>6 DEF Trigger

-----------------------------------------------------------------------------
LEMMA Behind ==
  ASSUME NEW s \in Seq(BOOLEAN), NEW n \in Nat, n <= Len(s)
  PROVE  /\ SubSeq(s, n + 1, Len(s)) \in Seq(BOOLEAN)
         /\ Len(SubSeq(s, n + 1, Len(s))) = Len(s) - n
         /\ \A i \in 1 .. Len(s) - n : SubSeq(s, n + 1, Len(s))[i] = s[n + i]
<1> DEFINE m == n + 1
           l == Len(s)
<1>1. l \in Nat /\ m \in Int /\ l \in Int
  BY LenProperties
<1>2. \A i \in m .. l : s[i] \in BOOLEAN
  BY <1>1, ElementOfSeq
<1> HIDE DEF m, l
<1>3. /\ SubSeq(s, m, l) \in Seq(BOOLEAN)
      /\ Len(SubSeq(s, m, l)) = IF m <= l THEN l - m + 1 ELSE 0
      /\ \A i \in 1 .. l - m + 1 : SubSeq(s, m, l)[i] = s[m + i - 1]
  BY <1>1, <1>2, SubSeqProperties
<1>4. l - m + 1 = l - n /\ (m <= l \/ l - n = 0)
  BY <1>1 DEF m, l
<1>5. ASSUME NEW i \in 1 .. l - n PROVE SubSeq(s, m, l)[i] = s[n + i]
  <2>1. m + i - 1 = n + i
    BY <1>1 DEF m
  <2> QED
    BY <1>3, <1>4, <2>1
<1>6. Len(SubSeq(s, m, l)) = l - n
  BY <1>1, <1>3, <1>4 DEF m
<1> QED
  BY <1>3, <1>5, <1>6 DEF m, l

(* The write engine: a new page, and a request moved to it.                *)
LEMMA SendStep ==
  ASSUME IInv, SendOpen \/ Send
  PROVE  IInv'
<1> USE DEF IInv
<1>1. CASE SendOpen
  <2>1. /\ send \in {"wait", "closed"} /\ send' = "open" /\ page' = 0
        /\ UNCHANGED <<mem, macVars, unseen, trigVars, request, ended>>
    BY <1>1 DEF SendOpen
  <2>2. Owed' = Owed /\ Written' = 0 /\ Written = 0
    BY <2>1 DEF Owed, Written, trigVars
  <2>3. Numbers' /\ RequestInv' /\ MacInv' /\ TrigInv'
    BY <2>1 DEF Numbers, RequestInv, MacInv, TrigInv, Occupied, macVars, trigVars
  <2>4. PageInv'
    BY <2>1, <2>2, OwedNat, Sizes DEF PageInv, trigVars
  <2>5. EndInv'
    BY <2>1, <2>2 DEF EndInv, Aligned
  <2> QED
    BY <2>3, <2>4, <2>5
<1>2. CASE Send
  <2> DEFINE n == request.words
             p == request.words + Owed
  <2>1. /\ send = "open" /\ request # None
        /\ mem' = SubSeq(mem, n + 1, Len(mem))
        /\ unseen' = unseen + n /\ page' = page + n
        /\ ended' = IF n = 0 THEN ended ELSE mem[n]
        /\ send' = IF request.kind = "tlp" THEN "open" ELSE "closed"
        /\ request' = None
        /\ UNCHANGED <<macVars, trigVars>>
    BY <1>2 DEF Send
  <2>2. /\ n \in Nat /\ Owed \in Nat /\ Len(mem) \in Nat
        /\ p = n + Owed /\ p <= Len(mem) /\ n <= Len(mem) /\ n = request.words
    BY OwedNat DEF PageInv
  <2> HIDE DEF n, p
  <2>3. mem \in Seq(BOOLEAN)
    BY DEF EndInv
  <2>4. /\ mem' \in Seq(BOOLEAN) /\ Len(mem') = Len(mem) - n
        /\ \A i \in 1 .. Len(mem) - n : mem'[i] = mem[n + i]
    BY <2>1, <2>2, <2>3, Behind
  <2>5. Owed' = Owed /\ request'.words = 0 /\ request'.kind = "none"
        /\ request.kind \in {"tlp", "last", "change"}
    BY <2>1 DEF Owed, None, trigVars, RequestInv
  <2>6. ended' \in BOOLEAN
    <3>1. CASE n = 0
      BY <2>1, <3>1 DEF Numbers
    <3>2. CASE n > 0
      BY <2>1, <2>2, <2>3, <3>2, ElementOfSeq
    <3> QED
      BY <2>2, <3>1, <3>2
  <2>7. Numbers' /\ RequestInv'
    <3>1. unseen' \in Nat /\ page' \in Nat
      <4>1. unseen' = unseen + n /\ page' = page + n /\ unseen \in Nat /\ page \in Nat
        BY <2>1, Zenon DEF Numbers
      <4>2. n \in Nat
        BY <2>2
      <4>3. unseen + n \in Nat /\ page + n \in Nat
        BY <4>1, <4>2
      <4> QED
        BY <4>1, <4>3, Zenon
    <3>2. send' \in {"wait", "open", "closed"}
      BY <2>1
    <3>3. Numbers'
      BY <2>1, <2>6, <3>1, <3>2, Zenon DEF Numbers, macVars, trigVars
    <3>4. request' = None
      BY <2>1
    <3>5. RequestInv'
      BY <3>4 DEF RequestInv, None
    <3> QED
      BY <3>3, <3>5
  <2>8. MacInv' /\ TrigInv'
    <3>1. Len(mem') + unseen' = Len(mem) + unseen
      BY <2>1, <2>2, <2>4 DEF Numbers
    <3>2. Occupied' = Occupied
      BY <2>1, <3>1 DEF Occupied, macVars
    <3>3. MacInv'
      BY <2>1, <3>1, <3>2 DEF MacInv, macVars
    <3>4. TrigInv'
      BY <2>1, <2>5 DEF TrigInv, trigVars
    <3> QED
      BY <3>3, <3>4
  <2>9. Written = page /\ Written' = IF request.kind = "tlp" THEN page + n ELSE 0
    BY <2>1 DEF Written
  <2>10. PageInv'
    <3>1. request'.words + Owed' <= Len(mem')
      BY <2>2, <2>4, <2>5
    <3>2. count' = count /\ count + Owed <= PageSize
      BY <2>1 DEF trigVars, PageInv
    <3>3. page' = page + n /\ Burst + page + n <= PageSize
      BY <2>1, <2>2, <2>9 DEF PageInv
    <3>4. count' = Burst + Written'
      <4>1. CASE request.kind = "tlp"
        BY <2>2, <2>9, <3>2, <4>1, Sizes DEF PageInv, Numbers
      <4>2. CASE request.kind \in {"last", "change"}
        BY <2>9, <3>2, <4>2, Sizes DEF PageInv
      <4> QED
        BY <2>5, <4>1, <4>2
    <3>5. Written' = page + n \/ Written' = 0
      BY <2>9
    <3>6. count' + Owed' <= PageSize
      BY <2>5, <3>2
    <3>7. Burst + Written' + request'.words <= PageSize /\ Burst + page' <= PageSize
      <4>1. page \in Nat
        BY DEF Numbers
      <4>2. Burst + Written' <= PageSize
        BY <2>2, <3>3, <3>5, <4>1, Sizes
      <4>3. Written' \in Nat
        BY <2>2, <3>5, <4>1
      <4>4. n \in Nat /\ request'.words = 0
        BY <2>2, <2>5
      <4>5. Burst + page' <= PageSize
        BY <3>3, <4>1, <4>4, Sizes
      <4>6. Burst + Written' + 0 = Burst + Written'
        BY <4>3, Sizes
      <4>7. Burst + Written' + request'.words = Burst + Written'
        BY <4>4, <4>6, Zenon
      <4> QED
        BY <4>2, <4>5, <4>7, Zenon
    <3>8. count' = Burst + Written' + request'.words
      <4>1. Written' \in Nat
        BY <2>2, <3>5 DEF Numbers
      <4> QED
        BY <2>5, <3>4, <4>1, Sizes
    <3>9. request'.kind = "none"
      BY <2>5
    <3> QED
      BY <3>1, <3>6, <3>7, <3>8, <3>9 DEF PageInv
  <2>11. Aligned'
    <3>1. CASE Owed > 0
      <4>1. mem'[Owed] = mem[n + Owed]
        <5>1. Owed \in 1 .. Len(mem) - n
          BY <2>2, <3>1
        <5> QED
          BY <2>4, <5>1, Zenon
      <4>2. mem[n + Owed]
        BY <2>2, <3>1 DEF EndInv, Aligned
      <4>3. request'.words + Owed' = Owed
        BY <2>2, <2>5
      <4>4. mem'[request'.words + Owed']
        BY <4>1, <4>2, <4>3, Zenon
      <4>5. request'.words + Owed' # 0
        BY <2>2, <3>1, <4>3
      <4> QED
        BY <4>4, <4>5, Zenon DEF Aligned
    <3>2. CASE Owed = 0 /\ n > 0
      BY <2>1, <2>2, <2>5, <3>2 DEF EndInv, Aligned
    <3>3. CASE Owed = 0 /\ n = 0
      BY <2>1, <2>2, <2>5, <3>3 DEF EndInv, Aligned
    <3> QED
      BY <2>2, <3>1, <3>2, <3>3
  <2>12. Len(mem') > 0 => mem'[Len(mem')]
    <3>1. CASE Len(mem) - n > 0
      <4>1. Len(mem') \in 1 .. Len(mem) - n
        BY <2>2, <2>4, <3>1
      <4>2. n + Len(mem') = Len(mem) /\ Len(mem) > 0
        BY <2>2, <2>4, <3>1
      <4>3. mem'[Len(mem')] = mem[n + Len(mem')]
        BY <2>4, <4>1, Zenon
      <4>4. mem[Len(mem)]
        BY <4>2 DEF EndInv
      <4> QED
        BY <4>2, <4>3, <4>4, Zenon
    <3>2. CASE ~ Len(mem) - n > 0
      BY <2>4, <3>2
    <3> QED
      BY <3>1, <3>2
  <2>13. send' = "closed" => ended' /\ page' > 0
    <3>1. CASE request.kind = "last"
      <4>1. n > 0 /\ page \in Nat /\ mem[n]
        BY <2>2, <3>1 DEF EndInv, RequestInv, Numbers
      <4>2. page' = page + n /\ ended' = IF n = 0 THEN ended ELSE mem[n]
        BY <2>1
      <4>3. page + n > 0 /\ n # 0
        BY <2>2, <4>1
      <4> QED
        BY <4>1, <4>2, <4>3, Zenon
    <3>2. CASE request.kind = "change"
      <4>1. n = 0 /\ page > 0 /\ page \in Nat /\ ended
        BY <2>2, <3>2 DEF EndInv, RequestInv, TrigInv, Numbers
      <4>2. page' = page + n /\ ended' = IF n = 0 THEN ended ELSE mem[n]
        BY <2>1
      <4>3. page + n = page
        BY <4>1
      <4> QED
        BY <4>1, <4>2, <4>3, Zenon
    <3>3. CASE request.kind = "tlp"
      BY <2>1, <3>3
    <3> QED
      BY <2>5, <3>1, <3>2, <3>3
  <2>14. EndInv'
    BY <2>4, <2>5, <2>11, <2>12, <2>13 DEF EndInv
  <2> QED
    BY <2>7, <2>8, <2>10, <2>14
<1> QED
  BY <1>1, <1>2

LEMMA PackingInvariant == Spec => []IInv
<1>1. Init => IInv
  <2> SUFFICES ASSUME Init PROVE IInv
    OBVIOUS
  <2>1. mem = <<>> /\ mem \in Seq(BOOLEAN) /\ Len(mem) = 0
    BY DEF Init
  <2>2. request.words = 0 /\ request.kind = "none" /\ Owed = 0 /\ Written = 0
    BY DEF Init, None, Owed, Written
  <2>3. Numbers /\ RequestInv
    BY Sizes DEF Init, Numbers, RequestInv, None
  <2>4. MacInv
    BY <2>1, Sizes DEF Init, MacInv, Occupied
  <2>5. PageInv /\ TrigInv /\ EndInv
    BY <2>1, <2>2, Sizes DEF Init, PageInv, TrigInv, EndInv, Aligned
  <2> QED
    BY <2>3, <2>4, <2>5 DEF IInv
<1>2. IInv /\ [Next]_vars => IInv'
  <2> SUFFICES ASSUME IInv, [Next]_vars PROVE IInv'
    OBVIOUS
  <2>1. CASE Next
    BY <2>1, MacStep, TriggerStep, SendStep DEF Next
  <2>2. CASE UNCHANGED vars
    BY <2>2 DEF vars, macVars, trigVars, sendVars, IInv, Numbers, RequestInv, MacInv,
       Occupied, PageInv, Owed, Written, TrigInv, EndInv, Aligned
  <2> QED
    BY <2>1, <2>2
<1> QED
  BY <1>1, <1>2, PTL DEF Spec

(* The MAC side never writes over a word that was not sent                 *)
(* (rx_mac_interface.v:150): the words beyond MAX_DIFF are enough, for     *)
(* frames of any length.                                                   *)
THEOREM BufferNeverOverrun == Spec => []NoOverrun
<1>1. IInv => NoOverrun
  BY Room DEF NoOverrun
<1> QED
  BY <1>1, PackingInvariant, PTL

(* Every page that is closed ends where a frame ends, is not empty and     *)
(* fits behind its header (rx_tlp_trigger.v:116-235), for bursts, buffers  *)
(* and pages of any size.                                                  *)
THEOREM PagesWalkable == Spec => []PageExact
<1>1. IInv => PageExact
  BY DEF IInv, PageInv, EndInv, PageExact
<1> QED
  BY <1>1, PackingInvariant, PTL
=============================================================================
