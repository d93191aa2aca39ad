-------------------------- MODULE TxEngine_proofs --------------------------
(***************************************************************************)
(* The transmit path of the NIC, for every size of the buffer, every       *)
(* layout of frames, every number of tags and every cut of the answers.    *)
(*                                                                         *)
(* What the MAC side has not given back is kept (KeptInv); what it sends   *)
(* is what the host put there (MacInv); and what the engine commits is     *)
(* what the host sent (WordInv).  Addresses have one bit more than the     *)
(* buffer needs, so that all arithmetic is modulo twice its size: it is    *)
(* done once, in lemmas about distances.                                   *)
(***************************************************************************)
EXTENDS TxEngine, Integers, TLAPS, WellFoundedInduction

-----------------------------------------------------------------------------
(* The machine that reads has the words of a frame. *)
Reading == {"first", "second", "ack", "words", "rewind"}

(* Where the read address is when the next frame may begin: behind the     *)
(* frame that just ended, or at the words not yet given back.              *)
KeptInv ==
  /\ side \in {"mac", "engine"}
  /\ frame \in {"idle", "start"} \cup Reading
  /\ frame = "idle" /\ side = "mac" => rd = IF eof THEN prev ELSE rdDone
  /\ frame = "start" => eof \/ prev = rdDone
  /\ frame \in Reading => ~eof /\ rdDone = sof
  /\ frame = "rewind" => rd = sof
  /\ side = "engine" => frame = "idle" /\ ~eof

LEMMA KeptInit == TransmitInit => KeptInv
BY DEF TransmitInit, Init, KeptInv, Reading

(* The address that is given back, whoever gives it back. *)
LEMMA KeptStep == KeptInv /\ [TransmitNext]_transmitVars => KeptInv'
<1> SUFFICES ASSUME KeptInv, [TransmitNext]_transmitVars
             PROVE  KeptInv'
  OBVIOUS
<1>1. ASSUME NEW ack \in BOOLEAN, side = "mac", Cycle(ack), side' = side
      PROVE  KeptInv'
  <2>1. rdDone' = (IF eof THEN prev ELSE rdDone) /\ prev' = rd
    BY <1>1 DEF Cycle, Release
  <2>2. CASE FrameIdle
    BY <1>1, <2>1, <2>2 DEF FrameIdle, KeptInv, Reading
  <2>3. CASE FrameStart
    BY <1>1, <2>1, <2>3 DEF FrameStart, KeptInv, Reading
  <2>4. CASE FrameFirst \/ FrameSecond \/ FrameAck(ack) \/ FrameWord
    BY <1>1, <2>1, <2>4 DEF FrameFirst, FrameSecond, FrameAck, FrameWord, KeptInv,
       Reading
  <2>5. CASE FrameEnd
    BY <1>1, <2>1, <2>5 DEF FrameEnd, KeptInv, Reading
  <2>6. CASE FrameUnderrun \/ FrameRewind
    BY <1>1, <2>1, <2>6 DEF FrameUnderrun, FrameRewind, KeptInv, Reading
  <2> QED
    BY <1>1, <2>2, <2>3, <2>4, <2>5, <2>6 DEF Cycle, Frame
<1>2. CASE EngineStep(Engine)
  <2>1. side = "engine" /\ UNCHANGED <<side, prev, eof, frame, rd, sof>>
    BY <1>2 DEF EngineStep, frameVars
  <2> QED
    BY <2>1 DEF KeptInv, Reading
<1>3. CASE UNCHANGED transmitVars
  BY <1>3 DEF transmitVars, vars, frameVars, KeptInv, Reading
<1> QED
  BY <1>1, <1>2, <1>3 DEF TransmitNext, MacStep, Next

(* The words of a frame are not given back before its last one was sent,   *)
(* whatever lengths are measured and however late the engine commits: the  *)
(* frame can be sent again after an underrun.                              *)
THEOREM KeptUntilTheEnd == TransmitSpec => []KeptUntilSent
<1>1. KeptInv => KeptUntilSent
  BY DEF KeptInv, KeptUntilSent, Reading
<1> QED
  BY <1>1, KeptInit, KeptStep, PTL DEF TransmitSpec

-----------------------------------------------------------------------------
(* Addresses: k words on from a. *)
Plus(a, k) == (a + k) % (2 * Size)

LEMMA SizeFact ==
  /\ Size \in Nat /\ Size >= 1
  /\ \A a : a \in Address <=> a \in Nat /\ a < 2 * Size
BY ConstantsAssumption DEF Address

LEMMA ModOnce ==
  ASSUME NEW d \in Nat \ {0}, NEW x \in 0 .. 2 * d - 1
  PROVE  x % d = IF x < d THEN x ELSE x - d
OBVIOUS

LEMMA PlusIs ==
  ASSUME NEW a \in Address, NEW k \in 0 .. 2 * Size
  PROVE  /\ Plus(a, k) = IF a + k < 2 * Size THEN a + k ELSE a + k - 2 * Size
         /\ Plus(a, k) \in Address
<1>1. a + k \in 0 .. 2 * (2 * Size) - 1 /\ 2 * Size \in Nat \ {0}
  BY SizeFact
<1>2. (a + k) % (2 * Size) = IF a + k < 2 * Size THEN a + k ELSE a + k - 2 * Size
  <2> DEFINE d == 2 * Size
             x == a + k
  <2>1. d \in Nat \ {0} /\ x \in 0 .. 2 * d - 1
    BY <1>1
  <2> HIDE DEF d, x
  <2>2. x % d = IF x < d THEN x ELSE x - d
    BY <2>1, ModOnce
  <2> QED
    BY <2>2, SizeFact DEF d, x
<1> QED
  BY <1>2, SizeFact DEF Plus

LEMMA MinusIs ==
  ASSUME NEW a \in Address, NEW b \in Address
  PROVE  /\ Minus(a, b) = IF a >= b THEN a - b ELSE a + 2 * Size - b
         /\ Minus(a, b) \in Address
<1>1. a + 2 * Size - b \in 0 .. 2 * (2 * Size) - 1 /\ 2 * Size \in Nat \ {0}
  BY SizeFact
<1>2. Minus(a, b) = IF a + 2 * Size - b < 2 * Size THEN a + 2 * Size - b
                    ELSE a + 2 * Size - b - 2 * Size
  <2> DEFINE d == 2 * Size
             x == a + 2 * Size - b
  <2>1. d \in Nat \ {0} /\ x \in 0 .. 2 * d - 1
    BY <1>1
  <2> HIDE DEF d, x
  <2>2. x % d = IF x < d THEN x ELSE x - d
    BY <2>1, ModOnce
  <2> QED
    BY <2>2, SizeFact DEF d, x, Minus
<1> QED
  BY <1>2, SizeFact

LEMMA PlusPlus ==
  ASSUME NEW a \in Address, NEW k \in Nat, NEW j \in Nat, k + j <= 2 * Size
  PROVE  Plus(Plus(a, k), j) = Plus(a, k + j)
<1> DEFINE b == Plus(a, k)
<1>1. k \in 0 .. 2 * Size /\ j \in 0 .. 2 * Size /\ k + j \in 0 .. 2 * Size
  BY SizeFact
<1>2. b = (IF a + k < 2 * Size THEN a + k ELSE a + k - 2 * Size) /\ b \in Address
  BY <1>1, PlusIs
<1>3. Plus(a, k + j) = IF a + (k + j) < 2 * Size THEN a + (k + j)
                       ELSE a + (k + j) - 2 * Size
  BY <1>1, PlusIs
<1> HIDE DEF b
<1>4. Plus(b, j) = IF b + j < 2 * Size THEN b + j ELSE b + j - 2 * Size
  BY <1>1, <1>2, PlusIs
<1>5. Plus(b, j) = Plus(a, k + j)
  BY <1>1, <1>2, <1>3, <1>4, SizeFact
<1> QED
  BY <1>5 DEF b

LEMMA MinusPlus ==
  ASSUME NEW a \in Address, NEW j \in Nat, NEW k \in Nat, k <= j, j < 2 * Size
  PROVE  Minus(Plus(a, j), Plus(a, k)) = j - k
<1> DEFINE b == Plus(a, k)
           c == Plus(a, j)
<1>1. k \in 0 .. 2 * Size /\ j \in 0 .. 2 * Size
  BY SizeFact
<1>2. b = (IF a + k < 2 * Size THEN a + k ELSE a + k - 2 * Size) /\ b \in Address
  BY <1>1, PlusIs
<1>3. c = (IF a + j < 2 * Size THEN a + j ELSE a + j - 2 * Size) /\ c \in Address
  BY <1>1, PlusIs
<1> HIDE DEF b, c
<1>4. Minus(c, b) = IF c >= b THEN c - b ELSE c + 2 * Size - b
  BY <1>2, <1>3, MinusIs
<1>5. Minus(c, b) = j - k
  BY <1>1, <1>2, <1>3, <1>4, SizeFact
<1> QED
  BY <1>5 DEF b, c

LEMMA PlusZero == ASSUME NEW a \in Address PROVE Plus(a, 0) = a
BY PlusIs, SizeFact

LEMMA PlusMinus ==
  ASSUME NEW a \in Address, NEW b \in Address
  PROVE  b = Plus(a, Minus(b, a))
<1> DEFINE m == Minus(b, a)
<1>1. m = (IF b >= a THEN b - a ELSE b + 2 * Size - a) /\ m \in Address
  BY MinusIs
<1> HIDE DEF m
<1>2. m \in 0 .. 2 * Size
  BY <1>1, SizeFact
<1>3. Plus(a, m) = IF a + m < 2 * Size THEN a + m ELSE a + m - 2 * Size
  BY <1>2, PlusIs
<1>4. Plus(a, m) = b
  BY <1>1, <1>2, <1>3, SizeFact
<1> QED
  BY <1>4 DEF m

-----------------------------------------------------------------------------
(* The header of the frame that is sent or is next, how many words were    *)
(* sent of the frame before and not yet given back, and how many words are *)
(* in the buffer from that header on.                                      *)
Header  == IF eof THEN prev ELSE rdDone
Gone  == Minus(Header, rdDone)
InBuf == Minus(wr, Header)

(* The words of data of a frame, with the part of one.                     *)
Words(l) == l.words + (IF l.part THEN 1 ELSE 0)
Full     == layout[Header].words
Data     == Words(layout[Header])

MacType ==
  /\ layout \in Layouts
  /\ wr \in Address /\ rdDone \in Address /\ rd \in Address /\ prev \in Address
  /\ nextRd \in Address /\ sof \in Address /\ diff \in Nat
  /\ size \in Nat /\ sent \in Nat
  /\ part \in BOOLEAN /\ start \in BOOLEAN /\ synch \in BOOLEAN
  /\ eof \in BOOLEAN /\ chances \in BOOLEAN
  /\ trig \in {"idle", "check", "wait"}

(* The buffer, from the words not yet given back.                          *)
RoomInv ==
  /\ Header \in DOMAIN layout
  /\ Gone + InBuf = Minus(wr, rdDone)
  /\ Minus(wr, rdDone) <= Size
  /\ eof => sof \in DOMAIN layout /\ prev = After(sof, layout[sof])

(* The frame was measured; its part of a word is counted.                  *)
Measured == trig = "wait" /\ size = Data

(* Between frames: what the measuring machine does at the header, told by  *)
(* synch to do it again.                                                   *)
IdleInv ==
  /\ rd = Header /\ prev = Header /\ diff <= InBuf
  /\ trig = "check" \/ start => nextRd = Plus(Header, 1)
  /\ \/ synch /\ trig = "wait" /\ ~start
     \/ ~synch /\ ~eof /\ ~start /\ trig = "idle"
     \/ /\ ~synch /\ ~eof /\ ~start /\ trig = "check"
        /\ diff # 0 => size = Full /\ part = layout[Header].part
     \/ ~synch /\ ~eof /\ start /\ Measured /\ InBuf > Full

(* The first words: the frame was measured, or is begun on chance and is   *)
(* measured while its first words are sent.                                *)
StartInv ==
  /\ prev = Header /\ rd = Plus(Header, 1) /\ InBuf > Full
  /\ trig = "wait" /\ ~start
  /\ IF eof THEN synch /\ InBuf >= Full + 2 ELSE ~synch /\ Measured

FirstInv ==
  /\ prev = Plus(Header, 1) /\ rd = Plus(Header, 2) /\ InBuf > Full
  /\ ~start
  /\ \/ Measured
     \/ trig = "check" /\ size = Full /\ part = layout[Header].part /\ diff > Full

SecondInv ==
  /\ prev = Plus(Header, 2) /\ rd = Plus(Header, 3) /\ InBuf > Full /\ Measured

(* The words: diff, a cycle old, is what was there from prev on.           *)
AckInv ==
  /\ prev = Plus(Header, 3) /\ rd = prev /\ nextRd = Plus(Header, 4)
  /\ Measured /\ ~start /\ diff > 0 /\ diff + 3 <= InBuf

WordsInv ==
  /\ prev = Plus(Header, sent) /\ rd = Plus(Header, sent + 1)
  /\ Measured /\ ~start /\ diff > 0 /\ diff + sent <= InBuf
  /\ 3 <= sent /\ sent <= Data
  /\ chances => Chance + sent <= InBuf + 1

RewindInv == trig = "wait" /\ ~start

MacInv ==
  side = "mac" =>
    /\ MacType /\ RoomInv
    /\ frame = "idle" => IdleInv
    /\ frame = "start" => StartInv
    /\ frame \in Reading => ~synch
    /\ frame = "first" => FirstInv
    /\ frame = "second" => SecondInv
    /\ frame = "ack" => AckInv
    /\ frame = "words" => WordsInv
    /\ frame = "rewind" => RewindInv

(* Frames of at least as many words as are sent before the machine counts, *)
(* and that cannot be begun on chance with a full word of theirs missing.  *)
ChanceSafe ==
  \A l \in Layouts : \A h \in DOMAIN l :
    l[h].words >= 3 /\ l[h].words + 4 <= Chance

-----------------------------------------------------------------------------
LEMMA LayoutFacts ==
  ASSUME layout \in Layouts, NEW h \in DOMAIN layout
  PROVE  /\ layout[h].words \in Nat /\ layout[h].part \in BOOLEAN
         /\ Words(layout[h]) \in Nat /\ Words(layout[h]) >= layout[h].words
         /\ Words(layout[h]) <= layout[h].words + 1
         /\ After(h, layout[h]) \in DOMAIN layout
<1>1. layout[h] \in [words : Nat, part : BOOLEAN] /\ After(h, layout[h]) \in DOMAIN layout
  BY ConstantsAssumption
<1>2. layout[h].words \in Nat /\ layout[h].part \in BOOLEAN
  BY <1>1
<1> QED
  BY <1>1, <1>2 DEF Words

LEMMA AfterIs ==
  ASSUME NEW h \in Nat, NEW l, l.words \in Nat
  PROVE  After(h, l) = Plus(h, Words(l) + 1)
<1>1. h + l.words + (IF l.part THEN 2 ELSE 1) = h + (Words(l) + 1)
  BY DEF Words
<1> QED
  BY <1>1 DEF After, Plus

LEMMA Plus1Is == \A a : Plus1(a) = Plus(a, 1)
BY DEF Plus1, Plus

(* The engine commits words: how many are in the buffer from h on.         *)
LEMMA Commits ==
  ASSUME wr \in Address, rdDone \in Address, Minus(wr, rdDone) <= Size, Commit,
         NEW h \in Address, Minus(h, rdDone) <= Minus(wr, rdDone)
  PROVE  /\ wr' \in Address
         /\ \E n \in Nat : /\ Minus(wr', rdDone) = Minus(wr, rdDone) + n
                           /\ Minus(wr', h) = Minus(wr, rdDone) + n - Minus(h, rdDone)
                           /\ Minus(wr', rdDone) <= Size
<1> DEFINE m == Minus(wr, rdDone)
           k == Minus(h, rdDone)
<1>1. m \in Nat /\ k \in Nat /\ wr = Plus(rdDone, m) /\ h = Plus(rdDone, k)
  BY MinusIs, PlusMinus, SizeFact
<1>2. m <= Size /\ k <= m
  OBVIOUS
<1>3. PICK n \in 0 .. Size - m : wr' = Plus(wr, n)
  BY DEF Commit, Plus
<1> HIDE DEF m, k
<1>4. n \in Nat /\ m + n <= Size /\ m + n <= 2 * Size /\ m + n < 2 * Size
  BY <1>1, <1>2, <1>3, SizeFact
<1>5. wr' = Plus(rdDone, m + n)
  BY <1>1, <1>3, <1>4, PlusPlus
<1>6. m + n \in 0 .. 2 * Size /\ m + n \in Nat
  BY <1>1, <1>4
<1>7. wr' \in Address
  BY <1>5, <1>6, PlusIs
<1>8. Minus(wr', rdDone) = m + n
  <2>1. Minus(Plus(rdDone, m + n), Plus(rdDone, 0)) = m + n - 0
    BY <1>4, <1>6, MinusPlus
  <2> QED
    BY <1>5, <1>6, <2>1, PlusZero
<1>9. Minus(wr', h) = m + n - k
  BY <1>1, <1>2, <1>4, <1>5, <1>6, MinusPlus
<1> QED
  BY <1>4, <1>7, <1>8, <1>9 DEF m, k

LEMMA HeaderFacts ==
  ASSUME MacType, RoomInv
  PROVE  /\ Header \in Address /\ Header \in Nat /\ Gone \in Nat /\ InBuf \in Nat
         /\ Minus(wr, rdDone) \in Nat /\ Minus(Header, rdDone) <= Minus(wr, rdDone)
         /\ Full \in Nat /\ Data \in Nat /\ Full <= Data /\ Data <= Full + 1
         /\ InBuf <= Size
<1>1. Header \in Address
  BY DEF MacType, Header
<1>2. Gone \in Nat /\ InBuf \in Nat /\ Minus(wr, rdDone) \in Nat
  BY <1>1, MinusIs, SizeFact DEF MacType, Gone, InBuf
<1>3. Full \in Nat /\ Data \in Nat /\ Full <= Data /\ Data <= Full + 1
  BY LayoutFacts DEF MacType, RoomInv, Full, Data
<1> QED
  BY <1>1, <1>2, <1>3, SizeFact DEF RoomInv, Gone

(* No frame ends: the header stays, the words in the buffer do too.        *)
LEMMA Stays ==
  ASSUME MacType, RoomInv, NEW ack \in BOOLEAN, Cycle(ack), eof' = FALSE
  PROVE  /\ RoomInv' /\ Header' = Header /\ rdDone' = Header /\ wr' \in Address
         /\ Full' = Full /\ Data' = Data /\ InBuf' \in Nat /\ InBuf' >= InBuf
<1>1. Header' = Header /\ rdDone' = Header /\ layout' = layout
  BY DEF Cycle, Release, Header
<1>2. Full' = Full /\ Data' = Data
  BY <1>1 DEF Full, Data
<1>3. PICK n \in Nat : /\ Minus(wr', rdDone) = Minus(wr, rdDone) + n
                       /\ Minus(wr', Header) = Minus(wr, rdDone) + n - Gone
                       /\ Minus(wr', rdDone) <= Size
  BY HeaderFacts, Commits DEF MacType, RoomInv, Cycle, Gone
<1>4. wr' \in Address
  BY HeaderFacts, Commits DEF MacType, RoomInv, Cycle
<1>5. InBuf' = InBuf + n /\ InBuf' = Minus(wr', rdDone')
  BY <1>1, <1>3, HeaderFacts DEF InBuf, RoomInv
<1>6. Gone' = 0
  BY <1>1, HeaderFacts, MinusIs DEF Gone
<1>7. InBuf + n <= Size
  <2>1. Gone + InBuf = Minus(wr, rdDone) /\ Gone \in Nat /\ InBuf \in Nat
    BY HeaderFacts DEF RoomInv
  <2>2. Minus(wr, rdDone) + n <= Size
    BY <1>3
  <2> QED
    BY <2>1, <2>2, SizeFact
<1>8. RoomInv'
  BY <1>1, <1>5, <1>6, <1>7, HeaderFacts DEF RoomInv
<1> QED
  BY <1>1, <1>2, <1>4, <1>5, <1>8, HeaderFacts

(* A frame ends at the header of the next one.                             *)
LEMMA Moves ==
  ASSUME MacType, RoomInv, NEW ack \in BOOLEAN, Cycle(ack), ~eof, eof' = TRUE,
         rd = Plus(Header, Data + 1), Data + 1 <= InBuf, sof' = Header
  PROVE  /\ RoomInv' /\ Header' = rd /\ wr' \in Address /\ rdDone' = rdDone
         /\ InBuf' \in Nat /\ InBuf' >= InBuf - (Data + 1)
<1>1. /\ Header' = rd /\ rdDone' = rdDone /\ layout' = layout /\ Header = rdDone
      /\ prev' = rd
  BY DEF Cycle, Release, Header
<1>2. rd = After(sof', layout[sof']) /\ sof' \in DOMAIN layout /\ rd \in DOMAIN layout
  BY HeaderFacts, AfterIs, LayoutFacts DEF MacType, RoomInv, Data, Full
<1>3. Minus(rd, rdDone) = Data + 1
  <2> DEFINE d == Data + 1
  <2>1. d \in Nat /\ d < 2 * Size
    BY HeaderFacts, SizeFact
  <2>2. Minus(Plus(Header, d), Plus(Header, 0)) = d - 0
    BY <2>1, HeaderFacts, MinusPlus
  <2>3. Minus(rd, Header) = d
    BY <2>1, <2>2, HeaderFacts, PlusZero
  <2> QED
    BY <1>1, <2>3
<1>4. Gone = 0 /\ InBuf = Minus(wr, rdDone)
  BY <1>1, HeaderFacts, MinusIs DEF Gone, InBuf
<1>5. Minus(rd, rdDone) <= Minus(wr, rdDone)
  BY <1>3, <1>4
<1>6. PICK n \in Nat : /\ Minus(wr', rdDone) = Minus(wr, rdDone) + n
                       /\ Minus(wr', rd) = Minus(wr, rdDone) + n - Minus(rd, rdDone)
                       /\ Minus(wr', rdDone) <= Size
  BY <1>5, Commits DEF MacType, RoomInv, Cycle
<1>7. wr' \in Address
  BY <1>5, Commits DEF MacType, RoomInv, Cycle
<1>8. InBuf' = InBuf + n - (Data + 1) /\ Gone' = Data + 1
  BY <1>1, <1>3, <1>4, <1>6 DEF InBuf, Gone
<1>9. RoomInv'
  BY <1>1, <1>2, <1>4, <1>6, <1>8, HeaderFacts DEF RoomInv
<1> QED
  BY <1>1, <1>7, <1>8, <1>9, HeaderFacts

-----------------------------------------------------------------------------
(* How many words are there from the k-th of a frame on.                   *)
LEMMA FromHeader ==
  ASSUME MacType, RoomInv, NEW k \in Nat, k <= InBuf
  PROVE  /\ Minus(wr, Plus(Header, k)) = InBuf - k
         /\ Plus1(Plus(Header, k)) = Plus(Header, k + 1)
         /\ Minus(Plus(Header, k), Header) = k
<1> DEFINE b == InBuf
<1>1. wr = Plus(Header, b) /\ b \in Nat /\ b <= Size /\ Header \in Address
  BY HeaderFacts, PlusMinus DEF MacType, InBuf
<1>2. k <= b
  OBVIOUS
<1> HIDE DEF b
<1>3. b < 2 * Size /\ k + 1 <= 2 * Size /\ k < 2 * Size /\ 0 \in Nat /\ 0 <= k /\ 1 \in Nat
  BY <1>1, <1>2, SizeFact
<1>4. Minus(wr, Plus(Header, k)) = b - k
  BY <1>1, <1>2, <1>3, MinusPlus
<1>5. Plus1(Plus(Header, k)) = Plus(Header, k + 1)
  BY <1>1, <1>3, Plus1Is, PlusPlus
<1>6. Minus(Plus(Header, k), Plus(Header, 0)) = k - 0
  BY <1>1, <1>3, MinusPlus
<1> QED
  BY <1>1, <1>4, <1>5, <1>6, PlusZero DEF b

LEMMA MeasureIs ==
  ASSUME MacType, RoomInv, Measure
  PROVE  /\ size' \in Nat /\ part' \in BOOLEAN
         /\ prev = Header /\ InBuf > 0 =>
              size' = Full /\ part' = layout[Header].part
<1>1. PICK l \in IF prev \in DOMAIN layout /\ Committed(prev) THEN {layout[prev]}
                ELSE Length : size' = l.words /\ part' = l.part
  BY DEF Measure
<1>2. l \in [words : Nat, part : BOOLEAN]
  BY <1>1, ConstantsAssumption DEF MacType
<1>3. prev = Header /\ InBuf > 0 => Committed(prev)
  BY HeaderFacts DEF RoomInv, Committed, Gone
<1>4. prev = Header /\ InBuf > 0 => l = layout[Header]
  BY <1>1, <1>3 DEF RoomInv
<1> QED
  BY <1>1, <1>2, <1>4 DEF Full

LEMMA CycleType ==
  ASSUME MacType, RoomInv, NEW ack \in BOOLEAN, Cycle(ack)
  PROVE  MacType'
<1>1. /\ layout' = layout /\ prev' = rd /\ diff' = Minus(wr, rd)
      /\ chances' = (diff >= Chance) /\ rdDone' = (IF eof THEN prev ELSE rdDone)
  BY DEF Cycle, Release
<1>2. wr' \in Address
  BY HeaderFacts, Commits DEF MacType, RoomInv, Cycle
<1>3. diff' \in Nat
  BY <1>1, MinusIs, SizeFact DEF MacType
<1>4. /\ size' \in Nat /\ part' \in BOOLEAN /\ start' \in BOOLEAN
      /\ trig' \in {"idle", "check", "wait"}
  <2>1. Measure => size' \in Nat /\ part' \in BOOLEAN
    BY MeasureIs
  <2>2. CASE TrigIdle
    BY <2>1, <2>2 DEF MacType, TrigIdle, trigVars
  <2>3. CASE TrigWait
    BY <2>1, <2>3 DEF MacType, TrigWait
  <2>4. CASE TrigCheck
    <3>1. size' = (IF part THEN size + 1 ELSE size) /\ UNCHANGED part
      BY <2>4 DEF TrigCheck
    <3>2. size' \in Nat /\ part' \in BOOLEAN
      BY <3>1 DEF MacType
    <3>3. start' = (diff > size) /\ trig' = IF diff > size THEN "wait" ELSE "idle"
      BY <2>4 DEF TrigCheck
    <3> QED
      BY <3>2, <3>3
  <2> QED
    BY <2>2, <2>3, <2>4 DEF Cycle, Trigger
<1>5. Plus1(rd) \in Address
  BY Plus1Is, PlusIs, SizeFact DEF MacType
<1>6. /\ rd' \in Address /\ nextRd' \in Address /\ sof' \in Address
      /\ sent' \in Nat /\ synch' \in BOOLEAN /\ eof' \in BOOLEAN
  <2>1. Frame(ack)
    BY DEF Cycle
  <2>2. CASE FrameIdle
    BY <1>5, <2>2 DEF MacType, FrameIdle
  <2>3. CASE FrameStart
    BY <1>5, <2>3 DEF MacType, FrameStart
  <2>4. CASE FrameFirst
    BY <1>5, <2>4 DEF MacType, FrameFirst
  <2>5. CASE FrameSecond
    BY <1>5, <2>5 DEF MacType, FrameSecond
  <2>6. CASE FrameAck(ack)
    BY <2>6 DEF MacType, FrameAck
  <2>7. CASE FrameWord
    BY <1>5, <2>7 DEF MacType, FrameWord
  <2>8. CASE FrameEnd
    BY <1>5, <2>8 DEF MacType, FrameEnd
  <2>9. CASE FrameUnderrun
    BY <2>9 DEF MacType, FrameUnderrun
  <2>10. CASE FrameRewind
    BY <2>10 DEF MacType, FrameRewind
  <2> QED
    BY <2>1, <2>2, <2>3, <2>4, <2>5, <2>6, <2>7, <2>8, <2>9, <2>10 DEF Frame
<1>7. chances' \in BOOLEAN
  BY <1>1
<1> QED
  BY <1>1, <1>2, <1>3, <1>4, <1>6, <1>7 DEF MacType

-----------------------------------------------------------------------------
(* One step of the sending machine, with what the measuring machine does.  *)
LEMMA StepIdle ==
  ASSUME MacType, RoomInv, IdleInv, NEW ack \in BOOLEAN, Cycle(ack), FrameIdle
  PROVE  /\ RoomInv'
         /\ \/ frame' = "idle" /\ IdleInv'
            \/ frame' = "start" /\ StartInv'
<1>1. /\ prev' = rd /\ diff' = Minus(wr, rd) /\ layout' = layout
      /\ nextRd' = Plus1(rd) /\ synch' = FALSE /\ eof' = FALSE
      /\ IF start THEN rd' = nextRd /\ frame' = "start" ELSE rd' = rd /\ frame' = "idle"
  BY DEF Cycle, FrameIdle
<1>2. /\ RoomInv' /\ Header' = Header /\ Full' = Full /\ Data' = Data
      /\ InBuf' \in Nat /\ InBuf' >= InBuf
  BY <1>1, Stays
<1>3. diff' = InBuf /\ nextRd' = Plus(Header, 1)
  BY <1>1, Plus1Is DEF IdleInv, InBuf
<1>4. InBuf \in Nat /\ Full \in Nat /\ diff \in Nat /\ size \in Nat
  BY HeaderFacts DEF MacType
<1>5. Measure => size' \in Nat /\ (InBuf > 0 => size' = Full /\ part' = layout[Header].part)
  BY MeasureIs DEF IdleInv
<1>6. CASE start
  <2>1. trig = "wait" /\ size = Data /\ InBuf > Full /\ ~synch /\ nextRd = Plus(Header, 1)
    BY <1>6 DEF IdleInv, Measured
  <2>2. start' = FALSE /\ UNCHANGED <<trig, size, part>>
    BY <2>1 DEF Cycle, Trigger, TrigIdle, TrigCheck, TrigWait
  <2>3. InBuf' > Full'
    BY <1>2, <1>4, <2>1
  <2>4. prev' = Header' /\ rd' = Plus(Header', 1)
    BY <1>1, <1>2, <1>6, <2>1 DEF IdleInv
  <2>5. StartInv'
    BY <1>1, <1>2, <2>1, <2>2, <2>3, <2>4 DEF StartInv, Measured
  <2> QED
    BY <1>1, <1>2, <1>6, <2>5
<1>7. CASE ~start
  <2>1. /\ rd' = Header' /\ prev' = Header' /\ diff' <= InBuf'
        /\ nextRd' = Plus(Header', 1) /\ layout'[Header'] = layout[Header]
        /\ ~synch' /\ ~eof'
    BY <1>1, <1>2, <1>3, <1>4, <1>7 DEF IdleInv
  <2>2. \/ ~start' /\ trig' = "idle"
        \/ /\ ~start' /\ trig' = "check"
           /\ diff' # 0 => size' = Full' /\ part' = layout'[Header'].part
        \/ start' /\ Measured' /\ InBuf' > Full'
    <3>1. CASE trig = "wait"
      <4>1. synch
        BY <1>7, <3>1 DEF IdleInv
      <4>2. Measure /\ trig' = "check" /\ start' = FALSE
        BY <3>1, <4>1 DEF Cycle, Trigger, TrigIdle, TrigCheck, TrigWait
      <4> QED
        BY <1>2, <1>3, <1>4, <1>5, <2>1, <4>2
    <3>2. CASE trig = "idle"
      <4>1. \/ diff = 0 /\ trig' = trig /\ start' = start
            \/ diff # 0 /\ Measure /\ trig' = "check" /\ start' = start
        BY <3>2 DEF Cycle, Trigger, TrigIdle, TrigCheck, TrigWait, trigVars
      <4> QED
        BY <1>2, <1>3, <1>4, <1>5, <1>7, <2>1, <3>2, <4>1
    <3>3. CASE trig = "check"
      <4>1. /\ size' = IF part THEN size + 1 ELSE size
            /\ start' = (diff > size)
            /\ trig' = IF diff > size THEN "wait" ELSE "idle"
        BY <3>3 DEF Cycle, Trigger, TrigIdle, TrigCheck, TrigWait
      <4>2. diff <= InBuf /\ (diff # 0 => size = Full /\ part = layout[Header].part)
        BY <3>3, <1>7 DEF IdleInv
      <4>3. CASE diff > size
        <5>1. size = Full /\ part = layout[Header].part /\ InBuf' > Full'
          BY <1>2, <1>4, <4>2, <4>3
        <5>2. size' = Data
          BY <4>1, <5>1, <1>4 DEF Data, Words, Full
        <5> QED
          BY <1>2, <4>1, <4>3, <5>1, <5>2 DEF Measured
      <4>4. CASE ~(diff > size)
        BY <4>1, <4>4
      <4> QED
        BY <4>3, <4>4
    <3> QED
      BY <3>1, <3>2, <3>3 DEF MacType
  <2>3. IdleInv'
    BY <2>1, <2>2 DEF IdleInv
  <2> QED
    BY <1>1, <1>2, <1>7, <2>3
<1> QED
  BY <1>6, <1>7 DEF MacType

LEMMA StepStart ==
  ASSUME MacType, RoomInv, StartInv, ChanceSafe, NEW ack \in BOOLEAN, Cycle(ack),
         FrameStart
  PROVE  RoomInv' /\ frame' = "first" /\ FirstInv' /\ ~synch'
<1>1. /\ prev' = rd /\ diff' = Minus(wr, rd) /\ layout' = layout
      /\ rd' = Plus1(rd) /\ synch' = FALSE /\ eof' = FALSE /\ frame' = "first"
  BY DEF Cycle, FrameStart
<1>2. /\ RoomInv' /\ Header' = Header /\ Full' = Full /\ Data' = Data
      /\ InBuf' \in Nat /\ InBuf' >= InBuf
  BY <1>1, Stays
<1>3. InBuf \in Nat /\ Full \in Nat /\ InBuf > Full /\ rd = Plus(Header, 1)
  BY HeaderFacts DEF StartInv
<1>4. Minus(wr, rd) = InBuf - 1 /\ Plus1(rd) = Plus(Header, 2)
  BY <1>3, FromHeader
<1>5. prev' = Plus(Header', 1) /\ rd' = Plus(Header', 2) /\ InBuf' > Full'
  BY <1>1, <1>2, <1>3, <1>4
<1>6. CASE synch
  <2>1. Measure /\ trig' = "check" /\ start' = FALSE
    BY <1>6 DEF Cycle, Trigger, TrigIdle, TrigCheck, TrigWait, StartInv
  <2>2. size' = Full /\ part' = layout[Header].part
    BY <1>3, <2>1, MeasureIs DEF StartInv
  <2>3. diff' > Full
    BY <1>1, <1>3, <1>4, <1>6 DEF StartInv
  <2>4. FirstInv'
    BY <1>1, <1>2, <1>5, <2>1, <2>2, <2>3 DEF FirstInv
  <2> QED
    BY <1>1, <1>2, <2>4
<1>7. CASE ~synch
  <2>1. UNCHANGED <<trig, size>> /\ start' = FALSE /\ Measured
    BY <1>7 DEF Cycle, Trigger, TrigIdle, TrigCheck, TrigWait, StartInv
  <2>2. FirstInv'
    BY <1>2, <1>5, <2>1 DEF FirstInv, Measured
  <2> QED
    BY <1>1, <1>2, <2>2
<1> QED
  BY <1>6, <1>7

LEMMA StepFirst ==
  ASSUME MacType, RoomInv, FirstInv, ChanceSafe, ~eof, ~synch, NEW ack \in BOOLEAN,
         Cycle(ack), FrameFirst
  PROVE  RoomInv' /\ frame' = "second" /\ SecondInv' /\ ~synch'
<1>1. /\ prev' = rd /\ layout' = layout
      /\ rd' = Plus1(rd) /\ synch' = synch /\ eof' = FALSE /\ frame' = "second"
  BY DEF Cycle, FrameFirst, MacType
<1>2. /\ RoomInv' /\ Header' = Header /\ Full' = Full /\ Data' = Data
      /\ InBuf' \in Nat /\ InBuf' >= InBuf
  BY <1>1, Stays
<1>3. InBuf \in Nat /\ Full \in Nat /\ InBuf > Full /\ rd = Plus(Header, 2)
  BY HeaderFacts DEF FirstInv
<1>4. Plus1(rd) = Plus(Header, 3)
  <2>1. Full >= 3
    BY DEF ChanceSafe, Full, RoomInv, MacType
  <2> QED
    BY <1>3, <2>1, FromHeader
<1>5. Measured'
  <2>1. CASE Measured
    <3>1. UNCHANGED <<trig, size>>
      BY <2>1 DEF Cycle, Trigger, TrigIdle, TrigCheck, TrigWait, Measured
    <3> QED
      BY <1>2, <2>1, <3>1 DEF Measured
  <2>2. CASE trig = "check" /\ size = Full /\ part = layout[Header].part /\ diff > Full
    <3>1. trig' = "wait" /\ size' = IF part THEN size + 1 ELSE size
      BY <2>2 DEF Cycle, Trigger, TrigIdle, TrigCheck, TrigWait
    <3>2. size' = Data
      BY <1>3, <2>2, <3>1 DEF Data, Words, Full
    <3> QED
      BY <1>2, <3>1, <3>2 DEF Measured
  <2> QED
    BY <2>1, <2>2 DEF FirstInv
<1>6. SecondInv'
  BY <1>1, <1>2, <1>3, <1>4, <1>5 DEF SecondInv
<1> QED
  BY <1>1, <1>2, <1>6

LEMMA StepSecond ==
  ASSUME MacType, RoomInv, SecondInv, ChanceSafe, ~eof, ~synch, NEW ack \in BOOLEAN,
         Cycle(ack), FrameSecond
  PROVE  RoomInv' /\ frame' = "ack" /\ AckInv' /\ ~synch'
<1>1. /\ prev' = rd /\ diff' = Minus(wr, rd) /\ layout' = layout
      /\ rd' = rd /\ nextRd' = Plus1(rd)
      /\ synch' = synch /\ eof' = FALSE /\ frame' = "ack"
  BY DEF Cycle, FrameSecond, MacType
<1>2. /\ RoomInv' /\ Header' = Header /\ Full' = Full /\ Data' = Data
      /\ InBuf' \in Nat /\ InBuf' >= InBuf
  BY <1>1, Stays
<1>3. InBuf \in Nat /\ Full \in Nat /\ InBuf > Full /\ rd = Plus(Header, 3)
  BY HeaderFacts DEF SecondInv
<1>4. Full >= 3
  BY DEF ChanceSafe, Full, RoomInv, MacType
<1>5. Minus(wr, rd) = InBuf - 3 /\ Plus1(rd) = Plus(Header, 4)
  BY <1>3, <1>4, FromHeader
<1>6. UNCHANGED <<trig, size>> /\ start' = FALSE /\ Measured
  BY DEF Cycle, Trigger, TrigIdle, TrigCheck, TrigWait, SecondInv, Measured
<1>7. Measured'
  BY <1>2, <1>6 DEF Measured
<1>8. diff' > 0 /\ diff' + 3 <= InBuf'
  BY <1>1, <1>2, <1>3, <1>4, <1>5
<1>9. AckInv'
  BY <1>1, <1>2, <1>3, <1>5, <1>6, <1>7, <1>8 DEF AckInv
<1> QED
  BY <1>1, <1>2, <1>9

(* The machines do not meet while the words are sent. *)
LEMMA Waits ==
  ASSUME MacType, Measured, ~synch, NEW ack \in BOOLEAN, Cycle(ack)
  PROVE  UNCHANGED <<trig, size>> /\ start' = FALSE
BY DEF Cycle, Trigger, TrigIdle, TrigCheck, TrigWait, Measured

LEMMA ChanceWords ==
  ASSUME NEW c \in Nat, NEW d \in Nat, NEW k \in Nat, NEW m \in Nat, NEW n \in Nat,
         d >= c, d + k <= m, n >= m
  PROVE  c + k <= n + 1 /\ c + (k + 1) <= n + 1
OBVIOUS

LEMMA StepAck ==
  ASSUME MacType, RoomInv, AckInv, ChanceSafe, ~eof, ~synch, NEW ack \in BOOLEAN,
         Cycle(ack), FrameAck(ack)
  PROVE  RoomInv' /\ ~synch' /\ \/ frame' = "ack" /\ AckInv'
                                \/ frame' = "words" /\ WordsInv'
<1>1. /\ prev' = rd /\ diff' = Minus(wr, rd) /\ layout' = layout
      /\ nextRd' = nextRd /\ sent' = 3 /\ (chances' => diff >= Chance)
      /\ synch' = synch /\ eof' = FALSE
      /\ IF ack THEN rd' = nextRd /\ frame' = "words" ELSE rd' = rd /\ frame' = frame
  BY DEF Cycle, FrameAck, MacType
<1>2. /\ RoomInv' /\ Header' = Header /\ Full' = Full /\ Data' = Data
      /\ InBuf' \in Nat /\ InBuf' >= InBuf
  BY <1>1, Stays
<1>3. /\ InBuf \in Nat /\ Full \in Nat /\ Data \in Nat /\ Full <= Data /\ diff \in Nat
      /\ diff + 3 <= InBuf /\ diff > 0 /\ rd = Plus(Header, 3) /\ nextRd = Plus(Header, 4)
  BY HeaderFacts DEF AckInv, MacType
<1>4. Data >= 3 /\ Chance \in Nat
  <2>1. Full >= 3
    BY DEF ChanceSafe, Full, RoomInv, MacType
  <2> QED
    BY <1>3, <2>1, ConstantsAssumption
<1>5. Minus(wr, rd) = InBuf - 3
  BY <1>3, FromHeader
<1>6. UNCHANGED <<trig, size>> /\ start' = FALSE /\ Measured
  BY Waits DEF AckInv
<1>7. Measured'
  BY <1>2, <1>6 DEF Measured
<1>8. diff' > 0 /\ diff' + 3 <= InBuf'
  BY <1>1, <1>2, <1>3, <1>5
<1>9. CASE ack
  <2>1. prev' = Plus(Header', sent') /\ rd' = Plus(Header', sent' + 1)
    <3>1. sent' = 3 /\ sent' + 1 = 4
      BY <1>1
    <3>2. prev' = Plus(Header, 3) /\ rd' = Plus(Header, 4)
      BY <1>1, <1>3, <1>9
    <3> QED
      BY <1>2, <3>1, <3>2
  <2>2. ASSUME chances' PROVE Chance + sent' <= InBuf' + 1
    <3>1. diff >= Chance /\ sent' = 3 /\ 3 \in Nat
      BY <1>1, <2>2
    <3>2. Chance + 3 <= InBuf' + 1
      BY <1>2, <1>3, <1>4, <3>1, ChanceWords
    <3> QED
      BY <3>1, <3>2
  <2>3. diff' + sent' <= InBuf' /\ 3 <= sent' /\ sent' <= Data'
    <3>1. sent' = 3
      BY <1>1
    <3> QED
      BY <1>2, <1>4, <1>8, <3>1
  <2>4. WordsInv'
    BY <1>6, <1>7, <1>8, <2>1, <2>2, <2>3 DEF WordsInv
  <2> QED
    BY <1>1, <1>2, <1>9, <2>4
<1>10. CASE ~ack
  <2>1. AckInv'
    BY <1>1, <1>2, <1>3, <1>6, <1>7, <1>8, <1>10 DEF AckInv
  <2> QED
    BY <1>1, <1>2, <1>10, <2>1 DEF FrameAck
<1> QED
  BY <1>9, <1>10

LEMMA StepWord ==
  ASSUME MacType, RoomInv, WordsInv, ~eof, ~synch, NEW ack \in BOOLEAN,
         Cycle(ack), FrameWord
  PROVE  RoomInv' /\ ~synch' /\ frame' = "words" /\ WordsInv'
<1>1. /\ prev' = rd /\ diff' = Minus(wr, rd) /\ layout' = layout
      /\ sent' = sent + 1 /\ (chances' => diff >= Chance) /\ rd' = Plus1(rd)
      /\ synch' = synch /\ eof' = FALSE /\ frame' = "words"
      /\ size # sent /\ diff # 1
  BY DEF Cycle, FrameWord, MacType
<1>2. /\ RoomInv' /\ Header' = Header /\ Full' = Full /\ Data' = Data
      /\ InBuf' \in Nat /\ InBuf' >= InBuf
  BY <1>1, Stays
<1>3. /\ InBuf \in Nat /\ Data \in Nat /\ diff \in Nat /\ sent \in Nat /\ Chance \in Nat
      /\ diff > 1 /\ diff + sent <= InBuf /\ 3 <= sent /\ sent < Data
      /\ rd = Plus(Header, sent + 1)
  BY <1>1, HeaderFacts, ConstantsAssumption DEF WordsInv, MacType, Measured
<1>4. Minus(wr, rd) = InBuf - (sent + 1) /\ Plus1(rd) = Plus(Header, sent + 2)
  <2> DEFINE k == sent + 1
  <2>1. k \in Nat /\ k <= InBuf
    BY <1>3
  <2>2. Minus(wr, Plus(Header, k)) = InBuf - k /\ Plus1(Plus(Header, k)) = Plus(Header, k + 1)
    BY <2>1, FromHeader
  <2>3. k + 1 = sent + 2
    BY <1>3
  <2> QED
    BY <1>3, <2>2, <2>3
<1>5. UNCHANGED <<trig, size>> /\ start' = FALSE /\ Measured
  BY Waits DEF WordsInv
<1>6. Measured'
  BY <1>2, <1>5 DEF Measured
<1>7. diff' > 0 /\ diff' + sent' <= InBuf' /\ 3 <= sent' /\ sent' <= Data'
  BY <1>1, <1>2, <1>3, <1>4
<1>8. ASSUME chances' PROVE Chance + sent' <= InBuf' + 1
  <2>1. diff >= Chance /\ sent' = sent + 1
    BY <1>1, <1>8
  <2>2. Chance + (sent + 1) <= InBuf' + 1
    BY <1>2, <1>3, <2>1, ChanceWords
  <2> QED
    BY <2>1, <2>2
<1>9. sent' + 1 = sent + 2
  BY <1>1, <1>3
<1>10. WordsInv'
  BY <1>1, <1>2, <1>3, <1>4, <1>5, <1>6, <1>7, <1>8, <1>9 DEF WordsInv
<1> QED
  BY <1>1, <1>2, <1>10

LEMMA StepEnd ==
  ASSUME MacType, RoomInv, WordsInv, ChanceSafe, KeptInv, side = "mac",
         frame = "words", ~synch, NEW ack \in BOOLEAN, Cycle(ack), FrameEnd
  PROVE  /\ RoomInv'
         /\ \/ frame' = "idle" /\ IdleInv'
            \/ frame' = "start" /\ StartInv'
<1>1. /\ prev' = rd /\ diff' = Minus(wr, rd) /\ sof' = sof
      /\ synch' = TRUE /\ eof' = TRUE /\ size = sent
      /\ IF chances THEN rd' = Plus1(rd) /\ frame' = "start"
                    ELSE rd' = rd /\ frame' = "idle"
  BY DEF Cycle, FrameEnd
<1>2. ~eof /\ sof = Header
  BY DEF KeptInv, Reading, Header
<1>3. /\ InBuf \in Nat /\ Data \in Nat /\ diff \in Nat /\ sent \in Nat /\ Chance \in Nat
      /\ diff > 0 /\ diff + sent <= InBuf /\ sent = Data
      /\ rd = Plus(Header, sent + 1)
  BY <1>1, HeaderFacts, ConstantsAssumption DEF WordsInv, MacType, Measured
<1>4. Data + 1 \in Nat /\ Data + 1 <= InBuf /\ rd = Plus(Header, Data + 1)
  BY <1>3
<1>5. /\ RoomInv' /\ Header' = rd
      /\ InBuf' \in Nat /\ InBuf' >= InBuf - (Data + 1)
  BY <1>1, <1>2, <1>4, Moves
<1>6. diff' = InBuf - (Data + 1)
  BY <1>1, <1>4, FromHeader
<1>7. trig' = "wait" /\ start' = FALSE
  BY Waits DEF WordsInv, Measured
<1>8. CASE chances
  <2>1. prev' = Header' /\ rd' = Plus(Header', 1) /\ frame' = "start"
    BY <1>1, <1>5, <1>8, Plus1Is
  <2>2. Full' \in Nat /\ Full' + 4 <= Chance
    <3>1. MacType'
      BY CycleType
    <3>2. layout' \in Layouts /\ Header' \in DOMAIN layout'
      BY <1>5, <3>1 DEF MacType, RoomInv
    <3> QED
      BY <3>2, ConstantsAssumption DEF ChanceSafe, Full
  <2>3. Chance + Data <= InBuf + 1
    BY <1>3, <1>8 DEF WordsInv
  <2>4. InBuf' >= Full' + 2
    <3> DEFINE b == InBuf'
               f == Full'
    <3>1. b \in Nat /\ f \in Nat /\ b >= InBuf - (Data + 1) /\ f + 4 <= Chance
      BY <1>5, <2>2
    <3> HIDE DEF b, f
    <3>2. b >= f + 2
      BY <1>3, <2>3, <3>1
    <3> QED
      BY <3>2 DEF b, f
  <2>5. InBuf' > Full'
    <3> DEFINE b == InBuf'
               f == Full'
    <3>1. b \in Nat /\ f \in Nat /\ b >= f + 2
      BY <1>5, <2>2, <2>4
    <3> HIDE DEF b, f
    <3>2. b > f
      BY <3>1
    <3> QED
      BY <3>2 DEF b, f
  <2>6. StartInv'
    BY <1>1, <1>7, <2>1, <2>4, <2>5 DEF StartInv
  <2> QED
    BY <1>5, <2>1, <2>6
<1>9. CASE ~chances
  <2>1. rd' = Header' /\ prev' = Header' /\ frame' = "idle"
    BY <1>1, <1>5, <1>9
  <2>2. diff' <= InBuf'
    BY <1>5, <1>6
  <2>3. IdleInv'
    BY <1>1, <1>7, <2>1, <2>2 DEF IdleInv
  <2> QED
    BY <1>5, <2>1, <2>3
<1> QED
  BY <1>8, <1>9

LEMMA StepUnderrun ==
  ASSUME MacType, RoomInv, WordsInv, ~eof, ~synch,
         NEW ack \in BOOLEAN, Cycle(ack), FrameUnderrun
  PROVE  RoomInv' /\ ~synch' /\ frame' = "rewind" /\ RewindInv'
<1>1. synch' = synch /\ eof' = FALSE /\ frame' = "rewind"
  BY DEF FrameUnderrun, MacType
<1>2. RoomInv'
  BY <1>1, Stays
<1>3. trig' = "wait" /\ start' = FALSE
  BY Waits DEF WordsInv, Measured
<1> QED
  BY <1>1, <1>2, <1>3 DEF RewindInv

LEMMA StepRewind ==
  ASSUME MacType, RoomInv, RewindInv, KeptInv, side = "mac", frame = "rewind", ~synch,
         NEW ack \in BOOLEAN, Cycle(ack), FrameRewind
  PROVE  RoomInv' /\ frame' = "idle" /\ IdleInv'
<1>1. ~eof /\ rd = Header
  BY DEF KeptInv, Reading, Header
<1>2. /\ prev' = rd /\ diff' = Minus(wr, rd) /\ rd' = rd
      /\ synch' = TRUE /\ eof' = FALSE /\ frame' = "idle"
  BY <1>1 DEF Cycle, FrameRewind, MacType
<1>3. RoomInv' /\ Header' = Header /\ InBuf' \in Nat /\ InBuf' >= InBuf
  BY <1>2, Stays
<1>4. trig' = "wait" /\ start' = FALSE
  BY DEF Cycle, Trigger, TrigIdle, TrigCheck, TrigWait, RewindInv
<1>5. diff' <= InBuf'
  BY <1>1, <1>2, <1>3 DEF InBuf
<1>6. IdleInv'
  BY <1>1, <1>2, <1>3, <1>4, <1>5 DEF IdleInv
<1> QED
  BY <1>2, <1>3, <1>6

LEMMA MacInit == TransmitInit => MacInv
<1> SUFFICES ASSUME TransmitInit PROVE MacInv
  OBVIOUS
<1>1. /\ layout \in Layouts /\ wr = 0 /\ rdDone = 0 /\ rd = 0 /\ prev = 0 /\ diff = 0
      /\ chances = FALSE /\ trig = "idle" /\ size = 0 /\ part = FALSE /\ start = FALSE
      /\ frame = "idle" /\ nextRd = 0 /\ sof = 0 /\ sent = 0 /\ synch = FALSE
      /\ eof = FALSE
  BY DEF TransmitInit, Init
<1>2. 0 \in Address
  BY SizeFact
<1>3. MacType
  BY <1>1, <1>2 DEF MacType
<1>4. Header = 0 /\ 0 \in DOMAIN layout
  BY <1>1, ConstantsAssumption DEF Header
<1>5. Minus(0, 0) = 0
  BY <1>2, MinusIs
<1>6. RoomInv
  BY <1>1, <1>4, <1>5, SizeFact DEF RoomInv, Gone, InBuf
<1>7. IdleInv
  BY <1>1, <1>4, <1>5 DEF IdleInv, InBuf
<1> QED
  BY <1>1, <1>3, <1>6, <1>7 DEF MacInv, Reading

LEMMA MacNextInv ==
  ASSUME ChanceSafe, KeptInv, MacInv, [TransmitNext]_transmitVars
  PROVE  MacInv'
<1>1. ASSUME NEW ack \in BOOLEAN, side = "mac", Cycle(ack), side' = side
      PROVE  MacInv'
  <2>1. MacType /\ RoomInv
    BY <1>1 DEF MacInv
  <2>2. MacType'
    BY <1>1, <2>1, CycleType
  <2>3. frame \in Reading => ~eof /\ ~synch
    BY <1>1 DEF MacInv, KeptInv
  <2>4. CASE FrameIdle
    <3>1. IdleInv
      BY <1>1, <2>4 DEF MacInv, FrameIdle
    <3>2. RoomInv' /\ ((frame' = "idle" /\ IdleInv') \/ (frame' = "start" /\ StartInv'))
      BY <1>1, <2>1, <2>4, <3>1, StepIdle
    <3> QED
      BY <2>2, <3>2 DEF MacInv, Reading
  <2>5. CASE FrameStart
    <3>1. StartInv
      BY <1>1, <2>5 DEF MacInv, FrameStart
    <3>2. RoomInv' /\ frame' = "first" /\ FirstInv' /\ ~synch'
      BY <1>1, <2>1, <2>5, <3>1, StepStart
    <3> QED
      BY <2>2, <3>2 DEF MacInv, Reading
  <2>6. CASE FrameFirst
    <3>1. FirstInv /\ ~eof /\ ~synch
      BY <1>1, <2>3, <2>6 DEF MacInv, FrameFirst, Reading
    <3>2. RoomInv' /\ frame' = "second" /\ SecondInv' /\ ~synch'
      BY <1>1, <2>1, <2>6, <3>1, StepFirst
    <3> QED
      BY <2>2, <3>2 DEF MacInv, Reading
  <2>7. CASE FrameSecond
    <3>1. SecondInv /\ ~eof /\ ~synch
      BY <1>1, <2>3, <2>7 DEF MacInv, FrameSecond, Reading
    <3>2. RoomInv' /\ frame' = "ack" /\ AckInv' /\ ~synch'
      BY <1>1, <2>1, <2>7, <3>1, StepSecond
    <3> QED
      BY <2>2, <3>2 DEF MacInv, Reading
  <2>8. CASE FrameAck(ack)
    <3>1. AckInv /\ ~eof /\ ~synch
      BY <1>1, <2>3, <2>8 DEF MacInv, FrameAck, Reading
    <3>2. RoomInv' /\ ~synch' /\ ((frame' = "ack" /\ AckInv') \/ (frame' = "words" /\ WordsInv'))
      BY <1>1, <2>1, <2>8, <3>1, StepAck
    <3> QED
      BY <2>2, <3>2 DEF MacInv, Reading
  <2>9. ASSUME FrameWord \/ FrameEnd \/ FrameUnderrun
        PROVE  WordsInv /\ ~eof /\ ~synch /\ frame = "words"
    BY <1>1, <2>3, <2>9 DEF MacInv, FrameWord, FrameEnd, FrameUnderrun, Reading
  <2>10. CASE FrameWord
    <3>1. RoomInv' /\ ~synch' /\ frame' = "words" /\ WordsInv'
      BY <1>1, <2>1, <2>9, <2>10, StepWord
    <3> QED
      BY <2>2, <3>1 DEF MacInv, Reading
  <2>11. CASE FrameEnd
    <3>1. RoomInv' /\ ((frame' = "idle" /\ IdleInv') \/ (frame' = "start" /\ StartInv'))
      BY <1>1, <2>1, <2>9, <2>11, StepEnd
    <3> QED
      BY <2>2, <3>1 DEF MacInv, Reading
  <2>12. CASE FrameUnderrun
    <3>1. RoomInv' /\ ~synch' /\ frame' = "rewind" /\ RewindInv'
      BY <1>1, <2>1, <2>9, <2>12, StepUnderrun
    <3> QED
      BY <2>2, <3>1 DEF MacInv, Reading
  <2>13. CASE FrameRewind
    <3>1. RewindInv /\ ~synch /\ frame = "rewind"
      BY <1>1, <2>3, <2>13 DEF MacInv, FrameRewind, Reading
    <3>2. RoomInv' /\ frame' = "idle" /\ IdleInv'
      BY <1>1, <2>1, <2>13, <3>1, StepRewind
    <3> QED
      BY <2>2, <3>2 DEF MacInv, Reading
  <2> QED
    BY <1>1, <2>4, <2>5, <2>6, <2>7, <2>8, <2>10, <2>11, <2>12, <2>13 DEF Cycle, Frame
<1>2. CASE EngineStep(Engine)
  BY <1>2 DEF EngineStep, MacInv
<1>3. CASE UNCHANGED transmitVars
  <2>1. UNCHANGED <<layout, wr, rdDone, rd, prev, diff, chances, trig, size, part, start,
                    frame, nextRd, sof, sent, synch, eof, side>>
    BY <1>3 DEF transmitVars, vars, trigVars, frameVars
  <2>2. UNCHANGED <<Header, Gone, InBuf, Full, Data>>
    BY <2>1 DEF Header, Gone, InBuf, Full, Data
  <2>3. /\ MacType => MacType'
        /\ RoomInv => RoomInv'
    BY <2>1, <2>2 DEF MacType, RoomInv
  <2>4. /\ IdleInv => IdleInv'
        /\ StartInv => StartInv'
        /\ FirstInv => FirstInv'
        /\ SecondInv => SecondInv'
    BY <2>1, <2>2 DEF IdleInv, StartInv, FirstInv, SecondInv, Measured
  <2>5. /\ AckInv => AckInv'
        /\ WordsInv => WordsInv'
        /\ RewindInv => RewindInv'
    BY <2>1, <2>2 DEF AckInv, WordsInv, RewindInv, Measured
  <2> QED
    BY <2>1, <2>3, <2>4, <2>5 DEF MacInv, Reading
<1> QED
  BY <1>1, <1>2, <1>3 DEF TransmitNext, MacStep, Next

-----------------------------------------------------------------------------
LEMMA MacInductive == ASSUME ChanceSafe PROVE TransmitSpec => [](KeptInv /\ MacInv)
<1>1. TransmitInit => KeptInv /\ MacInv
  BY KeptInit, MacInit
<1>2. KeptInv /\ MacInv /\ [TransmitNext]_transmitVars => (KeptInv /\ MacInv)'
  BY KeptStep, MacNextInv
<1> QED
  BY <1>1, <1>2, PTL DEF TransmitSpec

(* The MAC is given frames as the host sent them, whatever the size of the *)
(* buffer and however the words come, if chance cannot hurt them.          *)
THEOREM FramesExact == ASSUME ChanceSafe PROVE TransmitSpec => []FrameExact
<1>1. KeptInv /\ MacInv => FrameExact
  BY DEF KeptInv, MacInv, RoomInv, FrameExact
<1> QED
  BY <1>1, MacInductive, PTL

(* No word is given to the MAC that was not in the buffer, under the same  *)
(* condition, though what is there is known a cycle late.                  *)
THEOREM SentWasCommitted == ASSUME ChanceSafe PROVE TransmitSpec => []SentCommitted
<1>1. KeptInv /\ MacInv => SentCommitted
  <2> SUFFICES ASSUME KeptInv, MacInv, frame \in {"first", "second", "words"}
               PROVE  Committed(prev)
    BY DEF SentCommitted
  <2>1. side = "mac" /\ ~eof /\ Header = rdDone /\ MacType /\ RoomInv
    BY DEF KeptInv, Reading, MacInv, Header, MacType
  <2>2. InBuf = Minus(wr, rdDone) /\ InBuf \in Nat /\ Full \in Nat /\ Full >= 3
    BY <2>1, HeaderFacts DEF InBuf, ChanceSafe, Full, RoomInv, MacType
  <2>3. \E k \in Nat : k < InBuf /\ prev = Plus(Header, k)
    <3>1. CASE frame = "first"
      BY <2>1, <2>2, <3>1 DEF MacInv, FirstInv
    <3>2. CASE frame = "second"
      BY <2>1, <2>2, <3>2 DEF MacInv, SecondInv
    <3>3. CASE frame = "words"
      <4>1. /\ prev = Plus(Header, sent) /\ diff > 0 /\ diff + sent <= InBuf
            /\ diff \in Nat /\ sent \in Nat
        BY <2>1, <3>3 DEF MacInv, WordsInv, MacType
      <4> QED
        BY <2>2, <4>1
    <3> QED
      BY <3>1, <3>2, <3>3
  <2>4. PICK k \in Nat : k < InBuf /\ prev = Plus(Header, k)
    BY <2>3
  <2>5. Minus(prev, rdDone) = k
    BY <2>1, <2>2, <2>4, FromHeader
  <2> QED
    BY <2>2, <2>4, <2>5 DEF Committed
<1> QED
  BY <1>1, MacInductive, PTL

-----------------------------------------------------------------------------
(* The engine. Addresses are told by how far they are from the words that  *)
(* were given back last.                                                   *)
Off(a) == Minus(a, rdDone)

(* The requests that are under way, in the order they were asked for.      *)
Rank(t)  == (t + Tags - target) % Tags
Under(t) == Rank(t) < open

(* The words of a request: where they begin and stop, how many are not     *)
(* counted yet; and up to where they are written.                          *)
Stop(t)    == Off(end[t])
Begin(t)   == Stop(t) - reqSize[t]
Rest(t)    == reqSize[t] - received[t]
Half(t)    == IF odd[t] THEN 1 ELSE 0
Writing(t) == wrFsm = "words" /\ wrTag = t
Piece(t)   == IF Writing(t) THEN dwords ELSE 0
Done(t)    == Off(IF Writing(t) THEN wrAddr ELSE tlpAddr[t])

WordType ==
  /\ layout \in Layouts /\ rdDone \in DOMAIN layout
  /\ wr \in Address /\ rdDone \in Address /\ nextWr \in Address /\ wrAddr \in Address
  /\ remaining \in Nat /\ open \in 0 .. Tags /\ target \in Tag
  /\ tlpAddr \in [Tag -> Address] /\ end \in [Tag -> Address]
  /\ received \in [Tag -> Nat] /\ reqSize \in [Tag -> Nat] /\ due \in [Tag -> Nat]
  /\ ready \in [Tag -> BOOLEAN] /\ odd \in [Tag -> BOOLEAN]
  /\ wrFsm \in {"header", "words"} /\ wrTag \in Tag /\ dwords \in Nat
  /\ mem \in [0 .. Size - 1 -> Nat]

(* The words asked for fit, though their sum has no bit more.              *)
FitInv ==
  /\ Off(wr) <= Off(nextWr) /\ Off(nextWr) <= Size
  /\ remaining < 2 * Size
  /\ Off(nextWr) = Size => remaining \in 1 .. Size - 1

(* A request: what is due is what is not counted.                          *)
Request(t) ==
  IF Under(t)
  THEN /\ reqSize[t] \in 1 .. Size /\ received[t] <= reqSize[t]
       /\ Off(tlpAddr[t]) + Rest(t) = Stop(t)
       /\ due[t] + Half(t) = 2 * Rest(t) + Piece(t)
       /\ Piece(t) <= due[t]
       /\ Off(wr) <= Done(t) /\ Begin(t) <= Done(t) /\ Done(t) <= Off(tlpAddr[t])
       /\ Writing(t) => ~ready[t]
  ELSE due[t] = 0 /\ ~ready[t] /\ ~Writing(t)

RequestInv == \A t \in Tag : Request(t)

(* The requests follow one another, from what is committed on.             *)
OrderInv ==
  /\ open = 0 => wr = nextWr
  /\ \A t \in Tag : Under(t) =>
       /\ Stop(t) <= Off(nextWr)
       /\ Rank(t) = 0 => Begin(t) <= Off(wr)
       /\ Rank(t) + 1 = open => Stop(t) = Off(nextWr)
       /\ \A s \in Tag : Under(s) =>
            /\ Rank(s) < Rank(t) => Stop(s) <= Begin(t)
            /\ Rank(s) + 1 = Rank(t) => Stop(s) = Begin(t)

(* The words that are written and not given back are the host's.           *)
Written(a) ==
  \/ Off(a) < Off(wr)
  \/ \E t \in Tag : Under(t) /\ Begin(t) <= Off(a) /\ Off(a) < Done(t)

MemInv == \A a \in Address : Written(a) => mem[a % Size] = a

Parts == WordType /\ FitInv /\ RequestInv /\ OrderInv /\ MemInv

WordInv == side = "engine" => Parts

(* The conditions of the engine: no stalls and gaps of the endpoint, pages *)
(* of less than two buffers, and no chunk that is a whole one.             *)
EngineSafe ==
  /\ ~Stalls /\ ~Gaps
  /\ \A p \in Pages : p < 2 * Size
  /\ Size \notin Chunks

LEMMA TagFact == Tags \in Nat /\ Tags >= 1 /\ \A t : t \in Tag <=> t \in Nat /\ t < Tags
BY EngineAssumption DEF Tag

LEMMA RankIs ==
  ASSUME target \in Tag, NEW t \in Tag
  PROVE  /\ Rank(t) = IF t >= target THEN t - target ELSE t + Tags - target
         /\ Rank(t) \in Nat /\ Rank(t) < Tags
<1> DEFINE x == t + Tags - target
<1>1. x \in 0 .. 2 * Tags - 1 /\ Tags \in Nat \ {0}
  BY TagFact
<1> HIDE DEF x
<1>2. x % Tags = IF x < Tags THEN x ELSE x - Tags
  BY <1>1, ModOnce
<1> QED
  BY <1>2, TagFact DEF Rank, x

LEMMA RankApart ==
  ASSUME target \in Tag, NEW s \in Tag, NEW t \in Tag, s # t
  PROVE  Rank(s) # Rank(t)
<1> DEFINE x == Rank(s)
           y == Rank(t)
<1>1. /\ x = IF s >= target THEN s - target ELSE s + Tags - target
      /\ y = IF t >= target THEN t - target ELSE t + Tags - target
  BY RankIs
<1> HIDE DEF x, y
<1>2. x # y
  BY <1>1, TagFact
<1> QED
  BY <1>2 DEF x, y

LEMMA NthRank ==
  ASSUME target \in Tag, NEW k \in Nat, k < Tags
  PROVE  (target + k) % Tags \in Tag /\ Rank((target + k) % Tags) = k
<1> DEFINE x == target + k
           y == x % Tags
<1>1. x \in 0 .. 2 * Tags - 1 /\ Tags \in Nat \ {0}
  BY TagFact
<1>2. y = IF x < Tags THEN x ELSE x - Tags
  <2> HIDE DEF x
  <2> QED
    BY <1>1, ModOnce
<1> HIDE DEF y
<1>3. y \in Tag
  BY <1>2, TagFact
<1>4. Rank(y) = IF y >= target THEN y - target ELSE y + Tags - target
  BY <1>3, RankIs
<1>5. Rank(y) = k
  BY <1>2, <1>4, TagFact
<1> QED
  BY <1>3, <1>5 DEF y

(* The oldest request is done: the others move up by one. *)
LEMMA NextRank ==
  ASSUME target \in Tag, target' = (target + 1) % Tags, NEW t \in Tag
  PROVE  /\ target' \in Tag
         /\ Rank(target) = 0
         /\ Rank(t)' = IF t = target THEN Tags - 1 ELSE Rank(t) - 1
<1> DEFINE x == target + 1
           y == Rank(t)
<1>1. x \in 0 .. 2 * Tags - 1 /\ Tags \in Nat \ {0}
  BY TagFact
<1>2. target' = IF x < Tags THEN x ELSE x - Tags
  <2>1. target' = x % Tags
    OBVIOUS
  <2> HIDE DEF x
  <2> QED
    BY <1>1, <2>1, ModOnce
<1>3. target' \in Tag
  BY <1>2, TagFact
<1>4. Rank(t)' = IF t >= target' THEN t - target' ELSE t + Tags - target'
  <2>1. (target \in Tag /\ t \in Tag =>
           Rank(t) = IF t >= target THEN t - target ELSE t + Tags - target)
    BY RankIs
  <2>2. target' \in Tag => (t + Tags - target') % Tags =
           IF t >= target' THEN t - target' ELSE t + Tags - target'
    <3> SUFFICES ASSUME target' \in Tag
                 PROVE  (t + Tags - target') % Tags =
                          IF t >= target' THEN t - target' ELSE t + Tags - target'
      OBVIOUS
    <3> DEFINE z == t + Tags - target'
    <3>1. z \in 0 .. 2 * Tags - 1
      BY TagFact
    <3> HIDE DEF z
    <3>2. z % Tags = IF z < Tags THEN z ELSE z - Tags
      BY <1>1, <3>1, ModOnce
    <3> QED
      BY <3>2, TagFact DEF z
  <2> QED
    BY <1>3, <2>2 DEF Rank
<1>5. y = IF t >= target THEN t - target ELSE t + Tags - target
  BY RankIs
<1> HIDE DEF y
<1>6. Rank(t)' = IF t = target THEN Tags - 1 ELSE y - 1
  BY <1>2, <1>3, <1>4, <1>5, TagFact
<1>7. Rank(target) = 0
  BY RankIs, TagFact
<1> QED
  BY <1>3, <1>6, <1>7 DEF y

-----------------------------------------------------------------------------
LEMMA OffIs ==
  ASSUME rdDone \in Address, NEW a \in Address
  PROVE  /\ Off(a) \in Nat /\ Off(a) < 2 * Size
         /\ Off(a) = IF a >= rdDone THEN a - rdDone ELSE a + 2 * Size - rdDone
         /\ a = Plus(rdDone, Off(a))
BY MinusIs, PlusMinus, SizeFact DEF Off

LEMMA OffPlus ==
  ASSUME rdDone \in Address, NEW a \in Address, NEW k \in Nat, Off(a) + k < 2 * Size
  PROVE  Plus(a, k) \in Address /\ Off(Plus(a, k)) = Off(a) + k
<1> DEFINE m == Off(a)
<1>1. m \in Nat /\ a = Plus(rdDone, m) /\ m + k < 2 * Size
  BY OffIs
<1> HIDE DEF m
<1>2. m + k \in Nat /\ m + k \in 0 .. 2 * Size /\ m + k <= 2 * Size /\ k \in 0 .. 2 * Size
  BY <1>1, SizeFact
<1>3. Plus(a, k) = Plus(rdDone, m + k)
  BY <1>1, <1>2, PlusPlus
<1>4. Minus(Plus(rdDone, m + k), Plus(rdDone, 0)) = m + k - 0
  BY <1>1, <1>2, MinusPlus, SizeFact
<1>5. Off(Plus(a, k)) = m + k
  BY <1>1, <1>2, <1>3, <1>4, PlusZero DEF Off
<1> QED
  BY <1>2, <1>5, PlusIs DEF m

LEMMA OffMinus ==
  ASSUME rdDone \in Address, NEW a \in Address, NEW b \in Address, Off(b) <= Off(a)
  PROVE  Minus(a, b) = Off(a) - Off(b) /\ a = Plus(b, Off(a) - Off(b))
<1> DEFINE j == Off(a)
           k == Off(b)
<1>1. /\ j \in Nat /\ a = Plus(rdDone, j) /\ j < 2 * Size
      /\ k \in Nat /\ b = Plus(rdDone, k) /\ k <= j
  BY OffIs
<1> HIDE DEF j, k
<1>2. Minus(a, b) = j - k
  BY <1>1, MinusPlus
<1>3. a = Plus(b, Minus(a, b))
  BY PlusMinus
<1> QED
  BY <1>2, <1>3 DEF j, k

LEMMA OffApart ==
  ASSUME rdDone \in Address, NEW a \in Address, NEW b \in Address, Off(a) = Off(b)
  PROVE  a = b
BY OffIs

(* An index of the buffer. *)
LEMMA IndexIs ==
  ASSUME NEW a \in Address
  PROVE  a % Size = (IF a < Size THEN a ELSE a - Size) /\ a % Size \in 0 .. Size - 1
<1>1. a \in 0 .. 2 * Size - 1 /\ Size \in Nat \ {0}
  BY SizeFact
<1>2. a % Size = IF a < Size THEN a ELSE a - Size
  BY <1>1, ModOnce
<1> QED
  BY <1>1, <1>2

(* Two words of the buffer have two indices. *)
LEMMA IndexApart ==
  ASSUME rdDone \in Address, NEW a \in Address, NEW b \in Address,
         Off(a) < Size, Off(b) < Size, a % Size = b % Size
  PROVE  a = b
<1> DEFINE j == Off(a)
           k == Off(b)
<1>1. /\ j = IF a >= rdDone THEN a - rdDone ELSE a + 2 * Size - rdDone
      /\ k = IF b >= rdDone THEN b - rdDone ELSE b + 2 * Size - rdDone
      /\ j < Size /\ k < Size
  BY OffIs
<1>2. (IF a < Size THEN a ELSE a - Size) = (IF b < Size THEN b ELSE b - Size)
  BY IndexIs
<1> HIDE DEF j, k
<1> QED
  BY <1>1, <1>2, SizeFact

LEMMA IndexPlus ==
  ASSUME NEW a \in Address, NEW k \in 0 .. Size
  PROVE  (a + k) % Size = Plus(a, k) % Size
<1> DEFINE x == a + k
           y == Plus(a, k)
<1>1. y = (IF x < 2 * Size THEN x ELSE x - 2 * Size) /\ y \in Address
  <2>1. k \in 0 .. 2 * Size
    BY SizeFact
  <2>2. /\ Plus(a, k) = IF a + k < 2 * Size THEN a + k ELSE a + k - 2 * Size
        /\ Plus(a, k) \in Address
    BY <2>1, PlusIs
  <2>3. a \in Nat /\ k \in Nat /\ Size \in Nat
    BY SizeFact
  <2> QED
    BY <2>2, <2>3
<1>2. x \in 0 .. 3 * Size /\ Size \in Nat \ {0}
  BY SizeFact
<1> HIDE DEF x, y
<1>3. y % Size = IF y < Size THEN y ELSE y - Size
  BY <1>1, IndexIs
<1>4. x % Size = y % Size
  BY <1>1, <1>2, <1>3, SizeFact
<1> QED
  BY <1>4 DEF x, y

-----------------------------------------------------------------------------
LEMMA Least ==
  ASSUME NEW S, S \subseteq Nat, S # {}
  PROVE  \E m \in S : \A n \in S : m <= n
<1>1. PICK R : IsWellFoundedOn(R, Nat) /\ \A x, y \in Nat : x < y => <<x, y>> \in R
  <2> DEFINE R == OpToRel(<, Nat)
  <2>1. IsWellFoundedOn(R, Nat)
    BY NatLessThanWellFounded
  <2>2. \A x, y \in Nat : x < y => <<x, y>> \in R
    BY DEF OpToRel
  <2> HIDE DEF R
  <2> QED
    BY <2>1, <2>2
<1>2. PICK m \in S : \A n \in S : <<n, m>> \notin R
  <2>1. /\ IsWellFoundedOn(R, Nat) /\ S \subseteq Nat /\ S # {}
    BY <1>1
  <2>2. \E m \in S : \A n \in Nat : <<n, m>> \in R => n \notin S
    BY ONLY <2>1, WFMin
  <2> QED
    BY <2>2
<1>3. \A n \in S : ~(n < m)
  BY <1>1, <1>2
<1> QED
  BY <1>2, <1>3

(* Sizes that fit are bounded, so that there is a largest one. *)
LEMMA Greatest ==
  ASSUME NEW d \in Nat, NEW S, S \subseteq 0 .. d, S # {}
  PROVE  Max(S) \in S
<1> DEFINE T == {n \in Nat : d - n \in S}
<1>1. T \subseteq Nat /\ T # {}
  <2>1. PICK n \in S : TRUE
    OBVIOUS
  <2>2. d - n \in Nat /\ d - (d - n) = n
    OBVIOUS
  <2> QED
    BY <2>1, <2>2
<1>2. PICK m \in T : \A n \in T : m <= n
  BY <1>1, Least
<1>3. ASSUME NEW n \in S PROVE d - m >= n
  <2>1. d - n \in Nat /\ d - (d - n) = n
    OBVIOUS
  <2>2. d - n \in T
    BY <2>1
  <2> QED
    BY <1>2, <2>1, <2>2
<1> QED
  BY <1>2, <1>3 DEF Max

(* What the highest bit of the sum tells. *)
LEMMA TooManyIs ==
  ASSUME rdDone \in Address, nextWr \in Address, Off(nextWr) <= Size,
         NEW n \in Nat, n <= Size
  PROVE  ~TooMany(n) <=> \/ Off(nextWr) + n < Size
                         \/ Off(nextWr) + n = 2 * Size
<1> DEFINE x == Off(nextWr) + n
           d == 2 * Size
<1>1. x \in 0 .. 2 * d - 1 /\ d \in Nat \ {0} /\ x \in 0 .. d /\ Size \in Nat /\ Size > 0
  BY OffIs, SizeFact
<1> HIDE DEF x, d
<1>2. x % d = IF x < d THEN x ELSE x - d
  BY <1>1, ModOnce
<1>3. TooMany(n) <=> x % d >= Size
  BY DEF TooMany, Off, x, d
<1>4. d = Size + Size
  BY SizeFact DEF d
<1>5. ~(x % d >= Size) <=> x < Size \/ x = d
  BY <1>1, <1>2, <1>4
<1> QED
  BY <1>3, <1>5 DEF x, d

(* The words of a request fit, whatever the sum has no bit for.            *)
LEMMA SizesFit ==
  ASSUME EngineSafe, rdDone \in Address, nextWr \in Address, remaining \in Nat, FitInv,
         remaining # 0, NEW n \in Sizes
  PROVE  /\ n \in 1 .. Size /\ n <= remaining /\ Off(nextWr) + n <= Size
         /\ Off(nextWr) + n = Size => remaining - n \in 1 .. Size - 1
<1> DEFINE fit == {c \in Chunks : ~TooMany(c)}
           o   == Off(nextWr)
<1>1. o \in Nat /\ o <= Size /\ Size \in Nat /\ Size >= 1
  BY OffIs, SizeFact DEF FitInv
<1>2. CASE remaining > Size /\ nextWr = rdDone
  <2>1. n = Size
    BY <1>2 DEF Sizes
  <2>2. o = 0
    BY <1>2, OffIs, SizeFact
  <2> QED
    BY <1>1, <1>2, <2>1, <2>2 DEF FitInv
<1>3. CASE remaining <= Size /\ ~TooMany(remaining)
  <2>1. n = remaining
    BY <1>1, <1>3 DEF Sizes
  <2>2. o + remaining < Size \/ o + remaining = 2 * Size
    BY <1>3, TooManyIs DEF FitInv
  <2>3. o = Size => remaining < Size
    BY <1>1 DEF FitInv
  <2> HIDE DEF o
  <2>4. o + remaining < Size
    BY <1>1, <1>3, <2>2, <2>3
  <2> QED
    BY <1>1, <2>1, <2>4 DEF o
<1>4. CASE /\ ~(remaining > Size /\ nextWr = rdDone)
           /\ ~(remaining <= Size /\ ~TooMany(remaining))
  <2>1. fit # {} /\ n = Max(fit)
    BY <1>4 DEF Sizes
  <2>2. Chunks \subseteq 1 .. Size /\ Size \notin Chunks
    BY EngineAssumption DEF EngineSafe
  <2>3. fit \subseteq 0 .. Size
    <3>1. fit \subseteq Chunks
      OBVIOUS
    <3> HIDE DEF fit
    <3> QED
      BY <2>2, <3>1, <1>1
  <2>4. n \in fit
    <3> HIDE DEF fit
    <3>1. Max(fit) \in fit
      BY <1>1, <2>1, <2>3, Greatest
    <3> QED
      BY <2>1, <3>1
  <2>5. n \in Nat /\ n >= 1 /\ n < Size /\ ~TooMany(n)
    BY <1>1, <2>2, <2>4
  <2>6. o + n < Size \/ o + n = 2 * Size
    <3>1. n \in Nat /\ n <= Size
      BY <1>1, <2>5
    <3>2. Off(nextWr) <= Size
      BY DEF FitInv
    <3> QED
      BY <2>5, <3>1, <3>2, TooManyIs
  <2>7. remaining <= Size => ~(o + remaining < Size)
    BY <1>4, TooManyIs DEF FitInv
  <2> HIDE DEF o, fit
  <2>8. o + n < Size
    BY <1>1, <2>5, <2>6
  <2>9. n <= remaining
    BY <1>1, <2>5, <2>7, <2>8
  <2> QED
    BY <1>1, <2>5, <2>8, <2>9 DEF o
<1> QED
  BY <1>2, <1>3, <1>4

-----------------------------------------------------------------------------
LEMMA TypeFacts ==
  ASSUME WordType
  PROVE  /\ Off(wr) \in Nat /\ Off(nextWr) \in Nat
         /\ \A t \in Tag :
              /\ Off(tlpAddr[t]) \in Nat /\ Stop(t) \in Nat /\ Done(t) \in Nat
              /\ reqSize[t] \in Nat /\ received[t] \in Nat /\ due[t] \in Nat
              /\ Begin(t) \in Int /\ Rest(t) \in Int /\ Piece(t) \in Nat
              /\ Half(t) \in 0 .. 1 /\ Rank(t) \in Nat
<1>1. Off(wr) \in Nat /\ Off(nextWr) \in Nat
  BY OffIs DEF WordType
<1>2. SUFFICES ASSUME NEW t \in Tag
               PROVE  /\ Off(tlpAddr[t]) \in Nat /\ Stop(t) \in Nat /\ Done(t) \in Nat
                      /\ reqSize[t] \in Nat /\ received[t] \in Nat /\ due[t] \in Nat
                      /\ Begin(t) \in Int /\ Rest(t) \in Int /\ Piece(t) \in Nat
                      /\ Half(t) \in 0 .. 1 /\ Rank(t) \in Nat
  BY <1>1
<1>3. Off(tlpAddr[t]) \in Nat /\ Off(wrAddr) \in Nat
  BY OffIs DEF WordType
<1>4. Stop(t) \in Nat
  BY OffIs DEF WordType, Stop
<1>5. Done(t) \in Nat
  BY <1>3 DEF Done
<1>6. reqSize[t] \in Nat /\ received[t] \in Nat /\ due[t] \in Nat
  BY DEF WordType
<1>7. Begin(t) \in Int /\ Rest(t) \in Int /\ Half(t) \in 0 .. 1
  BY <1>4, <1>6 DEF Begin, Rest, Half
<1>8. Piece(t) \in Nat
  BY DEF WordType, Piece
<1>9. Rank(t) \in Nat
  BY RankIs DEF WordType
<1> QED
  BY <1>3, <1>4, <1>5, <1>6, <1>7, <1>8, <1>9

(* What is written for a request is not yet done, and is in no other one.  *)
LEMMA Behind ==
  ASSUME WordType, FitInv, RequestInv, OrderInv,
         NEW t \in Tag, Under(t), NEW b \in Address, Done(t) <= Off(b), Off(b) < Stop(t),
         NEW a \in Address, a % Size = b % Size
  PROVE  /\ ~(Off(a) < Off(wr))
         /\ \A s \in Tag : Under(s) /\ Begin(s) <= Off(a) /\ Off(a) < Stop(s) => s = t
         /\ ~(Begin(t) <= Off(a) /\ Off(a) < Done(t))
<1>1. rdDone \in Address /\ Off(a) \in Nat /\ Off(b) \in Nat /\ Size \in Nat
  BY OffIs, SizeFact DEF WordType
<1>2. /\ Off(wr) \in Nat /\ Off(nextWr) \in Nat /\ Off(wr) <= Off(nextWr)
      /\ Off(nextWr) <= Size
  BY TypeFacts DEF FitInv
<1>3. Stop(t) <= Off(nextWr) /\ Off(wr) <= Done(t) /\ Begin(t) <= Done(t)
  BY DEF OrderInv, RequestInv, Request
<1>4. Stop(t) \in Nat /\ Done(t) \in Nat /\ Begin(t) \in Int
  BY TypeFacts
<1>5. Off(b) < Size
  BY <1>1, <1>2, <1>3, <1>4
<1>6. Off(a) < Size => a = b
  BY <1>1, <1>5, IndexApart
<1>7. ~(Off(a) < Off(wr))
  BY <1>1, <1>2, <1>3, <1>4, <1>6
<1>8. ASSUME NEW s \in Tag, Under(s), Begin(s) <= Off(a), Off(a) < Stop(s)
      PROVE  s = t
  <2>1. Stop(s) <= Off(nextWr) /\ Stop(s) \in Nat /\ Begin(s) \in Int
    BY <1>8, TypeFacts DEF OrderInv
  <2>2. Off(a) = Off(b)
    BY <1>1, <1>2, <1>6, <1>8, <2>1
  <2>3. /\ Rank(s) < Rank(t) => Stop(s) <= Begin(t)
        /\ Rank(t) < Rank(s) => Stop(t) <= Begin(s)
    BY <1>8 DEF OrderInv
  <2>4. Rank(s) \in Nat /\ Rank(t) \in Nat
    BY TypeFacts
  <2>5. Rank(s) = Rank(t)
    BY <1>1, <1>3, <1>4, <1>8, <2>1, <2>2, <2>3, <2>4
  <2> QED
    BY <2>5, RankApart DEF WordType
<1>9. ~(Begin(t) <= Off(a) /\ Off(a) < Done(t))
  <2>1. Done(t) < Size
    BY <1>1, <1>4, <1>5
  <2> QED
    BY <1>1, <1>4, <1>6, <2>1
<1> QED
  BY <1>7, <1>8, <1>9

LEMMA WordAtInit == TransmitInit => WordInv
<1> SUFFICES ASSUME TransmitInit PROVE WordInv
  OBVIOUS
<1>1. Init /\ EngineInit
  BY DEF TransmitInit
<1>2. 0 \in Address /\ 0 \in Tag /\ 0 \in 0 .. Tags /\ Size \in Nat /\ Size >= 1
  BY SizeFact, TagFact
<1>3. WordType
  BY <1>1, <1>2, ConstantsAssumption DEF WordType, Init, EngineInit, Garbage
<1>4. wr = rdDone /\ nextWr = rdDone /\ Off(rdDone) = 0 /\ remaining = 0 /\ open = 0
  BY <1>1, <1>2, OffIs DEF Init, EngineInit
<1>5. FitInv
  BY <1>2, <1>4 DEF FitInv
<1>6. \A t \in Tag : ~Under(t)
  BY <1>3, <1>4, RankIs DEF Under, WordType
<1>7. RequestInv
  BY <1>1, <1>6 DEF RequestInv, Request, EngineInit, Writing
<1>8. OrderInv
  BY <1>4, <1>6 DEF OrderInv
<1>9. MemInv
  BY <1>3, <1>4, <1>6, OffIs DEF MemInv, Written, WordType
<1> QED
  BY <1>3, <1>5, <1>7, <1>8, <1>9 DEF WordInv, Parts

LEMMA StepAskPage ==
  ASSUME EngineSafe, Parts, Keeps(AskPage), UNCHANGED layout
  PROVE  Parts'
<1>1. /\ remaining = 0 /\ remaining' \in Pages
      /\ UNCHANGED <<layout, wr, rdDone, nextWr, open, target, tlpAddr, received, odd,
                     reqSize, ready, due, end, wrFsm, wrTag, dwords, wrAddr, mem>>
  BY DEF Keeps, AskPage, commitVars, tagVars, hostVars, pieceVars
<1>2. WordType'
  BY <1>1, EngineAssumption DEF Parts, WordType
<1>3. \A t \in Tag :
        UNCHANGED <<Under(t), Rank(t), Stop(t), Begin(t), Rest(t), Half(t), Piece(t), Done(t),
                    Writing(t), Off(tlpAddr[t])>>
  BY <1>1 DEF Under, Rank, Stop, Begin, Rest, Half, Piece, Done, Writing, Off
<1>4. UNCHANGED <<Off(wr), Off(nextWr)>>
  BY <1>1 DEF Off
<1>5. FitInv'
  <2>1. remaining' < 2 * Size
    BY <1>1 DEF EngineSafe
  <2>2. Off(nextWr) # Size
    BY <1>1, SizeFact DEF Parts, FitInv
  <2> QED
    BY <1>4, <2>1, <2>2 DEF Parts, FitInv
<1>6. RequestInv'
  BY <1>1, <1>3, <1>4 DEF Parts, RequestInv, Request
<1>7. OrderInv'
  BY <1>1, <1>3, <1>4 DEF Parts, OrderInv
<1>8. MemInv'
  <2>1. \A a \in Address : UNCHANGED Off(a)
    BY <1>1 DEF Off
  <2> QED
    BY <1>1, <1>3, <1>4, <2>1 DEF Parts, MemInv, Written
<1> QED
  BY <1>2, <1>5, <1>6, <1>7, <1>8 DEF Parts

(* The tag of the next request, which no request under way has.            *)
LEMMA NextTag ==
  ASSUME WordType, open < Tags, NEW u, u = (target + open) % Tags
  PROVE  /\ u \in Tag /\ Rank(u) = open /\ ~Under(u)
         /\ \A t \in Tag : Rank(t) < open + 1 <=> Under(t) \/ t = u
<1>1. open \in Nat /\ Tags \in Nat
  BY TagFact DEF WordType
<1>2. u \in Tag /\ Rank(u) = open
  BY <1>1, NthRank DEF WordType
<1>3. ASSUME NEW t \in Tag PROVE Rank(t) < open + 1 <=> Under(t) \/ t = u
  <2>1. Rank(t) \in Nat /\ (t # u => Rank(t) # open)
    BY <1>2, RankIs, RankApart DEF WordType
  <2> QED
    BY <1>1, <1>2, <2>1 DEF Under
<1>4. ~Under(u)
  BY <1>1, <1>2 DEF Under
<1> QED
  BY <1>2, <1>3, <1>4

LEMMA StepAsk ==
  ASSUME EngineSafe, Parts, Keeps(Ask), UNCHANGED layout
  PROVE  Parts'
<1>0. PICK u : u = (target + open) % Tags
  OBVIOUS
<1>1. PICK n \in Sizes :
        /\ remaining # 0 /\ open < Tags
        /\ reqSize' = [reqSize EXCEPT ![u] = n]
        /\ tlpAddr' = [tlpAddr EXCEPT ![u] = nextWr]
        /\ received' = [received EXCEPT ![u] = 0]
        /\ odd' = [odd EXCEPT ![u] = FALSE]
        /\ nextWr' = (nextWr + n) % (2 * Size)
        /\ remaining' = remaining - n
        /\ due' = [due EXCEPT ![u] = 2 * n]
        /\ end' = [end EXCEPT ![u] = nextWr']
        /\ open' = open + 1
        /\ UNCHANGED <<layout, wr, rdDone, target, ready, wrFsm, wrTag, dwords, wrAddr, mem>>
  BY <1>0 DEF Keeps, Ask, EngineSafe, pieceVars
<1>2. u \in Tag /\ Rank(u) = open /\ ~Under(u)
  BY <1>0, <1>1, NextTag DEF Parts
<1>3. \A t \in Tag : Rank(t) < open + 1 <=> Under(t) \/ t = u
  BY <1>0, <1>1, NextTag DEF Parts
<1>4. /\ n \in 1 .. Size /\ n <= remaining /\ Off(nextWr) + n <= Size
      /\ Off(nextWr) + n = Size => remaining - n \in 1 .. Size - 1
  BY <1>1, SizesFit DEF Parts, WordType
<1>5. /\ Off(wr) \in Nat /\ Off(nextWr) \in Nat /\ n \in Nat /\ remaining \in Nat
      /\ Size \in Nat /\ Size >= 1
  <2>1. Off(wr) \in Nat /\ Off(nextWr) \in Nat
    BY TypeFacts DEF Parts
  <2>2. remaining \in Nat /\ Size \in Nat /\ Size >= 1
    BY SizeFact DEF Parts, WordType
  <2> QED
    BY <1>4, <2>1, <2>2
<1>6. nextWr' \in Address /\ Off(nextWr') = Off(nextWr) + n
  <2>1. Off(nextWr) + n < 2 * Size
    BY <1>4, <1>5
  <2>2. nextWr' = Plus(nextWr, n)
    BY <1>1 DEF Plus
  <2> QED
    BY <1>5, <2>1, <2>2, OffPlus DEF Parts, WordType
<1>7. /\ Off(wr)' = Off(wr) /\ Off(nextWr)' = Off(nextWr) + n
      /\ \A a \in Address : Off(a)' = Off(a)
  BY <1>1, <1>6 DEF Off
<1>8. open \in Nat /\ open' \in 0 .. Tags /\ open' = open + 1
  <2>1. open \in 0 .. Tags /\ Tags \in Nat /\ open < Tags /\ open' = open + 1
    BY <1>1, TagFact DEF Parts, WordType
  <2> QED
    BY <2>1
<1>9. WordType'
  <2>1. WordType /\ remaining - n \in Nat /\ 2 * n \in Nat
    BY <1>4, <1>5 DEF Parts
  <2>2. tlpAddr' \in [Tag -> Address] /\ end' \in [Tag -> Address]
    BY <1>1, <1>2, <1>6, <2>1 DEF WordType
  <2>3. received' \in [Tag -> Nat] /\ reqSize' \in [Tag -> Nat] /\ due' \in [Tag -> Nat]
    BY <1>1, <1>2, <1>5, <2>1 DEF WordType
  <2>4. odd' \in [Tag -> BOOLEAN] /\ ready' \in [Tag -> BOOLEAN]
    BY <1>1, <1>2, <2>1 DEF WordType
  <2> QED
    BY <1>1, <1>6, <1>8, <2>1, <2>2, <2>3, <2>4 DEF WordType
<1>10. \A t \in Tag :
         /\ Rank(t)' = Rank(t)
         /\ Under(t)' <=> Under(t) \/ t = u
         /\ Writing(t)' <=> Writing(t)
         /\ ready'[t] = ready[t]
         /\ Piece(t)' = Piece(t)
  BY <1>1, <1>3 DEF Rank, Under, Writing, Piece
<1>11. ASSUME NEW t \in Tag, t # u
       PROVE  /\ Stop(t)' = Stop(t) /\ Begin(t)' = Begin(t) /\ Rest(t)' = Rest(t)
              /\ Half(t)' = Half(t) /\ Done(t)' = Done(t) /\ due'[t] = due[t]
              /\ reqSize'[t] = reqSize[t] /\ received'[t] = received[t]
              /\ Off(tlpAddr[t])' = Off(tlpAddr[t])
  <2>1. /\ end'[t] = end[t] /\ reqSize'[t] = reqSize[t] /\ received'[t] = received[t]
        /\ odd'[t] = odd[t] /\ tlpAddr'[t] = tlpAddr[t] /\ due'[t] = due[t]
        /\ wrAddr' = wrAddr /\ rdDone' = rdDone
    BY <1>1, <1>11 DEF Parts, WordType
  <2> QED
    BY <1>10, <2>1 DEF Stop, Begin, Rest, Half, Done, Off
<1>12. ~Writing(u) /\ ~ready[u]
  BY <1>2 DEF Parts, RequestInv, Request
<1>13. /\ Stop(u)' = Off(nextWr) + n /\ Begin(u)' = Off(nextWr) /\ Rest(u)' = n
       /\ Half(u)' = 0 /\ Done(u)' = Off(nextWr) /\ due'[u] = 2 * n
       /\ reqSize'[u] = n /\ received'[u] = 0 /\ Piece(u)' = 0
       /\ Off(tlpAddr[u])' = Off(nextWr)
  <2>1. /\ end'[u] = nextWr' /\ reqSize'[u] = n /\ received'[u] = 0
        /\ odd'[u] = FALSE /\ tlpAddr'[u] = nextWr /\ due'[u] = 2 * n
    BY <1>1, <1>2 DEF Parts, WordType
  <2>2. ~Writing(u)' /\ rdDone' = rdDone
    BY <1>1, <1>2, <1>10, <1>12
  <2>3. Stop(u)' = Off(nextWr) + n /\ Off(tlpAddr[u])' = Off(nextWr)
    BY <1>6, <2>1, <2>2 DEF Stop, Off
  <2>4. Half(u)' = 0 /\ Piece(u)' = 0 /\ Done(u)' = Off(nextWr)
    BY <2>1, <2>2, <2>3 DEF Half, Piece, Done, Off
  <2>5. Begin(u)' = Off(nextWr) /\ Rest(u)' = n
    BY <1>5, <2>1, <2>3 DEF Begin, Rest
  <2> QED
    BY <2>1, <2>3, <2>4, <2>5
<1>14. FitInv'
  BY <1>1, <1>4, <1>5, <1>7 DEF Parts, FitInv
<1>15. RequestInv'
  <2>1. SUFFICES ASSUME NEW t \in Tag PROVE Request(t)'
    BY DEF RequestInv
  <2>2. CASE t = u
    BY <1>4, <1>5, <1>7, <1>10, <1>12, <1>13, <2>2 DEF Parts, FitInv, Request
  <2>3. CASE t # u
    BY <1>7, <1>10, <1>11, <2>3 DEF Parts, RequestInv, Request
  <2> QED
    BY <2>2, <2>3
<1>16. OrderInv'
  <2>1. open' # 0
    BY <1>8
  <2>2. ASSUME NEW t \in Tag, Under(t)'
        PROVE  /\ Stop(t)' <= Off(nextWr)'
               /\ (Rank(t)' = 0 => Begin(t)' <= Off(wr)')
               /\ (Rank(t)' + 1 = open' => Stop(t)' = Off(nextWr)')
    <3>1. CASE t = u
      <4>1. Rank(u) = 0 => wr = nextWr
        BY <1>2 DEF Parts, OrderInv
      <4> QED
        BY <1>5, <1>7, <1>10, <1>13, <3>1, <4>1
    <3>2. CASE t # u
      <4>1. Under(t) /\ Stop(t) <= Off(nextWr) /\ (Rank(t) = 0 => Begin(t) <= Off(wr))
        BY <1>10, <2>2, <3>2 DEF Parts, OrderInv
      <4>2. Rank(t) \in Nat /\ Rank(t) < open /\ Stop(t) \in Nat
        BY <4>1, TypeFacts DEF Parts, Under
      <4> QED
        BY <1>5, <1>7, <1>8, <1>10, <1>11, <3>2, <4>1, <4>2
    <3> QED
      BY <3>1, <3>2
  <2>3. ASSUME NEW t \in Tag, Under(t)', NEW s \in Tag, Under(s)'
        PROVE  /\ (Rank(s)' < Rank(t)' => Stop(s)' <= Begin(t)')
               /\ (Rank(s)' + 1 = Rank(t)' => Stop(s)' = Begin(t)')
    <3>1. /\ Rank(s) \in Nat /\ Rank(t) \in Nat
          /\ (s # u => Under(s)) /\ (t # u => Under(t))
      BY <1>10, <2>3, TypeFacts DEF Parts
    <3>2. (s # u => Rank(s) < open) /\ (t # u => Rank(t) < open)
      BY <3>1 DEF Under
    <3>3. CASE s = u
      <4>1. ~(Rank(s) < Rank(t)) /\ ~(Rank(s) + 1 = Rank(t))
        BY <1>2, <1>8, <3>1, <3>2, <3>3
      <4> QED
        BY <1>10, <4>1
    <3>4. CASE s # u /\ t = u
      <4>1. Stop(s) <= Off(nextWr) /\ (Rank(s) + 1 = open => Stop(s) = Off(nextWr))
        BY <3>1, <3>4 DEF Parts, OrderInv
      <4> QED
        BY <1>2, <1>10, <1>11, <1>13, <3>4, <4>1
    <3>5. CASE s # u /\ t # u
      <4>1. /\ (Rank(s) < Rank(t) => Stop(s) <= Begin(t))
            /\ (Rank(s) + 1 = Rank(t) => Stop(s) = Begin(t))
        BY <3>1, <3>5 DEF Parts, OrderInv
      <4> QED
        BY <1>10, <1>11, <3>5, <4>1
    <3> QED
      BY <3>3, <3>4, <3>5
  <2> QED
    BY <2>1, <2>2, <2>3 DEF OrderInv
<1>17. MemInv'
  <2>1. SUFFICES ASSUME NEW a \in Address, Written(a)'
                 PROVE  mem'[a % Size] = a
    BY DEF MemInv
  <2>2. Off(a)' = Off(a) /\ Off(a) \in Nat /\ mem' = mem
    BY <1>1, <1>7, OffIs DEF Parts, WordType
  <2>3. \/ Off(a) < Off(wr)
        \/ \E t \in Tag : Under(t) /\ Begin(t) <= Off(a) /\ Off(a) < Done(t)
    <3>1. CASE Off(a)' < Off(wr)'
      BY <1>7, <2>2, <3>1
    <3>2. ASSUME NEW t \in Tag, Under(t)', Begin(t)' <= Off(a)', Off(a)' < Done(t)'
          PROVE  Under(t) /\ Begin(t) <= Off(a) /\ Off(a) < Done(t)
      <4>1. t # u
        BY <1>5, <1>13, <2>2, <3>2
      <4> QED
        BY <1>10, <1>11, <2>2, <3>2, <4>1
    <3> QED
      BY <2>1, <3>1, <3>2 DEF Written
  <2> QED
    BY <2>2, <2>3 DEF Parts, MemInv, Written
<1> QED
  BY <1>9, <1>14, <1>15, <1>16, <1>17 DEF Parts

(* The words that d dwords make, the half that was saved and the one that  *)
(* is saved then.                                                          *)
LEMMA WordsOfIs ==
  ASSUME NEW t \in Tag, odd[t] \in BOOLEAN, NEW d \in Nat,
         NEW h2 \in 0 .. 1, h2 = IF odd[t] # (d % 2 = 1) THEN 1 ELSE 0
  PROVE  /\ WordsOf(t, d) \in Nat /\ 2 * WordsOf(t, d) + h2 = d + Half(t)
         /\ (odd[t] /\ d % 2 = 0) => Half(t) = 1 /\ h2 = 1
<1>1. \E k \in Nat : \E r \in 0 .. 1 : d = 2 * k + r /\ d % 2 = r
  <2> DEFINE k == d \div 2
             r == d % 2
  <2>1. k \in Nat /\ r \in 0 .. 1 /\ d = 2 * k + r
    OBVIOUS
  <2>2. d % 2 = r
    OBVIOUS
  <2> HIDE DEF k, r
  <2> QED
    BY <2>1, <2>2
<1>9. PICK k \in Nat, r \in 0 .. 1 : d = 2 * k + r /\ d % 2 = r
  BY <1>1
<1> DEFINE h == Half(t)
<1>2. h \in 0 .. 1 /\ (odd[t] <=> h = 1)
  BY DEF Half
<1>3. WordsOf(t, d) = (d + h) \div 2
  BY DEF WordsOf, Half
<1> HIDE DEF h
<1>4. /\ (d + h) \div 2 \in Nat /\ (d + h) \div 2 = IF r = 1 /\ h = 1 THEN k + 1 ELSE k
  BY <1>9, <1>2
<1>5. h2 = IF (h = 1) # (r = 1) THEN 1 ELSE 0
  <2>1. (odd[t] # (d % 2 = 1)) <=> ((h = 1) # (r = 1))
    BY <1>9, <1>2
  <2> QED
    BY <2>1
<1>6. WordsOf(t, d) = IF r = 1 /\ h = 1 THEN k + 1 ELSE k
  BY <1>3, <1>4
<1>7. WordsOf(t, d) \in Nat /\ 2 * WordsOf(t, d) + h2 = d + h
  BY <1>9, <1>2, <1>5, <1>6
<1>8. (odd[t] /\ d % 2 = 0) => h = 1 /\ h2 = 1
  BY <1>9, <1>2, <1>5
<1> QED
  BY <1>7, <1>8 DEF h

LEMMA IndicesAre ==
  ASSUME NEW a, NEW n, NEW i, i \in Indices(a, n)
  PROVE  \E k \in 0 .. n - 1 : i = (a + k) % Size
BY Zenon DEF Indices

LEMMA StepPieceBegins ==
  ASSUME EngineSafe, Parts, UNCHANGED <<layout, wr, rdDone>>,
         NEW t \in Tag, NEW d \in Pieces \cup {due[t]}, PieceBegins(t, d)
  PROVE  Parts'
<1> DEFINE n    == WordsOf(t, d)
           half == IF odd[t] /\ d % 2 = 0 THEN 1 ELSE 0
<1>1. /\ wrFsm = "header" /\ due[t] # 0
      /\ d = due[t] \/ d + 1 < due[t]
      /\ ready' = [x \in Tag |-> ready[x] /\ x # t]
      /\ mem' = [i \in DOMAIN mem |->
                   IF i \in Indices(tlpAddr[t], n + half) THEN Garbage ELSE mem[i]]
      /\ tlpAddr' = [tlpAddr EXCEPT ![t] = (@ + n) % (2 * Size)]
      /\ received' = [received EXCEPT ![t] = received[t] + n]
      /\ odd' = [odd EXCEPT ![t] = (@ # (d % 2 = 1))]
      /\ wrFsm' = "words" /\ wrTag' = t /\ dwords' = d /\ wrAddr' = tlpAddr[t]
      /\ UNCHANGED <<remaining, nextWr, open, target, reqSize, due, end>>
  BY DEF PieceBegins, EngineSafe, askVars, commitVars, hostVars, Received
<1>2. WordType /\ FitInv /\ RequestInv /\ OrderInv /\ MemInv
  BY DEF Parts
<1>3. /\ d \in Nat /\ due[t] \in Nat /\ d <= due[t] /\ odd[t] \in BOOLEAN
      /\ tlpAddr[t] \in Address
  BY <1>1, <1>2, EngineAssumption DEF WordType
<1>4. PICK h2 \in 0 .. 1 : h2 = IF odd[t] # (d % 2 = 1) THEN 1 ELSE 0
  OBVIOUS
<1>5. /\ n \in Nat /\ 2 * n + h2 = d + Half(t)
      /\ half = 0 \/ (half = 1 /\ h2 = 1)
      /\ half \in 0 .. 1
  <2>1. /\ n \in Nat /\ 2 * n + h2 = d + Half(t)
        /\ (odd[t] /\ d % 2 = 0) => h2 = 1
    BY <1>3, <1>4, WordsOfIs
  <2>2. half = 0 \/ (half = 1 /\ odd[t] /\ d % 2 = 0)
    OBVIOUS
  <2> QED
    BY <2>1, <2>2
<1> HIDE DEF n, half
<1>6. Under(t) /\ ~Writing(t) /\ Piece(t) = 0 /\ Done(t) = Off(tlpAddr[t])
  BY <1>1, <1>2 DEF RequestInv, Request, Writing, Piece, Done
<1>7. /\ reqSize[t] \in 1 .. Size /\ received[t] <= reqSize[t]
      /\ Off(tlpAddr[t]) + Rest(t) = Stop(t)
      /\ due[t] + Half(t) = 2 * Rest(t)
      /\ Off(wr) <= Done(t) /\ Begin(t) <= Done(t)
  BY <1>2, <1>6, TypeFacts DEF RequestInv, Request
<1>8. /\ Off(wr) \in Nat /\ Off(nextWr) \in Nat
      /\ Off(tlpAddr[t]) \in Nat /\ Stop(t) \in Nat
      /\ reqSize[t] \in Nat /\ received[t] \in Nat
      /\ Begin(t) \in Int /\ Rest(t) \in Int /\ Half(t) \in 0 .. 1
  BY <1>2, TypeFacts
<1>9. n + half <= Rest(t)
  <2>1. Half(t) \in Int /\ n \in Int /\ half \in Int /\ h2 \in Int
    BY <1>5, <1>8
  <2>2. 2 * n + h2 <= 2 * Rest(t)
    <3>1. /\ 2 * n + h2 = d + Half(t) /\ d <= due[t] /\ due[t] + Half(t) = 2 * Rest(t)
          /\ d \in Nat /\ due[t] \in Nat
      BY <1>3, <1>5, <1>7
    <3> QED
      BY <1>8, <2>1, <3>1
  <2>3. half = 0 \/ (half = 1 /\ h2 = 1)
    BY <1>5
  <2> QED
    BY <1>5, <1>8, <2>1, <2>2, <2>3
<1>10. /\ Stop(t) <= Off(nextWr) /\ Off(nextWr) <= Size /\ Size \in Nat /\ Size >= 1
  BY <1>2, <1>6, SizeFact DEF OrderInv, FitInv
<1>11. /\ Plus(tlpAddr[t], n) \in Address
       /\ Off(Plus(tlpAddr[t], n)) = Off(tlpAddr[t]) + n
  <2>1. Off(tlpAddr[t]) + n < 2 * Size
    BY <1>5, <1>7, <1>8, <1>9, <1>10
  <2> QED
    BY <1>2, <1>3, <1>5, <2>1, OffPlus DEF WordType
<1>12. /\ tlpAddr'[t] = Plus(tlpAddr[t], n) /\ received'[t] = received[t] + n
       /\ odd'[t] = (odd[t] # (d % 2 = 1)) /\ ready'[t] = FALSE
  BY <1>1, <1>2 DEF WordType, Plus
<1>13. WordType'
  <2>1. tlpAddr' \in [Tag -> Address]
    <3>1. tlpAddr' = [tlpAddr EXCEPT ![t] = Plus(tlpAddr[t], n)]
      BY <1>1 DEF Plus
    <3> QED
      BY <1>2, <1>11, <3>1 DEF WordType
  <2>2. received' \in [Tag -> Nat]
    BY <1>1, <1>2, <1>5 DEF WordType
  <2>3. odd' \in [Tag -> BOOLEAN]
    <3>1. (odd[t] # (d % 2 = 1)) \in BOOLEAN
      OBVIOUS
    <3> QED
      BY <1>1, <1>2, <3>1 DEF WordType
  <2>4. ready' \in [Tag -> BOOLEAN]
    BY <1>1, <1>2 DEF WordType
  <2>5. mem' \in [0 .. Size - 1 -> Nat]
    BY <1>1, <1>2, <1>10 DEF WordType, Garbage
  <2> QED
    BY <1>1, <1>2, <1>3, <2>1, <2>2, <2>3, <2>4, <2>5 DEF WordType
<1>14. /\ Off(wr)' = Off(wr) /\ Off(nextWr)' = Off(nextWr)
       /\ \A a \in Address : Off(a)' = Off(a)
  BY <1>1 DEF Off
<1>15. \A x \in Tag :
         /\ Rank(x)' = Rank(x) /\ (Under(x)' <=> Under(x)) /\ Stop(x)' = Stop(x)
         /\ Begin(x)' = Begin(x) /\ due'[x] = due[x] /\ reqSize'[x] = reqSize[x]
  BY <1>1 DEF Rank, Under, Stop, Begin, Off
<1>16. ASSUME NEW x \in Tag, x # t
       PROVE  /\ Rest(x)' = Rest(x) /\ Half(x)' = Half(x) /\ Done(x)' = Done(x)
              /\ received'[x] = received[x] /\ Off(tlpAddr[x])' = Off(tlpAddr[x])
              /\ ~Writing(x)' /\ ~Writing(x) /\ Piece(x)' = Piece(x) /\ ready'[x] = ready[x]
  <2>1. /\ received'[x] = received[x] /\ odd'[x] = odd[x] /\ tlpAddr'[x] = tlpAddr[x]
        /\ ready'[x] = ready[x] /\ reqSize' = reqSize
    BY <1>1, <1>2, <1>16 DEF WordType
  <2>2. ~Writing(x)' /\ ~Writing(x)
    BY <1>1, <1>16 DEF Writing
  <2> QED
    BY <2>1, <2>2 DEF Rest, Half, Done, Piece, Off
<1>17. /\ Off(tlpAddr[t])' = Off(tlpAddr[t]) + n /\ Rest(t)' = Rest(t) - n
       /\ Half(t)' = h2 /\ Writing(t)' /\ Piece(t)' = d /\ Done(t)' = Done(t)
  <2>1. Off(tlpAddr[t])' = Off(tlpAddr[t]) + n
    BY <1>11, <1>12 DEF Off
  <2>2. Half(t)' = h2
    BY <1>4, <1>12 DEF Half
  <2>3. Writing(t)' /\ Piece(t)' = d
    BY <1>1 DEF Writing, Piece
  <2>4. Done(t)' = Done(t)
    BY <1>1, <1>6, <2>3 DEF Done, Off
  <2>5. Rest(t)' = Rest(t) - n
    BY <1>1, <1>5, <1>8, <1>12 DEF Rest
  <2> QED
    BY <2>1, <2>2, <2>3, <2>4, <2>5
<1>18. FitInv'
  BY <1>1, <1>2, <1>14 DEF FitInv
<1>19. RequestInv'
  <2>1. SUFFICES ASSUME NEW x \in Tag PROVE Request(x)'
    BY DEF RequestInv
  <2>2. CASE x = t
    <3>1. received'[t] <= reqSize[t]
      BY <1>5, <1>8, <1>9, <1>12 DEF Rest
    <3>2. Off(tlpAddr[t])' + Rest(t)' = Stop(t)'
      BY <1>5, <1>7, <1>8, <1>15, <1>17
    <3>3. due'[t] + Half(t)' = 2 * Rest(t)' + Piece(t)'
      BY <1>3, <1>5, <1>7, <1>8, <1>15, <1>17
    <3>4. Done(t)' <= Off(tlpAddr[t])'
      BY <1>5, <1>6, <1>8, <1>17
    <3> QED
      BY <1>3, <1>6, <1>7, <1>12, <1>14, <1>15, <1>17, <2>2, <3>1, <3>2, <3>3, <3>4
         DEF Request
  <2>3. CASE x # t
    BY <1>2, <1>14, <1>15, <1>16, <2>3 DEF RequestInv, Request
  <2> QED
    BY <2>2, <2>3
<1>20. OrderInv'
  BY <1>1, <1>2, <1>14, <1>15 DEF OrderInv
<1>21. MemInv'
  <2>1. SUFFICES ASSUME NEW a \in Address, Written(a)'
                 PROVE  mem'[a % Size] = a
    BY DEF MemInv
  <2>2. \A s \in Tag : Done(s)' = Done(s)
    BY <1>16, <1>17
  <2>3. \/ Off(a) < Off(wr)
        \/ \E s \in Tag : Under(s) /\ Begin(s) <= Off(a) /\ Off(a) < Done(s)
    BY <1>14, <1>15, <2>1, <2>2 DEF Written
  <2>4. mem[a % Size] = a
    BY <1>2, <2>3 DEF MemInv, Written
  <2>5. a % Size \notin Indices(tlpAddr[t], n + half)
    <3> SUFFICES ASSUME a % Size \in Indices(tlpAddr[t], n + half)
                 PROVE  FALSE
      OBVIOUS
    <3>1. PICK k \in 0 .. n + half - 1 : a % Size = (tlpAddr[t] + k) % Size
      <4>1. n + half \in Nat /\ tlpAddr[t] \in Nat /\ a \in Nat /\ Size \in Nat
        BY <1>3, <1>5, SizeFact
      <4> QED
        BY <1>5, <4>1, IndicesAre
    <3>2. k \in Nat /\ k < Rest(t) /\ k \in 0 .. Size
      BY <3>1, <1>5, <1>7, <1>8, <1>9, <1>10
    <3>3. Off(tlpAddr[t]) + k < 2 * Size /\ Off(tlpAddr[t]) + k < Stop(t)
      BY <1>7, <1>8, <1>10, <3>2
    <3> DEFINE b == Plus(tlpAddr[t], k)
    <3>4. b \in Address /\ Off(b) = Off(tlpAddr[t]) + k
      BY <1>2, <1>3, <3>2, <3>3, OffPlus DEF WordType
    <3>5. a % Size = b % Size
      BY <1>3, <3>1, <3>2, IndexPlus
    <3> HIDE DEF b
    <3>6. Done(t) <= Off(b) /\ Off(b) < Stop(t)
      BY <1>6, <1>8, <3>2, <3>3, <3>4
    <3>7. /\ ~(Off(a) < Off(wr))
          /\ \A s \in Tag : Under(s) /\ Begin(s) <= Off(a) /\ Off(a) < Stop(s) => s = t
          /\ ~(Begin(t) <= Off(a) /\ Off(a) < Done(t))
      BY <1>2, <1>6, <3>4, <3>5, <3>6, Behind
    <3>8. PICK s \in Tag : Under(s) /\ Begin(s) <= Off(a) /\ Off(a) < Done(s)
      BY <2>3, <3>7
    <3>9. /\ Done(s) <= Off(tlpAddr[s]) /\ Off(tlpAddr[s]) + Rest(s) = Stop(s)
          /\ received[s] <= reqSize[s]
      BY <1>2, <3>8 DEF RequestInv, Request
    <3>10. Off(a) < Stop(s)
      <4>1. /\ Rest(s) >= 0 /\ Off(tlpAddr[s]) \in Nat /\ Stop(s) \in Nat /\ Done(s) \in Nat
            /\ Rest(s) \in Int
        BY <1>2, <3>9, TypeFacts DEF Rest
      <4>2. Off(a) \in Nat
        BY <1>2, OffIs DEF WordType
      <4> QED
        BY <3>8, <3>9, <4>1, <4>2
    <3> QED
      BY <3>7, <3>8, <3>10
  <2>6. a % Size \in DOMAIN mem
    BY <1>2, IndexIs DEF WordType
  <2> QED
    BY <1>1, <2>4, <2>5, <2>6
<1> QED
  BY <1>13, <1>18, <1>19, <1>20, <1>21 DEF Parts

(* The words are counted to where the host is. *)
LEMMA ExactIs ==
  ASSUME rdDone \in Address, NEW a \in Address, NEW e \in Address, NEW r \in Nat,
         Off(a) + r = Off(e), Off(e) <= Size,
         NEW p \in 0 .. 1, NEW q \in Nat, q + p = 2 * r
  PROVE  (2 * a + p + q) % (4 * Size) = 2 * e
<1>1. r <= Size /\ Off(a) \in Nat /\ Size \in Nat /\ Size >= 1 /\ a \in Nat /\ a < 2 * Size
  BY OffIs, SizeFact
<1>2. Plus(a, r) \in Address /\ Off(Plus(a, r)) = Off(e)
  <2>1. Off(a) + r < 2 * Size
    BY <1>1, OffIs
  <2> QED
    BY <2>1, OffPlus
<1>3. e = Plus(a, r)
  BY <1>2, OffApart
<1>4. e = IF a + r < 2 * Size THEN a + r ELSE a + r - 2 * Size
  <2>1. r \in 0 .. 2 * Size
    BY <1>1
  <2> QED
    BY <1>3, <2>1, PlusIs
<1> DEFINE x == 2 * a + p + q
           d == 4 * Size
<1>5. x = 2 * (a + r) /\ x \in 0 .. 2 * d - 1 /\ d \in Nat \ {0}
  BY <1>1
<1>6. 2 * e = IF x < d THEN x ELSE x - d
  BY <1>1, <1>4, <1>5
<1> HIDE DEF x, d
<1>7. x % d = IF x < d THEN x ELSE x - d
  BY <1>5, ModOnce
<1> QED
  BY <1>6, <1>7 DEF x, d

LEMMA StepPieceEnds ==
  ASSUME Parts, UNCHANGED <<layout, wr, rdDone>>, PieceEnds
  PROVE  Parts'
<1>0. PICK t : t = wrTag
  OBVIOUS
<1>1. PICK n : n = Minus(tlpAddr[t], wrAddr)
  OBVIOUS
<1>2. PICK exact \in BOOLEAN :
        exact <=> (2 * tlpAddr[t] + (IF odd[t] THEN 1 ELSE 0) + due'[t]) % (4 * Size)
                    = 2 * end[t]
  OBVIOUS
<1>3. /\ wrFsm = "words"
      /\ due' = [due EXCEPT ![t] = @ - dwords]
      /\ mem' = [i \in DOMAIN mem |->
                   IF exact /\ i \in Indices(wrAddr, n)
                   THEN CHOOSE a \in Address : a % Size = i /\ Minus(a, wrAddr) < n
                   ELSE mem[i]]
      /\ ready' = [ready EXCEPT ![t] = TRUE]
      /\ wrFsm' = "header"
      /\ UNCHANGED <<remaining, nextWr, open, target, tlpAddr, received, odd, reqSize, end,
                     wrTag, dwords, wrAddr>>
  BY <1>0, <1>1, <1>2 DEF PieceEnds, askVars, commitVars, tagVars
<1>4. WordType /\ FitInv /\ RequestInv /\ OrderInv /\ MemInv
  BY DEF Parts
<1>5. t \in Tag /\ Writing(t)
  BY <1>0, <1>3, <1>4 DEF WordType, Writing
<1>6. Under(t) /\ Piece(t) = dwords /\ Done(t) = Off(wrAddr)
  BY <1>4, <1>5 DEF RequestInv, Request, Piece, Done
<1>7. /\ reqSize[t] \in 1 .. Size /\ received[t] <= reqSize[t]
      /\ Off(tlpAddr[t]) + Rest(t) = Stop(t)
      /\ due[t] + Half(t) = 2 * Rest(t) + dwords /\ dwords <= due[t]
      /\ Off(wr) <= Done(t) /\ Begin(t) <= Done(t) /\ Done(t) <= Off(tlpAddr[t])
  BY <1>4, <1>5, <1>6 DEF RequestInv, Request
<1>8. /\ Off(wr) \in Nat /\ Off(nextWr) \in Nat /\ Done(t) \in Nat
      /\ Off(tlpAddr[t]) \in Nat /\ Stop(t) \in Nat /\ due[t] \in Nat
      /\ reqSize[t] \in Nat /\ received[t] \in Nat
      /\ Begin(t) \in Int /\ Rest(t) \in Int /\ Half(t) \in 0 .. 1
  BY <1>4, <1>5, TypeFacts
<1>9. /\ dwords \in Nat /\ rdDone \in Address /\ tlpAddr[t] \in Address
      /\ end[t] \in Address /\ wrAddr \in Address
  BY <1>4, <1>5 DEF WordType
<1>10. Rest(t) \in Nat /\ due[t] - dwords \in Nat /\ due'[t] = due[t] - dwords
  <2>1. due'[t] = due[t] - dwords
    BY <1>3, <1>4, <1>5 DEF WordType
  <2>2. Rest(t) >= 0
    BY <1>7, <1>8 DEF Rest
  <2> QED
    BY <1>7, <1>8, <1>9, <2>1, <2>2
<1>11. Stop(t) <= Off(nextWr) /\ Off(nextWr) <= Size /\ Size \in Nat /\ Size >= 1
  BY <1>4, <1>5, <1>6, SizeFact DEF OrderInv, FitInv
<1>12. exact
  <2>1. PICK q \in Nat : q = due'[t] /\ q + Half(t) = 2 * Rest(t)
    BY <1>7, <1>8, <1>9, <1>10
  <2>2. Off(tlpAddr[t]) + Rest(t) = Off(end[t]) /\ Off(end[t]) <= Size
    BY <1>7, <1>8, <1>11 DEF Stop
  <2>3. (2 * tlpAddr[t] + Half(t) + q) % (4 * Size) = 2 * end[t]
    BY <1>8, <1>9, <1>10, <2>1, <2>2, ExactIs
  <2> QED
    BY <1>2, <2>1, <2>3 DEF Half
<1>13. n = Off(tlpAddr[t]) - Off(wrAddr) /\ n \in Nat
  BY <1>1, <1>6, <1>7, <1>8, <1>9, OffMinus
<1>14. /\ Off(wr)' = Off(wr) /\ Off(nextWr)' = Off(nextWr)
       /\ \A a \in Address : Off(a)' = Off(a)
  BY <1>3 DEF Off
<1>15. \A x \in Tag :
         /\ Rank(x)' = Rank(x) /\ (Under(x)' <=> Under(x)) /\ Stop(x)' = Stop(x)
         /\ Begin(x)' = Begin(x) /\ reqSize'[x] = reqSize[x]
         /\ Rest(x)' = Rest(x) /\ Half(x)' = Half(x) /\ received'[x] = received[x]
         /\ Off(tlpAddr[x])' = Off(tlpAddr[x]) /\ ~Writing(x)' /\ Piece(x)' = 0
  BY <1>3 DEF Rank, Under, Stop, Begin, Rest, Half, Off, Writing, Piece
<1>16. ASSUME NEW x \in Tag, x # t
       PROVE  /\ ready'[x] = ready[x] /\ due'[x] = due[x] /\ ~Writing(x) /\ Piece(x) = 0
              /\ Done(x)' = Done(x)
  <2>1. ready'[x] = ready[x] /\ due'[x] = due[x]
    BY <1>3, <1>4, <1>16 DEF WordType
  <2>2. ~Writing(x) /\ Piece(x) = 0
    BY <1>0, <1>16 DEF Writing, Piece
  <2> QED
    BY <1>3, <1>15, <2>1, <2>2 DEF Done, Off
<1>17. Done(t)' = Off(tlpAddr[t])
  BY <1>3, <1>5, <1>15 DEF Done, Off
<1>18. WordType'
  <2>1. ready' \in [Tag -> BOOLEAN]
    BY <1>3, <1>4 DEF WordType
  <2>2. due' \in [Tag -> Nat]
    BY <1>3, <1>4, <1>10 DEF WordType
  <2>3. mem' \in [0 .. Size - 1 -> Nat]
    <3>1. ASSUME NEW i \in 0 .. Size - 1, i \in Indices(wrAddr, n)
          PROVE  (CHOOSE a \in Address : a % Size = i /\ Minus(a, wrAddr) < n) \in Nat
      <4>1. PICK k \in 0 .. n - 1 : i = (wrAddr + k) % Size
        BY <1>9, <1>13, <3>1, IndicesAre, SizeFact
      <4>2. /\ k \in Nat /\ k < n /\ k \in 0 .. Size /\ Off(wrAddr) + k < 2 * Size
            /\ Off(wrAddr) \in Nat
        BY <1>6, <1>7, <1>8, <1>10, <1>11, <1>13
      <4>3. PICK b \in Address : b = Plus(wrAddr, k) /\ Off(b) = Off(wrAddr) + k
        BY <1>9, <4>2, OffPlus
      <4>4. b % Size = i
        BY <1>9, <4>1, <4>2, <4>3, IndexPlus
      <4>5. Minus(b, wrAddr) < n
        BY <1>9, <4>2, <4>3, OffMinus
      <4>6. (CHOOSE a \in Address : a % Size = i /\ Minus(a, wrAddr) < n) \in Address
        BY <4>4, <4>5
      <4> QED
        BY <4>6, SizeFact
    <3>2. mem' = [i \in 0 .. Size - 1 |->
                    IF i \in Indices(wrAddr, n)
                    THEN CHOOSE a \in Address : a % Size = i /\ Minus(a, wrAddr) < n
                    ELSE mem[i]]
      BY <1>3, <1>4, <1>12 DEF WordType
    <3>3. \A i \in 0 .. Size - 1 : mem[i] \in Nat
      BY <1>4 DEF WordType
    <3> QED
      BY <3>1, <3>2, <3>3
  <2> QED
    BY <1>3, <1>4, <2>1, <2>2, <2>3 DEF WordType
<1>19. FitInv'
  BY <1>3, <1>4, <1>14 DEF FitInv
<1>20. RequestInv'
  <2>1. SUFFICES ASSUME NEW x \in Tag PROVE Request(x)'
    BY DEF RequestInv
  <2>2. CASE x = t
    <3>1. due'[t] + Half(t)' = 2 * Rest(t)' + Piece(t)' /\ Piece(t)' <= due'[t]
      BY <1>5, <1>7, <1>8, <1>9, <1>10, <1>15
    <3>2. Begin(t)' <= Done(t)' /\ Off(wr)' <= Done(t)' /\ Done(t)' <= Off(tlpAddr[t])'
      BY <1>5, <1>7, <1>8, <1>14, <1>15, <1>17
    <3> QED
      BY <1>5, <1>6, <1>7, <1>15, <2>2, <3>1, <3>2 DEF Request
  <2>3. CASE x # t
    BY <1>4, <1>14, <1>15, <1>16, <2>3 DEF RequestInv, Request
  <2> QED
    BY <2>2, <2>3
<1>21. OrderInv'
  BY <1>3, <1>4, <1>14, <1>15 DEF OrderInv
<1>22. MemInv'
  <2>1. SUFFICES ASSUME NEW a \in Address, Written(a)' PROVE mem'[a % Size] = a
    BY DEF MemInv
  <2>2. Off(a)' = Off(a) /\ Off(a) \in Nat /\ a % Size \in 0 .. Size - 1
    BY <1>9, <1>14, OffIs, IndexIs
  <2>3. Written(a) \/ (Off(wrAddr) <= Off(a) /\ Off(a) < Off(tlpAddr[t]))
    <3>1. CASE Off(a)' < Off(wr)'
      BY <1>14, <2>2, <3>1 DEF Written
    <3>2. ASSUME NEW s \in Tag, Under(s)', Begin(s)' <= Off(a)', Off(a)' < Done(s)'
          PROVE  Written(a) \/ (Off(wrAddr) <= Off(a) /\ Off(a) < Off(tlpAddr[t]))
      <4>1. Under(s) /\ Begin(s) <= Off(a)
        BY <1>15, <2>2, <3>2
      <4>2. CASE s # t
        BY <1>16, <2>2, <3>2, <4>1, <4>2 DEF Written
      <4>3. CASE s = t
        <5>1. Off(a) < Off(tlpAddr[t])
          BY <1>17, <2>2, <3>2, <4>3
        <5>2. Off(a) < Done(t) => Written(a)
          BY <4>1, <4>3 DEF Written
        <5> QED
          BY <1>6, <1>8, <2>2, <5>1, <5>2
      <4> QED
        BY <4>2, <4>3
    <3> QED
      BY <2>1, <3>1, <3>2 DEF Written
  <2>4. mem'[a % Size] = IF a % Size \in Indices(wrAddr, n)
                         THEN CHOOSE b \in Address :
                                b % Size = a % Size /\ Minus(b, wrAddr) < n
                         ELSE mem[a % Size]
    <3>1. mem' = [i \in 0 .. Size - 1 |->
                    IF i \in Indices(wrAddr, n)
                    THEN CHOOSE b \in Address : b % Size = i /\ Minus(b, wrAddr) < n
                    ELSE mem[i]]
      BY <1>3, <1>4, <1>12 DEF WordType
    <3> QED
      BY <2>2, <3>1, Zenon
  <2>5. ASSUME a % Size \in Indices(wrAddr, n)
        PROVE  \E b \in Address : /\ b % Size = a % Size /\ Off(wrAddr) <= Off(b)
                                  /\ Off(b) < Off(tlpAddr[t]) /\ Minus(b, wrAddr) < n
    <3>1. PICK k \in 0 .. n - 1 : a % Size = (wrAddr + k) % Size
      BY <1>9, <1>13, <2>5, IndicesAre, SizeFact
    <3>2. /\ k \in Nat /\ k < n /\ k \in 0 .. Size /\ Off(wrAddr) + k < 2 * Size
          /\ Off(wrAddr) \in Nat
      BY <1>6, <1>7, <1>8, <1>10, <1>11, <1>13
    <3>3. PICK b \in Address : b = Plus(wrAddr, k) /\ Off(b) = Off(wrAddr) + k
      BY <1>9, <3>2, OffPlus
    <3>4. b % Size = a % Size
      BY <1>9, <3>1, <3>2, <3>3, IndexPlus
    <3>5. Minus(b, wrAddr) < n
      BY <1>9, <3>2, <3>3, OffMinus
    <3>6. Off(wrAddr) <= Off(b) /\ Off(b) < Off(tlpAddr[t])
      BY <1>8, <1>13, <3>2, <3>3
    <3> QED
      BY <3>4, <3>5, <3>6
  <2>6. CASE Off(wrAddr) <= Off(a) /\ Off(a) < Off(tlpAddr[t])
    <3>1. Minus(a, wrAddr) = Off(a) - Off(wrAddr) /\ a = Plus(wrAddr, Off(a) - Off(wrAddr))
      BY <1>9, <2>6, OffMinus
    <3>2. PICK k \in Nat : k = Off(a) - Off(wrAddr) /\ k < n /\ k \in 0 .. Size
      BY <1>6, <1>7, <1>8, <1>10, <1>11, <1>13, <2>2, <2>6
    <3>3. a % Size \in Indices(wrAddr, n)
      <4>1. a % Size = (wrAddr + k) % Size
        BY <1>9, <3>1, <3>2, IndexPlus
      <4>2. k \in 0 .. n - 1
        BY <1>13, <3>2
      <4> QED
        BY <4>1, <4>2 DEF Indices
    <3>4. a % Size = a % Size /\ Minus(a, wrAddr) < n
      BY <3>1, <3>2
    <3>5. ASSUME NEW b \in Address, b % Size = a % Size, Minus(b, wrAddr) < n
          PROVE  b = a
      <4>1. PICK m : m = Minus(b, wrAddr)
        OBVIOUS
      <4>2. m \in Nat /\ m < n /\ b = Plus(wrAddr, m)
        BY <1>9, <3>5, <4>1, MinusIs, PlusMinus, SizeFact
      <4>3. Off(wrAddr) + m < Size /\ Off(a) < Size
        BY <1>6, <1>7, <1>8, <1>10, <1>11, <1>13, <2>2, <2>6, <4>2
      <4>4. Off(b) = Off(wrAddr) + m
        <5>1. Off(wrAddr) + m < 2 * Size
          BY <1>6, <1>8, <1>11, <4>2, <4>3
        <5> QED
          BY <1>9, <4>2, <5>1, OffPlus
      <4> QED
        BY <1>9, <3>5, <4>3, <4>4, IndexApart
    <3>6. (CHOOSE b \in Address : b % Size = a % Size /\ Minus(b, wrAddr) < n) = a
      BY <3>4, <3>5
    <3> QED
      BY <2>4, <3>3, <3>6
  <2>7. CASE Written(a) /\ ~(Off(wrAddr) <= Off(a) /\ Off(a) < Off(tlpAddr[t]))
    <3>1. a % Size \notin Indices(wrAddr, n)
      <4> SUFFICES ASSUME a % Size \in Indices(wrAddr, n) PROVE FALSE
        OBVIOUS
      <4>1. PICK b \in Address : /\ b % Size = a % Size /\ Off(wrAddr) <= Off(b)
                                 /\ Off(b) < Off(tlpAddr[t])
        BY <2>5
      <4>2. Done(t) <= Off(b) /\ Off(b) < Stop(t) /\ Off(b) \in Nat
        BY <1>6, <1>7, <1>8, <1>9, <1>10, <4>1, OffIs
      <4>3. /\ ~(Off(a) < Off(wr))
            /\ \A s \in Tag : Under(s) /\ Begin(s) <= Off(a) /\ Off(a) < Stop(s) => s = t
            /\ ~(Begin(t) <= Off(a) /\ Off(a) < Done(t))
        BY <1>4, <1>5, <1>6, <4>1, <4>2, Behind
      <4>4. PICK s \in Tag : Under(s) /\ Begin(s) <= Off(a) /\ Off(a) < Done(s)
        BY <2>7, <4>3 DEF Written
      <4>5. /\ Done(s) <= Off(tlpAddr[s]) /\ Off(tlpAddr[s]) + Rest(s) = Stop(s)
            /\ received[s] <= reqSize[s]
        BY <1>4, <4>4 DEF RequestInv, Request
      <4>6. Off(a) < Stop(s)
        <5>1. /\ Rest(s) >= 0 /\ Off(tlpAddr[s]) \in Nat /\ Stop(s) \in Nat
              /\ Done(s) \in Nat /\ Rest(s) \in Int
          BY <1>4, <4>5, TypeFacts DEF Rest
        <5> QED
          BY <2>2, <4>4, <4>5, <5>1
      <4> QED
        BY <4>3, <4>4, <4>6
    <3>2. mem[a % Size] = a
      BY <1>4, <2>7 DEF MemInv
    <3> QED
      BY <2>4, <3>1, <3>2
  <2> QED
    BY <2>3, <2>6, <2>7
<1> QED
  BY <1>18, <1>19, <1>20, <1>21, <1>22 DEF Parts

LEMMA StepCommitWords ==
  ASSUME Parts, UNCHANGED layout, CommitWords
  PROVE  Parts'
<1>0. PICK u : u = target
  OBVIOUS
<1>1. /\ ready[u] /\ wr' = tlpAddr[u]
      /\ IF received[u] = reqSize[u]
         THEN /\ target' = (target + 1) % Tags /\ open' = open - 1
              /\ ready' = [ready EXCEPT ![u] = FALSE]
         ELSE UNCHANGED <<target, open, ready>>
      /\ UNCHANGED <<rdDone, remaining, nextWr, tlpAddr, received, odd, reqSize, due, end,
                     wrFsm, wrTag, dwords, wrAddr, mem>>
  BY <1>0 DEF CommitWords, askVars, tagVars, hostVars, pieceVars
<1>2. WordType /\ FitInv /\ RequestInv /\ OrderInv /\ MemInv
  BY DEF Parts
<1>3. u \in Tag /\ Rank(u) = 0
  BY <1>0, <1>2, RankIs, TagFact DEF WordType
<1>4. Under(u) /\ ~Writing(u) /\ Piece(u) = 0 /\ Done(u) = Off(tlpAddr[u])
  BY <1>1, <1>2, <1>3 DEF RequestInv, Request, Piece, Done
<1>5. open \in Nat /\ open >= 1 /\ open <= Tags /\ Tags \in Nat
  BY <1>2, <1>3, <1>4, TagFact DEF Under, WordType
<1>6. /\ reqSize[u] \in 1 .. Size /\ received[u] <= reqSize[u]
      /\ Off(tlpAddr[u]) + Rest(u) = Stop(u)
      /\ due[u] + Half(u) = 2 * Rest(u)
      /\ Off(wr) <= Done(u) /\ Begin(u) <= Done(u)
      /\ Stop(u) <= Off(nextWr) /\ Begin(u) <= Off(wr)
  BY <1>2, <1>3, <1>4, TypeFacts DEF RequestInv, Request, OrderInv
<1>7. /\ Off(wr) \in Nat /\ Off(nextWr) \in Nat /\ Done(u) \in Nat
      /\ Off(tlpAddr[u]) \in Nat /\ Stop(u) \in Nat /\ due[u] \in Nat
      /\ reqSize[u] \in Nat /\ received[u] \in Nat
      /\ Begin(u) \in Int /\ Rest(u) \in Int /\ Half(u) \in 0 .. 1
  BY <1>2, <1>3, TypeFacts
<1>8. /\ Off(wr)' = Off(tlpAddr[u]) /\ Off(nextWr)' = Off(nextWr)
      /\ \A a \in Address : Off(a)' = Off(a)
  BY <1>1 DEF Off
<1>9. Off(wr) <= Off(wr)' /\ Off(wr)' <= Stop(u) /\ Off(wr)' \in Nat
  <2>1. Rest(u) >= 0
    BY <1>6, <1>7 DEF Rest
  <2> QED
    BY <1>4, <1>6, <1>7, <1>8, <2>1
<1>10. \A x \in Tag :
         /\ Stop(x)' = Stop(x) /\ Begin(x)' = Begin(x) /\ reqSize'[x] = reqSize[x]
         /\ Rest(x)' = Rest(x) /\ Half(x)' = Half(x) /\ received'[x] = received[x]
         /\ Off(tlpAddr[x])' = Off(tlpAddr[x]) /\ (Writing(x)' <=> Writing(x))
         /\ Piece(x)' = Piece(x) /\ Done(x)' = Done(x) /\ due'[x] = due[x]
  BY <1>1 DEF Stop, Begin, Rest, Half, Off, Writing, Piece, Done
(* The other requests are behind this one. *)
<1>11. ASSUME NEW x \in Tag, Under(x), x # u
       PROVE  /\ Stop(u) <= Begin(x) /\ (Rank(x) = 1 => Stop(u) = Begin(x))
              /\ Begin(x) <= Done(x) /\ Done(x) \in Nat /\ Begin(x) \in Int
              /\ Rank(x) \in Nat /\ Rank(x) # 0
  <2>1. Rank(x) \in Nat /\ Rank(x) # 0
    BY <1>2, <1>3, <1>11, RankApart, TypeFacts DEF WordType
  <2>2. Rank(u) < Rank(x) /\ (Rank(x) = 1 => Rank(u) + 1 = Rank(x))
    BY <1>3, <2>1
  <2>3. Stop(u) <= Begin(x) /\ (Rank(x) = 1 => Stop(u) = Begin(x))
    BY <1>2, <1>3, <1>4, <1>11, <2>2 DEF OrderInv
  <2>4. Begin(x) <= Done(x)
    BY <1>2, <1>11 DEF RequestInv, Request
  <2>5. Done(x) \in Nat /\ Begin(x) \in Int
    BY <1>2, TypeFacts
  <2> QED
    BY <2>1, <2>3, <2>4, <2>5
<1>12. ASSUME NEW x \in Tag, Under(x)
       PROVE  Off(wr)' <= Done(x)'
  <2>1. CASE x = u
    BY <1>4, <1>7, <1>8, <1>10, <2>1
  <2>2. CASE x # u
    BY <1>7, <1>9, <1>10, <1>11, <1>12, <2>2
  <2> QED
    BY <2>1, <2>2
<1>13. FitInv'
  <2>1. Off(wr)' <= Off(nextWr)'
    BY <1>6, <1>7, <1>8, <1>9
  <2> QED
    BY <1>1, <1>2, <1>8, <2>1 DEF FitInv
<1>14. MemInv' /\ WordType' /\ RequestInv' /\ OrderInv'
  <2>1. CASE received[u] = reqSize[u]
    <3>1. /\ target' = (target + 1) % Tags /\ open' = open - 1
          /\ ready' = [ready EXCEPT ![u] = FALSE]
      BY <1>1, <2>1
    <3>2. Rest(u) = 0 /\ due[u] = 0 /\ Off(wr)' = Stop(u)
      <4>1. Rest(u) = 0
        BY <1>7, <2>1 DEF Rest
      <4> QED
        BY <1>6, <1>7, <1>8, <4>1
    <3>3. /\ target' \in Tag
          /\ \A x \in Tag : Rank(x)' = IF x = u THEN Tags - 1 ELSE Rank(x) - 1
      BY <1>0, <1>2, <3>1, NextRank DEF WordType
    <3>4. ASSUME NEW x \in Tag
          PROVE  /\ Under(x)' <=> Under(x) /\ x # u
                 /\ (x # u => ready'[x] = ready[x])
      <4>1. Rank(x) \in Nat
        BY <1>2, TypeFacts
      <4>2. x = u => ~Under(x)'
        BY <1>5, <3>1, <3>3 DEF Under
      <4>3. x # u => (Under(x)' <=> Under(x))
        BY <1>5, <3>1, <3>3, <4>1 DEF Under
      <4>4. x # u => ready'[x] = ready[x]
        BY <1>2, <3>1 DEF WordType
      <4> QED
        BY <4>2, <4>3, <4>4
    <3>5. WordType'
      <4>1. ready' \in [Tag -> BOOLEAN] /\ wr' \in Address
        BY <1>1, <1>2, <1>3, <3>1 DEF WordType
      <4>2. open' \in 0 .. Tags
        BY <1>5, <3>1
      <4> QED
        BY <1>1, <1>2, <3>3, <4>1, <4>2 DEF WordType
    <3>6. RequestInv'
      <4>1. SUFFICES ASSUME NEW x \in Tag PROVE Request(x)'
        BY DEF RequestInv
      <4>2. CASE x = u
        <5>1. ~Under(u)' /\ due'[u] = 0 /\ ~ready'[u] /\ ~Writing(u)'
          BY <1>2, <1>3, <1>4, <1>10, <3>1, <3>2, <3>4 DEF WordType
        <5> QED
          BY <4>2, <5>1 DEF Request
      <4>3. CASE x # u
        BY <1>2, <1>10, <1>12, <3>4, <4>3 DEF RequestInv, Request
      <4> QED
        BY <4>2, <4>3
    <3>7. OrderInv'
      <4>1. ASSUME open' = 0 PROVE wr' = nextWr'
        <5>1. Rank(u) + 1 = open
          BY <1>3, <1>5, <3>1, <4>1
        <5>2. Stop(u) = Off(nextWr)
          BY <1>2, <1>3, <1>4, <5>1 DEF OrderInv
        <5>3. Off(tlpAddr[u]) = Off(nextWr)
          BY <1>8, <3>2, <5>2
        <5> QED
          BY <1>1, <1>2, <1>3, <5>3, OffApart DEF WordType
      <4>2. ASSUME NEW t \in Tag, Under(t)'
            PROVE  /\ Stop(t)' <= Off(nextWr)'
                   /\ (Rank(t)' = 0 => Begin(t)' <= Off(wr)')
                   /\ (Rank(t)' + 1 = open' => Stop(t)' = Off(nextWr)')
        <5>1. Under(t) /\ t # u /\ Rank(t)' = Rank(t) - 1 /\ Rank(t) \in Nat
          BY <1>2, <3>3, <3>4, <4>2, TypeFacts
        <5>2. Rank(t)' = 0 => Begin(t) = Stop(u)
          BY <1>11, <5>1
        <5>3. Rank(t)' + 1 = open' => Rank(t) + 1 = open
          BY <1>5, <3>1, <5>1
        <5>4. Stop(t) <= Off(nextWr) /\ (Rank(t) + 1 = open => Stop(t) = Off(nextWr))
          BY <1>2, <5>1 DEF OrderInv
        <5>5. Rank(t)' = 0 => Begin(t)' <= Off(wr)'
          BY <1>7, <1>10, <3>2, <5>2
        <5> QED
          BY <1>8, <1>10, <5>3, <5>4, <5>5
      <4>3. ASSUME NEW t \in Tag, Under(t)', NEW s \in Tag, Under(s)'
            PROVE  /\ (Rank(s)' < Rank(t)' => Stop(s)' <= Begin(t)')
                   /\ (Rank(s)' + 1 = Rank(t)' => Stop(s)' = Begin(t)')
        <5>1. /\ Under(t) /\ t # u /\ Rank(t)' = Rank(t) - 1 /\ Rank(t) \in Nat
              /\ Under(s) /\ s # u /\ Rank(s)' = Rank(s) - 1 /\ Rank(s) \in Nat
          BY <1>2, <3>3, <3>4, <4>3, TypeFacts
        <5>2. /\ (Rank(s)' < Rank(t)' => Rank(s) < Rank(t))
              /\ (Rank(s)' + 1 = Rank(t)' => Rank(s) + 1 = Rank(t))
          BY <5>1
        <5>3. /\ (Rank(s) < Rank(t) => Stop(s) <= Begin(t))
              /\ (Rank(s) + 1 = Rank(t) => Stop(s) = Begin(t))
          BY <1>2, <5>1 DEF OrderInv
        <5> QED
          BY <1>10, <5>2, <5>3
      <4> QED
        BY <4>1, <4>2, <4>3 DEF OrderInv
    <3>8. MemInv'
      <4>1. SUFFICES ASSUME NEW a \in Address, Written(a)' PROVE mem'[a % Size] = a
        BY DEF MemInv
      <4>2. Off(a)' = Off(a) /\ Off(a) \in Nat
        BY <1>2, <1>8, OffIs DEF WordType
      <4>3. Off(a)' < Off(wr)' => Written(a)
        BY <1>3, <1>4, <1>6, <1>7, <1>8, <4>2 DEF Written
      <4>4. ASSUME NEW s \in Tag, Under(s)', Begin(s)' <= Off(a)', Off(a)' < Done(s)'
            PROVE  Written(a)
        BY <1>10, <3>4, <4>2, <4>4 DEF Written
      <4> QED
        BY <1>1, <1>2, <4>1, <4>3, <4>4 DEF Written, MemInv
    <3> QED
      BY <3>5, <3>6, <3>7, <3>8
  <2>2. CASE received[u] # reqSize[u]
    <3>1. UNCHANGED <<target, open, ready>>
      BY <1>1, <2>2
    <3>2. \A x \in Tag : /\ Rank(x)' = Rank(x) /\ (Under(x)' <=> Under(x))
                         /\ ready'[x] = ready[x]
      BY <3>1 DEF Rank, Under
    <3>3. WordType'
      <4>1. wr' \in Address
        BY <1>1, <1>2, <1>3 DEF WordType
      <4> QED
        BY <1>1, <1>2, <3>1, <4>1 DEF WordType
    <3>4. RequestInv'
      <4>1. SUFFICES ASSUME NEW x \in Tag PROVE Request(x)'
        BY DEF RequestInv
      <4> QED
        BY <1>2, <1>10, <1>12, <3>2 DEF RequestInv, Request
    <3>5. OrderInv'
      <4>1. open' # 0
        BY <1>5, <3>1
      <4>2. ASSUME NEW x \in Tag, Under(x), Rank(x) = 0 PROVE Begin(x)' <= Off(wr)'
        <5>1. x = u
          BY <1>11, <4>2
        <5> QED
          BY <1>4, <1>6, <1>8, <1>10, <5>1
      <4>3. \A x \in Tag : Under(x)' =>
              /\ Stop(x)' <= Off(nextWr)'
              /\ (Rank(x)' = 0 => Begin(x)' <= Off(wr)')
              /\ (Rank(x)' + 1 = open' => Stop(x)' = Off(nextWr)')
        BY <1>2, <1>8, <1>10, <3>1, <3>2, <4>2 DEF OrderInv
      <4>4. \A x \in Tag : Under(x)' => \A s \in Tag : Under(s)' =>
              /\ (Rank(s)' < Rank(x)' => Stop(s)' <= Begin(x)')
              /\ (Rank(s)' + 1 = Rank(x)' => Stop(s)' = Begin(x)')
        BY <1>2, <1>10, <3>2 DEF OrderInv
      <4> QED
        BY <4>1, <4>3, <4>4 DEF OrderInv
    <3>6. MemInv'
      <4>1. SUFFICES ASSUME NEW a \in Address, Written(a)' PROVE mem'[a % Size] = a
        BY DEF MemInv
      <4>2. Off(a)' = Off(a) /\ Off(a) \in Nat
        BY <1>2, <1>8, OffIs DEF WordType
      <4>3. Off(a)' < Off(wr)' => Written(a)
        BY <1>3, <1>4, <1>6, <1>7, <1>8, <4>2 DEF Written
      <4>4. ASSUME NEW s \in Tag, Under(s)', Begin(s)' <= Off(a)', Off(a)' < Done(s)'
            PROVE  Written(a)
        BY <1>10, <3>2, <4>2, <4>4 DEF Written
      <4> QED
        BY <1>1, <1>2, <4>1, <4>3, <4>4 DEF Written, MemInv
    <3> QED
      BY <3>3, <3>4, <3>5, <3>6
  <2> QED
    BY <2>1, <2>2
<1> QED
  BY <1>13, <1>14 DEF Parts

LEMMA ModIn == ASSUME NEW d \in Nat \ {0}, NEW x \in Nat PROVE x % d \in 0 .. d - 1
OBVIOUS

(* Words are given back: what is in use is so much nearer.                 *)
LEMMA StepMacReleases ==
  ASSUME Parts, UNCHANGED layout, MacReleases
  PROVE  Parts'
<1>1. /\ Minus(After(rdDone, layout[rdDone]), rdDone) <= Minus(wr, rdDone)
      /\ rdDone' = After(rdDone, layout[rdDone])
      /\ UNCHANGED <<wr, remaining, nextWr, open, target, tlpAddr, received, odd, reqSize,
                     ready, due, end, wrFsm, wrTag, dwords, wrAddr, mem>>
  BY DEF MacReleases, Whole, engineVars, askVars, commitVars, tagVars, hostVars, pieceVars
<1>2. WordType /\ FitInv /\ RequestInv /\ OrderInv /\ MemInv
  BY DEF Parts
<1>3. PICK r : r = rdDone'
  OBVIOUS
<1>4. r \in DOMAIN layout /\ r \in Address
  <2>1. layout[rdDone] \in [words : Nat, part : BOOLEAN] /\ r \in DOMAIN layout
    BY <1>1, <1>2, <1>3, ConstantsAssumption DEF WordType
  <2>2. PICK x \in Nat : r = x % (2 * Size)
    <3>1. layout[rdDone].words \in Nat /\ rdDone \in Nat
      BY <1>2, <2>1, SizeFact DEF WordType
    <3> QED
      BY <1>1, <1>3, <3>1 DEF After
  <2>3. 2 * Size \in Nat \ {0}
    BY SizeFact
  <2>4. x % (2 * Size) \in 0 .. 2 * Size - 1
    <3> DEFINE d == 2 * Size
    <3> HIDE DEF d
    <3>1. x % d \in 0 .. d - 1
      BY <2>3, ModIn DEF d
    <3> QED
      BY <3>1 DEF d
  <2> QED
    BY <2>1, <2>2, <2>4 DEF Address
<1>5. PICK l \in Nat : l = Off(r) /\ l <= Off(wr)
  <2>1. Off(r) \in Nat
    BY <1>2, <1>4, OffIs DEF WordType
  <2> QED
    BY <1>1, <1>3, <2>1 DEF Off
<1>6. /\ Off(wr) \in Nat /\ Off(nextWr) \in Nat /\ Off(wr) <= Off(nextWr)
      /\ Off(nextWr) <= Size /\ Size \in Nat /\ Size >= 1
  BY <1>2, TypeFacts, SizeFact DEF FitInv
<1>7. ASSUME NEW a \in Address
      PROVE  /\ Off(a) \in Nat /\ Off(a) < 2 * Size
             /\ Minus(a, r) = IF Off(a) >= l THEN Off(a) - l ELSE Off(a) + 2 * Size - l
  <2> DEFINE o == Off(a)
             m == Minus(a, r)
  <2>1. /\ o \in Nat /\ o < 2 * Size
        /\ o = IF a >= rdDone THEN a - rdDone ELSE a + 2 * Size - rdDone
    BY <1>2, OffIs DEF WordType
  <2>2. l = IF r >= rdDone THEN r - rdDone ELSE r + 2 * Size - rdDone
    BY <1>2, <1>4, <1>5, OffIs DEF WordType
  <2>3. m = IF a >= r THEN a - r ELSE a + 2 * Size - r
    BY <1>4, MinusIs
  <2> HIDE DEF o, m
  <2>4. a \in Nat /\ a < 2 * Size /\ r \in Nat /\ r < 2 * Size /\ rdDone \in Nat
        /\ rdDone < 2 * Size
    BY <1>2, <1>4, SizeFact DEF WordType
  <2>5. m = IF o >= l THEN o - l ELSE o + 2 * Size - l
    BY <1>6, <2>1, <2>2, <2>3, <2>4
  <2> QED
    BY <2>1, <2>5 DEF o, m
<1>8. /\ Off(wr)' = Off(wr) - l /\ Off(nextWr)' = Off(nextWr) - l
      /\ \A a \in Address :
           Off(a)' = IF Off(a) >= l THEN Off(a) - l ELSE Off(a) + 2 * Size - l
  <2>1. wr \in Address /\ nextWr \in Address
    BY <1>2 DEF WordType
  <2>2. Off(wr)' = Minus(wr, r) /\ Off(nextWr)' = Minus(nextWr, r)
    BY <1>1, <1>3 DEF Off
  <2>3. \A a \in Address : Off(a)' = Minus(a, r)
    BY <1>3 DEF Off
  <2>4. Minus(wr, r) = Off(wr) - l /\ Minus(nextWr, r) = Off(nextWr) - l
    BY <1>5, <1>6, <1>7, <2>1
  <2> QED
    BY <1>7, <2>2, <2>3, <2>4
<1>9. \A t \in Tag :
        /\ Rank(t)' = Rank(t) /\ (Under(t)' <=> Under(t)) /\ (Writing(t)' <=> Writing(t))
        /\ Piece(t)' = Piece(t) /\ Half(t)' = Half(t) /\ Rest(t)' = Rest(t)
  BY <1>1 DEF Rank, Under, Writing, Piece, Half, Rest
<1>10. ASSUME NEW t \in Tag, Under(t)
       PROVE  /\ Off(tlpAddr[t])' = Off(tlpAddr[t]) - l /\ Stop(t)' = Stop(t) - l
              /\ Begin(t)' = Begin(t) - l /\ Done(t)' = Done(t) - l
              /\ Done(t) >= Off(wr) /\ Begin(t) \in Int /\ Stop(t) \in Nat
              /\ Done(t) \in Nat /\ Off(tlpAddr[t]) \in Nat /\ Rest(t) \in Int
  <2>1. /\ Off(wr) <= Done(t) /\ Done(t) <= Off(tlpAddr[t])
        /\ Off(tlpAddr[t]) + Rest(t) = Stop(t) /\ received[t] <= reqSize[t]
    BY <1>2, <1>10 DEF RequestInv, Request
  <2>2. /\ Done(t) \in Nat /\ Off(tlpAddr[t]) \in Nat /\ Stop(t) \in Nat /\ Rest(t) \in Int
        /\ received[t] \in Nat /\ reqSize[t] \in Nat /\ Begin(t) \in Int
    BY <1>2, TypeFacts
  <2>3. Rest(t) >= 0
    BY <2>1, <2>2 DEF Rest
  <2>4. tlpAddr[t] \in Address /\ end[t] \in Address /\ wrAddr \in Address
    BY <1>2 DEF WordType
  <2>5. /\ Off(tlpAddr[t])' = Minus(tlpAddr[t], r) /\ Stop(t)' = Minus(end[t], r)
        /\ Done(t)' = Minus(IF Writing(t) THEN wrAddr ELSE tlpAddr[t], r)
    BY <1>1, <1>3, <1>9 DEF Off, Stop, Done
  <2>6. Off(tlpAddr[t])' = Off(tlpAddr[t]) - l
    BY <1>5, <1>6, <1>7, <2>1, <2>2, <2>4, <2>5
  <2>7. Stop(t)' = Stop(t) - l
    <3>1. Off(end[t]) = Stop(t)
      BY DEF Stop
    <3>2. Stop(t) >= l
      BY <1>5, <1>6, <2>1, <2>2, <2>3
    <3> QED
      BY <1>7, <2>4, <2>5, <3>1, <3>2
  <2>8. Done(t)' = Done(t) - l
    <3>1. PICK a \in Address : a = IF Writing(t) THEN wrAddr ELSE tlpAddr[t]
      BY <2>4
    <3>2. Off(a) = Done(t) /\ Done(t) >= l
      BY <1>5, <1>6, <2>1, <2>2, <3>1 DEF Done
    <3> QED
      BY <1>7, <2>5, <3>1, <3>2
  <2>9. Begin(t)' = Begin(t) - l
    <3>1. reqSize' = reqSize
      BY <1>1
    <3> QED
      BY <2>2, <2>7, <3>1 DEF Begin
  <2> QED
    BY <2>1, <2>2, <2>6, <2>7, <2>8, <2>9
<1>11. WordType'
  BY <1>1, <1>2, <1>3, <1>4 DEF WordType
<1>12. FitInv'
  <2>1. Off(nextWr)' = Size => Off(nextWr) = Size
    BY <1>5, <1>6, <1>8
  <2>2. Off(wr)' <= Off(nextWr)' /\ Off(nextWr)' <= Size
    BY <1>5, <1>6, <1>8
  <2> QED
    BY <1>1, <1>2, <2>1, <2>2 DEF FitInv
<1>13. RequestInv'
  <2>1. SUFFICES ASSUME NEW t \in Tag PROVE Request(t)'
    BY DEF RequestInv
  <2>2. CASE Under(t)
    <3>1. Request(t)
      BY <1>2 DEF RequestInv
    <3>2. /\ Off(tlpAddr[t])' + Rest(t)' = Stop(t)'
          /\ Off(wr)' <= Done(t)' /\ Begin(t)' <= Done(t)' /\ Done(t)' <= Off(tlpAddr[t])'
      BY <1>5, <1>6, <1>8, <1>9, <1>10, <2>2, <3>1 DEF Request
    <3> QED
      BY <1>1, <1>9, <2>2, <3>1, <3>2 DEF Request
  <2>3. CASE ~Under(t)
    BY <1>1, <1>2, <1>9, <2>3 DEF RequestInv, Request
  <2> QED
    BY <2>2, <2>3
<1>14. OrderInv'
  <2>1. ASSUME NEW t \in Tag, Under(t)
        PROVE  /\ Stop(t)' <= Off(nextWr)'
               /\ (Rank(t)' = 0 => Begin(t)' <= Off(wr)')
               /\ (Rank(t)' + 1 = open' => Stop(t)' = Off(nextWr)')
    <3>1. /\ Stop(t) <= Off(nextWr) /\ (Rank(t) = 0 => Begin(t) <= Off(wr))
          /\ (Rank(t) + 1 = open => Stop(t) = Off(nextWr))
      BY <1>2, <2>1 DEF OrderInv
    <3>2. Rank(t)' = Rank(t) /\ open' = open
      BY <1>1, <1>9
    <3> QED
      BY <1>5, <1>6, <1>8, <1>10, <2>1, <3>1, <3>2
  <2>2. ASSUME NEW t \in Tag, Under(t), NEW s \in Tag, Under(s)
        PROVE  /\ (Rank(s)' < Rank(t)' => Stop(s)' <= Begin(t)')
               /\ (Rank(s)' + 1 = Rank(t)' => Stop(s)' = Begin(t)')
    <3>1. /\ (Rank(s) < Rank(t) => Stop(s) <= Begin(t))
          /\ (Rank(s) + 1 = Rank(t) => Stop(s) = Begin(t))
      BY <1>2, <2>2 DEF OrderInv
    <3>2. Rank(t)' = Rank(t) /\ Rank(s)' = Rank(s)
      BY <1>9
    <3>3. Stop(s)' = Stop(s) - l /\ Begin(t)' = Begin(t) - l /\ Stop(s) \in Nat /\ Begin(t) \in Int
      BY <1>10, <2>2
    <3> QED
      BY <3>1, <3>2, <3>3
  <2>3. open = 0 => wr = nextWr
    BY <1>2 DEF OrderInv
  <2> QED
    BY <1>1, <1>9, <2>1, <2>2, <2>3 DEF OrderInv
<1>15. MemInv'
  <2>1. SUFFICES ASSUME NEW a \in Address, Written(a)' PROVE mem'[a % Size] = a
    BY DEF MemInv
  <2>2. /\ Off(a) \in Nat /\ Off(a) < 2 * Size
        /\ Off(a)' = IF Off(a) >= l THEN Off(a) - l ELSE Off(a) + 2 * Size - l
    BY <1>7, <1>8
  <2>3. Off(a)' < Off(wr)' => Off(a) < Off(wr)
    BY <1>5, <1>6, <1>8, <2>2
  <2>4. ASSUME NEW s \in Tag, Under(s)', Begin(s)' <= Off(a)', Off(a)' < Done(s)'
        PROVE  Written(a)
    <3>1. Under(s)
      BY <1>9, <2>4
    <3>2. Done(s)' = Done(s) - l /\ Begin(s)' = Begin(s) - l /\ Done(s) \in Nat /\ Begin(s) \in Int
      BY <1>10, <3>1
    <3>3. Done(s) <= Size
      <4>1. /\ Done(s) <= Off(tlpAddr[s]) /\ Off(tlpAddr[s]) + Rest(s) = Stop(s)
            /\ received[s] <= reqSize[s] /\ Stop(s) <= Off(nextWr)
        BY <1>2, <3>1 DEF RequestInv, Request, OrderInv
      <4>2. /\ Rest(s) >= 0 /\ Off(tlpAddr[s]) \in Nat /\ Stop(s) \in Nat /\ Rest(s) \in Int
        BY <1>2, <4>1, TypeFacts DEF Rest
      <4> QED
        BY <1>6, <3>2, <4>1, <4>2
    <3>4. Begin(s) <= Off(a) /\ Off(a) < Done(s)
      BY <1>5, <1>6, <2>2, <2>4, <3>2, <3>3
    <3> QED
      BY <3>1, <3>4 DEF Written
  <2>5. Written(a)
    BY <2>1, <2>3, <2>4 DEF Written
  <2> QED
    BY <1>1, <1>2, <2>5 DEF MemInv
<1> QED
  BY <1>11, <1>12, <1>13, <1>14, <1>15 DEF Parts

-----------------------------------------------------------------------------
LEMMA WordStep ==
  ASSUME EngineSafe
  PROVE  WordInv /\ [TransmitNext]_transmitVars => WordInv'
<1> SUFFICES ASSUME WordInv, [TransmitNext]_transmitVars, side' = "engine"
             PROVE  Parts'
  BY DEF WordInv
<1>1. CASE EngineStep(Engine)
  <2>1. side = "engine" /\ UNCHANGED layout /\ Parts /\ Engine
    BY <1>1 DEF EngineStep, WordInv
  <2>2. CASE Keeps(AskPage)
    BY <2>1, <2>2, StepAskPage
  <2>3. CASE Keeps(Ask)
    BY <2>1, <2>3, StepAsk
  <2>4. CASE Keeps(Write)
    <3>1. UNCHANGED <<wr, rdDone>> /\ Write
      BY <2>4 DEF Keeps
    <3>2. ASSUME NEW t \in Tag, NEW d \in Pieces \cup {due[t]}, PieceBegins(t, d)
          PROVE  Parts'
      BY <2>1, <3>1, <3>2, StepPieceBegins
    <3>3. CASE PieceEnds
      BY <2>1, <3>1, <3>3, StepPieceEnds
    <3> QED
      BY <3>1, <3>2, <3>3 DEF Write
  <2>5. CASE CommitWords
    BY <2>1, <2>5, StepCommitWords
  <2>6. CASE MacReleases
    BY <2>1, <2>6, StepMacReleases
  <2>7. Keeps(AskPage) \/ Keeps(Ask) \/ Keeps(Write) \/ CommitWords \/ MacReleases
    BY <2>1 DEF Engine, Keeps
  <2> QED
    BY <2>2, <2>3, <2>4, <2>5, <2>6, <2>7
<1>2. CASE MacStep(Next)
  BY <1>2 DEF MacStep
<1>3. CASE UNCHANGED transmitVars
  <2>1. /\ UNCHANGED <<layout, wr, rdDone, side>>
        /\ UNCHANGED <<remaining, nextWr, open, target, tlpAddr, received, odd, reqSize,
                       ready, due, end, wrFsm, wrTag, dwords, wrAddr, mem>>
    BY <1>3 DEF transmitVars, vars, engineVars, askVars, commitVars, tagVars, hostVars,
       pieceVars
  <2>2. Parts
    BY <2>1 DEF WordInv
  <2>3. /\ WordType' /\ UNCHANGED <<Off(wr), Off(nextWr)>>
        /\ \A a \in Address : UNCHANGED Off(a)
    BY <2>1, <2>2 DEF Parts, WordType, Off
  <2>4. \A t \in Tag :
          UNCHANGED <<Under(t), Rank(t), Stop(t), Begin(t), Rest(t), Half(t), Piece(t),
                      Done(t), Writing(t), Off(tlpAddr[t])>>
    BY <2>1 DEF Under, Rank, Stop, Begin, Rest, Half, Piece, Done, Writing, Off
  <2>5. FitInv' /\ RequestInv'
    BY <2>1, <2>2, <2>3, <2>4 DEF Parts, FitInv, RequestInv, Request
  <2>6. OrderInv'
    BY <2>1, <2>2, <2>3, <2>4 DEF Parts, OrderInv
  <2>7. MemInv'
    BY <2>1, <2>2, <2>3, <2>4 DEF Parts, MemInv, Written
  <2> QED
    BY <2>3, <2>5, <2>6, <2>7 DEF Parts
<1> QED
  BY <1>1, <1>2, <1>3 DEF TransmitNext

(* The words the MAC may read are the host's, each at its address, for     *)
(* every size of the buffer, number of tags and cut of the answers, with   *)
(* an endpoint that neither stalls a request nor pauses in a header.       *)
THEOREM WordsExact == ASSUME EngineSafe PROVE TransmitSpec => []WordExact
<1>1. WordInv => WordExact
  <2> SUFFICES ASSUME Parts, NEW a \in Address, Committed(a)
               PROVE  mem[a % Size] = a
    BY DEF WordInv, WordExact
  <2>1. Written(a)
    BY DEF Committed, Written, Off
  <2> QED
    BY <2>1 DEF Parts, MemInv
<1> QED
  BY <1>1, WordAtInit, WordStep, PTL DEF TransmitSpec
=============================================================================
