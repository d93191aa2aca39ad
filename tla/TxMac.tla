------------------------------- MODULE TxMac -------------------------------
(***************************************************************************)
(* How the NIC sends frames from the transmit buffer to the MAC            *)
(* (hw/my_engine/src/tx_mac_interface.v), cycle by cycle: one machine      *)
(* measures the frame at the read address and starts it when all of it is  *)
(* in the buffer, the other reads the words, and may begin the next frame  *)
(* at once when enough words follow (take_your_chances).                   *)
(*                                                                         *)
(* Quantities are in words of 8 bytes.  The buffer has Size words and its  *)
(* addresses one bit more (10 bits in the code), so that a full buffer is  *)
(* not taken for an empty one.  A frame is its header word, with its       *)
(* length, and its data.                                                   *)
(***************************************************************************)
EXTENDS Naturals

CONSTANTS
  Size,     \* words of the buffer, 512
  Chance,   \* words that must follow for a frame to begin at once, 16
  Length,   \* lengths a word may be taken for: full words, and a part of one
  Layouts   \* what the host sends: the lengths at the header addresses

Address == 0 .. 2 * Size - 1

After(h, l) == (h + l.words + (IF l.part THEN 2 ELSE 1)) % (2 * Size)

ASSUME ConstantsAssumption ==
  /\ Size \in Nat \ {0} /\ Chance \in Nat
  /\ Length \subseteq [words : Nat, part : BOOLEAN]
  /\ \A layout \in Layouts :
       /\ 0 \in DOMAIN layout
       /\ \A h \in DOMAIN layout :
            layout[h] \in Length /\ After(h, layout[h]) \in DOMAIN layout

VARIABLES
  layout,   \* the frames the host sends, which no step changes
  wr,       \* commited_wr_addr, as it came through tx_wr_addr_synch
  rdDone,   \* commited_rd_addr
  rd, prev, \* rd_addr_i, and of the cycle before: rd_data is the word at prev
  diff, chances,      \* diff, take_your_chances
  trig, size, part, start, \* trigger_frame_fsm, qwords_in_eth, the low bits of
                           \* byte_counter, trigger_tx_frame
  frame, nextRd, sof, sent, synch, eof \* tx_frame_fsm, next_rd_addr,
                           \* rd_addr_sof, qwords_sent, synch, end_of_eth_frame

trigVars  == <<trig, size, part, start>>
frameVars == <<frame, rd, nextRd, sof, sent, synch, eof>>
vars == <<layout, wr, rdDone, prev, diff, chances, trigVars, frameVars>>

Minus(a, b) == (a + 2 * Size - b) % (2 * Size)

Plus1(a) == (a + 1) % (2 * Size)

(* The word is in the buffer, as far as the MAC side knows. *)
Committed(a) == Minus(a, rdDone) < Minus(wr, rdDone)

Init ==
  /\ layout \in Layouts
  /\ wr = 0 /\ rdDone = 0 /\ rd = 0 /\ prev = 0
  /\ diff = 0 /\ chances = FALSE
  /\ trig = "idle" /\ size = 0 /\ part = FALSE /\ start = FALSE
  /\ frame = "idle" /\ nextRd = 0 /\ sof = 0 /\ sent = 0
  /\ synch = FALSE /\ eof = FALSE

-----------------------------------------------------------------------------
(* trigger_frame_fsm. *)

(* A length is read from the word at prev, whatever that word is. *)
Measure ==
  \E l \in IF prev \in DOMAIN layout /\ Committed(prev)
           THEN {layout[prev]} ELSE Length :
    size' = l.words /\ part' = l.part

TrigIdle ==
  /\ trig = "idle"
  /\ IF diff = 0
     THEN UNCHANGED trigVars
     ELSE Measure /\ trig' = "check" /\ UNCHANGED start

(* The test is made before the part of a word is added. *)
TrigCheck ==
  /\ trig = "check"
  /\ size' = IF part THEN size + 1 ELSE size
  /\ start' = (diff > size)
  /\ trig' = IF diff > size THEN "wait" ELSE "idle"
  /\ UNCHANGED part

TrigWait ==
  /\ trig = "wait"
  /\ start' = FALSE
  /\ IF synch THEN Measure /\ trig' = "check" ELSE UNCHANGED <<trig, size, part>>

Trigger == TrigIdle \/ TrigCheck \/ TrigWait

-----------------------------------------------------------------------------
(* tx_frame_fsm. *)

FrameIdle ==
  /\ frame = "idle"
  /\ nextRd' = Plus1(rd)
  /\ IF start THEN rd' = nextRd /\ frame' = "start" ELSE UNCHANGED <<rd, frame>>
  /\ synch' = FALSE /\ eof' = FALSE
  /\ UNCHANGED <<sof, sent>>

FrameStart ==
  /\ frame = "start"
  /\ sof' = prev
  /\ rd' = Plus1(rd)
  /\ frame' = "first"
  /\ synch' = FALSE /\ eof' = FALSE
  /\ UNCHANGED <<nextRd, sent>>

FrameFirst ==
  /\ frame = "first"
  /\ rd' = Plus1(rd)
  /\ frame' = "second"
  /\ UNCHANGED <<nextRd, sof, sent, synch, eof>>

FrameSecond ==
  /\ frame = "second"
  /\ nextRd' = Plus1(rd)
  /\ frame' = "ack"
  /\ UNCHANGED <<rd, sof, sent, synch, eof>>

FrameAck(ack) ==
  /\ frame = "ack"
  /\ sent' = 3
  /\ IF ack THEN rd' = nextRd /\ frame' = "words" ELSE UNCHANGED <<rd, frame>>
  /\ UNCHANGED <<nextRd, sof, synch, eof>>

(* A mutant of FrameEnd: the header of the next frame is not skipped. *)
FrameEndHeader ==
  /\ frame = "words"
  /\ size = sent
  /\ synch' = TRUE /\ eof' = TRUE
  /\ sent' = sent + 1
  /\ frame' = IF chances THEN "start" ELSE "idle"
  /\ UNCHANGED <<rd, nextRd, sof>>

(* The last word of the frame: the next one may follow at once. *)
FrameEnd ==
  /\ frame = "words"
  /\ size = sent
  /\ synch' = TRUE /\ eof' = TRUE
  /\ sent' = sent + 1
  /\ IF chances
     THEN rd' = Plus1(rd) /\ frame' = "start"
     ELSE UNCHANGED rd /\ frame' = "idle"
  /\ UNCHANGED <<nextRd, sof>>

(* A mutant of FrameUnderrun: the frame goes on. *)
FrameUnderrunUnseen ==
  /\ frame = "words"
  /\ size # sent
  /\ diff = 1
  /\ rd' = Plus1(rd)
  /\ sent' = sent + 1
  /\ UNCHANGED <<frame, nextRd, sof, synch, eof>>

(* The last word in the buffer, and not of the frame: the frame is         *)
(* abandoned (tx_underrun) and will be sent again.                         *)
FrameUnderrun ==
  /\ frame = "words"
  /\ size # sent
  /\ diff = 1
  /\ rd' = sof
  /\ sent' = sent + 1
  /\ frame' = "rewind"
  /\ UNCHANGED <<nextRd, sof, synch, eof>>

FrameWord ==
  /\ frame = "words"
  /\ size # sent
  /\ diff # 1
  /\ rd' = Plus1(rd)
  /\ sent' = sent + 1
  /\ UNCHANGED <<frame, nextRd, sof, synch, eof>>

(* A mutant of FrameRewind: the other machine is not told. *)
FrameRewindSilent ==
  /\ frame = "rewind"
  /\ frame' = "idle"
  /\ UNCHANGED <<rd, nextRd, sof, sent, synch, eof>>

FrameRewind ==
  /\ frame = "rewind"
  /\ synch' = TRUE
  /\ frame' = "idle"
  /\ UNCHANGED <<rd, nextRd, sof, sent, eof>>

Frame(ack) ==
  \/ FrameIdle \/ FrameStart \/ FrameFirst \/ FrameSecond \/ FrameAck(ack)
  \/ FrameWord \/ FrameEnd \/ FrameUnderrun \/ FrameRewind

-----------------------------------------------------------------------------
(* A mutant of Release: the read address is taken a cycle late. *)
ReleaseLate == rdDone' = IF eof THEN rd ELSE rdDone

(* The words of a frame are given back when it was sent. *)
Release == rdDone' = IF eof THEN prev ELSE rdDone

(* The transmit engine commits words, in the order of the host and never   *)
(* more than the buffer takes.                                             *)
Commit == \E n \in 0 .. Size - Minus(wr, rdDone) : wr' = (wr + n) % (2 * Size)

Cycle(ack) ==
  /\ Trigger
  /\ Frame(ack)
  /\ Release
  /\ Commit
  /\ prev' = rd
  /\ diff' = Minus(wr, rd)
  /\ chances' = (diff >= Chance)
  /\ UNCHANGED layout

Next == \E ack \in BOOLEAN : Cycle(ack)

Spec == Init /\ [][Next]_vars

-----------------------------------------------------------------------------
(* The MAC is given frames as the host sent them: a frame begins at a      *)
(* header and ends at its last word, though the length is measured by a    *)
(* machine that runs beside the one that sends, and though the next frame  *)
(* may begin before it is measured (tx_mac_interface.v:79-163).            *)
FrameExact == eof => /\ sof \in DOMAIN layout
                     /\ prev = After(sof, layout[sof])

(* Every word given to the MAC was in the buffer, though a frame may begin *)
(* one word early, or on chance: diff is known a cycle late and is tested  *)
(* for 1 only (tx_mac_interface.v:268).                                    *)
SentCommitted == frame \in {"first", "second", "words"} => Committed(prev)

(* The words of a frame are kept until its last word was sent, so that it  *)
(* can be sent again after an underrun.                                    *)
KeptUntilSent ==
  frame \in {"first", "second", "ack", "words", "rewind"} => rdDone = sof

(* The frame at the read address is in the buffer.                         *)
Whole == Minus(After(rdDone, layout[rdDone]), rdDone) <= Minus(wr, rdDone)
=============================================================================
