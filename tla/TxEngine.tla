------------------------------ MODULE TxEngine ------------------------------
(***************************************************************************)
(* How the transmit engine fills the buffer that TxMac reads               *)
(* (hw/my_engine/src/tx_wr_pkt_to_bram.v, with the tags of                 *)
(* tx_rd_host_mem.v): it asks the host for as many words of a page as the  *)
(* buffer has room for, up to Tags requests at a time, writes the answers, *)
(* which come in pieces, in order only within a request, and commits the   *)
(* words in the order in which they were asked for.                        *)
(*                                                                         *)
(* A word of the host is known by the address that was reserved for it:    *)
(* mem tells which one is at an index of the buffer, or Garbage.  States   *)
(* of a machine between which no other machine sees a difference are one   *)
(* step.                                                                   *)
(***************************************************************************)
EXTENDS TxMac, FiniteSetsExt

CONSTANTS
  Tags,      \* entries of tlp_addr, received_size, request_size, data_ready, 4
  Chunks,    \* sizes of a request that is not for all the rest of a page
  Pieces,    \* dwords of an answer that is not all that is left
  Pages,     \* words of a page; two buffers are more than the sum has bits for
  Stalls,    \* the endpoint may stall a read request for four cycles and more
  Gaps       \* the endpoint may pause between the words of an answer's header

ASSUME EngineAssumption ==
  /\ Tags \in Nat \ {0}
  /\ Chunks \subseteq 1 .. Size
  /\ Pieces \subseteq Nat /\ 1 \notin Pieces
  /\ Pages \subseteq Nat \ {0}
  /\ {Stalls, Gaps} \subseteq BOOLEAN

Tag == 0 .. Tags - 1

Garbage == 2 * Size

VARIABLES
  remaining, \* remaining_qwords of the page that is read, 0 between pages
  nextWr,    \* next_wr_addr
  open,      \* outstanding_requests
  target,    \* target_tlp
  tlpAddr, received, reqSize, ready, \* tlp_addr, received_size, request_size,
             \* data_ready, of each tag
  odd,       \* saved_dw_en: a dword waits for the other half of its word
  due, end,  \* the dwords the host still has to send, and where they end
  wrFsm, wrTag, dwords, wrAddr, \* wr_to_bram_fsm, this_tlp_tag, dwords_on_tlp,
             \* tlp_addr when the piece began
  mem,       \* the buffer
  side       \* which of the two is looked at

askVars    == <<remaining, nextWr>>
commitVars == <<open, target>>
tagVars    == <<tlpAddr, received, odd>>
hostVars   == <<due, end>>
pieceVars  == <<wrFsm, wrTag, dwords, wrAddr>>
engineVars == <<askVars, commitVars, tagVars, reqSize, ready, hostVars, pieceVars, mem>>
transmitVars == <<vars, engineVars, side>>

EngineInit ==
  /\ remaining = 0 /\ nextWr = 0
  /\ open = 0 /\ target = 0
  /\ tlpAddr = [t \in Tag |-> 0] /\ received = [t \in Tag |-> 0]
  /\ odd = [t \in Tag |-> FALSE]
  /\ reqSize = [t \in Tag |-> 0] /\ ready = [t \in Tag |-> FALSE]
  /\ due = [t \in Tag |-> 0] /\ end = [t \in Tag |-> 0]
  /\ wrFsm = "header" /\ wrTag = 0 /\ dwords = 0 /\ wrAddr = 0
  /\ mem = [i \in 0 .. Size - 1 |-> Garbage]

-----------------------------------------------------------------------------
(* trigger_rd_tlp_fsm. *)

(* A page holds one frame or more. *)
AskPage ==
  /\ remaining = 0
  /\ remaining' \in {n \in Pages : (nextWr + n) % (2 * Size) \in DOMAIN layout}
  /\ UNCHANGED <<nextWr, commitVars, tagVars, reqSize, ready, hostVars, pieceVars, mem>>

(* A mutant of TooMany: words that are asked for, and have not come, are   *)
(* forgotten.                                                              *)
TooManyCommitted(n) == (Minus(wr, rdDone) + n) % (2 * Size) >= Size

(* n words more do not fit: the highest bit of the sum, in as many bits as *)
(* an address has.                                                         *)
TooMany(n) == (Minus(nextWr, rdDone) + n) % (2 * Size) >= Size

(* qwords_to_rd: all of an empty buffer, or all the rest, or the largest   *)
(* chunk that fits.                                                        *)
Sizes ==
  LET fit == {c \in Chunks : ~TooMany(c)}
  IN  IF remaining > Size /\ nextWr = rdDone THEN {Size}
      ELSE IF remaining <= Size /\ ~TooMany(remaining) THEN {remaining}
      ELSE IF fit = {} THEN {} ELSE {Max(fit)}

(* A request, in the next tag.  While the last request is still being      *)
(* sent, tlp_tag is its tag, and its size is overwritten (line 396).       *)
Ask ==
  /\ remaining # 0 /\ open < Tags
  /\ \E n \in Sizes :
       LET tag  == (target + open) % Tags
           last == (tag + Tags - 1) % Tags
           sized == [reqSize EXCEPT ![tag] = n]
       IN  /\ reqSize' \in {sized} \cup
                (IF Stalls /\ open # 0 /\ due[last] = 2 * reqSize[last]
                 THEN {[sized EXCEPT ![last] = n]} ELSE {})
           /\ tlpAddr' = [tlpAddr EXCEPT ![tag] = nextWr]
           /\ received' = [received EXCEPT ![tag] = 0]
           /\ odd' = [odd EXCEPT ![tag] = FALSE]
           /\ nextWr' = (nextWr + n) % (2 * Size)
           /\ remaining' = remaining - n
           /\ due' = [due EXCEPT ![tag] = 2 * n]
           /\ end' = [end EXCEPT ![tag] = nextWr']
  /\ open' = open + 1
  /\ UNCHANGED <<target, ready, pieceVars, mem>>

-----------------------------------------------------------------------------
(* wr_to_bram_fsm. *)

(* The indices of n words of the buffer, from address a. *)
Indices(a, n) == {(a + k) % Size : k \in 0 .. n - 1}

(* The words that d dwords make, with the half that was saved. *)
WordsOf(t, d) == (d + (IF odd[t] THEN 1 ELSE 0)) \div 2

(* A mutant of Received: the word made of the saved half is not counted. *)
ReceivedLess(t, d) == received[t] + d \div 2

Received(t, d) == received[t] + WordsOf(t, d)

(* An answer of d of the dwords that are due to t.  The words are counted  *)
(* before they are written; a saved dword and an even number make half a   *)
(* word, which is written too.  What the endpoint shows in a gap is taken  *)
(* for a tag, and a word is written for it.                                *)
PieceBegins(t, d) ==
  LET n == WordsOf(t, d)
      half == IF odd[t] /\ d % 2 = 0 THEN 1 ELSE 0
  IN  /\ wrFsm = "header"
      /\ due[t] # 0
      /\ d = due[t] \/ (d \in Pieces /\ d + 1 < due[t])
      /\ \E shown \in IF Gaps THEN SUBSET Tag ELSE {{}} :
           /\ ready' = [x \in Tag |-> ready[x] /\ x # t /\ x \notin shown]
           /\ mem' = [i \in DOMAIN mem |->
                        IF \/ i \in Indices(tlpAddr[t], n + half)
                           \/ \E x \in shown : i = tlpAddr[x] % Size
                        THEN Garbage ELSE mem[i]]
      /\ tlpAddr' = [tlpAddr EXCEPT ![t] = (@ + n) % (2 * Size)]
      /\ received' = [received EXCEPT ![t] = Received(t, d)]
      /\ odd' = [odd EXCEPT ![t] = (@ # (d % 2 = 1))]
      /\ wrFsm' = "words" /\ wrTag' = t /\ dwords' = d /\ wrAddr' = tlpAddr[t]
      /\ UNCHANGED <<askVars, commitVars, reqSize, hostVars>>

(* The words are written; they are the host's if they are counted to where *)
(* the host is.                                                            *)
PieceEnds ==
  LET n == Minus(tlpAddr[wrTag], wrAddr)
      exact == (2 * tlpAddr[wrTag] + (IF odd[wrTag] THEN 1 ELSE 0) + due'[wrTag])
                 % (4 * Size) = 2 * end[wrTag]
  IN  /\ wrFsm = "words"
      /\ due' = [due EXCEPT ![wrTag] = @ - dwords]
      /\ mem' = [i \in DOMAIN mem |->
                   IF exact /\ i \in Indices(wrAddr, n)
                   THEN CHOOSE a \in Address : a % Size = i /\ Minus(a, wrAddr) < n
                   ELSE mem[i]]
      /\ ready' = [ready EXCEPT ![wrTag] = TRUE]
      /\ wrFsm' = "header"
      /\ UNCHANGED <<askVars, commitVars, tagVars, reqSize, end, wrTag, dwords, wrAddr>>

Write ==
  \/ \E t \in Tag : \E d \in Pieces \cup {due[t]} : PieceBegins(t, d)
  \/ PieceEnds

-----------------------------------------------------------------------------
(* commit_wr_addr_fsm: what came of the oldest request; the next one       *)
(* follows when all of it came.                                            *)
CommitWords ==
  /\ ready[target]
  /\ wr' = tlpAddr[target]
  /\ IF received[target] = reqSize[target]
     THEN /\ target' = (target + 1) % Tags
          /\ open' = open - 1
          /\ ready' = [ready EXCEPT ![target] = FALSE]
     ELSE UNCHANGED <<target, open, ready>>
  /\ UNCHANGED <<rdDone, askVars, tagVars, reqSize, hostVars, pieceVars, mem>>

(* The MAC gives back the words of a frame it sent. *)
MacReleases ==
  /\ Whole
  /\ rdDone' = After(rdDone, layout[rdDone])
  /\ UNCHANGED <<wr, engineVars>>

Keeps(A) == A /\ UNCHANGED <<wr, rdDone>>

Engine == Keeps(AskPage \/ Ask \/ Write) \/ CommitWords \/ MacReleases

-----------------------------------------------------------------------------
(* Either the MAC side is looked at, with the engine as TxMac has it, or   *)
(* the engine, with the MAC side as it is here.                            *)
TransmitInit ==
  /\ side \in {"mac", "engine"}
  /\ Init /\ EngineInit
  /\ side = "engine" => layout = CHOOSE l \in Layouts : TRUE

MacStep(A) == side = "mac" /\ A /\ UNCHANGED <<side, engineVars>>

EngineStep(A) ==
  side = "engine" /\ A
    /\ UNCHANGED <<side, layout, prev, diff, chances, trigVars, frameVars>>

TransmitNext == MacStep(Next) \/ EngineStep(Engine)

(* Fairness: as in TxMac; the engine's machines are clocked, the read      *)
(* engine gets the bus, the host answers, and the MAC sends what it has.   *)
(* No page need come.                                                      *)
TransmitSpec ==
  /\ TransmitInit /\ [][TransmitNext]_transmitVars
  /\ WF_transmitVars(MacStep(Cycle(TRUE)))
  /\ WF_transmitVars(EngineStep(Keeps(Ask)))
  /\ WF_transmitVars(EngineStep(Keeps(Write)))
  /\ WF_transmitVars(EngineStep(CommitWords))
  /\ WF_transmitVars(EngineStep(MacReleases))

-----------------------------------------------------------------------------
(* The words the MAC side may read are those of the host, each at its      *)
(* address: requests fit though their size is told by one bit of a sum,    *)
(* answers of several requests come interleaved, cut within a word, and    *)
(* words are counted before they are written                               *)
(* (tx_wr_pkt_to_bram.v:359, 727-743, 789-872).                            *)
WordExact ==
  side = "engine" => \A a \in Address : Committed(a) => mem[a % Size] = a

(* Every page is asked for to its end and every request committed to its   *)
(* end: with all tags under way and the buffer full, the engine and the    *)
(* MAC do not wait for one another.                                        *)
AllCommitted ==
  /\ remaining # 0 ~> remaining = 0
  /\ \A t \in Tag : (open # 0 /\ target = t) ~> target # t

(* A frame that is in the buffer is sent in the end: the two machines of   *)
(* tx_mac_interface.v never wait for one another.                          *)
CompleteSent == side = "mac" /\ Whole ~> eof
=============================================================================
