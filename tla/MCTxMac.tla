------------------------------ MODULE MCTxMac ------------------------------
(* Small instances of TxMac for TLC: a buffer of 16 words, frames of 4 to  *)
(* 6 words of data (the last one in part), five of them once around the    *)
(* addresses.                                                              *)
EXTENDS TxMac, FiniteSets, SequencesExt

MCFrame == {[words |-> w, part |-> p] : w \in 4 .. 5, p \in BOOLEAN}

MCLength == [words : 0 .. 6, part : BOOLEAN]

(* The address of the k-th frame of s, or behind the last one. *)
Start(s, k) ==
  FoldLeft(LAMBDA a, l : a + l.words + (IF l.part THEN 2 ELSE 1), 0,
           SubSeq(s, 1, k - 1))

(* The first frame is the shortest, so that no layout is a rotation of     *)
(* another one without need.                                               *)
MCLayouts ==
  LET Round == {s \in [1 .. 5 -> MCFrame] :
                  /\ Start(s, 6) = 2 * Size
                  /\ s[1] = [words |-> 4, part |-> FALSE]}
  IN  {[h \in {Start(s, k) : k \in 1 .. 5} |->
          s[CHOOSE k \in 1 .. 5 : Start(s, k) = h]] : s \in Round}
=============================================================================
