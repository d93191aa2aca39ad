----------------------------- MODULE TxService -----------------------------
(***************************************************************************)
(* What transmission promises the network stack: an skb that was accepted  *)
(* stays mapped until the NIC has fetched all of it, skbs are freed in the *)
(* order they were accepted, and each is freed once.                       *)
(***************************************************************************)
EXTENDS Naturals, Sequences

CONSTANT Addr

VARIABLES queue,   \* skbs accepted and not yet freed, oldest first
          fetched  \* those of queue the NIC has read to the end

Init == queue = <<>> /\ fetched = {}

Accept(a) ==
  /\ \A k \in DOMAIN queue : queue[k] # a
  /\ queue' = Append(queue, a)
  /\ UNCHANGED fetched

Fetch(a) ==
  /\ \E k \in DOMAIN queue : queue[k] = a
  /\ fetched' = fetched \cup {a}
  /\ UNCHANGED queue

(* The n oldest skbs are freed. *)
Release(n) ==
  /\ \A k \in 1 .. n : queue[k] \in fetched
  /\ queue' = SubSeq(queue, n + 1, Len(queue))
  /\ fetched' = fetched \ {queue[k] : k \in 1 .. n}

Next == \/ \E a \in Addr : Accept(a) \/ Fetch(a)
        \/ \E n \in 1 .. Len(queue) : Release(n)

Spec == Init /\ [][Next]_<<queue, fetched>>
=============================================================================
