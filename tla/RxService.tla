----------------------------- MODULE RxService -----------------------------
(***************************************************************************)
(* What reception promises: the pages are filled in the order they were    *)
(* given to the NIC and delivered in the order they were filled, each      *)
(* once, and a page is in one place only.                                  *)
(***************************************************************************)
EXTENDS Naturals, Sequences

CONSTANT Page

VARIABLES armed,   \* pages the NIC may write, oldest first
          full     \* pages filled and not yet freed, oldest first

At(p) == {k \in DOMAIN armed : armed[k] = p} \cup
         {k + Len(armed) : k \in {k \in DOMAIN full : full[k] = p}}

Init == /\ full = <<>>
        /\ armed \in Seq(Page)
        /\ \A j, k \in DOMAIN armed : armed[j] = armed[k] => j = k

Arm(p) ==
  /\ At(p) = {}
  /\ armed' = Append(armed, p)
  /\ UNCHANGED full

Fill ==
  /\ armed # <<>>
  /\ full' = Append(full, Head(armed))
  /\ armed' = Tail(armed)

Deliver ==
  /\ full # <<>>
  /\ full' = Tail(full)
  /\ UNCHANGED armed

Next == Fill \/ Deliver \/ \E p \in Page : Arm(p)

Spec == Init /\ [][Next]_<<armed, full>>
=============================================================================
