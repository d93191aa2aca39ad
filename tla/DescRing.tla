------------------------------ MODULE DescRing ------------------------------
(***************************************************************************)
(* The descriptor ring of sw/driver/nf10_lbuf.c, one for each direction:   *)
(* NR_LBUF descriptors, a producer and a consumer index, and no counter.   *)
(* A descriptor is in use when its kern_addr is not NULL.                  *)
(***************************************************************************)
EXTENDS Naturals

CONSTANTS N,     \* NR_LBUF, 2 in the code
          NULL   \* a NULL kern_addr, and address 0

ASSUME RingAssumption == N \in Nat \ {0}

VARIABLES desc,       \* the buffer each descriptor refers to
          prod, cons

ringVars == <<desc, prod, cons>>

Slots == 0 .. N - 1

(* inc_pointer: the indices wrap at NR_LBUF - 1. *)
Inc(p) == IF p = N - 1 THEN 0 ELSE p + 1

Full  == prod = cons /\ desc[cons] # NULL
Empty == prod = cons /\ desc[cons] = NULL

(* The slots from cons up to prod, going round. *)
InWindow(i) ==
  IF cons < prod THEN cons <= i /\ i < prod
  ELSE IF prod < cons THEN cons <= i \/ i < prod
  ELSE Full

(* The descriptors from cons up to prod, and no others, hold a buffer:     *)
(* desc_full and desc_empty, which look at one descriptor only, tell a     *)
(* full ring from an empty one (nf10_lbuf.c:215-231).                      *)
RingExact == \A i \in Slots : desc[i] # NULL <=> InWindow(i)
=============================================================================
