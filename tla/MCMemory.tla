------------------------------ MODULE MCMemory ------------------------------
EXTENDS Memory

Seg(vaddr, memsz) == [vaddr |-> vaddr, memsz |-> memsz, aligned |-> TRUE, short |-> FALSE]

(* A program of a page and a half, one of two segments, a file that is      *)
(* shorter than its header says, one with a misaligned segment, and two     *)
(* with an empty segment: where there is a table for it and where not.      *)
MCImages == {<<Seg(0, 3)>>,
             <<Seg(0, 1), Seg(2, 2)>>,
             <<[Seg(0, 1) EXCEPT !.short = TRUE]>>,
             <<[Seg(0, 3) EXCEPT !.aligned = FALSE]>>,
             <<Seg(0, 1), Seg(2, 0)>>,
             <<Seg(0, 1), Seg(4, 0)>>}
MCDeltas == {-2, -1, 3}
(* Lengths that fit an int, and three that do not: -1, 2^32 and 2^32 + 1.   *)
MCLengths == {0, 1, 2, 3, 12, 2 ^ LONG_BITS - 1, 2 ^ INT_BITS, 2 ^ INT_BITS + 1}
=============================================================================
