----------------------------- MODULE MCNsDynMem -----------------------------
(***************************************************************************)
(* Instances of NsDynMem for TLC: a few dozen words of memory, byte ranges *)
(* that are unaligned or of odd length where that matters.                 *)
(***************************************************************************)
EXTENDS NsDynMem

\* Client data that would read as the tag of a free block.
MinusOne == -1

\* A 2-word book at 8 and a heap of 10 words at 10..19, given one byte before
\* its aligned start.
MiddleHeap == {[ptr |-> 31, size |-> 49]}

\* Regions of 4 words at 4..7, below the book, at 20..23, right above the
\* heap, and at 24..27, right above that one: two of the three fit the slots.
\* The lengths of the first and the third are corrected; the last argument is
\* too small.
SideRegions == {[ptr |-> 14, size |-> 21], [ptr |-> 80, size |-> 16],
                [ptr |-> 96, size |-> 19], [ptr |-> 4, size |-> 8]}

\* A heap of 9 words at 3..11 and a region of 7 words somewhere above it.
SmallHeap == {[ptr |-> 4, size |-> 44]}
OneRegion == {[ptr |-> 56, size |-> 28]}
=============================================================================
