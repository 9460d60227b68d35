--------------------------- MODULE MCNsDynMemIrq ---------------------------
(* Instances of NsDynMemIrq for TLC. *)
EXTENDS NsDynMemIrq

\* Client data that would read as the tag of a free block.
MinusOne == -1

\* A heap of 7 words at 12..18, behind its book, and a region of 8 words
\* right above it.
SmallHeap == {[ptr |-> 40, size |-> 36]}
OneRegion == {[ptr |-> 76, size |-> 32]}

\* Large enough for percentages of the heap to be more than 0 bytes.
LargeHeap == {[ptr |-> 4, size |-> 168]}
LargeRegion == {[ptr |-> 172, size |-> 64]}
SomeThresholds == {[percentage |-> 0, amount |-> 0],
                   [percentage |-> 30, amount |-> 0],
                   [percentage |-> 50, amount |-> 0],
                   [percentage |-> 10, amount |-> 40],
                   [percentage |-> 10, amount |-> 400]}
=============================================================================
