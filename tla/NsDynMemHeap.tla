---------------------------- MODULE NsDynMemHeap ----------------------------
(***************************************************************************)
(* The allocator of NsDynMem seen as an AbstractHeap: the regions are the  *)
(* area, the data words of the blocks in use are the runs taken.           *)
(***************************************************************************)
EXTENDS NsDynMem

Area == UNION {heap_main[i]..heap_main_end[i] : i \in {j \in Slots : heap_main[j] # 0}}

\* A client's pointer is the word after the block's first tag.
Taken == [p \in {b + 1 : b \in DOMAIN held} |-> p..(p - 1 + mem[p - 1])]

Promise == INSTANCE AbstractHeap WITH
               Sizes <- {Words(bytes) : bytes \in AllocSizes},
               area  <- Area,
               taken <- Taken

\* The allocator implements AbstractHeap: an allocation hands out at least
\* the words asked for, none of them in use; a free gives back exactly one
\* run; no other step and no failure changes what clients hold; a region
\* that is added becomes heap, and no word ever leaves it.
ImplementsHeap == Promise!HeapSpec
=============================================================================
