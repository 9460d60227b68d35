---------------------------- MODULE AbstractHeap ----------------------------
(***************************************************************************)
(* What the heap promises its clients (nsdynmemLIB.h), free of tags, lists *)
(* and placement: a set of words from which disjoint runs are taken and to *)
(* which they are given back.                                              *)
(***************************************************************************)
EXTENDS Integers

CONSTANTS
    Addr,     \* word addresses
    Sizes     \* sizes clients ask for, in words

VARIABLES
    area,     \* the words that belong to the heap
    taken     \* first word of each run in use -> its words

heapVars == <<area, taken>>

InUse == UNION {taken[k] : k \in DOMAIN taken}

HeapInit ==
    /\ \E lo, hi \in Addr : area = lo..hi
    /\ taken = << >>

\* A region of new words joins the heap.
Grow ==
    /\ UNCHANGED taken
    /\ \E lo, hi \in area' \ area : /\ lo..hi \cap area = {}
                                    /\ area' = area \cup lo..hi

\* A client gets a run of at least n words nobody else uses.
Take(n) ==
    /\ UNCHANGED area
    /\ n > 0
    /\ \E lo \in DOMAIN taken' \ DOMAIN taken :
          /\ DOMAIN taken' = DOMAIN taken \cup {lo}
          /\ \A k \in DOMAIN taken : taken'[k] = taken[k]
          /\ \E hi \in area : /\ hi - lo + 1 >= n
                              /\ lo..hi \subseteq area \ InUse
                              /\ taken'[lo] = lo..hi

\* A client gives back a run it took.
GiveBack(k) ==
    /\ UNCHANGED area
    /\ taken' = [j \in DOMAIN taken \ {k} |-> taken[j]]

HeapNext ==
    \/ Grow
    \/ \E n \in Sizes : Take(n)
    \/ \E k \in DOMAIN taken : GiveBack(k)

HeapSpec == HeapInit /\ [][HeapNext]_heapVars
=============================================================================
