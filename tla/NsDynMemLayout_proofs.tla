------------------------ MODULE NsDynMemLayout_proofs ------------------------
(***************************************************************************)
(* How the regions of nsdynmemLIB.c are cut into blocks: what a split, a   *)
(* merge and a new region make of a tiled heap, its list of holes and its  *)
(* stale tags, as facts about functions, sets and sequences.  No lemma of  *)
(* this module is about a step; NsDynMem_proofs puts them together.        *)
(***************************************************************************)
EXTENDS NsDynMem, SequenceLemmas

-----------------------------------------------------------------------------
(* Regions cut into blocks, as facts about functions *)

\* The last word of the block at b in the memory m.
BlockEnd(m, b) == b + AbsInt(m[b]) + 1

\* Word b lies in the region of slot i.
Within(mn, en, i, b) == mn[i] # 0 /\ mn[i] <= b /\ b <= en[i]

\* The slots in use are intervals without a common word.
SlotsApart(mn, en) ==
    /\ mn \in [Slots -> Addr \cup {0}]
    /\ en \in [Slots -> Addr \cup {0}]
    /\ \A i \in Slots : mn[i] # 0 => mn[i] < en[i]
    /\ \A i, j \in Slots :
          i # j /\ mn[i] # 0 /\ mn[j] # 0 => en[i] < mn[j] \/ en[j] < mn[i]

\* Both tags of the block at b agree.
Tagged(m, b) ==
    /\ m[b] # 0
    /\ BlockEnd(m, b) \in Addr
    /\ m[b] = m[BlockEnd(m, b)]

\* The block at b ends in its region, at the end or where a block starts.
Fitted(m, B, mn, en, b) ==
    \E i \in Slots :
        /\ Within(mn, en, i, b)
        /\ BlockEnd(m, b) <= en[i]
        /\ BlockEnd(m, b) # en[i] => BlockEnd(m, b) + 1 \in B

\* The block at b is not followed by another free block when it is free.
Single(m, mn, en, b) ==
    m[b] < 0 => \A i \in Slots :
        Within(mn, en, i, b) /\ BlockEnd(m, b) # en[i] => m[BlockEnd(m, b) + 1] > 0

\* The blocks that start at B tile the regions, and free ones are merged.
Laid(m, B, mn, en) ==
    /\ m \in [Addr -> Int]
    /\ B \subseteq Addr
    /\ SlotsApart(mn, en)
    /\ \A i \in Slots : mn[i] # 0 => mn[i] \in B
    /\ \A b \in B : Tagged(m, b)
    /\ \A b \in B : Fitted(m, B, mn, en, b)
    /\ \A b, c \in B : c > b => c > BlockEnd(m, b)
    /\ \A b \in B : Single(m, mn, en, b)

\* A word lies in one region at most.
LEMMA OneRegion ==
    ASSUME NEW mn, NEW en, SlotsApart(mn, en), NEW b \in Int,
           NEW i \in Slots, NEW j \in Slots,
           Within(mn, en, i, b), Within(mn, en, j, b)
    PROVE  i = j
<1>1. /\ mn[i] \in Int /\ mn[j] \in Int /\ en[i] \in Int /\ en[j] \in Int
  BY SizesAssumption DEF SlotsApart, Addr
<1> QED BY <1>1 DEF SlotsApart, Within

\* AbsInt is the absolute value.
LEMMA AbsIntFacts ==
    ASSUME NEW i \in Int
    PROVE  /\ AbsInt(i) \in Nat
           /\ AbsInt(-i) = AbsInt(i)
           /\ i >= 0 => AbsInt(i) = i
           /\ i < 0 => AbsInt(i) = -i
           /\ i # 0 => AbsInt(i) >= 1
BY DEF AbsInt

\* Addresses are positive integers.
LEMMA Addresses ==
    /\ 0 \notin Addr
    /\ \A a \in Addr : a \in Int /\ a \in Nat /\ a >= 1 /\ a <= MemWords
    /\ \A a, c \in Addr : \A d \in Int : a <= d /\ d <= c => d \in Addr
    /\ \A a, c \in Addr : a..c \subseteq Addr
BY SizesAssumption DEF Addr

\* The types in a tiled heap.
LEMMA LaidTypes ==
    ASSUME NEW m, NEW B, NEW mn, NEW en, Laid(m, B, mn, en)
    PROVE  /\ m \in [Addr -> Int] /\ B \subseteq Addr
           /\ \A b \in B : b \in Int
           /\ SlotsApart(mn, en)
           /\ \A i \in Slots : mn[i] \in Int /\ en[i] \in Int
<1>1. m \in [Addr -> Int] /\ B \subseteq Addr /\ SlotsApart(mn, en)
  BY DEF Laid
<1>2. \A i \in Slots : mn[i] \in Int /\ en[i] \in Int
  BY <1>1, Addresses DEF SlotsApart
<1> QED BY <1>1, <1>2, Addresses

\* What is known about one block of a tiled heap.
LEMMA BlockFacts ==
    ASSUME NEW m, NEW B, NEW mn, NEW en, Laid(m, B, mn, en), NEW b \in B
    PROVE  /\ b \in Addr /\ b \in Int /\ m[b] \in Int /\ m[b] # 0
           /\ BlockEnd(m, b) \in Addr /\ BlockEnd(m, b) \in Int
           /\ b + 2 <= BlockEnd(m, b)
           /\ m[BlockEnd(m, b)] = m[b]
           /\ \A c \in B : c > b => c > BlockEnd(m, b)
           /\ m[b] > 0 => BlockEnd(m, b) = b + m[b] + 1
           /\ m[b] < 0 => BlockEnd(m, b) = b - m[b] + 1
<1>1. b \in Addr /\ b \in Int /\ m[b] \in Int /\ m[b] # 0
  BY SizesAssumption DEF Laid, Tagged, Addr
<1>2. BlockEnd(m, b) \in Addr /\ m[BlockEnd(m, b)] = m[b]
  BY DEF Laid, Tagged
<1>3. BlockEnd(m, b) \in Int
  BY <1>2, SizesAssumption DEF Addr
<1>4. AbsInt(m[b]) \in Nat /\ AbsInt(m[b]) >= 1
  BY <1>1, AbsIntFacts
<1>5. b + 2 <= BlockEnd(m, b)
  BY <1>1, <1>4 DEF BlockEnd
<1>6. \A c \in B : c > b => c > BlockEnd(m, b)
  BY DEF Laid
<1>7. /\ m[b] > 0 => AbsInt(m[b]) = m[b]
      /\ m[b] < 0 => AbsInt(m[b]) = -m[b]
  BY <1>1, AbsIntFacts
<1>8. /\ m[b] > 0 => BlockEnd(m, b) = b + m[b] + 1
      /\ m[b] < 0 => BlockEnd(m, b) = b - m[b] + 1
  BY <1>1, <1>7 DEF BlockEnd
<1> QED BY <1>1, <1>2, <1>3, <1>5, <1>6, <1>8

\* A block lies in a region, and ends in it or is followed by another block.
LEMMA BlockInRegion ==
    ASSUME NEW m, NEW B, NEW mn, NEW en, Laid(m, B, mn, en), NEW b \in B
    PROVE  /\ \E i \in Slots : Within(mn, en, i, b)
           /\ \A i \in Slots : Within(mn, en, i, b) =>
                 /\ BlockEnd(m, b) <= en[i]
                 /\ BlockEnd(m, b) # en[i] => BlockEnd(m, b) + 1 \in B
<1>1. PICK k \in Slots : /\ Within(mn, en, k, b)
                         /\ BlockEnd(m, b) <= en[k]
                         /\ BlockEnd(m, b) # en[k] => BlockEnd(m, b) + 1 \in B
  BY DEF Laid, Fitted
<1>2. b \in Int /\ SlotsApart(mn, en)
  BY BlockFacts DEF Laid
<1>3. \A i \in Slots : Within(mn, en, i, b) => i = k
  BY <1>1, <1>2, OneRegion
<1> QED BY <1>1, <1>3

\* A block that does not start a region follows another block of it.
LEMMA Predecessor ==
    ASSUME NEW m, NEW B, NEW mn, NEW en, Laid(m, B, mn, en), NEW b \in B,
           NEW i \in Slots, Within(mn, en, i, b), b # mn[i]
    PROVE  \E c \in B : /\ Within(mn, en, i, c)
                        /\ c < b
                        /\ BlockEnd(m, c) = b - 1
<1> DEFINE T == {c \in B : mn[i] <= c /\ c < b}
<1>1. /\ mn[i] \in B /\ mn[i] \in Int /\ en[i] \in Int
      /\ b \in Int /\ b \in Addr /\ mn[i] <= b /\ b <= en[i] /\ mn[i] # 0
  BY BlockFacts, SizesAssumption DEF Laid, SlotsApart, Within, Addr
<1>2. T \subseteq 1..MemWords /\ T # {} /\ MemWords \in Nat
  <2>1. B \subseteq 1..MemWords /\ MemWords \in Nat
    BY SizesAssumption DEF Laid, Addr
  <2>2. mn[i] \in T
    BY <1>1
  <2> QED BY <2>1, <2>2
<1>3. PICK c \in T : \A d \in T : d <= c
  BY <1>2, MaxIsGreatest
<1>4. /\ c \in B /\ c \in Int /\ mn[i] <= c /\ c < b
  BY <1>3, BlockFacts
<1>5. Within(mn, en, i, c)
  BY <1>1, <1>4 DEF Within
<1>6. /\ BlockEnd(m, c) \in Int /\ b > BlockEnd(m, c) /\ c + 2 <= BlockEnd(m, c)
  BY <1>1, <1>4, BlockFacts
<1>7. BlockEnd(m, c) + 1 \in B
  BY <1>1, <1>4, <1>5, <1>6, BlockInRegion
<1>8. BlockEnd(m, c) + 1 >= b
  <2> SUFFICES ASSUME BlockEnd(m, c) + 1 < b PROVE FALSE
    BY <1>1, <1>6
  <2>1. BlockEnd(m, c) + 1 \in T
    BY <1>1, <1>4, <1>6, <1>7
  <2> QED BY <1>3, <1>4, <1>6, <2>1
<1>9. BlockEnd(m, c) = b - 1
  BY <1>1, <1>6, <1>8
<1> QED BY <1>4, <1>5, <1>9

\* The tag below a free block that does not start a region is not free.
LEMMA BelowFree ==
    ASSUME NEW m, NEW B, NEW mn, NEW en, Laid(m, B, mn, en), NEW b \in B,
           NEW i \in Slots, Within(mn, en, i, b), b # mn[i], m[b] < 0
    PROVE  m[b - 1] > 0
<1>1. PICK c \in B : Within(mn, en, i, c) /\ c < b /\ BlockEnd(m, c) = b - 1
  BY Predecessor
<1>2. b \in Int /\ b <= en[i] /\ en[i] \in Int /\ m[b] \in Int
  BY BlockFacts, SizesAssumption DEF Laid, SlotsApart, Within, Addr
<1>3. BlockEnd(m, c) # en[i] /\ BlockEnd(m, c) + 1 = b
  BY <1>1, <1>2
<1>4. m[c] \in Int /\ m[c] # 0 /\ m[b - 1] = m[c]
  BY <1>1, BlockFacts
<1>5. ~(m[c] < 0)
  BY <1>1, <1>2, <1>3 DEF Laid, Single
<1> QED BY <1>4, <1>5

-----------------------------------------------------------------------------
(* Cutting an interval of whole blocks anew *)

\* lo..hi are the words of some neighbouring blocks in the region of slot i.
Span(m, B, mn, en, i, lo, hi) ==
    /\ Within(mn, en, i, lo)
    /\ lo \in B /\ hi \in Addr /\ hi <= en[i]
    /\ hi # en[i] => hi + 1 \in B
    /\ \A b \in B : BlockEnd(m, b) < lo \/ b > hi \/ (lo <= b /\ BlockEnd(m, b) <= hi)

\* In the memory m2 the blocks that start at N tile lo..hi.
Cut(m2, N, lo, hi) ==
    /\ N \subseteq lo..hi /\ lo \in N
    /\ \A n \in N : m2[n] # 0 /\ m2[n] = m2[BlockEnd(m2, n)]
    /\ \A n \in N : /\ BlockEnd(m2, n) <= hi
                    /\ BlockEnd(m2, n) # hi => BlockEnd(m2, n) + 1 \in N
    /\ \A n, c \in N : c > n => c > BlockEnd(m2, n)

\* The free ones among them have no free neighbour.
CutMerged(m, m2, N, mn, en, i, lo, hi) ==
    /\ m2[lo] < 0 /\ lo # mn[i] => m[lo - 1] > 0
    /\ \A n \in N : m2[n] < 0 /\ BlockEnd(m2, n) # hi => m2[BlockEnd(m2, n) + 1] > 0
    /\ \A n \in N : m2[n] < 0 /\ BlockEnd(m2, n) = hi /\ hi # en[i] => m[hi + 1] > 0

\* Memory changes in lo..hi only.
WritesIn(m, m2, lo, hi) ==
    /\ m2 \in [Addr -> Int]
    /\ \A a \in Addr : a < lo \/ a > hi => m2[a] = m[a]

\* The block starts after lo..hi was cut at N.
CutAt(B, N, lo, hi) == {b \in B : b < lo \/ b > hi} \cup N

\* What it means for a block outside the interval.
LEMMA OutsideKept ==
    ASSUME NEW m, NEW B, NEW mn, NEW en, Laid(m, B, mn, en),
           NEW i \in Slots, NEW lo, NEW hi, Span(m, B, mn, en, i, lo, hi),
           NEW m2, WritesIn(m, m2, lo, hi),
           NEW b \in B, b < lo \/ b > hi
    PROVE  /\ m2[b] = m[b]
           /\ BlockEnd(m2, b) = BlockEnd(m, b)
           /\ m2[BlockEnd(m, b)] = m[b]
           /\ BlockEnd(m, b) < lo \/ b > hi
<1>1. b \in Addr /\ b \in Int /\ BlockEnd(m, b) \in Addr /\ BlockEnd(m, b) \in Int
      /\ b + 2 <= BlockEnd(m, b) /\ m[BlockEnd(m, b)] = m[b]
  BY BlockFacts
<1>2. lo \in Int /\ hi \in Int
  BY LaidTypes, Addresses DEF Span
<1>3. m2[b] = m[b]
  BY <1>1 DEF WritesIn
<1>4. BlockEnd(m2, b) = BlockEnd(m, b)
  BY <1>3 DEF BlockEnd
<1>5. BlockEnd(m, b) < lo \/ b > hi
  BY <1>1, <1>2 DEF Span
<1>6. BlockEnd(m, b) < lo \/ BlockEnd(m, b) > hi
  BY <1>1, <1>2, <1>5
<1>7. m2[BlockEnd(m, b)] = m[b]
  BY <1>1, <1>6 DEF WritesIn
<1> QED BY <1>3, <1>4, <1>5, <1>7

\* Cutting whole blocks anew leaves a tiled heap.
LEMMA Reblock ==
    ASSUME NEW m, NEW B, NEW mn, NEW en, Laid(m, B, mn, en),
           NEW i \in Slots, NEW lo, NEW hi, Span(m, B, mn, en, i, lo, hi),
           NEW m2, WritesIn(m, m2, lo, hi),
           NEW N, Cut(m2, N, lo, hi), CutMerged(m, m2, N, mn, en, i, lo, hi)
    PROVE  Laid(m2, CutAt(B, N, lo, hi), mn, en)
<1> DEFINE C == CutAt(B, N, lo, hi)
           Old == {b \in B : b < lo \/ b > hi}
<1>1. /\ lo \in Addr /\ hi \in Addr /\ lo \in Int /\ hi \in Int
      /\ mn[i] \in Int /\ en[i] \in Int /\ mn[i] <= lo /\ lo <= hi /\ hi <= en[i]
      /\ mn[i] # 0
  <2>1. lo \in Addr /\ hi \in Addr /\ lo \in Int /\ hi \in Int
    BY LaidTypes, Addresses DEF Span
  <2>2. mn[i] \in Int /\ en[i] \in Int
    BY LaidTypes
  <2> QED BY <2>1, <2>2 DEF Span, Within, Cut
<1>2. C = Old \cup N
  BY DEF CutAt
<1>3. C \subseteq Addr /\ \A b \in C : b \in Int
  <2>1. N \subseteq Addr
    BY <1>1, Addresses DEF Cut
  <2>2. Old \subseteq Addr
    BY LaidTypes
  <2> QED BY <1>2, <2>1, <2>2, Addresses
<1>4. \A n \in N : /\ n \in Addr /\ n \in Int /\ lo <= n /\ n <= hi
                   /\ m2[n] \in Int /\ m2[n] # 0
                   /\ BlockEnd(m2, n) \in Int /\ n + 2 <= BlockEnd(m2, n)
                   /\ BlockEnd(m2, n) <= hi
  <2> SUFFICES ASSUME NEW n \in N
               PROVE  /\ n \in Addr /\ n \in Int /\ lo <= n /\ n <= hi
                      /\ m2[n] \in Int /\ m2[n] # 0
                      /\ BlockEnd(m2, n) \in Int /\ n + 2 <= BlockEnd(m2, n)
                      /\ BlockEnd(m2, n) <= hi
    OBVIOUS
  <2>1. n \in Addr /\ n \in Int /\ lo <= n /\ n <= hi
    BY <1>1, <1>2, <1>3 DEF Cut
  <2>2. m2[n] \in Int /\ m2[n] # 0 /\ BlockEnd(m2, n) <= hi
    BY <2>1 DEF Cut, WritesIn
  <2>3. AbsInt(m2[n]) \in Nat /\ AbsInt(m2[n]) >= 1
    BY <2>2, AbsIntFacts
  <2>4. BlockEnd(m2, n) \in Int /\ n + 2 <= BlockEnd(m2, n)
    BY <2>1, <2>3 DEF BlockEnd
  <2> QED BY <2>1, <2>2, <2>4
<1>5. \A b \in Old : /\ b \in B /\ b \in Int /\ BlockEnd(m, b) \in Int
                      /\ b + 2 <= BlockEnd(m, b)
                      /\ m2[b] = m[b]
                      /\ BlockEnd(m2, b) = BlockEnd(m, b)
                      /\ m2[BlockEnd(m, b)] = m[b]
                      /\ (BlockEnd(m, b) < lo \/ b > hi)
  BY OutsideKept, BlockFacts
<1> HIDE DEF C, Old
<1>6. \A k \in Slots : mn[k] # 0 => mn[k] \in C
  <2> SUFFICES ASSUME NEW k \in Slots, mn[k] # 0 PROVE mn[k] \in C
    OBVIOUS
  <2>1. mn[k] \in B /\ mn[k] \in Int /\ en[k] \in Int /\ mn[k] < en[k]
    BY SizesAssumption DEF Laid, SlotsApart, Addr
  <2>2. CASE mn[k] < lo \/ mn[k] > hi
    BY <1>2, <2>1, <2>2 DEF Old
  <2>3. CASE lo <= mn[k] /\ mn[k] <= hi
    <3>1. Within(mn, en, i, mn[k]) /\ Within(mn, en, k, mn[k])
      BY <1>1, <2>1, <2>3 DEF Within
    <3>2. i = k
      BY <2>1, <3>1, OneRegion DEF Laid
    <3>3. mn[k] = lo
      BY <1>1, <2>3, <3>2
    <3> QED BY <1>2, <3>3 DEF Cut
  <2> QED BY <1>1, <2>1, <2>2, <2>3
<1>7. \A b \in C : Tagged(m2, b)
  <2> SUFFICES ASSUME NEW b \in C PROVE Tagged(m2, b)
    OBVIOUS
  <2>1. CASE b \in Old
    <3>1. b \in B
      BY <2>1 DEF Old
    <3>2. Tagged(m, b)
      BY <3>1 DEF Laid
    <3> QED BY <1>5, <2>1, <3>2 DEF Tagged
  <2>2. CASE b \in N
    <3>1. BlockEnd(m2, b) \in Addr
      BY <1>1, <1>4, <2>2, SizesAssumption DEF Addr
    <3> QED BY <2>2, <3>1 DEF Cut, Tagged
  <2> QED BY <1>2, <2>1, <2>2
<1>8. \A b \in C : Fitted(m2, C, mn, en, b)
  <2> SUFFICES ASSUME NEW b \in C PROVE Fitted(m2, C, mn, en, b)
    OBVIOUS
  <2>1. CASE b \in Old
    <3>1. PICK k \in Slots : /\ Within(mn, en, k, b)
                             /\ BlockEnd(m, b) <= en[k]
                             /\ BlockEnd(m, b) # en[k] => BlockEnd(m, b) + 1 \in B
      BY <2>1 DEF Laid, Fitted, Old
    <3>2. ASSUME BlockEnd(m, b) + 1 \in B PROVE BlockEnd(m, b) + 1 \in C
      <4>1. BlockEnd(m, b) + 1 <= lo \/ BlockEnd(m, b) + 1 > hi
        BY <1>1, <1>5, <2>1
      <4>2. CASE BlockEnd(m, b) + 1 = lo
        BY <1>2, <4>2 DEF Cut
      <4>3. CASE BlockEnd(m, b) + 1 # lo
        <5>1. BlockEnd(m, b) + 1 \in Old
          BY <1>1, <1>5, <2>1, <3>2, <4>1, <4>3 DEF Old
        <5> QED BY <1>2, <5>1
      <4> QED BY <4>2, <4>3
    <3> QED BY <1>5, <2>1, <3>1, <3>2 DEF Fitted
  <2>2. CASE b \in N
    <3>1. Within(mn, en, i, b)
      BY <1>1, <1>4, <2>2 DEF Within
    <3>2. BlockEnd(m2, b) <= en[i]
      BY <1>1, <1>4, <2>2
    <3>3. ASSUME BlockEnd(m2, b) # en[i] PROVE BlockEnd(m2, b) + 1 \in C
      <4>1. CASE BlockEnd(m2, b) # hi
        BY <1>2, <2>2, <4>1 DEF Cut
      <4>2. CASE BlockEnd(m2, b) = hi
        <5>1. hi + 1 \in B
          BY <3>3, <4>2 DEF Span
        <5>2. hi + 1 \in Old
          BY <1>1, <5>1 DEF Old
        <5> QED BY <1>2, <4>2, <5>2
      <4> QED BY <4>1, <4>2
    <3> QED BY <3>1, <3>2, <3>3 DEF Fitted
  <2> QED BY <1>2, <2>1, <2>2
<1>9. \A b, c \in C : c > b => c > BlockEnd(m2, b)
  <2> SUFFICES ASSUME NEW b \in C, NEW c \in C, c > b PROVE c > BlockEnd(m2, b)
    OBVIOUS
  <2>1. CASE b \in Old /\ c \in Old
    <3>1. b \in B /\ c \in B
      BY <1>5, <2>1
    <3> QED BY <1>5, <2>1, <3>1, BlockFacts
  <2>2. CASE b \in Old /\ c \in N
    BY <1>1, <1>3, <1>4, <1>5, <2>2
  <2>3. CASE b \in N /\ c \in Old
    <3>1. c < lo \/ c > hi
      BY <2>3 DEF Old
    <3> QED BY <1>1, <1>3, <1>4, <2>3, <3>1
  <2>4. CASE b \in N /\ c \in N
    BY <2>4 DEF Cut
  <2> QED BY <1>2, <2>1, <2>2, <2>3, <2>4
<1>10. \A b \in C : Single(m2, mn, en, b)
  <2> SUFFICES ASSUME NEW b \in C, m2[b] < 0, NEW k \in Slots,
                      Within(mn, en, k, b), BlockEnd(m2, b) # en[k]
               PROVE  m2[BlockEnd(m2, b) + 1] > 0
    BY DEF Single
  <2>1. CASE b \in Old
    <3>1. /\ b \in B /\ b \in Int /\ BlockEnd(m, b) \in Int /\ m[b] < 0
          /\ BlockEnd(m2, b) = BlockEnd(m, b) /\ b + 2 <= BlockEnd(m, b)
      BY <1>5, <2>1 DEF Old
    <3>2. m[BlockEnd(m, b) + 1] > 0
      BY <3>1 DEF Laid, Single
    <3>3. BlockEnd(m, b) <= en[k] /\ BlockEnd(m, b) + 1 \in B /\ en[k] \in Int
      BY <3>1, BlockInRegion, LaidTypes
    <3>4. BlockEnd(m, b) + 1 \in Addr
      BY <3>3, LaidTypes
    <3>5. CASE BlockEnd(m, b) + 1 < lo \/ BlockEnd(m, b) + 1 > hi
      BY <3>1, <3>2, <3>4, <3>5 DEF WritesIn
    <3>6. CASE BlockEnd(m, b) + 1 = lo
      <4>1. Within(mn, en, k, lo) /\ Within(mn, en, i, lo)
        BY <1>1, <3>1, <3>3, <3>6, LaidTypes DEF Within
      <4>2. k = i
        BY <1>1, <4>1, OneRegion DEF Laid
      <4>3. lo # mn[i]
        BY <1>1, <3>1, <3>6, <4>2 DEF Within
      <4>4. m[lo - 1] < 0
        BY <1>1, <3>1, <3>6, BlockFacts
      <4>5. m2[lo] \in Int /\ m2[lo] # 0 /\ m[lo - 1] \in Int
        <5>1. lo - 1 = BlockEnd(m, b)
          BY <1>1, <3>1, <3>6
        <5> QED BY <1>4, <3>1, <5>1, BlockFacts DEF Cut
      <4>6. ~(m2[lo] < 0)
        BY <4>3, <4>4, <4>5 DEF CutMerged
      <4> QED BY <3>1, <3>6, <4>5, <4>6
    <3> QED BY <1>1, <1>5, <2>1, <3>1, <3>5, <3>6
  <2>2. CASE b \in N
    <3>1. CASE BlockEnd(m2, b) # hi
      BY <2>2, <3>1 DEF CutMerged
    <3>2. CASE BlockEnd(m2, b) = hi
      <4>1. Within(mn, en, i, b) /\ b \in Int
        BY <1>1, <1>4, <2>2 DEF Within
      <4>2. k = i
        BY <4>1, OneRegion DEF Laid
      <4>3. hi # en[i] /\ m[hi + 1] > 0
        BY <2>2, <3>2, <4>2 DEF CutMerged
      <4>4. hi + 1 \in Addr
        BY <4>3 DEF Span, Laid
      <4> QED BY <1>1, <3>2, <4>3, <4>4 DEF WritesIn
    <3> QED BY <3>1, <3>2
  <2> QED BY <1>2, <2>1, <2>2
<1>11. m2 \in [Addr -> Int] /\ SlotsApart(mn, en)
  BY DEF WritesIn, Laid
<1>12. Laid(m2, C, mn, en)
  BY <1>3, <1>6, <1>7, <1>8, <1>9, <1>10, <1>11 DEF Laid
<1> QED BY <1>12 DEF C

\* One block is such an interval.
LEMMA SpanOne ==
    ASSUME NEW m, NEW B, NEW mn, NEW en, Laid(m, B, mn, en), NEW b \in B,
           NEW i \in Slots, Within(mn, en, i, b), NEW N
    PROVE  /\ Span(m, B, mn, en, i, b, BlockEnd(m, b))
           /\ CutAt(B, N, b, BlockEnd(m, b)) = (B \ {b}) \cup N
<1> DEFINE hi == BlockEnd(m, b)
<1>1. /\ b \in Int /\ hi \in Int /\ hi \in Addr /\ b + 2 <= hi
      /\ \A c \in B : c > b => c > hi
  BY BlockFacts
<1>2. \A c \in B : c \in Int /\ BlockEnd(m, c) \in Int /\ (c < b => BlockEnd(m, c) < b)
  BY <1>1, BlockFacts
<1>3. hi <= en[i] /\ (hi # en[i] => hi + 1 \in B)
  BY BlockInRegion
<1> HIDE DEF hi
<1>4. \A c \in B : BlockEnd(m, c) < b \/ c > hi \/ c = b
  BY <1>1, <1>2
<1>5. \A c \in B : BlockEnd(m, c) < b \/ c > hi \/ (b <= c /\ BlockEnd(m, c) <= hi)
  BY <1>1, <1>4 DEF hi
<1>6. Span(m, B, mn, en, i, b, hi)
  BY <1>1, <1>3, <1>5 DEF Span
<1>7. \A c \in B : (c < b \/ c > hi) <=> c # b
  BY <1>1, <1>2
<1>8. CutAt(B, N, b, hi) = (B \ {b}) \cup N
  BY <1>7 DEF CutAt
<1> QED BY <1>6, <1>8 DEF hi

\* Tag x at lo and at hi: one block.
LEMMA CutOne ==
    ASSUME NEW m2 \in [Addr -> Int], NEW lo \in Addr, NEW hi \in Addr,
           m2[lo] # 0, AbsInt(m2[lo]) = hi - lo - 1, m2[hi] = m2[lo]
    PROVE  Cut(m2, {lo}, lo, hi) /\ BlockEnd(m2, lo) = hi
<1>1. lo \in Int /\ hi \in Int /\ m2[lo] \in Int
  BY Addresses
<1>2. BlockEnd(m2, lo) = hi
  BY <1>1 DEF BlockEnd
<1>3. AbsInt(m2[lo]) \in Nat
  BY <1>1, AbsIntFacts
<1> QED BY <1>1, <1>2, <1>3 DEF Cut

\* A tag at lo and below mid, another at mid and at hi: two blocks.
LEMMA CutTwo ==
    ASSUME NEW m2 \in [Addr -> Int], NEW lo \in Addr, NEW mid \in Addr, NEW hi \in Addr,
           m2[lo] # 0, AbsInt(m2[lo]) = mid - lo - 2, m2[mid - 1] = m2[lo],
           m2[mid] # 0, AbsInt(m2[mid]) = hi - mid - 1, m2[hi] = m2[mid]
    PROVE  /\ Cut(m2, {lo, mid}, lo, hi)
           /\ BlockEnd(m2, lo) = mid - 1
           /\ BlockEnd(m2, mid) = hi
<1>1. lo \in Int /\ mid \in Int /\ hi \in Int /\ m2[lo] \in Int /\ m2[mid] \in Int
  BY Addresses
<1>2. BlockEnd(m2, lo) = mid - 1 /\ BlockEnd(m2, mid) = hi
  BY <1>1 DEF BlockEnd
<1>3. AbsInt(m2[lo]) \in Nat /\ AbsInt(m2[mid]) \in Nat
  BY <1>1, AbsIntFacts
<1>4. lo < mid /\ mid < hi /\ mid - 1 < hi /\ mid - 1 >= lo /\ mid - 1 # hi /\ (mid - 1) + 1 = mid
  BY <1>1, <1>3
<1>5. {lo, mid} \subseteq lo..hi
  BY <1>1, <1>4
<1>6. \A n \in {lo, mid} : m2[n] # 0 /\ m2[n] = m2[BlockEnd(m2, n)]
  BY <1>2
<1>7. \A n \in {lo, mid} : /\ BlockEnd(m2, n) <= hi
                           /\ BlockEnd(m2, n) # hi => BlockEnd(m2, n) + 1 \in {lo, mid}
  BY <1>1, <1>2, <1>4
<1>8. \A n, c \in {lo, mid} : c > n => c > BlockEnd(m2, n)
  BY <1>1, <1>2, <1>4
<1> QED BY <1>2, <1>5, <1>6, <1>7, <1>8 DEF Cut

-----------------------------------------------------------------------------
(* Writing words *)

\* t is m with tag n at b and at e.
TagsAt(t, m, b, e, n) ==
    /\ t \in [Addr -> Int]
    /\ t[b] = n /\ t[e] = n
    /\ \A a \in Addr : a # b /\ a # e => t[a] = m[a]

\* WriteTags writes both tags.
LEMMA TagsWritten ==
    ASSUME NEW m \in [Addr -> Int], NEW b \in Addr, NEW e \in Addr, NEW n \in Int,
           e = b + AbsInt(n) + 1
    PROVE  TagsAt(WriteTags(m, b, n), m, b, e, n)
<1>1. WriteTags(m, b, n) = [m EXCEPT ![b] = n, ![e] = n]
  BY DEF WriteTags
<1> QED BY <1>1 DEF TagsAt

\* t is m with w in the words from .. to.
FilledIn(t, m, from, to, w) ==
    /\ t \in [Addr -> Int]
    /\ \A a \in Addr : from <= a /\ a <= to => t[a] = w
    /\ \A a \in Addr : a < from \/ a > to => t[a] = m[a]

\* Fill writes them.
LEMMA Filled ==
    ASSUME NEW m \in [Addr -> Int], NEW from \in Int, NEW to \in Int, NEW w \in Int
    PROVE  FilledIn(Fill(m, from, to, w), m, from, to, w)
<1>1. \A a \in Addr : a \in from..to <=> from <= a /\ a <= to
  BY Addresses
<1>2. \A a \in Addr : a < from \/ a > to <=> a \notin from..to
  BY Addresses
<1> QED BY <1>1, <1>2 DEF Fill, FilledIn

-----------------------------------------------------------------------------
(* An allocation *)

\* The hole at b is cut into a hole and a new block, in either order.
Halves(b, hole, new, data, rest) ==
    \/ new = b /\ hole = b + data + 2
    \/ hole = b /\ new = b + rest + 2

\* Where the two parts lie.
LEMMA HalvesPlaced ==
    ASSUME NEW b \in Int, NEW e \in Int, NEW data \in Nat, NEW rest \in Nat,
           data >= 1, rest >= 1, e = b + rest + data + 3,
           NEW hole, NEW new, Halves(b, hole, new, data, rest)
    PROVE  /\ hole \in Int /\ new \in Int /\ hole # new
           /\ b <= hole /\ hole + rest + 1 <= e
           /\ b <= new /\ new + data + 1 <= e
           /\ new + data + 1 < hole \/ hole + rest + 1 < new
BY DEF Halves

\* The memory after the hole at b was split.
SplitMem(m, hole, new, data, rest) ==
    WriteData(WriteTags(WriteTags(WriteHole(m, hole), hole, -rest), new, data), new, data)

\* It has the tags of both parts, and is m outside b..e.
HasHalves(m, m2, b, e, hole, new, data, rest) ==
    /\ WritesIn(m, m2, b, e)
    /\ hole \in Addr /\ hole + rest + 1 \in Addr
    /\ new \in Addr /\ new + data + 1 \in Addr
    /\ m2[hole] = -rest /\ m2[hole + rest + 1] = -rest
    /\ m2[new] = data /\ m2[new + data + 1] = data

\* It does.
LEMMA SplitWords ==
    ASSUME NEW m \in [Addr -> Int], NEW b \in Addr, NEW e \in Addr,
           NEW data \in Nat, NEW rest \in Nat,
           data >= 1, rest >= HOLE_T_SIZE, e = b + rest + data + 3,
           NEW hole, NEW new, Halves(b, hole, new, data, rest),
           NEW m2, m2 = SplitMem(m, hole, new, data, rest)
    PROVE  HasHalves(m, m2, b, e, hole, new, data, rest)
<1>1. HOLE_T_SIZE \in Nat /\ HOLE_T_SIZE >= 1 /\ LinkWord \in Int /\ DataWord \in Int
  BY SizesAssumption
<1>2. b \in Int /\ e \in Int /\ rest >= 1
  BY <1>1, Addresses
<1>3. /\ hole \in Int /\ new \in Int /\ hole # new
      /\ b <= hole /\ hole + rest + 1 <= e
      /\ b <= new /\ new + data + 1 <= e
      /\ new + data + 1 < hole \/ hole + rest + 1 < new
  BY <1>2, HalvesPlaced
<1> DEFINE he == hole + rest + 1
           ne == new + data + 1
           m3 == WriteHole(m, hole)
           m4 == WriteTags(m3, hole, -rest)
           m5 == WriteTags(m4, new, data)
<1>4. /\ he \in Int /\ ne \in Int /\ hole < he /\ new < ne /\ he <= e /\ ne <= e
      /\ hole + HOLE_T_SIZE < he /\ new + data < ne /\ -rest \in Int
      /\ hole + HOLE_T_SIZE \in Int /\ new + data \in Int
  BY <1>1, <1>2, <1>3
<1>5. hole \in Addr /\ he \in Addr /\ new \in Addr /\ ne \in Addr
  BY <1>2, <1>3, <1>4, Addresses
<1>6. m2 = Fill(m5, new + 1, new + data, DataWord)
  BY DEF SplitMem, WriteData
<1>7. m3 = Fill(m, hole + 1, hole + HOLE_T_SIZE, LinkWord)
  BY DEF WriteHole
<1>8. AbsInt(-rest) = rest /\ AbsInt(data) = data
  BY AbsIntFacts
<1>9. FilledIn(m3, m, hole + 1, hole + HOLE_T_SIZE, LinkWord) /\ m3 \in [Addr -> Int]
  BY <1>1, <1>3, <1>4, <1>7, Filled DEF FilledIn
<1>10. TagsAt(m4, m3, hole, he, -rest) /\ m4 \in [Addr -> Int]
  <2>1. he = hole + AbsInt(-rest) + 1
    BY <1>8
  <2>2. -rest \in Int
    BY <1>4
  <2> HIDE DEF he, m3
  <2>3. TagsAt(m4, m3, hole, he, -rest)
    BY <1>5, <1>9, <2>1, <2>2, TagsWritten, Zenon
  <2> QED BY <2>3 DEF TagsAt
<1>11. TagsAt(m5, m4, new, ne, data) /\ m5 \in [Addr -> Int]
  <2>1. ne = new + AbsInt(data) + 1
    BY <1>8
  <2>2. data \in Int
    OBVIOUS
  <2> HIDE DEF ne, m4
  <2>3. TagsAt(m5, m4, new, ne, data)
    BY <1>5, <1>10, <2>1, <2>2, TagsWritten, Zenon
  <2> QED BY <2>3 DEF TagsAt
<1> HIDE DEF he, ne, m3, m4, m5
<1>12. FilledIn(m2, m5, new + 1, new + data, DataWord)
  BY <1>1, <1>3, <1>4, <1>6, <1>11, Filled
<1>13. m2[new] = data /\ m2[ne] = data
  BY <1>3, <1>4, <1>5, <1>11, <1>12 DEF TagsAt, FilledIn
<1>14. m2[hole] = m5[hole] /\ m2[he] = m5[he]
  <2>1. /\ hole < new + 1 \/ hole > new + data
        /\ he < new + 1 \/ he > new + data
    BY <1>3, <1>4 DEF he, ne
  <2> QED BY <1>5, <1>12, <2>1 DEF FilledIn
<1>15. m5[hole] = m4[hole] /\ m5[he] = m4[he]
  <2>1. hole # new /\ hole # ne /\ he # new /\ he # ne
    BY <1>3, <1>4 DEF he, ne
  <2> QED BY <1>5, <1>11, <2>1 DEF TagsAt
<1>16. m2[hole] = -rest /\ m2[he] = -rest
  BY <1>10, <1>14, <1>15 DEF TagsAt
<1>17. ASSUME NEW a \in Addr, a < b \/ a > e PROVE m2[a] = m[a]
  <2>1. /\ a < new + 1 \/ a > new + data
        /\ a < hole + 1 \/ a > hole + HOLE_T_SIZE
        /\ a # new /\ a # ne /\ a # hole /\ a # he
    BY <1>1, <1>2, <1>3, <1>4, <1>17, Addresses
  <2>2. m2[a] = m5[a]
    BY <1>12, <2>1 DEF FilledIn
  <2>3. m5[a] = m4[a] /\ m4[a] = m3[a]
    BY <1>10, <1>11, <2>1 DEF TagsAt
  <2>4. m3[a] = m[a]
    BY <1>9, <2>1 DEF FilledIn
  <2> QED BY <2>2, <2>3, <2>4
<1>18. WritesIn(m, m2, b, e)
  BY <1>12, <1>17 DEF WritesIn, FilledIn
<1> QED BY <1>5, <1>13, <1>16, <1>18 DEF he, ne, HasHalves

\* What a split makes of the hole at b.
IsSplit(m, B, mn, en, m2, b, hole, new, data, rest) ==
    /\ WritesIn(m, m2, b, BlockEnd(m, b))
    /\ hole \in Addr /\ new \in Addr /\ hole # new
    /\ b <= hole /\ hole <= BlockEnd(m, b)
    /\ b <= new /\ new <= BlockEnd(m, b)
    /\ m2[hole] = -rest /\ m2[new] = data
    /\ Laid(m2, (B \ {b}) \cup {hole, new}, mn, en)

\* AllocSplit keeps the regions tiled.
LEMMA SplitBlock ==
    ASSUME NEW m, NEW B, NEW mn, NEW en, Laid(m, B, mn, en), NEW b \in B,
           NEW data \in Nat, NEW rest \in Nat,
           data >= 1, rest >= HOLE_T_SIZE, m[b] = -(rest + data + 2),
           NEW hole, NEW new, Halves(b, hole, new, data, rest),
           NEW m2, m2 = SplitMem(m, hole, new, data, rest)
    PROVE  IsSplit(m, B, mn, en, m2, b, hole, new, data, rest)
<1> DEFINE e == BlockEnd(m, b)
<1>1. m \in [Addr -> Int] /\ HOLE_T_SIZE \in Nat /\ HOLE_T_SIZE >= 1
  BY LaidTypes, SizesAssumption
<1>2. /\ b \in Addr /\ b \in Int /\ e \in Addr /\ e \in Int /\ m[b] < 0
      /\ e = b + rest + data + 3
  BY BlockFacts
<1> HIDE DEF e
<1>3. /\ WritesIn(m, m2, b, e)
      /\ hole \in Addr /\ hole + rest + 1 \in Addr
      /\ new \in Addr /\ new + data + 1 \in Addr
      /\ m2[hole] = -rest /\ m2[hole + rest + 1] = -rest
      /\ m2[new] = data /\ m2[new + data + 1] = data
  <2>1. HasHalves(m, m2, b, e, hole, new, data, rest)
    BY <1>1, <1>2, SplitWords, Zenon
  <2> QED BY <2>1 DEF HasHalves
<1>4. /\ hole \in Int /\ new \in Int /\ hole # new
      /\ b <= hole /\ hole + rest + 1 <= e
      /\ b <= new /\ new + data + 1 <= e
  <2>1. rest >= 1
    BY <1>1
  <2> QED BY <1>2, <2>1, HalvesPlaced, Zenon
<1>5. m2 \in [Addr -> Int] /\ AbsInt(-rest) = rest /\ AbsInt(data) = data
  BY <1>3, AbsIntFacts DEF WritesIn
<1>6. PICK i \in Slots : Within(mn, en, i, b)
  BY BlockInRegion
<1>7. /\ e # en[i] => m[e + 1] > 0
      /\ b # mn[i] => m[b - 1] > 0
  <2>1. Single(m, mn, en, b)
    BY DEF Laid
  <2>2. e # en[i] => m[e + 1] > 0
    BY <1>2, <1>6, <2>1 DEF Single, e
  <2>3. b # mn[i] => m[b - 1] > 0
    BY <1>2, <1>6, BelowFree
  <2> QED BY <2>2, <2>3
<1>8. Span(m, B, mn, en, i, b, e)
      /\ CutAt(B, {hole, new}, b, e) = (B \ {b}) \cup {hole, new}
  BY <1>6, SpanOne DEF e
<1>9. Cut(m2, {hole, new}, b, e) /\ CutMerged(m, m2, {hole, new}, mn, en, i, b, e)
  <2>1. CASE new = b /\ hole = b + data + 2
    <3>1. /\ m2[b] = data /\ m2[hole - 1] = data
          /\ m2[e] = -rest /\ AbsInt(m2[b]) = hole - b - 2
          /\ AbsInt(m2[hole]) = e - hole - 1
      <4>1. hole - 1 = new + data + 1 /\ e = hole + rest + 1
        BY <1>2, <2>1
      <4> QED BY <1>2, <1>3, <1>5, <2>1, <4>1
    <3>2. Cut(m2, {b, hole}, b, e) /\ BlockEnd(m2, b) = hole - 1 /\ BlockEnd(m2, hole) = e
      BY <1>1, <1>2, <1>3, <1>5, <3>1, CutTwo
    <3>3. {hole, new} = {b, hole}
      BY <2>1
    <3>4. CutMerged(m, m2, {b, hole}, mn, en, i, b, e)
      BY <1>7, <3>1, <3>2 DEF CutMerged
    <3> QED BY <3>2, <3>3, <3>4
  <2>2. CASE hole = b /\ new = b + rest + 2
    <3>1. /\ m2[b] = -rest /\ m2[new - 1] = -rest
          /\ m2[e] = data /\ AbsInt(m2[b]) = new - b - 2
          /\ AbsInt(m2[new]) = e - new - 1
      <4>1. new - 1 = hole + rest + 1 /\ e = new + data + 1
        BY <1>2, <2>2
      <4> QED BY <1>2, <1>3, <1>5, <2>2, <4>1
    <3>2. Cut(m2, {b, new}, b, e) /\ BlockEnd(m2, b) = new - 1 /\ BlockEnd(m2, new) = e
      BY <1>1, <1>2, <1>3, <1>5, <3>1, CutTwo
    <3>3. {hole, new} = {b, new}
      BY <2>2
    <3>4. (new - 1) + 1 = new
      BY <1>4
    <3>5. CutMerged(m, m2, {b, new}, mn, en, i, b, e)
      BY <1>3, <1>7, <3>1, <3>2, <3>4 DEF CutMerged
    <3> QED BY <3>2, <3>3, <3>5
  <2> QED BY <2>1, <2>2 DEF Halves
<1>10. Laid(m2, (B \ {b}) \cup {hole, new}, mn, en)
  <2>1. Laid(m2, CutAt(B, {hole, new}, b, e), mn, en)
    BY <1>3, <1>8, <1>9, Reblock
  <2> QED BY <1>8, <2>1
<1>11. hole <= e /\ new <= e
  BY <1>2, <1>4
<1> QED BY <1>3, <1>4, <1>10, <1>11 DEF IsSplit, e

\* AllocWhole keeps the regions tiled.
LEMMA WholeBlock ==
    ASSUME NEW m, NEW B, NEW mn, NEW en, Laid(m, B, mn, en), NEW b \in B, m[b] < 0,
           NEW m2, m2 = WriteData(WriteTags(m, b, -m[b]), b, -m[b])
    PROVE  /\ WritesIn(m, m2, b, BlockEnd(m, b))
           /\ m2[b] = -m[b]
           /\ Laid(m2, B, mn, en)
<1> DEFINE e == BlockEnd(m, b)
           n == -m[b]
           m3 == WriteTags(m, b, n)
<1>1. m \in [Addr -> Int] /\ DataWord \in Int
  BY LaidTypes, SizesAssumption
<1>2. /\ b \in Addr /\ b \in Int /\ e \in Addr /\ e \in Int
      /\ n \in Int /\ n > 0 /\ e = b + n + 1
  BY BlockFacts
<1>3. m2 = Fill(m3, b + 1, b + n, DataWord)
  BY DEF WriteData
<1> HIDE DEF e, n
<1>4. TagsAt(m3, m, b, e, n) /\ m3 \in [Addr -> Int] /\ AbsInt(n) = n
  <2>1. AbsInt(n) = n
    BY <1>2, AbsIntFacts
  <2> QED BY <1>1, <1>2, <2>1, TagsWritten DEF TagsAt
<1> HIDE DEF m3
<1>5. FilledIn(m2, m3, b + 1, b + n, DataWord)
  BY <1>1, <1>2, <1>3, <1>4, Filled
<1>6. m2 \in [Addr -> Int] /\ m2[b] = n /\ m2[e] = n
  BY <1>2, <1>4, <1>5 DEF FilledIn, TagsAt
<1>7. WritesIn(m, m2, b, e)
  <2> SUFFICES ASSUME NEW a \in Addr, a < b \/ a > e PROVE m2[a] = m[a]
    BY <1>6 DEF WritesIn
  <2>1. (a < b + 1 \/ a > b + n) /\ a # b /\ a # e
    BY <1>2, Addresses
  <2> QED BY <1>4, <1>5, <2>1 DEF FilledIn, TagsAt
<1>8. PICK i \in Slots : Within(mn, en, i, b)
  BY BlockInRegion
<1>9. Span(m, B, mn, en, i, b, e) /\ CutAt(B, {b}, b, e) = (B \ {b}) \cup {b}
  BY <1>8, SpanOne DEF e
<1>10. Cut(m2, {b}, b, e)
  BY <1>2, <1>4, <1>6, CutOne
<1>11. CutMerged(m, m2, {b}, mn, en, i, b, e)
  BY <1>2, <1>6 DEF CutMerged
<1>12. Laid(m2, CutAt(B, {b}, b, e), mn, en)
  BY <1>7, <1>8, <1>9, <1>10, <1>11, Reblock
<1>13. CutAt(B, {b}, b, e) = B
  BY <1>9
<1> QED BY <1>6, <1>7, <1>12, <1>13 DEF e, n

-----------------------------------------------------------------------------
(* A free *)

\* Whether the neighbours of the block at b are free, and the interval that
\* the block makes with those that are.
Merges(m, mn, en, b, r, below, above, lo, hi) ==
    /\ below \in BOOLEAN /\ above \in BOOLEAN
    /\ below <=> b # mn[r] /\ m[b - 1] < 0
    /\ above <=> BlockEnd(m, b) # en[r] /\ m[BlockEnd(m, b) + 1] < 0
    /\ lo = IF below THEN b - (2 - m[b - 1]) ELSE b
    /\ hi = IF above THEN BlockEnd(m, b) + (2 - m[BlockEnd(m, b) + 1]) ELSE BlockEnd(m, b)

\* The part of it below the block.
MergesBelow(m, B, mn, en, b, r, below, lo) ==
    /\ lo \in B /\ Within(mn, en, r, lo)
    /\ below => /\ lo + 3 <= b
                /\ BlockEnd(m, lo) = b - 1
                /\ m[lo] = m[b - 1] /\ m[lo] < 0
    /\ ~below => lo = b
    /\ lo # mn[r] => m[lo - 1] > 0

\* The part of it above the block.
MergesAbove(m, B, mn, en, b, r, above, hi) ==
    /\ hi \in Addr /\ hi <= en[r]
    /\ above => /\ BlockEnd(m, b) + 1 \in B
                /\ BlockEnd(m, BlockEnd(m, b) + 1) = hi
                /\ m[hi] = m[BlockEnd(m, b) + 1] /\ m[BlockEnd(m, b) + 1] < 0
    /\ ~above => hi = BlockEnd(m, b)
    /\ hi # en[r] => hi + 1 \in B /\ m[hi + 1] > 0

\* Below the block is another block, free or not, or the region starts.
LEMMA BelowFound ==
    ASSUME NEW m, NEW B, NEW mn, NEW en, Laid(m, B, mn, en), NEW b \in B,
           NEW r \in Slots, Within(mn, en, r, b), NEW below, NEW above, NEW lo, NEW hi,
           Merges(m, mn, en, b, r, below, above, lo, hi)
    PROVE  MergesBelow(m, B, mn, en, b, r, below, lo)
<1>1. b \in Int /\ mn[r] \in Int /\ en[r] \in Int
  BY LaidTypes
<1>2. CASE below
  <2>1. b # mn[r] /\ m[b - 1] < 0 /\ lo = b - (2 - m[b - 1])
    BY <1>2 DEF Merges
  <2>2. PICK c \in B : Within(mn, en, r, c) /\ c < b /\ BlockEnd(m, c) = b - 1
    BY <2>1, Predecessor
  <2>3. /\ c \in Int /\ m[c] \in Int /\ m[b - 1] = m[c] /\ m[c] < 0
        /\ BlockEnd(m, c) = c - m[c] + 1
    BY <2>1, <2>2, BlockFacts
  <2>4. lo = c /\ lo + 3 <= b
    BY <1>1, <2>1, <2>2, <2>3
  <2>5. lo # mn[r] => m[lo - 1] > 0
    BY <2>2, <2>3, <2>4, BelowFree
  <2> QED BY <1>2, <2>2, <2>3, <2>4, <2>5 DEF MergesBelow
<1>3. CASE ~below
  <2>1. lo = b /\ (b # mn[r] => ~(m[b - 1] < 0))
    BY <1>3 DEF Merges
  <2>2. ASSUME b # mn[r] PROVE m[b - 1] > 0
    <3>1. PICK c \in B : Within(mn, en, r, c) /\ c < b /\ BlockEnd(m, c) = b - 1
      BY <2>2, Predecessor
    <3>2. m[c] \in Int /\ m[b - 1] = m[c] /\ m[c] # 0
      BY <3>1, BlockFacts
    <3> QED BY <2>1, <2>2, <3>2
  <2> QED BY <1>3, <2>1, <2>2 DEF MergesBelow
<1>4. below \in BOOLEAN
  BY DEF Merges
<1> QED BY <1>2, <1>3, <1>4

\* Above the block is another block, free or not, or the region ends.
LEMMA AboveFound ==
    ASSUME NEW m, NEW B, NEW mn, NEW en, Laid(m, B, mn, en), NEW b \in B,
           NEW r \in Slots, Within(mn, en, r, b), NEW below, NEW above, NEW lo, NEW hi,
           Merges(m, mn, en, b, r, below, above, lo, hi)
    PROVE  MergesAbove(m, B, mn, en, b, r, above, hi)
<1> DEFINE top == BlockEnd(m, b)
<1>1. /\ b \in Int /\ mn[r] \in Int /\ en[r] \in Int /\ top \in Int /\ top \in Addr
      /\ b + 2 <= top /\ mn[r] <= b /\ mn[r] # 0
  BY LaidTypes, BlockFacts DEF Within
<1>2. top <= en[r] /\ (top # en[r] => top + 1 \in B)
  BY BlockInRegion
<1>3. top # en[r] => Within(mn, en, r, top + 1)
  BY <1>1, <1>2 DEF Within
<1>4. /\ above <=> top # en[r] /\ m[top + 1] < 0
      /\ hi = IF above THEN top + (2 - m[top + 1]) ELSE top
      /\ above \in BOOLEAN
  BY DEF Merges
<1> HIDE DEF top
<1>5. CASE above
  <2>1. /\ top # en[r] /\ m[top + 1] < 0 /\ hi = top + (2 - m[top + 1])
        /\ top + 1 \in B /\ Within(mn, en, r, top + 1)
    BY <1>2, <1>3, <1>4, <1>5
  <2>2. /\ m[top + 1] \in Int /\ BlockEnd(m, top + 1) = (top + 1) - m[top + 1] + 1
        /\ BlockEnd(m, top + 1) \in Addr
        /\ m[BlockEnd(m, top + 1)] = m[top + 1]
    BY <2>1, BlockFacts
  <2>3. BlockEnd(m, top + 1) = hi
    BY <1>1, <2>1, <2>2
  <2>4. hi <= en[r] /\ (hi # en[r] => hi + 1 \in B)
    BY <2>1, <2>3, BlockInRegion
  <2>5. hi # en[r] => m[hi + 1] > 0
    BY <2>1, <2>3 DEF Laid, Single
  <2> QED BY <1>5, <2>1, <2>2, <2>3, <2>4, <2>5 DEF MergesAbove, top
<1>6. CASE ~above
  <2>1. hi = top
    BY <1>4, <1>6
  <2>2. ASSUME hi # en[r] PROVE hi + 1 \in B /\ m[hi + 1] > 0
    <3>1. hi + 1 \in B /\ ~(m[hi + 1] < 0)
      BY <1>2, <1>4, <1>6, <2>1, <2>2
    <3>2. m[hi + 1] \in Int /\ m[hi + 1] # 0
      BY <3>1, BlockFacts
    <3> QED BY <3>1, <3>2
  <2> QED BY <1>1, <1>2, <1>6, <2>1, <2>2 DEF MergesAbove, top
<1> QED BY <1>4, <1>5, <1>6

\* The starts of the blocks a merge consumes, but for the lowest.
Swallowed(m, b, above) == {b} \cup (IF above THEN {BlockEnd(m, b) + 1} ELSE {})

\* The interval consists of the block and its free neighbours.
MergesSpan(m, B, mn, en, b, r, above, lo, hi) ==
    /\ Span(m, B, mn, en, r, lo, hi)
    /\ CutAt(B, {lo}, lo, hi) = (B \ Swallowed(m, b, above)) \cup {lo}
    /\ lo <= b /\ BlockEnd(m, b) <= hi
    /\ \A c \in B : lo <= c /\ c <= hi => c = lo \/ c \in Swallowed(m, b, above)

\* It does.
LEMMA MergedSpan ==
    ASSUME NEW m, NEW B, NEW mn, NEW en, Laid(m, B, mn, en), NEW b \in B,
           NEW r \in Slots, Within(mn, en, r, b), NEW below, NEW above, NEW lo, NEW hi,
           Merges(m, mn, en, b, r, below, above, lo, hi)
    PROVE  MergesSpan(m, B, mn, en, b, r, above, lo, hi)
<1> DEFINE top == BlockEnd(m, b)
<1>1. MergesBelow(m, B, mn, en, b, r, below, lo) /\ MergesAbove(m, B, mn, en, b, r, above, hi)
  BY BelowFound, AboveFound
<1>2. below \in BOOLEAN /\ above \in BOOLEAN
  BY DEF Merges
<1>3. /\ b \in Int /\ top \in Int /\ b + 2 <= top
      /\ \A c \in B : c > b => c > top
  BY BlockFacts
<1>4. lo \in B /\ lo \in Int /\ hi \in Int
  BY <1>1, LaidTypes, Addresses DEF MergesBelow, MergesAbove
<1>5. lo <= b /\ (lo = b \/ BlockEnd(m, lo) = b - 1)
  BY <1>1, <1>2, <1>3, <1>4 DEF MergesBelow
<1>6. /\ above => /\ top + 1 \in B /\ BlockEnd(m, top + 1) = hi /\ top + 3 <= hi
                  /\ \A c \in B : c > top + 1 => c > hi
      /\ ~above => hi = top
  <2>1. above => /\ top + 1 \in B /\ BlockEnd(m, top + 1) = hi
    BY <1>1 DEF MergesAbove
  <2>2. above => (top + 1) + 2 <= hi /\ \A c \in B : c > top + 1 => c > hi
    BY <2>1, BlockFacts
  <2>3. ~above => hi = top
    BY <1>1 DEF MergesAbove
  <2> QED BY <1>3, <1>4, <2>1, <2>2, <2>3
<1>7. top <= hi
  BY <1>2, <1>3, <1>4, <1>6
<1>8. \A c \in B : /\ c \in Int /\ BlockEnd(m, c) \in Int
                   /\ \A d \in B : d > c => d > BlockEnd(m, c)
  BY BlockFacts
<1> HIDE DEF top
<1>9. \A c \in B : \/ c < lo /\ BlockEnd(m, c) < lo
                   \/ c > hi
                   \/ c = lo
                   \/ c = b
                   \/ above /\ c = top + 1
  <2> SUFFICES ASSUME NEW c \in B, ~(c < lo), ~(c > hi), c # lo, c # b
               PROVE  above /\ c = top + 1
    BY <1>4, <1>8
  <2>1. c \in Int /\ c > lo /\ c <= hi
    BY <1>4, <1>8
  <2>2. c > b
    BY <1>3, <1>4, <1>5, <1>8, <2>1
  <2>3. c > top
    BY <1>3, <2>2
  <2> QED BY <1>2, <1>3, <1>4, <1>6, <2>1, <2>3
<1>10. \A c \in B : lo <= c /\ c <= hi => c = lo \/ c \in Swallowed(m, b, above)
  BY <1>4, <1>8, <1>9 DEF Swallowed, top
<1>11. Swallowed(m, b, above) \subseteq lo..hi
  <2>1. b \in lo..hi
    BY <1>3, <1>4, <1>5, <1>7
  <2>2. above => top + 1 \in lo..hi
    BY <1>3, <1>4, <1>5, <1>6
  <2> QED BY <1>2, <2>1, <2>2 DEF Swallowed, top
<1>12. CutAt(B, {lo}, lo, hi) = (B \ Swallowed(m, b, above)) \cup {lo}
  <2>1. \A c \in B : (c < lo \/ c > hi) <=> c \notin lo..hi
    BY <1>4, <1>8
  <2>2. \A c \in B : c \in lo..hi => c = lo \/ c \in Swallowed(m, b, above)
    BY <1>4, <1>8, <1>10
  <2>3. CutAt(B, {lo}, lo, hi) = {c \in B : c \notin lo..hi} \cup {lo}
    BY <2>1 DEF CutAt
  <2>4. lo \in lo..hi
    BY <1>3, <1>4, <1>5, <1>7
  <2> HIDE DEF top
  <2> QED BY <1>11, <2>2, <2>3, <2>4
<1>13. \A c \in B : BlockEnd(m, c) < lo \/ c > hi \/ (lo <= c /\ BlockEnd(m, c) <= hi)
  <2>1. BlockEnd(m, lo) <= hi
    BY <1>3, <1>4, <1>5, <1>7, <1>8 DEF top
  <2>2. BlockEnd(m, b) <= hi
    BY <1>7 DEF top
  <2>3. above => lo <= top + 1 /\ BlockEnd(m, top + 1) <= hi
    BY <1>3, <1>4, <1>5, <1>6
  <2> QED BY <1>3, <1>4, <1>5, <1>8, <1>9, <2>1, <2>2, <2>3
<1>14. Span(m, B, mn, en, r, lo, hi)
  BY <1>1, <1>4, <1>13 DEF Span, MergesBelow, MergesAbove
<1> QED BY <1>5, <1>7, <1>10, <1>12, <1>14 DEF top, MergesSpan

\* The memory after the merge; keeps says that no hole_t is written.
MergedMem(own, lo, merged, keeps) ==
    WriteTags(IF keeps THEN own ELSE WriteHole(own, lo), lo, -merged)

\* The words of lo..hi after the merge of the block at b, whose size was n:
\* tags at both ends, and further up what was there, n as free, or a link.
MergedWords(m, m2, b, n, lo, hi) ==
    /\ WritesIn(m, m2, lo, hi)
    /\ m2[lo] = -(hi - lo - 1) /\ m2[hi] = -(hi - lo - 1)
    /\ \A a \in Addr : lo + 3 <= a /\ a < hi =>
          \/ m2[a] = -n
          \/ m2[a] = m[a] /\ a # b
          \/ HOLE_T_SIZE > 2 /\ m2[a] = LinkWord

\* The merge writes them.
LEMMA MergeWrites ==
    ASSUME NEW m \in [Addr -> Int], NEW b \in Addr, NEW n \in Int, n > 0,
           b + n + 1 \in Addr,
           NEW lo \in Addr, NEW hi \in Addr, lo <= b, b + n + 1 <= hi,
           NEW keeps \in BOOLEAN, ~keeps => hi - lo - 1 >= HOLE_T_SIZE,
           NEW m2, m2 = MergedMem(Invalidate(m, b, n), lo, hi - lo - 1, keeps)
    PROVE  MergedWords(m, m2, b, n, lo, hi)
<1> DEFINE own == Invalidate(m, b, n)
           top == b + n + 1
           merged == hi - lo - 1
           m3 == IF keeps THEN own ELSE WriteHole(own, lo)
<1>1. HOLE_T_SIZE \in Nat /\ HOLE_T_SIZE >= 1 /\ LinkWord \in Int
  BY SizesAssumption
<1>2. /\ b \in Int /\ lo \in Int /\ hi \in Int /\ top \in Int /\ top \in Addr
      /\ merged \in Int /\ merged > 0 /\ top <= hi /\ b < top
  BY Addresses
<1>3. TagsAt(own, m, b, top, -n) /\ own \in [Addr -> Int]
  <2>1. top = b + AbsInt(-n) + 1 /\ -n \in Int
    BY AbsIntFacts
  <2>2. own = WriteTags(m, b, -n)
    BY DEF Invalidate
  <2> HIDE DEF top
  <2>3. TagsAt(WriteTags(m, b, -n), m, b, top, -n)
    BY <1>2, <2>1, TagsWritten, Zenon
  <2> QED BY <2>2, <2>3 DEF TagsAt
<1>4. m2 = WriteTags(m3, lo, -merged)
  BY DEF MergedMem
<1> HIDE DEF own, top, merged
<1>5. /\ m3 \in [Addr -> Int]
      /\ \A a \in Addr : a < lo \/ a >= hi => m3[a] = own[a]
      /\ \A a \in Addr : lo + 3 <= a =>
            m3[a] = own[a] \/ (HOLE_T_SIZE > 2 /\ m3[a] = LinkWord)
  <2>1. CASE keeps
    BY <1>3, <2>1
  <2>2. CASE ~keeps
    <3>1. m3 = Fill(own, lo + 1, lo + HOLE_T_SIZE, LinkWord)
      BY <2>2 DEF WriteHole
    <3>2. lo + 1 \in Int /\ lo + HOLE_T_SIZE \in Int /\ lo + HOLE_T_SIZE < hi
      BY <1>1, <1>2, <2>2 DEF merged
    <3>3. FilledIn(m3, own, lo + 1, lo + HOLE_T_SIZE, LinkWord)
      BY <1>1, <1>3, <3>1, <3>2, Filled
    <3>4. \A a \in Addr : a < lo \/ a >= hi => m3[a] = own[a]
      BY <1>2, <3>2, <3>3, Addresses DEF FilledIn
    <3>5. \A a \in Addr : lo + 3 <= a =>
            m3[a] = own[a] \/ (HOLE_T_SIZE > 2 /\ m3[a] = LinkWord)
      <4> SUFFICES ASSUME NEW a \in Addr, lo + 3 <= a, m3[a] # own[a]
                   PROVE  HOLE_T_SIZE > 2 /\ m3[a] = LinkWord
        OBVIOUS
      <4>1. a \in Int /\ ~(a < lo + 1) /\ ~(a > lo + HOLE_T_SIZE)
        BY <3>3, Addresses DEF FilledIn
      <4> QED BY <1>1, <1>2, <3>3, <4>1 DEF FilledIn
    <3> QED BY <3>3, <3>4, <3>5 DEF FilledIn
  <2> QED BY <2>1, <2>2
<1> HIDE DEF m3
<1>6. TagsAt(m2, m3, lo, hi, -merged)
  <2>1. hi = lo + AbsInt(-merged) + 1 /\ -merged \in Int
    <3>1. AbsInt(-merged) = merged
      BY <1>2, AbsIntFacts
    <3> QED BY <1>2, <3>1 DEF merged
  <2>2. TagsAt(WriteTags(m3, lo, -merged), m3, lo, hi, -merged)
    BY <1>5, <2>1, TagsWritten, Zenon
  <2> QED BY <1>4, <2>2
<1>7. m2 \in [Addr -> Int] /\ m2[lo] = -merged /\ m2[hi] = -merged
  BY <1>6 DEF TagsAt
<1>8. ASSUME NEW a \in Addr, a < lo \/ a > hi PROVE m2[a] = m[a]
  <2>1. a # lo /\ a # hi /\ a # b /\ a # top /\ (a < lo \/ a >= hi)
    BY <1>2, <1>8, Addresses
  <2> QED BY <1>3, <1>5, <1>6, <2>1 DEF TagsAt
<1>9. WritesIn(m, m2, lo, hi)
  BY <1>7, <1>8 DEF WritesIn
<1>10. ASSUME NEW a \in Addr, lo + 3 <= a, a < hi
       PROVE  \/ m2[a] = -n
              \/ m2[a] = m[a] /\ a # b
              \/ HOLE_T_SIZE > 2 /\ m2[a] = LinkWord
  <2>1. a # lo /\ a # hi
    BY <1>2, <1>10, Addresses
  <2>2. m2[a] = m3[a]
    BY <1>6, <2>1 DEF TagsAt
  <2>3. own[a] = -n \/ (own[a] = m[a] /\ a # b)
    BY <1>3 DEF TagsAt
  <2> QED BY <1>5, <1>10, <2>2, <2>3
<1> QED BY <1>7, <1>9, <1>10 DEF MergedWords, merged

\* ns_mem_free_and_merge_with_adjacent_blocks keeps the regions tiled.
LEMMA MergeBlock ==
    ASSUME NEW m, NEW B, NEW mn, NEW en, Laid(m, B, mn, en), NEW b \in B,
           NEW r \in Slots, Within(mn, en, r, b), NEW below, NEW above, NEW lo, NEW hi,
           Merges(m, mn, en, b, r, below, above, lo, hi),
           NEW m2, NEW n, MergedWords(m, m2, b, n, lo, hi)
    PROVE  Laid(m2, (B \ Swallowed(m, b, above)) \cup {lo}, mn, en)
<1>1. /\ Span(m, B, mn, en, r, lo, hi)
      /\ CutAt(B, {lo}, lo, hi) = (B \ Swallowed(m, b, above)) \cup {lo}
      /\ lo <= b /\ BlockEnd(m, b) <= hi
  <2>1. MergesSpan(m, B, mn, en, b, r, above, lo, hi)
    BY MergedSpan
  <2> QED BY <2>1 DEF MergesSpan
<1>2. MergesBelow(m, B, mn, en, b, r, below, lo) /\ MergesAbove(m, B, mn, en, b, r, above, hi)
  BY BelowFound, AboveFound
<1>3. /\ b \in Int /\ BlockEnd(m, b) \in Int /\ b + 2 <= BlockEnd(m, b)
      /\ lo \in Addr /\ lo \in Int /\ hi \in Addr /\ hi \in Int
  BY <1>2, BlockFacts, LaidTypes, Addresses DEF MergesBelow, MergesAbove
<1>4. WritesIn(m, m2, lo, hi) /\ m2 \in [Addr -> Int]
      /\ m2[lo] = -(hi - lo - 1) /\ m2[hi] = m2[lo]
  BY DEF MergedWords, WritesIn
<1>5. hi - lo - 1 \in Nat /\ hi - lo - 1 > 0
  BY <1>1, <1>3
<1>6. m2[lo] # 0 /\ AbsInt(m2[lo]) = hi - lo - 1
  <2>1. AbsInt(-(hi - lo - 1)) = hi - lo - 1
    <3> DEFINE k == hi - lo - 1
    <3>1. k \in Int /\ k >= 0
      BY <1>5
    <3> HIDE DEF k
    <3>2. AbsInt(-k) = k
      BY <3>1, AbsIntFacts
    <3> QED BY <3>2 DEF k
  <2> QED BY <1>4, <1>5, <2>1
<1>7. Cut(m2, {lo}, lo, hi) /\ BlockEnd(m2, lo) = hi
  BY <1>3, <1>4, <1>6, CutOne
<1>8. CutMerged(m, m2, {lo}, mn, en, r, lo, hi)
  BY <1>2, <1>7 DEF CutMerged, MergesBelow, MergesAbove
<1>9. Laid(m2, CutAt(B, {lo}, lo, hi), mn, en)
  BY <1>1, <1>4, <1>7, <1>8, Reblock
<1> QED BY <1>1, <1>9

-----------------------------------------------------------------------------
(* A region that is added, and writes outside the regions *)

\* No region has a word of lo..hi.
NoRegionHas(mn, en, lo, hi) ==
    \A i \in Slots : mn[i] # 0 => en[i] < lo \/ hi < mn[i]

\* Neither has a block.
LEMMA NoBlockHas ==
    ASSUME NEW m, NEW B, NEW mn, NEW en, Laid(m, B, mn, en),
           NEW lo \in Int, NEW hi \in Int, NoRegionHas(mn, en, lo, hi), NEW b \in B
    PROVE  BlockEnd(m, b) < lo \/ b > hi
<1>1. PICK i \in Slots : Within(mn, en, i, b)
  BY BlockInRegion
<1>2. BlockEnd(m, b) <= en[i] /\ mn[i] <= b /\ mn[i] # 0
  BY <1>1, BlockInRegion DEF Within
<1>3. mn[i] \in Int /\ en[i] \in Int /\ b \in Int /\ BlockEnd(m, b) \in Int
  BY LaidTypes, BlockFacts
<1>4. en[i] < lo \/ hi < mn[i]
  BY <1>2 DEF NoRegionHas
<1> QED BY <1>2, <1>3, <1>4

\* Writes outside the regions change nothing.
LEMMA WritesApart ==
    ASSUME NEW m, NEW B, NEW mn, NEW en, Laid(m, B, mn, en),
           NEW lo \in Int, NEW hi \in Int, lo <= hi, NoRegionHas(mn, en, lo, hi),
           NEW m2, WritesIn(m, m2, lo, hi)
    PROVE  /\ Laid(m2, B, mn, en)
           /\ \A b \in B : m2[b] = m[b] /\ BlockEnd(m2, b) = BlockEnd(m, b)
<1>1. \A b \in B : /\ b \in Addr /\ b \in Int /\ BlockEnd(m, b) \in Int
                   /\ BlockEnd(m, b) \in Addr /\ b + 2 <= BlockEnd(m, b)
                   /\ BlockEnd(m, b) < lo \/ b > hi
  BY BlockFacts, NoBlockHas
<1>2. \A b \in B : m2[b] = m[b] /\ m2[BlockEnd(m, b)] = m[BlockEnd(m, b)]
  <2> SUFFICES ASSUME NEW b \in B PROVE m2[b] = m[b] /\ m2[BlockEnd(m, b)] = m[BlockEnd(m, b)]
    OBVIOUS
  <2>1. (b < lo \/ b > hi) /\ (BlockEnd(m, b) < lo \/ BlockEnd(m, b) > hi)
    BY <1>1
  <2> QED BY <1>1, <2>1 DEF WritesIn
<1>3. \A b \in B : BlockEnd(m2, b) = BlockEnd(m, b)
  BY <1>2 DEF BlockEnd
<1>4. \A b \in B : Tagged(m2, b)
  BY <1>2, <1>3 DEF Laid, Tagged
<1>5. \A b \in B : Fitted(m2, B, mn, en, b)
  BY <1>3 DEF Laid, Fitted
<1>6. \A b, c \in B : c > b => c > BlockEnd(m2, b)
  BY <1>3 DEF Laid
<1>7. \A b \in B : Single(m2, mn, en, b)
  <2> SUFFICES ASSUME NEW b \in B, m2[b] < 0, NEW i \in Slots,
                      Within(mn, en, i, b), BlockEnd(m2, b) # en[i]
               PROVE  m2[BlockEnd(m2, b) + 1] > 0
    BY DEF Single
  <2>1. BlockEnd(m2, b) + 1 \in B
    BY <1>3, BlockInRegion
  <2>2. m[BlockEnd(m, b) + 1] > 0
    BY <1>2, <1>3 DEF Laid, Single
  <2> QED BY <1>2, <1>3, <2>1, <2>2
<1>8. m2 \in [Addr -> Int] /\ B \subseteq Addr /\ SlotsApart(mn, en)
      /\ \A i \in Slots : mn[i] # 0 => mn[i] \in B
  BY DEF WritesIn, Laid
<1>9. Laid(m2, B, mn, en)
  BY <1>4, <1>5, <1>6, <1>7, <1>8 DEF Laid
<1> QED BY <1>2, <1>3, <1>9

\* A new region is one free block.
LEMMA NewRegion ==
    ASSUME NEW m, NEW B, NEW mn, NEW en, Laid(m, B, mn, en),
           NEW lo \in Addr, NEW hi \in Addr, lo + 2 <= hi, NoRegionHas(mn, en, lo, hi),
           NEW k \in Slots, mn[k] = 0,
           m[lo] = -(hi - lo - 1), m[hi] = m[lo]
    PROVE  Laid(m, B \cup {lo}, [mn EXCEPT ![k] = lo], [en EXCEPT ![k] = hi])
<1> DEFINE mn2 == [mn EXCEPT ![k] = lo]
           en2 == [en EXCEPT ![k] = hi]
           C == B \cup {lo}
<1>1. lo \in Int /\ hi \in Int /\ lo # 0
  BY Addresses
<1>2. /\ m \in [Addr -> Int] /\ B \subseteq Addr /\ SlotsApart(mn, en)
      /\ \A i \in Slots : mn[i] \in Int /\ en[i] \in Int
  BY LaidTypes
<1>3. /\ mn2 \in [Slots -> Addr \cup {0}] /\ en2 \in [Slots -> Addr \cup {0}]
      /\ mn2[k] = lo /\ en2[k] = hi
      /\ \A i \in Slots : i # k => mn2[i] = mn[i] /\ en2[i] = en[i]
  BY <1>2 DEF SlotsApart
<1> HIDE DEF mn2, en2
<1>4. SlotsApart(mn2, en2)
  <2>1. \A i \in Slots : mn2[i] # 0 => mn2[i] < en2[i]
    BY <1>1, <1>2, <1>3 DEF SlotsApart
  <2>2. \A i, j \in Slots : i # j /\ mn2[i] # 0 /\ mn2[j] # 0 =>
           en2[i] < mn2[j] \/ en2[j] < mn2[i]
    <3> SUFFICES ASSUME NEW i \in Slots, NEW j \in Slots, i # j, mn2[i] # 0, mn2[j] # 0
                 PROVE  en2[i] < mn2[j] \/ en2[j] < mn2[i]
      OBVIOUS
    <3>1. CASE i = k
      BY <1>3, <3>1 DEF NoRegionHas
    <3>2. CASE j = k
      BY <1>3, <3>2 DEF NoRegionHas
    <3>3. CASE i # k /\ j # k
      BY <1>2, <1>3, <3>3 DEF SlotsApart
    <3> QED BY <3>1, <3>2, <3>3
  <2> QED BY <1>3, <2>1, <2>2 DEF SlotsApart
<1>5. m[lo] # 0 /\ AbsInt(m[lo]) = hi - lo - 1 /\ BlockEnd(m, lo) = hi
  <2>1. m[lo] \in Int /\ m[lo] < 0 /\ -m[lo] = hi - lo - 1
    BY <1>1
  <2>2. AbsInt(m[lo]) = hi - lo - 1
    BY <2>1, AbsIntFacts
  <2> QED BY <1>1, <2>1, <2>2 DEF BlockEnd
<1>6. \A b \in B : b \in Int /\ BlockEnd(m, b) \in Int /\ b + 2 <= BlockEnd(m, b)
                   /\ (BlockEnd(m, b) < lo \/ b > hi)
  BY <1>1, BlockFacts, NoBlockHas
<1>7. \A b \in B, i \in Slots : Within(mn2, en2, i, b) => i # k /\ Within(mn, en, i, b)
  <2> SUFFICES ASSUME NEW b \in B, NEW i \in Slots, Within(mn2, en2, i, b)
               PROVE  i # k /\ Within(mn, en, i, b)
    OBVIOUS
  <2>1. i # k
    BY <1>1, <1>3, <1>6 DEF Within
  <2> QED BY <1>3, <2>1 DEF Within
<1>8. \A b \in B, i \in Slots : Within(mn, en, i, b) => i # k /\ Within(mn2, en2, i, b)
  BY <1>3 DEF Within
<1>9. \A i \in Slots : Within(mn2, en2, i, lo) <=> i = k
  <2>1. Within(mn2, en2, k, lo)
    BY <1>1, <1>3 DEF Within
  <2> QED BY <1>1, <1>4, <2>1, OneRegion
<1>10. \A i \in Slots : mn2[i] # 0 => mn2[i] \in C
  BY <1>3 DEF Laid
<1>11. \A b \in C : Tagged(m, b)
  BY <1>5 DEF Laid, Tagged
<1>12. \A b \in C : Fitted(m, C, mn2, en2, b)
  <2>1. Fitted(m, C, mn2, en2, lo)
    <3>1. Within(mn2, en2, k, lo) /\ BlockEnd(m, lo) <= en2[k] /\ BlockEnd(m, lo) = en2[k]
      BY <1>1, <1>3, <1>5, <1>9
    <3> QED BY <3>1 DEF Fitted
  <2>2. ASSUME NEW b \in B PROVE Fitted(m, C, mn2, en2, b)
    <3>1. PICK i \in Slots : Within(mn, en, i, b)
      BY BlockInRegion
    <3>2. BlockEnd(m, b) <= en[i] /\ (BlockEnd(m, b) # en[i] => BlockEnd(m, b) + 1 \in B)
      BY <3>1, BlockInRegion
    <3>3. Within(mn2, en2, i, b) /\ en2[i] = en[i]
      BY <1>3, <1>8, <3>1
    <3> QED BY <3>2, <3>3 DEF Fitted
  <2> QED BY <2>1, <2>2
<1>13. \A b, c \in C : c > b => c > BlockEnd(m, b)
  <2> SUFFICES ASSUME NEW b \in C, NEW c \in C, c > b PROVE c > BlockEnd(m, b)
    OBVIOUS
  <2>1. CASE b = lo /\ c \in B
    BY <1>1, <1>5, <1>6, <2>1
  <2>2. CASE b \in B /\ c = lo
    BY <1>1, <1>6, <2>2
  <2>3. CASE b \in B /\ c \in B
    BY <2>3, BlockFacts
  <2>4. CASE b = lo /\ c = lo
    BY <1>1, <2>4
  <2> QED BY <2>1, <2>2, <2>3, <2>4
<1>14. \A b \in C : Single(m, mn2, en2, b)
  <2>1. Single(m, mn2, en2, lo)
    BY <1>3, <1>5, <1>9 DEF Single
  <2>2. ASSUME NEW b \in B PROVE Single(m, mn2, en2, b)
    <3>1. Single(m, mn, en, b)
      BY DEF Laid
    <3> QED BY <1>3, <1>7, <3>1 DEF Single
  <2> QED BY <2>1, <2>2
<1>15. Laid(m, C, mn2, en2)
  BY <1>2, <1>4, <1>10, <1>11, <1>12, <1>13, <1>14 DEF Laid
<1> QED BY <1>15 DEF mn2, en2

-----------------------------------------------------------------------------
(* Lists in address order *)

Ordered(s) == \A i, j \in DOMAIN s : i < j => s[i] < s[j]

\* Position k is the last of s with an address below e, and e is not on s.
Behind(s, k, e) ==
    /\ k \in 0..Len(s)
    /\ \A j \in 1..k : s[j] < e
    /\ \A j \in (k + 1)..Len(s) : e < s[j]

\* t has the elements of T in address order.
Lists(t, T) == t \in Seq(Addr) /\ Ordered(t) /\ Range(t) = T

\* An ordered list has no duplicates.
LEMMA OrderedInjective ==
    ASSUME NEW s \in Seq(Addr), Ordered(s)
    PROVE  IsInjective(s)
<1>1. \A i \in DOMAIN s : i \in Int /\ s[i] \in Int
  BY Addresses
<1> QED BY <1>1 DEF Ordered, IsInjective

\* Inserting at the right place keeps the order.
LEMMA OrderedInsert ==
    ASSUME NEW s \in Seq(Addr), Ordered(s), NEW e \in Addr, NEW k, Behind(s, k, e)
    PROVE  Lists(InsertAt(s, k + 1, e), Range(s) \cup {e})
<1> DEFINE n == Len(s)
           t == InsertAt(s, k + 1, e)
<1>1. /\ n \in Nat /\ DOMAIN s = 1..n /\ k \in 0..n
      /\ \A j \in 1..n : s[j] \in Int
      /\ e \in Int
  BY Addresses DEF Behind
<1>2. t \in Seq(Addr) /\ IsInserted(t, s, k, e)
  BY <1>1, InsertBehind
<1> HIDE DEF t, n
<1>3. DOMAIN t = 1..(n + 1)
  BY <1>2 DEF IsInserted, n
<1>4. /\ \A j \in 1..k : t[j] = s[j] /\ s[j] < e
      /\ t[k + 1] = e
      /\ \A j \in (k + 2)..(n + 1) : t[j] = s[j - 1] /\ e < s[j - 1]
  <2>1. \A j \in (k + 2)..(n + 1) : j - 1 \in (k + 1)..n
    BY <1>1
  <2> QED BY <1>2, <2>1 DEF IsInserted, Behind, n
<1>5. Ordered(t)
  <2> SUFFICES ASSUME NEW i \in 1..(n + 1), NEW j \in 1..(n + 1), i < j
               PROVE  t[i] < t[j]
    BY <1>3 DEF Ordered
  <2>1. \A x \in 1..(n + 1) : x \in 1..k \/ x = k + 1 \/ x \in (k + 2)..(n + 1)
    BY <1>1
  <2>2. CASE i \in 1..k /\ j \in 1..k
    <3>1. i \in 1..n /\ j \in 1..n
      BY <1>1, <2>2
    <3> QED BY <1>1, <1>4, <2>2, <3>1 DEF Ordered
  <2>3. CASE i \in 1..k /\ j = k + 1
    BY <1>4, <2>3
  <2>4. CASE i \in 1..k /\ j \in (k + 2)..(n + 1)
    <3>1. i \in 1..n /\ j - 1 \in 1..n /\ i < j - 1
      BY <1>1, <2>4
    <3> QED BY <1>1, <1>4, <2>4, <3>1 DEF Ordered
  <2>5. CASE i = k + 1 /\ j \in (k + 2)..(n + 1)
    BY <1>4, <2>5
  <2>6. CASE i \in (k + 2)..(n + 1) /\ j \in (k + 2)..(n + 1)
    <3>1. i - 1 \in 1..n /\ j - 1 \in 1..n /\ i - 1 < j - 1
      BY <1>1, <2>6
    <3> QED BY <1>1, <1>4, <2>6, <3>1 DEF Ordered
  <2> QED BY <1>1, <2>1, <2>2, <2>3, <2>4, <2>5, <2>6
<1>6. Range(t) = Range(s) \cup {e}
  BY <1>2 DEF IsInserted
<1>7. Lists(t, Range(s) \cup {e})
  BY <1>2, <1>5, <1>6 DEF Lists
<1> QED BY <1>7 DEF t

\* Removing keeps the order, and the place where another may be inserted.
LEMMA OrderedRemove ==
    ASSUME NEW s \in Seq(Addr), Ordered(s), NEW k \in 1..Len(s)
    PROVE  /\ Lists(RemoveAt(s, k), Range(s) \ {s[k]})
           /\ \A e \in Addr : (\A j \in 1..(k - 1) : s[j] < e) /\ e <= s[k] =>
                 Behind(RemoveAt(s, k), k - 1, e)
<1> DEFINE n == Len(s)
           t == RemoveAt(s, k)
<1>1. /\ n \in Nat /\ DOMAIN s = 1..n /\ k \in 1..n
      /\ \A j \in 1..n : s[j] \in Int
  BY Addresses
<1>2. t \in Seq(Addr) /\ IsRemoved(t, s, k) /\ IsInjective(s)
  BY RemoveOne, OrderedInjective
<1> HIDE DEF t, n
<1>3. Len(t) = n - 1 /\ DOMAIN t = 1..(n - 1)
  BY <1>1, <1>2 DEF IsRemoved, n
<1>4. /\ \A j \in 1..(k - 1) : t[j] = s[j]
      /\ \A j \in k..(n - 1) : t[j] = s[j + 1]
      /\ Range(t) = Range(s) \ {s[k]}
  BY <1>2 DEF IsRemoved, n
<1>5. Ordered(t)
  <2> SUFFICES ASSUME NEW i \in 1..(n - 1), NEW j \in 1..(n - 1), i < j
               PROVE  t[i] < t[j]
    BY <1>3 DEF Ordered
  <2>1. CASE j \in 1..(k - 1)
    <3>1. i \in 1..(k - 1) /\ i \in 1..n /\ j \in 1..n
      BY <1>1, <2>1
    <3> QED BY <1>1, <1>4, <2>1, <3>1 DEF Ordered
  <2>2. CASE i \in 1..(k - 1) /\ j \in k..(n - 1)
    <3>1. i \in 1..n /\ j + 1 \in 1..n /\ i < j + 1
      BY <1>1, <2>2
    <3> QED BY <1>1, <1>4, <2>2, <3>1 DEF Ordered
  <2>3. CASE i \in k..(n - 1)
    <3>1. j \in k..(n - 1) /\ i + 1 \in 1..n /\ j + 1 \in 1..n /\ i + 1 < j + 1
      BY <1>1, <2>3
    <3> QED BY <1>1, <1>4, <2>3, <3>1 DEF Ordered
  <2> QED BY <1>1, <2>1, <2>2, <2>3
<1>6. ASSUME NEW e \in Addr, \A j \in 1..(k - 1) : s[j] < e, e <= s[k]
      PROVE  Behind(t, k - 1, e)
  <2>1. k - 1 \in 0..Len(t) /\ (k - 1) + 1 = k
    BY <1>1, <1>3
  <2>2. \A j \in 1..(k - 1) : t[j] < e
    BY <1>4, <1>6
  <2>3. \A j \in k..Len(t) : e < t[j]
    <3> SUFFICES ASSUME NEW j \in k..(n - 1) PROVE e < t[j]
      BY <1>3
    <3>1. j + 1 \in 1..n /\ k < j + 1
      BY <1>1
    <3>2. s[k] < s[j + 1]
      BY <1>1, <3>1 DEF Ordered
    <3> QED BY <1>1, <1>4, <1>6, <3>1, <3>2, Addresses
  <2> QED BY <2>1, <2>2, <2>3 DEF Behind
<1>7. Lists(t, Range(s) \ {s[k]})
  BY <1>2, <1>4, <1>5 DEF Lists
<1> QED BY <1>6, <1>7 DEF t

\* Replacing by an address that fits keeps the order.
LEMMA OrderedReplace ==
    ASSUME NEW s \in Seq(Addr), Ordered(s), NEW k \in 1..Len(s), NEW e \in Addr,
           \A j \in 1..Len(s) : (j < k => s[j] < e) /\ (j > k => e < s[j])
    PROVE  Lists([s EXCEPT ![k] = e], (Range(s) \ {s[k]}) \cup {e})
<1> DEFINE n == Len(s)
           t == [s EXCEPT ![k] = e]
<1>1. /\ n \in Nat /\ DOMAIN s = 1..n /\ k \in 1..n
      /\ \A j \in 1..n : s[j] \in Int
      /\ t \in Seq(Addr) /\ DOMAIN t = 1..n /\ t[k] = e
      /\ \A j \in 1..n : j # k => t[j] = s[j]
  BY Addresses
<1>2. \A j \in 1..n : (j < k => s[j] < e) /\ (j > k => e < s[j])
  OBVIOUS
<1>3. IsInjective(s)
  BY OrderedInjective
<1> HIDE DEF t, n
<1>4. Ordered(t)
  <2> SUFFICES ASSUME NEW i \in 1..n, NEW j \in 1..n, i < j PROVE t[i] < t[j]
    BY <1>1 DEF Ordered
  <2>1. CASE i = k
    BY <1>1, <1>2, <2>1
  <2>2. CASE j = k
    BY <1>1, <1>2, <2>2
  <2>3. CASE i # k /\ j # k
    BY <1>1, <2>3 DEF Ordered
  <2> QED BY <2>1, <2>2, <2>3
<1>5. Range(t) = (Range(s) \ {s[k]}) \cup {e}
  <2>1. \A j \in 1..n : j # k => s[j] # s[k]
    BY <1>1, <1>3 DEF IsInjective
  <2>2. Range(s) = {s[j] : j \in 1..n} /\ Range(t) = {t[j] : j \in 1..n}
    BY <1>1 DEF Range
  <2>3. Range(t) \subseteq (Range(s) \ {s[k]}) \cup {e}
    BY <1>1, <2>1, <2>2
  <2>4. (Range(s) \ {s[k]}) \cup {e} \subseteq Range(t)
    BY <1>1, <2>1, <2>2
  <2> QED BY <2>3, <2>4
<1>6. Lists(t, (Range(s) \ {s[k]}) \cup {e})
  BY <1>1, <1>4, <1>5 DEF Lists
<1> QED BY <1>6 DEF t

\* FirstAbove finds the place of a block that is not on the list.
LEMMA FirstAbovePlace ==
    ASSUME NEW s \in Seq(Addr), Ordered(s), NEW e \in Addr, e \notin Range(s)
    PROVE  \E k \in 0..Len(s) : Behind(s, k, e) /\ FirstAbove(s, e) = k + 1
<1> DEFINE n == Len(s)
           above == {i \in DOMAIN s : s[i] > e}
<1>1. /\ n \in Nat /\ DOMAIN s = 1..n /\ e \in Int
      /\ \A j \in 1..n : s[j] \in Int /\ s[j] # e
  BY Addresses DEF Range
<1>2. FirstAbove(s, e) = IF above = {} THEN n + 1 ELSE Min(above)
  BY DEF FirstAbove
<1> HIDE DEF n
<1>3. CASE above = {}
  <2>1. \A j \in 1..n : s[j] < e
    BY <1>1, <1>3
  <2>2. Behind(s, n, e)
    BY <1>1, <2>1 DEF Behind, n
  <2> QED BY <1>1, <1>2, <1>3, <2>2 DEF n
<1>4. CASE above # {}
  <2>1. above \subseteq Nat /\ above \subseteq 1..n
    BY <1>1
  <2> HIDE DEF above
  <2>2. Min(above) \in above /\ \A m \in above : Min(above) <= m
    BY <1>4, <2>1, MinIsLeast
  <2>3. PICK k : k = Min(above) - 1
    OBVIOUS
  <2>4. k \in 0..n /\ k + 1 = Min(above) /\ k + 1 \in 1..n
    <3>1. Min(above) \in 1..n
      BY <2>1, <2>2
    <3> QED BY <1>1, <2>3, <3>1
  <2>5. \A j \in 1..k : s[j] < e
    <3> SUFFICES ASSUME NEW j \in 1..k PROVE s[j] < e
      OBVIOUS
    <3>1. j \in 1..n /\ ~(k + 1 <= j)
      BY <1>1, <2>4
    <3>2. j \notin above
      BY <2>2, <2>4, <3>1
    <3> QED BY <1>1, <3>1, <3>2 DEF above
  <2>6. \A j \in (k + 1)..n : e < s[j]
    <3> SUFFICES ASSUME NEW j \in (k + 1)..n PROVE e < s[j]
      OBVIOUS
    <3>1. e < s[k + 1] /\ j \in 1..n
      BY <1>1, <2>2, <2>4 DEF above
    <3>2. s[k + 1] <= s[j]
      BY <1>1, <2>4, <3>1 DEF Ordered
    <3> QED BY <1>1, <2>4, <3>1, <3>2
  <2>7. Behind(s, k, e)
    BY <2>4, <2>5, <2>6 DEF Behind, n
  <2>8. FirstAbove(s, e) = k + 1
    BY <1>2, <1>4, <2>4
  <2> QED BY <2>4, <2>7, <2>8 DEF n
<1> QED BY <1>3, <1>4

\* So does AddAfterLower.
LEMMA AfterLowerPlace ==
    ASSUME NEW s \in Seq(Addr), Ordered(s), NEW e \in Addr, e \notin Range(s)
    PROVE  Lists(AddAfterLower(s, e), Range(s) \cup {e})
<1> DEFINE n == Len(s)
           lower == {i \in DOMAIN s : s[i] < e}
           at == IF lower = {} THEN 1 ELSE Max(lower) + 1
<1>1. /\ n \in Nat /\ DOMAIN s = 1..n /\ e \in Int
      /\ \A j \in 1..n : s[j] \in Int /\ s[j] # e
  BY Addresses DEF Range
<1>2. AddAfterLower(s, e) = InsertAt(s, at, e)
  BY DEF AddAfterLower
<1> HIDE DEF n
<1>3. \E k \in 0..n : Behind(s, k, e) /\ at = k + 1
  <2>1. CASE lower = {}
    <3>1. \A j \in 1..n : e < s[j]
      BY <1>1, <2>1
    <3>2. Behind(s, 0, e)
      BY <1>1, <3>1 DEF Behind, n
    <3> QED BY <1>1, <2>1, <3>2
  <2>2. CASE lower # {}
    <3>1. lower \subseteq 1..n
      BY <1>1
    <3> HIDE DEF lower
    <3>2. Max(lower) \in lower /\ \A m \in lower : m <= Max(lower)
      BY <1>1, <2>2, <3>1, MaxIsGreatest
    <3>3. PICK k : k = Max(lower)
      OBVIOUS
    <3>4. k \in 1..n /\ k \in 0..n /\ s[k] < e /\ at = k + 1
      BY <1>1, <2>2, <3>1, <3>2, <3>3 DEF lower
    <3>5. \A j \in 1..k : s[j] < e
      <4> SUFFICES ASSUME NEW j \in 1..k PROVE s[j] < e
        OBVIOUS
      <4>1. j \in 1..n /\ j <= k /\ j \in Int /\ k \in Int
        BY <1>1, <3>4
      <4>2. s[j] <= s[k]
        BY <1>1, <3>4, <4>1 DEF Ordered
      <4> QED BY <1>1, <3>4, <4>1, <4>2
    <3>6. \A j \in (k + 1)..n : e < s[j]
      <4> SUFFICES ASSUME NEW j \in (k + 1)..n PROVE e < s[j]
        OBVIOUS
      <4>1. j \in 1..n /\ ~(j <= k)
        BY <1>1, <3>4
      <4>2. j \notin lower
        BY <3>2, <3>3, <4>1
      <4> QED BY <1>1, <4>1, <4>2 DEF lower
    <3> QED BY <3>4, <3>5, <3>6 DEF Behind, n
  <2> QED BY <2>1, <2>2
<1>4. PICK k \in 0..n : Behind(s, k, e) /\ at = k + 1
  BY <1>3
<1> QED BY <1>2, <1>4, OrderedInsert

-----------------------------------------------------------------------------
(* The whole structure: tiling, list, holders, stale tags *)

Holes(m, B) == {b \in B : -m[b] >= HOLE_T_SIZE}

\* The clients hold the allocated blocks, each as large as asked for.
Holds(hd, m, B) ==
    /\ DOMAIN hd = {b \in B : m[b] > 0}
    /\ \A b \in DOMAIN hd : hd[b] \in Nat /\ m[b] * WordSize >= hd[b]

\* The first tag of a freed block at b still says so, in the free block at c.
StaleTag(m, b, c) ==
    /\ m[c] < 0
    /\ b = c \/ b \in (c + 3)..(BlockEnd(m, c) - 1)
    /\ m[b] < 0 \/ (HOLE_T_SIZE > 2 /\ m[b] = LinkWord)

KeepsFreed(F, m, B) == \A b \in F : \E c \in B : StaleTag(m, b, c)

Shape(m, B, mn, en, h, hd, F) ==
    /\ Laid(m, B, mn, en)
    /\ Lists(h, Holes(m, B))
    /\ Holds(hd, m, B)
    /\ KeepsFreed(F, m, B)

\* A write in one block leaves the tags of the others.
LEMMA OtherBlocks ==
    ASSUME NEW m, NEW B, NEW mn, NEW en, Laid(m, B, mn, en), NEW b \in B,
           NEW m2, WritesIn(m, m2, b, BlockEnd(m, b)), NEW x \in B, x # b
    PROVE  m2[x] = m[x] /\ (x < b \/ x > BlockEnd(m, b))
<1>1. x \in Addr /\ x \in Int /\ b \in Int /\ (x > b => x > BlockEnd(m, b))
  BY BlockFacts
<1>2. x < b \/ x > BlockEnd(m, b)
  BY <1>1
<1> QED BY <1>1, <1>2 DEF WritesIn

\* The holders after the block at b was handed out.
Given(hd, b, bytes) == [x \in DOMAIN hd \cup {b} |-> IF x = b THEN bytes ELSE hd[x]]

\* AllocSplit keeps the structure.
LEMMA SplitShape ==
    ASSUME NEW m, NEW B, NEW mn, NEW en, NEW h, NEW hd, NEW F,
           Shape(m, B, mn, en, h, hd, F),
           NEW i \in DOMAIN h, NEW b, b = h[i],
           NEW data \in Nat, NEW rest \in Nat, NEW bytes \in Nat,
           data >= 1, data * WordSize >= bytes,
           rest >= HOLE_T_SIZE, m[b] = -(rest + data + 2),
           NEW hole, NEW new, Halves(b, hole, new, data, rest),
           NEW m2, m2 = SplitMem(m, hole, new, data, rest)
    PROVE  Shape(m2, B \cup {hole, new}, mn, en, [h EXCEPT ![i] = hole],
                 Given(hd, new, bytes), {})
<1> DEFINE C == (B \ {b}) \cup {hole, new}
           e == BlockEnd(m, b)
<1>1. /\ Laid(m, B, mn, en) /\ h \in Seq(Addr) /\ Ordered(h)
      /\ Range(h) = Holes(m, B) /\ Holds(hd, m, B)
  BY DEF Shape, Lists
<1>2. HOLE_T_SIZE \in Nat /\ HOLE_T_SIZE >= 1
  BY SizesAssumption
<1>3. b \in Holes(m, B) /\ b \in B /\ \A j \in DOMAIN h : h[j] \in B
  BY <1>1 DEF Range, Holes
<1>4. IsSplit(m, B, mn, en, m2, b, hole, new, data, rest)
  BY <1>1, <1>3, SplitBlock, Zenon
<1>5. /\ Laid(m2, C, mn, en) /\ WritesIn(m, m2, b, e)
      /\ hole \in Addr /\ new \in Addr /\ hole # new
      /\ b <= hole /\ hole <= e /\ b <= new /\ new <= e
      /\ m2[hole] = -rest /\ m2[new] = data
  BY <1>4 DEF IsSplit
<1>6. b \in Int /\ e \in Int /\ hole \in Int /\ new \in Int
  BY <1>1, <1>3, <1>5, BlockFacts, Addresses
<1>7. \A x \in B : x # b => /\ m2[x] = m[x] /\ m[x] \in Int
                            /\ x \in Int /\ (x < b \/ x > e)
                            /\ x # hole /\ x # new
  <2> SUFFICES ASSUME NEW x \in B, x # b
               PROVE  /\ m2[x] = m[x] /\ m[x] \in Int
                      /\ x \in Int /\ (x < b \/ x > e)
                      /\ x # hole /\ x # new
    OBVIOUS
  <2>1. m2[x] = m[x] /\ (x < b \/ x > e) /\ x \in Int /\ m[x] \in Int
    <3>1. x \in Int /\ m[x] \in Int
      BY <1>1, BlockFacts
    <3>2. m2[x] = m[x] /\ (x < b \/ x > e)
      BY <1>1, <1>3, <1>5, OtherBlocks
    <3> QED BY <3>1, <3>2
  <2> QED BY <1>5, <1>6, <2>1
<1>8. B \cup {hole, new} = C
  <2>1. b \in {hole, new}
    BY DEF Halves
  <2> QED BY <2>1
<1>9. \A x \in C : x \in Int
  BY <1>6, <1>7
<1> HIDE DEF C, e
<1>10. Holes(m2, C) = (Holes(m, B) \ {b}) \cup {hole}
  <2>1. -m2[hole] >= HOLE_T_SIZE /\ ~(-m2[new] >= HOLE_T_SIZE)
    BY <1>2, <1>5
  <2> QED BY <1>7, <2>1 DEF Holes, C
<1>11. Lists([h EXCEPT ![i] = hole], Holes(m2, C))
  <2>1. i \in 1..Len(h) /\ DOMAIN h = 1..Len(h)
    BY <1>1
  <2>2. \A j \in 1..Len(h) : (j < i => h[j] < hole) /\ (j > i => hole < h[j])
    <3> SUFFICES ASSUME NEW j \in 1..Len(h)
                 PROVE  (j < i => h[j] < hole) /\ (j > i => hole < h[j])
      OBVIOUS
    <3>1. h[j] \in B /\ (j < i => h[j] < b) /\ (j > i => b < h[j])
      BY <1>1, <1>3, <2>1 DEF Ordered
    <3> QED BY <1>5, <1>6, <1>7, <3>1
  <2>3. Lists([h EXCEPT ![i] = hole], (Range(h) \ {h[i]}) \cup {hole})
    BY <1>1, <1>5, <2>1, <2>2, OrderedReplace
  <2> QED BY <1>1, <1>10, <2>3
<1>12. Holds(Given(hd, new, bytes), m2, C)
  <2>1. /\ DOMAIN hd = {x \in B : m[x] > 0}
        /\ \A x \in DOMAIN hd : hd[x] \in Nat /\ m[x] * WordSize >= hd[x]
    BY <1>1 DEF Holds
  <2>2. ~(m[b] > 0) /\ ~(m2[hole] > 0) /\ m2[new] > 0
    BY <1>2, <1>5
  <2>3. DOMAIN hd \cup {new} = {x \in C : m2[x] > 0}
    BY <1>7, <2>1, <2>2 DEF C
  <2>4. \A x \in DOMAIN hd : x \in B /\ x # b /\ x # new /\ m2[x] = m[x]
    BY <1>7, <2>1, <2>2
  <2>5. DOMAIN Given(hd, new, bytes) = DOMAIN hd \cup {new}
    BY DEF Given
  <2>6. /\ Given(hd, new, bytes)[new] = bytes
        /\ \A x \in DOMAIN hd : Given(hd, new, bytes)[x] = hd[x]
    BY <2>4 DEF Given
  <2>7. m2[new] * WordSize >= bytes
    BY <1>5
  <2> QED BY <2>1, <2>3, <2>4, <2>5, <2>6, <2>7 DEF Holds
<1>13. Laid(m2, C, mn, en)
  BY <1>5
<1>14. KeepsFreed({}, m2, C)
  BY DEF KeepsFreed
<1> QED BY <1>8, <1>11, <1>12, <1>13, <1>14 DEF Shape

\* AllocWhole keeps the structure.
LEMMA WholeShape ==
    ASSUME NEW m, NEW B, NEW mn, NEW en, NEW h, NEW hd, NEW F,
           Shape(m, B, mn, en, h, hd, F),
           NEW i \in DOMAIN h, NEW b, b = h[i], NEW bytes \in Nat,
           (-m[b]) * WordSize >= bytes,
           NEW m2, m2 = WriteData(WriteTags(m, b, -m[b]), b, -m[b])
    PROVE  Shape(m2, B, mn, en, RemoveAt(h, i), Given(hd, b, bytes), {})
<1>1. /\ Laid(m, B, mn, en) /\ h \in Seq(Addr) /\ Ordered(h)
      /\ Range(h) = Holes(m, B) /\ Holds(hd, m, B)
  BY DEF Shape, Lists
<1>2. HOLE_T_SIZE \in Nat /\ HOLE_T_SIZE >= 1
  BY SizesAssumption
<1>3. b \in Holes(m, B) /\ b \in B /\ -m[b] >= HOLE_T_SIZE /\ m[b] \in Int
  <2>1. b \in Holes(m, B)
    BY <1>1 DEF Range
  <2> QED BY <1>1, <2>1, BlockFacts DEF Holes
<1>4. m[b] < 0
  BY <1>2, <1>3
<1>5. WritesIn(m, m2, b, BlockEnd(m, b)) /\ m2[b] = -m[b] /\ Laid(m2, B, mn, en)
  BY <1>1, <1>3, <1>4, WholeBlock
<1>6. \A x \in B : x # b => m2[x] = m[x]
  BY <1>1, <1>3, <1>5, OtherBlocks
<1>7. Holes(m2, B) = Holes(m, B) \ {b}
  <2>1. ~(-m2[b] >= HOLE_T_SIZE)
    BY <1>2, <1>3, <1>5
  <2> QED BY <1>6, <2>1 DEF Holes
<1>8. Lists(RemoveAt(h, i), Holes(m2, B))
  <2>1. i \in 1..Len(h)
    BY <1>1
  <2>2. Lists(RemoveAt(h, i), Range(h) \ {h[i]})
    BY <1>1, <2>1, OrderedRemove
  <2> QED BY <1>1, <1>7, <2>2
<1>9. Holds(Given(hd, b, bytes), m2, B)
  <2>1. /\ DOMAIN hd = {x \in B : m[x] > 0}
        /\ \A x \in DOMAIN hd : hd[x] \in Nat /\ m[x] * WordSize >= hd[x]
    BY <1>1 DEF Holds
  <2>2. ~(m[b] > 0) /\ m2[b] > 0
    BY <1>3, <1>4, <1>5
  <2>3. DOMAIN hd \cup {b} = {x \in B : m2[x] > 0}
    BY <1>3, <1>6, <2>1, <2>2
  <2>4. \A x \in DOMAIN hd : x # b /\ m2[x] = m[x]
    BY <1>6, <2>1, <2>2
  <2>5. DOMAIN Given(hd, b, bytes) = DOMAIN hd \cup {b}
    BY DEF Given
  <2>6. /\ Given(hd, b, bytes)[b] = bytes
        /\ \A x \in DOMAIN hd : Given(hd, b, bytes)[x] = hd[x]
    BY <2>4 DEF Given
  <2> QED BY <1>5, <2>1, <2>3, <2>4, <2>5, <2>6 DEF Holds
<1>10. KeepsFreed({}, m2, B)
  BY DEF KeepsFreed
<1> QED BY <1>5, <1>8, <1>9, <1>10 DEF Shape


\* x when the condition holds.
If(cond, x) == IF cond THEN {x} ELSE {}

\* FreeList lists the holes O outside lo..hi, and lo when it became a hole.
LEMMA FreeListed ==
    ASSUME NEW O, NEW h, NEW lo \in Addr, NEW hi \in Addr, lo <= hi, NEW up \in Int,
           NEW low \in BOOLEAN, NEW high \in BOOLEAN, NEW merged \in Int,
           \A x \in O : x < lo \/ x > hi,
           low \/ high => merged >= HOLE_T_SIZE,
           high => lo < up /\ up <= hi,
           Lists(h, O \cup If(low, lo) \cup If(high, up))
    PROVE  Lists(FreeList(h, lo, up, low, high, merged),
                 O \cup If(merged >= HOLE_T_SIZE, lo))
<1> DEFINE g == FreeList(h, lo, up, low, high, merged)
<1>1. h \in Seq(Addr) /\ Ordered(h) /\ Range(h) = O \cup If(low, lo) \cup If(high, up)
  BY DEF Lists
<1>2. /\ HOLE_T_SIZE \in Int /\ lo \in Int /\ hi \in Int
      /\ DOMAIN h = 1..Len(h) /\ Len(h) \in Nat
      /\ \A j \in 1..Len(h) : h[j] \in Int /\ h[j] \in Range(h)
  BY <1>1, SizesAssumption, Addresses DEF Range
<1>3. lo \notin O
  BY <1>2
<1>4. CASE high
  <2> DEFINE k == IndexIn(h, up)
             kept == RemoveAt(h, k)
  <2>1. lo < up /\ up <= hi /\ merged >= HOLE_T_SIZE /\ up \in Range(h) /\ up \notin O
    BY <1>1, <1>2, <1>4 DEF If
  <2>2. k \in 1..Len(h) /\ h[k] = up
    BY <1>2, <2>1 DEF IndexIn, Range
  <2>3. g = IF low THEN kept ELSE InsertAt(kept, k, lo)
    BY <1>2, <1>4, <2>1 DEF FreeList
  <2> HIDE DEF k, kept, g
  <2>4. Lists(kept, Range(h) \ {up})
    BY <1>1, <2>2, OrderedRemove DEF kept
  <2>5. CASE low
    <3>1. Range(h) \ {up} = O \cup If(merged >= HOLE_T_SIZE, lo)
      BY <1>1, <1>2, <1>4, <2>1, <2>5 DEF If
    <3> QED BY <2>3, <2>4, <2>5, <3>1 DEF g
  <2>6. CASE ~low
    <3>1. Range(h) = O \cup {up} /\ Range(h) \ {up} = O
      BY <1>1, <1>4, <2>1, <2>6 DEF If
    <3>2. \A j \in 1..(k - 1) : h[j] < lo
      <4> SUFFICES ASSUME NEW j \in 1..(k - 1) PROVE h[j] < lo
        OBVIOUS
      <4>1. j \in 1..Len(h) /\ j < k
        BY <1>2, <2>2
      <4>2. h[j] < up
        BY <1>1, <1>2, <2>2, <4>1 DEF Ordered
      <4>3. h[j] \in O
        BY <1>2, <3>1, <4>1, <4>2
      <4> QED BY <1>2, <2>1, <4>1, <4>2, <4>3
    <3>3. lo <= h[k]
      BY <1>2, <2>1, <2>2
    <3>4. Behind(kept, k - 1, lo)
      BY <1>1, <2>2, <3>2, <3>3, OrderedRemove DEF kept
    <3>5. kept \in Seq(Addr) /\ Ordered(kept) /\ Range(kept) = O
      BY <2>4, <3>1 DEF Lists
    <3>6. Lists(InsertAt(kept, (k - 1) + 1, lo), O \cup {lo})
      BY <3>4, <3>5, OrderedInsert
    <3>7. (k - 1) + 1 = k
      BY <2>2
    <3>8. O \cup {lo} = O \cup If(merged >= HOLE_T_SIZE, lo)
      BY <2>1 DEF If
    <3> QED BY <2>3, <2>6, <3>6, <3>7, <3>8 DEF g
  <2> QED BY <2>5, <2>6
<1>5. CASE ~high
  <2>1. g = IF low \/ merged < HOLE_T_SIZE THEN h ELSE InsertAt(h, FirstAbove(h, lo), lo)
    BY <1>5 DEF FreeList
  <2> HIDE DEF g
  <2>2. CASE low
    <3>1. Range(h) = O \cup If(merged >= HOLE_T_SIZE, lo)
      BY <1>1, <1>5, <2>2 DEF If
    <3> QED BY <1>1, <2>1, <2>2, <3>1 DEF g, Lists
  <2>3. CASE ~low /\ merged < HOLE_T_SIZE
    <3>1. Range(h) = O \cup If(merged >= HOLE_T_SIZE, lo)
      BY <1>1, <1>2, <1>5, <2>3 DEF If
    <3> QED BY <1>1, <2>1, <2>3, <3>1 DEF g, Lists
  <2>4. CASE ~low /\ ~(merged < HOLE_T_SIZE)
    <3>1. Range(h) = O /\ O \cup {lo} = O \cup If(merged >= HOLE_T_SIZE, lo)
      BY <1>1, <1>2, <1>5, <2>4 DEF If
    <3>2. PICK k \in 0..Len(h) : Behind(h, k, lo) /\ FirstAbove(h, lo) = k + 1
      BY <1>1, <1>3, <3>1, FirstAbovePlace
    <3>3. Lists(InsertAt(h, k + 1, lo), O \cup {lo})
      BY <1>1, <3>1, <3>2, OrderedInsert
    <3> QED BY <2>1, <2>4, <3>1, <3>2, <3>3 DEF g
  <2> QED BY <2>2, <2>3, <2>4
<1> QED BY <1>4, <1>5

\* What a merge finds and leaves: the setting of the lemmas that follow.
Merging(m, B, mn, en, b, r, below, above, lo, hi, m2) ==
    /\ Laid(m, B, mn, en)
    /\ b \in B /\ m[b] > 0 /\ r \in Slots /\ Within(mn, en, r, b)
    /\ Merges(m, mn, en, b, r, below, above, lo, hi)
    /\ MergedWords(m, m2, b, m[b], lo, hi)

\* The blocks outside the merged ones.
Outside(B, lo, hi) == {x \in B : x < lo \/ x > hi}

\* The facts about it that are used below.
MergeFacts(m, B, mn, en, b, r, below, above, lo, hi, m2, C) ==
    /\ Laid(m2, C, mn, en)
    /\ C = Outside(B, lo, hi) \cup {lo}
    /\ lo \in B /\ lo \in Addr /\ hi \in Addr /\ lo <= b /\ BlockEnd(m, b) <= hi
    /\ m2[lo] = -(hi - lo - 1) /\ m2[lo] < 0 /\ BlockEnd(m2, lo) = hi
    /\ \A x \in B : \/ x \in Outside(B, lo, hi) \/ x = b \/ (below /\ x = lo)
                    \/ (above /\ x = BlockEnd(m, b) + 1)
    /\ \A x \in Outside(B, lo, hi) : m2[x] = m[x]

\* They hold.
LEMMA MergeKnown ==
    ASSUME NEW m, NEW B, NEW mn, NEW en, NEW b, NEW r, NEW below, NEW above,
           NEW lo, NEW hi, NEW m2, NEW C,
           Merging(m, B, mn, en, b, r, below, above, lo, hi, m2),
           C = (B \ Swallowed(m, b, above)) \cup {lo}
    PROVE  MergeFacts(m, B, mn, en, b, r, below, above, lo, hi, m2, C)
<1>1. /\ Laid(m, B, mn, en)
      /\ b \in B /\ m[b] > 0 /\ r \in Slots /\ Within(mn, en, r, b)
      /\ Merges(m, mn, en, b, r, below, above, lo, hi)
      /\ MergedWords(m, m2, b, m[b], lo, hi)
  BY DEF Merging
<1>2. MergesSpan(m, B, mn, en, b, r, above, lo, hi)
  BY <1>1, MergedSpan
<1>3. MergesBelow(m, B, mn, en, b, r, below, lo) /\ MergesAbove(m, B, mn, en, b, r, above, hi)
  BY <1>1, BelowFound, AboveFound
<1>4. Laid(m2, C, mn, en)
  BY <1>1, MergeBlock
<1>5. C = Outside(B, lo, hi) \cup {lo}
  BY <1>2 DEF MergesSpan, CutAt, Outside
<1>6. /\ lo \in B /\ lo \in Addr /\ hi \in Addr /\ lo \in Int /\ hi \in Int
      /\ lo <= b /\ BlockEnd(m, b) <= hi
      /\ b \in Int /\ BlockEnd(m, b) \in Int /\ b + 2 <= BlockEnd(m, b)
  BY <1>1, <1>2, <1>3, LaidTypes, BlockFacts, Addresses
     DEF MergesSpan, MergesBelow, MergesAbove
<1>7. m2[lo] = -(hi - lo - 1) /\ m2[lo] < 0 /\ m2[lo] \in Int
  BY <1>1, <1>6 DEF MergedWords
<1>8. BlockEnd(m2, lo) = hi
  <2>1. AbsInt(m2[lo]) = -m2[lo]
    BY <1>7, AbsIntFacts
  <2> QED BY <1>6, <1>7, <2>1 DEF BlockEnd
<1>9. \A x \in B : \/ x \in Outside(B, lo, hi) \/ x = b \/ (below /\ x = lo)
                   \/ (above /\ x = BlockEnd(m, b) + 1)
  <2> SUFFICES ASSUME NEW x \in B, x \notin Outside(B, lo, hi), x # b
               PROVE  (below /\ x = lo) \/ (above /\ x = BlockEnd(m, b) + 1)
    OBVIOUS
  <2>1. x \in Int /\ lo <= x /\ x <= hi
    BY <1>1, <1>6, LaidTypes DEF Outside
  <2>2. x = lo \/ x \in Swallowed(m, b, above)
    BY <1>2, <2>1 DEF MergesSpan
  <2>3. lo # b => below
    BY <1>1, <1>3 DEF MergesBelow, Merges
  <2>4. x \in Swallowed(m, b, above) => above /\ x = BlockEnd(m, b) + 1
    BY <1>1 DEF Swallowed, Merges
  <2> QED BY <2>2, <2>3, <2>4
<1>10. \A x \in Outside(B, lo, hi) : m2[x] = m[x]
  BY <1>1, LaidTypes DEF MergedWords, WritesIn, Outside
<1> QED BY <1>4, <1>5, <1>6, <1>7, <1>8, <1>9, <1>10 DEF MergeFacts

\* The holes before and after a merge, and who is left holding a block.
MergedSets(m, B, b, lo, hi, m2, C, low, high, merged) ==
    LET O  == Holes(m, Outside(B, lo, hi))
        up == BlockEnd(m, b) + 1
    IN  /\ Holes(m, B) = O \cup If(low, lo) \cup If(high, up)
        /\ Holes(m2, C) = O \cup If(merged >= HOLE_T_SIZE, lo)
        /\ low \in BOOLEAN /\ high \in BOOLEAN /\ merged \in Int /\ up \in Int
        /\ low \/ high => merged >= HOLE_T_SIZE
        /\ high => lo < up /\ up <= hi
        /\ {x \in C : m2[x] > 0} = {x \in B : m[x] > 0} \ {b}

\* What the merge knows of the list: whether the neighbours are on it, and
\* the size it makes.
MergeFlags(m, b, below, above, lo, hi, low, high, merged) ==
    /\ low = (below /\ -m[b - 1] >= HOLE_T_SIZE)
    /\ high = (above /\ -m[BlockEnd(m, b) + 1] >= HOLE_T_SIZE)
    /\ merged = hi - lo - 1

\* They are these.
LEMMA MergeSets ==
    ASSUME NEW m, NEW B, NEW mn, NEW en, NEW b, NEW r, NEW below, NEW above,
           NEW lo, NEW hi, NEW m2, NEW C,
           Merging(m, B, mn, en, b, r, below, above, lo, hi, m2),
           C = (B \ Swallowed(m, b, above)) \cup {lo},
           NEW low, NEW high, NEW merged,
           MergeFlags(m, b, below, above, lo, hi, low, high, merged)
    PROVE  MergedSets(m, B, b, lo, hi, m2, C, low, high, merged)
<1> /\ low = (below /\ -m[b - 1] >= HOLE_T_SIZE)
    /\ high = (above /\ -m[BlockEnd(m, b) + 1] >= HOLE_T_SIZE)
    /\ merged = hi - lo - 1
  BY DEF MergeFlags
<1> DEFINE Out == Outside(B, lo, hi)
           O == Holes(m, Out)
           up == BlockEnd(m, b) + 1
<1>1. MergeFacts(m, B, mn, en, b, r, below, above, lo, hi, m2, C)
  BY MergeKnown
<1>2. /\ Laid(m, B, mn, en)
      /\ b \in B /\ m[b] > 0 /\ r \in Slots /\ Within(mn, en, r, b)
      /\ Merges(m, mn, en, b, r, below, above, lo, hi)
  BY DEF Merging
<1>3. MergesBelow(m, B, mn, en, b, r, below, lo) /\ MergesAbove(m, B, mn, en, b, r, above, hi)
  BY <1>2, BelowFound, AboveFound
<1>4. below \in BOOLEAN /\ above \in BOOLEAN
  BY <1>2 DEF Merges
<1>5. /\ C = Out \cup {lo}
      /\ lo \in B /\ lo \in Int /\ hi \in Int /\ lo <= b /\ BlockEnd(m, b) <= hi
      /\ m2[lo] = -merged /\ m2[lo] < 0
      /\ \A x \in B : x \in Out \/ x = b \/ (below /\ x = lo) \/ (above /\ x = up)
      /\ \A x \in Out : m2[x] = m[x]
  BY <1>1, Addresses DEF MergeFacts
<1>6. /\ b \in Int /\ BlockEnd(m, b) \in Int /\ b + 2 <= BlockEnd(m, b)
      /\ up \in Int /\ merged \in Int /\ HOLE_T_SIZE \in Nat /\ HOLE_T_SIZE >= 1
      /\ m[b] \in Int /\ m[lo] \in Int
  BY <1>2, <1>5, BlockFacts, SizesAssumption
<1>7. below => m[lo] = m[b - 1] /\ m[lo] < 0 /\ BlockEnd(m, lo) = b - 1
  BY <1>3 DEF MergesBelow
<1>8. above => up \in B /\ BlockEnd(m, up) = hi /\ m[up] < 0
  BY <1>3 DEF MergesAbove
<1>9. Out \subseteq B /\ b \notin Out /\ lo \notin Out /\ (above => up \notin Out /\ up <= hi)
  <2>1. above => up + 2 <= hi
    BY <1>2, <1>6, <1>8, BlockFacts
  <2> QED BY <1>4, <1>5, <1>6, <2>1 DEF Outside
<1>10. ~below => lo = b
  BY <1>3 DEF MergesBelow
<1>11. (low <=> below /\ -m[lo] >= HOLE_T_SIZE) /\ (high <=> above /\ -m[up] >= HOLE_T_SIZE)
      /\ low \in BOOLEAN /\ high \in BOOLEAN
  BY <1>4, <1>7
<1>12. ASSUME low \/ high PROVE merged >= HOLE_T_SIZE
  <2>1. CASE low
    <3>1. below /\ -m[lo] >= HOLE_T_SIZE /\ BlockEnd(m, lo) = lo - m[lo] + 1
      BY <1>2, <1>5, <1>7, <1>11, <2>1, BlockFacts
    <3> QED BY <1>5, <1>6, <1>7, <3>1
  <2>2. CASE high
    <3>1. /\ above /\ -m[up] >= HOLE_T_SIZE /\ m[up] \in Int /\ hi = up - m[up] + 1
      BY <1>2, <1>8, <1>11, <2>2, BlockFacts
    <3> QED BY <1>5, <1>6, <3>1
  <2> QED BY <1>12, <2>1, <2>2
<1>13. high => lo < up /\ up <= hi
  BY <1>5, <1>6, <1>9, <1>11
<1> HIDE DEF Out, up
<1>14. Holes(m, B) = O \cup If(low, lo) \cup If(high, up)
  <2>1. ~(-m[b] >= HOLE_T_SIZE)
    BY <1>2, <1>6
  <2>2. \A x \in Holes(m, B) : x \in O \cup If(low, lo) \cup If(high, up)
    BY <1>5, <1>11, <2>1 DEF Holes, If
  <2>3. O \cup If(low, lo) \cup If(high, up) \subseteq Holes(m, B)
    BY <1>5, <1>8, <1>9, <1>11 DEF Holes, If
  <2> QED BY <2>2, <2>3
<1>15. Holes(m2, C) = O \cup If(merged >= HOLE_T_SIZE, lo)
  <2>1. -m2[lo] = merged
    BY <1>5, <1>6
  <2> QED BY <1>5, <1>9, <2>1 DEF Holes, If
<1>16. {x \in C : m2[x] > 0} = {x \in B : m[x] > 0} \ {b}
  <2>1. ~(m2[lo] > 0) /\ (below => ~(m[lo] > 0)) /\ (above => ~(m[up] > 0))
    <3>1. above => m[up] \in Int
      BY <1>2, <1>8, BlockFacts
    <3> QED BY <1>5, <1>6, <1>7, <1>8, <3>1
  <2>2. \A x \in B : m[x] > 0 /\ x # b => x \in Out
    BY <1>5, <2>1
  <2> QED BY <1>5, <1>9, <2>1, <2>2
<1> QED BY <1>6, <1>11, <1>12, <1>13, <1>14, <1>15, <1>16 DEF Out, up, MergedSets

\* The stale tags after a merge.
LEMMA MergeFreed ==
    ASSUME NEW m, NEW B, NEW mn, NEW en, NEW b, NEW r, NEW below, NEW above,
           NEW lo, NEW hi, NEW m2, NEW C, NEW F,
           Merging(m, B, mn, en, b, r, below, above, lo, hi, m2),
           C = (B \ Swallowed(m, b, above)) \cup {lo},
           F \subseteq Addr, KeepsFreed(F, m, B)
    PROVE  KeepsFreed(F \cup {b}, m2, C)
<1> DEFINE Out == Outside(B, lo, hi)
           top == BlockEnd(m, b)
<1>1. MergeFacts(m, B, mn, en, b, r, below, above, lo, hi, m2, C)
  BY MergeKnown
<1>2. /\ Laid(m, B, mn, en)
      /\ b \in B /\ m[b] > 0 /\ r \in Slots /\ Within(mn, en, r, b)
      /\ Merges(m, mn, en, b, r, below, above, lo, hi)
      /\ MergedWords(m, m2, b, m[b], lo, hi)
  BY DEF Merging
<1>3. MergesBelow(m, B, mn, en, b, r, below, lo) /\ MergesAbove(m, B, mn, en, b, r, above, hi)
  BY <1>2, BelowFound, AboveFound
<1>4. /\ C = Out \cup {lo} /\ lo \in C
      /\ lo \in B /\ lo \in Int /\ hi \in Int /\ lo <= b /\ top <= hi
      /\ m2[lo] < 0 /\ BlockEnd(m2, lo) = hi
      /\ \A x \in B : x \in Out \/ x = b \/ (below /\ x = lo) \/ (above /\ x = top + 1)
  BY <1>1, Addresses DEF MergeFacts
<1>5. /\ b \in Int /\ b \in Addr /\ top \in Int /\ b + 2 <= top /\ m[b] \in Int
  BY <1>2, BlockFacts
<1>6. ASSUME NEW f \in Addr, f = lo \/ (lo + 3 <= f /\ f < hi),
             f = b \/ m[f] < 0 \/ (HOLE_T_SIZE > 2 /\ m[f] = LinkWord)
      PROVE  StaleTag(m2, f, lo)
  <2>1. m2[f] < 0 \/ (HOLE_T_SIZE > 2 /\ m2[f] = LinkWord)
    <3>1. CASE f = lo
      BY <1>4, <3>1
    <3>2. CASE lo + 3 <= f /\ f < hi
      <4>1. \/ m2[f] = -m[b]
            \/ m2[f] = m[f] /\ f # b
            \/ HOLE_T_SIZE > 2 /\ m2[f] = LinkWord
        BY <1>2, <3>2 DEF MergedWords
      <4> QED BY <1>2, <1>5, <1>6, <4>1
    <3> QED BY <1>6, <3>1, <3>2
  <2>2. f = lo \/ f \in (lo + 3)..(BlockEnd(m2, lo) - 1)
    BY <1>4, <1>6, Addresses
  <2> QED BY <1>4, <2>1, <2>2 DEF StaleTag
<1>7. StaleTag(m2, b, lo)
  <2>1. b = lo \/ (lo + 3 <= b /\ b < hi)
    BY <1>2, <1>3, <1>4, <1>5 DEF MergesBelow, Merges
  <2> QED BY <1>5, <1>6, <2>1
<1> HIDE DEF Out, top
<1>8. ASSUME NEW f \in F PROVE \E c \in C : StaleTag(m2, f, c)
  <2>1. PICK c \in B : StaleTag(m, f, c)
    BY <1>8 DEF KeepsFreed
  <2>2. /\ f \in Addr /\ f \in Int /\ c \in Int /\ BlockEnd(m, c) \in Int
        /\ c + 2 <= BlockEnd(m, c)
        /\ m[c] < 0 /\ (f = c \/ (c + 3 <= f /\ f < BlockEnd(m, c)))
        /\ m[f] < 0 \/ (HOLE_T_SIZE > 2 /\ m[f] = LinkWord)
    BY <1>2, <1>8, <2>1, BlockFacts, Addresses DEF StaleTag
  <2>3. CASE c \in Out
    <3>1. c \in B /\ (c < lo \/ c > hi)
      BY <2>3 DEF Outside, Out
    <3>2. Span(m, B, mn, en, r, lo, hi)
      BY <1>2, MergedSpan DEF MergesSpan
    <3>3. m2[c] = m[c] /\ BlockEnd(m2, c) = BlockEnd(m, c) /\ (BlockEnd(m, c) < lo \/ c > hi)
      BY <1>2, <3>1, <3>2, OutsideKept DEF MergedWords
    <3>4. f < lo \/ f > hi
      BY <1>4, <2>2, <3>1, <3>3
    <3>5. m2[f] = m[f]
      BY <1>2, <2>2, <3>4 DEF MergedWords, WritesIn
    <3>6. StaleTag(m2, f, c)
      BY <2>1, <3>3, <3>5 DEF StaleTag
    <3> QED BY <1>4, <2>3, <3>6
  <2>4. CASE c \notin Out
    <3>1. (below /\ c = lo) \/ (above /\ c = top + 1)
      <4>1. c # b
        BY <1>2, <1>5, <2>2
      <4> QED BY <1>4, <2>4, <4>1
    <3>2. CASE below /\ c = lo
      <4>1. BlockEnd(m, c) = b - 1
        BY <1>3, <3>2 DEF MergesBelow
      <4>2. f = lo \/ (lo + 3 <= f /\ f < hi)
        BY <1>4, <1>5, <2>2, <3>2, <4>1
      <4> QED BY <1>4, <1>6, <2>2, <4>2
    <3>3. CASE above /\ c = top + 1
      <4>1. BlockEnd(m, c) = hi
        BY <1>3, <3>3 DEF MergesAbove, top
      <4>2. lo + 3 <= f /\ f < hi
        BY <1>4, <1>5, <2>2, <3>3, <4>1
      <4> QED BY <1>4, <1>6, <2>2, <4>2
    <3> QED BY <3>1, <3>2, <3>3
  <2> QED BY <2>3, <2>4
<1> QED BY <1>4, <1>7, <1>8 DEF KeepsFreed

\* The holders after the block at b was given back.
Returned(hd, b) == [x \in DOMAIN hd \ {b} |-> hd[x]]

\* ns_mem_free_and_merge_with_adjacent_blocks keeps the structure.
LEMMA MergeShape ==
    ASSUME NEW m, NEW B, NEW mn, NEW en, NEW h, NEW hd, NEW F,
           Shape(m, B, mn, en, h, hd, F), F \subseteq Addr,
           NEW b, NEW r, NEW below, NEW above, NEW lo, NEW hi, NEW m2,
           Merging(m, B, mn, en, b, r, below, above, lo, hi, m2),
           NEW low, NEW high, NEW merged,
           MergeFlags(m, b, below, above, lo, hi, low, high, merged)
    PROVE  Shape(m2, (B \ Swallowed(m, b, above)) \cup {lo}, mn, en,
                 FreeList(h, lo, BlockEnd(m, b) + 1, low, high, merged),
                 Returned(hd, b), F \cup {b})
<1> DEFINE C == (B \ Swallowed(m, b, above)) \cup {lo}
           O == Holes(m, Outside(B, lo, hi))
           up == BlockEnd(m, b) + 1
           g == FreeList(h, lo, up, low, high, merged)
<1>1. MergeFacts(m, B, mn, en, b, r, below, above, lo, hi, m2, C)
  BY MergeKnown
<1>2. /\ Laid(m2, C, mn, en) /\ C = Outside(B, lo, hi) \cup {lo}
      /\ lo \in Addr /\ hi \in Addr /\ lo <= b /\ BlockEnd(m, b) <= hi
      /\ \A x \in Outside(B, lo, hi) : m2[x] = m[x]
      /\ m2[lo] < 0
  BY <1>1 DEF MergeFacts
<1>3. /\ Holes(m, B) = O \cup If(low, lo) \cup If(high, up)
      /\ Holes(m2, C) = O \cup If(merged >= HOLE_T_SIZE, lo)
      /\ low \in BOOLEAN /\ high \in BOOLEAN /\ merged \in Int /\ up \in Int
      /\ low \/ high => merged >= HOLE_T_SIZE
      /\ high => lo < up /\ up <= hi
      /\ {x \in C : m2[x] > 0} = {x \in B : m[x] > 0} \ {b}
  <2>1. MergedSets(m, B, b, lo, hi, m2, C, low, high, merged)
    <3> HIDE DEF C
    <3>1. C = (B \ Swallowed(m, b, above)) \cup {lo}
      BY DEF C
    <3> QED BY <3>1, MergeSets, Zenon
  <2> QED BY <2>1 DEF MergedSets
<1>4. b \in B /\ Laid(m, B, mn, en) /\ b \in Int /\ BlockEnd(m, b) \in Int /\ b + 2 <= BlockEnd(m, b)
  BY BlockFacts DEF Merging
<1>5. lo <= hi
  BY <1>2, <1>4, Addresses
<1>6. \A x \in O : x < lo \/ x > hi
  BY DEF Holes, Outside
<1> HIDE DEF C, O, up, g
<1>7. Lists(g, Holes(m2, C))
  <2>1. Lists(h, O \cup If(low, lo) \cup If(high, up))
    BY <1>3 DEF Shape
  <2>2. Lists(g, O \cup If(merged >= HOLE_T_SIZE, lo))
    BY <1>2, <1>3, <1>5, <1>6, <2>1, FreeListed DEF g
  <2> QED BY <1>3, <2>2
<1>8. Holds(Returned(hd, b), m2, C)
  <2>1. /\ DOMAIN hd = {x \in B : m[x] > 0}
        /\ \A x \in DOMAIN hd : hd[x] \in Nat /\ m[x] * WordSize >= hd[x]
    BY DEF Shape, Holds
  <2>2. DOMAIN Returned(hd, b) = {x \in C : m2[x] > 0}
    BY <1>3, <2>1 DEF Returned
  <2>3. \A x \in DOMAIN Returned(hd, b) : m2[x] = m[x]
    <3> SUFFICES ASSUME NEW x \in C, m2[x] > 0 PROVE m2[x] = m[x]
      BY <2>2
    <3>1. m2[lo] \in Int
      BY <1>2, LaidTypes
    <3>2. x # lo
      BY <1>2, <3>1
    <3> QED BY <1>2, <3>2
  <2>4. \A x \in DOMAIN Returned(hd, b) : x \in DOMAIN hd /\ Returned(hd, b)[x] = hd[x]
    BY DEF Returned
  <2> QED BY <2>1, <2>2, <2>3, <2>4 DEF Holds
<1>9. KeepsFreed(F \cup {b}, m2, C)
  BY MergeFreed DEF C, Shape
<1>10. Shape(m2, C, mn, en, g, Returned(hd, b), F \cup {b})
  BY <1>2, <1>7, <1>8, <1>9 DEF Shape
<1> QED BY <1>10 DEF C, g, up

\* A freed block shares no word with what no region has.
LEMMA FreedApart ==
    ASSUME NEW m, NEW B, NEW mn, NEW en, NEW F, Laid(m, B, mn, en),
           KeepsFreed(F, m, B), F \subseteq Addr,
           NEW lo \in Int, NEW hi \in Int, NoRegionHas(mn, en, lo, hi), NEW f \in F
    PROVE  f \in Int /\ (f < lo \/ f > hi)
<1>1. PICK c \in B : StaleTag(m, f, c)
  BY DEF KeepsFreed
<1>2. BlockEnd(m, c) < lo \/ c > hi
  BY NoBlockHas
<1>3. c \in Int /\ BlockEnd(m, c) \in Int /\ c + 2 <= BlockEnd(m, c) /\ f \in Int
  BY BlockFacts, Addresses
<1>4. f = c \/ (c + 3 <= f /\ f <= BlockEnd(m, c) - 1)
  BY <1>1, <1>3 DEF StaleTag
<1> QED BY <1>2, <1>3, <1>4

\* A write outside the regions keeps the structure.
LEMMA ApartShape ==
    ASSUME NEW m, NEW B, NEW mn, NEW en, NEW h, NEW hd, NEW F,
           Shape(m, B, mn, en, h, hd, F), F \subseteq Addr,
           NEW lo \in Addr, NEW hi \in Addr, lo <= hi, NoRegionHas(mn, en, lo, hi),
           NEW m2, WritesIn(m, m2, lo, hi)
    PROVE  Shape(m2, B, mn, en, h, hd, F)
<1>1. /\ Laid(m, B, mn, en) /\ Lists(h, Holes(m, B)) /\ Holds(hd, m, B)
      /\ KeepsFreed(F, m, B) /\ lo \in Int /\ hi \in Int
  BY Addresses DEF Shape
<1>2. Laid(m2, B, mn, en) /\ \A b \in B : m2[b] = m[b] /\ BlockEnd(m2, b) = BlockEnd(m, b)
  BY <1>1, WritesApart
<1>3. Holes(m2, B) = Holes(m, B)
  BY <1>2 DEF Holes
<1>4. Holds(hd, m2, B)
  BY <1>1, <1>2 DEF Holds
<1>5. KeepsFreed(F, m2, B)
  <2> SUFFICES ASSUME NEW f \in F PROVE \E c \in B : StaleTag(m2, f, c)
    BY DEF KeepsFreed
  <2>1. PICK c \in B : StaleTag(m, f, c)
    BY <1>1 DEF KeepsFreed
  <2>2. f \in Addr /\ (f < lo \/ f > hi)
    BY <1>1, FreedApart
  <2>3. m2[f] = m[f]
    BY <2>2 DEF WritesIn
  <2> QED BY <1>2, <2>1, <2>3 DEF StaleTag
<1> QED BY <1>1, <1>2, <1>3, <1>4, <1>5 DEF Shape

\* A region that is added keeps the structure.
LEMMA AddShape ==
    ASSUME NEW m, NEW B, NEW mn, NEW en, NEW h, NEW hd, NEW F,
           Shape(m, B, mn, en, h, hd, F), F \subseteq Addr,
           NEW lo \in Addr, NEW hi \in Addr, NoRegionHas(mn, en, lo, hi),
           NEW m2, WritesIn(m, m2, lo, hi),
           NEW k \in Slots, mn[k] = 0, hi - lo - 1 >= HOLE_T_SIZE,
           m2[lo] = -(hi - lo - 1), m2[hi] = m2[lo]
    PROVE  Shape(m2, B \cup {lo}, [mn EXCEPT ![k] = lo], [en EXCEPT ![k] = hi],
                 AddAfterLower(h, lo), hd, F)
<1>1. HOLE_T_SIZE \in Nat /\ HOLE_T_SIZE >= 1 /\ lo \in Int /\ hi \in Int
  BY SizesAssumption, Addresses
<1>2. lo + 2 <= hi /\ lo <= hi
  BY <1>1
<1>3. Shape(m2, B, mn, en, h, hd, F)
  BY <1>2, ApartShape
<1>4. Laid(m2, B, mn, en) /\ h \in Seq(Addr) /\ Ordered(h) /\ Range(h) = Holes(m2, B)
  BY <1>3 DEF Shape, Lists
<1>5. Laid(m2, B \cup {lo}, [mn EXCEPT ![k] = lo], [en EXCEPT ![k] = hi])
  BY <1>2, <1>4, NewRegion
<1>6. lo \notin B
  <2> SUFFICES ASSUME lo \in B PROVE FALSE
    OBVIOUS
  <2>1. BlockEnd(m2, lo) < lo \/ lo > hi
    BY <1>1, <1>4, NoBlockHas
  <2>2. lo + 2 <= BlockEnd(m2, lo) /\ BlockEnd(m2, lo) \in Int
    BY <1>4, BlockFacts
  <2> QED BY <1>1, <1>2, <2>1, <2>2
<1>7. Holes(m2, B \cup {lo}) = Holes(m2, B) \cup {lo}
  <2>1. -m2[lo] >= HOLE_T_SIZE
    BY <1>1
  <2> QED BY <2>1 DEF Holes
<1>8. Lists(AddAfterLower(h, lo), Holes(m2, B \cup {lo}))
  <2>1. lo \notin Range(h)
    BY <1>4, <1>6 DEF Holes
  <2>2. Lists(AddAfterLower(h, lo), Range(h) \cup {lo})
    BY <1>4, <2>1, AfterLowerPlace
  <2> QED BY <1>4, <1>7, <2>2
<1>9. Holds(hd, m2, B \cup {lo})
  <2>1. ~(m2[lo] > 0)
    BY <1>1, <1>2
  <2> QED BY <1>3, <2>1 DEF Shape, Holds
<1>10. KeepsFreed(F, m2, B \cup {lo})
  BY <1>3 DEF Shape, KeepsFreed
<1> QED BY <1>5, <1>8, <1>9, <1>10 DEF Shape

\* Writes between the tags of a block, where nothing was freed, keep the
\* structure.
LEMMA BodyShape ==
    ASSUME NEW m, NEW B, NEW mn, NEW en, NEW hd, NEW F,
           Laid(m, B, mn, en), Holds(hd, m, B), KeepsFreed(F, m, B), F \subseteq Addr,
           NEW b \in B, \A f \in F : f < b \/ f > BlockEnd(m, b),
           NEW m2, WritesIn(m, m2, b + 1, BlockEnd(m, b) - 1)
    PROVE  /\ Laid(m2, B, mn, en) /\ Holds(hd, m2, B) /\ KeepsFreed(F, m2, B)
           /\ Holes(m2, B) = Holes(m, B)
           /\ \A x \in B : m2[x] = m[x]
<1>1. m \in [Addr -> Int] /\ m2 \in [Addr -> Int] /\ B \subseteq Addr /\ SlotsApart(mn, en)
  BY LaidTypes DEF WritesIn
<1>2. ASSUME NEW x \in B
      PROVE  m2[x] = m[x] /\ m2[BlockEnd(m, x)] = m[BlockEnd(m, x)]
  <2> DEFINE e == BlockEnd(m, b)
             d == BlockEnd(m, x)
  <2>1. /\ x \in Addr /\ x \in Int /\ d \in Addr /\ d \in Int /\ x + 2 <= d
        /\ b > x => b > d
    BY BlockFacts
  <2>2. b \in Int /\ e \in Int /\ b + 2 <= e /\ (x > b => x > e)
    BY BlockFacts
  <2>3. x = b => d = e
    OBVIOUS
  <2> HIDE DEF d, e
  <2>4. (x < b + 1 \/ x > e - 1) /\ (d < b + 1 \/ d > e - 1)
    BY <2>1, <2>2, <2>3
  <2> QED BY <2>1, <2>4 DEF WritesIn, d, e
<1>3. \A x \in B : m2[x] = m[x] /\ BlockEnd(m2, x) = BlockEnd(m, x)
  BY <1>2 DEF BlockEnd
<1>4. ASSUME NEW x \in B
      PROVE  Tagged(m2, x) /\ Fitted(m2, B, mn, en, x) /\ Single(m2, mn, en, x)
  <2>1. Tagged(m, x) /\ Fitted(m, B, mn, en, x) /\ Single(m, mn, en, x)
    BY DEF Laid
  <2>2. Tagged(m2, x)
    BY <1>2, <1>3, <2>1 DEF Tagged
  <2>3. Fitted(m2, B, mn, en, x)
    BY <1>3, <2>1 DEF Fitted
  <2>4. \A i \in Slots : Within(mn, en, i, x) /\ BlockEnd(m, x) # en[i] => BlockEnd(m, x) + 1 \in B
    BY BlockInRegion
  <2>5. Single(m2, mn, en, x)
    BY <1>3, <2>1, <2>4 DEF Single
  <2> QED BY <2>2, <2>3, <2>5
<1>5. Laid(m2, B, mn, en)
  BY <1>1, <1>3, <1>4 DEF Laid
<1>6. Holes(m2, B) = Holes(m, B)
  BY <1>3 DEF Holes
<1>7. Holds(hd, m2, B)
  BY <1>3 DEF Holds
<1>8. KeepsFreed(F, m2, B)
  <2> SUFFICES ASSUME NEW f \in F PROVE \E c \in B : StaleTag(m2, f, c)
    BY DEF KeepsFreed
  <2>1. PICK c \in B : StaleTag(m, f, c)
    BY DEF KeepsFreed
  <2>2. f \in Addr /\ f \in Int /\ b \in Int /\ BlockEnd(m, b) \in Int
    BY BlockFacts, Addresses
  <2>3. m2[f] = m[f]
    BY <2>2 DEF WritesIn
  <2> QED BY <1>3, <2>1, <2>3 DEF StaleTag
<1> QED BY <1>3, <1>5, <1>6, <1>7, <1>8

-----------------------------------------------------------------------------
(* What the blocks make up *)

SizesOf(m, B) == [b \in B |-> BlockBytes(AbsInt(m[b]))]

\* The bytes of all blocks, tags included.
Covered(m, B) == SumFunction(SizesOf(m, B))

\* A sum over finitely many integers: a block's bytes are its words'.
LEMMA CoveredFacts ==
    ASSUME NEW m, NEW B, NEW mn, NEW en, Laid(m, B, mn, en)
    PROVE  /\ IsFiniteSet(B)
           /\ Covered(m, B) = SumFunctionOnSet(SizesOf(m, B), B)
           /\ \A b \in B : /\ SizesOf(m, B)[b] = (BlockEnd(m, b) - b + 1) * WordSize
                           /\ SizesOf(m, B)[b] \in Int
<1>1. IsFiniteSet(B)
  <2>1. IsFiniteSet(Addr) /\ B \subseteq Addr
    BY FS_Interval, SizesAssumption, LaidTypes DEF Addr
  <2> QED BY <2>1, FS_Subset
<1>2. Covered(m, B) = SumFunctionOnSet(SizesOf(m, B), B)
  <2>1. DOMAIN SizesOf(m, B) = B
    BY DEF SizesOf
  <2> QED BY <2>1, SumIsTotal DEF Covered
<1>3. ASSUME NEW b \in B
      PROVE  /\ SizesOf(m, B)[b] = (BlockEnd(m, b) - b + 1) * WordSize
             /\ SizesOf(m, B)[b] \in Int
  <2>1. b \in Int /\ m[b] \in Int
    BY BlockFacts
  <2>2. AbsInt(m[b]) \in Nat
    BY <2>1, AbsIntFacts
  <2>3. BlockEnd(m, b) = b + AbsInt(m[b]) + 1
    BY DEF BlockEnd
  <2>4. SizesOf(m, B)[b] = (AbsInt(m[b]) + 2) * WordSize
    BY DEF SizesOf, BlockBytes
  <2> QED BY <2>1, <2>2, <2>3, <2>4 DEF WordSize
<1> QED BY <1>1, <1>2, <1>3

\* Blocks that keep their tags keep their bytes.
LEMMA SameCover ==
    ASSUME NEW m, NEW B, NEW mn, NEW en, Laid(m, B, mn, en),
           NEW m2, NEW C, NEW mn2, NEW en2, Laid(m2, C, mn2, en2),
           NEW K, K \subseteq B, K \subseteq C, \A b \in K : AbsInt(m2[b]) = AbsInt(m[b])
    PROVE  /\ IsFiniteSet(K)
           /\ SumFunctionOnSet(SizesOf(m2, C), K) = SumFunctionOnSet(SizesOf(m, B), K)
           /\ SumFunctionOnSet(SizesOf(m, B), K) \in Int
<1> DEFINE w == SizesOf(m, B)
           v == SizesOf(m2, C)
<1>1. IsFiniteSet(K) /\ \A b \in K : w[b] \in Int /\ v[b] \in Int
  <2>1. IsFiniteSet(B) /\ \A b \in B : w[b] \in Int
    BY CoveredFacts
  <2>2. \A b \in C : v[b] \in Int
    BY CoveredFacts
  <2> QED BY <2>1, <2>2, FS_Subset
<1>2. AgreeOn(v, w, K) /\ AgreeOn(w, w, K)
  BY DEF AgreeOn, SizesOf
<1> HIDE DEF v, w
<1>3. SumFunctionOnSet(v, K) = SumFunctionOnSet(w, K)
  BY <1>1, <1>2, SumAgrees
<1>4. SumFunctionOnSet(w, K) \in Int
  BY <1>1, <1>2, SumAgrees
<1> QED BY <1>1, <1>3, <1>4 DEF v, w

\* A split loses no byte.
LEMMA SplitCovers ==
    ASSUME NEW m, NEW B, NEW mn, NEW en, Laid(m, B, mn, en), NEW b \in B,
           NEW data \in Nat, NEW rest \in Nat, m[b] = -(rest + data + 2),
           NEW hole, NEW new, NEW m2,
           IsSplit(m, B, mn, en, m2, b, hole, new, data, rest)
    PROVE  Covered(m2, (B \ {b}) \cup {hole, new}) = Covered(m, B)
<1> DEFINE K == B \ {b}
           C == K \cup {hole, new}
           w == SizesOf(m, B)
           v == SizesOf(m2, C)
<1>1. /\ Laid(m2, C, mn, en) /\ WritesIn(m, m2, b, BlockEnd(m, b))
      /\ hole # new /\ b <= hole /\ hole <= BlockEnd(m, b)
      /\ b <= new /\ new <= BlockEnd(m, b) /\ hole \in Int /\ new \in Int
      /\ m2[hole] = -rest /\ m2[new] = data
  BY Addresses DEF IsSplit
<1>2. b \in Int /\ BlockEnd(m, b) \in Int
  BY BlockFacts
<1>3. \A x \in K : m2[x] = m[x] /\ (x < b \/ x > BlockEnd(m, b)) /\ x \in Int
  BY <1>1, OtherBlocks, LaidTypes
<1>4. hole \notin K /\ new \notin K \cup {hole} /\ b \notin K
  BY <1>1, <1>2, <1>3
<1>5. /\ B = K \cup {b} /\ C = (K \cup {hole}) \cup {new}
      /\ K \subseteq B /\ K \subseteq C /\ hole \in C /\ new \in C
  OBVIOUS
<1> HIDE DEF K, C
<1>6. /\ IsFiniteSet(B) /\ Covered(m, B) = SumFunctionOnSet(w, B)
      /\ \A x \in B : w[x] \in Int
  BY CoveredFacts
<1>7. /\ IsFiniteSet(C) /\ Covered(m2, C) = SumFunctionOnSet(v, C)
      /\ \A x \in C : v[x] \in Int
  BY <1>1, CoveredFacts
<1>8. /\ IsFiniteSet(K) /\ SumFunctionOnSet(v, K) = SumFunctionOnSet(w, K)
      /\ SumFunctionOnSet(w, K) \in Int
  <2>1. \A x \in K : AbsInt(m2[x]) = AbsInt(m[x])
    BY <1>3
  <2>2. Laid(m2, C, mn, en)
    BY <1>1
  <2> HIDE DEF v, w
  <2> QED BY <1>5, <2>1, <2>2, SameCover DEF v, w
<1>9. /\ w[b] = (rest + data + 4) * WordSize
      /\ v[hole] = (rest + 2) * WordSize /\ v[new] = (data + 2) * WordSize
  <2>1. AbsInt(-(rest + data + 2)) = rest + data + 2
    BY AbsIntFacts
  <2>2. AbsInt(-rest) = rest /\ AbsInt(data) = data
    BY AbsIntFacts
  <2>3. w[b] = (rest + data + 2 + 2) * WordSize
    BY <2>1 DEF SizesOf, BlockBytes
  <2>4. v[hole] = (rest + 2) * WordSize /\ v[new] = (data + 2) * WordSize
    BY <1>1, <1>5, <2>2 DEF SizesOf, BlockBytes
  <2> QED BY <2>3, <2>4 DEF WordSize
<1> HIDE DEF v, w
<1>10. SumFunctionOnSet(w, B) = w[b] + SumFunctionOnSet(w, K)
  BY <1>4, <1>5, <1>6, <1>8, SumAdds
<1>11. SumFunctionOnSet(v, K \cup {hole}) = v[hole] + SumFunctionOnSet(v, K)
  BY <1>4, <1>5, <1>7, <1>8, SumAdds
<1>12. SumFunctionOnSet(v, C) = v[new] + SumFunctionOnSet(v, K \cup {hole})
  <2>1. IsFiniteSet(K \cup {hole})
    BY <1>8, FS_AddElement
  <2> QED BY <1>4, <1>5, <1>7, <2>1, SumAdds
<1>13. SumFunctionOnSet(v, C) = SumFunctionOnSet(w, B)
  BY <1>8, <1>9, <1>10, <1>11, <1>12 DEF WordSize
<1> QED BY <1>6, <1>7, <1>13 DEF C, K

\* Nor does handing out a whole block.
LEMMA WholeCovers ==
    ASSUME NEW m, NEW B, NEW mn, NEW en, Laid(m, B, mn, en), NEW b \in B, NEW m2,
           WritesIn(m, m2, b, BlockEnd(m, b)), m2[b] = -m[b], Laid(m2, B, mn, en)
    PROVE  Covered(m2, B) = Covered(m, B)
<1>1. ASSUME NEW x \in B PROVE AbsInt(m2[x]) = AbsInt(m[x])
  <2>1. CASE x = b
    BY <2>1, BlockFacts, AbsIntFacts
  <2>2. CASE x # b
    BY <2>2, OtherBlocks
  <2> QED BY <2>1, <2>2
<1>2. SumFunctionOnSet(SizesOf(m2, B), B) = SumFunctionOnSet(SizesOf(m, B), B)
  BY <1>1, SameCover
<1> QED BY <1>2, CoveredFacts

\* The bytes of the block at b and of its free neighbours are those of the
\* interval they make.
LEMMA MergedBytes ==
    ASSUME NEW m, NEW B, NEW mn, NEW en, Laid(m, B, mn, en), NEW b \in B,
           NEW r \in Slots, Within(mn, en, r, b), NEW below, NEW above, NEW lo, NEW hi,
           Merges(m, mn, en, b, r, below, above, lo, hi),
           NEW K, K = {c \in B : c < lo \/ c > hi}
    PROVE  Covered(m, B) = (hi - lo + 1) * WordSize + SumFunctionOnSet(SizesOf(m, B), K)
<1> DEFINE w == SizesOf(m, B)
           top == BlockEnd(m, b)
           size(c) == (BlockEnd(m, c) - c + 1) * WordSize
<1>1. MergesBelow(m, B, mn, en, b, r, below, lo) /\ MergesAbove(m, B, mn, en, b, r, above, hi)
  BY BelowFound, AboveFound
<1>2. /\ lo <= b /\ top <= hi
      /\ \A c \in B : lo <= c /\ c <= hi => c = lo \/ c \in Swallowed(m, b, above)
  <2>1. MergesSpan(m, B, mn, en, b, r, above, lo, hi)
    BY MergedSpan
  <2> QED BY <2>1 DEF MergesSpan
<1>3. /\ b \in Int /\ top \in Int /\ b + 2 <= top /\ lo \in B /\ lo \in Int /\ hi \in Int
      /\ \A c \in B : c \in Int
  BY <1>1, BlockFacts, LaidTypes, Addresses DEF MergesBelow, MergesAbove
<1>4. /\ IsFiniteSet(B) /\ Covered(m, B) = SumFunctionOnSet(w, B)
      /\ \A c \in B : w[c] = size(c) /\ w[c] \in Int
  BY CoveredFacts
<1>5. IsFiniteSet(K) /\ K \subseteq B /\ SumFunctionOnSet(w, K) \in Int
  BY SameCover
<1>6. b \notin K /\ lo \notin K
  BY <1>2, <1>3
<1>7. /\ ~below => lo = b
      /\ below => lo + 3 <= b /\ BlockEnd(m, lo) = b - 1
  BY <1>1 DEF MergesBelow
<1>8. /\ ~above => hi = top
      /\ above => /\ top + 1 \in B /\ BlockEnd(m, top + 1) = hi
                  /\ top + 1 \notin K /\ top + 1 # b /\ top + 1 # lo
  <2>1. /\ ~above => hi = top
        /\ above => top + 1 \in B /\ BlockEnd(m, top + 1) = hi
    BY <1>1 DEF MergesAbove
  <2>2. above => top + 3 <= hi
    BY <1>3, <2>1, BlockFacts
  <2> QED BY <1>2, <1>3, <2>1, <2>2
<1>9. below \in BOOLEAN /\ above \in BOOLEAN
  BY DEF Merges
<1> DEFINE L == IF below THEN K \cup {lo} ELSE K
           M == L \cup {b}
<1>10. B = IF above THEN M \cup {top + 1} ELSE M
  <2>1. \A c \in B : c \in K \/ c = lo \/ c \in Swallowed(m, b, above)
    BY <1>2, <1>3
  <2>2. \A c \in B : c \in K \/ c = lo \/ c = b \/ (above /\ c = top + 1)
    BY <2>1 DEF Swallowed
  <2> HIDE DEF top
  <2> QED BY <1>3, <1>5, <1>7, <1>8, <1>9, <2>2
<1> HIDE DEF w, top
<1>11. /\ IsFiniteSet(L) /\ L \subseteq B /\ b \notin L /\ (above => top + 1 \notin L)
       /\ SumFunctionOnSet(w, L) = (b - lo) * WordSize + SumFunctionOnSet(w, K)
  <2>1. CASE below
    <3>1. IsFiniteSet(K \cup {lo}) /\ SumFunctionOnSet(w, K \cup {lo}) = w[lo] + SumFunctionOnSet(w, K)
      BY <1>3, <1>4, <1>5, <1>6, FS_AddElement, SumAdds
    <3>2. w[lo] = (b - lo) * WordSize
      BY <1>3, <1>4, <1>7, <2>1 DEF WordSize
    <3>3. lo # b
      BY <1>3, <1>7, <2>1
    <3> QED BY <1>3, <1>5, <1>6, <1>8, <2>1, <3>1, <3>2, <3>3
  <2>2. CASE ~below
    BY <1>3, <1>5, <1>6, <1>7, <1>8, <2>2 DEF WordSize
  <2> QED BY <1>9, <2>1, <2>2
<1> HIDE DEF L
<1>12. /\ IsFiniteSet(M) /\ M \subseteq B /\ (above => top + 1 \notin M)
       /\ SumFunctionOnSet(w, M) = (top - lo + 1) * WordSize + SumFunctionOnSet(w, K)
  <2>1. IsFiniteSet(M) /\ SumFunctionOnSet(w, M) = w[b] + SumFunctionOnSet(w, L)
    BY <1>4, <1>11, FS_AddElement, SumAdds
  <2>2. w[b] = (top - b + 1) * WordSize
    BY <1>4 DEF top
  <2>3. SumFunctionOnSet(w, M) = (top - lo + 1) * WordSize + SumFunctionOnSet(w, K)
    BY <1>3, <1>5, <1>11, <2>1, <2>2 DEF WordSize
  <2> QED BY <1>8, <1>11, <2>1, <2>3
<1> HIDE DEF M
<1>13. CASE above
  <2>1. SumFunctionOnSet(w, B) = w[top + 1] + SumFunctionOnSet(w, M)
    BY <1>4, <1>10, <1>12, <1>13, SumAdds
  <2>2. w[top + 1] = (hi - (top + 1) + 1) * WordSize
    BY <1>4, <1>8, <1>13
  <2> QED BY <1>3, <1>4, <1>5, <1>12, <2>1, <2>2 DEF WordSize, w
<1>14. CASE ~above
  BY <1>4, <1>8, <1>10, <1>12, <1>14 DEF w
<1> QED BY <1>9, <1>13, <1>14

\* A merge loses no byte.
LEMMA MergeCovers ==
    ASSUME NEW m, NEW B, NEW mn, NEW en, Laid(m, B, mn, en), NEW b \in B,
           NEW r \in Slots, Within(mn, en, r, b), NEW below, NEW above, NEW lo, NEW hi,
           Merges(m, mn, en, b, r, below, above, lo, hi),
           NEW m2, NEW n, MergedWords(m, m2, b, n, lo, hi)
    PROVE  Covered(m2, (B \ Swallowed(m, b, above)) \cup {lo}) = Covered(m, B)
<1> DEFINE K == {c \in B : c < lo \/ c > hi}
           C == K \cup {lo}
           v == SizesOf(m2, C)
<1>1. /\ (B \ Swallowed(m, b, above)) \cup {lo} = C
      /\ lo <= b /\ BlockEnd(m, b) <= hi /\ Span(m, B, mn, en, r, lo, hi)
  <2>1. MergesSpan(m, B, mn, en, b, r, above, lo, hi)
    BY MergedSpan
  <2> QED BY <2>1 DEF MergesSpan, CutAt
<1>2. Laid(m2, C, mn, en)
  BY <1>1, MergeBlock
<1>3. lo \in Int /\ hi \in Int /\ b \in Int /\ BlockEnd(m, b) \in Int /\ b + 2 <= BlockEnd(m, b)
  BY <1>1, BlockFacts, LaidTypes, Addresses DEF Span
<1>4. WritesIn(m, m2, lo, hi) /\ m2[lo] = -(hi - lo - 1)
  BY DEF MergedWords
<1>5. lo \notin K /\ K \subseteq B /\ K \subseteq C /\ lo \in C
  BY <1>1, <1>3
<1>6. \A c \in K : m2[c] = m[c]
  BY <1>1, <1>4, OutsideKept
<1>7. Covered(m, B) = (hi - lo + 1) * WordSize + SumFunctionOnSet(SizesOf(m, B), K)
  BY MergedBytes
<1> HIDE DEF K, C
<1>8. /\ IsFiniteSet(K)
      /\ SumFunctionOnSet(v, K) = SumFunctionOnSet(SizesOf(m, B), K)
  BY <1>2, <1>5, <1>6, SameCover
<1>9. Covered(m2, C) = SumFunctionOnSet(v, C) /\ \A c \in C : v[c] \in Int
  BY <1>2, CoveredFacts
<1>10. v[lo] = (hi - lo + 1) * WordSize
  <2>1. hi - lo - 1 \in Int /\ hi - lo - 1 > 0
    BY <1>1, <1>3
  <2>2. m2[lo] \in Int /\ m2[lo] < 0 /\ -m2[lo] = hi - lo - 1
    BY <1>4, <2>1
  <2>3. AbsInt(m2[lo]) = hi - lo - 1
    BY <2>2, AbsIntFacts
  <2>4. v[lo] = (hi - lo - 1 + 2) * WordSize
    BY <1>5, <2>3 DEF SizesOf, BlockBytes
  <2> QED BY <1>3, <2>4 DEF WordSize
<1> HIDE DEF v
<1>11. SumFunctionOnSet(v, C) = v[lo] + SumFunctionOnSet(v, K)
  BY <1>5, <1>8, <1>9, SumAdds DEF C
<1> QED BY <1>1, <1>7, <1>8, <1>9, <1>10, <1>11

\* A new region adds its words.
LEMMA AddCovers ==
    ASSUME NEW m, NEW B, NEW mn, NEW en, Laid(m, B, mn, en),
           NEW lo \in Int, NEW hi \in Int, lo <= hi, NoRegionHas(mn, en, lo, hi),
           NEW m2, WritesIn(m, m2, lo, hi), NEW mn2, NEW en2,
           Laid(m2, B \cup {lo}, mn2, en2), m2[lo] = -(hi - lo - 1), lo < hi
    PROVE  Covered(m2, B \cup {lo}) = Covered(m, B) + (hi - lo + 1) * WordSize
<1> DEFINE C == B \cup {lo}
           v == SizesOf(m2, C)
           w == SizesOf(m, B)
<1>1. lo \notin B
  <2> SUFFICES ASSUME lo \in B PROVE FALSE
    OBVIOUS
  <2>1. BlockEnd(m, lo) < lo \/ lo > hi
    BY NoBlockHas
  <2>2. lo + 2 <= BlockEnd(m, lo) /\ BlockEnd(m, lo) \in Int
    BY BlockFacts
  <2> QED BY <2>1, <2>2
<1>2. \A b \in B : m2[b] = m[b]
  BY WritesApart
<1>3. /\ IsFiniteSet(B) /\ SumFunctionOnSet(v, B) = SumFunctionOnSet(w, B)
      /\ SumFunctionOnSet(w, B) \in Int
  BY <1>2, SameCover
<1>4. Covered(m, B) = SumFunctionOnSet(w, B)
  BY CoveredFacts
<1>5. Covered(m2, C) = SumFunctionOnSet(v, C) /\ \A c \in C : v[c] \in Int
  BY CoveredFacts
<1>6. v[lo] = (hi - lo + 1) * WordSize
  <2>1. hi - lo - 1 \in Int /\ -(hi - lo - 1) <= 0
    OBVIOUS
  <2>2. AbsInt(-(hi - lo - 1)) = hi - lo - 1
    BY <2>1, AbsIntFacts
  <2>3. v[lo] = (hi - lo - 1 + 2) * WordSize
    BY <2>2 DEF SizesOf, BlockBytes
  <2> QED BY <2>3 DEF WordSize
<1> HIDE DEF v, w
<1>7. SumFunctionOnSet(v, C) = v[lo] + SumFunctionOnSet(v, B)
  BY <1>1, <1>3, <1>5, SumAdds
<1> QED BY <1>3, <1>4, <1>5, <1>6, <1>7 DEF WordSize
=============================================================================
