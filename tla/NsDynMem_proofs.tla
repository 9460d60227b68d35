--------------------------- MODULE NsDynMem_proofs ---------------------------
(***************************************************************************)
(* The heap of nsdynmemLIB.c keeps its structure for every memory, every   *)
(* heap and regions in it, and every order of calls: the blocks tile the   *)
(* regions, no two free blocks are neighbours, the list is the holes, and  *)
(* nobody's words are written.  To its clients it is AbstractHeap.         *)
(***************************************************************************)
EXTENDS NsDynMemLayout_proofs, NsDynMemHeap

-----------------------------------------------------------------------------
(* Arguments of ns_mem_init and ns_mem_region_add *)

\* The start and the size of a byte range are integers.
LEMMA RangeTypes ==
    ASSUME NEW r \in ByteRange
    PROVE  AlignedStart(r) \in Nat /\ CorrectedSize(r) \in Int
<1>1. r.ptr \in Nat /\ r.size \in Nat
  BY DEF ByteRange
<1>2. AlignedStart(r) \in Nat
  BY <1>1 DEF AlignedStart, WordSize
<1>3. CorrectedSize(r) \in Int
  BY <1>1, <1>2 DEF CorrectedSize, WordSize
<1> QED BY <1>2, <1>3

\* A usable range has room for a hole_t between its tags.
LEMMA UsableFacts ==
    ASSUME NEW start \in Int, NEW bytes \in Int, Usable(start, bytes)
    PROVE  /\ bytes \in Nat
           /\ DataWords(bytes) \in Nat /\ DataWords(bytes) >= HOLE_T_SIZE
           /\ start \in Addr /\ start + DataWords(bytes) + 1 \in Addr
           /\ (bytes \div WordSize) - 1 = DataWords(bytes) + 1
<1>1. /\ DataWords(bytes) >= HOLE_T_SIZE /\ HOLE_T_SIZE \in Nat /\ HOLE_T_SIZE >= 1
      /\ start \in Addr /\ start + DataWords(bytes) + 1 \in Addr
  BY SizesAssumption DEF Usable
<1>2. bytes \div 4 \in Int /\ DataWords(bytes) = (bytes \div 4) - 2
  BY DEF DataWords, WordSize
<1>3. bytes >= 0
  BY <1>1, <1>2
<1> QED BY <1>1, <1>2, <1>3 DEF WordSize

\* Every argument that is accepted is usable.
LEMMA ArgumentFacts ==
    /\ \A h \in Heaps : /\ HeapStart(h) \in Int /\ HeapBytes(h) \in Int
                        /\ Usable(HeapStart(h), HeapBytes(h))
    /\ \A r \in BigRegions : /\ AlignedStart(r) \in Int /\ CorrectedSize(r) \in Int
                             /\ Usable(AlignedStart(r), CorrectedSize(r))
<1>1. ASSUME NEW h \in Heaps
      PROVE  HeapStart(h) \in Int /\ HeapBytes(h) \in Int
  <2>1. AlignedStart(h) \in Nat /\ CorrectedSize(h) \in Int /\ BookWords \in Nat
    BY ArgumentsAssumption, SizesAssumption, RangeTypes
  <2> QED BY <2>1 DEF HeapStart, HeapBytes, WordSize
<1>2. ASSUME NEW r \in BigRegions
      PROVE  AlignedStart(r) \in Int /\ CorrectedSize(r) \in Int
  BY ArgumentsAssumption, RangeTypes DEF BigRegions
<1> QED BY <1>1, <1>2, UsableAssumption

Areas == RegionAreas \cup HeapAreas

\* The words of an argument.
LEMMA AreaFacts ==
    ASSUME NEW a \in Areas
    PROVE  /\ a.lo \in Addr /\ a.hi \in Addr /\ a.lo \in Int /\ a.hi \in Int
           /\ a.lo < a.hi
<1>1. PICK start \in Int, bytes \in Int : Usable(start, bytes) /\ a = WordArea(start, bytes)
  BY ArgumentFacts DEF Areas, RegionAreas, HeapAreas
<1>2. a.lo = start /\ a.hi = start + DataWords(bytes) + 1
  BY <1>1 DEF WordArea
<1>3. DataWords(bytes) \in Nat /\ start \in Addr /\ start + DataWords(bytes) + 1 \in Addr
  BY <1>1, UsableFacts
<1> QED BY <1>2, <1>3, Addresses

\* A region argument and any other are the same words or have none in common.
LEMMA AreasApart ==
    ASSUME NEW r \in BigRegions, NEW a \in Areas
    PROVE  /\ WordArea(AlignedStart(r), CorrectedSize(r)) \in Areas
           /\ a = WordArea(AlignedStart(r), CorrectedSize(r))
              \/ Apart(WordArea(AlignedStart(r), CorrectedSize(r)), a)
BY AreasAssumption DEF Areas, RegionAreas

-----------------------------------------------------------------------------
(* The invariant in terms of layouts *)

Shaped == Shape(mem, blocks, heap_main, heap_main_end, holes_list, held, freed)

Structure == Tiled /\ Coalesced /\ HeldBlocks /\ HolesListed /\ FreedKept

\* The slots in use do not overlap.
SlotsAreApart == TypeOK /\ RegionsApart => SlotsApart(heap_main, heap_main_end)

\* SlotsAreApart holds in every state.
LEMMA RegionsAreSlots == SlotsAreApart
<1> SUFFICES ASSUME TypeOK, RegionsApart PROVE SlotsApart(heap_main, heap_main_end)
  BY DEF SlotsAreApart
<1>1. /\ heap_main \in [Slots -> Addr \cup {0}]
      /\ heap_main_end \in [Slots -> Addr \cup {0}]
  BY DEF TypeOK
<1> DEFINE area(i) == [lo |-> heap_main[i], hi |-> heap_main_end[i]]
<1>2. \A i \in Slots : heap_main[i] # 0 => area(i) \in Areas
  BY DEF RegionsApart, Areas
<1>3. \A i \in Slots : area(i).lo = heap_main[i] /\ area(i).hi = heap_main_end[i]
  OBVIOUS
<1>4. \A i \in Slots : heap_main[i] # 0 => heap_main[i] < heap_main_end[i]
  BY <1>2, <1>3, AreaFacts
<1>5. \A i, j \in Slots : i # j /\ heap_main[i] # 0 /\ heap_main[j] # 0 =>
         heap_main_end[i] < heap_main[j] \/ heap_main_end[j] < heap_main[i]
  BY DEF RegionsApart, Apart
<1> QED BY <1>1, <1>4, <1>5 DEF SlotsApart

\* A slot contains a block start in the sense of RegionOf and of Within.
RegionOfIsWithin ==
    TypeOK => \A b \in Addr, i \in Slots :
                  i \in RegionOf(b) <=> Within(heap_main, heap_main_end, i, b)

\* RegionOfIsWithin holds in every state.
LEMMA RegionOfMeans == RegionOfIsWithin
<1> SUFFICES ASSUME TypeOK, NEW b \in Addr, NEW i \in Slots
             PROVE  i \in RegionOf(b) <=> Within(heap_main, heap_main_end, i, b)
  BY DEF RegionOfIsWithin
<1>1. b \in Int /\ heap_main[i] \in Int /\ heap_main_end[i] \in Int
  BY Addresses DEF TypeOK
<1> QED BY <1>1 DEF RegionOf, Within

\* The blocks, the holders and the freed blocks are as a layout describes
\* them, whatever the list is.
PartsAre ==
    TypeOK /\ RegionsApart =>
        /\ Tiled /\ Coalesced <=> Laid(mem, blocks, heap_main, heap_main_end)
        /\ HeldBlocks <=> Holds(held, mem, blocks)
        /\ FreedKept <=> KeepsFreed(freed, mem, blocks)

\* PartsAre holds in every state.
LEMMA PartsMean == PartsAre
<1> SUFFICES ASSUME TypeOK, RegionsApart
             PROVE  /\ Tiled /\ Coalesced <=> Laid(mem, blocks, heap_main, heap_main_end)
                    /\ HeldBlocks <=> Holds(held, mem, blocks)
                    /\ FreedKept <=> KeepsFreed(freed, mem, blocks)
  BY DEF PartsAre
<1>1. SlotsApart(heap_main, heap_main_end)
  BY RegionsAreSlots DEF SlotsAreApart
<1>2. /\ mem \in [Addr -> Int] /\ blocks \subseteq Addr /\ holes_list \in Seq(Addr)
      /\ \A b \in DOMAIN held : held[b] \in Nat
  BY DEF TypeOK
<1>3. \A b \in Addr, i \in Slots : i \in RegionOf(b) <=> Within(heap_main, heap_main_end, i, b)
  BY RegionOfMeans DEF RegionOfIsWithin
<1>4. \A b : RegionOf(b) \subseteq Slots
  BY DEF RegionOf
<1>5. \A b : LastWord(b) = BlockEnd(mem, b)
  BY DEF LastWord, BlockEnd
<1>6. \A b : ns_mem_block_validate(b) <=> Tagged(mem, b)
  BY <1>5 DEF ns_mem_block_validate, Tagged
<1>7. \A b \in blocks :
         Fitted(mem, blocks, heap_main, heap_main_end, b) <=>
         \E i \in RegionOf(b) :
            /\ LastWord(b) <= heap_main_end[i]
            /\ LastWord(b) # heap_main_end[i] => LastWord(b) + 1 \in blocks
  BY <1>2, <1>3, <1>4, <1>5 DEF Fitted
<1>8. \A b \in blocks :
         Single(mem, heap_main, heap_main_end, b) <=>
         (mem[b] < 0 => \A i \in RegionOf(b) :
             LastWord(b) # heap_main_end[i] => mem[LastWord(b) + 1] > 0)
  BY <1>2, <1>3, <1>4, <1>5 DEF Single
<1>9. Tiled /\ Coalesced <=> Laid(mem, blocks, heap_main, heap_main_end)
  BY <1>1, <1>2, <1>5, <1>6, <1>7, <1>8 DEF Tiled, Coalesced, Laid
<1>10. HeldBlocks <=> Holds(held, mem, blocks)
  BY <1>2 DEF HeldBlocks, Holds
<1>11. FreedKept <=> KeepsFreed(freed, mem, blocks)
  BY <1>5 DEF FreedKept, KeepsFreed, StaleTag
<1> QED BY <1>9, <1>10, <1>11

\* The properties of the heap say that it has this shape.
ShapeIsStructure == TypeOK /\ RegionsApart => (Shaped <=> Structure)

\* ShapeIsStructure holds in every state.
LEMMA ShapeMeans == ShapeIsStructure
<1> SUFFICES ASSUME TypeOK, RegionsApart PROVE Shaped <=> Structure
  BY DEF ShapeIsStructure
<1>1. /\ Tiled /\ Coalesced <=> Laid(mem, blocks, heap_main, heap_main_end)
      /\ HeldBlocks <=> Holds(held, mem, blocks)
      /\ FreedKept <=> KeepsFreed(freed, mem, blocks)
  BY PartsMean DEF PartsAre
<1>2. HolesListed <=> Lists(holes_list, Holes(mem, blocks))
  BY DEF TypeOK, HolesListed, Lists, Ordered, Holes
<1> QED BY <1>1, <1>2 DEF Shape, Shaped, Structure

\* What the structure says about the types.
ShapeTypes ==
    Shaped => /\ mem \in [Addr -> Int]
              /\ heap_main \in [Slots -> Addr \cup {0}]
              /\ heap_main_end \in [Slots -> Addr \cup {0}]
              /\ holes_list \in Seq(Addr)
              /\ blocks \in SUBSET Addr
              /\ DOMAIN held \in SUBSET Addr
              /\ \A b \in DOMAIN held : held[b] \in Nat

\* ShapeTypes holds in every state.
LEMMA ShapeTyped == ShapeTypes
<1> SUFFICES ASSUME Shaped
             PROVE  /\ mem \in [Addr -> Int]
                    /\ heap_main \in [Slots -> Addr \cup {0}]
                    /\ heap_main_end \in [Slots -> Addr \cup {0}]
                    /\ holes_list \in Seq(Addr)
                    /\ blocks \in SUBSET Addr
                    /\ DOMAIN held \in SUBSET Addr
                    /\ \A b \in DOMAIN held : held[b] \in Nat
  BY DEF ShapeTypes
<1>1. Laid(mem, blocks, heap_main, heap_main_end)
  BY DEF Shaped, Shape
<1>2. /\ mem \in [Addr -> Int] /\ blocks \subseteq Addr
      /\ SlotsApart(heap_main, heap_main_end)
  BY <1>1, LaidTypes
<1> QED BY <1>2 DEF Shaped, Shape, Lists, Holds, SlotsApart

\* The rest of the type invariant.
RestTyped ==
    /\ heap_size \in Nat
    /\ temporary_alloc_heap_limit \in Nat
    /\ threshold \in [percentage : Nat, amount : Nat]
    /\ mem_stat \in MemStat
    /\ freed \in SUBSET Addr
    /\ last \in [call : Calls, rc : {-3, -2, -1, 0}, reported : SUBSET HeapFail]

\* The inductive invariant in these terms.
ShapedInv == RestTyped /\ RegionsApart /\ Shaped /\ OnlyFreeReports

SameInv == IInv <=> ShapedInv

\* The invariant is the one of NsDynMem.
LEMMA IInvMeans == SameInv
<1>1. Shaped /\ RestTyped => TypeOK
  BY ShapeTyped DEF ShapeTypes, RestTyped, TypeOK
<1>2. TypeOK => RestTyped
  BY DEF TypeOK, RestTyped
<1>3. TypeOK /\ RegionsApart => (Shaped <=> Structure)
  BY ShapeMeans DEF ShapeIsStructure
<1> QED BY <1>1, <1>2, <1>3 DEF SameInv, ShapedInv, IInv, Structure

-----------------------------------------------------------------------------
(* ns_mem_init *)

\* The memory of a fresh region is one hole.
LEMMA OneHole ==
    ASSUME NEW m \in [Addr -> Int], NEW lo \in Addr, NEW data \in Nat,
           data >= HOLE_T_SIZE, lo + data + 1 \in Addr
    PROVE  LET m3 == WriteTags(m, lo, -data)
               m2 == WriteHole(m3, lo)
               hi == lo + data + 1
           IN  /\ WritesIn(m, m3, lo, hi)
               /\ WritesIn(m, m2, lo, hi)
               /\ m2[lo] = -data /\ m2[hi] = -data
<1> DEFINE hi == lo + data + 1
           m3 == WriteTags(m, lo, -data)
           m2 == WriteHole(m3, lo)
<1>1. /\ HOLE_T_SIZE \in Nat /\ LinkWord \in Int /\ lo \in Int /\ hi \in Int /\ hi \in Addr
      /\ -data \in Int /\ lo <= hi
  BY SizesAssumption, Addresses
<1>2. TagsAt(m3, m, lo, hi, -data)
  <2>1. hi = lo + AbsInt(-data) + 1
    BY AbsIntFacts
  <2> HIDE DEF hi
  <2> QED BY <1>1, <2>1, TagsWritten, Zenon
<1> HIDE DEF m3
<1>3. FilledIn(m2, m3, lo + 1, lo + HOLE_T_SIZE, LinkWord)
  <2>1. m2 = Fill(m3, lo + 1, lo + HOLE_T_SIZE, LinkWord)
    BY DEF WriteHole
  <2>2. m3 \in [Addr -> Int] /\ lo + 1 \in Int /\ lo + HOLE_T_SIZE \in Int
    BY <1>1, <1>2 DEF TagsAt
  <2> QED BY <1>1, <2>1, <2>2, Filled
<1>4. lo + HOLE_T_SIZE < hi
  BY <1>1
<1> HIDE DEF m2, hi
<1>5. WritesIn(m, m3, lo, hi)
  BY <1>1, <1>2, Addresses DEF TagsAt, WritesIn
<1>6. WritesIn(m, m2, lo, hi)
  <2> SUFFICES ASSUME NEW a \in Addr, a < lo \/ a > hi PROVE m2[a] = m[a]
    BY <1>3 DEF WritesIn, FilledIn
  <2>1. (a < lo + 1 \/ a > lo + HOLE_T_SIZE) /\ (a < lo \/ a > hi)
    BY <1>1, <1>4, Addresses
  <2> QED BY <1>3, <1>5, <2>1 DEF FilledIn, WritesIn
<1>7. m2[lo] = -data /\ m2[hi] = -data
  <2>1. lo < lo + 1 /\ hi > lo + HOLE_T_SIZE
    BY <1>1, <1>4
  <2> QED BY <1>1, <1>2, <1>3, <2>1 DEF FilledIn, TagsAt
<1> QED BY <1>5, <1>6, <1>7 DEF m2, m3, hi

\* The heap after ns_mem_init.
LEMMA InitIInv == Init => IInv
<1> SUFFICES ASSUME Init PROVE ShapedInv
  BY IInvMeans DEF SameInv
<1>1. PICK h \in Heaps : InitBook(h)
  BY DEF Init
<1> DEFINE start == HeapStart(h)
           size == HeapBytes(h)
           data == DataWords(size)
           hi == start + data + 1
           clear == [a \in Addr |-> 0]
           none == [i \in Slots |-> 0]
<1>2. /\ start \in Addr /\ start \in Int /\ size \in Nat
      /\ data \in Nat /\ data >= HOLE_T_SIZE /\ hi \in Addr
  BY ArgumentFacts, UsableFacts
<1>3. /\ mem = WriteHole(WriteTags(clear, start, -data), start)
      /\ heap_main = [i \in Slots |-> IF i = 0 THEN start ELSE 0]
      /\ heap_main_end = [i \in Slots |-> IF i = 0 THEN hi ELSE 0]
      /\ holes_list = <<start>>
      /\ heap_size = size
      /\ temporary_alloc_heap_limit = DefaultLimit(size)
      /\ blocks = {start}
  BY <1>1 DEF InitBook
<1>4. mem_stat = [heap_sector_size |-> size,
                  heap_sector_alloc_cnt |-> 0,
                  heap_sector_allocated_bytes |-> 0,
                  heap_sector_allocated_bytes_max |-> 0,
                  heap_alloc_total_bytes |-> 0,
                  heap_alloc_fail_cnt |-> 0]
  BY <1>1 DEF InitBook
<1>5. /\ threshold = DefaultThreshold /\ held = << >> /\ freed = {}
      /\ last = [call |-> "init", rc |-> 0, reported |-> {}]
  BY DEF Init
<1>6. RestTyped
  <2>1. DefaultLimit(size) \in Nat
    BY <1>2 DEF DefaultLimit, PercentLimit, TEMPORARY_ALLOC_FREE_HEAP_THRESHOLD
  <2>2. mem_stat \in MemStat
    BY <1>2, <1>4, SizesAssumption DEF MemStat
  <2>3. threshold \in [percentage : Nat, amount : Nat]
    BY <1>5 DEF DefaultThreshold, TEMPORARY_ALLOC_FREE_HEAP_THRESHOLD
  <2>4. last \in [call : Calls, rc : {-3, -2, -1, 0}, reported : SUBSET HeapFail]
    BY <1>5 DEF Calls
  <2> QED BY <1>2, <1>3, <1>5, <2>1, <2>2, <2>3, <2>4 DEF RestTyped
<1>7. 0 \in Slots /\ start # 0
  BY <1>2, SizesAssumption, Addresses DEF Slots
<1>8. RegionsApart
  <2>1. \A i \in Slots : heap_main[i] # 0 => i = 0
    BY <1>3
  <2>2. [lo |-> heap_main[0], hi |-> heap_main_end[0]] = WordArea(start, size)
    BY <1>3, <1>7 DEF WordArea
  <2>3. WordArea(start, size) \in HeapAreas
    BY DEF HeapAreas
  <2> QED BY <2>1, <2>2, <2>3 DEF RegionsApart
<1> HIDE DEF start, size, data, hi
<1>9. Shape(clear, {}, none, none, << >>, held, {})
  <2>1. Laid(clear, {}, none, none)
    BY DEF Laid, SlotsApart
  <2>2. Lists(<< >>, Holes(clear, {}))
    BY DEF Lists, Ordered, Holes, Range
  <2>3. Holds(held, clear, {})
    BY <1>5 DEF Holds
  <2> QED BY <2>1, <2>2, <2>3 DEF Shape, KeepsFreed
<1>10. Shaped
  <2>1. clear \in [Addr -> Int] /\ NoRegionHas(none, none, start, hi) /\ none[0] = 0
    BY <1>7 DEF NoRegionHas
  <2>2. /\ WritesIn(clear, mem, start, hi)
        /\ mem[start] = -data /\ mem[hi] = -data
    BY <1>2, <1>3, <2>1, OneHole DEF hi
  <2>3. hi - start - 1 = data
    BY <1>2 DEF hi
  <2>4. /\ hi - start - 1 >= HOLE_T_SIZE
        /\ mem[start] = -(hi - start - 1) /\ mem[hi] = mem[start]
    BY <1>2, <2>2, <2>3
  <2> HIDE DEF clear, none
  <2>5. Shape(mem, {} \cup {start}, [none EXCEPT ![0] = start], [none EXCEPT ![0] = hi],
              AddAfterLower(<< >>, start), held, {})
    BY <1>2, <1>7, <1>9, <2>1, <2>2, <2>4, AddShape
  <2>6. heap_main = [none EXCEPT ![0] = start] /\ heap_main_end = [none EXCEPT ![0] = hi]
    BY <1>3, <1>7 DEF none
  <2>7. AddAfterLower(<< >>, start) = <<start>>
    <3>1. {i \in DOMAIN << >> : << >>[i] < start} = {}
      OBVIOUS
    <3>2. AddAfterLower(<< >>, start) = InsertAt(<< >>, 1, start)
      BY <3>1 DEF AddAfterLower
    <3>3. << >> \in Seq(Addr)
      OBVIOUS
    <3>4. InsertAt(<< >>, 1, start) = <<start>> \o << >>
      BY <1>2, <3>3, InsertAtEnds
    <3> QED BY <3>2, <3>4
  <2>8. blocks = {} \cup {start}
    BY <1>3
  <2> QED BY <1>3, <1>5, <2>5, <2>6, <2>7, <2>8 DEF Shaped
<1>11. OnlyFreeReports
  BY <1>5 DEF OnlyFreeReports
<1> QED BY <1>6, <1>8, <1>10, <1>11 DEF ShapedInv

-----------------------------------------------------------------------------
(* Steps *)

\* A step writes no word of a block that stays with its holder.
WordsKept ==
    \A b \in DOMAIN held \cap DOMAIN held' : \A a \in b..LastWord(b) : mem'[a] = mem[a]

\* What every step has to preserve.
Kept == ShapedInv' /\ WordsKept

\* The step loses no byte of the blocks and makes up none.
BytesKept == Covered(mem', blocks') = Covered(mem, blocks)

\* Writes in lo..hi leave a block outside alone.
LEMMA WordsOutside ==
    ASSUME NEW m, NEW B, NEW mn, NEW en, Laid(m, B, mn, en), NEW b \in B,
           NEW lo \in Int, NEW hi \in Int, BlockEnd(m, b) < lo \/ b > hi,
           NEW m2, WritesIn(m, m2, lo, hi)
    PROVE  \A a \in b..BlockEnd(m, b) : m2[a] = m[a]
<1>1. b \in Addr /\ b \in Int /\ BlockEnd(m, b) \in Addr /\ BlockEnd(m, b) \in Int
  BY BlockFacts
<1> SUFFICES ASSUME NEW a \in b..BlockEnd(m, b) PROVE m2[a] = m[a]
  OBVIOUS
<1>2. a \in Addr /\ (a < lo \/ a > hi)
  BY <1>1, Addresses
<1> QED BY <1>2 DEF WritesIn

\* The clients' blocks are blocks.
HeldAreBlocks ==
    Shaped => \A b \in DOMAIN held : b \in blocks /\ mem[b] > 0 /\ mem[b] \in Int

\* HeldAreBlocks holds in every state.
LEMMA HolderBlocks == HeldAreBlocks
<1> SUFFICES ASSUME Shaped, NEW b \in DOMAIN held
             PROVE  b \in blocks /\ mem[b] > 0 /\ mem[b] \in Int
  BY DEF HeldAreBlocks
<1>1. b \in blocks /\ mem[b] > 0
  BY DEF Shaped, Shape, Holds
<1> QED BY <1>1, BlockFacts DEF Shaped, Shape

\* A step that leaves the memory and its structure alone.
LEMMA QuietStep ==
    ASSUME ShapedInv, UNCHANGED <<mem, heap_main, heap_main_end, holes_list, blocks, held, freed>>,
           RestTyped', OnlyFreeReports'
    PROVE  Kept
<1>1. Shaped'
  BY DEF Shaped, ShapedInv
<1>2. RegionsApart'
  BY DEF RegionsApart, ShapedInv
<1>3. WordsKept
  BY DEF WordsKept
<1> QED BY <1>1, <1>2, <1>3 DEF Kept, ShapedInv

\* RegionTooSmall: nothing happens.
LEMMA RegionTooSmallStep ==
    ASSUME ShapedInv, NEW r \in Regions, RegionTooSmall(r)
    PROVE  Kept
<1>1. RestTyped'
  BY DEF RestTyped, ShapedInv, RegionTooSmall, Done, Calls, limits, regions
<1>2. OnlyFreeReports'
  BY DEF OnlyFreeReports, RegionTooSmall, Done
<1> QED BY <1>1, <1>2, QuietStep DEF RegionTooSmall, regions

\* A region whose start no slot has shares no word with any slot.
LEMMA FreshRegion ==
    ASSUME ShapedInv, NEW r \in BigRegions,
           \A i \in Slots : heap_main[i] # AlignedStart(r)
    PROVE  NoRegionHas(heap_main, heap_main_end, AlignedStart(r),
                       AlignedStart(r) + DataWords(CorrectedSize(r)) + 1)
<1> DEFINE c == WordArea(AlignedStart(r), CorrectedSize(r))
           area(i) == [lo |-> heap_main[i], hi |-> heap_main_end[i]]
<1> SUFFICES ASSUME NEW i \in Slots, heap_main[i] # 0
             PROVE  heap_main_end[i] < c.lo \/ c.hi < heap_main[i]
  BY DEF NoRegionHas, WordArea
<1>1. area(i) \in Areas
  BY DEF ShapedInv, RegionsApart, Areas
<1>2. area(i) = c \/ Apart(c, area(i))
  BY <1>1, AreasApart
<1>3. area(i).lo = heap_main[i] /\ area(i).hi = heap_main_end[i] /\ c.lo = AlignedStart(r)
  BY DEF WordArea
<1>4. area(i) # c
  BY <1>3
<1> QED BY <1>2, <1>3, <1>4 DEF Apart

\* A listed hole at the start of a region argument starts that region.
LEMMA ListedRegion ==
    ASSUME ShapedInv, NEW r \in BigRegions, AlignedStart(r) \in blocks
    PROVE  \E i \in Slots : heap_main[i] = AlignedStart(r)
<1> SUFFICES ASSUME \A i \in Slots : heap_main[i] # AlignedStart(r) PROVE FALSE
  OBVIOUS
<1> DEFINE start == AlignedStart(r)
           hi == start + DataWords(CorrectedSize(r)) + 1
<1>1. NoRegionHas(heap_main, heap_main_end, start, hi)
  BY FreshRegion
<1>2. start \in Int /\ hi \in Int /\ start < hi
  BY ArgumentFacts, UsableFacts, Addresses
<1>3. Laid(mem, blocks, heap_main, heap_main_end)
  BY DEF ShapedInv, Shaped, Shape
<1> HIDE DEF start, hi
<1>4. BlockEnd(mem, start) < start \/ start > hi
  BY <1>1, <1>2, <1>3, NoBlockHas DEF start
<1>5. start + 2 <= BlockEnd(mem, start) /\ BlockEnd(mem, start) \in Int
  BY <1>3, BlockFacts DEF start
<1> QED BY <1>2, <1>4, <1>5

\* The tags of a region argument are written where they stand already, or
\* where no region is.
LEMMA RegionTagged ==
    ASSUME ShapedInv, NEW r \in BigRegions,
           NotInUse(AlignedStart(r), DataWords(CorrectedSize(r))),
           mem' = WriteTags(mem, AlignedStart(r), -DataWords(CorrectedSize(r))),
           UNCHANGED <<heap_main, heap_main_end, holes_list, blocks, held, freed>>
    PROVE  /\ Shaped' /\ RegionsApart' /\ WordsKept /\ BytesKept
           /\ mem'[AlignedStart(r)] = -DataWords(CorrectedSize(r))
           /\ mem'[AlignedStart(r) + DataWords(CorrectedSize(r)) + 1] =
                  -DataWords(CorrectedSize(r))
<1> DEFINE start == AlignedStart(r)
           data == DataWords(CorrectedSize(r))
           hi == start + data + 1
<1>1. /\ start \in Addr /\ start \in Int /\ data \in Nat /\ data >= HOLE_T_SIZE
      /\ hi \in Addr /\ hi \in Int /\ start <= hi /\ data > 0
  BY ArgumentFacts, UsableFacts, Addresses, SizesAssumption
<1>2. /\ Laid(mem, blocks, heap_main, heap_main_end) /\ mem \in [Addr -> Int]
      /\ Range(holes_list) \subseteq blocks /\ freed \subseteq Addr
      /\ Shape(mem, blocks, heap_main, heap_main_end, holes_list, held, freed)
  BY LaidTypes DEF ShapedInv, Shaped, Shape, Lists, Holes, RestTyped
<1>3. NotInUse(start, data) /\ mem' = WriteTags(mem, start, -data)
  OBVIOUS
<1> HIDE DEF start, data, hi
<1>4. WritesIn(mem, mem', start, hi) /\ TagsAt(mem', mem, start, hi, -data)
  <2>1. hi = start + AbsInt(-data) + 1 /\ -data \in Int
    <3>1. AbsInt(-data) = data
      BY <1>1, AbsIntFacts
    <3> QED BY <1>1, <3>1 DEF hi
  <2>2. TagsAt(WriteTags(mem, start, -data), mem, start, hi, -data)
    BY <1>1, <1>2, <2>1, TagsWritten, Zenon
  <2> QED BY <1>1, <1>3, <2>2, Addresses DEF TagsAt, WritesIn
<1>5. mem'[start] = -data /\ mem'[hi] = -data
  BY <1>4 DEF TagsAt
<1>6. RegionsApart'
  BY DEF RegionsApart, ShapedInv
<1>7. CASE start \in blocks
  <2>1. mem[start] = -data
    <3>1. \E i \in Slots : heap_main[i] = start
      BY <1>7, ListedRegion DEF start
    <3> QED BY <1>3, <3>1 DEF NotInUse
  <2>2. BlockEnd(mem, start) = hi /\ mem[hi] = -data
    BY <1>1, <1>2, <1>7, <2>1, BlockFacts DEF hi
  <2>3. mem' = mem
    <3>1. \A a \in Addr : mem'[a] = mem[a]
      BY <1>4, <2>1, <2>2 DEF TagsAt
    <3>2. mem' \in [Addr -> Int]
      BY <1>4 DEF TagsAt
    <3> QED BY <1>2, <3>1, <3>2
  <2>4. Shaped'
    BY <2>3 DEF Shaped, ShapedInv
  <2>5. WordsKept /\ BytesKept
    BY <2>3 DEF WordsKept, BytesKept
  <2> QED BY <1>5, <1>6, <2>4, <2>5 DEF start, data, hi
<1>8. CASE start \notin blocks
  <2>1. \A i \in Slots : heap_main[i] # start
    BY <1>2, <1>3, <1>8 DEF NotInUse
  <2>2. NoRegionHas(heap_main, heap_main_end, start, hi)
    BY <2>1, FreshRegion DEF start, hi, data
  <2>3. Shape(mem', blocks, heap_main, heap_main_end, holes_list, held, freed)
    BY <1>1, <1>2, <1>4, <2>2, ApartShape
  <2>4. Shaped'
    BY <2>3 DEF Shaped
  <2>5. WordsKept
    <3> SUFFICES ASSUME NEW b \in DOMAIN held, NEW a \in b..LastWord(b) PROVE mem'[a] = mem[a]
      BY DEF WordsKept
    <3>1. b \in blocks
      BY HolderBlocks DEF HeldAreBlocks, ShapedInv
    <3>2. BlockEnd(mem, b) < start \/ b > hi
      BY <1>1, <1>2, <2>2, <3>1, NoBlockHas
    <3>3. LastWord(b) = BlockEnd(mem, b)
      BY DEF LastWord, BlockEnd
    <3> QED BY <1>1, <1>2, <1>4, <3>1, <3>2, <3>3, WordsOutside
  <2>6. BytesKept
    <3>1. \A b \in blocks : mem'[b] = mem[b]
      BY <1>1, <1>2, <1>4, <2>2, WritesApart
    <3>2. SizesOf(mem', blocks) = SizesOf(mem, blocks)
      BY <3>1 DEF SizesOf
    <3> QED BY <3>2 DEF BytesKept, Covered
  <2> QED BY <1>5, <1>6, <2>4, <2>5, <2>6 DEF start, data, hi
<1> QED BY <1>7, <1>8

\* RegionRefused: nothing but those tags is written.
LEMMA RegionRefusedStep ==
    ASSUME ~ReAddAnyTime, ShapedInv, NEW r \in Regions, RegionRefused(r)
    PROVE  Kept /\ BytesKept
<1>1. r \in BigRegions
  BY DEF RegionRefused, BigRegions
<1>2. /\ NotInUse(AlignedStart(r), DataWords(CorrectedSize(r)))
      /\ mem' = WriteTags(mem, AlignedStart(r), -DataWords(CorrectedSize(r)))
      /\ UNCHANGED <<regions, holes_list, limits, mem_stat, blocks, held, freed>>
  BY DEF RegionRefused
<1>3. \E rc \in {-2, -3} : last' = [call |-> "region_add", rc |-> rc, reported |-> {}]
  BY DEF RegionRefused, Done
<1>4. RestTyped'
  BY <1>2, <1>3 DEF RestTyped, ShapedInv, Calls, regions, limits
<1>5. OnlyFreeReports'
  BY <1>3 DEF OnlyFreeReports
<1>6. Shaped' /\ RegionsApart' /\ WordsKept /\ BytesKept
  BY <1>1, <1>2, RegionTagged DEF regions
<1> QED BY <1>4, <1>5, <1>6 DEF Kept, ShapedInv

\* The words lo..hi, which no region had, become the region of slot k.
Grows(k, lo, hi) ==
    /\ k \in Slots /\ heap_main[k] = 0
    /\ lo \in Addr /\ hi \in Addr /\ lo <= hi
    /\ NoRegionHas(heap_main, heap_main_end, lo, hi)
    /\ heap_main' = [heap_main EXCEPT ![k] = lo]
    /\ heap_main_end' = [heap_main_end EXCEPT ![k] = hi]
    /\ held' = held

\* The slots stay apart when a region argument's words become a region.
LEMMA GrownApart ==
    ASSUME ShapedInv, NEW k, NEW lo, NEW hi, Grows(k, lo, hi),
           [lo |-> lo, hi |-> hi] \in Areas
    PROVE  RegionsApart'
<1> DEFINE Used == {i \in Slots : heap_main[i] # 0}
           area(i) == [lo |-> heap_main[i], hi |-> heap_main_end[i]]
           area2(i) == [lo |-> heap_main'[i], hi |-> heap_main_end'[i]]
           Used2 == {i \in Slots : heap_main'[i] # 0}
<1>1. /\ \A i \in Used : area(i) \in RegionAreas \cup HeapAreas
      /\ \A i, j \in Used : i # j => Apart(area(i), area(j))
  BY DEF ShapedInv, RegionsApart
<1>2. /\ \A i \in Slots : i # k => heap_main'[i] = heap_main[i] /\ heap_main_end'[i] = heap_main_end[i]
      /\ heap_main'[k] = lo /\ heap_main_end'[k] = hi
  BY DEF Grows, ShapedInv, Shaped, Shape, Laid, SlotsApart
<1>3. \A i \in Slots : i # k => area2(i) = area(i)
  BY <1>2
<1>4. area2(k) = [lo |-> lo, hi |-> hi]
  BY <1>2
<1>5. \A i \in Used2 : i = k \/ i \in Used
  BY <1>2
<1>6. \A i \in Used : i # k /\ Apart(area(i), [lo |-> lo, hi |-> hi])
                            /\ Apart([lo |-> lo, hi |-> hi], area(i))
  BY DEF Grows, NoRegionHas, Apart
<1>7. \A i \in Used2 : area2(i) \in RegionAreas \cup HeapAreas
  BY <1>1, <1>3, <1>4, <1>5 DEF Areas
<1>8. \A i, j \in Used2 : i # j => Apart(area2(i), area2(j))
  <2> HIDE DEF area, area2
  <2> SUFFICES ASSUME NEW i \in Used2, NEW j \in Used2, i # j
               PROVE  Apart(area2(i), area2(j))
    OBVIOUS
  <2>1. i \in Slots /\ j \in Slots
    OBVIOUS
  <2>2. CASE i = k
    <3>1. j \in Used
      BY <2>2, <1>5
    <3> QED BY <1>3, <1>4, <1>6, <2>1, <2>2, <3>1
  <2>3. CASE j = k
    <3>1. i \in Used
      BY <2>3, <1>5
    <3> QED BY <1>3, <1>4, <1>6, <2>1, <2>3, <3>1
  <2>4. CASE i # k /\ j # k
    <3>1. i \in Used /\ j \in Used
      BY <2>4, <1>5
    <3> QED BY <1>1, <1>3, <2>1, <2>4, <3>1
  <2> QED BY <2>2, <2>3, <2>4
<1> QED BY <1>7, <1>8 DEF RegionsApart

\* ns_dyn_mem_region_save: a region argument that no slot has gets one.
LEMMA RegionGrows ==
    ASSUME ShapedInv, NEW r \in BigRegions, FreeSlots # {}, held' = held,
           \A i \in Slots : heap_main[i] # AlignedStart(r),
           ns_dyn_mem_region_save(AlignedStart(r), CorrectedSize(r) \div WordSize - 1)
    PROVE  /\ RegionsApart'
           /\ Grows(Min(FreeSlots), AlignedStart(r),
                    AlignedStart(r) + DataWords(CorrectedSize(r)) + 1)
<1> DEFINE start == AlignedStart(r)
           size == CorrectedSize(r)
           hi == start + DataWords(size) + 1
           k == Min(FreeSlots)
<1>1. /\ start \in Addr /\ start \in Int /\ hi \in Addr /\ start <= hi
      /\ start + (size \div WordSize - 1) = hi
  BY ArgumentFacts, UsableFacts, Addresses
<1>2. k \in Slots /\ heap_main[k] = 0
  <2>1. FreeSlots \subseteq Nat
    BY SizesAssumption DEF FreeSlots, Slots
  <2>2. k \in FreeSlots
    BY <2>1, MinIsLeast
  <2> QED BY <2>2 DEF FreeSlots
<1>3. NoRegionHas(heap_main, heap_main_end, start, hi)
  BY FreshRegion
<1>4. /\ heap_main' = [heap_main EXCEPT ![k] = start]
      /\ heap_main_end' = [heap_main_end EXCEPT ![k] = hi]
  BY <1>1 DEF ns_dyn_mem_region_save
<1>5. [lo |-> start, hi |-> hi] \in Areas
  BY DEF WordArea, Areas, RegionAreas
<1> HIDE DEF start, hi, k, size
<1>6. Grows(k, start, hi)
  BY <1>1, <1>2, <1>3, <1>4 DEF Grows
<1>7. RegionsApart'
  BY <1>5, <1>6, GrownApart
<1> QED BY <1>6, <1>7 DEF start, hi, k, size

\* The size, the limit and the statistics after a region was added.
LEMMA HeapGrown ==
    ASSUME RestTyped, NEW size \in Nat, heap_size' = heap_size + size,
           mem_stat' = [mem_stat EXCEPT !.heap_sector_size = heap_size'],
           temporary_alloc_heap_limit' = DefaultLimit(heap_size'),
           threshold' = DefaultThreshold, freed' = freed,
           last' = [call |-> "region_add", rc |-> 0, reported |-> {}]
    PROVE  RestTyped' /\ OnlyFreeReports'
<1>1. heap_size' \in Nat
  BY DEF RestTyped
<1>2. temporary_alloc_heap_limit' \in Nat
  BY <1>1 DEF DefaultLimit, PercentLimit, TEMPORARY_ALLOC_FREE_HEAP_THRESHOLD
<1>3. mem_stat' \in MemStat
  BY <1>1 DEF MemStat, RestTyped
<1>4. threshold' \in [percentage : Nat, amount : Nat]
  BY DEF DefaultThreshold, TEMPORARY_ALLOC_FREE_HEAP_THRESHOLD
<1>5. last' \in [call : Calls, rc : {-3, -2, -1, 0}, reported : SUBSET HeapFail]
  BY DEF Calls
<1>6. OnlyFreeReports'
  BY DEF OnlyFreeReports
<1> QED BY <1>1, <1>2, <1>3, <1>4, <1>5, <1>6 DEF RestTyped

\* The words of the region argument r became the region of slot k.
Registers(r, k) ==
    /\ Grows(k, AlignedStart(r), AlignedStart(r) + DataWords(CorrectedSize(r)) + 1)
    /\ Covered(mem', blocks') = Covered(mem, blocks)
                                   + (CorrectedSize(r) \div WordSize) * WordSize

\* RegionAdded: a region that no slot has becomes one hole.
LEMMA RegionAddedStep ==
    ASSUME ~ReAddAnyTime, ShapedInv, NEW r \in Regions, RegionAdded(r)
    PROVE  Kept /\ \E k : Registers(r, k)
<1> DEFINE start == AlignedStart(r)
           size == CorrectedSize(r)
           data == DataWords(size)
           hi == start + data + 1
           k == Min(FreeSlots)
<1>1. r \in BigRegions
  BY DEF RegionAdded, BigRegions
<1>2. /\ start \in Addr /\ start \in Int /\ data \in Nat /\ data >= HOLE_T_SIZE
      /\ hi \in Addr /\ hi \in Int /\ start <= hi /\ size \in Nat
  BY <1>1, ArgumentFacts, UsableFacts, Addresses
<1>3. /\ NotInUse(start, data) /\ ~AlreadyListed(start) /\ FreeSlots # {}
      /\ mem' = WriteHole(WriteTags(mem, start, -data), start)
      /\ ns_dyn_mem_region_save(start, size \div WordSize - 1)
      /\ holes_list' = AddAfterLower(holes_list, start)
      /\ blocks' = blocks \cup {start}
      /\ UNCHANGED <<held, freed>>
  BY DEF RegionAdded
<1>4. /\ heap_size' = heap_size + size
      /\ mem_stat' = [mem_stat EXCEPT !.heap_sector_size = heap_size']
      /\ temporary_alloc_heap_limit' = DefaultLimit(heap_size')
      /\ threshold' = DefaultThreshold
      /\ last' = [call |-> "region_add", rc |-> 0, reported |-> {}]
  BY DEF RegionAdded, Done, GrownSize
<1>5. /\ Shape(mem, blocks, heap_main, heap_main_end, holes_list, held, freed)
      /\ Laid(mem, blocks, heap_main, heap_main_end)
      /\ mem \in [Addr -> Int] /\ freed \subseteq Addr
  BY LaidTypes DEF ShapedInv, Shaped, Shape, RestTyped
<1>6. RestTyped' /\ OnlyFreeReports'
  BY <1>2, <1>3, <1>4, HeapGrown DEF ShapedInv
<1>7. Grows(k, start, hi) /\ RegionsApart'
  <2>1. \A i \in Slots : heap_main[i] # start
    BY <1>3 DEF NotInUse, AlreadyListed
  <2> QED BY <1>1, <1>3, <2>1, RegionGrows
<1>8. /\ k \in Slots /\ heap_main[k] = 0
      /\ NoRegionHas(heap_main, heap_main_end, start, hi)
      /\ heap_main' = [heap_main EXCEPT ![k] = start]
      /\ heap_main_end' = [heap_main_end EXCEPT ![k] = hi]
  BY <1>7 DEF Grows
<1>9. /\ WritesIn(mem, mem', start, hi)
       /\ mem'[start] = -data /\ mem'[hi] = -data
  BY <1>2, <1>3, <1>5, OneHole
<1>10. data = hi - start - 1
  BY <1>2
<1> HIDE DEF start, data, hi, k, size
<1>11. Shaped'
  <2>1. /\ hi - start - 1 >= HOLE_T_SIZE
        /\ mem'[start] = -(hi - start - 1) /\ mem'[hi] = mem'[start]
    BY <1>2, <1>9, <1>10
  <2>2. Shape(mem', blocks \cup {start}, [heap_main EXCEPT ![k] = start],
              [heap_main_end EXCEPT ![k] = hi], AddAfterLower(holes_list, start),
              held, freed)
    BY <1>2, <1>5, <1>8, <1>9, <2>1, AddShape
  <2> QED BY <1>3, <1>8, <2>2 DEF Shaped
<1>12. WordsKept
  <2> SUFFICES ASSUME NEW b \in DOMAIN held, NEW a \in b..LastWord(b) PROVE mem'[a] = mem[a]
    BY <1>3 DEF WordsKept
  <2>1. b \in blocks
    BY HolderBlocks DEF HeldAreBlocks, ShapedInv
  <2>2. BlockEnd(mem, b) < start \/ b > hi
    BY <1>2, <1>5, <1>8, <2>1, NoBlockHas
  <2>3. LastWord(b) = BlockEnd(mem, b)
    BY DEF LastWord, BlockEnd
  <2> QED BY <1>2, <1>5, <1>9, <2>1, <2>2, <2>3, WordsOutside
<1>13. Kept
  BY <1>6, <1>7, <1>11, <1>12 DEF Kept, ShapedInv
<1>14. Covered(mem', blocks \cup {start}) = Covered(mem, blocks) + (hi - start + 1) * WordSize
  <2>1. Laid(mem', blocks \cup {start}, heap_main', heap_main_end')
    BY <1>3, <1>11 DEF Shaped, Shape
  <2>2. start < hi /\ mem'[start] = -(hi - start - 1)
    BY <1>2, <1>9, <1>10, SizesAssumption
  <2> QED BY <1>2, <1>5, <1>8, <1>9, <2>1, <2>2, AddCovers
<1>15. hi - start + 1 = size \div WordSize
  <2>1. size \div 4 \in Int
    BY <1>2
  <2>2. data = (size \div 4) - 2
    BY DEF data, DataWords, WordSize
  <2>3. hi = start + data + 1
    BY DEF hi
  <2>4. start \in Int /\ data \in Int
    BY <1>2
  <2> HIDE DEF start, data, hi, size
  <2> QED BY <2>1, <2>2, <2>3, <2>4 DEF WordSize
<1>16. Registers(r, k)
  BY <1>3, <1>7, <1>14, <1>15 DEF Registers, start, data, hi, size
<1> QED BY <1>13, <1>16

-----------------------------------------------------------------------------
(* ns_mem_set_temporary_alloc_free_heap_threshold, and failing allocations *)

\* The threshold changes no block.
LEMMA ThresholdStep ==
    ASSUME ShapedInv, NEW t \in Thresholds,
           ns_mem_set_temporary_alloc_free_heap_threshold(t)
    PROVE  Kept
<1>1. heap_size \in Nat /\ t \in [percentage : Nat, amount : Nat]
  BY ArgumentsAssumption DEF ShapedInv, RestTyped
<1>2. ThresholdLimit(t) \in Nat
  <2> DEFINE p == t.percentage
             a == t.amount
  <2>1. p \in Nat /\ a \in Nat
    BY <1>1
  <2>2. CASE a # 0
    <3>1. ThresholdLimit(t) = IF a < heap_size \div 2 THEN heap_size - a ELSE 0
      BY <2>2 DEF ThresholdLimit
    <3>2. heap_size \div 2 <= heap_size
      BY <1>1
    <3>3. a < heap_size \div 2 => heap_size - a \in Nat
      BY <1>1, <2>1, <3>2
    <3> QED BY <3>1, <3>3
  <2>3. CASE a = 0 /\ p # 0
    <3>1. ThresholdLimit(t) = IF p < 50 THEN PercentLimit(heap_size, p) ELSE 0
      BY <2>3 DEF ThresholdLimit
    <3>2. p < 50 => PercentLimit(heap_size, p) \in Nat
      <4> SUFFICES ASSUME p < 50 PROVE PercentLimit(heap_size, p) \in Nat
        OBVIOUS
      <4>1. heap_size \div 100 \in Nat /\ 100 - p \in Nat
        BY <1>1, <2>1
      <4>2. \A x, y \in Nat : x * y \in Nat
        OBVIOUS
      <4> QED BY <4>1, <4>2 DEF PercentLimit
    <3> QED BY <3>1, <3>2
  <2>4. CASE a = 0 /\ p = 0
    BY <1>1, <2>4 DEF ThresholdLimit
  <2> QED BY <2>2, <2>3, <2>4
<1>3. RestTyped'
  BY <1>1, <1>2
     DEF RestTyped, ShapedInv, ns_mem_set_temporary_alloc_free_heap_threshold, Done,
         Calls, regions
<1>4. OnlyFreeReports'
  BY DEF OnlyFreeReports, ns_mem_set_temporary_alloc_free_heap_threshold, Done
<1> QED BY <1>3, <1>4, QuietStep
        DEF ns_mem_set_temporary_alloc_free_heap_threshold, regions

\* The counters stay in their types.
LEMMA FailCounted ==
    ASSUME mem_stat \in MemStat, DEV_HEAP_ALLOC_FAIL
    PROVE  mem_stat' \in MemStat
<1> DEFINE c == mem_stat.heap_alloc_fail_cnt
<1>1. c \in Int /\ UInt32 \in Nat /\ UInt32 > 0
  BY SizesAssumption DEF MemStat
<1>2. (c + 1) % UInt32 \in 0..(UInt32 - 1)
  BY <1>1
<1> HIDE DEF c
<1>3. mem_stat' = [mem_stat EXCEPT !.heap_alloc_fail_cnt = (c + 1) % UInt32]
  BY DEF DEV_HEAP_ALLOC_FAIL, c
<1> QED BY <1>2, <1>3 DEF MemStat

\* AllocRefused: nothing but the counter changes.
LEMMA AllocRefusedStep ==
    ASSUME ShapedInv, NEW bytes \in AllocSizes, NEW direction \in {-1, 1},
           AllocRefused(bytes, direction)
    PROVE  Kept
<1>1. mem_stat' \in MemStat
  BY FailCounted DEF AllocRefused, ShapedInv, RestTyped
<1>2. \E call \in Calls : last' = [call |-> call, rc |-> -1, reported |-> {}]
  BY DEF AllocRefused, Done, AllocCall, Calls
<1>3. RestTyped'
  BY <1>1, <1>2 DEF RestTyped, ShapedInv, AllocRefused, regions, limits
<1>4. OnlyFreeReports'
  BY <1>2 DEF OnlyFreeReports
<1> QED BY <1>3, <1>4, QuietStep DEF AllocRefused, regions

\* The scan of the list finds every hole intact.
HolesIntact ==
    Shaped => \A i \in DOMAIN holes_list :
                 /\ holes_list[i] \in blocks /\ Intact(holes_list[i])
                 /\ mem[holes_list[i]] \in Int /\ mem[holes_list[i]] < 0

\* HolesIntact holds in every state.
LEMMA ListedIntact == HolesIntact
<1> SUFFICES ASSUME Shaped, NEW i \in DOMAIN holes_list
             PROVE  /\ holes_list[i] \in blocks /\ Intact(holes_list[i])
                    /\ mem[holes_list[i]] \in Int /\ mem[holes_list[i]] < 0
  BY DEF HolesIntact
<1> DEFINE b == holes_list[i]
<1>1. Laid(mem, blocks, heap_main, heap_main_end) /\ Lists(holes_list, Holes(mem, blocks))
  BY DEF Shaped, Shape
<1>2. b \in Range(holes_list)
  BY DEF Range
<1>3. b \in blocks /\ -mem[b] >= HOLE_T_SIZE
  BY <1>1, <1>2 DEF Lists, Holes
<1> HIDE DEF b
<1>4. mem[b] \in Int /\ mem[b] # 0 /\ BlockEnd(mem, b) \in Addr /\ mem[BlockEnd(mem, b)] = mem[b]
  BY <1>1, <1>3, BlockFacts
<1>5. HOLE_T_SIZE \in Nat
  BY SizesAssumption
<1>6. mem[b] < 0
  BY <1>3, <1>4, <1>5
<1>7. LastWord(b) = BlockEnd(mem, b)
  BY DEF LastWord, BlockEnd
<1> QED BY <1>3, <1>4, <1>6, <1>7 DEF b, Intact, ns_mem_block_validate

\* The size report is one of heap_fail_t, and no corruption.
LEMMA SizeReported ==
    ASSUME NEW bytes
    PROVE  /\ SizeReport(bytes) \in SUBSET HeapFail
           /\ "NS_DYN_MEM_HEAP_SECTOR_CORRUPTED" \notin SizeReport(bytes)
BY DEF SizeReport, HeapFail

\* AllocNotFound: nothing but the counter changes, and no hole is broken.
LEMMA AllocNotFoundStep ==
    ASSUME ShapedInv, NEW bytes \in AllocSizes, NEW direction \in {-1, 1},
           AllocNotFound(bytes, direction)
    PROVE  Kept
<1>1. mem_stat' \in MemStat
  BY FailCounted DEF AllocNotFound, ShapedInv, RestTyped
<1> DEFINE data == Words(bytes)
           broken == data # 0 /\ \E i \in DOMAIN holes_list : ScanEndsAt(i, data, direction)
<1>2. ~broken
  <2> SUFFICES ASSUME broken PROVE FALSE
    OBVIOUS
  <2>1. PICK i \in DOMAIN holes_list : ScanEndsAt(i, data, direction)
    OBVIOUS
  <2>2. Intact(holes_list[i])
    BY ListedIntact DEF HolesIntact, ShapedInv
  <2>3. Found(i, data, direction)
    BY <2>1, <2>2 DEF Found
  <2> QED BY <2>3 DEF AllocNotFound
<1>3. last' = [call |-> AllocCall(direction), rc |-> -1, reported |-> SizeReport(bytes)]
  <2>1. Done(AllocCall(direction), -1, SizeReport(bytes) \cup
             (IF broken THEN {"NS_DYN_MEM_HEAP_SECTOR_CORRUPTED"} ELSE {}))
    BY DEF AllocNotFound
  <2> QED BY <1>2, <2>1 DEF Done
<1>4. AllocCall(direction) \in Calls
  BY DEF AllocCall, Calls
<1>5. last' \in [call : Calls, rc : {-3, -2, -1, 0}, reported : SUBSET HeapFail]
  BY <1>3, <1>4, SizeReported
<1>6. RestTyped'
  BY <1>1, <1>5 DEF RestTyped, ShapedInv, AllocNotFound, regions, limits
<1>7. OnlyFreeReports'
  BY <1>3, SizeReported DEF OnlyFreeReports
<1> QED BY <1>6, <1>7, QuietStep DEF AllocNotFound, regions

-----------------------------------------------------------------------------
(* Allocations that succeed *)

\* The words of a requested size hold it.
LEMMA WordsHold ==
    ASSUME NEW bytes \in Nat
    PROVE  Words(bytes) \in Nat /\ Words(bytes) * WordSize >= bytes
BY DEF Words, WordSize

\* The counters stay in their types.
LEMMA AllocCounted ==
    ASSUME mem_stat \in MemStat, NEW size \in Int, DEV_HEAP_ALLOC_OK(size)
    PROVE  mem_stat' \in MemStat
<1> DEFINE now == mem_stat.heap_sector_allocated_bytes + size
           max == mem_stat.heap_sector_allocated_bytes_max
           cnt == mem_stat.heap_sector_alloc_cnt + 1
           top == IF max < now THEN now ELSE max
           total == (mem_stat.heap_alloc_total_bytes + size) % UInt32
<1>1. now \in Int /\ max \in Int /\ cnt \in Int /\ top \in Int
  BY DEF MemStat
<1>2. UInt32 \in Nat /\ UInt32 > 0 /\ mem_stat.heap_alloc_total_bytes + size \in Int
  BY SizesAssumption DEF MemStat
<1>3. total \in 0..(UInt32 - 1)
  BY <1>2
<1> HIDE DEF now, max, cnt, top, total
<1>4. mem_stat' = [mem_stat EXCEPT
          !.heap_sector_alloc_cnt = cnt,
          !.heap_sector_allocated_bytes = now,
          !.heap_sector_allocated_bytes_max = top,
          !.heap_alloc_total_bytes = total]
  BY DEF DEV_HEAP_ALLOC_OK, now, max, cnt, top, total
<1> QED BY <1>1, <1>3, <1>4 DEF MemStat

\* What HandOut leaves besides the memory.
LEMMA HandedOut ==
    ASSUME ShapedInv, NEW b, NEW data \in Int, NEW bytes, NEW direction \in {-1, 1},
           HandOut(b, data, bytes, direction)
    PROVE  /\ RestTyped' /\ RegionsApart' /\ OnlyFreeReports'
           /\ held' = Given(held, b, bytes) /\ freed' = {}
           /\ UNCHANGED <<heap_main, heap_main_end>>
<1>1. BlockBytes(data) \in Int
  BY DEF BlockBytes, WordSize
<1>2. mem_stat' \in MemStat
  BY <1>1, AllocCounted DEF HandOut, ShapedInv, RestTyped
<1>3. last' = [call |-> AllocCall(direction), rc |-> 0, reported |-> SizeReport(bytes)]
  BY DEF HandOut, Done
<1>4. AllocCall(direction) \in Calls
  BY DEF AllocCall, Calls
<1>5. last' \in [call : Calls, rc : {-3, -2, -1, 0}, reported : SUBSET HeapFail]
  BY <1>3, <1>4, SizeReported
<1>6. RestTyped'
  BY <1>2, <1>5 DEF RestTyped, ShapedInv, HandOut, regions, limits
<1>7. OnlyFreeReports'
  BY <1>3, SizeReported DEF OnlyFreeReports
<1>8. RegionsApart'
  BY DEF RegionsApart, ShapedInv, HandOut, regions
<1> QED BY <1>6, <1>7, <1>8 DEF HandOut, Given, regions

\* Writes in a free block are not in a holder's block.
LEMMA HolderSpared ==
    ASSUME Shaped, NEW b \in blocks, mem[b] < 0,
           WritesIn(mem, mem', b, BlockEnd(mem, b))
    PROVE  WordsKept
<1> SUFFICES ASSUME NEW x \in DOMAIN held PROVE \A a \in x..LastWord(x) : mem'[a] = mem[a]
  BY DEF WordsKept
<1>1. Laid(mem, blocks, heap_main, heap_main_end)
  BY DEF Shaped, Shape
<1>2. x \in blocks /\ mem[x] > 0 /\ mem[x] \in Int
  BY HolderBlocks DEF HeldAreBlocks
<1>3. x # b /\ mem[b] \in Int
  BY <1>1, <1>2, BlockFacts
<1>4. x < b \/ x > BlockEnd(mem, b)
  BY <1>1, <1>2, <1>3, OtherBlocks
<1>5. BlockEnd(mem, x) < b \/ x > BlockEnd(mem, b)
  <2>1. x < b => BlockEnd(mem, x) < b
    BY <1>1, <1>2, BlockFacts
  <2> QED BY <1>4, <2>1
<1>6. b \in Int /\ BlockEnd(mem, b) \in Int
  BY <1>1, BlockFacts
<1>7. LastWord(x) = BlockEnd(mem, x)
  BY DEF LastWord, BlockEnd
<1> QED BY <1>1, <1>2, <1>5, <1>6, <1>7, WordsOutside

\* The hole an allocation takes is large enough.
LEMMA FoundHole ==
    ASSUME Shaped, NEW data \in Int, NEW direction, NEW i \in DOMAIN holes_list,
           Found(i, data, direction)
    PROVE  /\ holes_list[i] \in blocks
           /\ mem[holes_list[i]] \in Int /\ mem[holes_list[i]] < 0
           /\ -mem[holes_list[i]] >= data /\ data # 0
<1>1. Intact(holes_list[i])
  BY ListedIntact DEF HolesIntact
<1>2. -mem[holes_list[i]] >= data /\ data # 0
  BY <1>1 DEF Found, ScanEndsAt, ScanEnds
<1> QED BY <1>2, ListedIntact DEF HolesIntact

\* The hole at b gave a block at new of at least the given words.
Takes(b, new, words, bytes) ==
    /\ b \in blocks /\ mem[b] < 0
    /\ new \in Int /\ b <= new
    /\ mem'[new] \in Int /\ words > 0 /\ mem'[new] >= words
    /\ new + mem'[new] + 1 <= BlockEnd(mem, b)
    /\ held' = Given(held, new, bytes)
    /\ DEV_HEAP_ALLOC_OK(BlockBytes(mem'[new]))
    /\ UNCHANGED <<heap_main, heap_main_end>>

\* The block it gave is nobody's yet.
LEMMA NewBlock ==
    ASSUME Shaped, NEW b, NEW new, NEW words \in Int, NEW bytes,
           Takes(b, new, words, bytes)
    PROVE  new \notin DOMAIN held /\ DOMAIN held' = DOMAIN held \cup {new}
<1>1. /\ b \in blocks /\ mem[b] < 0 /\ new \in Int /\ b <= new
      /\ mem'[new] \in Int /\ words > 0 /\ mem'[new] >= words
      /\ new + mem'[new] + 1 <= BlockEnd(mem, b)
  BY DEF Takes
<1>2. /\ b \in Int /\ BlockEnd(mem, b) \in Int /\ mem[b] \in Int
      /\ \A c \in blocks : c > b => c > BlockEnd(mem, b)
  BY <1>1, BlockFacts DEF Shaped, Shape
<1>3. new \notin DOMAIN held
  <2> SUFFICES ASSUME new \in DOMAIN held PROVE FALSE
    OBVIOUS
  <2>1. new \in blocks /\ mem[new] > 0
    BY HolderBlocks DEF HeldAreBlocks
  <2>2. new # b
    BY <1>1, <1>2, <2>1
  <2>3. new > b
    BY <1>1, <1>2, <2>2
  <2> QED BY <1>1, <1>2, <2>1, <2>3
<1> QED BY <1>3 DEF Takes, Given

\* AllocSplit.
LEMMA AllocSplitStep ==
    ASSUME ShapedInv, NEW bytes \in AllocSizes, NEW direction \in {-1, 1},
           AllocSplit(bytes, direction)
    PROVE  Kept /\ BytesKept /\ \E b, new : Takes(b, new, Words(bytes), bytes)
<1> DEFINE data == Words(bytes)
<1>1. bytes \in Nat /\ data \in Nat /\ data * WordSize >= bytes
  BY ArgumentsAssumption, WordsHold
<1>2. PICK i \in DOMAIN holes_list :
        LET b    == holes_list[i]
            rest == -mem[b] - data - 2
            hole == IF direction > 0 THEN b + data + 2 ELSE b
            new  == IF direction > 0 THEN b ELSE b + rest + 2
        IN  /\ Found(i, data, direction)
            /\ Splits(b, data)
            /\ mem' = SplitMem(mem, hole, new, data, rest)
            /\ holes_list' = [holes_list EXCEPT ![i] = hole]
            /\ blocks' = blocks \cup {hole, new}
            /\ HandOut(new, data, bytes, direction)
  BY DEF AllocSplit, SplitMem
<1> DEFINE b    == holes_list[i]
           rest == -mem[b] - data - 2
           hole == IF direction > 0 THEN b + data + 2 ELSE b
           new  == IF direction > 0 THEN b ELSE b + rest + 2
<1>3. b \in blocks /\ mem[b] \in Int /\ mem[b] < 0 /\ data # 0
  BY <1>1, <1>2, FoundHole DEF ShapedInv
<1>4. HOLE_T_SIZE \in Nat /\ -mem[b] >= data + 2 + HOLE_T_SIZE
  BY <1>2, SizesAssumption DEF Splits
<1> HIDE DEF data
<1>5. /\ data >= 1 /\ rest \in Nat /\ rest >= HOLE_T_SIZE
      /\ mem[b] = -(rest + data + 2)
  BY <1>1, <1>3, <1>4
<1>6. Halves(b, hole, new, data, rest)
  BY DEF Halves
<1>7. /\ mem' = SplitMem(mem, hole, new, data, rest)
      /\ holes_list' = [holes_list EXCEPT ![i] = hole]
      /\ blocks' = blocks \cup {hole, new}
      /\ HandOut(new, data, bytes, direction)
  BY <1>2
<1> HIDE DEF b, rest, hole, new
<1>8. /\ Shape(mem, blocks, heap_main, heap_main_end, holes_list, held, freed)
      /\ Laid(mem, blocks, heap_main, heap_main_end)
  BY DEF ShapedInv, Shaped, Shape
<1>9. b = holes_list[i]
  BY DEF b
<1>10. Shape(mem', blocks \cup {hole, new}, heap_main, heap_main_end,
             [holes_list EXCEPT ![i] = hole], Given(held, new, bytes), {})
  BY <1>1, <1>5, <1>6, <1>7, <1>8, <1>9, SplitShape, Zenon
<1>11. IsSplit(mem, blocks, heap_main, heap_main_end, mem', b, hole, new, data, rest)
  BY <1>1, <1>3, <1>5, <1>6, <1>7, <1>8, SplitBlock, Zenon
<1>12. /\ RestTyped' /\ RegionsApart' /\ OnlyFreeReports'
       /\ held' = Given(held, new, bytes) /\ freed' = {}
       /\ UNCHANGED <<heap_main, heap_main_end>>
  BY <1>1, <1>7, HandedOut
<1>13. Shaped'
  BY <1>7, <1>10, <1>12 DEF Shaped
<1>14. WordsKept
  BY <1>3, <1>11, HolderSpared DEF IsSplit, ShapedInv
<1>15. Takes(b, new, Words(bytes), bytes)
  <2>1. /\ b \in Int /\ BlockEnd(mem, b) \in Int
        /\ BlockEnd(mem, b) = b - mem[b] + 1
    BY <1>3, <1>8, BlockFacts
  <2>2. BlockEnd(mem, b) = b + rest + data + 3 /\ rest >= 1
    BY <1>1, <1>5, <2>1, SizesAssumption
  <2>3. new \in Int /\ b <= new /\ new + data + 1 <= BlockEnd(mem, b)
    BY <1>1, <1>5, <1>6, <2>1, <2>2, HalvesPlaced
  <2>4. mem'[new] = data
    BY <1>11 DEF IsSplit
  <2>5. data = Words(bytes)
    BY DEF data
  <2>6. DEV_HEAP_ALLOC_OK(BlockBytes(mem'[new]))
    BY <1>7, <2>4 DEF HandOut
  <2> QED BY <1>1, <1>3, <1>5, <1>12, <2>3, <2>4, <2>5, <2>6 DEF Takes
<1>16. Kept
  BY <1>12, <1>13, <1>14 DEF Kept, ShapedInv
<1>17. BytesKept
  <2>1. Covered(mem', (blocks \ {b}) \cup {hole, new}) = Covered(mem, blocks)
    BY <1>1, <1>3, <1>5, <1>8, <1>11, SplitCovers
  <2>2. b \in {hole, new}
    BY <1>6 DEF Halves
  <2>3. (blocks \ {b}) \cup {hole, new} = blocks \cup {hole, new}
    BY <2>2
  <2> QED BY <1>7, <2>1, <2>3 DEF BytesKept
<1> QED BY <1>15, <1>16, <1>17

\* AllocWhole.
LEMMA AllocWholeStep ==
    ASSUME ShapedInv, NEW bytes \in AllocSizes, NEW direction \in {-1, 1},
           AllocWhole(bytes, direction)
    PROVE  Kept /\ BytesKept /\ \E b, new : Takes(b, new, Words(bytes), bytes)
<1>1. bytes \in Nat /\ Words(bytes) \in Nat /\ Words(bytes) * WordSize >= bytes
  BY ArgumentsAssumption, WordsHold
<1>2. PICK i \in DOMAIN holes_list :
        LET b    == holes_list[i]
            data == -mem[b]
        IN  /\ Found(i, Words(bytes), direction)
            /\ ~Splits(b, Words(bytes))
            /\ mem' = WriteData(WriteTags(mem, b, data), b, data)
            /\ holes_list' = RemoveAt(holes_list, i)
            /\ HandOut(b, data, bytes, direction)
            /\ UNCHANGED blocks
  BY DEF AllocWhole
<1> DEFINE b == holes_list[i]
<1>3. b \in blocks /\ mem[b] \in Int /\ mem[b] < 0 /\ -mem[b] >= Words(bytes)
  BY <1>1, <1>2, FoundHole DEF ShapedInv
<1>4. /\ mem' = WriteData(WriteTags(mem, b, -mem[b]), b, -mem[b])
      /\ holes_list' = RemoveAt(holes_list, i)
      /\ HandOut(b, -mem[b], bytes, direction)
      /\ blocks' = blocks
  BY <1>2
<1> HIDE DEF b
<1>5. (-mem[b]) * WordSize >= bytes /\ -mem[b] \in Int
  BY <1>1, <1>3 DEF WordSize
<1>6. /\ Shape(mem, blocks, heap_main, heap_main_end, holes_list, held, freed)
      /\ Laid(mem, blocks, heap_main, heap_main_end)
  BY DEF ShapedInv, Shaped, Shape
<1>7. b = holes_list[i]
  BY DEF b
<1>8. Shape(mem', blocks, heap_main, heap_main_end, RemoveAt(holes_list, i),
            Given(held, b, bytes), {})
  BY <1>1, <1>4, <1>5, <1>6, <1>7, WholeShape, Zenon
<1>9. /\ WritesIn(mem, mem', b, BlockEnd(mem, b)) /\ mem'[b] = -mem[b]
      /\ Laid(mem', blocks, heap_main, heap_main_end)
  BY <1>3, <1>4, <1>6, WholeBlock
<1>10. /\ RestTyped' /\ RegionsApart' /\ OnlyFreeReports'
       /\ held' = Given(held, b, bytes) /\ freed' = {}
       /\ UNCHANGED <<heap_main, heap_main_end>>
  BY <1>4, <1>5, HandedOut
<1>11. Shaped'
  BY <1>4, <1>8, <1>10 DEF Shaped
<1>12. WordsKept
  BY <1>3, <1>9, HolderSpared DEF ShapedInv
<1>13. Takes(b, b, Words(bytes), bytes)
  <2>1. /\ b \in Int /\ BlockEnd(mem, b) \in Int
        /\ BlockEnd(mem, b) = b - mem[b] + 1
    BY <1>3, <1>6, BlockFacts
  <2>2. mem'[b] = -mem[b]
    BY <1>9
  <2>3. Words(bytes) > 0
    BY <1>1, <1>2 DEF Found
  <2>4. b + mem'[b] + 1 <= BlockEnd(mem, b)
    BY <1>3, <2>1, <2>2
  <2>5. DEV_HEAP_ALLOC_OK(BlockBytes(mem'[b]))
    BY <1>4, <2>2 DEF HandOut
  <2> QED BY <1>3, <1>5, <1>10, <2>1, <2>2, <2>3, <2>4, <2>5 DEF Takes
<1>14. Kept
  BY <1>10, <1>11, <1>12 DEF Kept, ShapedInv
<1>15. BytesKept
  BY <1>3, <1>4, <1>6, <1>9, WholeCovers DEF BytesKept
<1> QED BY <1>13, <1>14, <1>15

-----------------------------------------------------------------------------
(* ns_mem_free *)

\* A word of a list link, read as a tag, is not the size of a block: on a
\* target with 32-bit pointers no stale tag is ever under a link, on others
\* a link is no number that small.
LinksAreNoSizes == HOLE_T_SIZE <= 2 \/ LinkWord \notin 1..MemWords

\* The region that ns_dyn_mem_region_find finds has the block.
LEMMA RegionFound ==
    ASSUME NEW b, NEW size, ns_dyn_mem_region_find(b, size) >= 0
    PROVE  /\ ns_dyn_mem_region_find(b, size) \in Slots
           /\ InRegion(ns_dyn_mem_region_find(b, size), b, size)
<1> DEFINE in == {i \in Slots : InRegion(i, b, size)}
<1>1. in \subseteq Nat
  BY SizesAssumption DEF Slots
<1>2. in # {}
  <2> SUFFICES ASSUME in = {} PROVE FALSE
    OBVIOUS
  <2>1. ns_dyn_mem_region_find(b, size) = -1
    BY DEF ns_dyn_mem_region_find
  <2> QED BY <2>1
<1>3. Min(in) \in in
  BY <1>1, <1>2, MinIsLeast
<1> QED BY <1>2, <1>3 DEF ns_dyn_mem_region_find

\* It finds one when there is one.
LEMMA RegionThere ==
    ASSUME NEW b, NEW size, NEW i \in Slots, InRegion(i, b, size)
    PROVE  /\ ns_dyn_mem_region_find(b, size) >= 0
           /\ ns_dyn_mem_region_find(b, size) \in Int
<1> DEFINE in == {j \in Slots : InRegion(j, b, size)}
<1>1. in \subseteq Nat /\ in # {}
  BY SizesAssumption DEF Slots
<1>2. Min(in) \in Nat
  BY <1>1, MinIsLeast
<1> QED BY <1>1, <1>2 DEF ns_dyn_mem_region_find

\* ns_mem_free accepts the block of a holder.
HeldAccepted == Shaped => \A b \in DOMAIN held : FreeReport(b) = {}

\* HeldAccepted holds in every state.
LEMMA HeldFreeable == HeldAccepted
<1> SUFFICES ASSUME Shaped, NEW b \in DOMAIN held PROVE FreeReport(b) = {}
  BY DEF HeldAccepted
<1>1. Laid(mem, blocks, heap_main, heap_main_end)
  BY DEF Shaped, Shape
<1>2. b \in blocks /\ mem[b] > 0 /\ mem[b] \in Int
  BY HolderBlocks DEF HeldAreBlocks
<1>3. /\ b \in Int /\ BlockEnd(mem, b) = b + mem[b] + 1
      /\ BlockEnd(mem, b) \in Addr /\ mem[BlockEnd(mem, b)] = mem[b]
  BY <1>1, <1>2, BlockFacts
<1>4. PICK i \in Slots : Within(heap_main, heap_main_end, i, b)
  BY <1>1, <1>2, BlockInRegion
<1>5. BlockEnd(mem, b) <= heap_main_end[i]
  BY <1>1, <1>2, <1>4, BlockInRegion
<1>6. heap_main[i] \in Int /\ heap_main_end[i] \in Int
  BY <1>1, LaidTypes
<1>7. InRegion(i, b, mem[b])
  BY <1>2, <1>3, <1>4, <1>5, <1>6 DEF InRegion, Within
<1>8. /\ ns_dyn_mem_region_find(b, mem[b]) >= 0
      /\ ns_dyn_mem_region_find(b, mem[b]) \in Int
  BY <1>7, RegionThere
<1>9. ns_mem_block_validate(b)
  BY <1>2, <1>3 DEF ns_mem_block_validate, LastWord, BlockEnd
<1>10. ~(ns_dyn_mem_region_find(b, mem[b]) < 0) /\ ~(mem[b] < 0)
  BY <1>2, <1>8
<1> QED BY <1>9, <1>10 DEF FreeReport

\* It refuses a block that was freed since the last allocation.
FreedRefused ==
    Shaped => \A b \in freed \cap Addr :
        /\ LinksAreNoSizes => FreeReport(b) # {}
        /\ HOLE_T_SIZE <= 2 => FreeReport(b) = {"NS_DYN_MEM_DOUBLE_FREE"}

\* FreedRefused holds in every state.
LEMMA FreedOnce == FreedRefused
<1> SUFFICES ASSUME Shaped, NEW b \in freed \cap Addr
             PROVE  /\ LinksAreNoSizes => FreeReport(b) # {}
                    /\ HOLE_T_SIZE <= 2 => FreeReport(b) = {"NS_DYN_MEM_DOUBLE_FREE"}
  BY DEF FreedRefused
<1>1. Laid(mem, blocks, heap_main, heap_main_end) /\ mem \in [Addr -> Int]
  BY LaidTypes DEF Shaped, Shape
<1>2. PICK c \in blocks : StaleTag(mem, b, c)
  BY DEF Shaped, Shape, KeepsFreed
<1>3. /\ c \in Int /\ BlockEnd(mem, c) \in Int /\ c + 2 <= BlockEnd(mem, c)
  BY <1>1, BlockFacts
<1>4. b \in Int /\ mem[b] \in Int /\ c <= b /\ b < BlockEnd(mem, c)
  BY <1>1, <1>2, <1>3, Addresses DEF StaleTag
<1>5. PICK i \in Slots : Within(heap_main, heap_main_end, i, c)
  BY <1>1, BlockInRegion
<1>6. BlockEnd(mem, c) <= heap_main_end[i]
  BY <1>1, <1>5, BlockInRegion
<1>7. /\ heap_main[i] \in Int /\ heap_main_end[i] \in Int /\ heap_main[i] # 0
      /\ heap_main[i] <= b /\ b < heap_main_end[i]
  BY <1>1, <1>3, <1>4, <1>5, <1>6, LaidTypes DEF Within
<1>8. mem[b] < 0 => FreeReport(b) = {"NS_DYN_MEM_DOUBLE_FREE"}
  <2> SUFFICES ASSUME mem[b] < 0 PROVE FreeReport(b) = {"NS_DYN_MEM_DOUBLE_FREE"}
    OBVIOUS
  <2>1. InRegion(i, b, mem[b])
    BY <1>4, <1>7 DEF InRegion
  <2>2. /\ ns_dyn_mem_region_find(b, mem[b]) >= 0
        /\ ns_dyn_mem_region_find(b, mem[b]) \in Int
    BY <2>1, RegionThere
  <2>3. ~(ns_dyn_mem_region_find(b, mem[b]) < 0)
    BY <2>2
  <2> QED BY <2>2, <2>3 DEF FreeReport
<1>9. ASSUME ~(mem[b] < 0), HOLE_T_SIZE > 2, mem[b] = LinkWord, LinksAreNoSizes
      PROVE  FreeReport(b) # {}
  <2>1. HOLE_T_SIZE \in Nat /\ MemWords \in Nat
    BY SizesAssumption
  <2>2. LinkWord \notin 1..MemWords
    BY <1>9, <2>1 DEF LinksAreNoSizes
  <2>3. mem[b] = 0 \/ mem[b] > MemWords
    BY <1>4, <1>9, <2>1, <2>2
  <2>4. CASE mem[b] = 0
    BY <1>9, <2>4 DEF FreeReport, ns_mem_block_validate
  <2>5. CASE mem[b] > MemWords
    <3>1. \A j \in Slots : ~InRegion(j, b, mem[b])
      <4> SUFFICES ASSUME NEW j \in Slots, InRegion(j, b, mem[b]) PROVE FALSE
        OBVIOUS
      <4>1. heap_main_end[j] \in Addr \cup {0}
        BY <1>1, LaidTypes DEF SlotsApart
      <4>2. heap_main_end[j] \in Int /\ heap_main_end[j] <= MemWords
        BY <2>1, <4>1, Addresses
      <4>3. b >= 1
        BY Addresses
      <4> QED BY <1>4, <2>1, <2>5, <4>2, <4>3 DEF InRegion
    <3>2. ns_dyn_mem_region_find(b, mem[b]) = -1
      BY <3>1 DEF ns_dyn_mem_region_find
    <3>3. ns_dyn_mem_region_find(b, mem[b]) < 0
      BY <3>2
    <3>4. ~(ns_dyn_mem_region_find(b, mem[b]) >= 0)
      BY <3>2
    <3> QED BY <3>3, <3>4 DEF FreeReport
  <2> QED BY <2>3, <2>4, <2>5
<1>10. mem[b] < 0 \/ (HOLE_T_SIZE > 2 /\ mem[b] = LinkWord)
  BY <1>2 DEF StaleTag
<1>11. HOLE_T_SIZE \in Nat
  BY SizesAssumption
<1> QED BY <1>8, <1>9, <1>10, <1>11

\* It refuses a pointer from elsewhere.
ForeignRefused == ShapedInv => \A b \in Foreign : FreeReport(b) = {"NS_DYN_MEM_POINTER_NOT_VALID"}

\* ForeignRefused holds in every state.
LEMMA ForeignKnown == ForeignRefused
<1> SUFFICES ASSUME ShapedInv, NEW b \in Foreign
             PROVE  FreeReport(b) = {"NS_DYN_MEM_POINTER_NOT_VALID"}
  BY DEF ForeignRefused
<1>1. \A j \in Slots : ~InRegion(j, b, mem[b])
  <2> SUFFICES ASSUME NEW j \in Slots, InRegion(j, b, mem[b]) PROVE FALSE
    OBVIOUS
  <2> DEFINE area == [lo |-> heap_main[j], hi |-> heap_main_end[j]]
  <2>1. area \in RegionAreas \cup HeapAreas
    BY DEF InRegion, ShapedInv, RegionsApart
  <2>2. b < area.lo \/ area.hi < b
    BY <2>1, AreasAssumption
  <2>3. /\ heap_main[j] \in Int /\ heap_main_end[j] \in Int /\ b \in Int
    BY LaidTypes, ArgumentsAssumption, Addresses DEF ShapedInv, Shaped, Shape
  <2> QED BY <2>2, <2>3 DEF InRegion
<1>2. ns_dyn_mem_region_find(b, mem[b]) = -1
  BY <1>1 DEF ns_dyn_mem_region_find
<1>3. ns_dyn_mem_region_find(b, mem[b]) < 0
  BY <1>2
<1>4. ~(ns_dyn_mem_region_find(b, mem[b]) >= 0)
  BY <1>2
<1> QED BY <1>3, <1>4 DEF FreeReport

\* FreeRefused: nothing changes.
LEMMA FreeRefusedStep ==
    ASSUME ShapedInv, NEW b, FreeRefused(b)
    PROVE  Kept
<1>1. FreeReport(b) \in SUBSET HeapFail
  BY DEF FreeReport, HeapFail
<1>2. last' = [call |-> "free", rc |-> -1, reported |-> FreeReport(b)]
  BY DEF FreeRefused, Done
<1>3. last' \in [call : Calls, rc : {-3, -2, -1, 0}, reported : SUBSET HeapFail]
  BY <1>1, <1>2 DEF Calls
<1>4. RestTyped'
  BY <1>3 DEF RestTyped, ShapedInv, FreeRefused, regions, limits
<1>5. OnlyFreeReports'
  BY <1>2 DEF OnlyFreeReports
<1> QED BY <1>4, <1>5, QuietStep DEF FreeRefused, regions

\* The step of FreeBlock in the terms of MergeShape.
MergeStep(b, r, below, above, lo, hi) ==
    LET low    == below /\ -mem[b - 1] >= HOLE_T_SIZE
        high   == above /\ -mem[BlockEnd(mem, b) + 1] >= HOLE_T_SIZE
        merged == hi - lo - 1
    IN  /\ b \in blocks /\ mem[b] > 0
        /\ r \in Slots /\ Within(heap_main, heap_main_end, r, b)
        /\ Merges(mem, heap_main, heap_main_end, b, r, below, above, lo, hi)
        /\ mem' = MergedMem(Invalidate(mem, b, mem[b]), lo, merged,
                            low \/ merged < HOLE_T_SIZE)
        /\ holes_list' = FreeList(holes_list, lo, BlockEnd(mem, b) + 1, low, high, merged)
        /\ blocks' = (blocks \ Swallowed(mem, b, above)) \cup {lo}
        /\ last' = [call |-> "free", rc |-> 0, reported |-> {}]

\* The free of a held block is such a step: its tags were good, and so are
\* its neighbours'.
LEMMA FreeMerges ==
    ASSUME ShapedInv, NEW b \in DOMAIN held,
           ns_mem_free_and_merge_with_adjacent_blocks(b, mem[b])
    PROVE  \E r, below, above, lo, hi : MergeStep(b, r, below, above, lo, hi)
<1> DEFINE n     == mem[b]
           r     == ns_dyn_mem_region_find(b, n)
           own   == Invalidate(mem, b, n)
           top   == b + n + 1
           below == FreeBelow(own, b, r)
           above == FreeAbove(own, top, r)
           lo    == IF below THEN b - (2 - own[b - 1]) ELSE b
           hi    == IF above THEN top + (2 - own[top + 1]) ELSE top
           low   == below /\ -own[b - 1] >= HOLE_T_SIZE
           high  == above /\ -own[top + 1] >= HOLE_T_SIZE
           merged == hi - lo - 1
           keeps == low \/ merged < HOLE_T_SIZE
           broken == \/ below /\ own[lo] # own[b - 1]
                     \/ above /\ own[hi] # own[top + 1]
<1>1. /\ holes_list' = FreeList(holes_list, lo, top + 1, low, high, merged)
      /\ mem' = MergedMem(own, lo, merged, keeps)
      /\ blocks' = (blocks \ ({b} \cup (IF above THEN {top + 1} ELSE {}))) \cup {lo}
      /\ last' = [call |-> "free", rc |-> 0,
                  reported |-> IF broken THEN {"NS_DYN_MEM_HEAP_SECTOR_CORRUPTED"} ELSE {}]
  BY DEF ns_mem_free_and_merge_with_adjacent_blocks, Done, MergedMem
<1>2. Laid(mem, blocks, heap_main, heap_main_end) /\ mem \in [Addr -> Int]
  BY LaidTypes DEF ShapedInv, Shaped, Shape
<1>3. b \in blocks /\ n > 0 /\ n \in Int
  BY HolderBlocks DEF HeldAreBlocks, ShapedInv
<1>4. /\ b \in Addr /\ b \in Int /\ top = BlockEnd(mem, b) /\ top \in Addr /\ top \in Int
  BY <1>2, <1>3, BlockFacts
<1>5. r \in Slots /\ InRegion(r, b, n)
  <2>1. FreeReport(b) = {}
    BY HeldFreeable DEF HeldAccepted, ShapedInv
  <2>2. ~(r < 0)
    <3> SUFFICES ASSUME r < 0 PROVE FALSE
      OBVIOUS
    <3>1. r = -1
      <4> DEFINE in == {i \in Slots : InRegion(i, b, n)}
      <4>1. in = {}
        <5> SUFFICES ASSUME NEW i \in in PROVE FALSE
          OBVIOUS
        <5>1. r >= 0 /\ r \in Int
          BY RegionThere
        <5> QED BY <5>1
      <4> QED BY <4>1 DEF ns_dyn_mem_region_find
    <3>2. ~(r >= 0) /\ r < 0
      BY <3>1
    <3>3. FreeReport(b) = {"NS_DYN_MEM_POINTER_NOT_VALID"}
      BY <3>2 DEF FreeReport
    <3> QED BY <2>1, <3>3
  <2>3. r >= 0
    <3> DEFINE in == {i \in Slots : InRegion(i, b, n)}
    <3>1. CASE in = {}
      BY <2>2, <3>1 DEF ns_dyn_mem_region_find
    <3>2. CASE in # {}
      BY <3>2, RegionThere
    <3> QED BY <3>1, <3>2
  <2> QED BY <2>3, RegionFound
<1>6. Within(heap_main, heap_main_end, r, b)
  <2>1. heap_main[r] \in Int /\ heap_main_end[r] \in Int
    BY <1>2, <1>5, LaidTypes
  <2> QED BY <1>4, <1>5, <2>1 DEF InRegion, Within
<1>7. TagsAt(own, mem, b, top, -n)
  <2>1. top = b + AbsInt(-n) + 1 /\ -n \in Int
    <3>1. AbsInt(-n) = n
      BY <1>3, AbsIntFacts
    <3> QED BY <1>3, <3>1
  <2>2. own = WriteTags(mem, b, -n)
    BY DEF Invalidate
  <2> HIDE DEF top, n, own
  <2> QED BY <1>2, <1>4, <2>1, <2>2, TagsWritten
<1> HIDE DEF n, r, own, top
<1>8. b # heap_main[r] => own[b - 1] = mem[b - 1] /\ mem[b - 1] \in Int /\ b - 1 \in Addr
  <2> SUFFICES ASSUME b # heap_main[r]
               PROVE  own[b - 1] = mem[b - 1] /\ mem[b - 1] \in Int /\ b - 1 \in Addr
    OBVIOUS
  <2>1. PICK c \in blocks : BlockEnd(mem, c) = b - 1
    BY <1>2, <1>3, <1>5, <1>6, Predecessor
  <2>2. b - 1 \in Addr
    BY <1>2, <2>1, BlockFacts
  <2>3. b - 1 # b /\ b - 1 # top
    BY <1>3, <1>4 DEF top
  <2> QED BY <1>2, <1>7, <2>2, <2>3 DEF TagsAt
<1>9. top # heap_main_end[r] =>
         own[top + 1] = mem[top + 1] /\ mem[top + 1] \in Int /\ top + 1 \in Addr
  <2> SUFFICES ASSUME top # heap_main_end[r]
               PROVE  own[top + 1] = mem[top + 1] /\ mem[top + 1] \in Int /\ top + 1 \in Addr
    OBVIOUS
  <2>1. top + 1 \in blocks
    BY <1>2, <1>3, <1>4, <1>5, <1>6, BlockInRegion
  <2>2. top + 1 \in Addr
    BY <1>2, <2>1, LaidTypes
  <2>3. top + 1 # b /\ top + 1 # top
    BY <1>3, <1>4 DEF top
  <2> QED BY <1>2, <1>7, <2>2, <2>3 DEF TagsAt
<1>10. /\ below \in BOOLEAN /\ above \in BOOLEAN
       /\ below <=> b # heap_main[r] /\ mem[b - 1] < 0
       /\ above <=> top # heap_main_end[r] /\ mem[top + 1] < 0
  BY <1>8, <1>9 DEF FreeBelow, FreeAbove
<1>11. /\ below => own[b - 1] = mem[b - 1]
       /\ above => own[top + 1] = mem[top + 1]
  BY <1>8, <1>9 DEF FreeBelow, FreeAbove
<1> HIDE DEF below, above
<1>12. /\ lo = IF below THEN b - (2 - mem[b - 1]) ELSE b
       /\ hi = IF above THEN top + (2 - mem[top + 1]) ELSE top
       /\ low = (below /\ -mem[b - 1] >= HOLE_T_SIZE)
       /\ high = (above /\ -mem[top + 1] >= HOLE_T_SIZE)
  BY <1>11
<1>13. Merges(mem, heap_main, heap_main_end, b, r, below, above, lo, hi)
  BY <1>4, <1>10, <1>12 DEF Merges
<1> HIDE DEF lo, hi
<1>14. MergesBelow(mem, blocks, heap_main, heap_main_end, b, r, below, lo)
  BY <1>2, <1>3, <1>5, <1>6, <1>13, BelowFound
<1>15. MergesAbove(mem, blocks, heap_main, heap_main_end, b, r, above, hi)
  BY <1>2, <1>3, <1>5, <1>6, <1>13, AboveFound
<1>16. ~broken
  <2>1. below => own[lo] = own[b - 1]
    <3> SUFFICES ASSUME below PROVE own[lo] = own[b - 1]
      OBVIOUS
    <3>1. lo \in blocks /\ lo + 3 <= b /\ mem[lo] = mem[b - 1]
      BY <1>14 DEF MergesBelow
    <3>2. lo \in Addr /\ lo \in Int
      BY <1>2, <3>1, BlockFacts
    <3>3. lo # b /\ lo # top
      BY <1>3, <1>4, <3>1, <3>2 DEF top
    <3> QED BY <1>7, <1>11, <3>1, <3>2, <3>3 DEF TagsAt
  <2>2. above => own[hi] = own[top + 1]
    <3> SUFFICES ASSUME above PROVE own[hi] = own[top + 1]
      OBVIOUS
    <3>1. /\ hi \in Addr /\ top + 1 \in blocks
          /\ BlockEnd(mem, top + 1) = hi /\ mem[hi] = mem[top + 1]
      BY <1>4, <1>15 DEF MergesAbove
    <3>2. hi \in Int /\ (top + 1) + 2 <= hi
      BY <1>2, <3>1, BlockFacts
    <3>3. hi # b /\ hi # top
      BY <1>3, <1>4, <3>2 DEF top
    <3> QED BY <1>7, <1>11, <3>1, <3>3 DEF TagsAt
  <2> QED BY <2>1, <2>2
<1>17. last' = [call |-> "free", rc |-> 0, reported |-> {}]
  BY <1>1, <1>16
<1>18. blocks' = (blocks \ Swallowed(mem, b, above)) \cup {lo}
  BY <1>1, <1>4 DEF Swallowed
<1>19. keeps = ((below /\ -mem[b - 1] >= HOLE_T_SIZE) \/ hi - lo - 1 < HOLE_T_SIZE)
  BY <1>12
<1>20. MergeStep(b, r, below, above, lo, hi)
  <2>1. mem' = MergedMem(Invalidate(mem, b, mem[b]), lo, hi - lo - 1,
                 (below /\ -mem[b - 1] >= HOLE_T_SIZE) \/ hi - lo - 1 < HOLE_T_SIZE)
    BY <1>1, <1>19 DEF own, n
  <2>2. holes_list' = FreeList(holes_list, lo, BlockEnd(mem, b) + 1,
                               below /\ -mem[b - 1] >= HOLE_T_SIZE,
                               above /\ -mem[BlockEnd(mem, b) + 1] >= HOLE_T_SIZE,
                               hi - lo - 1)
    BY <1>1, <1>4, <1>12
  <2>3. mem[b] > 0
    BY <1>3 DEF n
  <2> QED BY <1>3, <1>5, <1>6, <1>13, <1>17, <1>18, <2>1, <2>2, <2>3 DEF MergeStep
<1> QED BY <1>20

\* What such a step leaves.
LEMMA MergeStepKeeps ==
    ASSUME ShapedInv, NEW b \in DOMAIN held,
           NEW r, NEW below, NEW above, NEW lo, NEW hi,
           MergeStep(b, r, below, above, lo, hi),
           held' = Returned(held, b), freed' = freed \cup {b},
           UNCHANGED <<heap_main, heap_main_end>>
    PROVE  Shaped' /\ WordsKept /\ BytesKept
<1> DEFINE n == mem[b]
           low == below /\ -mem[b - 1] >= HOLE_T_SIZE
           high == above /\ -mem[BlockEnd(mem, b) + 1] >= HOLE_T_SIZE
           merged == hi - lo - 1
           keeps == low \/ merged < HOLE_T_SIZE
<1>1. /\ b \in blocks /\ mem[b] > 0
      /\ r \in Slots /\ Within(heap_main, heap_main_end, r, b)
      /\ Merges(mem, heap_main, heap_main_end, b, r, below, above, lo, hi)
      /\ mem' = MergedMem(Invalidate(mem, b, n), lo, merged, keeps)
      /\ holes_list' = FreeList(holes_list, lo, BlockEnd(mem, b) + 1, low, high, merged)
      /\ blocks' = (blocks \ Swallowed(mem, b, above)) \cup {lo}
  BY DEF MergeStep
<1>2. /\ Shape(mem, blocks, heap_main, heap_main_end, holes_list, held, freed)
      /\ Laid(mem, blocks, heap_main, heap_main_end)
      /\ mem \in [Addr -> Int] /\ freed \subseteq Addr
  BY LaidTypes DEF ShapedInv, Shaped, Shape, RestTyped
<1>3. /\ b \in Addr /\ b \in Int /\ n \in Int /\ n > 0
      /\ BlockEnd(mem, b) = b + n + 1 /\ b + n + 1 \in Addr
  BY <1>1, <1>2, BlockFacts
<1>4. MergesSpan(mem, blocks, heap_main, heap_main_end, b, r, above, lo, hi)
  BY <1>1, <1>2, MergedSpan
<1>5. /\ Span(mem, blocks, heap_main, heap_main_end, r, lo, hi)
      /\ lo <= b /\ BlockEnd(mem, b) <= hi
  BY <1>4 DEF MergesSpan
<1>6. lo \in blocks /\ lo \in Addr /\ lo \in Int /\ hi \in Addr /\ hi \in Int
  BY <1>2, <1>5, BlockFacts, Addresses DEF Span
<1>7. MergedWords(mem, mem', b, n, lo, hi)
  <2>1. keeps \in BOOLEAN /\ (~keeps => hi - lo - 1 >= HOLE_T_SIZE)
    BY <1>6, SizesAssumption
  <2>2. mem' = MergedMem(Invalidate(mem, b, n), lo, hi - lo - 1, keeps)
    BY <1>1
  <2>3. b + n + 1 <= hi
    BY <1>3, <1>5
  <2> HIDE DEF keeps, n
  <2> QED BY <1>2, <1>3, <1>5, <1>6, <2>1, <2>2, <2>3, MergeWrites, Zenon
<1>8. Merging(mem, blocks, heap_main, heap_main_end, b, r, below, above, lo, hi, mem')
  BY <1>1, <1>2, <1>7 DEF Merging
<1>9. Shaped'
  <2> HIDE DEF low, high, merged
  <2>1. MergeFlags(mem, b, below, above, lo, hi, low, high, merged)
    BY DEF MergeFlags, low, high, merged
  <2>2. Shape(mem', (blocks \ Swallowed(mem, b, above)) \cup {lo}, heap_main, heap_main_end,
              FreeList(holes_list, lo, BlockEnd(mem, b) + 1, low, high, merged),
              Returned(held, b), freed \cup {b})
    BY <1>2, <1>8, <2>1, MergeShape, Zenon
  <2> QED BY <1>1, <2>2 DEF Shaped
<1>10. WordsKept
  <2> SUFFICES ASSUME NEW x \in DOMAIN held, x # b
               PROVE  \A a \in x..LastWord(x) : mem'[a] = mem[a]
    BY DEF WordsKept, Returned
  <2>1. x \in blocks /\ mem[x] > 0 /\ mem[x] \in Int
    BY HolderBlocks DEF HeldAreBlocks, ShapedInv
  <2>2. x \in Int /\ BlockEnd(mem, x) \in Int /\ x + 2 <= BlockEnd(mem, x)
    BY <1>2, <2>1, BlockFacts
  <2>3. BlockEnd(mem, x) < lo \/ x > hi
    <3> SUFFICES ASSUME lo <= x, BlockEnd(mem, x) <= hi PROVE FALSE
      BY <1>5, <2>1 DEF Span
    <3>1. x <= hi
      BY <1>6, <2>2
    <3>2. x = lo \/ x \in Swallowed(mem, b, above)
      BY <1>4, <2>1, <3>1 DEF MergesSpan
    <3>3. MergesBelow(mem, blocks, heap_main, heap_main_end, b, r, below, lo)
      BY <1>1, <1>2, BelowFound
    <3>4. MergesAbove(mem, blocks, heap_main, heap_main_end, b, r, above, hi)
      BY <1>1, <1>2, AboveFound
    <3>5. ~(x = lo)
      <4> SUFFICES ASSUME x = lo PROVE FALSE
        OBVIOUS
      <4>1. mem[lo] < 0
        BY <3>3 DEF MergesBelow
      <4> QED BY <2>1, <4>1
    <3>6. above /\ x = BlockEnd(mem, b) + 1
      BY <3>2, <3>5 DEF Swallowed
    <3>7. mem[x] < 0
      BY <3>4, <3>6 DEF MergesAbove
    <3> QED BY <2>1, <3>7
  <2>4. WritesIn(mem, mem', lo, hi)
    BY <1>7 DEF MergedWords
  <2>5. LastWord(x) = BlockEnd(mem, x)
    BY DEF LastWord, BlockEnd
  <2> QED BY <1>2, <1>6, <2>1, <2>3, <2>4, <2>5, WordsOutside
<1>11. BytesKept
  <2>1. Covered(mem', (blocks \ Swallowed(mem, b, above)) \cup {lo}) = Covered(mem, blocks)
    BY <1>1, <1>2, <1>7, MergeCovers
  <2> QED BY <1>1, <2>1 DEF BytesKept
<1> QED BY <1>9, <1>10, <1>11

\* FreeBlock: only a holder's block gets that far.
LEMMA FreeBlockStep ==
    ASSUME LinksAreNoSizes, ShapedInv, NEW b \in Freeable, FreeBlock(b)
    PROVE  Kept /\ BytesKept /\ b \in DOMAIN held
<1>1. b \in DOMAIN held
  <2>1. FreeReport(b) = {}
    BY DEF FreeBlock
  <2>2. b \notin Foreign
    BY <2>1, ForeignKnown DEF ForeignRefused
  <2>3. b \notin freed
    BY <2>1, FreedOnce DEF FreedRefused, ShapedInv, RestTyped
  <2> QED BY <2>2, <2>3 DEF Freeable
<1>2. PICK r, below, above, lo, hi : MergeStep(b, r, below, above, lo, hi)
  BY <1>1, FreeMerges DEF FreeBlock
<1>3. /\ held' = Returned(held, b) /\ freed' = freed \cup {b}
      /\ UNCHANGED <<heap_main, heap_main_end, heap_size, temporary_alloc_heap_limit, threshold>>
  BY DEF FreeBlock, Returned, regions, limits
<1>4. Shaped' /\ WordsKept /\ BytesKept
  BY <1>1, <1>2, <1>3, MergeStepKeeps
<1>5. last' = [call |-> "free", rc |-> 0, reported |-> {}]
  BY <1>2 DEF MergeStep
<1>6. mem_stat' \in MemStat
  <2> DEFINE size == BlockBytes(mem[b])
             cnt == mem_stat.heap_sector_alloc_cnt - 1
             now == mem_stat.heap_sector_allocated_bytes - size
  <2>1. mem[b] \in Int
    BY <1>1, HolderBlocks DEF HeldAreBlocks, ShapedInv
  <2>2. mem_stat \in MemStat
    BY DEF ShapedInv, RestTyped
  <2>3. size \in Int
    BY <2>1 DEF BlockBytes, WordSize
  <2>4. cnt \in Int /\ now \in Int
    BY <2>2, <2>3 DEF MemStat
  <2>5. mem_stat' = [mem_stat EXCEPT !.heap_sector_alloc_cnt = cnt,
                                     !.heap_sector_allocated_bytes = now]
    BY DEF FreeBlock, DEV_HEAP_FREE
  <2> HIDE DEF cnt, now, size
  <2> QED BY <2>2, <2>4, <2>5 DEF MemStat
<1>7. RestTyped'
  <2>1. last' \in [call : Calls, rc : {-3, -2, -1, 0}, reported : SUBSET HeapFail]
    BY <1>5 DEF Calls
  <2>2. freed' \in SUBSET Addr
    BY <1>1, <1>3, ShapeTyped DEF ShapedInv, RestTyped, ShapeTypes
  <2> QED BY <1>3, <1>6, <2>1, <2>2 DEF RestTyped, ShapedInv
<1>8. OnlyFreeReports'
  BY <1>5 DEF OnlyFreeReports
<1>9. RegionsApart'
  BY <1>3 DEF RegionsApart, ShapedInv
<1>10. Kept
  BY <1>4, <1>7, <1>8, <1>9 DEF Kept, ShapedInv
<1> QED BY <1>1, <1>4, <1>10

-----------------------------------------------------------------------------
(* Theorems *)

\* Every step keeps the structure and the words of the holders.
LEMMA NextKeeps ==
    ASSUME ~ReAddAnyTime, LinksAreNoSizes, ShapedInv, [Next]_vars
    PROVE  Kept
<1>1. ASSUME NEW r \in Regions, ns_mem_region_add(r) PROVE Kept
  BY <1>1, RegionTooSmallStep, RegionRefusedStep, RegionAddedStep DEF ns_mem_region_add
<1>2. ASSUME NEW t \in Thresholds, ns_mem_set_temporary_alloc_free_heap_threshold(t)
      PROVE  Kept
  BY <1>2, ThresholdStep
<1>3. ASSUME NEW bytes \in AllocSizes, NEW direction \in {-1, 1},
             ns_mem_internal_alloc(bytes, direction)
      PROVE  Kept
  BY <1>3, AllocRefusedStep, AllocNotFoundStep, AllocSplitStep, AllocWholeStep
     DEF ns_mem_internal_alloc, Allocate
<1>4. ASSUME NEW b \in Freeable, ns_mem_free(b) PROVE Kept
  BY <1>4, FreeRefusedStep, FreeBlockStep DEF ns_mem_free
<1>5. CASE UNCHANGED vars
  <2>1. RestTyped' /\ OnlyFreeReports'
    BY <1>5 DEF vars, limits, regions, RestTyped, OnlyFreeReports, ShapedInv
  <2> QED BY <1>5, <2>1, QuietStep DEF vars, regions
<1> QED BY <1>1, <1>2, <1>3, <1>4, <1>5 DEF Next, ns_mem_alloc, ns_mem_temporary_alloc

\* The heap keeps its structure, whatever calls are made in whatever order:
\* tiled regions, merged holes, a list that is exactly the holes, and held
\* blocks that are exactly the allocated ones (nsdynmemLIB.c), as long as
\* clients re-add a region only while it is untouched.
THEOREM Invariance ==
    ASSUME ~ReAddAnyTime, LinksAreNoSizes
    PROVE  Spec => []IInv
<1>1. Init => IInv
  BY InitIInv
<1>2. IInv /\ [Next]_vars => IInv'
  <2> SUFFICES ASSUME IInv, [Next]_vars PROVE IInv'
    OBVIOUS
  <2>1. ShapedInv
    BY IInvMeans DEF SameInv
  <2>2. ShapedInv'
    BY <2>1, NextKeeps DEF Kept
  <2>3. SameInv'
    BY IInvMeans, PTL
  <2> QED BY <2>2, <2>3 DEF SameInv
<1> QED BY <1>1, <1>2, PTL DEF Spec

\* The blocks tile every region and both tags of each agree: what
\* ns_mem_free and the scan of the list rely on when they step from tag to
\* tag.
THEOREM BlocksTile ==
    ASSUME ~ReAddAnyTime, LinksAreNoSizes
    PROVE  Spec => []Tiled
<1>1. IInv => Tiled
  BY DEF IInv
<1> QED BY <1>1, Invariance, PTL

\* The blocks of the clients are exactly the allocated ones, each as large
\* as asked for: no two clients share a word, no block is lost.
THEOREM NoSharedWords ==
    ASSUME ~ReAddAnyTime, LinksAreNoSizes
    PROVE  Spec => []HeldBlocks
<1>1. IInv => HeldBlocks
  BY DEF IInv
<1> QED BY <1>1, Invariance, PTL

\* holes_list is exactly the free blocks that can carry a hole_t, in address
\* order.
THEOREM ListIsHoles ==
    ASSUME ~ReAddAnyTime, LinksAreNoSizes
    PROVE  Spec => []HolesListed
<1>1. IInv => HolesListed
  BY DEF IInv
<1> QED BY <1>1, Invariance, PTL

\* ns_mem_free_and_merge_with_adjacent_blocks leaves no two free neighbours.
THEOREM AlwaysMerged ==
    ASSUME ~ReAddAnyTime, LinksAreNoSizes
    PROVE  Spec => []Coalesced
<1>1. IInv => Coalesced
  BY DEF IInv
<1> QED BY <1>1, Invariance, PTL

\* ns_mem_free accepts every block that is held, and nothing reports a
\* corrupted heap but a free of what is not held.
THEOREM ReportsAreTrue ==
    ASSUME ~ReAddAnyTime, LinksAreNoSizes
    PROVE  Spec => []NoFalseAlarm
<1>1. IInv => NoFalseAlarm
  BY IInvMeans, HeldFreeable DEF SameInv, ShapedInv, HeldAccepted, NoFalseAlarm
<1> QED BY <1>1, Invariance, PTL

\* On a target whose hole_t has two words, a second free of a block is
\* reported as such until memory is handed out again: neither the tags of a
\* merge nor the links of a hole cover the stale tag.
THEOREM SecondFreeSeen ==
    ASSUME ~ReAddAnyTime, HOLE_T_SIZE <= 2
    PROVE  Spec => []DoubleFreeDetected
<1>1. LinksAreNoSizes
  BY DEF LinksAreNoSizes
<1>2. IInv => DoubleFreeDetected
  BY IInvMeans, FreedOnce
     DEF SameInv, ShapedInv, FreedRefused, DoubleFreeDetected, RestTyped
<1>3. Spec => []IInv
  BY <1>1, Invariance
<1> QED BY <1>2, <1>3, PTL

\* When every block was given back, each region is one hole: no sequence of
\* splits and merges leaves it fragmented.
THEOREM NoTraceLeft ==
    ASSUME ~ReAddAnyTime, LinksAreNoSizes
    PROVE  Spec => []WholeAgain
<1>1. IInv => WholeAgain
  <2> SUFFICES ASSUME ShapedInv, DOMAIN held = {}, NEW i \in Slots, heap_main[i] # 0
               PROVE  mem[heap_main[i]] = -(heap_main_end[i] - heap_main[i] - 1)
    BY IInvMeans DEF SameInv, WholeAgain
  <2> DEFINE b == heap_main[i]
             e == BlockEnd(mem, b)
  <2>1. /\ Laid(mem, blocks, heap_main, heap_main_end)
        /\ DOMAIN held = {c \in blocks : mem[c] > 0}
    BY DEF ShapedInv, Shaped, Shape, Holds
  <2>2. /\ heap_main[i] \in Int /\ heap_main_end[i] \in Int
        /\ heap_main[i] < heap_main_end[i] /\ b \in blocks
    <3>1. heap_main[i] \in Int /\ heap_main_end[i] \in Int
      BY <2>1, LaidTypes
    <3>2. heap_main[i] < heap_main_end[i] /\ b \in blocks
      BY <2>1 DEF Laid, SlotsApart
    <3> QED BY <3>1, <3>2
  <2>3. Within(heap_main, heap_main_end, i, b)
    BY <2>2 DEF Within
  <2>4. \A c \in blocks : ~(mem[c] > 0) /\ mem[c] \in Int /\ mem[c] # 0
    BY <2>1, BlockFacts
  <2>5. mem[b] < 0 /\ e = b - mem[b] + 1 /\ e \in Int /\ mem[b] \in Int
    BY <2>1, <2>2, <2>4, BlockFacts
  <2>6. e = heap_main_end[i]
    <3> SUFFICES ASSUME e # heap_main_end[i] PROVE FALSE
      OBVIOUS
    <3>1. e + 1 \in blocks
      BY <2>1, <2>2, <2>3, BlockInRegion
    <3>2. mem[e + 1] > 0
      BY <2>1, <2>2, <2>3, <2>5 DEF Laid, Single
    <3> QED BY <2>4, <3>1, <3>2
  <2> QED BY <2>2, <2>5, <2>6
<1> QED BY <1>1, Invariance, PTL

\* A holder's block keeps its size.
LEMMA SizeKept ==
    ASSUME Shaped, WordsKept, NEW b \in DOMAIN held \cap DOMAIN held'
    PROVE  mem'[b] = mem[b]
<1>1. b \in blocks
  BY HolderBlocks DEF HeldAreBlocks
<1>2. b \in Int /\ BlockEnd(mem, b) \in Int /\ b + 2 <= BlockEnd(mem, b)
  BY <1>1, BlockFacts DEF Shaped, Shape
<1>3. LastWord(b) = BlockEnd(mem, b)
  BY DEF LastWord, BlockEnd
<1>4. b \in b..LastWord(b)
  BY <1>2, <1>3
<1> QED BY <1>4 DEF WordsKept

\* The bytes of the blocks in use are summed over finitely many integers.
BytesTyped ==
    Shaped => /\ IsFiniteSet(DOMAIN held)
              /\ DOMAIN BytesInUse = DOMAIN held
              /\ \A b \in DOMAIN held : /\ BytesInUse[b] = BlockBytes(mem[b])
                                        /\ BytesInUse[b] \in Int

\* They are.
LEMMA BytesAreTyped == BytesTyped
<1> SUFFICES ASSUME Shaped
             PROVE  /\ IsFiniteSet(DOMAIN held)
                    /\ DOMAIN BytesInUse = DOMAIN held
                    /\ \A b \in DOMAIN held : /\ BytesInUse[b] = BlockBytes(mem[b])
                                              /\ BytesInUse[b] \in Int
  BY DEF BytesTyped
<1>1. IsFiniteSet(DOMAIN held)
  <2>1. DOMAIN held \subseteq Addr
    BY ShapeTyped DEF ShapeTypes
  <2>2. IsFiniteSet(Addr)
    BY FS_Interval, SizesAssumption DEF Addr
  <2> QED BY <2>1, <2>2, FS_Subset
<1>2. ASSUME NEW b \in DOMAIN held PROVE BlockBytes(mem[b]) \in Int
  <2>1. mem[b] \in Int
    BY HolderBlocks DEF HeldAreBlocks
  <2> QED BY <2>1 DEF BlockBytes, WordSize
<1> QED BY <1>1, <1>2 DEF BytesInUse

\* The same holders with blocks of the same size are counted the same.
LEMMA SameCounts ==
    ASSUME StatsExact, held' = held, \A b \in DOMAIN held : mem'[b] = mem[b],
           mem_stat'.heap_sector_alloc_cnt = mem_stat.heap_sector_alloc_cnt,
           mem_stat'.heap_sector_allocated_bytes = mem_stat.heap_sector_allocated_bytes
    PROVE  StatsExact'
<1>1. BytesInUse' = BytesInUse
  BY DEF BytesInUse
<1> QED BY <1>1 DEF StatsExact

\* A block that is handed out is counted.
LEMMA TakeCounts ==
    ASSUME Shaped, Shaped', WordsKept, StatsExact, mem_stat \in MemStat,
           NEW b, NEW new, NEW words \in Int, NEW bytes, Takes(b, new, words, bytes)
    PROVE  StatsExact'
<1>1. new \notin DOMAIN held /\ DOMAIN held' = DOMAIN held \cup {new}
  BY NewBlock
<1>2. /\ mem_stat'.heap_sector_alloc_cnt = mem_stat.heap_sector_alloc_cnt + 1
      /\ mem_stat'.heap_sector_allocated_bytes =
            mem_stat.heap_sector_allocated_bytes + BlockBytes(mem'[new])
  BY DEF Takes, DEV_HEAP_ALLOC_OK, MemStat
<1> DEFINE w == BytesInUse
           v == BytesInUse'
           D == DOMAIN held
<1>3. /\ IsFiniteSet(D) /\ DOMAIN w = D
      /\ \A x \in D : w[x] = BlockBytes(mem[x]) /\ w[x] \in Int
  BY BytesAreTyped DEF BytesTyped
<1>4. /\ DOMAIN v = D \cup {new}
      /\ \A x \in D \cup {new} : v[x] = BlockBytes(mem'[x]) /\ v[x] \in Int
  <2>1. BytesTyped'
    BY BytesAreTyped, PTL
  <2> QED BY <1>1, <2>1 DEF BytesTyped
<1>5. \A x \in D : mem'[x] = mem[x]
  BY <1>1, SizeKept
<1> HIDE DEF w, v, D
<1>6. AgreeOn(v, w, D)
  BY <1>3, <1>4, <1>5 DEF AgreeOn
<1>7. SumFunction(v) = SumFunctionOnSet(v, D \cup {new}) /\ SumFunction(w) = SumFunctionOnSet(w, D)
  BY <1>3, <1>4, SumIsTotal
<1>8. SumFunctionOnSet(v, D \cup {new}) = v[new] + SumFunctionOnSet(v, D)
  BY <1>1, <1>3, <1>4, SumAdds DEF D
<1>9. SumFunctionOnSet(v, D) = SumFunctionOnSet(w, D) /\ SumFunctionOnSet(v, D) \in Int
  BY <1>3, <1>4, <1>6, SumAgrees
<1>10. SumFunction(v) = SumFunction(w) + BlockBytes(mem'[new]) /\ v[new] \in Int
  BY <1>4, <1>7, <1>8, <1>9
<1>11. Cardinality(DOMAIN held') = Cardinality(DOMAIN held) + 1
  BY <1>1, <1>3, FS_AddElement DEF D
<1> QED BY <1>2, <1>10, <1>11 DEF StatsExact, v, w

\* A block that is given back no longer counts.
LEMMA FreeCounts ==
    ASSUME Shaped, Shaped', WordsKept, StatsExact, mem_stat \in MemStat,
           NEW b \in DOMAIN held, held' = Returned(held, b),
           DEV_HEAP_FREE(BlockBytes(mem[b]))
    PROVE  StatsExact'
<1>1. DOMAIN held' = DOMAIN held \ {b}
  BY DEF Returned
<1>2. /\ mem_stat'.heap_sector_alloc_cnt = mem_stat.heap_sector_alloc_cnt - 1
      /\ mem_stat'.heap_sector_allocated_bytes =
            mem_stat.heap_sector_allocated_bytes - BlockBytes(mem[b])
  BY DEF DEV_HEAP_FREE, MemStat
<1> DEFINE w == BytesInUse
           v == BytesInUse'
           D == DOMAIN held'
<1>3. /\ IsFiniteSet(DOMAIN held) /\ DOMAIN w = D \cup {b} /\ b \notin D
      /\ \A x \in D \cup {b} : w[x] = BlockBytes(mem[x]) /\ w[x] \in Int
  BY <1>1, BytesAreTyped DEF BytesTyped
<1>4. /\ IsFiniteSet(D) /\ DOMAIN v = D
      /\ \A x \in D : v[x] = BlockBytes(mem'[x]) /\ v[x] \in Int
  <2>1. BytesTyped'
    BY BytesAreTyped, PTL
  <2> QED BY <2>1 DEF BytesTyped
<1>5. \A x \in D : mem'[x] = mem[x]
  BY <1>1, SizeKept
<1> HIDE DEF w, v, D
<1>6. AgreeOn(v, w, D)
  BY <1>3, <1>4, <1>5 DEF AgreeOn
<1>7. SumFunction(v) = SumFunctionOnSet(v, D) /\ SumFunction(w) = SumFunctionOnSet(w, D \cup {b})
  BY <1>3, <1>4, SumIsTotal
<1>8. SumFunctionOnSet(w, D \cup {b}) = w[b] + SumFunctionOnSet(w, D)
  BY <1>3, <1>4, SumAdds
<1>9. SumFunctionOnSet(v, D) = SumFunctionOnSet(w, D) /\ SumFunctionOnSet(v, D) \in Int
  BY <1>4, <1>6, SumAgrees
<1>10. SumFunction(v) = SumFunction(w) - BlockBytes(mem[b]) /\ w[b] \in Int
  BY <1>3, <1>7, <1>8, <1>9
<1>11. Cardinality(DOMAIN held') = Cardinality(DOMAIN held) - 1
  BY <1>1, <1>3, FS_RemoveElement
<1> QED BY <1>2, <1>10, <1>11 DEF StatsExact, v, w

\* The critical section of an allocation keeps the statistics exact.
LEMMA AllocateCounts ==
    ASSUME ShapedInv, Shaped', WordsKept, StatsExact, NEW bytes \in AllocSizes,
           NEW direction \in {-1, 1}, Allocate(bytes, direction)
    PROVE  StatsExact'
<1>1. Shaped /\ mem_stat \in MemStat
  BY DEF ShapedInv, RestTyped
<1>2. CASE AllocNotFound(bytes, direction)
  BY <1>1, <1>2, SizeKept, SameCounts DEF AllocNotFound, DEV_HEAP_ALLOC_FAIL, MemStat
<1>3. CASE AllocSplit(bytes, direction) \/ AllocWhole(bytes, direction)
  <2>1. PICK b, new : Takes(b, new, Words(bytes), bytes)
    BY <1>3, AllocSplitStep, AllocWholeStep
  <2>2. Words(bytes) \in Int
    BY ArgumentsAssumption, WordsHold
  <2> QED BY <1>1, <2>1, <2>2, TakeCounts
<1> QED BY <1>2, <1>3 DEF Allocate

\* Every step keeps the statistics exact.
LEMMA NextCounts ==
    ASSUME ~ReAddAnyTime, LinksAreNoSizes, ShapedInv, StatsExact, [Next]_vars
    PROVE  StatsExact'
<1>1. Shaped /\ mem_stat \in MemStat /\ Shaped' /\ WordsKept
  BY NextKeeps DEF ShapedInv, RestTyped, Kept
<1> DEFINE Same == /\ held' = held
                   /\ mem_stat'.heap_sector_alloc_cnt = mem_stat.heap_sector_alloc_cnt
                   /\ mem_stat'.heap_sector_allocated_bytes = mem_stat.heap_sector_allocated_bytes
<1>2. ASSUME Same PROVE StatsExact'
  BY <1>1, <1>2, SizeKept, SameCounts
<1>3. ASSUME NEW r \in Regions, ns_mem_region_add(r) PROVE StatsExact'
  <2>1. Same
    BY <1>1, <1>3 DEF ns_mem_region_add, RegionTooSmall, RegionRefused, RegionAdded, MemStat
  <2> QED BY <1>2, <2>1
<1>4. ASSUME NEW t \in Thresholds, ns_mem_set_temporary_alloc_free_heap_threshold(t)
      PROVE  StatsExact'
  BY <1>2, <1>4 DEF ns_mem_set_temporary_alloc_free_heap_threshold
<1>5. ASSUME NEW bytes \in AllocSizes, NEW direction \in {-1, 1},
             ns_mem_internal_alloc(bytes, direction)
      PROVE  StatsExact'
  <2>1. CASE AllocRefused(bytes, direction)
    BY <1>1, <1>2, <2>1 DEF AllocRefused, DEV_HEAP_ALLOC_FAIL, MemStat
  <2> QED BY <1>1, <1>5, <2>1, AllocateCounts DEF ns_mem_internal_alloc
<1>6. ASSUME NEW b \in Freeable, ns_mem_free(b) PROVE StatsExact'
  <2>1. CASE FreeRefused(b)
    BY <1>2, <2>1 DEF FreeRefused
  <2>2. CASE FreeBlock(b)
    <3>1. b \in DOMAIN held
      BY <2>2, FreeBlockStep
    <3>2. held' = Returned(held, b) /\ DEV_HEAP_FREE(BlockBytes(mem[b]))
      BY <2>2 DEF FreeBlock, Returned
    <3> QED BY <1>1, <3>1, <3>2, FreeCounts
  <2> QED BY <1>6, <2>1, <2>2 DEF ns_mem_free
<1>7. CASE UNCHANGED vars
  BY <1>2, <1>7 DEF vars
<1> QED BY <1>3, <1>4, <1>5, <1>6, <1>7 DEF Next, ns_mem_alloc, ns_mem_temporary_alloc

\* Nothing is counted at the start.
LEMMA InitCounts == Init => StatsExact
<1> SUFFICES ASSUME Init PROVE StatsExact
  OBVIOUS
<1>1. /\ DOMAIN held = {} /\ mem_stat.heap_sector_alloc_cnt = 0
      /\ mem_stat.heap_sector_allocated_bytes = 0
  BY DEF Init, InitBook
<1>2. DOMAIN BytesInUse = {}
  BY <1>1 DEF BytesInUse
<1>3. SumFunction(BytesInUse) = 0
  BY <1>2, SumIsTotal, SumEmpty
<1> QED BY <1>1, <1>3, FS_EmptySet DEF StatsExact

\* mem_stat_t is exact: heap_sector_alloc_cnt is the number of blocks in use
\* and heap_sector_allocated_bytes the sum of their sizes with tags, after
\* any splits, merges, refused frees and failing calls.
THEOREM StatisticsExact ==
    ASSUME ~ReAddAnyTime, LinksAreNoSizes
    PROVE  Spec => []StatsExact
<1>1. IInv /\ StatsExact /\ [Next]_vars => StatsExact'
  BY NextCounts, IInvMeans DEF SameInv
<1> QED BY <1>1, InitCounts, Invariance, PTL DEF Spec

-----------------------------------------------------------------------------
(* The size of the heap *)

Used == {i \in Slots : heap_main[i] # 0}

\* The correction of a length leaves half a word at most.
LEMMA CorrectionLeaves ==
    ASSUME NEW r \in ByteRange, NEW words \in Nat
    PROVE  LET size == CorrectedSize(r) - words * WordSize
           IN  /\ (size \div WordSize) * WordSize <= size
               /\ size <= (size \div WordSize) * WordSize + WordSize \div 2
<1> DEFINE raw == r.size - (AlignedStart(r) * WordSize - r.ptr)
           odd == raw % 4
           size == CorrectedSize(r) - words * WordSize
<1>1. raw \in Int
  <2>1. r.size \in Nat /\ r.ptr \in Nat /\ AlignedStart(r) \in Nat
    BY RangeTypes DEF ByteRange
  <2> QED BY <2>1 DEF WordSize
<1>2. CorrectedSize(r) = IF odd = 0 THEN raw ELSE raw - (4 - odd)
  BY DEF CorrectedSize, WordSize
<1> HIDE DEF raw
<1>3. odd \in 0..3 /\ raw = 4 * (raw \div 4) + odd /\ raw \div 4 \in Int
  BY <1>1
<1>4. \E q \in Int : CorrectedSize(r) = 4 * q \/ CorrectedSize(r) = 4 * q + 2
  <2>1. CASE odd = 0
    BY <1>2, <1>3, <2>1
  <2>2. CASE odd = 1
    <3>1. CorrectedSize(r) = 4 * (raw \div 4 - 1) + 2
      BY <1>2, <1>3, <2>2
    <3> QED BY <1>3, <3>1
  <2>3. CASE odd = 2
    <3>1. CorrectedSize(r) = 4 * (raw \div 4)
      BY <1>2, <1>3, <2>3
    <3> QED BY <1>3, <3>1
  <2>4. CASE odd = 3
    <3>1. CorrectedSize(r) = 4 * (raw \div 4) + 2
      BY <1>2, <1>3, <2>4
    <3> QED BY <1>3, <3>1
  <2> HIDE DEF odd
  <2> QED BY <1>3, <2>1, <2>2, <2>3, <2>4
<1>5. PICK q \in Int : CorrectedSize(r) = 4 * q \/ CorrectedSize(r) = 4 * q + 2
  BY <1>4
<1>6. size = 4 * (q - words) \/ size = 4 * (q - words) + 2
  BY <1>5 DEF WordSize
<1> HIDE DEF size
<1>7. size \div 4 = q - words
  BY <1>6
<1> QED BY <1>6, <1>7 DEF WordSize, size

\* A step that changes neither the size, nor the slots, nor what the blocks
\* make up.
LEMMA SameSize ==
    ASSUME HeapSizeExact, BytesKept, UNCHANGED <<heap_main, heap_size>>,
           mem_stat'.heap_sector_size = mem_stat.heap_sector_size
    PROVE  HeapSizeExact'
<1>1. SumFunction(BlockSizes') = SumFunction(BlockSizes)
  BY DEF BytesKept, Covered, SizesOf, BlockSizes
<1> QED BY <1>1 DEF HeapSizeExact

\* A region adds its corrected bytes and a slot.
LEMMA GrownSizes ==
    ASSUME ShapedInv, HeapSizeExact, NEW r \in BigRegions, NEW k, Registers(r, k),
           heap_size' = GrownSize(r), mem_stat'.heap_sector_size = heap_size'
    PROVE  HeapSizeExact'
<1> DEFINE size == CorrectedSize(r)
           words == (size \div WordSize) * WordSize
<1>1. size \in Int /\ words \in Int /\ words <= size /\ size <= words + 2
  <2>1. r \in ByteRange
    BY ArgumentsAssumption DEF BigRegions
  <2>2. size \in Int
    BY <2>1, RangeTypes
  <2>3. 0 \in Nat /\ size - 0 * WordSize = size
    BY <2>2 DEF WordSize
  <2>4. words <= size /\ size <= words + WordSize \div 2
    <3> HIDE DEF size
    <3> QED BY <2>1, <2>3, CorrectionLeaves DEF size
  <2> HIDE DEF size
  <2> QED BY <2>2, <2>4 DEF WordSize
<1>2. /\ k \in Slots /\ heap_main[k] = 0 /\ AlignedStart(r) # 0
      /\ heap_main' = [heap_main EXCEPT ![k] = AlignedStart(r)]
      /\ Covered(mem', blocks') = Covered(mem, blocks) + words
  BY Addresses DEF Registers, Grows
<1>3. heap_main \in [Slots -> Addr \cup {0}] /\ Laid(mem, blocks, heap_main, heap_main_end)
  BY ShapeTyped DEF ShapedInv, ShapeTypes, Shaped, Shape
<1>4. Used' = Used \cup {k} /\ k \notin Used
  BY <1>2, <1>3 DEF Used
<1>5. Cardinality(Used') = Cardinality(Used) + 1 /\ Cardinality(Used) \in Nat
  <2>1. IsFiniteSet(Slots) /\ Used \subseteq Slots
    BY FS_Interval, SizesAssumption DEF Slots, Used
  <2>2. IsFiniteSet(Used)
    BY <2>1, FS_Subset
  <2> QED BY <1>4, <2>2, FS_AddElement, FS_CardinalityType
<1>6. Covered(mem, blocks) \in Int
  BY <1>3, SameCover, CoveredFacts
<1>7. /\ SumFunction(BlockSizes) = Covered(mem, blocks)
      /\ SumFunction(BlockSizes') = Covered(mem', blocks')
  BY DEF Covered, SizesOf, BlockSizes
<1>8. /\ SumFunction(BlockSizes) <= heap_size
      /\ heap_size <= SumFunction(BlockSizes) + 2 * Cardinality(Used)
      /\ heap_size \in Nat
  <2>1. WordSize \div 2 = 2
    BY DEF WordSize
  <2> QED BY <2>1 DEF HeapSizeExact, Used, ShapedInv, RestTyped
<1>9. heap_size' = heap_size + size
  BY DEF GrownSize
<1> HIDE DEF words, size
<1>10. /\ SumFunction(BlockSizes') <= heap_size'
       /\ heap_size' <= SumFunction(BlockSizes') + 2 * Cardinality(Used')
  BY <1>1, <1>2, <1>5, <1>6, <1>7, <1>8, <1>9
<1>11. WordSize \div 2 = 2
  BY DEF WordSize
<1> QED BY <1>10, <1>11 DEF HeapSizeExact, Used

\* Every step keeps the size exact.
LEMMA NextSizes ==
    ASSUME ~ReAddAnyTime, LinksAreNoSizes, ShapedInv, HeapSizeExact, [Next]_vars
    PROVE  HeapSizeExact'
<1>1. mem_stat \in MemStat
  BY DEF ShapedInv, RestTyped
<1>2. ASSUME UNCHANGED <<mem, blocks>> PROVE BytesKept
  BY <1>2 DEF BytesKept
<1>3. ASSUME NEW r \in Regions, ns_mem_region_add(r) PROVE HeapSizeExact'
  <2>1. CASE RegionTooSmall(r)
    BY <1>2, <2>1, SameSize DEF RegionTooSmall, regions
  <2>2. CASE RegionRefused(r)
    BY <2>2, RegionRefusedStep, SameSize DEF RegionRefused, regions
  <2>3. CASE RegionAdded(r)
    <3>1. r \in BigRegions /\ heap_size' = GrownSize(r)
      BY <2>3 DEF RegionAdded, BigRegions
    <3>2. mem_stat'.heap_sector_size = heap_size'
      BY <1>1, <2>3 DEF RegionAdded, MemStat
    <3>3. PICK k : Registers(r, k)
      BY <2>3, RegionAddedStep
    <3> QED BY <3>1, <3>2, <3>3, GrownSizes
  <2> QED BY <1>3, <2>1, <2>2, <2>3 DEF ns_mem_region_add
<1>4. ASSUME NEW t \in Thresholds, ns_mem_set_temporary_alloc_free_heap_threshold(t)
      PROVE  HeapSizeExact'
  BY <1>2, <1>4, SameSize DEF ns_mem_set_temporary_alloc_free_heap_threshold, regions
<1>5. ASSUME NEW bytes \in AllocSizes, NEW direction \in {-1, 1},
             ns_mem_internal_alloc(bytes, direction)
      PROVE  HeapSizeExact'
  <2>1. CASE AllocRefused(bytes, direction) \/ AllocNotFound(bytes, direction)
    <3>1. /\ UNCHANGED <<mem, blocks, heap_main, heap_size>>
          /\ mem_stat'.heap_sector_size = mem_stat.heap_sector_size
      BY <1>1, <2>1 DEF AllocRefused, AllocNotFound, DEV_HEAP_ALLOC_FAIL, MemStat, regions
    <3> QED BY <1>2, <3>1, SameSize
  <2>2. CASE AllocSplit(bytes, direction) \/ AllocWhole(bytes, direction)
    <3>1. BytesKept
      BY <2>2, AllocSplitStep, AllocWholeStep
    <3>2. \E b, data : HandOut(b, data, bytes, direction)
      BY <2>2 DEF AllocSplit, AllocWhole
    <3>3. /\ UNCHANGED <<heap_main, heap_size>>
          /\ mem_stat'.heap_sector_size = mem_stat.heap_sector_size
      BY <1>1, <3>2 DEF HandOut, DEV_HEAP_ALLOC_OK, MemStat, regions
    <3> QED BY <3>1, <3>3, SameSize
  <2> QED BY <1>5, <2>1, <2>2 DEF ns_mem_internal_alloc, Allocate
<1>6. ASSUME NEW b \in Freeable, ns_mem_free(b) PROVE HeapSizeExact'
  <2>1. CASE FreeRefused(b)
    BY <1>2, <2>1, SameSize DEF FreeRefused, regions
  <2>2. CASE FreeBlock(b)
    <3>1. BytesKept
      BY <2>2, FreeBlockStep
    <3>2. /\ UNCHANGED <<heap_main, heap_size>>
          /\ mem_stat'.heap_sector_size = mem_stat.heap_sector_size
      BY <1>1, <2>2 DEF FreeBlock, DEV_HEAP_FREE, MemStat, regions
    <3> QED BY <3>1, <3>2, SameSize
  <2> QED BY <1>6, <2>1, <2>2 DEF ns_mem_free
<1>7. CASE UNCHANGED vars
  BY <1>2, <1>7, SameSize DEF vars, regions
<1> QED BY <1>3, <1>4, <1>5, <1>6, <1>7 DEF Next, ns_mem_alloc, ns_mem_temporary_alloc

\* ns_mem_init counts what it hands to the first hole.
LEMMA InitSizes == Init => HeapSizeExact
<1> SUFFICES ASSUME Init PROVE HeapSizeExact
  OBVIOUS
<1>1. PICK h \in Heaps : InitBook(h)
  BY DEF Init
<1> DEFINE start == HeapStart(h)
           size == HeapBytes(h)
           data == DataWords(size)
           words == (size \div WordSize) * WordSize
<1>2. /\ start \in Addr /\ start # 0 /\ size \in Nat /\ data \in Nat
  BY ArgumentFacts, UsableFacts, Addresses
<1>3. /\ heap_main = [i \in Slots |-> IF i = 0 THEN start ELSE 0]
      /\ heap_size = size /\ mem_stat.heap_sector_size = size /\ blocks = {start}
      /\ heap_main_end = [i \in Slots |-> IF i = 0 THEN start + data + 1 ELSE 0]
  BY <1>1 DEF InitBook
<1>4. Laid(mem, blocks, heap_main, heap_main_end)
  <2>1. ShapedInv
    BY InitIInv, IInvMeans DEF SameInv
  <2> QED BY <2>1 DEF ShapedInv, Shaped, Shape
<1>5. BlockEnd(mem, start) = start + data + 1
  <2>1. 0 \in Slots /\ start \in blocks
    BY <1>3, SizesAssumption DEF Slots
  <2>2. \E i \in Slots : Within(heap_main, heap_main_end, i, start)
    BY <1>4, <2>1, BlockInRegion
  <2>3. Within(heap_main, heap_main_end, 0, start)
    BY <1>2, <1>3, <2>1, <2>2 DEF Within
  <2>4. /\ BlockEnd(mem, start) <= heap_main_end[0]
        /\ BlockEnd(mem, start) # heap_main_end[0] => BlockEnd(mem, start) + 1 \in blocks
    BY <1>4, <2>1, <2>3, BlockInRegion
  <2>5. start + 2 <= BlockEnd(mem, start) /\ BlockEnd(mem, start) \in Int /\ start \in Int
    BY <1>4, <2>1, BlockFacts
  <2>6. heap_main_end[0] = start + data + 1
    BY <1>3, <2>1
  <2> QED BY <1>3, <2>4, <2>5, <2>6
<1>6. Covered(mem, blocks) = words
  <2> DEFINE w == SizesOf(mem, blocks)
  <2>1. /\ Covered(mem, blocks) = SumFunctionOnSet(w, {start})
        /\ w[start] = (BlockEnd(mem, start) - start + 1) * WordSize /\ w[start] \in Int
    BY <1>3, <1>4, CoveredFacts
  <2> HIDE DEF w
  <2>2. {} \cup {start} = {start} /\ IsFiniteSet({}) /\ start \notin {}
    BY FS_EmptySet
  <2>3. SumFunctionOnSet(w, {} \cup {start}) = w[start] + SumFunctionOnSet(w, {})
    BY <2>1, <2>2, SumAdds
  <2>4. SumFunctionOnSet(w, {start}) = w[start]
    BY <2>1, <2>2, <2>3, SumEmpty
  <2>5. start \in Int /\ size \div 4 \in Int /\ data = (size \div 4) - 2
    BY <1>2, Addresses DEF data, DataWords, WordSize
  <2>6. BlockEnd(mem, start) - start + 1 = size \div WordSize
    <3> HIDE DEF start, data, size
    <3> QED BY <1>5, <2>5 DEF WordSize
  <2> QED BY <2>1, <2>4, <2>6
<1>7. words <= size /\ size <= words + 2 /\ words \in Int
  <2>1. h \in ByteRange /\ BookWords \in Nat
    BY ArgumentsAssumption, SizesAssumption
  <2>2. size = CorrectedSize(h) - BookWords * WordSize
    BY DEF HeapBytes
  <2>3. words <= size /\ size <= words + WordSize \div 2
    <3> HIDE DEF size
    <3> QED BY <2>1, <2>2, CorrectionLeaves
  <2> HIDE DEF size
  <2> QED BY <1>2, <2>3 DEF WordSize
<1>8. Cardinality({i \in Slots : heap_main[i] # 0}) = 1
  <2>1. {i \in Slots : heap_main[i] # 0} = {0}
    BY <1>2, <1>3, SizesAssumption DEF Slots
  <2> QED BY <2>1, FS_Singleton
<1>9. SumFunction(BlockSizes) = words
  BY <1>6 DEF Covered, SizesOf, BlockSizes
<1>10. (WordSize \div 2) * 1 = 2
  BY DEF WordSize
<1> HIDE DEF words, size
<1> QED BY <1>3, <1>7, <1>8, <1>9, <1>10 DEF HeapSizeExact

\* heap_size is what the blocks of all regions make up, but for the half
\* word that a length correction can leave: no split, merge or added region
\* loses a byte or counts one twice (nsdynmemLIB.c:156, 204, 240).
THEOREM SizeIsTrue ==
    ASSUME ~ReAddAnyTime, LinksAreNoSizes
    PROVE  Spec => []HeapSizeExact
<1>1. IInv /\ HeapSizeExact /\ [Next]_vars => HeapSizeExact'
  BY NextSizes, IInvMeans DEF SameInv
<1> QED BY <1>1, InitSizes, Invariance, PTL DEF Spec

-----------------------------------------------------------------------------
(* The words of the holders *)

\* No call writes a word of a block that a client holds before and after it.
THEOREM HoldersUndisturbed ==
    ASSUME ~ReAddAnyTime, LinksAreNoSizes
    PROVE  Spec => HeldWordsUntouched
<1>1. IInv /\ [Next]_vars => WordsKept
  BY NextKeeps, IInvMeans DEF SameInv, Kept
<1>2. WordsKept => [\A b \in DOMAIN held \cap DOMAIN held' :
                       \A a \in b..LastWord(b) : mem'[a] = mem[a]]_vars
  BY DEF WordsKept
<1> QED BY <1>1, <1>2, Invariance, PTL DEF Spec, HeldWordsUntouched
-----------------------------------------------------------------------------
(* The abstract heap *)

\* A word belongs to the heap when a region has it.
LEMMA AreaMeans ==
    ASSUME NEW a
    PROVE  a \in Area <=> \E i \in Slots : heap_main[i] # 0 /\ a \in heap_main[i]..heap_main_end[i]
BY DEF Area

\* The runs taken are the data words of the holders' blocks.
TakenIs ==
    Shaped => /\ DOMAIN Taken = {b + 1 : b \in DOMAIN held}
              /\ \A b \in DOMAIN held : Taken[b + 1] = (b + 1)..(b + mem[b])

\* They are.
LEMMA TakenMeans == TakenIs
<1> SUFFICES ASSUME Shaped
             PROVE  /\ DOMAIN Taken = {b + 1 : b \in DOMAIN held}
                    /\ \A b \in DOMAIN held : Taken[b + 1] = (b + 1)..(b + mem[b])
  BY DEF TakenIs
<1>1. DOMAIN Taken = {b + 1 : b \in DOMAIN held}
  BY DEF Taken
<1>2. ASSUME NEW b \in DOMAIN held PROVE Taken[b + 1] = (b + 1)..(b + mem[b])
  <2>1. b \in Int
    BY ShapeTyped, Addresses DEF ShapeTypes
  <2>2. (b + 1) - 1 = b
    BY <2>1
  <2>3. b + 1 \in DOMAIN Taken
    BY <1>1
  <2> QED BY <2>2, <2>3 DEF Taken
<1> QED BY <1>1, <1>2

\* The regions decide the words of the heap.
LEMMA AreaKept ==
    ASSUME UNCHANGED <<heap_main, heap_main_end>>
    PROVE  Area' = Area
BY DEF Area

\* The holders and the sizes of their blocks decide the runs.
LEMMA TakenSame ==
    ASSUME \A b \in DOMAIN held : b \in Int /\ mem'[b] = mem[b], held' = held
    PROVE  Taken' = Taken
<1> DEFINE D == {b + 1 : b \in DOMAIN held}
<1>1. \A p \in D : mem'[p - 1] = mem[p - 1]
  <2> SUFFICES ASSUME NEW b \in DOMAIN held PROVE mem'[(b + 1) - 1] = mem[(b + 1) - 1]
    OBVIOUS
  <2>1. (b + 1) - 1 = b
    OBVIOUS
  <2> QED BY <2>1
<1>2. Taken = [p \in D |-> p..(p - 1 + mem[p - 1])]
  BY DEF Taken
<1>3. Taken' = [p \in D |-> p..(p - 1 + mem'[p - 1])]
  BY DEF Taken
<1> QED BY <1>1, <1>2, <1>3

\* A step that keeps the holders and their words keeps the runs.
LEMMA TakenKept ==
    ASSUME Shaped, WordsKept, held' = held
    PROVE  Taken' = Taken
<1>1. \A b \in DOMAIN held : b \in Int
  BY ShapeTyped, Addresses DEF ShapeTypes
<1>2. \A b \in DOMAIN held : mem'[b] = mem[b]
  BY SizeKept
<1> QED BY <1>1, <1>2, TakenSame

\* A step that leaves regions and holders alone is a stutter.
LEMMA QuietRefines ==
    ASSUME Shaped, WordsKept, UNCHANGED <<heap_main, heap_main_end, held>>
    PROVE  UNCHANGED Promise!heapVars
BY AreaKept, TakenKept DEF Promise!heapVars

\* A region that is added is new words.
LEMMA GrowRefines ==
    ASSUME Shaped, WordsKept, NEW k, NEW lo, NEW hi, Grows(k, lo, hi)
    PROVE  Promise!Grow
<1>1. /\ k \in Slots /\ heap_main[k] = 0
      /\ lo \in Addr /\ hi \in Addr /\ lo <= hi /\ lo \in Int /\ hi \in Int /\ lo # 0
      /\ heap_main' = [heap_main EXCEPT ![k] = lo]
      /\ heap_main_end' = [heap_main_end EXCEPT ![k] = hi]
      /\ held' = held
  BY Addresses DEF Grows
<1>2. /\ heap_main \in [Slots -> Addr \cup {0}]
      /\ heap_main_end \in [Slots -> Addr \cup {0}]
  BY ShapeTyped DEF ShapeTypes
<1>3. /\ heap_main'[k] = lo /\ heap_main_end'[k] = hi
      /\ \A i \in Slots : i # k => heap_main'[i] = heap_main[i] /\ heap_main_end'[i] = heap_main_end[i]
  BY <1>1, <1>2
<1>4. Area' = Area \cup lo..hi
  <2>1. \A a : a \in Area' <=>
           \E i \in Slots : heap_main'[i] # 0 /\ a \in heap_main'[i]..heap_main_end'[i]
    BY DEF Area
  <2>2. ASSUME NEW a \in Area' PROVE a \in Area \cup lo..hi
    BY <1>1, <1>3, <2>1, <2>2, AreaMeans
  <2>3. ASSUME NEW a \in lo..hi PROVE a \in Area'
    BY <1>1, <1>3, <2>1
  <2>4. ASSUME NEW a \in Area PROVE a \in Area'
    <3>1. PICK i \in Slots : heap_main[i] # 0 /\ a \in heap_main[i]..heap_main_end[i]
      BY AreaMeans
    <3>2. i # k
      BY <1>1, <3>1
    <3> QED BY <1>3, <2>1, <3>1, <3>2
  <2> QED BY <2>2, <2>3, <2>4
<1>5. lo..hi \cap Area = {}
  <2> SUFFICES ASSUME NEW a \in lo..hi, a \in Area PROVE FALSE
    OBVIOUS
  <2>1. PICK i \in Slots : heap_main[i] # 0 /\ a \in heap_main[i]..heap_main_end[i]
    BY AreaMeans
  <2>2. heap_main_end[i] < lo \/ hi < heap_main[i]
    BY <2>1 DEF Grows, NoRegionHas
  <2>3. heap_main[i] \in Int /\ heap_main_end[i] \in Int
    BY <1>2, Addresses
  <2> QED BY <1>1, <2>1, <2>2, <2>3
<1>6. lo \in lo..hi /\ hi \in lo..hi
  BY <1>1
<1>7. Taken' = Taken
  BY <1>1, TakenKept
<1> QED BY <1>4, <1>5, <1>6, <1>7 DEF Promise!Grow

\* The words of a free block are heap, and nobody's.
LEMMA FreeWords ==
    ASSUME Shaped, NEW b \in blocks, mem[b] < 0,
           NEW a \in Int, b <= a, a <= BlockEnd(mem, b)
    PROVE  a \in Area \ Promise!InUse
<1>1. Laid(mem, blocks, heap_main, heap_main_end)
  BY DEF Shaped, Shape
<1>2. /\ b \in Int /\ mem[b] \in Int /\ BlockEnd(mem, b) \in Int
      /\ \A c \in blocks : c > b => c > BlockEnd(mem, b)
  BY <1>1, BlockFacts
<1>3. a \in Area
  <2>1. PICK i \in Slots : Within(heap_main, heap_main_end, i, b)
    BY <1>1, BlockInRegion
  <2>2. BlockEnd(mem, b) <= heap_main_end[i]
    BY <1>1, <2>1, BlockInRegion
  <2>3. heap_main[i] \in Int /\ heap_main_end[i] \in Int
    BY <1>1, LaidTypes
  <2>4. heap_main[i] # 0 /\ a \in heap_main[i]..heap_main_end[i]
    BY <1>2, <2>1, <2>2, <2>3 DEF Within
  <2> QED BY <2>4, AreaMeans
<1>4. a \notin Promise!InUse
  <2> SUFFICES ASSUME NEW k \in DOMAIN Taken, a \in Taken[k] PROVE FALSE
    BY DEF Promise!InUse
  <2>1. PICK x \in DOMAIN held : k = x + 1 /\ Taken[k] = (x + 1)..(x + mem[x])
    BY TakenMeans DEF TakenIs
  <2>2. x \in blocks /\ mem[x] > 0 /\ mem[x] \in Int
    BY HolderBlocks DEF HeldAreBlocks
  <2>3. x \in Int /\ BlockEnd(mem, x) = x + mem[x] + 1 /\ (b > x => b > BlockEnd(mem, x))
    BY <1>1, <2>2, BlockFacts
  <2>4. x + 1 <= a /\ a <= x + mem[x]
    BY <2>1, <2>2, <2>3
  <2>5. x # b
    BY <1>2, <2>2
  <2>6. CASE x < b
    BY <1>2, <2>2, <2>3, <2>4, <2>6
  <2>7. CASE x > b
    BY <1>2, <2>2, <2>3, <2>4, <2>7
  <2> QED BY <1>2, <2>3, <2>5, <2>6, <2>7
<1> QED BY <1>3, <1>4

\* An allocation that succeeds takes a run of free words.
LEMMA TakeRefines ==
    ASSUME Shaped, Shaped', WordsKept, NEW b, NEW new, NEW words \in Int, NEW bytes,
           Takes(b, new, words, bytes)
    PROVE  Promise!Take(words)
<1>1. /\ b \in blocks /\ mem[b] < 0 /\ new \in Int /\ b <= new
      /\ mem'[new] \in Int /\ words > 0 /\ mem'[new] >= words
      /\ new + mem'[new] + 1 <= BlockEnd(mem, b)
      /\ held' = Given(held, new, bytes)
      /\ UNCHANGED <<heap_main, heap_main_end>>
  BY DEF Takes
<1>2. /\ b \in Int /\ BlockEnd(mem, b) \in Int /\ mem[b] \in Int
      /\ \A c \in blocks : c > b => c > BlockEnd(mem, b)
  BY <1>1, BlockFacts DEF Shaped, Shape
<1>3. Area' = Area
  BY <1>1, AreaKept
<1> DEFINE lo == new + 1
           hi == new + mem'[new]
<1>4. new \notin DOMAIN held /\ DOMAIN held' = DOMAIN held \cup {new}
  BY NewBlock
<1>6. /\ DOMAIN Taken = {x + 1 : x \in DOMAIN held}
      /\ \A x \in DOMAIN held : Taken[x + 1] = (x + 1)..(x + mem[x])
  BY TakenMeans DEF TakenIs
<1>7. /\ DOMAIN Taken' = {x + 1 : x \in DOMAIN held'}
      /\ \A x \in DOMAIN held' : Taken'[x + 1] = (x + 1)..(x + mem'[x])
  <2>1. TakenIs'
    BY TakenMeans, PTL
  <2> QED BY <2>1 DEF TakenIs
<1>8. \A x \in DOMAIN held : x \in Int
  BY ShapeTyped, Addresses DEF ShapeTypes
<1>9. lo \notin DOMAIN Taken
  <2> SUFFICES ASSUME NEW x \in DOMAIN held, new + 1 = x + 1 PROVE FALSE
    BY <1>6
  <2>1. new = x
    BY <1>1, <1>8
  <2> QED BY <1>4, <2>1
<1>10. DOMAIN Taken' = DOMAIN Taken \cup {lo}
  BY <1>4, <1>6, <1>7
<1>11. \A k \in DOMAIN Taken : Taken'[k] = Taken[k]
  <2> SUFFICES ASSUME NEW x \in DOMAIN held PROVE Taken'[x + 1] = Taken[x + 1]
    BY <1>6
  <2>1. mem'[x] = mem[x]
    BY <1>4, SizeKept
  <2> QED BY <1>4, <1>6, <1>7, <2>1
<1>12. Taken'[lo] = lo..hi
  BY <1>4, <1>7
<1>13. lo \in Int /\ hi \in Int /\ hi - lo + 1 >= words /\ lo <= hi
  BY <1>1
<1>14. \A a \in lo..hi : a \in Area \ Promise!InUse
  <2> SUFFICES ASSUME NEW a \in lo..hi PROVE a \in Area \ Promise!InUse
    OBVIOUS
  <2>1. a \in Int /\ b <= a /\ a <= BlockEnd(mem, b)
    BY <1>1, <1>2, <1>13
  <2> QED BY <1>1, <2>1, FreeWords
<1>15. hi \in Area
  BY <1>13, <1>14
<1> HIDE DEF lo, hi
<1>16. /\ lo \in DOMAIN Taken' \ DOMAIN Taken
       /\ \E h \in Area : /\ h - lo + 1 >= words
                          /\ lo..h \subseteq Area \ Promise!InUse
                          /\ Taken'[lo] = lo..h
  BY <1>9, <1>10, <1>12, <1>13, <1>14, <1>15
<1> QED BY <1>1, <1>3, <1>10, <1>11, <1>16 DEF Promise!Take

\* A free gives a run back.
LEMMA GiveBackRefines ==
    ASSUME Shaped, Shaped', WordsKept, NEW b \in DOMAIN held,
           held' = Returned(held, b), UNCHANGED <<heap_main, heap_main_end>>
    PROVE  b + 1 \in DOMAIN Taken /\ Promise!GiveBack(b + 1)
<1>1. DOMAIN held' = DOMAIN held \ {b}
  BY DEF Returned
<1>2. /\ DOMAIN Taken = {x + 1 : x \in DOMAIN held}
      /\ \A x \in DOMAIN held : Taken[x + 1] = (x + 1)..(x + mem[x])
  BY TakenMeans DEF TakenIs
<1>3. /\ DOMAIN Taken' = {x + 1 : x \in DOMAIN held'}
      /\ \A x \in DOMAIN held' : Taken'[x + 1] = (x + 1)..(x + mem'[x])
  <2>1. TakenIs'
    BY TakenMeans, PTL
  <2> QED BY <2>1 DEF TakenIs
<1>4. \A x \in DOMAIN held : x \in Int
  BY ShapeTyped, Addresses DEF ShapeTypes
<1>5. DOMAIN Taken' = DOMAIN Taken \ {b + 1}
  <2>1. \A x \in DOMAIN held : x + 1 = b + 1 <=> x = b
    BY <1>4
  <2> QED BY <1>1, <1>2, <1>3, <2>1
<1>6. \A k \in DOMAIN Taken' : Taken'[k] = Taken[k]
  <2> SUFFICES ASSUME NEW x \in DOMAIN held' PROVE Taken'[x + 1] = Taken[x + 1]
    BY <1>3
  <2>1. x \in DOMAIN held /\ mem'[x] = mem[x]
    BY <1>1, SizeKept
  <2> QED BY <1>2, <1>3, <2>1
<1>7. Taken' = [k \in DOMAIN Taken \ {b + 1} |-> Taken[k]]
  <2>1. Taken' = [k \in DOMAIN Taken' |-> Taken'[k]]
    BY DEF Taken
  <2> QED BY <1>5, <1>6, <2>1
<1>8. Area' = Area
  BY AreaKept
<1> QED BY <1>2, <1>7, <1>8 DEF Promise!GiveBack

\* The critical section of an allocation takes a run or nothing.
LEMMA AllocateRefines ==
    ASSUME ShapedInv, Shaped', WordsKept, NEW bytes \in AllocSizes,
           NEW direction \in {-1, 1}, Allocate(bytes, direction)
    PROVE  Promise!Take(Words(bytes)) \/ UNCHANGED Promise!heapVars
<1>1. Shaped
  BY DEF ShapedInv
<1>2. CASE AllocNotFound(bytes, direction)
  BY <1>1, <1>2, QuietRefines DEF AllocNotFound, regions
<1>3. CASE AllocSplit(bytes, direction) \/ AllocWhole(bytes, direction)
  <2>1. PICK b, new : Takes(b, new, Words(bytes), bytes)
    BY <1>3, AllocSplitStep, AllocWholeStep
  <2>2. Words(bytes) \in Int
    BY ArgumentsAssumption, WordsHold
  <2> QED BY <1>1, <2>1, <2>2, TakeRefines
<1> QED BY <1>2, <1>3 DEF Allocate

\* Every step of the allocator is one of the abstract heap, or a stutter.
LEMMA NextRefines ==
    ASSUME ~ReAddAnyTime, LinksAreNoSizes, ShapedInv, [Next]_vars
    PROVE  [Promise!HeapNext]_(Promise!heapVars)
<1>1. Shaped /\ Shaped' /\ WordsKept
  BY NextKeeps DEF Kept, ShapedInv
<1>2. ASSUME NEW r \in Regions, ns_mem_region_add(r)
      PROVE  Promise!Grow \/ UNCHANGED Promise!heapVars
  <2>1. CASE RegionTooSmall(r)
    BY <1>1, <2>1, QuietRefines DEF RegionTooSmall, regions
  <2>2. CASE RegionRefused(r)
    BY <1>1, <2>2, QuietRefines DEF RegionRefused, regions
  <2>3. CASE RegionAdded(r)
    <3>1. PICK k : Registers(r, k)
      BY <2>3, RegionAddedStep
    <3>2. \E lo, hi : Grows(k, lo, hi)
      BY <3>1 DEF Registers
    <3> QED BY <1>1, <3>2, GrowRefines
  <2> QED BY <1>2, <2>1, <2>2, <2>3 DEF ns_mem_region_add
<1>3. ASSUME NEW t \in Thresholds, ns_mem_set_temporary_alloc_free_heap_threshold(t)
      PROVE  UNCHANGED Promise!heapVars
  BY <1>1, <1>3, QuietRefines DEF ns_mem_set_temporary_alloc_free_heap_threshold, regions
<1>4. ASSUME NEW bytes \in AllocSizes, NEW direction \in {-1, 1},
             ns_mem_internal_alloc(bytes, direction)
      PROVE  Promise!Take(Words(bytes)) \/ UNCHANGED Promise!heapVars
  <2>1. CASE AllocRefused(bytes, direction)
    BY <1>1, <2>1, QuietRefines DEF AllocRefused, regions
  <2> QED BY <1>1, <1>4, <2>1, AllocateRefines DEF ns_mem_internal_alloc
<1>5. ASSUME NEW b \in Freeable, ns_mem_free(b)
      PROVE  (\E k \in DOMAIN Taken : Promise!GiveBack(k)) \/ UNCHANGED Promise!heapVars
  <2>1. CASE FreeRefused(b)
    BY <1>1, <2>1, QuietRefines DEF FreeRefused, regions
  <2>2. CASE FreeBlock(b)
    <3>1. b \in DOMAIN held
      BY <2>2, FreeBlockStep
    <3>2. held' = Returned(held, b) /\ UNCHANGED <<heap_main, heap_main_end>>
      BY <2>2 DEF FreeBlock, Returned, regions
    <3> QED BY <1>1, <3>1, <3>2, GiveBackRefines
  <2> QED BY <1>5, <2>1, <2>2 DEF ns_mem_free
<1>6. CASE UNCHANGED vars
  BY <1>1, <1>6, QuietRefines DEF vars, regions
<1>7. ASSUME NEW bytes \in AllocSizes, Promise!Take(Words(bytes))
      PROVE  Promise!HeapNext
  BY <1>7 DEF Promise!HeapNext
<1> QED BY <1>2, <1>3, <1>4, <1>5, <1>6, <1>7
        DEF Next, ns_mem_alloc, ns_mem_temporary_alloc, Promise!HeapNext

\* The heap after ns_mem_init is one the abstract heap starts from.
LEMMA InitRefines == Init => Promise!HeapInit
<1> SUFFICES ASSUME Init PROVE Promise!HeapInit
  OBVIOUS
<1>1. PICK h \in Heaps : InitBook(h)
  BY DEF Init
<1> DEFINE lo == HeapStart(h)
           hi == lo + DataWords(HeapBytes(h)) + 1
<1>2. lo \in Addr /\ hi \in Addr /\ lo # 0
  BY ArgumentFacts, UsableFacts, Addresses
<1>3. /\ heap_main = [i \in Slots |-> IF i = 0 THEN lo ELSE 0]
      /\ heap_main_end = [i \in Slots |-> IF i = 0 THEN hi ELSE 0]
  BY <1>1 DEF InitBook
<1>4. 0 \in Slots
  BY SizesAssumption DEF Slots
<1> HIDE DEF lo, hi
<1>5. Area = lo..hi
  <2>1. {j \in Slots : heap_main[j] # 0} = {0}
    BY <1>2, <1>3, <1>4
  <2>2. Area = UNION {heap_main[i]..heap_main_end[i] : i \in {0}}
    BY <2>1 DEF Area
  <2>3. heap_main[0] = lo /\ heap_main_end[0] = hi
    BY <1>3, <1>4
  <2> QED BY <2>2, <2>3
<1>6. Taken = << >>
  <2>1. held = << >>
    BY DEF Init
  <2>2. {b + 1 : b \in DOMAIN held} = {}
    BY <2>1
  <2> QED BY <2>2 DEF Taken
<1> QED BY <1>2, <1>5, <1>6 DEF Promise!HeapInit

\* The allocator keeps what nsdynmemLIB.h promises its clients, whatever the
\* sizes of memory, regions and requests and whatever the order of the calls:
\* it implements AbstractHeap.
THEOREM HeapRefines ==
    ASSUME ~ReAddAnyTime, LinksAreNoSizes
    PROVE  Spec => ImplementsHeap
<1>1. IInv /\ [Next]_vars => [Promise!HeapNext]_(Promise!heapVars)
  BY NextRefines, IInvMeans DEF SameInv
<1> QED BY <1>1, InitRefines, Invariance, PTL DEF Spec, ImplementsHeap, Promise!HeapSpec
=============================================================================
