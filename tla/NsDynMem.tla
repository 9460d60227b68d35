------------------------------ MODULE NsDynMem ------------------------------
(***************************************************************************)
(* The heap of source/nsdynmemLIB/nsdynmemLIB.c: one book, REGION_COUNT     *)
(* regions, boundary tags around every block and an address-ordered list   *)
(* of the free blocks that are large enough to hold a hole_t.              *)
(*                                                                         *)
(* Memory is a function from word addresses to integers; byte address a is *)
(* word a \div WordSize, and 0 is NULL.  A block with n data words starting *)
(* at b is  | n | data (n words) | n |  at b .. b+n+1; -n marks it free.    *)
(* What the allocator never interprets as a tag is one opaque word each:   *)
(* DataWord for a client's data, LinkWord for the links inside a hole_t.   *)
(* Tags and data that a merge leaves behind stay in memory, as in the code.*)
(*                                                                         *)
(* ns_mem_internal_alloc and ns_mem_free hold the platform's critical      *)
(* section for everything modelled here except the limit check of a        *)
(* temporary allocation, so each call is one step.  NsDynMemIrq takes that *)
(* check and ns_mem_region_add apart.                                      *)
(*                                                                         *)
(* An operator X_Suffix before an operator X is a faulty variant of X, the *)
(* way a slip in the code would change it; no action uses it.              *)
(***************************************************************************)
EXTENDS Integers, SequencesExt

CONSTANTS
    MemWords,       \* words of memory that heaps and regions lie in
    HOLE_T_SIZE,    \* words of a hole_t (two list links)
    REGION_COUNT,   \* slots in heap_main / heap_main_end
    BookWords,      \* words of ns_mem_book_t, at the start of the heap
    DataWord,       \* a word of client data
    LinkWord,       \* a word of a list link
    UInt32,         \* modulus of the two uint32_t counters of mem_stat_t
    Heaps,          \* heap arguments of ns_mem_init, [ptr, size] in bytes
    Regions,        \* region arguments of ns_mem_region_add, in bytes
    AllocSizes,     \* requested sizes, in bytes
    Thresholds,     \* [percentage, amount] arguments of the threshold call
    Foreign,        \* word addresses outside every region
    ReAddAnyTime    \* may a client re-add a region that is in use?

Addr == 1..MemWords
WordSize == 4
ByteRange == [ptr : Nat, size : Nat]

ASSUME SizesAssumption ==
    /\ MemWords \in Nat \ {0}
    /\ HOLE_T_SIZE \in Nat \ {0}
    /\ REGION_COUNT \in Nat \ {0}
    /\ BookWords \in Nat
    /\ DataWord \in Int
    /\ LinkWord \in Int
    /\ UInt32 \in Nat \ {0}

ASSUME ArgumentsAssumption ==
    /\ Heaps \subseteq ByteRange
    /\ Regions \subseteq ByteRange
    /\ AllocSizes \subseteq Nat
    /\ Thresholds \subseteq [percentage : Nat, amount : Nat]
    /\ Foreign \subseteq Addr
    /\ ReAddAnyTime \in BOOLEAN

HeapFail == {"NS_DYN_MEM_DOUBLE_FREE", "NS_DYN_MEM_ALLOCATE_SIZE_NOT_VALID",
             "NS_DYN_MEM_POINTER_NOT_VALID", "NS_DYN_MEM_HEAP_SECTOR_CORRUPTED"}

Calls == {"init", "region_add", "threshold", "alloc", "temporary_alloc", "free"}

VARIABLES
    mem,                         \* the words of memory
    heap_main,                   \* first word of each region, 0 = free slot
    heap_main_end,               \* last word of each region
    holes_list,                  \* block starts of the listed holes
    heap_size,                   \* bytes
    temporary_alloc_heap_limit,  \* bytes
    mem_stat,                    \* mem_stat_t
    blocks,   \* auxiliary: the starts of all blocks, free and allocated
    held,     \* the clients' blocks: block start -> bytes requested
    threshold,  \* auxiliary: the free-heap threshold in force
    freed,    \* blocks freed since the last successful allocation
    last      \* the last call: its return code and heap_failure reports

regions == <<heap_main, heap_main_end, heap_size>>
limits == <<temporary_alloc_heap_limit, threshold>>
vars == <<mem, regions, holes_list, limits, mem_stat, blocks, held, freed, last>>

Slots == 0..(REGION_COUNT - 1)

MemStat == [heap_sector_size : Int,
            heap_sector_alloc_cnt : Int,
            heap_sector_allocated_bytes : Int,
            heap_sector_allocated_bytes_max : Int,
            heap_alloc_total_bytes : 0..(UInt32 - 1),
            heap_alloc_fail_cnt : 0..(UInt32 - 1)]

-----------------------------------------------------------------------------
(* Words and tags *)

AbsInt(i) == IF i < 0 THEN -i ELSE i

\* Both tags of the block at b whose tag is n.
WriteTags(m, b, n) == [m EXCEPT ![b] = n, ![b + AbsInt(n) + 1] = n]

Fill(m, from, to, word) == [a \in Addr |-> IF a \in from..to THEN word ELSE m[a]]

\* Writing the hole_t of the block at b, when it enters holes_list.
WriteHole(m, b) == Fill(m, b + 1, b + HOLE_T_SIZE, LinkWord)

\* The holder of the block at b with n data words writes its data.
WriteData(m, b, n) == Fill(m, b + 1, b + n, DataWord)

LastWord(b) == b + AbsInt(mem[b]) + 1

ns_mem_block_validate(b) ==
    /\ mem[b] # 0
    /\ LastWord(b) \in Addr
    /\ mem[b] = mem[LastWord(b)]

InRegion_OneShort(i, b, size) ==
    /\ heap_main[i] # 0
    /\ b >= heap_main[i]
    /\ b + size + 1 < heap_main_end[i]

InRegion(i, b, size) ==
    /\ heap_main[i] # 0
    /\ b >= heap_main[i]
    /\ b < heap_main_end[i]
    /\ b + size < heap_main_end[i]

\* Region index of a block, -1 when there is none.
ns_dyn_mem_region_find(b, size) ==
    LET in == {i \in Slots : InRegion(i, b, size)}
    IN  IF in = {} THEN -1 ELSE Min(in)

-----------------------------------------------------------------------------
(* Byte ranges handed to ns_mem_init and ns_mem_region_add *)

\* The aligned start, as a word address.
AlignedStart(r) == (r.ptr + WordSize - 1) \div WordSize

\* The bytes left after the start was aligned and the length corrected.
\* The correction subtracts WordSize - (size % WordSize), which need not
\* leave a multiple of WordSize.
CorrectedSize(r) ==
    LET size == r.size - (AlignedStart(r) * WordSize - r.ptr)
        odd  == size % WordSize
    IN  IF odd = 0 THEN size ELSE size - (WordSize - odd)

DataWords(bytes) == (bytes \div WordSize) - 2

TEMPORARY_ALLOC_FREE_HEAP_THRESHOLD == 5

PercentLimit(size, percentage) == (size \div 100) * (100 - percentage)

DefaultThreshold ==
    [percentage |-> TEMPORARY_ALLOC_FREE_HEAP_THRESHOLD, amount |-> 0]
DefaultLimit(size) == PercentLimit(size, TEMPORARY_ALLOC_FREE_HEAP_THRESHOLD)

\* A region whose data area can hold a hole_t and that lies in memory.
Usable(start, bytes) ==
    /\ DataWords(bytes) >= HOLE_T_SIZE
    /\ start \in Addr
    /\ start + DataWords(bytes) + 1 \in Addr

\* What the book leaves of a heap argument.
HeapStart(h) == AlignedStart(h) + BookWords
HeapBytes(h) == CorrectedSize(h) - BookWords * WordSize

\* The region arguments that the size check accepts.
BigRegions == {r \in Regions : r.size >= 3 * WordSize}

ASSUME UsableAssumption ==
    /\ \A h \in Heaps : Usable(HeapStart(h), HeapBytes(h))
    /\ \A r \in BigRegions : Usable(AlignedStart(r), CorrectedSize(r))

\* The words that become a region.
WordArea(start, bytes) == [lo |-> start, hi |-> start + DataWords(bytes) + 1]
RegionAreas == {WordArea(AlignedStart(r), CorrectedSize(r)) : r \in BigRegions}
HeapAreas == {WordArea(HeapStart(h), HeapBytes(h)) : h \in Heaps}
Apart(a, c) == a.hi < c.lo \/ c.hi < a.lo

\* The client's part: a region argument does not cut through the heap or
\* another region, and foreign pointers are foreign.
ASSUME AreasAssumption ==
    /\ \A a \in RegionAreas, c \in RegionAreas \cup HeapAreas : a = c \/ Apart(a, c)
    /\ \A f \in Foreign, a \in RegionAreas \cup HeapAreas : f < a.lo \/ a.hi < f

-----------------------------------------------------------------------------
(* ns_mem_init *)

InitBook(h) ==
    LET start == HeapStart(h)
        size  == HeapBytes(h)
        data  == DataWords(size)
        clear == [a \in Addr |-> 0]
    IN  /\ mem = WriteHole(WriteTags(clear, start, -data), start)
        /\ heap_main = [i \in Slots |-> IF i = 0 THEN start ELSE 0]
        /\ heap_main_end = [i \in Slots |-> IF i = 0 THEN start + data + 1 ELSE 0]
        /\ holes_list = <<start>>
        /\ heap_size = size
        /\ temporary_alloc_heap_limit = DefaultLimit(size)
        /\ mem_stat = [heap_sector_size |-> size,
                       heap_sector_alloc_cnt |-> 0,
                       heap_sector_allocated_bytes |-> 0,
                       heap_sector_allocated_bytes_max |-> 0,
                       heap_alloc_total_bytes |-> 0,
                       heap_alloc_fail_cnt |-> 0]
        /\ blocks = {start}

Init ==
    /\ \E h \in Heaps : InitBook(h)
    /\ threshold = DefaultThreshold
    /\ held = << >>
    /\ freed = {}
    /\ last = [call |-> "init", rc |-> 0, reported |-> {}]

Done(call, rc, reported) ==
    last' = [call |-> call, rc |-> rc, reported |-> reported]

-----------------------------------------------------------------------------
(* ns_mem_region_add *)

FreeSlots == {i \in Slots \ {0} : heap_main[i] = 0}

\* ns_dyn_mem_region_save: the first free slot after the heap's own.
ns_dyn_mem_region_save(start, words) ==
    LET i == Min(FreeSlots)
    IN  /\ heap_main' = [heap_main EXCEPT ![i] = start]
        /\ heap_main_end' = [heap_main_end EXCEPT ![i] = start + words]

\* The region memory is not the heap's yet, or is one untouched hole of it.
NotInUse(start, data) ==
    \/ \A i \in Slots : heap_main[i] # start
    \/ start \in Range(holes_list) /\ mem[start] = -data

\* The new hole is on the list already.
AlreadyListed(start) == start \in Range(holes_list)

\* The list with b after the last hole below it.
AddAfterLower(list, b) ==
    LET lower == {i \in DOMAIN list : list[i] < b}
    IN  InsertAt(list, IF lower = {} THEN 1 ELSE Max(lower) + 1, b)

GrownSize_Uncorrected(r) == heap_size + r.size

\* heap_size with the new region, aligned and corrected.
GrownSize(r) == heap_size + CorrectedSize(r)

RegionTooSmall(r) ==
    /\ r.size < 3 * WordSize
    /\ Done("region_add", -1, {})
    /\ UNCHANGED <<mem, regions, holes_list, limits, mem_stat, blocks, held, freed>>

\* The new tags are written before the list and the slots are consulted.
RegionRefused(r) ==
    LET start == AlignedStart(r)
        data  == DataWords(CorrectedSize(r))
        again == AlreadyListed(start)
    IN  /\ r.size >= 3 * WordSize
        /\ ReAddAnyTime \/ NotInUse(start, data)
        /\ again \/ FreeSlots = {}
        /\ mem' = WriteTags(mem, start, -data)
        /\ Done("region_add", IF again THEN -2 ELSE -3, {})
        /\ UNCHANGED <<regions, holes_list, limits, mem_stat, blocks, held, freed>>

RegionAdded(r) ==
    LET start == AlignedStart(r)
        size  == CorrectedSize(r)
        data  == DataWords(size)
    IN  /\ r.size >= 3 * WordSize
        /\ ReAddAnyTime \/ NotInUse(start, data)
        /\ ~AlreadyListed(start) /\ FreeSlots # {}
        /\ mem' = WriteHole(WriteTags(mem, start, -data), start)
        /\ ns_dyn_mem_region_save(start, size \div WordSize - 1)
        /\ holes_list' = AddAfterLower(holes_list, start)
        /\ heap_size' = GrownSize(r)
        /\ mem_stat' = [mem_stat EXCEPT !.heap_sector_size = heap_size']
        /\ temporary_alloc_heap_limit' = DefaultLimit(heap_size')
        /\ threshold' = DefaultThreshold
        /\ blocks' = blocks \cup {start}
        /\ Done("region_add", 0, {})
        /\ UNCHANGED <<held, freed>>

ns_mem_region_add(r) == RegionTooSmall(r) \/ RegionRefused(r) \/ RegionAdded(r)

-----------------------------------------------------------------------------
(* ns_mem_set_temporary_alloc_free_heap_threshold *)

\* The requested limit; 0 stands for illegal parameters.
ThresholdLimit(t) ==
    CASE t.amount # 0 ->
             IF t.amount < heap_size \div 2 THEN heap_size - t.amount ELSE 0
      [] t.amount = 0 /\ t.percentage # 0 ->
             IF t.percentage < 50 THEN PercentLimit(heap_size, t.percentage) ELSE 0
      [] OTHER -> heap_size

ns_mem_set_temporary_alloc_free_heap_threshold(t) ==
    LET limit == ThresholdLimit(t)
    IN  /\ temporary_alloc_heap_limit' =
               IF limit = 0 THEN temporary_alloc_heap_limit ELSE limit
        /\ threshold' = IF limit = 0 THEN threshold ELSE t
        /\ Done("threshold", IF limit = 0 THEN -2 ELSE 0, {})
        /\ UNCHANGED <<mem, regions, holes_list, mem_stat, blocks, held, freed>>

-----------------------------------------------------------------------------
(* ns_mem_internal_alloc *)

\* dev_stat_update
DEV_HEAP_ALLOC_OK(size) ==
    LET now == mem_stat.heap_sector_allocated_bytes + size
        max == mem_stat.heap_sector_allocated_bytes_max
    IN  mem_stat' = [mem_stat EXCEPT
            !.heap_sector_alloc_cnt = @ + 1,
            !.heap_sector_allocated_bytes = now,
            !.heap_sector_allocated_bytes_max = IF max < now THEN now ELSE max,
            !.heap_alloc_total_bytes = (@ + size) % UInt32]

DEV_HEAP_ALLOC_FAIL ==
    mem_stat' = [mem_stat EXCEPT !.heap_alloc_fail_cnt = (@ + 1) % UInt32]

DEV_HEAP_FREE_CountOnly(size) ==
    mem_stat' = [mem_stat EXCEPT !.heap_sector_alloc_cnt = @ - 1]

DEV_HEAP_FREE(size) ==
    mem_stat' = [mem_stat EXCEPT
        !.heap_sector_alloc_cnt = @ - 1,
        !.heap_sector_allocated_bytes = @ - size]

BlockBytes(data) == (data + 2) * WordSize

\* convert_allocation_size
Words_RoundedDown(bytes) == bytes \div WordSize
Words(bytes) == (bytes + WordSize - 1) \div WordSize
SizeReport(bytes) ==
    IF bytes < 1 \/ bytes > heap_size - 2 * WordSize
    THEN {"NS_DYN_MEM_ALLOCATE_SIZE_NOT_VALID"} ELSE {}

AllocCall(direction) == IF direction > 0 THEN "temporary_alloc" ELSE "alloc"

OverLimit_ByCount(direction) ==
    /\ direction > 0
    /\ mem_stat.heap_sector_alloc_cnt > temporary_alloc_heap_limit

\* A temporary allocation stops once the heap in use is over the limit.
OverLimit(direction) ==
    /\ direction > 0
    /\ mem_stat.heap_sector_allocated_bytes > temporary_alloc_heap_limit

\* The scan of holes_list, upwards for direction 1 and downwards for -1,
\* ends at the first hole that is broken or large enough.
Intact(b) == ns_mem_block_validate(b) /\ mem[b] < 0
ScanEnds(b, data) == ~Intact(b) \/ -mem[b] >= data
ScanEndsAt(i, data, direction) ==
    /\ ScanEnds(holes_list[i], data)
    /\ \A j \in DOMAIN holes_list :
           (IF direction > 0 THEN j < i ELSE j > i) => ~ScanEnds(holes_list[j], data)

Found(i, data, direction) ==
    /\ data # 0
    /\ ScanEndsAt(i, data, direction)
    /\ Intact(holes_list[i])

Splits_ForgetsTags(b, data) == -mem[b] >= data + HOLE_T_SIZE

\* Room for the block and a hole that can be listed.
Splits(b, data) == -mem[b] >= data + 2 + HOLE_T_SIZE

AllocRefused(bytes, direction) ==
    /\ OverLimit(direction)
    /\ DEV_HEAP_ALLOC_FAIL
    /\ Done(AllocCall(direction), -1, {})
    /\ UNCHANGED <<mem, regions, holes_list, limits, blocks, held, freed>>

AllocNotFound(bytes, direction) ==
    LET data   == Words(bytes)
        broken == data # 0 /\ \E i \in DOMAIN holes_list :
                                  ScanEndsAt(i, data, direction)
    IN  /\ \A i \in DOMAIN holes_list : ~Found(i, data, direction)
        /\ DEV_HEAP_ALLOC_FAIL
        /\ Done(AllocCall(direction), -1, SizeReport(bytes) \cup
               (IF broken THEN {"NS_DYN_MEM_HEAP_SECTOR_CORRUPTED"} ELSE {}))
        /\ UNCHANGED <<mem, regions, holes_list, limits, blocks, held, freed>>

\* The caller gets the block at b with the given data words.
HandOut(b, data, bytes, direction) ==
    /\ held' = [x \in DOMAIN held \cup {b} |-> IF x = b THEN bytes ELSE held[x]]
    /\ freed' = {}
    /\ DEV_HEAP_ALLOC_OK(BlockBytes(data))
    /\ Done(AllocCall(direction), 0, SizeReport(bytes))
    /\ UNCHANGED <<regions, limits>>

\* Upwards the block is cut from the bottom of the hole and the rest is a
\* new hole above it; downwards the hole keeps its place and shrinks.
AllocSplit(bytes, direction) ==
    \E i \in DOMAIN holes_list :
        LET data == Words(bytes)
            b    == holes_list[i]
            rest == -mem[b] - data - 2
            hole == IF direction > 0 THEN b + data + 2 ELSE b
            new  == IF direction > 0 THEN b ELSE b + rest + 2
        IN  /\ Found(i, data, direction)
            /\ Splits(b, data)
            /\ mem' = WriteData(WriteTags(WriteTags(WriteHole(mem, hole),
                                                    hole, -rest),
                                          new, data),
                                new, data)
            /\ holes_list' = [holes_list EXCEPT ![i] = hole]
            /\ blocks' = blocks \cup {hole, new}
            /\ HandOut(new, data, bytes, direction)

\* No room for a left-over hole: the caller gets the whole block.
AllocWhole(bytes, direction) ==
    \E i \in DOMAIN holes_list :
        LET b    == holes_list[i]
            data == -mem[b]
        IN  /\ Found(i, Words(bytes), direction)
            /\ ~Splits(b, Words(bytes))
            /\ mem' = WriteData(WriteTags(mem, b, data), b, data)
            /\ holes_list' = RemoveAt(holes_list, i)
            /\ HandOut(b, data, bytes, direction)
            /\ UNCHANGED blocks

\* The critical section.
Allocate(bytes, direction) ==
    \/ AllocNotFound(bytes, direction)
    \/ AllocSplit(bytes, direction)
    \/ AllocWhole(bytes, direction)

ns_mem_internal_alloc(bytes, direction) ==
    \/ AllocRefused(bytes, direction)
    \/ ~OverLimit(direction) /\ Allocate(bytes, direction)

ns_mem_alloc(bytes) == ns_mem_internal_alloc(bytes, -1)
ns_mem_temporary_alloc(bytes) == ns_mem_internal_alloc(bytes, 1)

-----------------------------------------------------------------------------
(* ns_mem_free *)

FirstAbove_AtEnd(list, b) == Len(list) + 1

\* Position in the list for the hole at b: before the first hole above it.
FirstAbove(list, b) ==
    LET above == {i \in DOMAIN list : list[i] > b}
    IN  IF above = {} THEN Len(list) + 1 ELSE Min(above)

IndexIn(list, b) == CHOOSE i \in DOMAIN list : list[i] = b

\* The list after [lo..] became one free block; low and high tell whether
\* the listed neighbours below and above it (start: up) were merged.
FreeList(list, lo, up, low, high, merged) ==
    LET kept == IF high THEN RemoveAt(list, IndexIn(list, up)) ELSE list
        at   == IF high THEN IndexIn(list, up) ELSE FirstAbove(list, lo)
    IN  IF low \/ merged < HOLE_T_SIZE THEN kept ELSE InsertAt(kept, at, lo)

Invalidate_Skipped(m, b, size) == m
Invalidate(m, b, size) == WriteTags(m, b, -size)

\* The neighbours in the same region that are free.
FreeBelow_AnyRegion(m, b, r) == m[b - 1] < 0
FreeBelow(m, b, r) == b # heap_main[r] /\ m[b - 1] < 0
FreeAbove_Never(m, top, r) == FALSE
FreeAbove(m, top, r) == top # heap_main_end[r] /\ m[top + 1] < 0

ns_mem_free_and_merge_with_adjacent_blocks(b, size) ==
    LET r     == ns_dyn_mem_region_find(b, size)
        own   == Invalidate(mem, b, size)
        top   == b + size + 1
        below == FreeBelow(own, b, r)
        above == FreeAbove(own, top, r)
        lo    == IF below THEN b - (2 - own[b - 1]) ELSE b
        hi    == IF above THEN top + (2 - own[top + 1]) ELSE top
        low   == below /\ -own[b - 1] >= HOLE_T_SIZE
        high  == above /\ -own[top + 1] >= HOLE_T_SIZE
        merged == hi - lo - 1
        listed == IF low \/ merged < HOLE_T_SIZE THEN own ELSE WriteHole(own, lo)
        broken == \/ below /\ own[lo] # own[b - 1]
                  \/ above /\ own[hi] # own[top + 1]
    IN  /\ holes_list' = FreeList(holes_list, lo, top + 1, low, high, merged)
        /\ mem' = WriteTags(listed, lo, -merged)
        /\ blocks' = (blocks \ ({b} \cup (IF above THEN {top + 1} ELSE {})))
                         \cup {lo}
        /\ Done("free", 0, IF broken THEN {"NS_DYN_MEM_HEAP_SECTOR_CORRUPTED"}
                                     ELSE {})

\* Pointers a client may pass: its own, one it freed already, a foreign one.
Freeable == DOMAIN held \cup freed \cup Foreign

FreeReport(b) ==
    CASE ns_dyn_mem_region_find(b, mem[b]) < 0 -> {"NS_DYN_MEM_POINTER_NOT_VALID"}
      [] ns_dyn_mem_region_find(b, mem[b]) >= 0 /\ mem[b] < 0 ->
             {"NS_DYN_MEM_DOUBLE_FREE"}
      [] OTHER -> IF ns_mem_block_validate(b) THEN {}
                  ELSE {"NS_DYN_MEM_HEAP_SECTOR_CORRUPTED"}

FreeRefused(b) ==
    /\ FreeReport(b) # {}
    /\ Done("free", -1, FreeReport(b))
    /\ UNCHANGED <<mem, regions, holes_list, limits, mem_stat, blocks, held, freed>>

FreeBlock(b) ==
    /\ FreeReport(b) = {}
    /\ ns_mem_free_and_merge_with_adjacent_blocks(b, mem[b])
    /\ DEV_HEAP_FREE(BlockBytes(mem[b]))
    /\ held' = [x \in DOMAIN held \ {b} |-> held[x]]
    /\ freed' = freed \cup {b}
    /\ UNCHANGED <<regions, limits>>

ns_mem_free(b) == FreeRefused(b) \/ FreeBlock(b)

-----------------------------------------------------------------------------
Next ==
    \/ \E r \in Regions : ns_mem_region_add(r)
    \/ \E t \in Thresholds : ns_mem_set_temporary_alloc_free_heap_threshold(t)
    \/ \E bytes \in AllocSizes : ns_mem_alloc(bytes)
    \/ \E bytes \in AllocSizes : ns_mem_temporary_alloc(bytes)
    \/ \E b \in Freeable : ns_mem_free(b)

Spec == Init /\ [][Next]_vars

-----------------------------------------------------------------------------
(* Properties *)

\* Every variable holds a value of its C type: tags are words of memory, the
\* list, the slots and the clients' pointers are addresses, and the reports
\* are members of heap_fail_t.
TypeOK ==
    /\ mem \in [Addr -> Int]
    /\ heap_main \in [Slots -> Addr \cup {0}]
    /\ heap_main_end \in [Slots -> Addr \cup {0}]
    /\ holes_list \in Seq(Addr)
    /\ heap_size \in Nat
    /\ temporary_alloc_heap_limit \in Nat
    /\ threshold \in [percentage : Nat, amount : Nat]
    /\ mem_stat \in MemStat
    /\ blocks \in SUBSET Addr
    /\ freed \in SUBSET Addr
    /\ DOMAIN held \in SUBSET Addr
    /\ \A b \in DOMAIN held : held[b] \in Nat
    /\ last \in [call : Calls, rc : {-3, -2, -1, 0}, reported : SUBSET HeapFail]

RegionOf(b) == {i \in Slots : /\ heap_main[i] # 0
                              /\ b \in heap_main[i]..heap_main_end[i]}

\* The blocks tile every region: a region starts with a block, a block ends
\* where the region does or where the next block starts, no block starts
\* inside another, and the two size tags around every block agree.
Tiled ==
    /\ \A i \in Slots : heap_main[i] # 0 => heap_main[i] \in blocks
    /\ \A b \in blocks :
         /\ ns_mem_block_validate(b)
         /\ \E i \in RegionOf(b) :
              /\ LastWord(b) <= heap_main_end[i]
              /\ LastWord(b) # heap_main_end[i] => LastWord(b) + 1 \in blocks
         /\ \A c \in blocks : c > b => c > LastWord(b)

\* Every pointer a client holds is the data area of an allocated block at
\* least as large as it asked for, and every allocated block has its holder:
\* with Tiled, no two clients share a word and no block is lost.
HeldBlocks ==
    /\ DOMAIN held = {b \in blocks : mem[b] > 0}
    /\ \A b \in DOMAIN held : mem[b] * WordSize >= held[b]

\* holes_list holds exactly the free blocks that can carry a hole_t, once
\* each and in address order, whatever splits and merges led there.
HolesListed ==
    /\ Range(holes_list) = {b \in blocks : -mem[b] >= HOLE_T_SIZE}
    /\ \A i, j \in DOMAIN holes_list : i < j => holes_list[i] < holes_list[j]

\* No two free blocks of a region are neighbours: each free merges with both.
Coalesced ==
    \A b \in blocks : mem[b] < 0 =>
        \A i \in RegionOf(b) : LastWord(b) # heap_main_end[i] => mem[LastWord(b) + 1] > 0

BytesInUse == [b \in DOMAIN held |-> BlockBytes(mem[b])]

\* The statistics describe the blocks: the count and the bytes of mem_stat_t
\* are those of the blocks in use, tags included.
StatsExact ==
    /\ mem_stat.heap_sector_alloc_cnt = Cardinality(DOMAIN held)
    /\ mem_stat.heap_sector_allocated_bytes = SumFunction(BytesInUse)

\* The bytes of every block there is, free or in use, tags included.
BlockSizes == [b \in blocks |-> BlockBytes(AbsInt(mem[b]))]

\* heap_size, the heap_sector_size of the statistics, is what the blocks of
\* all regions make up: no split, merge or added region loses a byte or
\* counts one twice (nsdynmemLIB.c:156, 204, 240).  The length correction
\* leaves up to half a word per region that is counted and no block covers.
HeapSizeExact ==
    LET covered == SumFunction(BlockSizes)
        used    == Cardinality({i \in Slots : heap_main[i] # 0})
    IN  /\ mem_stat.heap_sector_size = heap_size
        /\ covered <= heap_size
        /\ heap_size <= covered + (WordSize \div 2) * used

\* Once every block is freed, each region is one hole again, however the
\* blocks were split, merged and freed: fragmentation leaves no trace.
WholeAgain ==
    DOMAIN held = {} =>
        \A i \in Slots : heap_main[i] # 0 =>
            mem[heap_main[i]] = -(heap_main_end[i] - heap_main[i] - 1)

\* Nothing but a refused free has reported a corrupted heap.
OnlyFreeReports ==
    "NS_DYN_MEM_HEAP_SECTOR_CORRUPTED" \in last.reported =>
        last.call = "free" /\ last.rc # 0

\* ns_mem_free accepts every block a client holds, and as long as clients
\* stay inside their blocks a corrupted heap is reported by nothing but the
\* refused free of a block that is not held.
NoFalseAlarm ==
    /\ OnlyFreeReports
    /\ \A b \in DOMAIN held : FreeReport(b) = {}

\* Until memory is handed out again, freeing a block a second time is
\* recognised, whatever merges its tags went through in between.
DoubleFreeDetected == \A b \in freed : FreeReport(b) = {"NS_DYN_MEM_DOUBLE_FREE"}

\* Every slot in use holds the words of a heap or region argument, and no
\* two slots share a word.
RegionsApart ==
    LET area(i) == [lo |-> heap_main[i], hi |-> heap_main_end[i]]
        Used    == {i \in Slots : heap_main[i] # 0}
    IN  /\ \A i \in Used : area(i) \in RegionAreas \cup HeapAreas
        /\ \A i, j \in Used : i # j => Apart(area(i), area(j))

\* A block freed since the last allocation lies in a free block: it starts
\* there, or further up and behind the smallest block there is.  Its first
\* tag still says free, unless a hole_t of more than two words covers it.
FreedKept ==
    \A b \in freed : \E c \in blocks :
        /\ mem[c] < 0
        /\ b = c \/ b \in (c + 3)..(LastWord(c) - 1)
        /\ mem[b] < 0 \/ (HOLE_T_SIZE > 2 /\ mem[b] = LinkWord)

\* The inductive invariant: the structure of the heap after any calls
\* (nsdynmemLIB.c).  None of its parts is preserved without the others: a
\* merge trusts the tags of its neighbours, the list, and the slots' ends.
IInv ==
    /\ TypeOK
    /\ RegionsApart
    /\ Tiled
    /\ Coalesced
    /\ HeldBlocks
    /\ HolesListed
    /\ FreedKept
    /\ OnlyFreeReports

\* No call writes a word of a block that a client holds before and after it:
\* neither tags nor list links land in another block's tags or data.
HeldWordsUntouched ==
    [][\A b \in DOMAIN held \cap DOMAIN held' :
           \A a \in b..LastWord(b) : mem'[a] = mem[a]]_vars

FreeBytes == heap_size - mem_stat.heap_sector_allocated_bytes

\* A region occupies one slot: adding it again fails ("region already added,
\* therefore fails", test/nsdynmem/dynmem_test.cpp:154).
RegionAddedOnce ==
    \A i, j \in Slots : heap_main[i] = heap_main[j] => i = j \/ heap_main[i] = 0
=============================================================================
