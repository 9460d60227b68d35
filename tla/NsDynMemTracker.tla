--------------------------- MODULE NsDynMemTracker ---------------------------
(***************************************************************************)
(* source/nsdynmemtracker/nsdynmem_tracker_lib.c: which caller has which    *)
(* blocks.  mem_blocks has one entry per caller, with its first block;     *)
(* ext_mem_blocks has its other blocks.  Every call is one critical        *)
(* section, so each is one step.                                           *)
(*                                                                         *)
(* A table is a function on 0..n-1, n its count; NULL is the empty one.    *)
(* The functions of conf that make a table or make it larger, and the hash *)
(* that says where a search starts, belong to the application: a table may *)
(* grow, stay or be NULL, and a search may start anywhere.  function and   *)
(* line go with caller_addr and are left out.  The lists of allocators are *)
(* made for the application and never read here: they are part of what the *)
(* last call answered.                                                     *)
(*                                                                         *)
(* An operator X_Suffix before an operator X is a faulty variant of X, the *)
(* way a slip in the code would change it; no action uses it.              *)
(***************************************************************************)
EXTENDS Integers, SequencesExt

CONSTANTS
    Block,           \* addresses of memory blocks
    Caller,          \* caller addresses
    Null,            \* NULL as a block or caller address
    Sizes,           \* allocation sizes
    MemBlocksMax,    \* entries the application has for mem_blocks
    ExtBlocksMax,    \* entries it has for ext_mem_blocks
    top_allocators_count,
    permanent_allocators_count,
    to_permanent_allocators_count,
    max_snap_shot_allocators_count,
    to_permanent_steps_count,
    UInt32,          \* modulus of the uint32_t counters
    UInt8,           \* modulus of the uint8_t locals of the list updates
    MaxAge           \* auxiliary ages stop here

ASSUME NullAssumption == Null \notin Block \cup Caller
ASSUME CountsAssumption ==
    /\ {MemBlocksMax, ExtBlocksMax, UInt32, UInt8} \subseteq Nat \ {0}
    /\ {top_allocators_count, permanent_allocators_count,
        to_permanent_allocators_count, max_snap_shot_allocators_count,
        to_permanent_steps_count, MaxAge} \subseteq Nat
    /\ MaxAge > to_permanent_steps_count

\* Sizes are of type uint32_t, a uint32_t can count the blocks, and ages stop
\* no earlier than lifetimes do.
ASSUME WidthAssumption ==
    /\ Sizes \subseteq 0..(UInt32 - 1)
    /\ IsFiniteSet(Block) /\ Cardinality(Block) < UInt32
    /\ MaxAge >= UInt32 - 1

VARIABLES
    mem_blocks,
    ext_mem_blocks,
    last_mem_block_index,
    allocated_memory,
    held,    \* the blocks in use -> [caller_addr, size, tracked, age]
    lost,    \* auxiliary: a table with records was replaced by NULL
    last     \* the last call, what it returned and the lists it wrote

tables == <<mem_blocks, ext_mem_blocks, last_mem_block_index, allocated_memory>>
vars == <<tables, held, lost, last>>

UInt32Value == 0..(UInt32 - 1)
BlockOrNull == Block \cup {Null}
CallerOrNull == Caller \cup {Null}

\* ns_dyn_mem_tracker_lib_mem_blocks_t, _mem_blocks_ext_t and _allocators_t
MemBlock == [block : BlockOrNull, caller_addr : CallerOrNull,
             size : UInt32Value, total_size : UInt32Value,
             lifetime : UInt32Value, ref_count : UInt32Value,
             permanent : BOOLEAN, permanent_printed : BOOLEAN]
ExtBlock == [block : BlockOrNull, caller_addr : CallerOrNull, size : UInt32Value]
Holding == [caller_addr : Caller, size : Sizes, tracked : BOOLEAN, age : 0..MaxAge]
Allocator == [caller_addr : CallerOrNull, alloc_count : UInt32Value,
              total_memory : UInt32Value, min_lifetime : UInt32Value]

IsTable(t, max, E) == \E n \in 0..max : t \in [0..(n - 1) -> E]
NoTable == << >>

EmptyMemBlock == [block |-> Null, caller_addr |-> Null, size |-> 0,
                  total_size |-> 0, lifetime |-> 0, ref_count |-> 0,
                  permanent |-> FALSE, permanent_printed |-> FALSE]
EmptyExtBlock == [block |-> Null, caller_addr |-> Null, size |-> 0]

\* The memset of an allocators array.
Cleared(count) == [i \in 0..(count - 1) |->
    [caller_addr |-> Null, alloc_count |-> 0, total_memory |-> 0,
     min_lifetime |-> 0]]

-----------------------------------------------------------------------------
(* The application's tables and hash *)

\* What alloc_mem_blocks or ext_alloc_mem_blocks makes of table t: nothing,
\* or any number of empty entries behind those it has.
Grown(t, max, empty) ==
    LET n == Cardinality(DOMAIN t)
    IN  {NoTable} \cup
        {[i \in 0..(m - 1) |-> IF i < n THEN t[i] ELSE empty] :
            m \in n..max}

\* The table, or the new one that is made when there is none.
Made(t, max, empty) == IF t = NoTable THEN Grown(t, max, empty) ELSE {t}

Starts(t) == DOMAIN t \cup {0}

-----------------------------------------------------------------------------
(* Searches: an index, or -1 *)

\* A search upwards from start that does not wrap.
ScanFrom_NoWrap(match, start) ==
    LET up == {i \in match : i >= start}
    IN  IF up = {} THEN -1 ELSE Min(up)

\* Upwards from start, then from 0 to start.
ScanFrom(match, start) ==
    LET up == {i \in match : i >= start}
    IN  IF match = {} THEN -1 ELSE IF up = {} THEN Min(match) ELSE Min(up)

ns_dyn_mem_tracker_lib_find_free_index(t) ==
    ScanFrom({i \in DOMAIN t : t[i].caller_addr = Null}, 0)

find_caller_index_OneShort(t, c) ==
    ScanFrom({i \in 0..(last_mem_block_index - 1) : t[i].caller_addr = c}, 0)

ns_dyn_mem_tracker_lib_find_caller_index(t, c) ==
    ScanFrom({i \in 0..last_mem_block_index : t[i].caller_addr = c}, 0)

ns_dyn_mem_tracker_lib_find_block_index(t, b) ==
    ScanFrom({i \in 0..last_mem_block_index : t[i].block = b}, 0)

ns_dyn_mem_tracker_lib_ext_find_free_index(t, start) ==
    ScanFrom({i \in DOMAIN t : t[i].caller_addr = Null}, start)

ns_dyn_mem_tracker_lib_ext_find_block_index(t, b, start) ==
    ScanFrom({i \in DOMAIN t : t[i].block = b}, start)

-----------------------------------------------------------------------------
Init ==
    /\ mem_blocks = NoTable
    /\ ext_mem_blocks = NoTable
    /\ last_mem_block_index = 0
    /\ allocated_memory = 0
    /\ held = << >>
    /\ lost = FALSE
    /\ last = [call |-> "init", rc |-> 0, lists |-> << >>]

Plus(n, size) == (n + size) % UInt32
Minus(n, size) == (n - size) % UInt32

Returns(call, rc) == last' = [call |-> call, rc |-> rc, lists |-> << >>]
Writes(call, lists) == last' = [call |-> call, rc |-> 0, lists |-> lists]

-----------------------------------------------------------------------------
(* ns_dyn_mem_tracker_lib_alloc, called with a block that was allocated *)

Holds(c, b, size, tracked) ==
    held' = [x \in DOMAIN held \cup {b} |->
                IF x = b THEN [caller_addr |-> c, size |-> size,
                               tracked |-> tracked, age |-> 0]
                ELSE held[x]]

\* The call gives up: the caller has its block, but it is not recorded.
Untracked(c, b, size) ==
    /\ Holds(c, b, size, FALSE)
    /\ Returns("alloc", -1)
    /\ UNCHANGED <<last_mem_block_index, allocated_memory>>

Tracked(c, b, size) ==
    /\ Holds(c, b, size, TRUE)
    /\ allocated_memory' = Plus(allocated_memory, size)
    /\ Returns("alloc", 0)
    /\ UNCHANGED lost

AllocNoTable(c, b, size) ==
    /\ mem_blocks = NoTable
    /\ Untracked(c, b, size)
    /\ UNCHANGED <<mem_blocks, ext_mem_blocks, lost>>

Again_StaysPermanent(e, size) ==
    [e EXCEPT !.ref_count = Plus(@, 1), !.total_size = Plus(@, size),
              !.lifetime = 0]

\* The caller's entry after another allocation.
Again(e, size) ==
    [e EXCEPT !.ref_count = Plus(@, 1), !.total_size = Plus(@, size),
              !.lifetime = 0, !.permanent = FALSE, !.permanent_printed = FALSE]

\* Another block of the caller of entry i goes into the extended table ext.
AllocNext(i, ext, c, b, size) ==
    \E start \in Starts(ext) :
        LET free == ns_dyn_mem_tracker_lib_ext_find_free_index(ext, start)
        IN  /\ free >= 0
            /\ ext_mem_blocks' = [ext EXCEPT ![free] =
                   [block |-> b, caller_addr |-> c, size |-> size]]
            /\ mem_blocks' = [mem_blocks EXCEPT ![i] = Again(@, size)]
            /\ Tracked(c, b, size)
            /\ UNCHANGED last_mem_block_index

\* The extended table is missing, full and not larger, or gone.
AllocNextFails(old, ext, c, b, size) ==
    /\ \A i \in DOMAIN ext : ext[i].caller_addr # Null
    /\ ext_mem_blocks' = ext
    /\ lost' = (ext = NoTable /\ old # NoTable)
    /\ Untracked(c, b, size)
    /\ UNCHANGED mem_blocks

AllocKnownCaller(c, b, size) ==
    LET i == ns_dyn_mem_tracker_lib_find_caller_index(mem_blocks, c)
    IN  /\ mem_blocks # NoTable
        /\ i >= 0
        /\ \E ext \in Made(ext_mem_blocks, ExtBlocksMax, EmptyExtBlock) :
             \/ AllocNext(i, ext, c, b, size)
             \/ ext = NoTable /\ AllocNextFails(NoTable, ext, c, b, size)
             \/ /\ ext # NoTable
                /\ ns_dyn_mem_tracker_lib_ext_find_free_index(ext, 0) < 0
                /\ \E more \in Grown(ext, ExtBlocksMax, EmptyExtBlock) :
                     \/ AllocNext(i, more, c, b, size)
                     \/ AllocNextFails(ext, more, c, b, size)

\* The first block of a caller goes into table t.
AllocFirst(t, c, b, size) ==
    LET free == ns_dyn_mem_tracker_lib_find_free_index(t)
    IN  /\ free >= 0
        /\ mem_blocks' = [t EXCEPT ![free] =
               [block |-> b, caller_addr |-> c, size |-> size,
                total_size |-> size, lifetime |-> 0, ref_count |-> 1,
                permanent |-> FALSE, permanent_printed |-> FALSE]]
        /\ last_mem_block_index' =
               IF free > last_mem_block_index THEN free ELSE last_mem_block_index
        /\ Tracked(c, b, size)
        /\ UNCHANGED ext_mem_blocks

AllocFirstFails(t, c, b, size) ==
    /\ \A i \in DOMAIN t : t[i].caller_addr # Null
    /\ mem_blocks' = t
    /\ lost' = (t = NoTable)
    /\ Untracked(c, b, size)
    /\ UNCHANGED ext_mem_blocks

AllocNewCaller(c, b, size) ==
    \E t \in Made(mem_blocks, MemBlocksMax, EmptyMemBlock) :
        /\ t # NoTable
        /\ ns_dyn_mem_tracker_lib_find_caller_index(t, c) < 0
        /\ \/ AllocFirst(t, c, b, size)
           \/ /\ ns_dyn_mem_tracker_lib_find_free_index(t) < 0
              /\ \E more \in Grown(t, MemBlocksMax, EmptyMemBlock) :
                   \/ AllocFirst(more, c, b, size)
                   \/ AllocFirstFails(more, c, b, size)

\* What a table that is gone leads to is not modelled.
ns_dyn_mem_tracker_lib_alloc(c, b, size) ==
    /\ ~lost
    /\ b \notin DOMAIN held
    /\ \/ AllocNoTable(c, b, size)
       \/ AllocKnownCaller(c, b, size)
       \/ AllocNewCaller(c, b, size)

-----------------------------------------------------------------------------
(* ns_dyn_mem_tracker_lib_free *)

Releases(b) == held' = [x \in DOMAIN held \ {b} |-> held[x]]

\* No allocation was recorded.
FreeNoTable(b) ==
    /\ mem_blocks = NoTable
    /\ Returns("free", 0)
    /\ UNCHANGED tables

FirstFreed_KeepsTotal(e) ==
    IF e.ref_count <= 1 THEN EmptyMemBlock
    ELSE [e EXCEPT !.ref_count = Minus(@, 1), !.block = Null, !.size = 0,
                   !.lifetime = 0, !.permanent = FALSE, !.permanent_printed = FALSE]

\* The entry after its own block was freed; the caller may have others.
FirstFreed(e) ==
    IF e.ref_count <= 1 THEN EmptyMemBlock
    ELSE [e EXCEPT !.ref_count = Minus(@, 1), !.total_size = Minus(@, e.size),
                   !.block = Null, !.size = 0,
                   !.lifetime = 0, !.permanent = FALSE, !.permanent_printed = FALSE]

FreeFirst(b) ==
    LET i == ns_dyn_mem_tracker_lib_find_block_index(mem_blocks, b)
    IN  /\ i >= 0
        /\ allocated_memory' = Minus(allocated_memory, mem_blocks[i].size)
        /\ mem_blocks' = [mem_blocks EXCEPT ![i] = FirstFreed(@)]
        /\ Returns("free", 0)
        /\ UNCHANGED <<ext_mem_blocks, last_mem_block_index>>

\* The settings of entry 0 are reset, and the entry is cleared if it is left
\* without blocks: block_index is still 0 when this code is reached.
ResetEntry(e) ==
    IF e.ref_count = 0 THEN EmptyMemBlock
    ELSE [e EXCEPT !.lifetime = 0, !.permanent = FALSE, !.permanent_printed = FALSE]

ExtFreed_NotCleared(ext, i) == ext
ExtFreed(ext, i) == [ext EXCEPT ![i] = EmptyExtBlock]

\* The caller that record e of the extended table names, as an entry.
CallerOfExt(e) == ns_dyn_mem_tracker_lib_find_caller_index(
                      mem_blocks, ext_mem_blocks[e].caller_addr)

\* The search from start finds b in the extended table, at e.
FoundExt(b, start, e) ==
    /\ ns_dyn_mem_tracker_lib_find_block_index(mem_blocks, b) < 0
    /\ e = ns_dyn_mem_tracker_lib_ext_find_block_index(ext_mem_blocks, b, start)
    /\ CallerOfExt(e) >= 0

FreeNext(b) ==
    \E start \in Starts(ext_mem_blocks), e \in DOMAIN ext_mem_blocks :
        LET i    == CallerOfExt(e)
            size == ext_mem_blocks[e].size
            less == [mem_blocks EXCEPT ![i].ref_count = Minus(@, 1),
                                       ![i].total_size = Minus(@, size)]
        IN  /\ FoundExt(b, start, e)
            /\ mem_blocks' = [less EXCEPT ![0] = ResetEntry(@)]
            /\ ext_mem_blocks' = ExtFreed(ext_mem_blocks, e)
            /\ allocated_memory' = Minus(allocated_memory, size)
            /\ Returns("free", 0)
            /\ UNCHANGED last_mem_block_index

\* A block nobody recorded, or recorded for a caller without an entry.
FreeUnknown(b) ==
    /\ ns_dyn_mem_tracker_lib_find_block_index(mem_blocks, b) < 0
    /\ \E start \in Starts(ext_mem_blocks) :
           \A e \in DOMAIN ext_mem_blocks : ~FoundExt(b, start, e)
    /\ Returns("free", -1)
    /\ UNCHANGED tables

ns_dyn_mem_tracker_lib_free(b) ==
    /\ \/ FreeNoTable(b)
       \/ mem_blocks # NoTable /\ (FreeFirst(b) \/ FreeNext(b) \/ FreeUnknown(b))
    /\ Releases(b)
    /\ UNCHANGED lost

\* Either call with a NULL block.
NullBlock ==
    /\ \E call \in {"alloc", "free"} : Returns(call, 0)
    /\ UNCHANGED <<tables, held, lost>>

-----------------------------------------------------------------------------
(* ns_dyn_mem_tracker_lib_step *)

Aged(h) == [h EXCEPT !.age = IF @ < MaxAge THEN @ + 1 ELSE @]

ns_dyn_mem_tracker_lib_step ==
    /\ mem_blocks = NoTable => ~lost
    /\ mem_blocks' = [i \in DOMAIN mem_blocks |->
           IF i <= last_mem_block_index /\ mem_blocks[i].block # Null
           THEN [mem_blocks[i] EXCEPT !.lifetime = Plus(@, 1)]
           ELSE mem_blocks[i]]
    /\ held' = [b \in DOMAIN held |-> Aged(held[b])]
    /\ Returns("step", 0)
    /\ UNCHANGED <<ext_mem_blocks, last_mem_block_index, allocated_memory, lost>>

-----------------------------------------------------------------------------
(* The allocator lists *)

AllocatorOf(e) == [caller_addr |-> e.caller_addr, alloc_count |-> e.ref_count,
                   total_memory |-> e.total_size, min_lifetime |-> e.lifetime]

Ranked_NoShift(list, a, key) ==
    LET lower == {i \in DOMAIN list : a[key] >= list[i][key]}
    IN  IF lower = {} THEN list ELSE [list EXCEPT ![Min(lower)] = a]

\* Allocator a put before the first of the list that it is not below in key;
\* those after it move one place, the last drops out.
Ranked(list, a, key) ==
    LET lower == {i \in DOMAIN list : a[key] >= list[i][key]}
        at    == Min(lower)
        count == (Cardinality(DOMAIN list) - at - 1) % UInt8
    IN  IF lower = {} THEN list
        ELSE [i \in DOMAIN list |->
                 IF i = at THEN a
                 ELSE IF i > at /\ i <= at + count THEN list[i - 1]
                 ELSE list[i]]

Listed(list, c) == \E i \in DOMAIN list : list[i].caller_addr = c

\* One turn of the loop of ns_dyn_mem_tracker_lib_allocator_lists_update; s
\* holds the table, the lists and how many entries of two lists are used.
ListTurn(s, i) ==
    LET e == s.blocks[i]
        a == AllocatorOf(e)
    IN  IF e.block = Null \/ Listed(s.top, e.caller_addr) THEN s
        ELSE IF e.permanent THEN
            IF e.permanent_printed \/ s.permanents >= permanent_allocators_count
            THEN s
            ELSE [s EXCEPT !.permanent[s.permanents] = a,
                           !.permanents = (@ + 1) % UInt8,
                           !.blocks[i].permanent_printed = TRUE]
        ELSE IF /\ e.lifetime > to_permanent_steps_count
                /\ s.to_permanents < to_permanent_allocators_count
             THEN [s EXCEPT !.to_permanent[s.to_permanents] = a,
                            !.to_permanents = (@ + 1) % UInt8,
                            !.blocks[i].permanent = TRUE]
        ELSE [s EXCEPT !.top = Ranked(@, a, "alloc_count")]

ns_dyn_mem_tracker_lib_permanent_printed_value_set(t, new_value) ==
    [i \in DOMAIN t |-> IF i <= last_mem_block_index
                        THEN [t[i] EXCEPT !.permanent_printed = new_value]
                        ELSE t[i]]

\* The loop after n turns, over the entries of table t.
ListTurns(t) ==
    LET turn[n \in Nat] ==
            IF n = 0
            THEN [blocks       |-> t,
                  top          |-> Cleared(top_allocators_count),
                  permanent    |-> Cleared(permanent_allocators_count),
                  to_permanent |-> Cleared(to_permanent_allocators_count),
                  permanents   |-> 0,
                  to_permanents |-> 0]
            ELSE ListTurn(turn[n - 1], n - 1)
    IN  turn

ns_dyn_mem_tracker_lib_allocator_lists_update ==
    LET s == ListTurns(mem_blocks)[last_mem_block_index + 1]
    IN  /\ mem_blocks # NoTable
        /\ Writes("lists_update", [top_allocators |-> s.top,
                                   permanent_allocators |-> s.permanent,
                                   to_permanent_allocators |-> s.to_permanent])
        /\ mem_blocks' =
               IF s.permanents < permanent_allocators_count
               THEN ns_dyn_mem_tracker_lib_permanent_printed_value_set(s.blocks, FALSE)
               ELSE s.blocks
        /\ UNCHANGED <<ext_mem_blocks, last_mem_block_index, allocated_memory,
                       held, lost>>

SnapTurn(list, e) ==
    IF e.block = Null \/ Listed(list, e.caller_addr) THEN list
    ELSE Ranked(list, AllocatorOf(e), "total_memory")

SnapTurns(t) ==
    LET turn[n \in Nat] == IF n = 0 THEN Cleared(max_snap_shot_allocators_count)
                           ELSE SnapTurn(turn[n - 1], t[n - 1])
    IN  turn

ns_dyn_mem_tracker_lib_max_snap_shot_update ==
    /\ mem_blocks # NoTable
    /\ Writes("snap_shot_update", [max_snap_shot_allocators |->
           SnapTurns(mem_blocks)[last_mem_block_index + 1]])
    /\ UNCHANGED <<tables, held, lost>>

-----------------------------------------------------------------------------
Next ==
    \/ \E c \in Caller, b \in Block, size \in Sizes :
           ns_dyn_mem_tracker_lib_alloc(c, b, size)
    \/ \E b \in DOMAIN held : ns_dyn_mem_tracker_lib_free(b)
    \/ NullBlock
    \/ ns_dyn_mem_tracker_lib_step
    \/ ns_dyn_mem_tracker_lib_allocator_lists_update
    \/ ns_dyn_mem_tracker_lib_max_snap_shot_update

Spec == Init /\ [][Next]_vars

-----------------------------------------------------------------------------
(* Properties *)

\* Every field has a value of its C type, and the last entry ever used is an
\* index of the table.
TypeOK ==
    /\ IsTable(mem_blocks, MemBlocksMax, MemBlock)
    /\ IsTable(ext_mem_blocks, ExtBlocksMax, ExtBlock)
    /\ last_mem_block_index \in Nat
    /\ IF mem_blocks = NoTable THEN last_mem_block_index = 0 \/ lost
                               ELSE last_mem_block_index \in DOMAIN mem_blocks
    /\ allocated_memory \in UInt32Value
    /\ DOMAIN held \subseteq Block
    /\ \A b \in DOMAIN held : held[b] \in Holding
    /\ lost \in BOOLEAN
    /\ \A l \in DOMAIN last.lists : Range(last.lists[l]) \subseteq Allocator

TrackedBlocks == {b \in DOMAIN held : held[b].tracked}
BlocksOf(c) == {b \in TrackedBlocks : held[b].caller_addr = c}
SizeOf(S) == SumFunctionOnSet([b \in DOMAIN held |-> held[b].size], S)

Recorded(t) == {i \in DOMAIN t : t[i].block # Null}

\* The two tables record the tracked blocks and nothing else, each block once
\* and with its caller and size, however callers share and reuse entries.
RecordsExact ==
    LET first == Recorded(mem_blocks)
        ext   == Recorded(ext_mem_blocks)
        Record(e) == <<e.block, e.caller_addr, e.size>>
    IN  ~lost =>
        /\ {Record(mem_blocks[i]) : i \in first} \cup
           {Record(ext_mem_blocks[i]) : i \in ext} =
               {<<b, held[b].caller_addr, held[b].size>> : b \in TrackedBlocks}
        /\ \A i, j \in first : mem_blocks[i].block = mem_blocks[j].block => i = j
        /\ \A i, j \in ext : ext_mem_blocks[i].block = ext_mem_blocks[j].block => i = j
        /\ \A i \in first, j \in ext : mem_blocks[i].block # ext_mem_blocks[j].block

\* A caller's entry counts its tracked blocks, first and extended, and their
\* bytes; allocated_memory counts all of them.
TotalsExact ==
    ~lost =>
    /\ allocated_memory = SizeOf(TrackedBlocks) % UInt32
    /\ \A i \in DOMAIN mem_blocks :
         LET c == mem_blocks[i].caller_addr
         IN  c # Null =>
                 /\ mem_blocks[i].ref_count = Cardinality(BlocksOf(c))
                 /\ mem_blocks[i].total_size = SizeOf(BlocksOf(c)) % UInt32

\* No caller has two entries, and one with tracked blocks has one.
OneEntryPerCaller ==
    ~lost =>
    /\ \A i, j \in DOMAIN mem_blocks :
          mem_blocks[i].caller_addr = mem_blocks[j].caller_addr =>
              i = j \/ mem_blocks[i].caller_addr = Null
    /\ \A b \in TrackedBlocks : \E i \in DOMAIN mem_blocks :
          i <= last_mem_block_index /\ mem_blocks[i].caller_addr = held[b].caller_addr

\* Freeing a block that was recorded succeeds, and freeing one that was not
\* is noticed, wherever the searches of the allocation and the free started.
FreeFindsRecord ==
    [][\A b \in DOMAIN held \ DOMAIN held' :
           ~lost /\ mem_blocks # NoTable => (last'.rc = 0 <=> held[b].tracked)]_vars

\* An entry's lifetime is that of its youngest block at most (the header calls
\* it "Shortest lifetime among the allocations"), so a caller is permanent
\* only if every one of its blocks has outlived to_permanent_steps_count.
YoungestBlockCounts ==
    ~lost => \A i \in DOMAIN mem_blocks :
                 \A b \in BlocksOf(mem_blocks[i].caller_addr) :
                     /\ mem_blocks[i].lifetime <= held[b].age
                     /\ mem_blocks[i].permanent =>
                            held[b].age > to_permanent_steps_count

\* Callers have different entries, none behind the last one used, and an
\* entry or record that looks free is: what the searches take for granted.
EntriesApart ==
    /\ \A i \in DOMAIN mem_blocks :
         /\ i > last_mem_block_index => mem_blocks[i].caller_addr = Null
         /\ mem_blocks[i].caller_addr = Null => mem_blocks[i].block = Null
         /\ \A j \in DOMAIN mem_blocks :
                mem_blocks[i].caller_addr = mem_blocks[j].caller_addr =>
                    i = j \/ mem_blocks[i].caller_addr = Null
    /\ \A i \in DOMAIN ext_mem_blocks :
         ext_mem_blocks[i].caller_addr = Null => ext_mem_blocks[i].block = Null

\* The inductive invariant (nsdynmem_tracker_lib.c): what the two tables hold
\* after any calls.  A free relies on the records, the records on the entries,
\* and clearing an entry on its counts.
IInv ==
    /\ TypeOK
    /\ EntriesApart
    /\ RecordsExact
    /\ OneEntryPerCaller
    /\ TotalsExact
    /\ YoungestBlockCounts

\* The list has its largest entries first, names entries of S only, once
\* each, and leaves one out only when it is full of larger or equal ones.
LargestOf(list, key, S) ==
    LET named == {i \in DOMAIN list : list[i].caller_addr # Null}
        all   == {AllocatorOf(mem_blocks[i]) : i \in S}
    IN  /\ \A i, j \in DOMAIN list : i < j => list[i][key] >= list[j][key]
        /\ {list[i] : i \in named} \subseteq all
        /\ \A i, j \in named : list[i].caller_addr = list[j].caller_addr => i = j
        /\ \A a \in all : \/ \E i \in named : list[i] = a
                          \/ \A i \in DOMAIN list : i \in named /\ list[i][key] >= a[key]

\* After an update the top list holds the callers with the most blocks, of
\* those that have their first block and are not permanent; the snap shot
\* holds the callers with the most memory.
ListsHoldLargest ==
    /\ last.call = "lists_update" =>
           LargestOf(last.lists.top_allocators, "alloc_count",
                     {i \in Recorded(mem_blocks) : ~mem_blocks[i].permanent})
    /\ last.call = "snap_shot_update" =>
           LargestOf(last.lists.max_snap_shot_allocators, "total_memory",
                     Recorded(mem_blocks))

\* nsdynmem_tracker_lib.c:210 "If last block for allocator clears the
\* allocator": no entry keeps a caller that has no block left.
ClearedWithLastBlock ==
    \A i \in DOMAIN mem_blocks :
        mem_blocks[i].caller_addr # Null => mem_blocks[i].ref_count > 0
=============================================================================
