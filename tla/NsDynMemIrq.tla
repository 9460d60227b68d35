---------------------------- MODULE NsDynMemIrq ----------------------------
(***************************************************************************)
(* The heap used by a task and by interrupt routines.  An interrupt        *)
(* routine's call runs as one step, between any two steps of the task that *)
(* are not in one critical section: between the limit check of a temporary *)
(* allocation and its critical section, and all through ns_mem_region_add, *)
(* which has none.                                                         *)
(*                                                                         *)
(* The walk of region_add over holes_list holds a pointer to a hole, whose *)
(* link it reads next.  When that hole is no longer on the list the link   *)
(* is NS_LIST_POISON or a client's data: what follows is undefined and the *)
(* task's steps end there ("lost").                                        *)
(***************************************************************************)
EXTENDS NsDynMemHeap

CONSTANT InterruptRegionAdd   \* do interrupts use the heap during region_add?

ASSUME IrqAssumption == InterruptRegionAdd \in BOOLEAN

VARIABLE task   \* the task's call: where it is, and its locals

irqVars == <<vars, task>>

Idle == [at |-> "idle"]
RegionSteps == {"walk", "saved", "listed", "lost"}

IrqInit == Init /\ task = Idle

-----------------------------------------------------------------------------
(* Whole calls: by an interrupt routine, or by the task with none between *)

HeapCall ==
    \/ \E bytes \in AllocSizes : ns_mem_alloc(bytes) \/ ns_mem_temporary_alloc(bytes)
    \/ \E b \in Freeable : ns_mem_free(b)

\* Auxiliary: what interrupts took since the task checked the limit.
CountTaken ==
    task' = IF task.at # "checked" THEN task
            ELSE [task EXCEPT !.taken = @ + mem_stat'.heap_sector_allocated_bytes
                                          - mem_stat.heap_sector_allocated_bytes]

Interrupt ==
    /\ task.at \in RegionSteps => InterruptRegionAdd
    /\ HeapCall
    /\ CountTaken

SetThreshold ==
    /\ task.at = "idle"
    /\ \E t \in Thresholds : ns_mem_set_temporary_alloc_free_heap_threshold(t)
    /\ UNCHANGED task

-----------------------------------------------------------------------------
(* The task's temporary allocation *)

TemporaryCheck(bytes) ==
    /\ task.at = "idle"
    /\ ~OverLimit(1)
    /\ task' = [at |-> "checked", bytes |-> bytes, taken |-> 0]
    /\ UNCHANGED vars

TemporaryAllocate ==
    /\ task.at = "checked"
    /\ Allocate(task.bytes, 1)
    /\ task' = Idle

\* The failure is counted outside the critical section: read, then written.
TemporaryOver ==
    /\ task.at = "idle"
    /\ OverLimit(1)
    /\ task' = [at |-> "failing", fail_cnt |-> mem_stat.heap_alloc_fail_cnt]
    /\ UNCHANGED vars

TemporaryRefused ==
    /\ task.at = "failing"
    /\ mem_stat' = [mem_stat EXCEPT !.heap_alloc_fail_cnt = (task.fail_cnt + 1) % UInt32]
    /\ Done(AllocCall(1), -1, {})
    /\ task' = Idle
    /\ UNCHANGED <<mem, regions, holes_list, limits, blocks, held, freed>>

-----------------------------------------------------------------------------
(* The task's ns_mem_region_add *)

RegionStart(r) ==
    LET data == DataWords(CorrectedSize(r))
    IN  /\ task.at = "idle"
        /\ r.size >= 3 * WordSize
        /\ NotInUse(AlignedStart(r), data)
        /\ mem' = WriteTags(mem, AlignedStart(r), -data)
        /\ task' = [at |-> "walk", region |-> r, previous |-> 0,
                    cursor |-> IF holes_list = << >> THEN 0 ELSE Head(holes_list)]
        /\ UNCHANGED <<regions, holes_list, limits, mem_stat, blocks, held, freed, last>>

\* The hole behind b on the list, 0 at its end.
NextHole(b) ==
    LET i == IndexIn(holes_list, b)
    IN  IF i = Len(holes_list) THEN 0 ELSE holes_list[i + 1]

RegionWalk_KeepsPrevious ==
    /\ task.at = "walk" /\ task.cursor \notin {0, AlignedStart(task.region)}
    /\ task' = IF task.cursor \notin Range(holes_list) THEN [at |-> "lost"]
               ELSE [task EXCEPT !.cursor = NextHole(task.cursor)]
    /\ UNCHANGED vars

RegionWalk ==
    /\ task.at = "walk" /\ task.cursor \notin {0, AlignedStart(task.region)}
    /\ task' = IF task.cursor \notin Range(holes_list) THEN [at |-> "lost"]
               ELSE [task EXCEPT
                        !.previous = IF task.cursor < AlignedStart(task.region)
                                     THEN task.cursor ELSE @,
                        !.cursor = NextHole(task.cursor)]
    /\ UNCHANGED vars

RegionRefuse ==
    LET again == task.cursor = AlignedStart(task.region)
    IN  /\ task.at = "walk"
        /\ again \/ (task.cursor = 0 /\ FreeSlots = {})
        /\ Done("region_add", IF again THEN -2 ELSE -3, {})
        /\ task' = Idle
        /\ UNCHANGED <<mem, regions, holes_list, limits, mem_stat, blocks, held, freed>>

RegionSave ==
    LET start == AlignedStart(task.region)
    IN  /\ task.at = "walk" /\ task.cursor = 0
        /\ FreeSlots # {}
        /\ ns_dyn_mem_region_save(start, CorrectedSize(task.region) \div WordSize - 1)
        /\ blocks' = blocks \cup {start}
        /\ task' = [task EXCEPT !.at = "saved"]
        /\ UNCHANGED <<mem, heap_size, holes_list, limits, mem_stat, held, freed, last>>

RegionList ==
    LET start == AlignedStart(task.region)
        known == task.previous = 0 \/ task.previous \in Range(holes_list)
        at    == IF task.previous = 0 THEN 1 ELSE IndexIn(holes_list, task.previous) + 1
    IN  /\ task.at = "saved"
        /\ mem' = IF known THEN WriteHole(mem, start) ELSE mem
        /\ holes_list' = IF known THEN InsertAt(holes_list, at, start) ELSE holes_list
        /\ task' = IF known THEN [task EXCEPT !.at = "listed"] ELSE [at |-> "lost"]
        /\ UNCHANGED <<regions, limits, mem_stat, blocks, held, freed, last>>

\* The heap grows, and the limit becomes that of the default threshold.
RegionEnd ==
    /\ task.at = "listed"
    /\ heap_size' = GrownSize(task.region)
    /\ temporary_alloc_heap_limit' = DefaultLimit(heap_size')
    /\ mem_stat' = [mem_stat EXCEPT !.heap_sector_size = heap_size']
    /\ threshold' = DefaultThreshold
    /\ Done("region_add", 0, {})
    /\ task' = Idle
    /\ UNCHANGED <<mem, heap_main, heap_main_end, holes_list, blocks, held, freed>>

-----------------------------------------------------------------------------
Task ==
    \/ \E bytes \in AllocSizes : TemporaryCheck(bytes)
    \/ TemporaryAllocate
    \/ TemporaryOver
    \/ TemporaryRefused
    \/ \E r \in Regions : RegionStart(r)
    \/ RegionWalk
    \/ RegionRefuse
    \/ RegionSave
    \/ RegionList
    \/ RegionEnd
    \/ SetThreshold

IrqNext == Interrupt \/ Task

IrqSpec == IrqInit /\ [][IrqNext]_irqVars

-----------------------------------------------------------------------------
(* Properties *)

\* nsdynmemLIB.h:153 "Temporary memory allocation will fail if system does
\* not have defined amount of heap free": whatever thresholds were set and
\* regions added before, a temporary allocation that succeeds finds that much
\* free, but for what interrupt routines took since it checked
\* (nsdynmemLIB.c:369-379).
TemporaryNeedsFreeHeap ==
    [][last'.call = "temporary_alloc" /\ held' # held =>
           LET taken == IF task.at = "checked" /\ task' = Idle THEN task.taken ELSE 0
               free  == FreeBytes + taken
           IN  IF threshold.amount # 0 THEN free >= threshold.amount
               ELSE free * 100 >= threshold.percentage * heap_size]_irqVars

\* ns_list.h:481 "Deletion of the current entry is not permitted as its next
\* is checked after running user code": the hole that region_add's walk has
\* come to, and the one it will insert behind, stay on the list
\* (nsdynmemLIB.c:218-238).
WalkOnListedHoles ==
    /\ task.at # "lost"
    /\ task.at = "walk" => {task.cursor, task.previous} \subseteq Range(holes_list) \cup {0}

-----------------------------------------------------------------------------
(* The inductive invariant *)

\* The first and the last word of the region that is being added.
TaskStart == AlignedStart(task.region)
TaskData == DataWords(CorrectedSize(task.region))
TaskEnd == TaskStart + TaskData + 1

\* The task is between calls, in a temporary allocation or in region_add,
\* and its locals have the types of their variables.
TaskTypeOK ==
    \/ task = Idle
    \/ task \in [at : {"checked"}, bytes : AllocSizes, taken : Int]
    \/ task \in [at : {"failing"}, fail_cnt : 0..(UInt32 - 1)]
    \/ task \in [at : {"walk", "saved", "listed"}, region : BigRegions,
                 previous : Addr \cup {0}, cursor : Addr \cup {0}]

\* holes_list holds exactly the holes, in address order, but for that of a
\* region which has its slot and is not yet on the list.
HolesListedButSaved ==
    /\ Range(holes_list) = {b \in blocks : -mem[b] >= HOLE_T_SIZE}
                               \ (IF task.at = "saved" THEN {TaskStart} ELSE {})
    /\ \A i, j \in DOMAIN holes_list : i < j => holes_list[i] < holes_list[j]

\* The positions on the list that the walk has passed.
Passed ==
    IF task.cursor = 0 THEN DOMAIN holes_list
    ELSE {i \in DOMAIN holes_list : i < IndexIn(holes_list, task.cursor)}

\* region_add's pointer into the list is a hole on it, and previous is the
\* last hole passed that lies below the new region (nsdynmemLIB.c:218-229).
WalkKept ==
    LET lower == {i \in Passed : holes_list[i] < TaskStart}
    IN  task.at \in {"walk", "saved"} =>
            /\ task.cursor \in Range(holes_list) \cup {0}
            /\ \A i \in Passed : holes_list[i] # TaskStart
            /\ task.previous = IF lower = {} THEN 0 ELSE holes_list[Max(lower)]

\* From its first write to its last, region_add finds the new region's tags
\* as it wrote them, and its words are nobody else's.
RegionKept ==
    /\ task.at \in {"walk", "saved"} =>
           mem[TaskStart] = -TaskData /\ mem[TaskEnd] = -TaskData
    /\ task.at = "walk" => NotInUse(TaskStart, TaskData)
    /\ task.at = "saved" => /\ task.cursor = 0 /\ TaskStart \in blocks
                            /\ \A b \in freed : b \notin TaskStart..TaskEnd

\* The limit leaves the threshold's share of the heap free, and a task that
\* is past the check was not over it but for what interrupts took.
LimitKept ==
    /\ IF threshold.amount # 0
       THEN temporary_alloc_heap_limit + threshold.amount <= heap_size
       ELSE temporary_alloc_heap_limit * 100 <= (100 - threshold.percentage) * heap_size
    /\ task.at = "checked" =>
           mem_stat.heap_sector_allocated_bytes - task.taken <= temporary_alloc_heap_limit

\* The inductive invariant while interrupt routines stay out of region_add:
\* NsDynMem's with a region half added, and the task's locals tied to the
\* list, the tags and the limit they were read from (nsdynmemLIB.c:171-248,
\* 349-379).
IrqInv ==
    /\ TypeOK /\ TaskTypeOK
    /\ RegionsApart
    /\ Tiled
    /\ Coalesced
    /\ HeldBlocks
    /\ HolesListedButSaved
    /\ FreedKept
    /\ OnlyFreeReports
    /\ WalkKept
    /\ RegionKept
    /\ LimitKept
=============================================================================
