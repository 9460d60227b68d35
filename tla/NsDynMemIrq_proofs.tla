------------------------ MODULE NsDynMemIrq_proofs ------------------------
(***************************************************************************)
(* The heap of nsdynmemLIB.c under interrupts.  As long as no interrupt    *)
(* routine uses the heap during ns_mem_region_add, which has no critical   *)
(* section, taking that call and the temporary allocation apart changes    *)
(* nothing that was proved of whole calls.                                 *)
(***************************************************************************)
EXTENDS NsDynMemIrq, NsDynMem_proofs

-----------------------------------------------------------------------------
(* The invariant in terms of layouts *)

\* The start of the region that has its slot and is not yet on the list.
Saved == IF task.at = "saved" THEN {TaskStart} ELSE {}

\* The structure of the heap, with one hole possibly missing on the list.
HalfShaped ==
    /\ Laid(mem, blocks, heap_main, heap_main_end)
    /\ Lists(holes_list, Holes(mem, blocks) \ Saved)
    /\ Holds(held, mem, blocks)
    /\ KeepsFreed(freed, mem, blocks)

TaskKept == TaskTypeOK /\ WalkKept /\ RegionKept /\ LimitKept

\* The inductive invariant in these terms.
HalfInv == RestTyped /\ RegionsApart /\ HalfShaped /\ OnlyFreeReports /\ TaskKept

SameIrqInv == IrqInv <=> HalfInv

\* The invariant is the one of NsDynMemIrq.
LEMMA IrqInvMeans == SameIrqInv
<1>1. HalfShaped => /\ mem \in [Addr -> Int] /\ blocks \subseteq Addr
                    /\ SlotsApart(heap_main, heap_main_end)
  BY LaidTypes DEF HalfShaped
<1>2. HalfShaped /\ RestTyped => TypeOK
  BY <1>1 DEF HalfShaped, Lists, Holds, SlotsApart, RestTyped, TypeOK
<1>3. TypeOK => RestTyped
  BY DEF TypeOK, RestTyped
<1>4. TypeOK => (HolesListedButSaved <=> Lists(holes_list, Holes(mem, blocks) \ Saved))
  BY DEF TypeOK, HolesListedButSaved, Lists, Ordered, Holes, Saved
<1>5. TypeOK /\ RegionsApart =>
          (HalfShaped <=> Tiled /\ Coalesced /\ HeldBlocks /\ HolesListedButSaved /\ FreedKept)
  BY <1>4, PartsMean DEF PartsAre, HalfShaped
<1> QED BY <1>2, <1>3, <1>5 DEF SameIrqInv, IrqInv, HalfInv, TaskKept

NotSaved == task.at # "saved" => (HalfShaped <=> Shaped)

\* With no region half added the structure is that of NsDynMem.
LEMMA NotSavedMeans == NotSaved
<1>1. task.at # "saved" => Holes(mem, blocks) \ Saved = Holes(mem, blocks)
  BY DEF Saved
<1> QED BY <1>1 DEF NotSaved, HalfShaped, Shaped, Shape

WholeInv == task.at # "saved" /\ HalfInv => ShapedInv

\* The invariant of NsDynMem holds then.
LEMMA WholeInvHolds == WholeInv
BY NotSavedMeans DEF NotSaved, WholeInv, HalfInv, ShapedInv

\* The invariant after a step that ends with no region half added.
LEMMA StepKeeps ==
    ASSUME ShapedInv', TaskKept', task'.at # "saved"
    PROVE  HalfInv'
<1>1. NotSaved'
  BY NotSavedMeans, PTL
<1> QED BY <1>1 DEF NotSaved, HalfInv, ShapedInv

\* Where the task can be.
TaskAt ==
    TaskTypeOK =>
        /\ task.at \in {"idle", "checked", "failing", "walk", "saved", "listed"}
        /\ task.at = "idle" => task = Idle
        /\ task.at = "checked" => task \in [at : {"checked"}, bytes : AllocSizes, taken : Int]
        /\ task.at = "failing" => task \in [at : {"failing"}, fail_cnt : 0..(UInt32 - 1)]
        /\ task.at \in {"walk", "saved", "listed"} =>
               task \in [at : {"walk", "saved", "listed"}, region : BigRegions,
                         previous : Addr \cup {0}, cursor : Addr \cup {0}]

\* TaskAt holds in every state.
LEMMA TaskPlaces == TaskAt
BY DEF TaskAt, TaskTypeOK, Idle

\* The region that is being added is a usable argument.
TaskRegion ==
    TaskTypeOK /\ task.at \in {"walk", "saved", "listed"} =>
        /\ task.region \in BigRegions
        /\ TaskStart \in Addr /\ TaskStart \in Int /\ TaskStart # 0
        /\ TaskData \in Nat /\ TaskData >= HOLE_T_SIZE /\ TaskData > 0
        /\ TaskEnd \in Addr /\ TaskEnd \in Int /\ TaskStart + 2 <= TaskEnd
        /\ TaskEnd = TaskStart + TaskData + 1
        /\ CorrectedSize(task.region) \in Nat

\* TaskRegion holds in every state.
LEMMA TaskRegionFacts == TaskRegion
<1> SUFFICES ASSUME TaskTypeOK, task.at \in {"walk", "saved", "listed"}
             PROVE  /\ task.region \in BigRegions
                    /\ TaskStart \in Addr /\ TaskStart \in Int /\ TaskStart # 0
                    /\ TaskData \in Nat /\ TaskData >= HOLE_T_SIZE /\ TaskData > 0
                    /\ TaskEnd \in Addr /\ TaskEnd \in Int /\ TaskStart + 2 <= TaskEnd
                    /\ TaskEnd = TaskStart + TaskData + 1
                    /\ CorrectedSize(task.region) \in Nat
  BY DEF TaskRegion
<1>1. task.region \in BigRegions
  BY TaskPlaces DEF TaskAt
<1>2. /\ TaskStart \in Int /\ CorrectedSize(task.region) \in Int
      /\ Usable(TaskStart, CorrectedSize(task.region))
  BY <1>1, ArgumentFacts DEF TaskStart
<1>3. /\ TaskStart \in Addr /\ TaskData \in Nat /\ TaskData >= HOLE_T_SIZE
      /\ TaskStart + TaskData + 1 \in Addr /\ CorrectedSize(task.region) \in Nat
  BY <1>2, UsableFacts DEF TaskData
<1>4. TaskEnd = TaskStart + TaskData + 1
  BY DEF TaskEnd
<1>5. HOLE_T_SIZE \in Nat /\ HOLE_T_SIZE >= 1
  BY SizesAssumption
<1> QED BY <1>1, <1>3, <1>4, <1>5, Addresses

-----------------------------------------------------------------------------
(* The limit of temporary allocations *)

\* A percentage of the heap is at least what it leaves of every 100 bytes.
LEMMA PercentLeaves ==
    ASSUME NEW size \in Nat, NEW percentage \in Nat, percentage <= 100
    PROVE  PercentLimit(size, percentage) * 100 <= (100 - percentage) * size
<1> DEFINE q == size \div 100
           k == 100 - percentage
<1>1. q \in Nat /\ 100 * q <= size /\ k \in Nat
  OBVIOUS
<1>2. PercentLimit(size, percentage) = q * k
  BY DEF PercentLimit
<1> HIDE DEF q, k
<1>3. k * (100 * q) <= k * size
  BY <1>1
<1>4. (q * k) * 100 = k * (100 * q)
  BY <1>1
<1> QED BY <1>2, <1>3, <1>4 DEF k

\* The limit leaves what the threshold asks for.
LimitLeaves ==
    IF threshold.amount # 0
    THEN temporary_alloc_heap_limit + threshold.amount <= heap_size
    ELSE temporary_alloc_heap_limit * 100 <= (100 - threshold.percentage) * heap_size

DefaultsLeave ==
    /\ heap_size \in Nat /\ threshold = DefaultThreshold
    /\ temporary_alloc_heap_limit = DefaultLimit(heap_size)
    => LimitLeaves

\* The default threshold's limit does.
LEMMA DefaultLeaves == DefaultsLeave
<1> SUFFICES ASSUME heap_size \in Nat, threshold = DefaultThreshold,
                    temporary_alloc_heap_limit = DefaultLimit(heap_size)
             PROVE  LimitLeaves
  BY DEF DefaultsLeave
<1>1. threshold.amount = 0 /\ threshold.percentage = 5
  BY DEF DefaultThreshold, TEMPORARY_ALLOC_FREE_HEAP_THRESHOLD
<1>2. temporary_alloc_heap_limit = PercentLimit(heap_size, 5)
  BY DEF DefaultLimit, TEMPORARY_ALLOC_FREE_HEAP_THRESHOLD
<1>3. PercentLimit(heap_size, 5) * 100 <= (100 - 5) * heap_size
  BY PercentLeaves
<1> QED BY <1>1, <1>2, <1>3 DEF LimitLeaves

\* So does a threshold that is accepted.
LEMMA ThresholdLeaves ==
    ASSUME RestTyped, LimitLeaves, NEW t \in Thresholds,
           ns_mem_set_temporary_alloc_free_heap_threshold(t)
    PROVE  LimitLeaves'
<1> DEFINE limit == ThresholdLimit(t)
<1>1. heap_size \in Nat /\ t \in [percentage : Nat, amount : Nat] /\ heap_size' = heap_size
  BY ArgumentsAssumption
     DEF RestTyped, ns_mem_set_temporary_alloc_free_heap_threshold, regions
<1>2. CASE limit = 0
  BY <1>1, <1>2 DEF LimitLeaves, ns_mem_set_temporary_alloc_free_heap_threshold
<1>3. CASE limit # 0
  <2>1. temporary_alloc_heap_limit' = limit /\ threshold' = t
    BY <1>3 DEF ns_mem_set_temporary_alloc_free_heap_threshold
  <2>2. t.amount \in Nat /\ t.percentage \in Nat
    BY <1>1
  <2>3. CASE t.amount # 0
    <3>1. limit = IF t.amount < heap_size \div 2 THEN heap_size - t.amount ELSE 0
      BY <2>3 DEF ThresholdLimit
    <3>2. limit + t.amount <= heap_size
      BY <1>1, <1>3, <2>2, <3>1
    <3> HIDE DEF limit
    <3> QED BY <1>1, <2>1, <2>3, <3>2 DEF LimitLeaves
  <2>4. CASE t.amount = 0 /\ t.percentage # 0
    <3>1. limit = IF t.percentage < 50 THEN PercentLimit(heap_size, t.percentage) ELSE 0
      BY <2>4 DEF ThresholdLimit
    <3>2. limit * 100 <= (100 - t.percentage) * heap_size
      BY <1>1, <1>3, <2>2, <3>1, PercentLeaves
    <3> HIDE DEF limit
    <3> QED BY <1>1, <2>1, <2>4, <3>2 DEF LimitLeaves
  <2>5. CASE t.amount = 0 /\ t.percentage = 0
    <3>1. limit = heap_size
      BY <2>5 DEF ThresholdLimit
    <3>2. limit * 100 <= (100 - t.percentage) * heap_size
      BY <1>1, <2>5, <3>1
    <3> HIDE DEF limit
    <3> QED BY <1>1, <2>1, <2>5, <3>2 DEF LimitLeaves
  <2> QED BY <2>3, <2>4, <2>5
<1> QED BY <1>2, <1>3

\* What stays free under the limit is what the threshold asks for.
LEMMA LeavesFree ==
    ASSUME RestTyped, LimitLeaves, NEW used \in Int, used <= temporary_alloc_heap_limit,
           NEW free \in Int, free = heap_size - used
    PROVE  IF threshold.amount # 0 THEN free >= threshold.amount
           ELSE free * 100 >= threshold.percentage * heap_size
<1> DEFINE limit == temporary_alloc_heap_limit
           p == threshold.percentage
<1>1. heap_size \in Nat /\ limit \in Nat /\ p \in Nat /\ threshold.amount \in Nat
  BY DEF RestTyped
<1>2. CASE threshold.amount # 0
  BY <1>1, <1>2 DEF LimitLeaves
<1>3. CASE threshold.amount = 0
  <2>1. limit * 100 <= (100 - p) * heap_size
    BY <1>3 DEF LimitLeaves
  <2> HIDE DEF limit, p
  <2>2. (100 - p) * heap_size = 100 * heap_size - p * heap_size
    BY <1>1
  <2>3. p * heap_size \in Int
    BY <1>1
  <2>4. free * 100 >= 100 * heap_size - limit * 100
    BY <1>1 DEF limit
  <2> QED BY <1>1, <1>3, <2>1, <2>2, <2>3, <2>4 DEF p
<1> QED BY <1>2, <1>3

-----------------------------------------------------------------------------
(* Whole calls and the temporary allocation *)

\* What every step has to preserve, and what it means to the clients.
IrqKept ==
    /\ HalfInv' /\ WordsKept
    /\ Promise!HeapNext \/ UNCHANGED Promise!heapVars

\* The limit's part of the invariant.
LEMMA LimitMeans ==
    LimitKept <=> /\ LimitLeaves
                  /\ task.at = "checked" =>
                        mem_stat.heap_sector_allocated_bytes - task.taken <= temporary_alloc_heap_limit
BY DEF LimitKept, LimitLeaves

\* Outside region_add's first steps nothing but the limit ties the task to
\* the heap.
LEMMA NoRegionTask ==
    ASSUME TaskTypeOK', LimitKept', task'.at \notin {"walk", "saved"}
    PROVE  TaskKept'
BY DEF TaskKept, WalkKept, RegionKept

\* A call of an interrupt routine leaves regions, limit and threshold alone.
LEMMA HeapCallLeaves ==
    ASSUME HeapCall
    PROVE  UNCHANGED <<heap_main, heap_main_end, heap_size,
                       temporary_alloc_heap_limit, threshold>>
<1>1. ASSUME NEW bytes, NEW direction, ns_mem_internal_alloc(bytes, direction)
      PROVE  UNCHANGED <<regions, limits>>
  BY <1>1 DEF ns_mem_internal_alloc, AllocRefused, Allocate, AllocNotFound, AllocSplit,
              AllocWhole, HandOut
<1>2. ASSUME NEW b, ns_mem_free(b) PROVE UNCHANGED <<regions, limits>>
  BY <1>2 DEF ns_mem_free, FreeRefused, FreeBlock
<1> QED BY <1>1, <1>2 DEF HeapCall, ns_mem_alloc, ns_mem_temporary_alloc, regions, limits

\* Interrupt: a whole call, counted as taken when the task is past its check.
LEMMA InterruptStep ==
    ASSUME ~ReAddAnyTime, LinksAreNoSizes, ~InterruptRegionAdd, HalfInv, Interrupt
    PROVE  IrqKept
<1>1. /\ task.at \in {"idle", "checked", "failing"} /\ HeapCall /\ CountTaken /\ Next
      /\ TaskTypeOK /\ LimitKept
  <2>1. TaskTypeOK /\ LimitKept
    BY DEF HalfInv, TaskKept
  <2>2. task.at \in {"idle", "checked", "failing"}
    BY <2>1, TaskPlaces DEF TaskAt, Interrupt, RegionSteps
  <2>3. Next
    BY DEF Interrupt, HeapCall, Next
  <2> QED BY <2>1, <2>2, <2>3 DEF Interrupt
<1>2. ShapedInv
  BY <1>1, WholeInvHolds DEF WholeInv
<1>3. Kept
  BY <1>1, <1>2, NextKeeps
<1>4. Promise!HeapNext \/ UNCHANGED Promise!heapVars
  BY <1>1, <1>2, NextRefines
<1>5. mem_stat \in MemStat /\ mem_stat' \in MemStat
  BY <1>2, <1>3 DEF ShapedInv, Kept, RestTyped
<1> DEFINE used == mem_stat.heap_sector_allocated_bytes
           used2 == mem_stat'.heap_sector_allocated_bytes
<1>6. used \in Int /\ used2 \in Int
  BY <1>5 DEF MemStat
<1>7. LimitLeaves' /\ temporary_alloc_heap_limit' = temporary_alloc_heap_limit
  BY <1>1, HeapCallLeaves, LimitMeans DEF LimitLeaves
<1>8. CASE task.at = "checked"
  <2>1. task \in [at : {"checked"}, bytes : AllocSizes, taken : Int]
    BY <1>1, <1>8, TaskPlaces DEF TaskAt
  <2>2. task' = [task EXCEPT !.taken = @ + used2 - used]
    BY <1>1, <1>8 DEF CountTaken
  <2> HIDE DEF used, used2
  <2>3. /\ task' \in [at : {"checked"}, bytes : AllocSizes, taken : Int]
        /\ task'.at = "checked" /\ task'.taken = task.taken + used2 - used
    BY <1>6, <2>1, <2>2
  <2>4. used - task.taken <= temporary_alloc_heap_limit
    BY <1>1, <1>8, LimitMeans DEF used
  <2>5. used2 - task'.taken <= temporary_alloc_heap_limit'
    BY <1>6, <1>7, <2>1, <2>3, <2>4
  <2>6. LimitKept'
    BY <1>7, <2>5 DEF LimitKept, LimitLeaves, used2
  <2>7. TaskTypeOK'
    BY <2>3 DEF TaskTypeOK
  <2> QED BY <1>3, <1>4, <2>3, <2>6, <2>7, NoRegionTask, StepKeeps DEF Kept, IrqKept
<1>9. CASE task.at # "checked"
  <2>1. task' = task
    BY <1>1, <1>9 DEF CountTaken
  <2>2. LimitKept'
    BY <1>7, <1>9, <2>1 DEF LimitKept, LimitLeaves
  <2>3. TaskTypeOK'
    BY <1>1, <2>1 DEF TaskTypeOK
  <2>4. task'.at \notin {"walk", "saved"}
    BY <1>1, <2>1
  <2> QED BY <1>3, <1>4, <2>2, <2>3, <2>4, NoRegionTask, StepKeeps DEF Kept, IrqKept
<1> QED BY <1>8, <1>9

\* A step that changes no variable of the heap.
LEMMA HeapQuiet ==
    ASSUME ShapedInv, UNCHANGED vars
    PROVE  Kept /\ UNCHANGED Promise!heapVars
<1>1. Kept
  <2>1. RestTyped' /\ OnlyFreeReports'
    BY DEF vars, regions, limits, RestTyped, OnlyFreeReports, ShapedInv
  <2> QED BY <2>1, QuietStep DEF vars, regions
<1>2. UNCHANGED Promise!heapVars
  BY <1>1, QuietRefines DEF ShapedInv, Kept, vars, regions
<1> QED BY <1>1, <1>2

\* TemporaryCheck: not over the limit now.
LEMMA TemporaryCheckStep ==
    ASSUME HalfInv, NEW bytes \in AllocSizes, TemporaryCheck(bytes)
    PROVE  IrqKept
<1>1. /\ task.at = "idle" /\ ~OverLimit(1) /\ UNCHANGED vars
      /\ task' = [at |-> "checked", bytes |-> bytes, taken |-> 0]
  BY DEF TemporaryCheck
<1>2. ShapedInv /\ LimitKept
  BY <1>1, WholeInvHolds DEF WholeInv, HalfInv, TaskKept
<1>3. Kept /\ UNCHANGED Promise!heapVars
  BY <1>1, <1>2, HeapQuiet
<1>4. TaskTypeOK'
  BY <1>1 DEF TaskTypeOK
<1>5. LimitKept'
  <2> DEFINE used == mem_stat.heap_sector_allocated_bytes
  <2>1. used \in Int /\ temporary_alloc_heap_limit \in Nat
    BY <1>2 DEF ShapedInv, RestTyped, MemStat
  <2>2. ~(used > temporary_alloc_heap_limit)
    BY <1>1 DEF OverLimit
  <2>3. used' = used /\ temporary_alloc_heap_limit' = temporary_alloc_heap_limit /\ task'.taken = 0
    BY <1>1 DEF vars, limits
  <2>4. used' - task'.taken <= temporary_alloc_heap_limit'
    BY <2>1, <2>2, <2>3
  <2> QED BY <1>1, <1>2, <2>4 DEF LimitKept, vars, limits, regions
<1> QED BY <1>1, <1>3, <1>4, <1>5, NoRegionTask, StepKeeps DEF Kept, IrqKept

\* TemporaryAllocate: the critical section, however much was taken since.
LEMMA TemporaryAllocateStep ==
    ASSUME HalfInv, TemporaryAllocate
    PROVE  IrqKept
<1>1. /\ task.at = "checked" /\ Allocate(task.bytes, 1) /\ task' = Idle
      /\ TaskTypeOK /\ LimitKept
  BY DEF TemporaryAllocate, HalfInv, TaskKept
<1>2. ShapedInv
  BY <1>1, WholeInvHolds DEF WholeInv
<1>3. task.bytes \in AllocSizes
  BY <1>1, TaskPlaces DEF TaskAt
<1>4. Kept
  BY <1>1, <1>2, <1>3, AllocNotFoundStep, AllocSplitStep, AllocWholeStep DEF Allocate
<1>5. Promise!HeapNext \/ UNCHANGED Promise!heapVars
  BY <1>1, <1>2, <1>3, <1>4, AllocateRefines DEF Kept, ShapedInv, Promise!HeapNext
<1>6. UNCHANGED <<regions, limits>>
  BY <1>1 DEF Allocate, AllocNotFound, AllocSplit, AllocWhole, HandOut
<1>7. TaskTypeOK' /\ task'.at = "idle"
  BY <1>1 DEF TaskTypeOK, Idle
<1>8. LimitKept'
  BY <1>1, <1>6, <1>7 DEF LimitKept, regions, limits
<1> QED BY <1>4, <1>5, <1>7, <1>8, NoRegionTask, StepKeeps DEF Kept, IrqKept

\* TemporaryOver: the failure counter is read.
LEMMA TemporaryOverStep ==
    ASSUME HalfInv, TemporaryOver
    PROVE  IrqKept
<1>1. /\ task.at = "idle" /\ UNCHANGED vars
      /\ task' = [at |-> "failing", fail_cnt |-> mem_stat.heap_alloc_fail_cnt]
  BY DEF TemporaryOver
<1>2. ShapedInv /\ LimitKept
  BY <1>1, WholeInvHolds DEF WholeInv, HalfInv, TaskKept
<1>3. Kept /\ UNCHANGED Promise!heapVars
  BY <1>1, <1>2, HeapQuiet
<1>4. mem_stat.heap_alloc_fail_cnt \in 0..(UInt32 - 1)
  BY <1>2 DEF ShapedInv, RestTyped, MemStat
<1>5. TaskTypeOK'
  BY <1>1, <1>4 DEF TaskTypeOK
<1>6. LimitKept'
  BY <1>1, <1>2 DEF LimitKept, vars, limits, regions
<1> QED BY <1>1, <1>3, <1>5, <1>6, NoRegionTask, StepKeeps DEF Kept, IrqKept

\* TemporaryRefused: it is written back, one higher.
LEMMA TemporaryRefusedStep ==
    ASSUME HalfInv, TemporaryRefused
    PROVE  IrqKept
<1>1. /\ task.at = "failing" /\ task' = Idle
      /\ mem_stat' = [mem_stat EXCEPT !.heap_alloc_fail_cnt = (task.fail_cnt + 1) % UInt32]
      /\ last' = [call |-> "temporary_alloc", rc |-> -1, reported |-> {}]
      /\ UNCHANGED <<mem, regions, holes_list, limits, blocks, held, freed>>
      /\ TaskTypeOK /\ LimitKept
  BY DEF TemporaryRefused, Done, AllocCall, HalfInv, TaskKept
<1>2. ShapedInv
  BY <1>1, WholeInvHolds DEF WholeInv
<1>3. task.fail_cnt \in 0..(UInt32 - 1)
  BY <1>1, TaskPlaces DEF TaskAt
<1>4. mem_stat' \in MemStat
  <2>1. (task.fail_cnt + 1) % UInt32 \in 0..(UInt32 - 1)
    BY <1>3, SizesAssumption
  <2> QED BY <1>1, <1>2, <2>1 DEF ShapedInv, RestTyped, MemStat
<1>5. RestTyped' /\ OnlyFreeReports'
  BY <1>1, <1>2, <1>4 DEF ShapedInv, RestTyped, OnlyFreeReports, regions, limits, Calls
<1>6. Kept
  BY <1>1, <1>2, <1>5, QuietStep DEF regions
<1>7. UNCHANGED Promise!heapVars
  BY <1>1, <1>2, <1>6, QuietRefines DEF ShapedInv, Kept, regions
<1>8. TaskTypeOK' /\ task'.at = "idle"
  BY <1>1 DEF TaskTypeOK, Idle
<1>9. LimitKept'
  BY <1>1, <1>8 DEF LimitKept, limits, regions
<1> QED BY <1>6, <1>7, <1>8, <1>9, NoRegionTask, StepKeeps DEF Kept, IrqKept

\* SetThreshold: the new limit leaves what the new threshold asks for.
LEMMA SetThresholdStep ==
    ASSUME HalfInv, SetThreshold
    PROVE  IrqKept
<1>1. task.at = "idle" /\ task' = task /\ TaskTypeOK /\ LimitKept
  BY DEF SetThreshold, HalfInv, TaskKept
<1>2. PICK t \in Thresholds : ns_mem_set_temporary_alloc_free_heap_threshold(t)
  BY DEF SetThreshold
<1>3. ShapedInv
  BY <1>1, WholeInvHolds DEF WholeInv
<1>4. Kept
  BY <1>2, <1>3, ThresholdStep
<1>5. UNCHANGED Promise!heapVars
  BY <1>2, <1>3, <1>4, QuietRefines
     DEF ShapedInv, Kept, ns_mem_set_temporary_alloc_free_heap_threshold, regions
<1>6. LimitLeaves'
  BY <1>1, <1>2, <1>3, LimitMeans, ThresholdLeaves DEF ShapedInv
<1>7. LimitKept'
  BY <1>1, <1>6 DEF LimitKept, LimitLeaves
<1>8. TaskTypeOK'
  BY <1>1 DEF TaskTypeOK
<1> QED BY <1>1, <1>4, <1>5, <1>7, <1>8, NoRegionTask, StepKeeps DEF Kept, IrqKept

-----------------------------------------------------------------------------
(* The walk over holes_list *)

\* A hole is where it is on the list.
LEMMA IndexFound ==
    ASSUME NEW s \in Seq(Addr), Ordered(s), NEW k \in 1..Len(s)
    PROVE  IndexIn(s, s[k]) = k
<1>1. DOMAIN s = 1..Len(s)
  OBVIOUS
<1>2. \A i \in 1..Len(s) : s[i] = s[k] => i = k
  BY <1>1, OrderedInjective DEF IsInjective
<1> QED BY <1>1, <1>2 DEF IndexIn

\* The last of the holes below start among the first n of the list, 0 when
\* there is none.
LowerOf(s, n, start) ==
    LET lower == {i \in 1..n : s[i] < start}
    IN  IF lower = {} THEN 0 ELSE s[Max(lower)]

\* The walk has passed the first n holes.
WalkedTo(n) ==
    /\ n \in 0..Len(holes_list)
    /\ \A i \in 1..n : holes_list[i] # TaskStart
    /\ task.previous = LowerOf(holes_list, n, TaskStart)
    /\ task.cursor = IF n = Len(holes_list) THEN 0 ELSE holes_list[n + 1]

\* What the invariant says of the walk.
WalkIs ==
    /\ holes_list \in Seq(Addr) /\ Ordered(holes_list)
    /\ task.at \in {"walk", "saved"}
    => (WalkKept <=> \E n \in 0..Len(holes_list) : WalkedTo(n))

\* WalkIs holds in every state.
LEMMA WalkMeans == WalkIs
<1> SUFFICES ASSUME holes_list \in Seq(Addr), Ordered(holes_list),
                    task.at \in {"walk", "saved"}
             PROVE  WalkKept <=> \E n \in 0..Len(holes_list) : WalkedTo(n)
  BY DEF WalkIs
<1> DEFINE s == holes_list
           L == Len(holes_list)
<1>1. L \in Nat /\ DOMAIN s = 1..L /\ \A i \in 1..L : s[i] \in Addr
  OBVIOUS
<1>2. Range(s) = {s[i] : i \in 1..L}
  BY <1>1 DEF Range
<1>3. \A i \in 1..L : s[i] # 0
  BY <1>1, Addresses
<1>4. ASSUME NEW n, n \in 0..L, task.cursor = IF n = L THEN 0 ELSE s[n + 1]
      PROVE  Passed = 1..n
  <2>1. CASE n = L
    BY <1>1, <1>4, <2>1 DEF Passed
  <2>2. CASE n # L
    <3>1. n + 1 \in 1..L
      <4> HIDE DEF L
      <4> QED BY <1>1, <1>4, <2>2
    <3>2. task.cursor = s[n + 1] /\ task.cursor # 0
      BY <1>3, <1>4, <2>2, <3>1
    <3>3. IndexIn(s, task.cursor) = n + 1
      BY <3>1, <3>2, IndexFound
    <3>4. Passed = {i \in 1..L : i < n + 1}
      BY <1>1, <3>2, <3>3 DEF Passed
    <3> HIDE DEF L
    <3> QED BY <1>1, <1>4, <3>1, <3>4
  <2> QED BY <2>1, <2>2
<1>5. ASSUME WalkKept PROVE \E n \in 0..L : WalkedTo(n)
  <2>1. /\ task.cursor \in Range(s) \cup {0}
        /\ \A i \in Passed : s[i] # TaskStart
        /\ task.previous = LET lower == {i \in Passed : s[i] < TaskStart}
                           IN  IF lower = {} THEN 0 ELSE s[Max(lower)]
    BY <1>5 DEF WalkKept
  <2>2. PICK n \in 0..L : task.cursor = IF n = L THEN 0 ELSE s[n + 1]
    <3>1. CASE task.cursor = 0
      <4>1. L \in 0..L /\ task.cursor = IF L = L THEN 0 ELSE s[L + 1]
        BY <1>1, <3>1
      <4> QED BY <4>1
    <3>2. CASE task.cursor # 0
      <4>1. PICK i \in 1..L : task.cursor = s[i]
        BY <1>2, <2>1, <3>2
      <4>2. i - 1 \in 0..L /\ i - 1 # L /\ (i - 1) + 1 = i
        BY <1>1
      <4> QED BY <4>1, <4>2
    <3> QED BY <3>1, <3>2
  <2>3. Passed = 1..n
    BY <1>4, <2>2
  <2> QED BY <2>1, <2>2, <2>3 DEF WalkedTo, LowerOf
<1>6. ASSUME NEW n, n \in 0..L, WalkedTo(n) PROVE WalkKept
  <2>1. /\ task.cursor = IF n = L THEN 0 ELSE s[n + 1]
        /\ \A i \in 1..n : s[i] # TaskStart
        /\ task.previous = LowerOf(s, n, TaskStart)
    BY <1>6 DEF WalkedTo
  <2>2. Passed = 1..n
    BY <1>4, <1>6, <2>1
  <2>3. task.cursor \in Range(s) \cup {0}
    <3>1. n # L => n + 1 \in 1..L
      <4> HIDE DEF L
      <4> QED BY <1>1, <1>6
    <3> QED BY <1>2, <2>1, <3>1
  <2> QED BY <2>1, <2>2, <2>3 DEF WalkKept, LowerOf
<1> QED BY <1>5, <1>6

\* One hole further.
LEMMA LowerNext ==
    ASSUME NEW s \in Seq(Addr), NEW n \in Nat, n < Len(s), NEW start
    PROVE  LowerOf(s, n + 1, start) = IF s[n + 1] < start THEN s[n + 1]
                                      ELSE LowerOf(s, n, start)
<1> DEFINE low == {i \in 1..n : s[i] < start}
           low2 == {i \in 1..(n + 1) : s[i] < start}
<1>1. LowerOf(s, n, start) = IF low = {} THEN 0 ELSE s[Max(low)]
  BY DEF LowerOf
<1>2. LowerOf(s, n + 1, start) = IF low2 = {} THEN 0 ELSE s[Max(low2)]
  BY DEF LowerOf
<1>3. CASE s[n + 1] < start
  <2>1. n + 1 \in low2 /\ low2 \subseteq 1..(n + 1) /\ n + 1 \in Nat /\ low2 # {}
    BY <1>3
  <2> HIDE DEF low2
  <2>2. Max(low2) \in low2 /\ n + 1 <= Max(low2)
    BY <2>1, MaxIsGreatest
  <2>3. Max(low2) \in 1..(n + 1)
    BY <2>1, <2>2
  <2>4. Max(low2) = n + 1
    BY <2>2, <2>3
  <2> QED BY <1>2, <1>3, <2>1, <2>4
<1>4. CASE ~(s[n + 1] < start)
  <2>1. low2 = low
    BY <1>4
  <2> QED BY <1>1, <1>2, <1>4, <2>1
<1> QED BY <1>3, <1>4

\* The facts that a step of region_add starts from.
WalkFacts ==
    HalfInv => /\ holes_list \in Seq(Addr) /\ Ordered(holes_list)
               /\ TaskTypeOK /\ WalkKept /\ RegionKept /\ LimitKept
               /\ freed \subseteq Addr

\* WalkFacts holds in every state.
LEMMA WalkFactsHold == WalkFacts
BY DEF WalkFacts, HalfInv, HalfShaped, Lists, TaskKept, RestTyped

\* RegionStart: the tags are written, the walk is at the first hole.
LEMMA RegionStartStep ==
    ASSUME HalfInv, NEW r \in Regions, RegionStart(r)
    PROVE  IrqKept
<1> DEFINE start == AlignedStart(r)
           data == DataWords(CorrectedSize(r))
           first == IF holes_list = << >> THEN 0 ELSE Head(holes_list)
<1>1. /\ task.at = "idle" /\ r \in BigRegions /\ NotInUse(start, data)
      /\ mem' = WriteTags(mem, start, -data)
      /\ task' = [at |-> "walk", region |-> r, previous |-> 0, cursor |-> first]
      /\ UNCHANGED <<heap_main, heap_main_end, heap_size, holes_list, limits, mem_stat,
                     blocks, held, freed, last>>
  BY DEF RegionStart, BigRegions, regions
<1>2. ShapedInv /\ LimitKept /\ holes_list \in Seq(Addr) /\ Ordered(holes_list)
  BY <1>1, WholeInvHolds, WalkFactsHold DEF WholeInv, WalkFacts
<1>3. /\ Shaped' /\ RegionsApart' /\ WordsKept
      /\ mem'[start] = -data /\ mem'[start + data + 1] = -data
  BY <1>1, <1>2, RegionTagged
<1>4. RestTyped' /\ OnlyFreeReports'
  BY <1>1, <1>2 DEF ShapedInv, RestTyped, OnlyFreeReports, limits
<1>5. ShapedInv'
  BY <1>3, <1>4 DEF ShapedInv
<1>6. UNCHANGED Promise!heapVars
  BY <1>1, <1>2, <1>3, QuietRefines DEF ShapedInv
<1> HIDE DEF first
<1>7. /\ TaskStart' = start /\ TaskData' = data /\ TaskEnd' = start + data + 1
      /\ task'.at = "walk" /\ task'.previous = 0 /\ task'.cursor = first
  BY <1>1 DEF TaskStart, TaskData, TaskEnd
<1>8. first = (IF 0 = Len(holes_list) THEN 0 ELSE holes_list[0 + 1]) /\ first \in Addr \cup {0}
  BY <1>2 DEF first
<1>9. TaskTypeOK'
  BY <1>1, <1>8 DEF TaskTypeOK
<1>10. RegionKept'
  <2>1. NotInUse(TaskStart, TaskData)'
    BY <1>1, <1>3, <1>7 DEF NotInUse
  <2> QED BY <1>3, <1>7, <2>1 DEF RegionKept
<1>11. WalkKept'
  <2>1. LowerOf(holes_list, 0, start) = 0
    BY DEF LowerOf
  <2>2. WalkedTo(0)'
    BY <1>1, <1>2, <1>7, <1>8, <2>1 DEF WalkedTo
  <2>3. 0 \in 0..Len(holes_list')
    BY <1>1, <1>2
  <2>4. WalkIs'
    BY WalkMeans, PTL
  <2> QED BY <1>1, <1>2, <1>7, <2>2, <2>3, <2>4 DEF WalkIs
<1>12. LimitKept'
  BY <1>1, <1>2, <1>7 DEF LimitKept, limits
<1> QED BY <1>3, <1>5, <1>6, <1>7, <1>9, <1>10, <1>11, <1>12, StepKeeps DEF TaskKept, IrqKept

\* RegionWalk: one hole further, never off the list.
LEMMA RegionWalkStep ==
    ASSUME HalfInv, RegionWalk
    PROVE  IrqKept
<1>1. /\ task.at = "walk" /\ task.cursor \notin {0, TaskStart} /\ UNCHANGED vars
      /\ task' = IF task.cursor \notin Range(holes_list) THEN [at |-> "lost"]
                 ELSE [task EXCEPT
                          !.previous = IF task.cursor < TaskStart THEN task.cursor ELSE @,
                          !.cursor = NextHole(task.cursor)]
  BY DEF RegionWalk, TaskStart
<1>2. /\ holes_list \in Seq(Addr) /\ Ordered(holes_list)
      /\ TaskTypeOK /\ WalkKept /\ RegionKept /\ LimitKept
  BY WalkFactsHold DEF WalkFacts
<1>3. ShapedInv
  BY <1>1, WholeInvHolds DEF WholeInv
<1>4. Kept /\ UNCHANGED Promise!heapVars
  BY <1>1, <1>3, HeapQuiet
<1>5. task \in [at : {"walk", "saved", "listed"}, region : BigRegions,
                previous : Addr \cup {0}, cursor : Addr \cup {0}]
  BY <1>1, <1>2, TaskPlaces DEF TaskAt
<1>6. PICK n \in 0..Len(holes_list) : WalkedTo(n)
  BY <1>1, <1>2, WalkMeans DEF WalkIs
<1> DEFINE s == holes_list
           L == Len(holes_list)
           c == task.cursor
           prev == IF c < TaskStart THEN c ELSE task.previous
<1>7. /\ n # L /\ n \in Nat /\ L \in Nat /\ n < L /\ n + 1 \in 1..L
      /\ c = s[n + 1] /\ c \in Addr /\ c # TaskStart
      /\ \A i \in 1..n : s[i] # TaskStart
      /\ task.previous = LowerOf(s, n, TaskStart)
  BY <1>1, <1>2, <1>6 DEF WalkedTo
<1>8. IndexIn(s, c) = n + 1
  BY <1>2, <1>7, IndexFound
<1>9. /\ NextHole(c) = (IF n + 1 = L THEN 0 ELSE s[(n + 1) + 1])
      /\ NextHole(c) \in Addr \cup {0}
  BY <1>2, <1>7, <1>8 DEF NextHole
<1>10. c \in Range(s)
  BY <1>2, <1>7 DEF Range
<1>11. task' = [task EXCEPT !.previous = prev, !.cursor = NextHole(c)]
  BY <1>1, <1>10
<1>12. prev \in Addr \cup {0}
  BY <1>5, <1>7
<1>13. prev = LowerOf(s, n + 1, TaskStart)
  BY <1>2, <1>7, LowerNext
<1> HIDE DEF c, prev
<1>14. /\ task' \in [at : {"walk", "saved", "listed"}, region : BigRegions,
                     previous : Addr \cup {0}, cursor : Addr \cup {0}]
       /\ task'.at = "walk" /\ task'.region = task.region
       /\ task'.previous = prev /\ task'.cursor = NextHole(c)
  BY <1>1, <1>5, <1>9, <1>11, <1>12
<1>15. TaskStart' = TaskStart /\ TaskData' = TaskData /\ TaskEnd' = TaskEnd
  BY <1>14 DEF TaskStart, TaskData, TaskEnd
<1>16. UNCHANGED <<mem, holes_list, heap_main, heap_size, limits, mem_stat>>
  BY <1>1 DEF vars, regions
<1>17. WalkKept'
  <2>1. \A i \in 1..(n + 1) : s[i] # TaskStart
    BY <1>7 DEF c
  <2>2. n + 1 \in 0..L
    BY <1>7
  <2> DEFINE n2 == n + 1
  <2>3. NextHole(c) = IF n2 = L THEN 0 ELSE s[n2 + 1]
    BY <1>9
  <2> HIDE DEF n2
  <2>4. WalkedTo(n2)'
    BY <1>13, <1>14, <1>15, <1>16, <2>1, <2>2, <2>3 DEF WalkedTo, n2
  <2>5. n2 \in 0..Len(holes_list')
    BY <1>16, <2>2 DEF n2
  <2>6. WalkIs'
    BY WalkMeans, PTL
  <2> QED BY <1>2, <1>14, <1>16, <2>4, <2>5, <2>6 DEF WalkIs
<1>18. RegionKept'
  BY <1>1, <1>2, <1>14, <1>15, <1>16 DEF RegionKept, NotInUse
<1>19. LimitKept'
  BY <1>2, <1>14, <1>16 DEF LimitKept, limits
<1>20. TaskTypeOK'
  BY <1>14 DEF TaskTypeOK
<1> QED BY <1>4, <1>14, <1>17, <1>18, <1>19, <1>20, StepKeeps DEF Kept, TaskKept, IrqKept

-----------------------------------------------------------------------------
(* The rest of ns_mem_region_add *)

\* RegionRefuse: nothing is left of the call but tags that nobody reads.
LEMMA RegionRefuseStep ==
    ASSUME HalfInv, RegionRefuse
    PROVE  IrqKept
<1>1. /\ task.at = "walk" /\ task' = Idle
      /\ \E rc \in {-2, -3} : last' = [call |-> "region_add", rc |-> rc, reported |-> {}]
      /\ UNCHANGED <<mem, regions, holes_list, limits, mem_stat, blocks, held, freed>>
  BY DEF RegionRefuse, Done
<1>2. ShapedInv /\ LimitKept
  BY <1>1, WholeInvHolds DEF WholeInv, HalfInv, TaskKept
<1>3. RestTyped' /\ OnlyFreeReports'
  BY <1>1, <1>2 DEF ShapedInv, RestTyped, OnlyFreeReports, regions, limits, Calls
<1>4. Kept
  BY <1>1, <1>2, <1>3, QuietStep DEF regions
<1>5. UNCHANGED Promise!heapVars
  BY <1>1, <1>2, <1>4, QuietRefines DEF ShapedInv, Kept, regions
<1>6. TaskTypeOK' /\ task'.at = "idle"
  BY <1>1 DEF TaskTypeOK, Idle
<1>7. LimitKept'
  BY <1>1, <1>2, <1>6 DEF LimitKept, limits, regions
<1> QED BY <1>4, <1>5, <1>6, <1>7, NoRegionTask, StepKeeps DEF Kept, IrqKept

\* RegionSave: the region gets its slot; its hole is not on the list yet.
LEMMA RegionSaveStep ==
    ASSUME HalfInv, RegionSave
    PROVE  IrqKept
<1> DEFINE r == task.region
           start == TaskStart
           hi == TaskEnd
           k == Min(FreeSlots)
<1>1. /\ task.at = "walk" /\ task.cursor = 0 /\ FreeSlots # {}
      /\ ns_dyn_mem_region_save(AlignedStart(r), CorrectedSize(r) \div WordSize - 1)
      /\ blocks' = blocks \cup {start}
      /\ task' = [task EXCEPT !.at = "saved"]
      /\ UNCHANGED <<mem, heap_size, holes_list, limits, mem_stat, held, freed, last>>
  BY DEF RegionSave, TaskStart
<1>2. /\ holes_list \in Seq(Addr) /\ Ordered(holes_list)
      /\ TaskTypeOK /\ WalkKept /\ RegionKept /\ LimitKept /\ freed \subseteq Addr
  BY WalkFactsHold DEF WalkFacts
<1>3. ShapedInv
  BY <1>1, WholeInvHolds DEF WholeInv
<1>4. /\ r \in BigRegions /\ start \in Addr /\ start \in Int /\ hi \in Addr /\ hi \in Int
      /\ start + 2 <= hi /\ hi = start + TaskData + 1 /\ TaskData \in Nat
      /\ TaskData >= HOLE_T_SIZE
      /\ start = AlignedStart(r) /\ hi = AlignedStart(r) + DataWords(CorrectedSize(r)) + 1
  BY <1>1, <1>2, TaskRegionFacts DEF TaskRegion, TaskStart, TaskData, TaskEnd
<1>5. /\ mem[start] = -TaskData /\ mem[hi] = -TaskData /\ NotInUse(start, TaskData)
  BY <1>1, <1>2 DEF RegionKept
<1>6. start \notin Range(holes_list)
  <2>1. Passed = DOMAIN holes_list
    BY <1>1 DEF Passed
  <2> QED BY <1>1, <1>2, <2>1 DEF WalkKept, Range
<1>7. \A i \in Slots : heap_main[i] # AlignedStart(r)
  BY <1>4, <1>5, <1>6 DEF NotInUse
<1>8. RegionsApart' /\ Grows(k, start, hi)
  BY <1>1, <1>3, <1>4, <1>7, RegionGrows
<1>9. /\ k \in Slots /\ heap_main[k] = 0
      /\ NoRegionHas(heap_main, heap_main_end, start, hi)
      /\ heap_main' = [heap_main EXCEPT ![k] = start]
      /\ heap_main_end' = [heap_main_end EXCEPT ![k] = hi]
  BY <1>8 DEF Grows
<1>10. start \notin blocks
  BY <1>3, <1>4, <1>7, ListedRegion
<1>11. /\ Shape(mem, blocks, heap_main, heap_main_end, holes_list, held, freed)
       /\ Laid(mem, blocks, heap_main, heap_main_end)
       /\ Lists(holes_list, Holes(mem, blocks))
       /\ KeepsFreed(freed, mem, blocks) /\ mem \in [Addr -> Int]
  BY <1>3, LaidTypes DEF ShapedInv, Shaped, Shape
<1>12. WordsKept
  BY <1>1 DEF WordsKept
<1>13. Promise!Grow
  BY <1>3, <1>8, <1>12, GrowRefines DEF ShapedInv
<1>14. RestTyped' /\ OnlyFreeReports'
  BY <1>1, <1>3 DEF ShapedInv, RestTyped, OnlyFreeReports, limits
<1>15. task \in [at : {"walk", "saved", "listed"}, region : BigRegions,
                 previous : Addr \cup {0}, cursor : Addr \cup {0}]
  BY <1>1, <1>2, TaskPlaces DEF TaskAt
<1> HIDE DEF r, start, hi, k
<1>16. /\ task' \in [at : {"walk", "saved", "listed"}, region : BigRegions,
                     previous : Addr \cup {0}, cursor : Addr \cup {0}]
       /\ task'.at = "saved" /\ task'.region = task.region
       /\ task'.previous = task.previous /\ task'.cursor = 0
  BY <1>1, <1>15
<1>17. TaskStart' = start /\ TaskData' = TaskData /\ TaskEnd' = hi
  BY <1>16 DEF TaskStart, TaskData, TaskEnd, start, hi
<1>18. HalfShaped'
  <2>1. /\ hi - start - 1 >= HOLE_T_SIZE
        /\ mem[start] = -(hi - start - 1) /\ mem[hi] = mem[start]
    BY <1>4, <1>5
  <2>2. WritesIn(mem, mem, start, hi)
    BY <1>11 DEF WritesIn
  <2>3. Shape(mem, blocks \cup {start}, [heap_main EXCEPT ![k] = start],
              [heap_main_end EXCEPT ![k] = hi], AddAfterLower(holes_list, start),
              held, freed)
    BY <1>2, <1>4, <1>9, <1>11, <2>1, <2>2, AddShape
  <2>4. /\ Laid(mem', blocks', heap_main', heap_main_end')
        /\ Holds(held', mem', blocks') /\ KeepsFreed(freed', mem', blocks')
    BY <1>1, <1>9, <2>3 DEF Shape
  <2>5. Holes(mem, blocks \cup {start}) \ {start} = Holes(mem, blocks)
    BY <1>10 DEF Holes
  <2>6. Saved' = {start}
    BY <1>16, <1>17 DEF Saved
  <2>7. Lists(holes_list', Holes(mem', blocks') \ Saved')
    BY <1>1, <1>11, <2>5, <2>6
  <2> QED BY <2>4, <2>7 DEF HalfShaped
<1>19. WalkKept'
  <2>1. Passed' = Passed
    BY <1>1, <1>16 DEF Passed
  <2>2. TaskStart' = TaskStart
    BY <1>17 DEF start
  <2> QED BY <1>1, <1>2, <1>16, <2>1, <2>2 DEF WalkKept
<1>20. RegionKept'
  <2>1. \A b \in freed : b \notin start..hi
    <3> SUFFICES ASSUME NEW b \in freed PROVE b \notin start..hi
      OBVIOUS
    <3>1. b \in Int /\ (b < start \/ b > hi)
      BY <1>2, <1>4, <1>9, <1>11, FreedApart
    <3> QED BY <1>4, <3>1
  <2> QED BY <1>1, <1>5, <1>16, <1>17, <2>1 DEF RegionKept
<1>21. LimitKept'
  BY <1>1, <1>2, <1>16 DEF LimitKept, limits
<1>22. TaskTypeOK'
  BY <1>16 DEF TaskTypeOK
<1>23. HalfInv'
  BY <1>8, <1>14, <1>18, <1>19, <1>20, <1>21, <1>22 DEF HalfInv, TaskKept
<1> QED BY <1>12, <1>13, <1>23 DEF IrqKept, Promise!HeapNext

\* RegionList: the hole goes where AddAfterLower would put it, and its links
\* land between its own tags.
LEMMA RegionListStep ==
    ASSUME HalfInv, RegionList
    PROVE  /\ IrqKept
           /\ held' = held /\ \A b \in DOMAIN held : mem'[b] = mem[b]
<1> DEFINE start == TaskStart
           hi == TaskEnd
           known == task.previous = 0 \/ task.previous \in Range(holes_list)
           at == IF task.previous = 0 THEN 1 ELSE IndexIn(holes_list, task.previous) + 1
<1>1. /\ task.at = "saved"
      /\ mem' = IF known THEN WriteHole(mem, start) ELSE mem
      /\ holes_list' = IF known THEN InsertAt(holes_list, at, start) ELSE holes_list
      /\ task' = IF known THEN [task EXCEPT !.at = "listed"] ELSE [at |-> "lost"]
      /\ UNCHANGED <<regions, limits, mem_stat, blocks, held, freed, last>>
  BY DEF RegionList, TaskStart
<1>2. /\ holes_list \in Seq(Addr) /\ Ordered(holes_list)
      /\ TaskTypeOK /\ WalkKept /\ RegionKept /\ LimitKept /\ freed \subseteq Addr
  BY WalkFactsHold DEF WalkFacts
<1>3. /\ start \in Addr /\ start \in Int /\ start # 0 /\ hi \in Addr /\ hi \in Int
      /\ hi = start + TaskData + 1 /\ TaskData \in Nat /\ TaskData >= HOLE_T_SIZE
      /\ TaskData > 0
  BY <1>1, <1>2, TaskRegionFacts DEF TaskRegion
<1>4. /\ mem[start] = -TaskData /\ mem[hi] = -TaskData /\ task.cursor = 0
      /\ start \in blocks /\ \A b \in freed : b \notin start..hi
  BY <1>1, <1>2 DEF RegionKept
<1>5. /\ Laid(mem, blocks, heap_main, heap_main_end)
      /\ Lists(holes_list, Holes(mem, blocks) \ {start})
      /\ Holds(held, mem, blocks) /\ KeepsFreed(freed, mem, blocks)
      /\ mem \in [Addr -> Int]
  BY <1>1, LaidTypes DEF HalfInv, HalfShaped, Saved
<1>6. known /\ InsertAt(holes_list, at, start) = AddAfterLower(holes_list, start)
  <2> DEFINE s == holes_list
             lower == {i \in DOMAIN s : s[i] < start}
  <2>1. Passed = DOMAIN s
    BY <1>4 DEF Passed
  <2>2. task.previous = IF lower = {} THEN 0 ELSE s[Max(lower)]
    BY <1>1, <1>2, <2>1 DEF WalkKept
  <2>3. AddAfterLower(s, start) = InsertAt(s, IF lower = {} THEN 1 ELSE Max(lower) + 1, start)
    BY DEF AddAfterLower
  <2>4. CASE lower = {}
    BY <2>2, <2>3, <2>4
  <2>5. CASE lower # {}
    <3>1. Len(s) \in Nat /\ DOMAIN s = 1..Len(s) /\ lower \subseteq 1..Len(s)
      BY <1>2
    <3>2. Max(lower) \in lower
      BY <2>5, <3>1, MaxIsGreatest
    <3>3. Max(lower) \in 1..Len(s) /\ s[Max(lower)] \in Addr /\ s[Max(lower)] # 0
      BY <1>2, <3>1, <3>2, Addresses
    <3>4. IndexIn(s, s[Max(lower)]) = Max(lower)
      BY <1>2, <3>3, IndexFound
    <3>5. task.previous \in Range(s)
      BY <2>2, <2>5, <3>1, <3>3 DEF Range
    <3> QED BY <2>2, <2>3, <2>5, <3>3, <3>4, <3>5
  <2> QED BY <2>4, <2>5
<1>7. /\ mem' = WriteHole(mem, start) /\ holes_list' = AddAfterLower(holes_list, start)
      /\ task' = [task EXCEPT !.at = "listed"]
  BY <1>1, <1>6
<1>8. task'.at = "listed" /\ TaskTypeOK'
  <2>1. task \in [at : {"walk", "saved", "listed"}, region : BigRegions,
                  previous : Addr \cup {0}, cursor : Addr \cup {0}]
    BY <1>1, <1>2, TaskPlaces DEF TaskAt
  <2>2. /\ task' \in [at : {"walk", "saved", "listed"}, region : BigRegions,
                      previous : Addr \cup {0}, cursor : Addr \cup {0}]
        /\ task'.at = "listed"
    BY <1>7, <2>1
  <2> QED BY <2>2 DEF TaskTypeOK
<1> HIDE DEF start, hi, known, at
<1>9. BlockEnd(mem, start) = hi
  BY <1>3, <1>4, <1>5, BlockFacts
<1>10. WritesIn(mem, mem', start + 1, hi - 1)
  <2>1. HOLE_T_SIZE \in Nat /\ LinkWord \in Int
    BY SizesAssumption
  <2>2. FilledIn(mem', mem, start + 1, start + HOLE_T_SIZE, LinkWord)
    <3>1. start + 1 \in Int /\ start + HOLE_T_SIZE \in Int
      BY <1>3, <2>1
    <3>2. mem' = Fill(mem, start + 1, start + HOLE_T_SIZE, LinkWord)
      BY <1>7 DEF WriteHole
    <3> QED BY <1>5, <2>1, <3>1, <3>2, Filled
  <2>3. \A a \in Addr : a < start + 1 \/ a > hi - 1 =>
            a < start + 1 \/ a > start + HOLE_T_SIZE
    BY <1>3, <2>1, Addresses
  <2> QED BY <2>2, <2>3 DEF FilledIn, WritesIn
<1>11. \A f \in freed : f < start \/ f > BlockEnd(mem, start)
  BY <1>2, <1>3, <1>4, <1>9, Addresses
<1>12. /\ Laid(mem', blocks, heap_main, heap_main_end) /\ Holds(held, mem', blocks)
       /\ KeepsFreed(freed, mem', blocks) /\ Holes(mem', blocks) = Holes(mem, blocks)
       /\ \A x \in blocks : mem'[x] = mem[x]
  BY <1>2, <1>4, <1>5, <1>9, <1>10, <1>11, BodyShape
<1>13. Lists(AddAfterLower(holes_list, start), Holes(mem, blocks))
  <2>1. start \in Holes(mem, blocks)
    <3>1. -mem[start] >= HOLE_T_SIZE
      BY <1>3, <1>4, SizesAssumption
    <3> QED BY <1>4, <3>1 DEF Holes
  <2>2. start \notin Range(holes_list) /\ Range(holes_list) \cup {start} = Holes(mem, blocks)
    BY <1>5, <2>1 DEF Lists
  <2> QED BY <1>2, <1>3, <2>2, AfterLowerPlace
<1>14. Shaped'
  BY <1>1, <1>7, <1>12, <1>13 DEF Shaped, Shape, regions
<1>15. ShapedInv'
  <2>1. RestTyped' /\ OnlyFreeReports' /\ RegionsApart'
    BY <1>1 DEF HalfInv, RestTyped, OnlyFreeReports, RegionsApart, regions, limits
  <2> QED BY <1>14, <2>1 DEF ShapedInv
<1>16. \A b \in DOMAIN held : b \in blocks /\ mem[b] > 0 /\ b \in Int
  BY <1>5, BlockFacts DEF Holds
<1>17. WordsKept
  <2> SUFFICES ASSUME NEW b \in DOMAIN held, NEW a \in b..LastWord(b) PROVE mem'[a] = mem[a]
    BY <1>1 DEF WordsKept
  <2>1. b \in blocks /\ b # start
    BY <1>3, <1>4, <1>16
  <2>2. /\ b \in Int /\ BlockEnd(mem, b) \in Int /\ b + 2 <= BlockEnd(mem, b)
        /\ start > b => start > BlockEnd(mem, b)
    BY <1>4, <1>5, <2>1, BlockFacts
  <2>3. b > start => b > hi
    BY <1>4, <1>5, <1>9, <2>1, BlockFacts
  <2>4. BlockEnd(mem, b) < start + 1 \/ b > hi - 1
    BY <1>3, <2>1, <2>2, <2>3
  <2>5. LastWord(b) = BlockEnd(mem, b) /\ start + 1 \in Int /\ hi - 1 \in Int
    BY <1>3 DEF LastWord, BlockEnd
  <2> QED BY <1>5, <1>10, <2>1, <2>4, <2>5, WordsOutside
<1>18. held' = held /\ \A b \in DOMAIN held : b \in Int /\ mem'[b] = mem[b]
  BY <1>1, <1>12, <1>16
<1>19. UNCHANGED Promise!heapVars
  <2>1. Taken' = Taken
    BY <1>18, TakenSame
  <2>2. Area' = Area
    BY <1>1, AreaKept DEF regions
  <2> QED BY <2>1, <2>2 DEF Promise!heapVars
<1>20. LimitKept'
  BY <1>1, <1>2, <1>8 DEF LimitKept, limits, regions
<1> QED BY <1>8, <1>15, <1>17, <1>18, <1>19, <1>20, NoRegionTask, StepKeeps DEF IrqKept

\* RegionEnd: the heap is larger and its limit the default one.
LEMMA RegionEndStep ==
    ASSUME HalfInv, RegionEnd
    PROVE  IrqKept
<1> DEFINE size == CorrectedSize(task.region)
<1>1. /\ task.at = "listed" /\ heap_size' = heap_size + size
      /\ temporary_alloc_heap_limit' = DefaultLimit(heap_size')
      /\ mem_stat' = [mem_stat EXCEPT !.heap_sector_size = heap_size']
      /\ threshold' = DefaultThreshold /\ task' = Idle
      /\ last' = [call |-> "region_add", rc |-> 0, reported |-> {}]
      /\ UNCHANGED <<mem, heap_main, heap_main_end, holes_list, blocks, held, freed>>
  BY DEF RegionEnd, Done, GrownSize
<1>2. ShapedInv /\ TaskTypeOK
  BY <1>1, WholeInvHolds DEF WholeInv, HalfInv, TaskKept
<1>3. size \in Nat
  BY <1>1, <1>2, TaskRegionFacts DEF TaskRegion
<1> HIDE DEF size
<1>4. RestTyped' /\ OnlyFreeReports'
  BY <1>1, <1>2, <1>3, HeapGrown DEF ShapedInv
<1>5. Kept
  BY <1>1, <1>2, <1>4, QuietStep
<1>6. UNCHANGED Promise!heapVars
  BY <1>1, <1>2, <1>5, QuietRefines DEF ShapedInv, Kept
<1>7. TaskTypeOK' /\ task'.at = "idle"
  BY <1>1 DEF TaskTypeOK, Idle
<1>8. heap_size' \in Nat
  BY <1>4 DEF RestTyped
<1>9. LimitLeaves'
  <2>1. DefaultsLeave'
    BY DefaultLeaves, PTL
  <2> QED BY <1>1, <1>8, <2>1 DEF DefaultsLeave
<1>10. LimitKept'
  BY <1>7, <1>9 DEF LimitKept, LimitLeaves
<1> QED BY <1>5, <1>6, <1>7, <1>10, NoRegionTask, StepKeeps DEF Kept, IrqKept

-----------------------------------------------------------------------------
(* Theorems *)

\* Every step keeps the invariant, and is a step of the abstract heap.
LEMMA IrqNextKeeps ==
    ASSUME ~ReAddAnyTime, LinksAreNoSizes, ~InterruptRegionAdd, HalfInv,
           [IrqNext]_irqVars
    PROVE  IrqKept
<1>1. CASE Interrupt
  BY <1>1, InterruptStep
<1>2. CASE \E bytes \in AllocSizes : TemporaryCheck(bytes)
  BY <1>2, TemporaryCheckStep
<1>3. CASE TemporaryAllocate
  BY <1>3, TemporaryAllocateStep
<1>4. CASE TemporaryOver
  BY <1>4, TemporaryOverStep
<1>5. CASE TemporaryRefused
  BY <1>5, TemporaryRefusedStep
<1>6. CASE \E r \in Regions : RegionStart(r)
  BY <1>6, RegionStartStep
<1>7. CASE RegionWalk
  BY <1>7, RegionWalkStep
<1>8. CASE RegionRefuse
  BY <1>8, RegionRefuseStep
<1>9. CASE RegionSave
  BY <1>9, RegionSaveStep
<1>10. CASE RegionList
  BY <1>10, RegionListStep
<1>11. CASE RegionEnd
  BY <1>11, RegionEndStep
<1>12. CASE SetThreshold
  BY <1>12, SetThresholdStep
<1>13. CASE UNCHANGED irqVars
  <2>1. UNCHANGED vars /\ UNCHANGED task
    BY <1>13 DEF irqVars
  <2>2. UNCHANGED <<mem, heap_main, heap_main_end, heap_size, holes_list,
                    temporary_alloc_heap_limit, threshold, mem_stat, blocks, held, freed, last>>
    BY <2>1 DEF vars, regions, limits
  <2>3. HalfInv'
    <3>1. HalfShaped'
      BY <2>1, <2>2 DEF HalfInv, HalfShaped, Saved, TaskStart
    <3>2. TaskKept'
      BY <2>1, <2>2
         DEF HalfInv, TaskKept, TaskTypeOK, WalkKept, Passed, RegionKept, LimitKept,
             TaskStart, TaskData, TaskEnd, NotInUse
    <3>3. RestTyped' /\ RegionsApart' /\ OnlyFreeReports'
      BY <2>2 DEF HalfInv, RestTyped, RegionsApart, OnlyFreeReports
    <3> QED BY <3>1, <3>2, <3>3 DEF HalfInv
  <2>4. WordsKept
    BY <2>2 DEF WordsKept
  <2>5. UNCHANGED Promise!heapVars
    BY <2>2 DEF Promise!heapVars, Area, Taken
  <2> QED BY <2>3, <2>4, <2>5 DEF IrqKept
<1> QED BY <1>1, <1>2, <1>3, <1>4, <1>5, <1>6, <1>7, <1>8, <1>9, <1>10, <1>11, <1>12, <1>13
        DEF IrqNext, Task

\* The invariant holds at the start.
LEMMA IrqInitInv == IrqInit => IrqInv
<1> SUFFICES ASSUME IrqInit PROVE HalfInv
  BY IrqInvMeans DEF SameIrqInv
<1>1. Init /\ task = Idle /\ task.at = "idle"
  BY DEF IrqInit, Idle
<1>2. ShapedInv
  BY <1>1, InitIInv, IInvMeans DEF SameInv
<1>3. HalfShaped
  BY <1>1, <1>2, NotSavedMeans DEF NotSaved, ShapedInv
<1>4. LimitLeaves
  <2>1. PICK h \in Heaps : InitBook(h)
    BY <1>1 DEF Init
  <2>2. /\ heap_size \in Nat /\ threshold = DefaultThreshold
        /\ temporary_alloc_heap_limit = DefaultLimit(heap_size)
    BY <1>1, <1>2, <2>1 DEF ShapedInv, RestTyped, Init, InitBook
  <2> QED BY <2>2, DefaultLeaves DEF DefaultsLeave
<1>5. TaskKept
  BY <1>1, <1>4, LimitMeans DEF TaskKept, TaskTypeOK, WalkKept, RegionKept
<1> QED BY <1>2, <1>3, <1>5 DEF HalfInv, ShapedInv

\* The heap keeps its structure under interrupts, for every memory, heap,
\* regions and sizes and every interleaving, as long as interrupt routines
\* stay out of ns_mem_region_add: blocks tile the regions, the list is the
\* holes but for the one that is being added, region_add's pointers stay on
\* the list, and the limit leaves the threshold's share of the heap.
THEOREM IrqInvariance ==
    ASSUME ~ReAddAnyTime, LinksAreNoSizes, ~InterruptRegionAdd
    PROVE  IrqSpec => []IrqInv
<1>1. IrqInv /\ [IrqNext]_irqVars => IrqInv'
  <2> SUFFICES ASSUME IrqInv, [IrqNext]_irqVars PROVE IrqInv'
    OBVIOUS
  <2>1. HalfInv'
    BY IrqInvMeans, IrqNextKeeps DEF SameIrqInv, IrqKept
  <2>2. SameIrqInv'
    BY IrqInvMeans, PTL
  <2> QED BY <2>1, <2>2 DEF SameIrqInv
<1> QED BY <1>1, IrqInitInv, PTL DEF IrqSpec

\* Interrupts during region_add are the only way off the list: without them
\* its walk and the hole it will insert behind stay on holes_list.
THEOREM WalkStaysOnList ==
    ASSUME ~ReAddAnyTime, LinksAreNoSizes, ~InterruptRegionAdd
    PROVE  IrqSpec => []WalkOnListedHoles
<1>1. IrqInv => WalkOnListedHoles
  <2> SUFFICES ASSUME IrqInv PROVE WalkOnListedHoles
    OBVIOUS
  <2>1. HalfInv
    BY IrqInvMeans DEF SameIrqInv
  <2>2. /\ holes_list \in Seq(Addr) /\ Ordered(holes_list) /\ TaskTypeOK /\ WalkKept
    BY <2>1, WalkFactsHold DEF WalkFacts
  <2>3. task.at # "lost"
    BY <2>2, TaskPlaces DEF TaskAt
  <2>4. ASSUME task.at = "walk"
        PROVE  {task.cursor, task.previous} \subseteq Range(holes_list) \cup {0}
    <3> DEFINE lower == {i \in Passed : holes_list[i] < TaskStart}
    <3>1. /\ task.cursor \in Range(holes_list) \cup {0}
          /\ task.previous = IF lower = {} THEN 0 ELSE holes_list[Max(lower)]
      BY <2>2, <2>4 DEF WalkKept
    <3>2. /\ DOMAIN holes_list = 1..Len(holes_list) /\ Len(holes_list) \in Nat
          /\ lower \subseteq 1..Len(holes_list)
      BY <2>2 DEF Passed
    <3>3. lower # {} => Max(lower) \in DOMAIN holes_list
      BY <3>2, MaxIsGreatest
    <3> QED BY <3>1, <3>3 DEF Range
  <2> QED BY <2>3, <2>4 DEF WalkOnListedHoles
<1> QED BY <1>1, IrqInvariance, PTL

\* Interrupts between the check and the critical section of a temporary
\* allocation, and a region added step by step, are invisible to clients:
\* the interrupted heap still implements AbstractHeap.
THEOREM IrqHeapRefines ==
    ASSUME ~ReAddAnyTime, LinksAreNoSizes, ~InterruptRegionAdd
    PROVE  IrqSpec => ImplementsHeap
<1>1. IrqInit => Promise!HeapInit
  BY InitRefines DEF IrqInit
<1>2. IrqInv /\ [IrqNext]_irqVars => [Promise!HeapNext]_(Promise!heapVars)
  BY IrqInvMeans, IrqNextKeeps DEF SameIrqInv, IrqKept
<1> QED BY <1>1, <1>2, IrqInvariance, PTL DEF IrqSpec, ImplementsHeap, Promise!HeapSpec

\* No step of the task or of an interrupt routine writes a word of a block
\* that a client holds before and after it: neither the tags nor the links
\* that region_add writes outside any critical section land there.
THEOREM IrqHoldersUndisturbed ==
    ASSUME ~ReAddAnyTime, LinksAreNoSizes, ~InterruptRegionAdd
    PROVE  IrqSpec => HeldWordsUntouched
<1>1. IrqInv /\ [IrqNext]_irqVars => WordsKept
  BY IrqInvMeans, IrqNextKeeps DEF SameIrqInv, IrqKept
<1>2. WordsKept => [\A b \in DOMAIN held \cap DOMAIN held' :
                       \A a \in b..LastWord(b) : mem'[a] = mem[a]]_vars
  BY DEF WordsKept
<1> QED BY <1>1, <1>2, IrqInvariance, PTL DEF IrqSpec, HeldWordsUntouched


-----------------------------------------------------------------------------
(* The statistics and the threshold *)

\* Every step keeps the statistics exact: only whole calls and the critical
\* section of the temporary allocation change what is held or counted.
LEMMA IrqNextCounts ==
    ASSUME ~ReAddAnyTime, LinksAreNoSizes, ~InterruptRegionAdd, HalfInv, StatsExact,
           [IrqNext]_irqVars
    PROVE  StatsExact'
<1>1. HalfInv' /\ WordsKept /\ TaskTypeOK
  BY IrqNextKeeps DEF IrqKept, HalfInv, TaskKept
<1>2. mem_stat \in MemStat
  BY DEF HalfInv, RestTyped
<1> DEFINE Same == /\ held' = held
                   /\ mem_stat'.heap_sector_alloc_cnt = mem_stat.heap_sector_alloc_cnt
                   /\ mem_stat'.heap_sector_allocated_bytes = mem_stat.heap_sector_allocated_bytes
<1>3. ASSUME Same, task.at # "saved" PROVE StatsExact'
  <2>1. Shaped
    BY <1>3, WholeInvHolds DEF WholeInv, ShapedInv
  <2> QED BY <1>1, <1>3, <2>1, SizeKept, SameCounts
<1>4. CASE Interrupt
  <2>1. Next /\ task.at # "saved"
    BY <1>4 DEF Interrupt, HeapCall, Next, RegionSteps
  <2>2. ShapedInv
    BY <2>1, WholeInvHolds DEF WholeInv
  <2> QED BY <2>1, <2>2, NextCounts
<1>5. CASE TemporaryAllocate
  <2>1. task.at = "checked" /\ Allocate(task.bytes, 1) /\ task' = Idle
    BY <1>5 DEF TemporaryAllocate
  <2>2. task.bytes \in AllocSizes /\ ShapedInv
    BY <1>1, <2>1, TaskPlaces, WholeInvHolds DEF TaskAt, WholeInv
  <2>3. Shaped'
    <3>1. NotSaved'
      BY NotSavedMeans, PTL
    <3>2. task'.at # "saved"
      BY <2>1 DEF Idle
    <3> QED BY <1>1, <3>1, <3>2 DEF NotSaved, HalfInv
  <2> QED BY <1>1, <2>1, <2>2, <2>3, AllocateCounts
<1>6. CASE \E bytes \in AllocSizes : TemporaryCheck(bytes)
  BY <1>3, <1>6 DEF TemporaryCheck, vars
<1>7. CASE TemporaryOver
  BY <1>3, <1>7 DEF TemporaryOver, vars
<1>8. CASE TemporaryRefused
  BY <1>2, <1>3, <1>8 DEF TemporaryRefused, MemStat
<1>9. CASE \E r \in Regions : RegionStart(r)
  BY <1>3, <1>9 DEF RegionStart
<1>10. CASE RegionWalk
  BY <1>3, <1>10 DEF RegionWalk, vars
<1>11. CASE RegionRefuse
  BY <1>3, <1>11 DEF RegionRefuse
<1>12. CASE RegionSave
  BY <1>3, <1>12 DEF RegionSave
<1>13. CASE RegionList
  <2>1. mem_stat' = mem_stat
    BY <1>13 DEF RegionList
  <2> QED BY <1>13, <2>1, RegionListStep, SameCounts
<1>14. CASE RegionEnd
  BY <1>2, <1>3, <1>14 DEF RegionEnd, MemStat
<1>15. CASE SetThreshold
  BY <1>3, <1>15 DEF SetThreshold, ns_mem_set_temporary_alloc_free_heap_threshold
<1>16. CASE UNCHANGED irqVars
  <2>1. held' = held /\ mem' = mem /\ mem_stat' = mem_stat
    BY <1>16 DEF irqVars, vars
  <2> QED BY <2>1, SameCounts
<1> QED BY <1>4, <1>5, <1>6, <1>7, <1>8, <1>9, <1>10, <1>11, <1>12, <1>13, <1>14, <1>15, <1>16
        DEF IrqNext, Task

\* mem_stat_t counts the blocks in use and their bytes exactly, also when
\* interrupt routines allocate and free between the steps of the task.
THEOREM IrqStatisticsExact ==
    ASSUME ~ReAddAnyTime, LinksAreNoSizes, ~InterruptRegionAdd
    PROVE  IrqSpec => []StatsExact
<1>1. IrqInit => StatsExact
  BY InitCounts DEF IrqInit
<1>2. IrqInv /\ StatsExact /\ [IrqNext]_irqVars => StatsExact'
  BY IrqNextCounts, IrqInvMeans DEF SameIrqInv
<1> QED BY <1>1, <1>2, IrqInvariance, PTL DEF IrqSpec

\* What the threshold asks to be free, but for what interrupts took.
FreeAtCheck ==
    LET taken == IF task.at = "checked" /\ task' = Idle THEN task.taken ELSE 0
        free  == FreeBytes + taken
    IN  IF threshold.amount # 0 THEN free >= threshold.amount
        ELSE free * 100 >= threshold.percentage * heap_size

\* Who asked is in the result.
LEMMA AllocateNames ==
    ASSUME NEW bytes, NEW direction, Allocate(bytes, direction)
    PROVE  last'.call = AllocCall(direction)
<1>1. CASE AllocNotFound(bytes, direction)
  BY <1>1 DEF AllocNotFound, Done
<1>2. CASE AllocSplit(bytes, direction) \/ AllocWhole(bytes, direction)
  <2>1. PICK b, data : HandOut(b, data, bytes, direction)
    BY <1>2 DEF AllocSplit, AllocWhole
  <2> QED BY <2>1 DEF HandOut, Done
<1> QED BY <1>1, <1>2 DEF Allocate

\* A step that hands out a temporary block starts with that much free.
LEMMA TemporaryStepLeaves ==
    ASSUME HalfInv, IrqNext, last'.call = "temporary_alloc", held' # held
    PROVE  FreeAtCheck
<1>1. /\ RestTyped /\ LimitLeaves /\ TaskTypeOK
      /\ task.at = "checked" =>
             mem_stat.heap_sector_allocated_bytes - task.taken <= temporary_alloc_heap_limit
  BY LimitMeans DEF HalfInv, TaskKept
<1> DEFINE used == mem_stat.heap_sector_allocated_bytes
           limit == temporary_alloc_heap_limit
<1>2. used \in Int /\ limit \in Int /\ heap_size \in Int
  BY <1>1 DEF RestTyped, MemStat
<1>3. CASE Interrupt
  <2>1. ~(task.at = "checked" /\ task' = Idle)
    <3> SUFFICES ASSUME task.at = "checked" PROVE task' # Idle
      OBVIOUS
    <3>1. task \in [at : {"checked"}, bytes : AllocSizes, taken : Int]
      BY <1>1, TaskPlaces DEF TaskAt
    <3>2. task'.at = "checked"
      BY <1>3, <3>1 DEF Interrupt, CountTaken
    <3> QED BY <3>2 DEF Idle
  <2>2. ~OverLimit(1)
    <3>1. ASSUME NEW bytes, ns_mem_alloc(bytes) PROVE FALSE
      <4>1. AllocRefused(bytes, -1) \/ Allocate(bytes, -1)
        BY <3>1 DEF ns_mem_alloc, ns_mem_internal_alloc
      <4>2. held' = held \/ last'.call = AllocCall(-1)
        BY <4>1, AllocateNames DEF AllocRefused
      <4> QED BY <4>2 DEF AllocCall
    <3>2. ASSUME NEW bytes, ns_mem_temporary_alloc(bytes) PROVE ~OverLimit(1)
      BY <3>2 DEF ns_mem_temporary_alloc, ns_mem_internal_alloc, AllocRefused
    <3>3. ASSUME NEW b, ns_mem_free(b) PROVE FALSE
      <4>1. last'.call = "free"
        BY <3>3 DEF ns_mem_free, FreeRefused, FreeBlock,
                    ns_mem_free_and_merge_with_adjacent_blocks, Done
      <4> QED BY <4>1
    <3> QED BY <1>3, <3>1, <3>2, <3>3 DEF Interrupt, HeapCall
  <2>3. ~(used > limit)
    BY <2>2 DEF OverLimit
  <2> HIDE DEF used, limit
  <2>4. used <= limit /\ heap_size - used \in Int /\ heap_size - used + 0 = heap_size - used
    BY <1>2, <2>3
  <2> QED BY <1>1, <1>2, <2>1, <2>4, LeavesFree DEF FreeAtCheck, FreeBytes, used, limit
<1>4. CASE TemporaryAllocate
  <2>1. task.at = "checked" /\ task' = Idle
    BY <1>4 DEF TemporaryAllocate
  <2>2. task.taken \in Int
    BY <1>1, <2>1, TaskPlaces DEF TaskAt
  <2>3. used - task.taken <= limit
    BY <1>1, <2>1
  <2> HIDE DEF used, limit
  <2>4. /\ used - task.taken \in Int /\ heap_size - used + task.taken \in Int
        /\ heap_size - used + task.taken = heap_size - (used - task.taken)
    BY <1>2, <2>2
  <2> QED BY <1>1, <2>1, <2>3, <2>4, LeavesFree DEF FreeAtCheck, FreeBytes, used, limit
<1>5. ASSUME Task, ~TemporaryAllocate PROVE FALSE
  BY <1>5 DEF Task, TemporaryCheck, TemporaryOver, TemporaryRefused, RegionStart, RegionWalk,
              RegionRefuse, RegionSave, RegionList, RegionEnd, SetThreshold, vars,
              ns_mem_set_temporary_alloc_free_heap_threshold
<1> QED BY <1>3, <1>4, <1>5 DEF IrqNext

\* The documented threshold holds for every sequence of thresholds, regions,
\* allocations and frees and every interleaving: a temporary allocation that
\* succeeds had that much of the heap free when it checked, and lacks at its
\* critical section only what interrupt routines took in between.
THEOREM TemporaryLeavesFree ==
    ASSUME ~ReAddAnyTime, LinksAreNoSizes, ~InterruptRegionAdd
    PROVE  IrqSpec => TemporaryNeedsFreeHeap
<1>1. IrqInv /\ [IrqNext]_irqVars =>
          [last'.call = "temporary_alloc" /\ held' # held => FreeAtCheck]_irqVars
  BY IrqInvMeans, TemporaryStepLeaves DEF SameIrqInv
<1> QED BY <1>1, IrqInvariance, PTL DEF IrqSpec, TemporaryNeedsFreeHeap, FreeAtCheck
===========================================================================
