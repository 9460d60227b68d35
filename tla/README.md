# A verification project for nanostack-libservice

TLA+ models of the library, TLC configurations that check them on small
instances, and TLAPS proofs about them. Source lines below are of `src/`.

## 1. The system

| Part | State | Operations | What must be right |
|---|---|---|---|
| **nsdynmemLIB** (heap) | the book: up to three regions, an address-ordered list of holes, a limit for temporary allocations, statistics; in memory, a size tag before and after every block | `ns_mem_init`, `ns_mem_region_add`, `ns_mem_set_temporary_alloc_free_heap_threshold`, `ns_mem_alloc` (from the top), `ns_mem_temporary_alloc` (from the bottom), `ns_mem_free` | blocks tile the regions, clients never share a word, the list is exactly the usable holes, freed neighbours merge, statistics and heap size match, double frees are noticed, also when interrupt routines use the heap |
| **nvmHelper** | two flags, a FIFO of waiting requests, request objects on the heap | `ns_nvm_data_read`, `_write`, `ns_nvm_key_delete`; the platform's callback; the recursion of `ns_nvm_operation_end` | one platform operation at a time, in order, every accepted request called back, no request leaked or used after it was freed |
| **nsdynmem_tracker** | a table with an entry per caller, an extended table for further blocks, totals | `_alloc`, `_free`, `_step`, two list updates | the tables record the blocks in use, once each; totals, lifetimes and lists agree with them |
| **ns_list** | intrusive doubly linked lists: `next`, `prev` (the address of the pointer that points here), `last_nextptr` | init, add at either end or beside an entry, remove, replace, concatenate, count, four loops | links agree both ways and spell out the documented sequence; a loop visits what stays on its list, whatever its body adds and removes |
| **libBits / common_functions** | none | integers in buffers, bit counts, serial numbers, bit strings | exact at byte boundaries, zero and wrap |
| **libip6string**, **libip4string** | none | `stoip6`, `stoip6_prefix`, `sipv6_prefixlength`, `ip6tos`, `ip6_prefix_tos`, `stoip4`, `ip4tos` | every legal text is read as RFC 4291 has it, a text with a fault the tests name is refused; what is printed is canonical and reads back |
| **IPv6_fcf_lib** | none | `ip_fcf_v`, `ipv6_fcf` | the checksum does not depend on the gather list; a valid packet verifies to 0 |
| platform: **arm_hal_nvm**, **arm_hal_interrupt** | external | asynchronous NVM, critical sections | assumed, see below |
| ns_types.h, libTrace scripts | none | compiler definitions, a build script | not modelled |

How they interact: nvmHelper allocates its requests with nsdynmemLIB; with
`NSDYNMEM_TRACKER_ENABLED` every allocation and free is also reported to the
tracker; the heap's holes and the helper's requests are on `ns_list` lists; the
heap runs under the platform's critical section, but not all of it; nvmHelper is
called back by the platform's NVM and calls back its clients, who may call it
again from there; the address printers use the bit copies, the parsers and the
checksum the big-endian writes.

What is hard: long sequences of splits and merges that reach a state no test
wrote down; sizes at the edge of a `hole_t`; regions that touch; interrupts
between a check and the critical section that relies on it; re-entrance and
recursion in nvmHelper; a platform that refuses one call of a chain; tables that
grow between two searches of one call; loops whose body changes the list; texts,
bit strings and gather lists that end at an awkward place. `PROJECT.json` lists
these hazards with their lines and the properties that watch them.

## 2. The modules

| Module | Models |
|---|---|
| `NsDynMem` | nsdynmemLIB.c, each call one step |
| `AbstractHeap` | what a heap promises: disjoint runs of words |
| `NsDynMemHeap` | the refinement mapping from `NsDynMem` to `AbstractHeap` |
| `NsDynMemIrq` | the heap shared by a task and interrupt routines |
| `NvmHelper` | ns_nvm_helper.c, with the platform as its environment |
| `NsDynMemTracker` | nsdynmem_tracker_lib.c |
| `AbstractList` | what ns_list.h documents: sequences of entries |
| `NsList` | ns_list.h at the level of pointers, with its loops; implements `AbstractList` |
| `CommonFunctions` | common_functions.h and .c |
| `IpFcf` | ip_fsc.c |
| `IpStrings` | stoip6.c, ip6tos.c, stoip4.c, ip4tos.c |
| `Conversions` | calls of the three modules above, reference definitions and properties |
| `MC...` | constants and symmetry sets for TLC |
| `SequenceLemmas` | lemmas on numbers, sequences and sums that several proofs cite |
| `NvmHelper_proofs` | theorems about `NvmHelper`, with a platform that accepts and one that refuses |
| `NsList_proofs`, `NsListLoops_proofs` | theorems about the links and the refinement of `NsList`, and about its loops |
| `NsDynMemLayout_proofs` | lemmas on memories cut into blocks: split, merge, new region |
| `NsDynMem_proofs` | theorems about `NsDynMem` and its refinement of `AbstractHeap` |
| `NsDynMemIrq_proofs` | the same under interrupts, and the limit of temporary allocations |
| `NsDynMemTracker_proofs` | theorems about `NsDynMemTracker` |

In every module an operator `X_Suffix` that stands before `X` is a faulty
variant of `X`. No action uses it; `PROJECT.json` pairs each property with a
variant that makes TLC refute it, which shows that the property depends on that
piece of code.

**NsDynMem.** Memory is a function from word addresses to integers, so tags,
stale tags and the words a merge leaves behind are as in C. Client data and
list links are one opaque word each (`DataWord` is chosen to look like the tag
of a free block). A `hole_t` is `HOLE_T_SIZE` words: 2 in a 32-bit build, 4 in
a 64-bit one. `holes_list` is a sequence of block starts. Each call is one
action because alloc and free run in a critical section. `blocks`, `held`,
`freed` and `threshold` are not in the code: the start of every block, who holds
what, which pointers were freed since the last allocation, and the threshold in
force. `ReAddAnyTime = FALSE` states the client's discipline that a region is
added again only while it is untouched; `NsDynMem_readd` shows what happens
without it. Clients free their own blocks, blocks
they freed already, and foreign pointers. Two assumptions on the arguments are
the client's part: a heap or region that the size check accepts has room for a
`hole_t` between its tags (`UsableAssumption`; section 4 says what happens
otherwise), and regions do not overlap (`AreasAssumption`).

**NsDynMemIrq.** A task and interrupt routines on one heap. An interrupt
routine's call is one step of `NsDynMem`. The task's temporary allocation is
the limit check (nsdynmemLIB.c:369-375), then the critical section; a refused
one reads the failure counter and writes it back in two steps. Its `region_add`
is one step for the tags, one for each hole the walk passes, one for the slot,
one for the insertion, one for the totals (184-247). `task` holds where the call
is and its locals; `taken` in it is auxiliary. `InterruptRegionAdd` says whether
interrupt routines use the heap during `region_add`. When the walk's hole has
left the list, what its link holds is undefined and the task stops (`lost`).

**NvmHelper.** A request is the object allocated for it, `operation` is its
field, and `outstanding` are the platform operations in flight; the INIT request
is the outstanding "init". `stack` holds the active calls of
`ns_nvm_operation_end`: either inside the client's callback, where a `Reentrant`
client may call the API, or in the loop over the waiting requests, with the entry
that `ns_list_foreach_safe` saved. `StartFails` are the platform calls that may
return an error at once. `corrupt` is set when the loop removes an entry that is
no longer on the list; the model stops there, since what follows is undefined.
`order`, `asked` and `done` are auxiliary. The platform never completes an
operation inside the call that starts it, as arm_hal_nvm.h:28 says the
interface is asynchronous.

**NsDynMemTracker.** Tables are functions on `0..n-1`. The functions of `conf`
that allocate or enlarge a table are the application's: they may return a table
with any number of further entries, none included, or NULL. So is the hash: a search may start
anywhere. Counters wrap at `UInt32`. Once a table with records became NULL the
model allocates no more (`lost`), and properties are about what happens before.
The loops of the two updates are recursive functions of the number of turns
(`ListTurns`, `SnapTurns`). `WidthAssumption` says that sizes fit in a
`uint32_t`, that a `uint32_t` can count the blocks, and that the auxiliary ages
are not capped before lifetimes wrap.

**NsList.** A `void **` points to the `first_entry` of a list or to the `next`
of an entry, so it is named by that list or entry, and one function `next` holds
both kinds of cell. An operation is one action. A loop is `loop`: its kind, its
list, `e` and the saved `_next##e`; the body is whatever operations happen
before `LoopGoesOn`. The client adds only entries that are on no list, names
only entries of the list it names, and leaves alone the one entry the running
loop still needs: the current one of a plain loop (ns_list.h:481), the saved one
of a safe loop (`Needed`). Everything else is allowed, on any list. `owner`,
`op`, `stayed` and `visited` (a sequence: the entries the loop came to) are
auxiliary. There are finitely many entries, as in any memory.

**CommonFunctions, IpFcf, IpStrings.** Operators named after the functions. A
byte has `CHAR_BIT` bits; a text is a sequence of ASCII codes. `sprintf` and
`strtoul` are external. `Conversions` calls them: each action is one call with
an input from a small set, some followed by the call that undoes or verifies it.
Its references are written from the documents, not from the code: `Legal` and
`Meaning` are the grammar of RFC 4291 (without embedded IPv4 addresses, which the
library does not offer), `NoAddress` the faults that test/stoip6 names,
`Canonical` the rules of RFC 5952.

## 3. The runs

| Run | Shows |
|---|---|
| `NsDynMem_calls` | 32-bit, a heap of 10 words, a region below it and two that touch it and each other, one more than the slots hold, unaligned or of odd length: tags and tiling, held blocks, the list, merging, statistics, heap size, error reports, double frees, every region whole again once all is freed, and that no call writes into a held block |
| `NsDynMem_readd` (violation) | a region whose first block is allocated is added again with success |
| `NsDynMemIrq_limit` | 64-bit, a heap of 40 words and a region of 16, five threshold arguments, interrupts around and between the task's steps except during `region_add`: the limit of temporary allocations, refinement of `AbstractHeap`, and the inductive invariant that ties the task's locals to the heap |
| `NsDynMemIrq_walk` (violation) | interrupts during `region_add`: the hole the walk has come to leaves the list |
| `NvmHelper_async` | three requests, re-entrant clients, only `platform_nvm_init` may be refused: the inductive invariant, nobody stranded, the flag up exactly until the client's callback has returned, OK only after the whole chain, order and liveness |
| `NvmHelper_sync` | three requests, every first platform call may be refused, clients do not re-enter: one operation, one owner and an exact flag through the recursion, and its inductive invariant |
| `NvmHelper_lostwrite` (violation) | `platform_nvm_write` is refused: its result is ignored, the client never hears of it |
| `NvmHelper_stalenext` (violation) | three requests, the first two refused one after the other: the outer loop removes an entry the nested call took and freed |
| `NsDynMemTracker_tables` | three blocks, two callers, tables that grow to up to two entries in steps of any size, lists with fewer places than callers or as many: records, totals, one entry per caller, lifetimes, the lists, and that a free finds its record |
| `NsDynMemTracker_cleared` (violation) | the entry of a caller whose last block was an extended one is not cleared |
| `NsList_links` | two lists, three entries, all operations and loops: links, refinement of `AbstractList`, and what the loops visit |
| `Conversions_exact` | every pure function against its reference definition |

*Bounds.* The heap needs room for a block with a free neighbour on each side,
each listed or too small to be listed; 10 words hold three one-word blocks, and
with regions of four words on either side there are neighbours across every kind
of border. Sizes of 0, 1 and 2 words leave remainders around `HOLE_T_SIZE`; in
`NsDynMemIrq_limit`, the 64-bit build, two blocks of 10 words leave a hole of 14,
just too small to be split for a third. `UInt32 = 1` keeps the two running
counters of the heap (bytes ever allocated, failures), which no property is
about, from multiplying the states. Percentages need a heap of at
least 100 bytes, hence the larger one of `NsDynMemIrq_limit`, with one size of
block. Three requests are the fewest with one running, one waiting and one saved
by the outer loop as "next". Three blocks and two callers are the fewest with a caller
that has a first and an extended block while another occupies entry 0. `MaxAge`
(3) is not below `to_permanent_steps_count` and `UInt32 - 1`. The list of
`top_allocators` has one place, so a second caller meets it full; the snap shot's
has two, as many as `UInt8` lets a list have. That an insertion into a full list
also moves entries takes a third caller, and rests on the theorem `LargestListed`. Three entries give a
list a first, a middle and a last one, two lists a source and a destination; an
operation reads and writes at most an entry and its two neighbours.

`Conversions_exact` uses bytes of three bits, so that all pairs of two-byte
buffers are tried and words wrap; words are two bytes and the accumulator four,
as in C; the accumulator cannot overflow for a payload whose length fits in
a word, which is the code's own limit (ip_fsc.c:27). Addresses are real: every
IPv6 address of groups 0 and abcd, in every spelling; every text of up to nine
fields and colons with five endings, and the two around 39 characters; every
prefix length up to 129; IPv4 texts of three to five components.

*Fairness.* `NvmHelper!FairSpec` asks for weak fairness of `Platform` (the
platform completes what it accepted, arm_hal_nvm.h:28-29) and of `Return` (a
client's callback returns, and code that can run does). Clients need not call.
The other specifications are safety only.

*Deadlock* is checked in every run but `NvmHelper_sync`: three refused requests
reach the violation of `NvmHelper_stalenext`, where `ns_list_remove` follows dead
links and the model stops.

## 4. Findings

The five violation runs are recorded in `PROJECT.json` under `findings`, each
with the line of the repository that says otherwise. While modelling, more were
met that no run is spent on. Those that the models show, with the configuration
that does:

- A refused request's callback runs with the in-progress flag cleared
  (ns_nvm_helper.c:200-216): with three requests, `StartFails = {"read"}` and
  `Reentrant = TRUE`, `OneOperation` is violated.
- The result of `ns_nvm_operation_continue` is ignored after initialization
  (ns_nvm_helper.c:73): a first request that is refused there is freed without a
  callback, and what waits behind it is not started. With
  `StartFails = {"read"}`, `AcceptedIsCalledBack` is violated.
- The failure count of a temporary allocation over the limit is incremented
  outside the critical section (nsdynmemLIB.c:372), so an interrupt's may be
  lost (`TemporaryOver`, `TemporaryRefused`).

And from reading:

- `ns_mem_region_add` writes the tags of the new hole (nsdynmemLIB.c:210-213)
  before it finds that the region is on the list already, or that there is no
  slot for it, and refuses. Under `~ReAddAnyTime` this is harmless; otherwise a
  refused call overwrites tags in use.
- A region of three words is accepted (nsdynmemLIB.c:187), but its data area
  cannot hold a `hole_t`: the link overwrites the end tag.
- The limit is compared before the allocation (nsdynmemLIB.c:370), so a
  temporary allocation may take the reserve that line 58 says it must leave. The
  header (nsdynmemLIB.h:153) promises what `TemporaryNeedsFreeHeap` states, and
  that holds.
- `stoip6_prefix` refuses every prefix length of three digits (stoip6.c:127
  counts the '/' too), though 133 and ip6string.h:46 allow up to 128, and
  `ip6_prefix_tos` prints them; `PrintsReadable` asks for the round trip below
  100, where code and documents agree.
- ip6string.h:61 gives `stoip6` a maximum of 41 characters, stoip6.c:42 accepts
  39, the length of the longest legal text; the tests expect 40 to be refused,
  and so does `NoAddress`.
- `stoip6` takes an empty field for a zero where no "::" stands, and a colon at
  the end: ":1:2:3:4:5:6:7" and "1:2:3:4:5:6:7:8:" are read. Such texts are
  neither `Legal` nor a fault the tests name, and `ReadsAddress` says nothing of
  them.
- When `len` ends a text inside a group or a "::", `stoip6` looks at the
  characters behind it (stoip6.c:65, 71), though 47 says it stops at 0; the runs
  end texts where `len` does.
- `bitcopy` returns a pointer past the bytes it copied (common_functions.c:59,
  68), common_functions.h:337 says "the value of dst".

On a 64-bit build, list links may overwrite the stale tag of a freed block, so
`DoubleFreeDetected` is checked for `HOLE_T_SIZE = 2` only.

## 5. Proofs

Every theorem holds for all values of the constants that satisfy the named
assumptions. Each component has an inductive invariant, `IInv`. TLC checks it in
the runs `NvmHelper_async` and `NsList_links`; that of the heap and that of the
tracker are the properties of `NsDynMem_calls` and `NsDynMemTracker_tables`
together with types and the parts `RegionsApart`, `FreedKept` and `EntriesApart`
(the first two are in `IrqInv` too). The theorem `Invariance` of its proof module is
`Spec => []IInv`, and the theorems below follow from it. Two more settings have an
invariant of their own: `RefusedInv` for the helper under a refusing platform
(`NvmHelper_sync`, theorem `RefusedInvariance`) and `IrqInv` for the heap under
interrupts (`NsDynMemIrq_limit`, theorem `IrqInvariance`).

| Theorem | States |
|---|---|
| *`NvmHelper_proofs`* | |
| `SingleOperation` | never two operations with the platform |
| `Ownership` | an allocated request has exactly one owner: list, platform or running callback |
| `FlagCorrect` | the flag is up exactly while the platform has an operation or a client's callback has not returned |
| `NoLostWakeup` | between callbacks nothing waits while the platform is idle |
| `NoStaleRemoval` | the loop removes only requests that are on the list |
| `OkIsDone` | success is reported only when the platform did every operation of the chain |
| `FirstComeFirstServed` | clients are called back in the order their requests were accepted |
| `RecursionKeepsOwners` | the platform refuses first calls and `ns_nvm_operation_end` recurses: still one operation, one owner per request and an exact flag, until a stale entry is removed |
| `StaleNeedsThree` | with two request objects no stale entry is ever removed |
| *`NsList_proofs`, `NsListLoops_proofs`* | |
| `AlwaysWellLinked` | `next`, `prev` and `last_nextptr` agree, and each list has exactly its entries |
| `ListsRefine` | the lists implement `AbstractList` |
| `LoopsVisitInOrder` | loops visit what stays on the list, in order, once, none left out |
| *`NsDynMem_proofs`* | |
| `BlocksTile`, `AlwaysMerged` | blocks tile the regions, tags agree, free neighbours are merged |
| `NoSharedWords` | held pointers are exactly the allocated blocks, large enough |
| `ListIsHoles` | `holes_list` is exactly the usable holes, in address order |
| `ReportsAreTrue`, `SecondFreeSeen` | a held block can be freed; a second free is reported |
| `StatisticsExact` | `mem_stat_t` counts the blocks in use |
| `SizeIsTrue` | `heap_size` is what all blocks make up, but for up to half a word per region |
| `NoTraceLeft` | when nothing is held every region is one hole |
| `HoldersUndisturbed` | no call writes a word of a block held before and after it |
| `HeapRefines` | the heap implements `AbstractHeap` |
| *`NsDynMemIrq_proofs`* | |
| `WalkStaysOnList` | the walk of `region_add` and the hole it inserts behind are on the list |
| `IrqHeapRefines` | the interrupted heap implements `AbstractHeap` |
| `IrqHoldersUndisturbed` | no step of task or interrupt writes a word of a block held before and after it |
| `IrqStatisticsExact` | `mem_stat_t` counts the blocks in use |
| `TemporaryLeavesFree` | a temporary allocation that succeeds had the threshold's share of the heap free, less what interrupts took since its check |
| *`NsDynMemTracker_proofs`* | |
| `RecordsStayExact` | the tables record exactly the tracked blocks |
| `TotalsStayExact` | counts and sums are those of the blocks in use, modulo 2^32 |
| `OneEntryEach` | one entry per caller, none cleared too early |
| `YoungestCounts` | a lifetime is at most that of the youngest block |
| `FreeFinds` | a free succeeds exactly for recorded blocks |
| `LargestListed` | both lists hold the largest allocators, in order |

`TypeCorrect` of the helper, the lists and the tracker is the type invariant; the
heap's types are a part of its `IInv`.

*Assumptions*, besides the ASSUMEs of the modules (section 2):

- Helper: `PlatformAccepts`, the platform refuses no call other than
  `platform_nvm_init`. Without it `SingleOperation`, `Ownership` and
  `NoStaleRemoval` are false, which section 4 shows.
- Helper under a refusing platform: `ChainsGoOn`, only `platform_nvm_init` and the
  first call of a request are refused, since the results of later calls are not
  looked at (`NvmHelper_lostwrite`); and `~Reentrant`, since a re-entrant client of
  a refused request gets a second operation started (section 4). `StaleNeedsThree`
  adds `FewRequests`; `NvmHelper_stalenext` shows that three are too many.
- Heap: `~ReAddAnyTime`, as without it a region is added twice and the blocks
  overlap (`NsDynMem_readd`).
  `LinksAreNoSizes`: a `hole_t` has two words, as on 32-bit builds, or a link
  word read as a tag is not the size of a block. On a 64-bit build links overwrite
  stale tags, and a second free then reads a link where it expects a tag; a link
  that looked like a block's size could pass for one. `SecondFreeSeen` needs
  `HOLE_T_SIZE <= 2` for that reason.
- Heap under interrupts: the two above and `~InterruptRegionAdd`, as `region_add`
  has no critical section and `WalkOnListedHoles` is false without it
  (`NsDynMemIrq_walk`).
- Tracker: `LargestListed` needs `ListsShort`, lists no longer than the `uint8_t`
  counters reach (256): beyond that the shift of the list moves too few entries
  (nsdynmem_tracker_lib.c:315).

*Helper.* That the flag is exact between callbacks needs to be known inside
them: `OneFrame` says that at most one `ns_nvm_operation_end` is active, that the
platform then has nothing, that the flag stays up until the client's callback has
returned, and that the loop is about to take the oldest waiting request.
`FreshUntilInit` covers the list that `ns_nvm_operation_start` initializes late,
and `UnstartedKeepsOp` that a waiting request still carries the client's
operation. With the properties they make `StateInv`. `HistoryInv` relates the
auxiliary variables to it: the order of acceptance is what is being served
followed by the waiting list (`OrderKept`), and the operation in flight is the
next one of its request's chain (`OnChain`).

*Helper, refusing platform.* When a request is refused inside the loop, the loop
calls `ns_nvm_operation_end` again and later goes on with the entry it saved, so
frames pile up. `Nested` says what that leaves: only the top frame can be in a
callback, and an entry that some frame will go on with is either off the list or
its head, in which case the platform is idle and the top frame is about to take
that entry too. Hence whichever frame starts an operation has emptied what the
others could start. A saved entry that is off the list is the stale one: the model
stops when a frame takes it, so `RecursionKeepsOwners` speaks of the states until
then. `NoSecondEntry` is the strengthening for two requests: one is being ended,
the other is the entry taken, so nothing is ever saved. `NvmHelper_sync` has three
requests, so that entries are saved and go stale; `NoSecondEntry` says nothing there,
and rests on its proof.

*Lists.* `Contents(l)` is the sequence of entries met along `next`; `Chained` says
that links lead along a sequence both ways, and then `Contents` is that sequence. An operation is an
insertion, a removal, a replacement or a concatenation of sequences, for which
`SequenceLemmas` says where every element goes; the proof shows that the
assignments of the operation re-chain the new sequence and leave the others. The
refinement maps each list to `Contents`. `VisitInv` says that the entries visited,
of those that stayed, are exactly the ones the loop is past.

*Heap.* `NsDynMemLayout_proofs` is about functions and sets, not steps: `Laid` says
that a set of starts, a memory and region bounds are a tiling without free
neighbours, and the lemma `Reblock` that it stays one when adjacent blocks are
replaced by others with the same words. A split, a merge to either side and a new region are cases of it. `Shape`
adds the list of holes, the holders and the stale tags of freed blocks
(`FreedKept`): a block freed since the last allocation still lies inside a free
block, where `ns_mem_free` reads a tag that says free. `NsDynMem_proofs` shows that
every call takes a `Shape` to a `Shape`. For the statistics, sums over the blocks
in use change by the block's size. For `heap_size` the sum is over all blocks
(`Covered`): a split and a merge keep it, a new region adds its words. The half
word per region is what the length correction leaves: it takes the distance to
the next word off instead of the remainder (nsdynmemLIB.c:202-205). The refinement maps the abstract heap to `Area`,
the words of the regions, and `Taken`, the data words of held blocks.

*Heap under interrupts.* While `region_add` is under way the heap has no `Shape`:
its tags are written before the region has a slot, and with the slot its hole is a
block that is not yet on the list. `IrqInv` is `IInv` with that one hole left out
of the list (`HolesListedButSaved`) and with what the task relies on when it goes
on: its walk is on the list, and `previous` is the last hole passed below the
region (`WalkKept`); the tags it wrote are still there and the words nobody else's
(`RegionKept`); the limit leaves the threshold's share of the heap, and a task past
the check was under it but for what interrupts took (`LimitKept`). A step of an
interrupt routine is a call of `NsDynMem`, for which the lemmas of
`NsDynMem_proofs` apply, so only the task's steps and `LimitKept` are new.
`HeapSizeExact` is stated for whole calls only: between two statements of
`region_add` the region's hole is a block before its size is counted.

*Tracker.* `Ledger` relates two tables, a total and the blocks in use, whatever
state they belong to, since an allocation grows a table and writes into it in one
step. A free trusts that a record exists (`RecordsExact`) and that its caller has
one entry (`OneEntryPerCaller`), an entry is cleared when its count is 0, which is
right only while `TotalsExact` holds, and a search stops at the last index, so
nothing may be behind it (`EntriesApart`). For the ranked lists the invariant of
the loop is `Best` (the list has the largest of the entries passed) with
`FreeBehind` (unused places are last).

*Induction.* The library's induction theorems cannot be instantiated by the
provers. `SequenceLemmas` derives from well-foundedness that a set of natural
numbers has a least element (`NatLeast`) and a family of finite sets a minimal one
(`LeastSubset`); the proofs argue on the least counterexample, also for the
existence of the recursive functions (the loops of the tracker, and the sums).

*Only model-checked.* Liveness (`AcceptedIsCalledBack`), since fairness is out of
the prover's reach; and the pure functions (`ReadsAddress`, `PrintsReadable`,
`ReadsAddress4`, `BitsExact`, `ChecksumExact`): what they compute is defined by
recursion over texts, bit strings and gather lists and by powers of two, and to
prove it would take induction over that data.

## 6. Not modelled

`STANDARD_MALLOC` builds and NULL books (early returns without state); interrupt
routines that interrupt each other, and `region_add` from one; keys, buffers and
contexts of NVM requests; a platform that completes an operation inside the call
that starts it; the truncation of sizes above 2^31 on 64-bit builds
(`convert_allocation_size` returns an int); function names and lines in the
tracker, and its behaviour without a table; the types and offsets of list
entries, and lists with an `ns_list_foreach` inside another; texts without a
NUL, and a `len` beyond it; ns_types.h (compiler and type definitions) and the
trace library's build script.

## 7. Plan

Done: the heap alone and under interrupts, the NVM helper with an accepting and a
refusing platform, the tracker and the lists, each with an inductive invariant that
is checked and proved; the pure functions, checked. What would come next:

1. **Pure functions**: the checksum on a definition that folds words instead of
   recursing, to prove that it does not depend on the gather list.
2. **Tracker without a table**: what is left of the records when a growth returns
   NULL, and the reads that follow it.
