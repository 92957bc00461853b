# CLIMBER in TLA+

CLIMBER is a wear-leveling scheme for phase-change memory. Cells of such a memory endure a limited
and unequal number of writes, so the scheme keeps moving data: often written addresses to strong
pages, others to weak ones. This directory models the wear-leveling schemes of the repository, the
memory controller of its simulator with the scheme inside, the moving of hot pages to a DRAM buffer, and the
concurrent parts that drive the simulation (the phase barrier, the scheduler, the matching of futex wake-ups). TLC checks them on small
instances, and TLAPS proves what matters most for every size.

- [The system](#the-system)
- [The modules](#the-modules)
- [How the models correspond to the code](#how-the-models-correspond-to-the-code)
- [What the runs check](#what-the-runs-check)
- [Fairness](#fairness)
- [What is proved](#what-is-proved)
- [What was learnt about the code](#what-was-learnt-about-the-code)
- [What is not modelled](#what-is-not-modelled)

## The system

The repository has two halves. `src/*.cpp` holds three wear-leveling schemes as standalone programs:
each of six drivers (`attack_*` and `noattack_*`) links one scheme, feeds it a billion writes made
up by an attack pattern or read from a trace, and stops when a page is worn out.
`src/HSCC_climber/zsim-nvmain/` is the zsim/NVMain simulator with variants of the schemes inside its
memory controller, plus the simulator's own page allocator, TLB, page tables, caches, scheduler and
phase barrier.

| component | state | operations | interacts with | status |
|---|---|---|---|---|
| hot-count CLIMBER, `hcmm_climber.cpp` | remaining lives, address↔page maps, life order, ranks, exact write counts, `climberpoint` | `access`, which calls `climber`, `doswap` and `halfclear` | driver (calls, status) | modelled, proved |
| bloom-filter CLIMBER, `bwlmm_climber.cpp` | the same tables; two bloom filters instead of counts | `access`, `climber`, `doswap`; the filters' `access`, `getcount`, `rank`, `clear` | driver; the filters are read by the remap | modelled, proved |
| toss-up wear leveling, `twl.cpp` | lives, pair state, slot maps, two counters per page | `access`, `getpairaddr`, `swaparbiter` | driver | modelled, proved |
| drivers, `attack_*.cpp`, `noattack_*.cpp` | position in the pattern or the trace | `getindex`, `dowhenswap`, main loop | a scheme | loop modelled, pattern abstracted |
| schemes in the simulator, `climber.cpp`, `bwl.cpp`, `twl.cpp`, `climberif2.h` | as above | `access`, through `climberif` | memory controller (one array of answers) | `climber.cpp` modelled |
| memory controller, `nvmain_mem_ctrl.cpp` | recorded timing events with their children, requests in flight | `access`, `enqueue`, `enqueuechild`, `tick`, `RequestComplete` | cores (bound phase), event queue (weave phase), NVMain (callbacks), scheme | swap path modelled, proved |
| phase barrier, `barrier.h` | thread states, futex words, run list | `join`, `leave`, `sync` | scheduler (lock, callback), threads (futex) | modelled, proved |
| scheduler, `scheduler.{h,cpp}`, `virt/` | contexts, run, out and sleep queues, suppressed leaves, hand-offs | `start`, `join`, `leave`, `sync`, `finish`, system-call hooks, callback, watchdog | barrier, kernel futexes, process tree | modelled, proved |
| futex matching, `scheduler.cpp`, `virt/timeout.cpp` | two counters, a record per thread | hooks around futex waits and wakes, `futexWaitJoin`, `futexWakeJoin` | scheduler's `join`, kernel | modelled, proved |
| DRAM buffer allocator, `DRAM-buffer/` | clean and dirty pools of each process, free blocks, flags and addresses of blocks | `allocate_one_page`, `convert_to_dirty`, `Release`, `equal_evict` | page walker, TLB | modelled, proved |
| TLB and page tables, `tlb/`, `page-table/` | a TLB per core, a table per process, a walker per core | lookup, insert, evict, flush, walk, page fault, remap, shootdown | allocators, controller (faults), scheduler (context switches) | modelled but for the form of the tables |
| buddy allocator, `MMU/` | free lists by order, zones | `allocate_pages`, `free_one_page`, `expand` | page walker | not modelled |
| caches, coherence, weave phase, core models | lines, MESI states, events | accesses, invalidations | everything timed | not modelled (upstream zsim) |
| NVMain, vendored Pin kit, scripts | — | — | — | not modelled (third party, timing, I/O) |

### What is hard here

The standalone schemes are sequential, but a write is a long sequence of updates to redundant
tables, steered by random draws and by unstable sorting. The simulator adds concurrency. The hazards,
each listed at its line in `PROJECT.json`, fall in these families:

- **redundant tables changed by hand** — maps, inverse maps, ranks, hot lists and their index, run
  lists and counters, contexts and queues. A missed entry is not seen when it is made but many steps
  later, as a wrong exchange or as a thread that never runs again;
- **partial failure** — a page can die in the middle of a climb or of a remap, with a part of the
  data moved and charged;
- **stale data** — climbing looks into the order of the last remap; the remap decides what to charge
  from a map it is overwriting; a thread tests its state after the lock was released; the watchdog
  acts on a decision it took under a lock it has released since; a core fills its TLB with what it read from a
  table that is being remapped;
- **interleavings** — threads join, leave and are killed between the steps of others; requests of a
  swap complete while others are still being issued; cores translate while a page moves;
- **edges** — `climberpoint` wraps at the middle of the order, indices are built from shifts and
  remainders, lists are full, quotients may lose their sign, unsigned counters may wrap;
- **liveness** — the programs end only because some charge finds a page without life; a phase ends
  only if somebody is left to end it; an access is done only if NVMain goes on being cycled.

## The modules

| module | what it is |
|---|---|
| `WearLeveling` | abstract: a memory that takes writes. Every address has a page of its own, every page pays for exactly the data it gets |
| `ClimberCore` | state and steps that the two standalone CLIMBER schemes share: geometry, `climber()`, one iteration of the remap loop, the driver's loop |
| `HcClimber` | the hot-count scheme, on `ClimberCore` |
| `CallHistory` | a history variable: placement and lives at the start of the call under way |
| `HcWearLeveling` | the refinement mapping `HcClimber` ⇒ `WearLeveling` |
| `BloomFilter` | the `bloomfilter` class |
| `BloomFilterUse` | a filter in use, with the true counts as a history variable |
| `BwlClimber` | the bloom-filter scheme: `ClimberCore` with two instances of `BloomFilter` |
| `BwlWearLeveling` | the refinement mapping `BwlClimber` ⇒ `WearLeveling` |
| `Twl` | toss-up wear leveling |
| `SimClimber` | the scheme as built into the simulator: four candidates, no remap |
| `SimMemory` | the memory controller with `SimClimber` in front: the events of plain accesses and of swaps, and NVMain's completions |
| `Phases` | abstract: what the barrier promises. Everybody in it has one turn in each phase, at most a limit together |
| `PhaseBarrier` | the barrier step by step, with the lock, the futex words, the cleanup pass and the shuffle; it implements `Phases` |
| `Scheduler` | the scheduler, on top of `Phases` |
| `FutexMatching` | the counters that match futex wakers with the threads they woke |
| `DramBuffer` | hot pages in DRAM blocks: the block allocator, TLBs, page tables, and the fault that moves a page |
| `ClimberProofs` | the theorems about both CLIMBER schemes, on the lemmas about `ClimberCore` they share |
| other `*Proofs` | lemmas, theorems and proofs about the module of that name |
| `MC*` | values of the constants for TLC |

`PhaseBarrier` and `Scheduler` meet in `Phases`: the first implements it, the second is built on it. So each is
checked at the granularity that matters for it, and the two results compose.

Definitions marked *Faulty variant* stand before the definition they vary. No specification uses
them; each is a plausible slip in the code, and a property is kept only if it notices one.

## How the models correspond to the code

**Pages and lives.** Pages, addresses and ranks are numbers below `maxpagenums`. A life is a whole
number of writes; the code's `double` lives come from a file and change by 1. Ratios of lives are
compared by cross multiplication, which is what the code's division does up to rounding.

**A call of `access()`.** The CLIMBER models cut it at the charges, where it can end early, and name
the cuts with `pc`: `AccessClimb` is the code up to and including `climber()`; `AccessWrite` is the
write and what follows it; `RemapStep` is one iteration of `doswap()`'s loop; `"worn"` is a return of
-1. Nothing runs between these steps in the program either, so the cuts add no behaviour; they let
properties speak of the states in between. In `Twl` a call is one step, composed of
`KeepSlot \/ InterPairSwap` and `Write \/ TossKeeps \/ TossSwaps`.

**Random draws** (`rand()`) are choices over their outcomes, off-by-ones included: the hot-count
scheme draws its scrambling key below `regionsize - 1`, the other one below `regionsize`. In
`Twl.Tosses` the extreme tosses stand for the thousand possible ones, as no other changes an outcome.

**`std::sort`** may list equal elements in either order, so `AscendingOrders` has every ascending order.

**Remap in the bloom-filter scheme.** Three nests of loops visit addresses. The model gives each visit
the tuple of its loop indices and takes the least one ahead (`Visits`, `Before`, `IsNext`). That the
visits cover every address once is not built in; it is `VisitedOnce`.

**Hot lists.** The code has three arrays and a numbering `addr2hot` that runs through them. The model
has one row of slots in that numbering. The boolean arrays are the values `NoAddress` and `NotHot`.

**Left out**, as no decision reads it: statistics (`climbtime`, `maxSL`, `climberstart`, `rank2addr`,
`climbered`, `map2weakaddr`), logs, the addresses `twl.cpp` hands back for simulation, its reads
(no driver makes one).

**Modes.** `climberenable` is chosen by the constructor's caller and is a variable that keeps its first
value; `ClimbModes` are the values an instance looks at (1: climbs and remaps, 2: climbs, and counts
cleared instead of remaps).

**Drivers.** `Driving`, `access` and `Stopped` are the main loop: it asks for the next address, stops
when it has asked `endnums` times, else calls `access()`, and stops on -1. The attack patterns and
traces are replaced by any address, so every result holds for every workload.

**Simulator scheme** (`SimClimber`). One action is `access()` of a write. What `getrandom` may return for each of the
four candidates is `Offered`, the comparison that picks one is `CanClimbTo`. The draws are independent in the
model; the code seeds from `time(0)` at each draw, so draws within a second are correlated, and the model has
more behaviours. In the regions above and below the address's own, the number made of region and offset is used as a
page, without the life order, as in the code.

**Memory controller** (`SimMemory`). Recording an access in the bound phase is one action, as `access_lock` is held. In
the weave phase the code from one call of NVMain to the next is an action, as `RequestComplete()` can be called in
any of these calls: `StartEnqueue`, `EnqueueParent`, `enqueuechild`, `StartTick`, `EndTick`, `RequestComplete`; `Requeue` is the
return when NVMain is full. A group is the sequence of events of one access, the first of which is the parent; `linked`
is the parent's list of children that are not complete; `Slots` bounds the accesses recorded at one time. NVMain
is external: it holds the requests taken and completes them in any order, with one restriction
(`ParentMayBeLast = FALSE`): not the parent of a swap last, see below. Latencies are left out.

**DRAM buffer** (`DramBuffer`). A fault that moves a page runs on the thread of one core and holds the controller's lock;
its steps, `fault.at`, are cut where another core may look at what it has changed: at the count of a process's clean
blocks, which is made without the lock and added to that of its dirty ones (`CountClean`), the release, the allocation, the two
shootdowns and the remap of the tables. A miss is two steps, `WalkTable` and
`Insert`; what it read waits in `walk`. A first write is four, without a lock (`hot_monitor_tlb.h` 63–72): it finds the entry clean, marks
it, marks the block that the table names by then, and moves the block that the entry names by then to the dirty pool (`WriteHit`, `SetDirty`, `WriteThrough`,
`ConvertToDirty`); how far it is, is `writing`. A deschedule flushes the core's TLB (`ContextSwitch`), and the next thread sets the
walker's table (`SetPaging`). Nothing keeps these steps from those of a fault. `overtaken` is a history variable: the pages that a miss has filled
in from a table that had changed since, see below. A page table is a map from pages to physical pages; blocks are the
physical pages from `high_addr` on. A page has one frame of PCM for life, as frames are never given back
(`Frame`). Which access passes its threshold is a choice. `Remapped` is `remap_page_table()` of the reversed tables,
used when several processes may share memory; otherwise the walker maps pages in the table of its own process.
The flags of a block are clear at the start: the constructor used does not set them, and the shared heap is zero until it
is reused. `release_size` is exact division, where the code multiplies a quotient in floating point.

**Phase barrier** (`PhaseBarrier`). `at` is where the holder of the lock stands; between two steps of it the threads outside may
test their state, sleep on their futex word, and wake up. A wake-up writes the word, then wakes the
sleeper, as a futex does. A thread that is killed stays in the list as LEFT until a cleanup pass drops it;
`EarlyReuse = FALSE` says that its tid is not given to another thread before that.

**Scheduler** (`Scheduler`). What the code does under one hold of `schedLock` is an action. The points where it lets the
lock go (the wait for the barrier's turn, the reading of `handoffThread` after `sync`, the watchdog between
`finishFakeLeave` and `leave`, `finish` between `leave` and the removal) are values of `pc` and `wd`. Times are kept relative to
the current phase, so that counters need no bound. Which calls block and which do not is a choice, so is when the
watchdog gives up on a call. `Killable` are the points where a process may be killed.

**Futex matching** (`FutexMatching`). Unsigned 32-bit arithmetic is `% WordSize`. The kernel's queue of waiters is external: a wake
call takes any threads that wait, up to its argument, and may requeue others. A waker looks at the count without the lock (`SeeEnough`,
`SeeTooFew`) and takes the lock afterwards: if it saw enough it looks again (`Match`, `MatchIsGone`), if two seconds have passed it
does not (`MatchTimesOut`), and drops what was counted meanwhile.

## What the runs check

All constants are scaled down: remaps after 2 or 3 writes instead of 2 000 000, 4 pages instead of
2^20. What matters is that each case occurs: two regions so that climbing has a target above and one
at home; unequal lives, so short that every function meets a dying page; counts that tie; lists
of one slot so that they are full; three threads for two turns, so that somebody waits while others come and go; more pages than blocks and than TLB entries,
so that both evict.

| run | instance | question |
|---|---|---|
| `hc_wears` | 4 pages in 2 regions, remap every 2 writes, both modes, until worn out | do tables and candidates hold through climbs, remaps and deaths; are hot addresses put on strong pages; is each call one abstract write: who received data has paid, nobody else |
| `bloom_shared` | 8 addresses in 2 groups that share counters, lists of 1, 1 and 2 slots, 7 accesses | hot lists against their index; estimates never below the true count; who may displace and overtake whom |
| `bwl_wears` | 4 pages, 2 groups, lists of one slot, every scrambling key, until worn out | does the three-pass remap visit every address once; hot on strong; each call is one abstract write, when the written page may be charged twice (`Recharges`) |
| `twl_wears` | 4 pages in 2 pairs, both swap intervals small, until worn out | are maps inverse, do moved data pay, what can hide a worn page, does the run end nevertheless |
| `barrier_turns` | 3 threads, 2 together, cleanup at every second phase | run list and counters exact, wake-ups not lost, nobody forgotten, `join` ends no phase, `Phases` implemented |
| `sched_share` | 3 threads, 2 cores, one thread bound to a core, kills | contexts, queues and the barrier agree, nobody is lost, nobody waits for an idle core, only scheduled threads execute, sleepers are woken on time |
| `sched_fair` | 3 threads, 1 core, no kills | is everybody queued or asleep served, though others block in system calls for ever |
| `sched_prompt` | 2 threads, a call returns while the watchdog gives up on it | violation: see findings |
| `futex_match` | 3 threads, wakes of 1 or 2 | counted wake-ups are those of wakers that wait, and allowed; the allowance never wraps; no waker waits for ever unless others keep taking its match |
| `sim_swaps` | 2 accesses recorded at a time, 4 pages in 2 regions, addresses 0 and 3, 2 writes each, a page of one line | swaps copy exactly what the scheme moved; an access is done when all its requests are; NVMain is cycled until then; every access is done |
| `dram_maps` | 1 process of 3 pages, 2 cores with TLBs of 1 entry, 2 DRAM blocks | do TLBs, table, blocks and pools agree, whatever misses and writes the other core makes during a fault; do reclaims and allocations keep the pools exact |
| `dram_remap` | 2 processes, 1 core, reversed tables | violation: see findings |

Bounds. `endnums` is the driver's own limit, and ends a behaviour like a worn page does. It is larger than the
total life of the memory in the CLIMBER runs and than what the toss-up scheme can spend, so it never cuts a
behaviour short. `MaxAccesses` bounds the accesses between two clears of a filter; 7 fill the lists, evict
and promote. `MaxCount` bounds the writes of one address in `sim_swaps`; two are enough for climbs up, down and back, and
with them `SwapsCopied` meets every pair of pages two addresses can move between. `MaxAllowance` bounds how many wakes
may be under way, `MaxSleep` how many phases a sleep lasts; `CleanupPeriod` 2 stands for 32 and `schedQuantum` 2 for 10 000, so that
phase ends with and without cleanup, and with and without reassignment, alternate.
In `dram_maps` a TLB has one entry, so that every other miss evicts; with two the state space grows past 11 million states, among which
TLC found no violation. `min_free_pages` is 1 there: a reclaim takes one block from whoever has some. The theorems hold for TLBs of any size, and for every `min_free_pages` of which twice the value less 2 is below the number of blocks.
`WordSize` 16 stands for 2^32, and is larger than any count reached, so that a wrap would show as a large number.

Three regions, in which `climberpoint` walks, are too many states for a run; that the
point stays in range and candidates are others is a theorem for any number of regions (`CandidatesAlwaysOthers`).
The run of `PoolsExact` has one process; that it holds for any number is a theorem (`PoolsAlwaysExact`).
Threads are symmetric in `barrier_turns`, cores in `dram_maps`; nowhere else is symmetry used, as pages are ordered by endurance and the scheduler's
cores by number, and liveness does not allow it. No run disables the deadlock check; that a program has ended is the action `Stopped`.

## Fairness

- **Toss-up scheme** (`WearsOut`): `WF_vars(Next)`. The one thread of the program keeps running, and the driver's loop
  calls `access()` until it returns -1. Nothing is assumed of random draws or of the workload.
- **Scheduler** (`EveryoneGetsOn`): its own steps go on (WF). A thread that executes reaches the end of the phase (SF on `SyncCall`). A
  suppressed leave keeps the phase from ending, which is what the watchdog looks for, so it gives up on the call
  (WF on `GiveUpOnCall`). A call may block for ever. Kills are excluded in this run.
- **Futex matching** (`EveryWakeMatched`): a thread that has come back from a call reaches its join, and a waker looks at
  the count, gets the lock, and gives up after two seconds (WF throughout). That it sees its match while it lasts is not assumed: polling with a growing pause may always
  come too late, and then the timeout ends the wait. Calls may last for ever.
- **Memory controller** (`EveryAccessDone`): the event queue simulates every event that is due (SF on `StartEnqueue` and
  `StartTick`, which other calls interrupt), calls return (WF), NVMain takes a request and completes those it has, as
  long as it is cycled (SF on `EnqueueParent` and `RequestComplete`).

## What is proved

Each theorem holds for every value of the constants under the assumptions that stand with them, which TLC
evaluates on the instances it checks: at least two regions of at least two ranks, lives and intervals positive, a
cycle longer than the remap threshold, an even number of pages in `Twl`; xor with a key below the region size
stays in the region and is its own inverse; an order lists each page once; hashed addresses stay in the area, true when it
is a power of two; groups divide the memory, and each filter has at least as many counters as hash functions, and no empty list; threads are finitely many, and in the barrier fit into `runList`; cores are finitely many and have numbers, and every
affinity mask has one of them; at least two DRAM blocks, and a reclaim aims at little more than
half of them at most, `2 * (min_free_pages - 1) < total_page_count`. The code bounds the latter by `4 * sqrt(size)` bytes, 256 KB to 128 MB, so this holds for buffers larger than 512 KB.

| module | theorems |
|---|---|
| `ClimberProofs`, hot-count scheme | `TypeCorrect`, `TablesAlwaysAgree`, `StopsInTime`, `CandidatesAlwaysOthers`, `ThresholdNeverZero`, `HotAlwaysOnStrong`, `WearLevelingKept` |
| `ClimberProofs`, bloom-filter scheme | `BwlInvariance`, `AlwaysVisitedOnce`, `BwlTablesAlwaysAgree`, `BwlHotAlwaysOnStrong`, `BwlWearLevelingKept` |
| `BloomFilterUseProofs` | `TypeCorrect`, `IndexAlwaysExact`, `HotAlwaysCounted`, `NeverTooLow`, `NewcomersAlwaysDisplace`, `AlwaysOvertakenByOne` |
| `TwlProofs` | `TypeCorrect`, `MapsAlwaysInverse`, `WritesAlwaysCharged`, `MovesAlwaysCharged`, `TossAlwaysSparesWeakPages`, `OnlySwapsEverHideWear` |
| `PhaseBarrierProofs` | `TypeCorrect`, `RunListAlwaysExact`, `CountersAlwaysExact`, `FoundAlwaysWhereLeft`, `WakeupsAlwaysExact`, `NoWakeupRaces`, `ParallelismAlwaysBounded`, `NobodyEverForgotten`, `JoinNeverEndsPhase`, `PhasesAlwaysKept` |
| `SimMemoryProofs` | `Invariance`, `TablesAlwaysAgree`, `AlwaysClocked`, `AlwaysDoneAfterAll`, `SwapsAlwaysCopied` |
| `DramBufferProofs` | `TypeCorrect`, `PoolsAlwaysExact`, `MappingsAlwaysAgree` |
| `FutexMatchingProofs` | `AllowanceAlwaysCovers`, `MatchesAlwaysExact`, `UnmatchedAlwaysAllowed` |
| `SchedulerProofs` | `InvAlways`, `ContextsAlwaysExact`, `NobodyEverLost`, `NeverIdleWanted`, `OnlyScheduledEverRun`, `SleepersAlwaysOnTime`, `SleepersAlwaysHaveAlarm`, `WakeupsNeverRace` |

`StopsInTime` (the run stops at the first page that is worn out), `HotAlwaysCounted`, `WritesAlwaysCharged`, `NoWakeupRaces`,
`ParallelismAlwaysBounded` and the theorems on types speak of properties no run lists any more, because they are proved.

**Hot-count scheme.** `TablesAgree` says nothing while the remap loop runs, so it is not inductive. `Inv`
of `ClimberProofs` adds what the loop keeps: `order` lists every address once
(`RemapFollowsOrder`), and the tables agree about the pages given out so far (`RemapSettles`). A step
of the loop extends that by one page (`PlaceIsCorrect`), because ranks and addresses already used are
not used again: `PlacedRankIsInjective` is where scrambling needs xor. When the last page is given
out, all tables agree (`AllPlacedIsConsistent`, with `PlacedRankIsSurjective`). Climbing
(`ClimberIsCorrect`) exchanges two entries of consistent tables. `CandidatesAreOthers` follows from
types alone, by arithmetic on regions (`OwnRegionRanksAreOthers`).

`HotAlwaysOnStrong` is an action property of the remap's last step, so the proof carries the order of the counts through the
loop: `HotFirst` says that the counts as they will be at the end of the remap, reduced for the addresses already placed and still
to be reduced for the others, descend along `order`. It is established by the sort (`VisitOrderIsDescending`: the reversal at `zeropoint`
permutes addresses of count 0 only) and kept because the reduction is monotonic; a rank scrambled by xor stays in its region.

`WearLevelingKept` is the refinement. The abstract write happens when the call returns, while the charges are made one by one before; `CallInv`
is what has been paid so far. After the climb the lives are those at the start of the call less one for the page left, if
the address moved (`ClimbFacts`: the exchange is exactly `Exchanged`). In the remap there is a placement `m`, the one the write
was made on, such that the addresses still to be placed are where `m` has them, and the pages that have paid since the climb are
`host` and those left so far (`RemapCharges`). Each page is left at most once, so a charge adds a page that has not paid (`ChargedOnce`), and
a page that is worn when it should pay had at most one write left at the start of the call (`UnpaidLife`), which is when `WearOut` is allowed.

**Bloom filter.** `Inv` joins exact lists, hot addresses counted and estimates never too low. The work is
in `PromoteKeepsIndex` and `InsertKeepsIndex`: exactness of the index before the step tells that the
address that sinks, or leaves, is in no other slot. `CountIsSmallest` shows that the estimate is a
counter of the address, so adding to counters can only raise it. The lemmas are about one filter and
do not mention `BloomFilterUse`, so that they also serve the two filters of `BwlClimber`.

**Bloom-filter scheme.** What is proved of a filter is used twice, through instances of `BloomFilterUseProofs` for the filter of
addresses (`P1`) and that of groups (`P2`): a counted access and a clear keep both exact (`CountingKeepsFilters`, `ClearedFilters`).
With exact filters the visits of the three passes are those of one function, `LoopPlace`, that reads an address's place off the two
indices: not hot, hot in a group that is not, or hot in a hot group (`VisitsOfPages`). The order of the loops is total on these
places (`LoopOrder`) and no two addresses share one (`LoopPlaceFacts`).
`VisitedOnce` is not inductive, as it does not say which visits are over. `BwlInv` adds `VisitsFollowed`: the addresses placed so
far are those whose place is not after `visited`, in that order, and there are as many visits ahead as pages left. A step
takes the least place ahead (`NextVisitFacts`), which takes one address from `Ahead` (`AheadShrinks`); so a remap that has
placed all pages has visited all addresses, and the tables agree by the lemmas about `PlacedRank` shared with the hot-count scheme.

`BwlHotAlwaysOnStrong` needs no order of counts: an address the filters rank above another one has an earlier place
(`HotterIsEarlier`), so it was placed earlier (`RanksFollowVisits`), on a higher rank (`EarlierIsHigher`). `BwlWearLevelingKept`
has the shape of `WearLevelingKept`; `BwlRemapCharges` differs in that the page that took the write pays as
soon as the address written is placed, moved or not (`PaidAgain`), which `Recharges` allows. As it pays for staying as well as for
being left, the proof of a charge splits into whether the visited address is the one written, and whether it moves (`PlacingCharges`).

**Toss-up.** `Inv` is type correctness and inverse maps. The action properties follow from it step by step:
`AccessSplits` separates the charges of the inter-pair swap from those of the toss, and
`MoveIsCharged` goes through which addresses can have changed page. `TossAlwaysSparesWeakPages` is decided by the arbiter's
arithmetic: of two lives of which one is 0 or -1 and the other positive, both extreme draws favour the positive one, whatever the
sum (`TossIsForLiving`); a charge for an inter-pair swap can take a life to -1 first, but not lower.

**Phase barrier**, if a tid is not reused early (`EarlyReuse = FALSE`). `Inv` adds to the properties who may hold the lock at
which step (`LockHeld`), that a thread that left knows its slot (`Located`, `KnowsPlace`), how far the cleanup and the
shuffle have come (`Passes`), what the futex words say (`Words`), and that whoever is considered in this phase
has had a turn (`Turns`). There is one lemma per action. `PhasesAlwaysKept` is the refinement: every step is a step of `Phases` or a
stutter under `Where`, for any number of threads, any limit and any cleanup period.

**Memory controller**, if NVMain does not complete the parent of a swap last (`ParentMayBeLast = FALSE`). `TablesAgree` and
`Clocked` are not inductive: `Inv` adds that children are linked to recorded parents (`Linked`), that what NVMain
holds belongs to groups in flight and is linked (`Holds`), what `enqueue()` has in hand (`InHand`) and that in-flight groups
are recorded and listed once (`InFlight`). `SwapsAlwaysCopied` goes through the concatenation of the four page copies
(`SwapEventsFacts`), for any number of lines of a page.

**DRAM buffer**, reversed tables and all races included. `Inv` adds to `PoolsExact` that the free lists repeat no block
(`PoolsInv`), and why there is always a block to take (`FaultInv`): at least one block is free at any time, and two when one is
about to be taken. A fault reclaims exactly when only one is, and until the reclaim has got another, a process with blocks is
still ahead of it, from which it will get at least one (`ReleaseSizeFacts`). The size of a process's pools is read in two parts without the lock, so
a block written in between counts twice: `counted` is at most what the process holds, so the sum is at most twice that, and the assumption on
`min_free_pages` makes the share asked of it no more than it has. With two blocks and `min_free_pages` 2, TLC finds the assertion of `Release()` (`FairAllocator.cpp` 72) violated.

`MappingsAlwaysAgree` holds if there is one process (`OneProcess`), with any number of cores and every race of misses and first writes with the moves. Several
processes use the reversed tables, where `dram_remap` finds the disagreement. `MapsInv`, which TLC checks on the instance of `dram_maps` too, says what holds between the steps of a fault.
A stale translation in a TLB is possible (see below), so it cannot say that entries lead where the table does; it says it of the pages not in `overtaken`. What keeps the damage
to these is that the table and the block records are changed by faults alone: `TableInv` relates them whatever the TLBs hold, except that a fault on a stale entry can leave a block that no page leads to. `Whereabouts` says where
an entry may lead while a page moves: those of the page put out lead to PCM before the table does, those of the page brought in after it (`TlbInv`). `AccessInv` says what a miss has read
and how far a first write is; `MoveInv`, what the thread of the fault holds. A dirty mark on an entry is backed by the block's (`Marked`), or the write that made it is still under way, and will mark
the block that the table names by then.

**Futex matching.** `AllowanceCovers` is inductive with types alone, and has no further hypothesis: the allowance pays for each
thread that announced a wake, from the announcement to the join, and a call that fails leaves its part behind. `MatchesExact` and `UnmatchedAllowed`
hold if the wakes are ordinary (`OrdinaryWakes`): every argument is positive as a signed number, and there are no more threads than
the cap on `maxWakes` (2^24 in the code). With an argument of -1 the code's own bounds fail, see below. `Inv` adds what a call may wake (`Called`) and the balance of
counted wake-ups and threads woken (`Exact`). A sum over threads is the number of elements of a set of units (`Units`), so that the laws of
sums the proofs need (`TotalChanges`, `TotalIsMonotonic`, `TotalOfNone`) follow from those of cardinalities.

**Scheduler**, for orderly programs (`Orderly`): no call returns between the two steps of the watchdog (`PromptReturn = FALSE`), no sleep
follows another call with no instruction between them (`BackToBack = FALSE`), and no process is killed while a thread of it is queued or waits for its
turn (`Killable`). Each excluded case breaks a property, see below, so the theorems cannot do without them, and they say nothing of what `join()` and `sync()` assert of the state they find: disorderly programs break it. Masks, cores, threads
and processes, the quantum and the length of sleeps are arbitrary. `Inv`, which TLC checks on the instance of `sched_share` too, has these parts:

- `ContextsInv`: contexts and threads name each other, seen from both sides, and a context is in the barrier while its thread is RUNNING;
- `QueuesInv`: which states are in which queue, and that no queue lists a thread twice;
- `HandoffInv`: a context is promised only by a RUNNING thread that waits in `sync()`, or is about to read its hand-off; nobody is promised two, and
  whoever is promised one is QUEUED, in no queue, and may run there;
- `PlacesInv`: what the point a thread has reached says of its state and of its futex word. This is where `SleepersHaveAlarm` and
  the wake-up assertions come from;
- `TurnsInv`: who may execute has its turn at the barrier. At the end of a phase all scheduled threads are in `sync()`, so the hand-offs
  that `callback()` sets are found there, by the thread that set out to wait, and not before;
- `CallsInv`: a suppressed leave belongs to a thread in a call, and what the watchdog has in hand is one of them;
- `NoIdleContextWanted` and `SleepersOnTime` themselves. The first needs the search of `schedContext` to be exhaustive: `FirstAt` finds a
  thread of the queue whenever one allows the context, and a context whose thread is OUT is looked for when none is free.

The watchdog drives time only when nobody is scheduled; that this makes the barrier empty is a count of contexts. There is one lemma per action.

Only model-checked: liveness (`WearsOut`, `EveryoneGetsOn`, `EveryWakeMatched`, `EveryAccessDone`), which is out of the prover's
reach. Every other property of a passing run is the statement of a theorem. `dram_maps` looks at one process only, where
`MappingsAlwaysAgree` holds, and `sched_fair` and `sched_share` at the orderly programs of the scheduler's theorems.

## What was learnt about the code

Two runs show where the code does not do what it says itself (`findings` in `PROJECT.json`):

- `sched_prompt`: the watchdog ends a thread's suppressed leave and only then, after releasing the lock, leaves for
  it (`scheduler.cpp` 154–157). If the call returns in between, `join()` finds a RUNNING thread (`scheduler.h` 312 asserts it is not).
- `dram_remap`: when a page is put out of a block, `remap_page_table()` looks for the block among the keys of the reversed tables,
  which are PCM pages, and then sets the entry of the page put out to the block again (`reversed_page_table.cpp` 81–91). From then
  on two pages lead to one block, and TLBs, which were sent back to PCM, disagree with the table until they are filled again.

The rest contradicts no comment. All of it is in the models; what a constant excludes can be seen by changing it in
the configuration.

*Standalone schemes.*

- The remap of `bwlmm_climber.cpp` (line 547) charges the page that took the write even when its data stay,
  so one write can cost that page two charges. `hcmm_climber.cpp` (line 316) never charges it again, even when
  other data move onto it. The two refinements differ in `Recharges` for this reason.
- `twl.cpp` (lines 141–156) charges an inter-pair swap to the page under a vacated weak slot, but to the
  partner of the page for a strong one. `MovesAreCharged` states what is true of both.
- `twl.cpp` (line 250) increments a status that may be -1 by then, and line 256 looks at one page of the two it
  has charged. So a page can go below zero unnoticed, but only when a pair is exchanged
  (`OnlySwapsHideWear`), and the run ends nevertheless (`WearsOut`). While the two lives of a pair sum to less
  than 0, the toss prefers the page that is worn; `TossSparesWeakPages` is limited accordingly.
- `bwlmm_climber.cpp` (line 360) divides the count by 4 first, so counts 0 to 3 always trigger a climb.
- The filters are cleared by remaps only; with `climberenable = 2` they never are.

*Barrier and scheduler.*

- `EarlyReuse = TRUE` violates `RejoinFindsItself`: a tid reused before the thread killed on it is dropped finds another
  thread at its `lastIdx` (`barrier.h` 137), and can be listed twice.
- `Killable` with `"queued"` or `"syncing"` violates `FinishFindsQueued` and `SyncFindsRunning`: a process killed while a
  thread of it is handed a context, or waits for its turn, leaves the other side of the hand-off behind.
- `BackToBack = TRUE` violates `SleepersHaveAlarm`: a sleep that follows another call with no instruction in between is
  marked, but the `leave()` that would queue the sleeper has already happened. The real timeout the code leaves as a
  safety net, `2L<<31` ns, is 4.3 s.
- No liveness is claimed for the barrier. Under `FairSpec`, `EveryWaiterRuns` holds for two threads that take turns, but with
  three and `parallelThreads = 1` it fails: two threads that leave and rejoin within a phase can keep the third from its turn.
- `UnmatchedAllowed` is limited to behaviours with no thread woken from outside and no match given up. Without the limit it fails in the instance of `futex_match`: a thread
  woken by no call the simulator sees is counted
  while another's wake is under way; if that one woke nobody, the assertion at `scheduler.cpp` 334 fails, though 371
  expects external wakes.
- A call that wakes everyone breaks the assertion `wokenUp <= maxWakes` (`scheduler.cpp` 331). `scheduler.cpp` 295–297 expects the argument `UINT_MAX` and caps `maxWakes`; but `timeout.cpp` 192
  reads it as the int -1, and the minimum of -1 and the threads woken (214) is -1, which the scheduler takes for 2^32 - 1 threads woken. In the model: `WakeArguments` with -1, and a `MaxAllowance` above `WakeCap` so that
  the call can be made, violate `WokenWithinMax`. No run makes such a call, and no property of a run or theorem claims the bound.
- `MatchTimesOut` zeroes a count it has looked at without the lock (`scheduler.cpp` 342–350, no second look as at 358). What was counted since, for this waker or for another, is lost, and
  the other one has to wait for its own timeout. `EveryWakeMatched` therefore rests on the timeout.
- A wake call that fails never returns its allowance. A waker can be released by a thread that another one woke. A
  waker can be overtaken by others for ever if it sees enough each time and finds it taken each time, as a round that saw enough starts the two seconds anew: the second half of `EveryWakeMatched`.

*Simulator scheme and controller.*

- `ParentMayBeLast = TRUE` violates `Clocked`: if the last child of a swap completes while the parent does not,
  `RequestComplete()` goes on with a null request and keeps `return_lock`. NVMain's queues make it unlikely, as the parent
  is issued first.
- A plain access goes to the address of the request, not to the page the scheme has put it on, although the time of
  the table lookup is added.
- In `bwl.cpp` and `twl.cpp` of the simulator, `ans[8] == 0;` compares where it should assign, so flags of an earlier
  answer stay, and with them the copies are sent again.
- The regions above and below are indexed as pages, not through the life order (`climber.cpp`); `getpairaddr` of the
  simulator names the partner's page for strong slots.
- No one looks whether a page is worn out; lives fall below zero.

*DRAM buffer and translations.*

- A miss reads the table and fills the TLB in two steps, and a fault shoots down
  before it changes the tables and again, for the page it brings in only, after. A core can keep the block as the translation
  of a page that was put out of it, or PCM as that of a page whose data are in a block (TLC finds it in 9 states: the walk, the move, the fill), and a second fault can then
  give the page a second block (14 states). `MappingsAgree` names these pages (`overtaken`) and leaves out their TLB entries; that a block named by the table holds the page is claimed of them too.
- A first write that overlaps a move can leave a dirty block in the clean pool (19 states), from where it may be reclaimed before blocks that were never written. Its flag is set, so
  the data are written back. The entry is not left marked dirty, so the next write that hits moves the block over: this is what `MappingsAgree` says of pools.
- With private tables and several processes, the page put out of a block is mapped in the table of the process that faults,
  not in that of its owner, and shootdowns go by virtual page number to all cores, whatever runs there. `dram_maps` has
  one process for this reason.
- A write that misses the TLB marks nothing (`hot_monitor_tlb.h` 46–55); only a later write that hits does. A page written once by a miss
  counts as clean when it is put out, and is not written back unless the faulting core still has dirty lines of it.
- `should_reclaim()` tests for exactly one free block and is called without the pools' lock. With one controller the number
  is never missed; several controllers could pass over it.

## What is not modelled

- **Attack patterns and traces.** Any address stands for them, so every result holds for every workload.
- **`bwl.cpp` and `twl.cpp` of the simulator**: copies of the standalone schemes with the answers described above.
- **Floating point.** Ratios are compared exactly.
- **Buddy allocator.** The only calls ask for pages of order 0 at page faults, and the zones set up at start-up
  overlap and are shifted (`zone.cpp` 34–63, `memory_management.cpp` 195–196), so that splitting and coalescing as
  designed are not what runs.
- **Translation details**: the levels of page tables and their sizes, regions of memory shared between processes
  (`map_shared_region`), counters and thresholds, LRU, `multi_queue`, the instruction TLB, the figures of use that tune the
  threshold, and two cores that touch a page for the first time at once.
- **The rest of the controller**: the profiling that adjusts its threshold, energy and latencies.
- **Caches, coherence, weave phase, cores**: upstream zsim, timing models not changed by this repository's
  own work. **NVMain** and the **Pin kit** are vendored.
- **Fault inputs**: a missing endurance file, a region size outside the documented range, a memory of fewer
  than two regions.
- **Scheduler**: `waitUntilQueued`, which only makes it likely that a woken thread gets the lock next; `needsJoin`, which no
  caller sets; fast-forwarding, statistics.
