------------------------------ MODULE DramBuffer ------------------------------
(***************************************************************************)
(* Hot pages of main memory (PCM) in a buffer of DRAM blocks.              *)
(*                                                                         *)
(* Every process has a page table, every core a TLB (hot_monitor_tlb.h)    *)
(* and a walker (page_table_walker.h) on the table of the process that     *)
(* runs there.  When a TLB entry's counter passes its threshold, the       *)
(* memory controller, on the thread of the core whose access it was,       *)
(* raises a fault that moves the page to a block: it takes a block from    *)
(* the pools of FairAllocator.cpp, evicts the page that is still in it,    *)
(* and remaps both pages in tables and TLBs.  Blocks that the allocator    *)
(* reclaims stay mapped until they are taken again.                        *)
(*                                                                         *)
(* A fault holds the controller's access_lock, but the other cores go on   *)
(* translating between its steps.  A miss reads the table and fills the    *)
(* TLB in two steps, and a first write marks the entry, the block and the  *)
(* pools in four, none of them with a lock against the fault.              *)
(*                                                                         *)
(* Abstracted: the counters and their thresholds (any translation in use   *)
(* may be over), LRU order, cached data, the instruction TLB, which is     *)
(* searched and shot down like the data TLB.  multi_queue is off.          *)
(***************************************************************************)
EXTENDS Integers, Sequences, FiniteSets, SequencesExt

CONSTANTS
    process_count,
    Core,
    pages,                  \* bound: the pages of a process
    tlb_size,
    total_page_count,       \* DRAM blocks
    min_free_pages,         \* the free blocks a reclaim aims at
    enable_shared_memory    \* remap through reversed tables; the default

Process == 0 .. process_count - 1

Page == 0 .. pages - 1      \* virtual page numbers

Block == 0 .. total_page_count - 1

(* Physical pages: those of PCM, and from high_addr on those of the blocks. *)
high_addr == process_count * pages

Ppn == 0 .. high_addr + total_page_count - 1

block_id_to_addr(b) == high_addr + b

dram_addr_to_block_id(ppn) == ppn - high_addr

is_dram_address(ppn) == ppn >= high_addr

NoPage == -1

NoBlock == -1

ASSUME BufferAssumption ==
    /\ process_count \in Nat \ {0} /\ pages \in Nat \ {0} /\ tlb_size \in Nat \ {0}
    /\ total_page_count \in Nat \ {0, 1}
    /\ min_free_pages \in Nat \ {0} /\ 2 * (min_free_pages - 1) < total_page_count
    /\ enable_shared_memory \in BOOLEAN

(* "if( 1==zinfo->numProcs) zinfo->enable_shared_memory = false" (init.cpp:464) *)
ASSUME SharedAssumption == enable_shared_memory => process_count > 1

VARIABLES
    table,              \* process -> page -> its physical page, or NoPage
    running,            \* core -> its process
    tlb,                \* core -> page -> its entry, or NoEntry
    walk,               \* core -> the translation a miss has read, or NoWalk
    writing,            \* core -> how far its first write of a page is
    overtaken,          \* the pages a miss has filled in out of date (history)
    clean_pools,        \* process -> the blocks it was given and has not written
    dirty_pools,        \* process -> the blocks it has written
    global_clean_pool, global_dirty_pool,   \* free blocks, the next one first
    busy_pages,
    used, dirty,        \* the blocks flagged USED, and those flagged DIRTY
    original_addr,      \* block -> the PCM page of the page in it
    vaddr,              \* block -> the virtual page in it
    fault               \* the fault under way

pools == <<clean_pools, dirty_pools, global_clean_pool, global_dirty_pool, busy_pages>>
blocks == <<used, dirty, original_addr, vaddr>>
vars == <<table, running, tlb, walk, writing, overtaken, pools, blocks, fault>>

NoEntry == [ppn |-> NoPage, in_dram |-> FALSE, dirty |-> FALSE]

NoWalk == [vpn |-> NoPage, ppn |-> NoPage]

NotWriting == [at |-> "none", vpn |-> NoPage]

NoFault == [at |-> "none", core |-> NoPage, vpn |-> NoPage, block |-> NoBlock,
            proc |-> 0, counted |-> 0]

Init ==
    /\ table = [p \in Process |-> [v \in Page |-> NoPage]]
    /\ running \in [Core -> Process]
    /\ tlb = [c \in Core |-> [v \in Page |-> NoEntry]]
    /\ walk = [c \in Core |-> NoWalk]
    /\ writing = [c \in Core |-> NotWriting] /\ overtaken = {}
    /\ clean_pools = [p \in Process |-> {}]
    /\ dirty_pools = [p \in Process |-> {}]
    /\ global_clean_pool = [i \in 1 .. total_page_count |-> i - 1]
    /\ global_dirty_pool = <<>>
    /\ busy_pages = 0
    /\ used = {} /\ dirty = {}
    /\ original_addr = [b \in Block |-> NoPage]
    /\ vaddr = [b \in Block |-> NoPage]
    /\ fault = NoFault

-----------------------------------------------------------------------------
(* What the cores do while no fault of their own is under way. *)

(* The thread of core c is not inside a miss, a first write or a fault. *)
Free(c) == walk[c] = NoWalk /\ writing[c] = NotWriting /\ fault.core # c

(* The page of PCM that the buddy allocator gives to a page: one of its own. *)
Frame(p, v) == p * pages + v

Entry(ppn) == [ppn |-> ppn, in_dram |-> is_dram_address(ppn), dirty |-> FALSE]

(***************************************************************************)
(* A miss walks the table.  If the page is not mapped, do_page_fault()     *)
(* maps it; its shootdown clears the flags of the entries for that page    *)
(* number in all TLBs, but look_up() finds an entry by its number alone.   *)
(***************************************************************************)
WalkTable(c, v) ==
    /\ Free(c)
    /\ tlb[c][v] = NoEntry
    /\ LET p == running[c] IN
       IF table[p][v] # NoPage
       THEN /\ walk' = [walk EXCEPT ![c] = [vpn |-> v, ppn |-> table[p][v]]]
            /\ UNCHANGED <<table, tlb>>
       ELSE /\ walk' = [walk EXCEPT ![c] = [vpn |-> v, ppn |-> Frame(p, v)]]
            /\ table' = [table EXCEPT ![p][v] = Frame(p, v)]
            /\ tlb' = [d \in Core |-> [tlb[d] EXCEPT ![v] = [@ EXCEPT !.in_dram = FALSE, !.dirty = FALSE]]]
    /\ UNCHANGED <<running, writing, overtaken, pools, blocks, fault>>

(***************************************************************************)
(* Where an entry for page v of process p may lead, for a shootdown to     *)
(* come to put it right or because it is right: a page that is put out of  *)
(* a block has been shot down before the table is changed, one that is     *)
(* brought in will be.                                                     *)
(***************************************************************************)
Whereabouts(p, v) ==
    CASE fault.at = "map" /\ fault.block \in used /\ vaddr[fault.block] = v ->
            {original_addr[fault.block]}
      [] fault.at = "shoot" /\ fault.vpn = v ->
            {original_addr[fault.block], block_id_to_addr(fault.block)}
      [] OTHER -> {table[p][v]}

Entries(c) == {v \in Page : tlb[c][v] # NoEntry}

(* The walk is over: fill the TLB, in place of some entry if it is full.    *)
(* The page may have moved since.                                           *)
Insert(c) ==
    /\ walk[c] # NoWalk
    /\ LET filled == [tlb[c] EXCEPT ![walk[c].vpn] = Entry(walk[c].ppn)] IN
       IF Cardinality(Entries(c)) < tlb_size
       THEN tlb' = [tlb EXCEPT ![c] = filled]
       ELSE \E v \in Entries(c) : tlb' = [tlb EXCEPT ![c] = [filled EXCEPT ![v] = NoEntry]]
    /\ overtaken' = IF walk[c].ppn \in Whereabouts(running[c], walk[c].vpn)
                    THEN overtaken ELSE overtaken \cup {walk[c].vpn}
    /\ walk' = [walk EXCEPT ![c] = NoWalk]
    /\ UNCHANGED <<table, running, writing, pools, blocks, fault>>

convert_to_dirty(p, b) ==
    IF b \in clean_pools[p]
    THEN /\ clean_pools' = [clean_pools EXCEPT ![p] = @ \ {b}]
         /\ dirty_pools' = [dirty_pools EXCEPT ![p] = @ \cup {b}]
    ELSE UNCHANGED <<clean_pools, dirty_pools>>

(***************************************************************************)
(* The first write that hits an entry of a DRAM page marks the entry, the  *)
(* block that the table names, and the entry's block in the pools, each of *)
(* them as it is by then.  A write that misses marks nothing.              *)
(***************************************************************************)
WriteHit(c, v) ==
    /\ Free(c)
    /\ tlb[c][v].in_dram /\ ~tlb[c][v].dirty
    /\ writing' = [writing EXCEPT ![c] = [at |-> "set", vpn |-> v]]
    /\ UNCHANGED <<table, running, tlb, walk, overtaken, pools, blocks, fault>>

SetDirty(c) ==
    /\ writing[c].at = "set"
    /\ tlb' = [tlb EXCEPT ![c][writing[c].vpn].dirty = TRUE]
    /\ writing' = [writing EXCEPT ![c].at = "through"]
    /\ UNCHANGED <<table, running, walk, overtaken, pools, blocks, fault>>

WriteThrough(c) ==
    LET ppn == table[running[c]][writing[c].vpn] IN
    /\ writing[c].at = "through"
    /\ dirty' = IF is_dram_address(ppn) THEN dirty \cup {dram_addr_to_block_id(ppn)} ELSE dirty
    /\ writing' = [writing EXCEPT ![c].at = "convert"]
    /\ UNCHANGED <<table, running, tlb, walk, overtaken, pools, used, original_addr, vaddr, fault>>

ConvertToDirty(c) ==
    /\ writing[c].at = "convert"
    /\ convert_to_dirty(running[c], dram_addr_to_block_id(tlb[c][writing[c].vpn].ppn))
    /\ writing' = [writing EXCEPT ![c] = NotWriting]
    /\ UNCHANGED <<table, running, tlb, walk, overtaken, global_clean_pool, global_dirty_pool,
                   busy_pages, blocks, fault>>

(* The thread on core c is descheduled: contextSwitch(-1) flushes the TLB. *)
ContextSwitch(c) ==
    /\ Free(c)
    /\ tlb' = [tlb EXCEPT ![c] = [v \in Page |-> NoEntry]]
    /\ UNCHANGED <<table, running, walk, writing, overtaken, pools, blocks, fault>>

(* Core c, flushed, is given to a thread of process p. *)
SetPaging(c, p) ==
    /\ Free(c) /\ \A v \in Page : tlb[c][v] = NoEntry
    /\ running' = [running EXCEPT ![c] = p]
    /\ UNCHANGED <<table, tlb, walk, writing, overtaken, pools, blocks, fault>>

-----------------------------------------------------------------------------
(* The fault, step by step. *)

should_reclaim == total_page_count - busy_pages = 1

(* An access of core c to a PCM page finds its entry over the threshold. *)
DramFault(c, v) ==
    /\ fault = NoFault
    /\ Free(c)
    /\ tlb[c][v] # NoEntry
    /\ ~is_dram_address(tlb[c][v].ppn) /\ ~tlb[c][v].in_dram
    /\ fault' = [NoFault EXCEPT !.at = IF should_reclaim THEN "reclaim" ELSE "allocate",
                                !.core = c, !.vpn = v]
    /\ UNCHANGED <<table, running, tlb, walk, writing, overtaken, pools, blocks>>

Held(p) == Cardinality(clean_pools[p]) + Cardinality(dirty_pools[p])

(* Faulty variant: the share is taken of the pool and not of what is missing. *)
ShareOfPool(held) == IF held = 0 THEN 0 ELSE (held * total_page_count) \div min_free_pages + 1

(* What equal_evict() takes from a process with so many of the blocks it wants. *)
release_size(held) ==
    IF held = 0 THEN 0 ELSE (held * (min_free_pages - 1)) \div total_page_count + 1

SmallerOf(m, n) == IF m <= n THEN m ELSE n

(* equal_evict() takes one process after the other.  It adds up the sizes   *)
(* of its pools without the lock: a block that is written in between is     *)
(* counted twice.                                                           *)
CountClean ==
    /\ fault.at = "reclaim"
    /\ fault' = [fault EXCEPT !.at = "release", !.counted = Cardinality(clean_pools[fault.proc])]
    /\ UNCHANGED <<table, running, tlb, walk, writing, overtaken, pools, blocks>>

Counted(p) == fault.counted + Cardinality(dirty_pools[p])

(* Release(): clean blocks first, in the order of a hash table. *)
Release ==
    LET p == fault.proc
        n == release_size(Counted(p))
        fromClean == SmallerOf(n, Cardinality(clean_pools[p]))
    IN  /\ fault.at = "release"
        /\ n <= Held(p)
        /\ \E clean \in SUBSET clean_pools[p], written \in SUBSET dirty_pools[p] :
              /\ Cardinality(clean) = fromClean /\ Cardinality(written) = n - fromClean
              /\ clean_pools' = [clean_pools EXCEPT ![p] = @ \ clean]
              /\ dirty_pools' = [dirty_pools EXCEPT ![p] = @ \ written]
              /\ \E s \in SetToSeqs(clean) : global_clean_pool' = global_clean_pool \o s
              /\ \E s \in SetToSeqs(written) : global_dirty_pool' = global_dirty_pool \o s
        /\ busy_pages' = busy_pages - n
        /\ fault' = IF p + 1 \in Process
                    THEN [fault EXCEPT !.at = "reclaim", !.proc = p + 1, !.counted = 0]
                    ELSE [fault EXCEPT !.at = "allocate", !.counted = 0]
        /\ UNCHANGED <<table, running, tlb, walk, writing, overtaken, blocks>>

Taken(b) ==
    /\ clean_pools' = [clean_pools EXCEPT ![running[fault.core]] = @ \cup {b}]
    /\ busy_pages' = busy_pages + 1
    /\ fault' = [fault EXCEPT !.block = b, !.at = IF b \in used THEN "evict" ELSE "map"]

(* allocate_one_page() *)
Allocate ==
    /\ fault.at = "allocate"
    /\ \/ /\ global_clean_pool # <<>>
          /\ Taken(Head(global_clean_pool))
          /\ global_clean_pool' = Tail(global_clean_pool)
          /\ UNCHANGED global_dirty_pool
       \/ /\ global_clean_pool = <<>> /\ global_dirty_pool # <<>>
          /\ Taken(Head(global_dirty_pool))
          /\ global_dirty_pool' = Tail(global_dirty_pool)
          /\ UNCHANGED global_clean_pool
    /\ UNCHANGED <<table, running, tlb, walk, writing, overtaken, dirty_pools, blocks>>

(* remap_ppn() of the entries for page v in all TLBs, whoever runs there. *)
tlb_shootdown_hscc(v, ppn) ==
    tlb' = [c \in Core |->
              IF tlb[c][v] = NoEntry THEN tlb[c] ELSE [tlb[c] EXCEPT ![v] = Entry(ppn)]]

(***************************************************************************)
(* evict_DRAM_page(), if the block is used: the flush of the block's lines *)
(* from the faulting core's caches may find dirty ones.                    *)
(***************************************************************************)
ShootDownEvicted ==
    LET b == fault.block IN
    /\ fault.at = "evict"
    /\ \E wbs \in BOOLEAN : dirty' = IF wbs THEN dirty \cup {b} ELSE dirty
    /\ tlb_shootdown_hscc(vaddr[b], original_addr[b])
    /\ fault' = [fault EXCEPT !.at = "map"]
    /\ UNCHANGED <<table, running, walk, writing, overtaken, pools, used, original_addr, vaddr>>

(* Remapped(t, ppn, target): every table entry first mapped to PCM page    *)
(* ppn, the key of the reversed tables, now leads to target.               *)
Remapped(t, ppn, target) ==
    [p \in Process |-> [v \in Page |->
        IF t[p][v] # NoPage /\ Frame(p, v) = ppn THEN target ELSE t[p][v]]]

(* Faulty variant: the evicted page stays mapped. *)
TablesWithoutEviction(p, b) == table

(***************************************************************************)
(* The tables after the eviction of the page in block b.  With reversed    *)
(* tables, remap_page_table(b, origin) finds no key b, and gives the entry *)
(* with key origin the block b as its target.  Otherwise the walker of the *)
(* faulting core maps the page in the table of its own process.            *)
(***************************************************************************)
TablesAfterEviction(p, b) ==
    IF b \notin used THEN table
    ELSE IF enable_shared_memory
         THEN Remapped(table, original_addr[b], block_id_to_addr(b))
         ELSE [table EXCEPT ![p][vaddr[b]] = original_addr[b]]

(* evict_and_fetch() *)
MapBlock ==
    LET b == fault.block
        c == fault.core
        v == fault.vpn
        p == running[c]
        origin == tlb[c][v].ppn
        evicted == TablesAfterEviction(p, b)
    IN  /\ fault.at = "map"
        /\ table' = IF enable_shared_memory
                    THEN Remapped(evicted, origin, block_id_to_addr(b))
                    ELSE [evicted EXCEPT ![p][v] = block_id_to_addr(b)]
        /\ used' = used \cup {b}
        /\ dirty' = IF b \in used THEN dirty \ {b} ELSE dirty
        /\ original_addr' = [original_addr EXCEPT ![b] = origin]
        /\ vaddr' = [vaddr EXCEPT ![b] = v]
        /\ fault' = [fault EXCEPT !.at = "shoot"]
        /\ UNCHANGED <<running, tlb, walk, writing, overtaken, pools>>

ShootDownInstalled ==
    /\ fault.at = "shoot"
    /\ tlb_shootdown_hscc(fault.vpn, block_id_to_addr(fault.block))
    /\ fault' = NoFault
    /\ UNCHANGED <<table, running, walk, writing, overtaken, pools, blocks>>

Next ==
    \/ \E c \in Core, v \in Page : WalkTable(c, v) \/ WriteHit(c, v) \/ DramFault(c, v)
    \/ \E c \in Core : Insert(c) \/ SetDirty(c) \/ WriteThrough(c) \/ ConvertToDirty(c) \/ ContextSwitch(c)
    \/ \E c \in Core, p \in Process : SetPaging(c, p)
    \/ CountClean \/ Release \/ Allocate \/ ShootDownEvicted \/ MapBlock \/ ShootDownInstalled

Spec == Init /\ [][Next]_vars

-----------------------------------------------------------------------------
(* Properties. *)

TypeOK ==
    /\ table \in [Process -> [Page -> Ppn \cup {NoPage}]]
    /\ running \in [Core -> Process]
    /\ tlb \in [Core -> [Page -> [ppn : Ppn \cup {NoPage}, in_dram : BOOLEAN, dirty : BOOLEAN]]]
    /\ walk \in [Core -> [vpn : Page \cup {NoPage}, ppn : Ppn \cup {NoPage}]]
    /\ writing \in [Core -> [at : {"none", "set", "through", "convert"}, vpn : Page \cup {NoPage}]]
    /\ overtaken \subseteq Page
    /\ clean_pools \in [Process -> SUBSET Block] /\ dirty_pools \in [Process -> SUBSET Block]
    /\ global_clean_pool \in Seq(Block) /\ global_dirty_pool \in Seq(Block)
    /\ busy_pages \in 0 .. total_page_count
    /\ used \subseteq Block /\ dirty \subseteq Block
    /\ original_addr \in [Block -> Ppn \cup {NoPage}]
    /\ vaddr \in [Block -> Page \cup {NoPage}]
    /\ fault \in [at : {"none", "reclaim", "release", "allocate", "evict", "map", "shoot"},
                  core : Core \cup {NoPage}, vpn : Page \cup {NoPage},
                  block : Block \cup {NoBlock}, proc : Process, counted : 0 .. total_page_count]

Given == UNION {clean_pools[p] \cup dirty_pools[p] : p \in Process}

FreeBlocks == ToSet(global_clean_pool) \cup ToSet(global_dirty_pool)

(***************************************************************************)
(* Every block is in one pool only, busy_pages, from which should_reclaim  *)
(* is decided, counts those given to processes, a reclaim never asks a     *)
(* process for more than it has, and an allocation finds a block, and the  *)
(* pools no longer short, as Release() and allocate_one_page() assert      *)
(* (FairAllocator.cpp:72, 95, 124).                                        *)
(***************************************************************************)
PoolsExact ==
    /\ TypeOK
    /\ Given \cup FreeBlocks = Block
    /\ busy_pages = Cardinality(Given)
    /\ busy_pages + Len(global_clean_pool) + Len(global_dirty_pool) = total_page_count
    /\ \A p, q \in Process :
          /\ clean_pools[p] \cap dirty_pools[q] = {}
          /\ p # q => clean_pools[p] \cap clean_pools[q] = {} /\ dirty_pools[p] \cap dirty_pools[q] = {}
    /\ fault.at = "release" => release_size(Counted(fault.proc)) <= Held(fault.proc)
    /\ fault.at = "allocate" => ~should_reclaim /\ FreeBlocks # {}

(***************************************************************************)
(* The records of where a page is, and whether it was written, agree       *)
(* through every move, with misses and first writes that race it.          *)
(*  - An entry leads where the table leads, or the table will lead, or a   *)
(*    shootdown to come will put it right: only a miss that reads the      *)
(*    table before a move and fills the TLB behind its shootdown breaks    *)
(*    this, and for its page only.                                         *)
(*  - The table leads to a block only if the block holds the page, for     *)
(*    such pages too, and to no other place if it does.                    *)
(*  - An entry that counts as dirty, so that no further write marks the    *)
(*    block, belongs to a block that is marked dirty and from which a      *)
(*    reclaim takes last, or its first write is still under way.           *)
(***************************************************************************)
MappingsAgree ==
    /\ \A c \in Core, v \in Page \ overtaken : tlb[c][v] # NoEntry =>
          /\ tlb[c][v].ppn \in Whereabouts(running[c], v)
          /\ tlb[c][v].in_dram = is_dram_address(tlb[c][v].ppn)
    /\ \A p \in Process, v \in Page : is_dram_address(table[p][v]) =>
          LET b == dram_addr_to_block_id(table[p][v]) IN
          b \in used /\ vaddr[b] = v /\ original_addr[b] = Frame(p, v)
    /\ \A b \in used : vaddr[b] \in overtaken
                       \/ \E p \in Process : table[p][vaddr[b]] = block_id_to_addr(b)
    /\ \A c \in Core, v \in Page \ overtaken : tlb[c][v].in_dram /\ tlb[c][v].dirty =>
          LET b == dram_addr_to_block_id(tlb[c][v].ppn) IN
          /\ b \in dirty \/ writing[c] = [at |-> "through", vpn |-> v]
          /\ b \notin clean_pools[running[c]] \/ b = fault.block \/ writing[c].vpn = v

(***************************************************************************)
(* A block holds one page: the page that was in it before is mapped to PCM *)
(* again, as the list of what an eviction does has it                      *)
(* ("*4.map page table", page_table_walker.h:170-173).                     *)
(***************************************************************************)
BlocksHoldOnePage ==
    \A p, q \in Process, v, w \in Page :
        is_dram_address(table[p][v]) /\ table[p][v] = table[q][w] => p = q /\ v = w
=============================================================================
