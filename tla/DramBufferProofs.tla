-------------------------- MODULE DramBufferProofs --------------------------
(***************************************************************************)
(* The allocator of DRAM blocks never loses a block, gives it to two       *)
(* processes or runs dry: for any number of processes, cores, pages and    *)
(* blocks, with private and with reversed tables, races of misses and      *)
(* faults included.  The TLBs, the table and the records of the blocks     *)
(* agree on where every page is, for one process.                          *)
(***************************************************************************)
EXTENDS DramBuffer, FiniteSetTheorems, TLAPS

(* The pool of free blocks lists a block at most once. *)
Distinct(s) == \A i, j \in DOMAIN s : i # j => s[i] # s[j]

(***************************************************************************)
(* The inductive invariant.  That there is a block to allocate is known    *)
(* only from what a reclaim still has to release: should_reclaim tells one *)
(* number of free blocks from all others, and a reclaim goes on to the     *)
(* next process whatever it has got from this one.  What a reclaim counts  *)
(* of a process is at least what it has and at most twice that, as a block *)
(* that is written meanwhile goes from the pool that was counted to the    *)
(* other.                                                                  *)
(***************************************************************************)
PoolsInv ==
    /\ Distinct(global_clean_pool) /\ Distinct(global_dirty_pool)
    /\ ToSet(global_clean_pool) \cap ToSet(global_dirty_pool) = {}
    /\ Given \cup FreeBlocks = Block
    /\ Given \cap FreeBlocks = {}
    /\ busy_pages = Cardinality(Given)
    /\ \A p, q \in Process :
          /\ clean_pools[p] \cap dirty_pools[q] = {}
          /\ p # q => clean_pools[p] \cap clean_pools[q] = {} /\ dirty_pools[p] \cap dirty_pools[q] = {}

FaultInv ==
    /\ fault.at # "none" => fault.core \in Core /\ fault.vpn \in Page
    /\ fault.at \in {"evict", "map", "shoot"} => fault.block \in Block
    /\ busy_pages + 1 <= total_page_count
    /\ fault.at = "allocate" => busy_pages + 2 <= total_page_count
    /\ fault.at \in {"reclaim", "release"} =>
          \/ busy_pages + 2 <= total_page_count
          \/ \E q \in Process : fault.proc <= q /\ Held(q) > 0
    /\ fault.at = "release" => fault.counted <= Held(fault.proc) /\ Held(fault.proc) <= Counted(fault.proc)

StoreInv == TypeOK /\ PoolsInv /\ FaultInv

(* A miss and a first write are about a page. *)
CoresInv ==
    \A c \in Core :
        /\ walk[c] # NoWalk => walk[c].vpn \in Page
        /\ writing[c].at # "none" => writing[c].vpn \in Page

Inv == StoreInv /\ CoresInv

-----------------------------------------------------------------------------
(* A process with some of all blocks has more than its part of fewer, even  *)
(* if each of them is counted twice.                                        *)
LEMMA ShareIsHeld ==
    ASSUME NEW a \in Nat, a > 0, NEW n \in Nat, n <= 2 * a,
           NEW m \in Nat, NEW t \in Nat, 2 * m < t
    PROVE  (n * m) \div t \in Nat /\ (n * m) \div t < a
  <1> DEFINE q == (n * m) \div t
  <1>1. n * m \in Nat /\ t > 0
    OBVIOUS
  <1>2. q \in Nat /\ q * t <= n * m
    BY <1>1
  <1>3. n * m < a * t
    <2>1. PICK d \in Nat : t = 2 * m + d /\ d > 0
      BY t - 2 * m \in Nat
    <2>2. PICK e \in Nat : 2 * a = n + e
      BY 2 * a - n \in Nat
    <2>3. (2 * a) * m = n * m + e * m /\ e * m \in Nat
      BY <2>2
    <2>4. a * t = (2 * a) * m + a * d /\ a * d \in Nat /\ a * d > 0
      BY <2>1
    <2> QED
      BY <2>3, <2>4, <1>1
  <1>4. ASSUME q >= a PROVE FALSE
    <2>1. PICK d \in Nat : q = a + d
      BY <1>2, <1>4, q - a \in Nat
    <2>2. q * t = a * t + d * t /\ d * t \in Nat /\ a * t \in Nat
      BY <2>1
    <2> QED
      BY <2>2, <1>2, <1>3, <1>1
  <1> QED
    BY <1>2, <1>4

(* The length of a list without repetitions is the number of its elements. *)
LEMMA LengthCounts ==
    ASSUME NEW S, NEW s \in Seq(S), Distinct(s)
    PROVE  IsFiniteSet(ToSet(s)) /\ Cardinality(ToSet(s)) = Len(s)
  <1>1. DOMAIN s = 1 .. Len(s) /\ Len(s) \in Nat
    OBVIOUS
  <1>2. s \in [1 .. Len(s) -> ToSet(s)]
    BY <1>1 DEF ToSet
  <1>3. \A y \in ToSet(s) : \E i \in 1 .. Len(s) : s[i] = y
    BY <1>1 DEF ToSet
  <1>4. s \in Bijection(1 .. Len(s), ToSet(s))
    BY <1>1, <1>2, <1>3 DEF Bijection, Injection, Surjection, IsInjective, Distinct
  <1>5. ExistsBijection(1 .. Len(s), ToSet(s))
    BY <1>4 DEF ExistsBijection
  <1>6. Cardinality(ToSet(s)) = Len(s)
    BY <1>1, <1>5, FS_CountingElements
  <1>7. IsFiniteSet(ToSet(s))
    BY <1>1, <1>4, FS_Surjection, FS_Interval DEF Bijection
  <1> QED
    BY <1>6, <1>7

(* A listing of a finite set has all its elements, each once. *)
LEMMA ListingIsComplete ==
    ASSUME NEW S, IsFiniteSet(S), NEW s \in SetToSeqs(S)
    PROVE  s \in Seq(S) /\ Len(s) = Cardinality(S) /\ Distinct(s) /\ ToSet(s) = S
  <1> DEFINE n == Cardinality(S)
  <1>1. n \in Nat
    BY FS_CardinalityType
  <1>2. s \in [1 .. n -> S] /\ \A i, j \in 1 .. n : i # j => s[i] # s[j]
    BY DEF SetToSeqs
  <1>3. s \in Seq(S) /\ Len(s) = n /\ DOMAIN s = 1 .. n
    BY <1>1, <1>2
  <1>4. Distinct(s)
    BY <1>2, <1>3 DEF Distinct
  <1>5. Cardinality(ToSet(s)) = n
    BY <1>3, <1>4, LengthCounts
  <1>6. ToSet(s) \subseteq S
    BY <1>2, <1>3 DEF ToSet
  <1> QED
    BY <1>3, <1>4, <1>5, <1>6, FS_Subset

(* Appending a list of other elements. *)
LEMMA AppendedList ==
    ASSUME NEW S, NEW u \in Seq(S), NEW s \in Seq(S), Distinct(u), Distinct(s),
           ToSet(u) \cap ToSet(s) = {}
    PROVE  u \o s \in Seq(S) /\ Distinct(u \o s) /\ ToSet(u \o s) = ToSet(u) \cup ToSet(s)
  <1> DEFINE w == u \o s
  <1>1. w \in Seq(S) /\ Len(w) = Len(u) + Len(s) /\ DOMAIN w = 1 .. Len(w)
    OBVIOUS
  <1>2. DOMAIN u = 1 .. Len(u) /\ DOMAIN s = 1 .. Len(s) /\ Len(u) \in Nat /\ Len(s) \in Nat
    OBVIOUS
  <1>3. \A i \in DOMAIN w : IF i <= Len(u) THEN i \in DOMAIN u /\ w[i] = u[i]
                            ELSE i - Len(u) \in DOMAIN s /\ w[i] = s[i - Len(u)]
    BY <1>1, <1>2
  <1>4. Distinct(w)
    <2> SUFFICES ASSUME NEW i \in DOMAIN w, NEW j \in DOMAIN w, i # j PROVE w[i] # w[j]
      BY DEF Distinct
    <2>1. CASE i <= Len(u) /\ j <= Len(u)
      BY <2>1, <1>3 DEF Distinct
    <2>2. CASE i > Len(u) /\ j > Len(u)
      <3>1. i - Len(u) # j - Len(u)
        BY <1>1, <1>2
      <3> QED
        BY <2>2, <3>1, <1>1, <1>2, <1>3 DEF Distinct
    <2>3. \A k \in DOMAIN w : IF k <= Len(u) THEN w[k] \in ToSet(u) ELSE w[k] \in ToSet(s)
      BY <1>3 DEF ToSet
    <2>4. CASE i <= Len(u) /\ ~(j <= Len(u))
      BY <2>3, <2>4
    <2>5. CASE ~(i <= Len(u)) /\ j <= Len(u)
      BY <2>3, <2>5
    <2> QED
      BY <2>1, <2>2, <2>4, <2>5, <1>1, <1>2
  <1>5. ToSet(w) \subseteq ToSet(u) \cup ToSet(s)
    BY <1>3 DEF ToSet
  <1>6. \A i \in DOMAIN u : i \in DOMAIN w /\ w[i] = u[i]
    BY <1>1, <1>2
  <1>7. \A i \in DOMAIN s : i + Len(u) \in DOMAIN w /\ w[i + Len(u)] = s[i]
    BY <1>1, <1>2
  <1>8. ToSet(u) \subseteq ToSet(w)
    BY <1>6 DEF ToSet
  <1>9. ToSet(s) \subseteq ToSet(w)
    BY <1>7 DEF ToSet
  <1> QED
    BY <1>1, <1>4, <1>5, <1>8, <1>9

(* Taking the first element. *)
LEMMA TailOfList ==
    ASSUME NEW S, NEW u \in Seq(S), Distinct(u), u # <<>>
    PROVE  /\ Tail(u) \in Seq(S) /\ Distinct(Tail(u))
           /\ Head(u) \in ToSet(u) /\ ToSet(Tail(u)) = ToSet(u) \ {Head(u)}
  <1>1. Len(u) \in Nat /\ Len(u) > 0 /\ DOMAIN u = 1 .. Len(u) /\ Head(u) = u[1]
    OBVIOUS
  <1>2. Tail(u) \in Seq(S) /\ Len(Tail(u)) = Len(u) - 1 /\ DOMAIN Tail(u) = 1 .. Len(u) - 1
    BY <1>1
  <1>3. \A i \in DOMAIN Tail(u) : i + 1 \in DOMAIN u /\ i + 1 # 1 /\ Tail(u)[i] = u[i + 1]
    BY <1>1, <1>2
  <1>4. Distinct(Tail(u))
    BY <1>1, <1>2, <1>3 DEF Distinct
  <1>5. \A i \in DOMAIN u : i # 1 => i - 1 \in DOMAIN Tail(u) /\ Tail(u)[i - 1] = u[i]
    BY <1>1, <1>2
  <1>6. 1 \in DOMAIN u
    BY <1>1
  <1>7. ToSet(Tail(u)) \subseteq ToSet(u) \ {Head(u)}
    BY <1>1, <1>3, <1>6 DEF ToSet, Distinct
  <1>8. ToSet(u) \ {Head(u)} \subseteq ToSet(Tail(u))
    BY <1>1, <1>5 DEF ToSet
  <1> QED
    BY <1>1, <1>2, <1>4, <1>6, <1>7, <1>8 DEF ToSet

-----------------------------------------------------------------------------
(* Blocks and processes are finitely many numbers. *)
LEMMA BlockFacts ==
    /\ IsFiniteSet(Block) /\ Cardinality(Block) = total_page_count
    /\ total_page_count \in Nat /\ total_page_count > 1
    /\ process_count \in Nat /\ process_count > 0
    /\ \A p \in Process : p \in Nat /\ p < process_count
    /\ \A b \in Block : b \in Nat /\ b < total_page_count
    /\ min_free_pages - 1 \in Nat /\ 2 * (min_free_pages - 1) < total_page_count
  <1>1. /\ total_page_count \in Nat /\ total_page_count > 1
        /\ min_free_pages - 1 \in Nat /\ 2 * (min_free_pages - 1) < total_page_count
        /\ process_count \in Nat /\ process_count > 0
    BY BufferAssumption
  <1>2. IsFiniteSet(0 .. total_page_count - 1) /\ Cardinality(0 .. total_page_count - 1) = total_page_count
    BY <1>1, FS_Interval
  <1> QED
    BY <1>1, <1>2 DEF Block, Process

(* Physical pages of blocks, and back. *)
LEMMA AddressFacts ==
    /\ high_addr \in Nat
    /\ \A b \in Block : block_id_to_addr(b) \in Ppn
    /\ \A ppn \in Ppn \cup {NoPage} : is_dram_address(ppn) => dram_addr_to_block_id(ppn) \in Block
    /\ \A ppn \in Ppn \cup {NoPage} : is_dram_address(ppn) \in BOOLEAN
    /\ \A p \in Process, v \in Page : Frame(p, v) \in Ppn
  <1>1. process_count \in Nat /\ pages \in Nat /\ high_addr \in Nat /\ total_page_count \in Nat
    BY BufferAssumption DEF high_addr
  <1>2. \A b \in Block : block_id_to_addr(b) \in Ppn
    BY <1>1 DEF Block, Ppn, block_id_to_addr
  <1>3. \A ppn \in Ppn \cup {NoPage} : is_dram_address(ppn) => dram_addr_to_block_id(ppn) \in Block
    BY <1>1 DEF Block, Ppn, NoPage, is_dram_address, dram_addr_to_block_id
  <1>5. \A ppn \in Ppn \cup {NoPage} : is_dram_address(ppn) \in BOOLEAN
    BY DEF is_dram_address
  <1>4. ASSUME NEW p \in Process, NEW v \in Page PROVE Frame(p, v) \in Ppn
    <2>1. p \in Nat /\ v \in Nat /\ v < pages
      BY <1>1, BlockFacts DEF Page
    <2>2. PICK d \in Nat : process_count = p + 1 + d
      BY <2>1, BlockFacts, process_count - p - 1 \in Nat
    <2>3. high_addr = p * pages + pages + d * pages /\ d * pages \in Nat /\ p * pages \in Nat
      BY <1>1, <2>1, <2>2 DEF high_addr
    <2> QED
      BY <1>1, <2>1, <2>3 DEF Frame, Ppn
  <1> QED
    BY <1>1, <1>2, <1>3, <1>4, <1>5

(* The sizes of two sets that share nothing add up. *)
LEMMA SizesAddUp ==
    ASSUME NEW S, NEW T, IsFiniteSet(S), IsFiniteSet(T), S \cap T = {}
    PROVE  /\ IsFiniteSet(S \cup T)
           /\ Cardinality(S) \in Nat /\ Cardinality(T) \in Nat
           /\ Cardinality(S \cup T) = Cardinality(S) + Cardinality(T)
  <1>1. Cardinality(S) \in Nat /\ Cardinality(T) \in Nat
    BY FS_CardinalityType
  <1>2. Cardinality(S \cap T) = 0
    BY FS_EmptySet
  <1>3. IsFiniteSet(S \cup T) /\ Cardinality(S \cup T) = Cardinality(S) + Cardinality(T) - Cardinality(S \cap T)
    BY FS_Union
  <1> QED
    BY <1>1, <1>2, <1>3

(* Two pools are finite sets, and their sizes tell if something is in them. *)
LEMMA PoolFacts ==
    ASSUME NEW S \in SUBSET Block, NEW T \in SUBSET Block
    PROVE  /\ IsFiniteSet(S) /\ IsFiniteSet(T)
           /\ Cardinality(S) \in Nat /\ Cardinality(T) \in Nat
           /\ Cardinality(S) + Cardinality(T) > 0 <=> S # {} \/ T # {}
  <1>1. IsFiniteSet(S) /\ IsFiniteSet(T)
    BY BlockFacts, FS_Subset
  <1>2. Cardinality(S) \in Nat /\ Cardinality(T) \in Nat
    BY <1>1, FS_CardinalityType
  <1>3. (Cardinality(S) = 0 <=> S = {}) /\ (Cardinality(T) = 0 <=> T = {})
    BY <1>1, FS_EmptySet
  <1>4. Cardinality(S) + Cardinality(T) > 0 <=> Cardinality(S) # 0 \/ Cardinality(T) # 0
    BY <1>2
  <1> QED
    BY <1>1, <1>2, <1>3, <1>4

(* The pools of a process. *)
LEMMA HeldFacts ==
    ASSUME TypeOK, NEW p \in Process
    PROVE  /\ IsFiniteSet(clean_pools[p]) /\ IsFiniteSet(dirty_pools[p])
           /\ Cardinality(clean_pools[p]) \in Nat /\ Cardinality(dirty_pools[p]) \in Nat
           /\ Held(p) \in Nat
           /\ Held(p) > 0 <=> clean_pools[p] # {} \/ dirty_pools[p] # {}
  <1>1. clean_pools[p] \in SUBSET Block /\ dirty_pools[p] \in SUBSET Block
    BY DEF TypeOK
  <1> QED
    BY <1>1, PoolFacts DEF Held

(* What a reclaim asks of a process: something of whoever has something, and not more than that. *)
LEMMA ReleaseSizeFacts ==
    ASSUME TypeOK, FaultInv, fault.at = "release"
    PROVE  /\ release_size(Counted(fault.proc)) \in Nat
           /\ release_size(Counted(fault.proc)) <= Held(fault.proc)
           /\ Held(fault.proc) > 0 => release_size(Counted(fault.proc)) > 0
  <1> DEFINE h == Held(fault.proc)
             n == Counted(fault.proc)
  <1>1. /\ fault.proc \in Process /\ fault.counted \in Nat
        /\ fault.counted <= h /\ h <= n
    BY BlockFacts DEF TypeOK, FaultInv
  <1>2. h \in Nat /\ n \in Nat /\ n <= 2 * h
    BY <1>1, HeldFacts DEF Held, Counted
  <1>3. CASE n = 0
    BY <1>1, <1>2, <1>3 DEF release_size
  <1>4. CASE n # 0
    <2>1. h > 0
      BY <1>2, <1>4
    <2>2. (n * (min_free_pages - 1)) \div total_page_count \in Nat
          /\ (n * (min_free_pages - 1)) \div total_page_count < h
      <3> HIDE DEF h, n
      <3> QED
        BY <1>2, <2>1, BlockFacts, ShareIsHeld
    <2> QED
      BY <1>2, <1>4, <2>2 DEF release_size
  <1> QED
    BY <1>3, <1>4

(* The blocks that were given are those of the processes, each of which has a part of them. *)
LEMMA GivenFacts ==
    ASSUME TypeOK, PoolsInv
    PROVE  /\ Given \subseteq Block /\ IsFiniteSet(Given) /\ Cardinality(Given) \in Nat
           /\ \A b : b \in Given <=> \E p \in Process : b \in clean_pools[p] \/ b \in dirty_pools[p]
           /\ \A p \in Process : Held(p) <= busy_pages
           /\ busy_pages > 0 => \E p \in Process : Held(p) > 0
  <1>1. \A b : b \in Given <=> \E p \in Process : b \in clean_pools[p] \/ b \in dirty_pools[p]
    BY DEF Given
  <1>2. Given \subseteq Block
    BY DEF PoolsInv
  <1>3. IsFiniteSet(Given) /\ Cardinality(Given) \in Nat
    BY <1>2, BlockFacts, FS_Subset, FS_CardinalityType
  <1>4. ASSUME NEW p \in Process PROVE Held(p) <= busy_pages
    <2> DEFINE both == clean_pools[p] \cup dirty_pools[p]
    <2>1. clean_pools[p] \cap dirty_pools[p] = {}
      BY DEF PoolsInv
    <2>2. Cardinality(both) = Cardinality(clean_pools[p]) + Cardinality(dirty_pools[p])
      BY <2>1, HeldFacts, SizesAddUp
    <2>3. both \subseteq Given
      BY <1>1
    <2>4. Cardinality(both) <= Cardinality(Given)
      BY <1>3, <2>3, FS_Subset
    <2> QED
      BY <2>2, <2>4 DEF Held, PoolsInv
  <1>5. ASSUME busy_pages > 0 PROVE \E p \in Process : Held(p) > 0
    <2>1. Given # {}
      BY <1>3, <1>5, FS_EmptySet DEF PoolsInv
    <2>2. PICK p \in Process : clean_pools[p] # {} \/ dirty_pools[p] # {}
      BY <1>1, <2>1
    <2> QED
      BY <2>2, HeldFacts
  <1> QED
    BY <1>1, <1>2, <1>3, <1>4, <1>5

(* The free blocks are as many as the lists are long. *)
LEMMA FreeFacts ==
    ASSUME TypeOK, PoolsInv
    PROVE  busy_pages + Len(global_clean_pool) + Len(global_dirty_pool) = total_page_count
  <1> DEFINE clean == ToSet(global_clean_pool)
             written == ToSet(global_dirty_pool)
  <1>1. /\ IsFiniteSet(clean) /\ Cardinality(clean) = Len(global_clean_pool)
        /\ IsFiniteSet(written) /\ Cardinality(written) = Len(global_dirty_pool)
    BY LengthCounts DEF TypeOK, PoolsInv
  <1>2. clean \cap written = {}
    BY DEF PoolsInv
  <1>3. IsFiniteSet(FreeBlocks) /\ Cardinality(FreeBlocks) = Len(global_clean_pool) + Len(global_dirty_pool)
    BY <1>1, <1>2, SizesAddUp DEF FreeBlocks
  <1>4. Cardinality(Given \cup FreeBlocks) = Cardinality(Given) + Cardinality(FreeBlocks)
    BY <1>3, GivenFacts, SizesAddUp DEF PoolsInv
  <1>5. Cardinality(Given \cup FreeBlocks) = total_page_count /\ busy_pages = Cardinality(Given)
    BY BlockFacts DEF PoolsInv
  <1>6. Len(global_clean_pool) \in Nat /\ Len(global_dirty_pool) \in Nat
    BY DEF TypeOK
  <1> QED
    BY <1>3, <1>4, <1>5, <1>6, GivenFacts

(* The invariant is what PoolsExact asks, with more about the fault. *)
LEMMA InvImpliesPoolsExact == Inv => PoolsExact
  <1> SUFFICES ASSUME Inv PROVE PoolsExact
    OBVIOUS
  <1>1. TypeOK /\ PoolsInv /\ FaultInv
    BY DEF Inv, StoreInv
  <1>2. busy_pages + Len(global_clean_pool) + Len(global_dirty_pool) = total_page_count
    BY <1>1, FreeFacts
  <1>3. fault.at = "release" => release_size(Counted(fault.proc)) <= Held(fault.proc)
    BY <1>1, ReleaseSizeFacts
  <1>4. ASSUME fault.at = "allocate" PROVE ~should_reclaim /\ FreeBlocks # {}
    <2>1. busy_pages \in Nat /\ busy_pages + 2 <= total_page_count
      BY <1>1, <1>4, BlockFacts DEF FaultInv, TypeOK
    <2>2. ~should_reclaim
      BY <2>1, BlockFacts DEF should_reclaim
    <2>3. Len(global_clean_pool) \in Nat /\ Len(global_dirty_pool) \in Nat
      BY <1>1 DEF TypeOK
    <2>4. 1 \in DOMAIN global_clean_pool \/ 1 \in DOMAIN global_dirty_pool
      BY <1>1, <1>2, <2>1, <2>3, BlockFacts DEF TypeOK
    <2> QED
      BY <2>2, <2>4 DEF FreeBlocks, ToSet
  <1> QED
    BY <1>1, <1>2, <1>3, <1>4 DEF PoolsExact, PoolsInv

-----------------------------------------------------------------------------
(* At first all blocks are free. *)
LEMMA InitInv == Init => Inv
  <1> SUFFICES ASSUME Init PROVE Inv
    OBVIOUS
  <1> DEFINE n == total_page_count
             all == [i \in 1 .. n |-> i - 1]
  <1>1. n \in Nat /\ n > 1
    BY BlockFacts
  <1>2. all \in Seq(Block) /\ Len(all) = n /\ DOMAIN all = 1 .. n /\ \A i \in 1 .. n : all[i] = i - 1
    BY <1>1 DEF Block
  <1>3. ToSet(all) = Block
    <2>1. ToSet(all) \subseteq Block
      BY <1>2, <1>1 DEF ToSet, Block
    <2>2. ASSUME NEW b \in Block PROVE b \in ToSet(all)
      <3>1. b + 1 \in 1 .. n /\ all[b + 1] = b
        BY <1>1, <1>2 DEF Block
      <3> QED
        BY <1>2, <3>1 DEF ToSet
    <2> QED
      BY <2>1, <2>2
  <1>4. Distinct(all) /\ Distinct(<<>>) /\ ToSet(<<>>) = {}
    BY <1>1, <1>2 DEF Distinct, ToSet
  <1>5. global_clean_pool = all /\ global_dirty_pool = <<>> /\ busy_pages = 0
    BY DEF Init
  <1>6. Given = {}
    BY DEF Given, Init
  <1>7. TypeOK
    <2>1. 0 \in Process
      BY BlockFacts DEF Process
    <2>2. <<>> \in Seq(Block) /\ busy_pages \in 0 .. n
      BY <1>1, <1>5
    <2> QED
      BY <1>2, <1>5, <2>1, <2>2 DEF TypeOK, Init, NoEntry, NoWalk, NotWriting, NoFault
  <1>8. PoolsInv
    BY <1>3, <1>4, <1>5, <1>6, FS_EmptySet DEF PoolsInv, FreeBlocks, Init
  <1>9. FaultInv
    BY <1>1, <1>5 DEF FaultInv, Init, NoFault
  <1>10. CoresInv
    BY DEF CoresInv, Init, NotWriting
  <1> QED
    BY <1>7, <1>8, <1>9, <1>10 DEF Inv, StoreInv

(* What does not touch the pools keeps what is known of them. *)
LEMMA SamePools ==
    ASSUME Inv, UNCHANGED pools
    PROVE  PoolsInv' /\ (\A p \in Process : Held(p)' = Held(p)) /\ busy_pages' = busy_pages
  BY DEF Inv, StoreInv, PoolsInv, Given, FreeBlocks, Held, pools

(* What does not touch the fault either keeps what is known of it. *)
LEMMA SameFault ==
    ASSUME Inv, UNCHANGED pools, UNCHANGED fault
    PROVE  FaultInv'
  BY DEF Inv, StoreInv, FaultInv, Held, Counted, pools

(* The entries a TLB may hold. *)
TlbEntry == [ppn : Ppn \cup {NoPage}, in_dram : BOOLEAN, dirty : BOOLEAN]

(* An entry made for a physical page. *)
LEMMA EntryType ==
    \A ppn \in Ppn \cup {NoPage} : Entry(ppn) \in TlbEntry
  BY AddressFacts DEF Entry, TlbEntry

(* The TLBs hold such entries. *)
LEMMA TlbIsTyped == TypeOK => tlb \in [Core -> [Page -> TlbEntry]]
  BY DEF TypeOK, TlbEntry

(* A shootdown puts such entries in. *)
LEMMA ShootdownType ==
    ASSUME TypeOK, NEW v, NEW ppn \in Ppn \cup {NoPage}, tlb_shootdown_hscc(v, ppn)
    PROVE  tlb' \in [Core -> [Page -> TlbEntry]]
  <1>1. Entry(ppn) \in TlbEntry
    BY EntryType
  <1>2. tlb \in [Core -> [Page -> TlbEntry]]
    BY TlbIsTyped
  <1>3. \A c \in Core : [tlb[c] EXCEPT ![v] = Entry(ppn)] \in [Page -> TlbEntry]
    BY <1>1, <1>2
  <1> QED
    BY <1>2, <1>3 DEF tlb_shootdown_hscc

(* A walk. *)
LEMMA WalkTableStep ==
    ASSUME Inv, NEW c \in Core, NEW v \in Page, WalkTable(c, v)
    PROVE  StoreInv'
  <1> USE DEF Inv, StoreInv
  <1>1. PoolsInv' /\ busy_pages' = busy_pages /\ \A p \in Process : Held(p)' = Held(p)
    BY SamePools DEF WalkTable
  <1>2. running[c] \in Process /\ Frame(running[c], v) \in Ppn
    BY AddressFacts DEF TypeOK
  <1> DEFINE p == running[c]
  <1>3. table' \in [Process -> [Page -> Ppn \cup {NoPage}]]
    <2>1. table \in [Process -> [Page -> Ppn \cup {NoPage}]]
      BY DEF TypeOK
    <2>2. table' = table \/ table' = [table EXCEPT ![p][v] = Frame(p, v)]
      BY DEF WalkTable
    <2> QED
      BY <1>2, <2>1, <2>2
  <1>4. tlb' \in [Core -> [Page -> TlbEntry]]
    <2>1. tlb \in [Core -> [Page -> TlbEntry]]
      BY TlbIsTyped
    <2>2. \A e \in TlbEntry : [e EXCEPT !.in_dram = FALSE, !.dirty = FALSE] \in TlbEntry
      BY DEF TlbEntry
    <2> DEFINE unmarked(d) == [tlb[d][v] EXCEPT !.in_dram = FALSE, !.dirty = FALSE]
               cleared(d) == [tlb[d] EXCEPT ![v] = unmarked(d)]
    <2>3. tlb' = tlb \/ tlb' = [d \in Core |-> cleared(d)]
      BY DEF WalkTable
    <2>4. \A d \in Core : unmarked(d) \in TlbEntry
      BY <2>1, <2>2
    <2> HIDE DEF unmarked
    <2>5. \A d \in Core : cleared(d) \in [Page -> TlbEntry]
      BY <2>1, <2>4
    <2> HIDE DEF cleared
    <2> QED
      BY <2>1, <2>3, <2>5
  <1>5. walk' \in [Core -> [vpn : Page \cup {NoPage}, ppn : Ppn \cup {NoPage}]]
    <2>1. \/ walk' = [walk EXCEPT ![c] = [vpn |-> v, ppn |-> table[p][v]]]
          \/ walk' = [walk EXCEPT ![c] = [vpn |-> v, ppn |-> Frame(p, v)]]
      BY DEF WalkTable
    <2>2. table[p][v] \in Ppn \cup {NoPage} /\ walk \in [Core -> [vpn : Page \cup {NoPage}, ppn : Ppn \cup {NoPage}]]
      BY <1>2 DEF TypeOK
    <2> QED
      BY <1>2, <2>1, <2>2
  <1>6. TypeOK'
    BY <1>3, <1>4, <1>5 DEF WalkTable, TypeOK, pools, blocks, TlbEntry
  <1>7. FaultInv'
    BY SameFault DEF WalkTable
  <1> QED
    BY <1>1, <1>6, <1>7

(* A fill. *)
LEMMA InsertStep ==
    ASSUME Inv, NEW c \in Core, Insert(c)
    PROVE  StoreInv'
  <1> USE DEF Inv, StoreInv
  <1>1. PoolsInv' /\ busy_pages' = busy_pages /\ \A p \in Process : Held(p)' = Held(p)
    BY SamePools DEF Insert
  <1>2. Entry(walk[c].ppn) \in TlbEntry /\ NoEntry \in TlbEntry
    <2>1. walk[c].ppn \in Ppn \cup {NoPage}
      BY DEF TypeOK
    <2> QED
      BY <2>1, EntryType DEF NoEntry, TlbEntry
  <1>3. tlb' \in [Core -> [Page -> TlbEntry]]
    <2> DEFINE filled == [tlb[c] EXCEPT ![walk[c].vpn] = Entry(walk[c].ppn)]
    <2>1. filled \in [Page -> TlbEntry]
      BY <1>2, TlbIsTyped
    <2>2. \A v \in Page : [filled EXCEPT ![v] = NoEntry] \in [Page -> TlbEntry]
      BY <1>2, <2>1
    <2>3. \/ tlb' = [tlb EXCEPT ![c] = filled]
          \/ \E v \in Page : tlb' = [tlb EXCEPT ![c] = [filled EXCEPT ![v] = NoEntry]]
      BY DEF Insert, Entries
    <2> QED
      BY <2>1, <2>2, <2>3, TlbIsTyped
  <1>6. overtaken' \subseteq Page
    <2>1. walk[c] # NoWalk /\ overtaken' \in {overtaken, overtaken \cup {walk[c].vpn}}
      BY DEF Insert
    <2>2. walk[c].vpn \in Page
      BY <2>1 DEF CoresInv
    <2> QED
      BY <2>1, <2>2 DEF TypeOK
  <1>4. TypeOK'
    BY <1>3, <1>6 DEF Insert, TypeOK, pools, blocks, NoWalk, TlbEntry
  <1>5. FaultInv'
    BY SameFault DEF Insert
  <1> QED
    BY <1>1, <1>4, <1>5

(* A flush. *)
LEMMA ContextSwitchStep ==
    ASSUME Inv, NEW c \in Core, ContextSwitch(c)
    PROVE  StoreInv'
  <1> USE DEF Inv, StoreInv
  <1>1. PoolsInv' /\ FaultInv'
    BY SamePools, SameFault DEF ContextSwitch
  <1>2. TypeOK'
    BY DEF ContextSwitch, TypeOK, pools, blocks, NoEntry
  <1> QED
    BY <1>1, <1>2

(* Another process on a core. *)
LEMMA SetPagingStep ==
    ASSUME Inv, NEW c \in Core, NEW p \in Process, SetPaging(c, p)
    PROVE  StoreInv'
  <1> USE DEF Inv, StoreInv
  <1>1. PoolsInv' /\ FaultInv'
    BY SamePools, SameFault DEF SetPaging
  <1>2. TypeOK'
    BY DEF SetPaging, TypeOK, pools, blocks
  <1> QED
    BY <1>1, <1>2

(* A fault. *)
LEMMA DramFaultStep ==
    ASSUME Inv, NEW c \in Core, NEW v \in Page, DramFault(c, v)
    PROVE  StoreInv'
  <1> USE DEF Inv, StoreInv
  <1>1. PoolsInv' /\ busy_pages' = busy_pages /\ \A q \in Process : Held(q)' = Held(q)
    BY SamePools DEF DramFault
  <1>2. 0 \in Process
    BY BlockFacts DEF Process
  <1>3. TypeOK'
    BY <1>2 DEF DramFault, TypeOK, pools, blocks, NoFault
  <1>4. fault'.at = (IF should_reclaim THEN "reclaim" ELSE "allocate") /\ fault'.core = c /\ fault'.vpn = v /\ fault'.proc = 0
    BY DEF DramFault, NoFault
  <1>5. busy_pages \in Nat /\ busy_pages + 1 <= total_page_count
    BY BlockFacts DEF TypeOK, FaultInv
  <1>6. CASE should_reclaim
    <2>1. busy_pages > 0
      BY <1>5, <1>6, BlockFacts DEF should_reclaim
    <2>2. PICK q \in Process : Held(q) > 0
      BY <2>1, GivenFacts
    <2>3. 0 <= q /\ Held(q)' > 0
      BY <1>1, <2>2, BlockFacts
    <2>4. fault'.at = "reclaim"
      BY <1>4, <1>6
    <2> QED
      BY <1>1, <1>3, <1>4, <1>5, <2>2, <2>3, <2>4 DEF FaultInv
  <1>7. CASE ~should_reclaim
    <2>1. busy_pages + 2 <= total_page_count
      BY <1>5, <1>7, BlockFacts DEF should_reclaim
    <2>2. fault'.at = "allocate"
      BY <1>4, <1>7
    <2> QED
      BY <1>1, <1>3, <1>4, <1>5, <2>1, <2>2 DEF FaultInv
  <1> QED
    BY <1>6, <1>7

(* The eviction of what is in the block. *)
LEMMA ShootDownEvictedStep ==
    ASSUME Inv, ShootDownEvicted
    PROVE  StoreInv'
  <1> USE DEF Inv, StoreInv
  <1>1. PoolsInv' /\ busy_pages' = busy_pages /\ \A q \in Process : Held(q)' = Held(q)
    BY SamePools DEF ShootDownEvicted
  <1>2. fault.at = "evict" /\ fault.block \in Block /\ fault.core \in Core /\ fault.vpn \in Page
    BY DEF ShootDownEvicted, FaultInv
  <1>3. tlb' \in [Core -> [Page -> TlbEntry]]
    <2>1. original_addr[fault.block] \in Ppn \cup {NoPage}
      BY <1>2 DEF TypeOK
    <2> QED
      BY <2>1, ShootdownType DEF ShootDownEvicted
  <1>4. dirty' \subseteq Block
    BY <1>2 DEF ShootDownEvicted, TypeOK
  <1>5. fault' = [fault EXCEPT !.at = "map"]
    BY DEF ShootDownEvicted
  <1>6. TypeOK'
    BY <1>3, <1>4, <1>5 DEF ShootDownEvicted, TypeOK, pools, TlbEntry
  <1>7. FaultInv'
    BY <1>1, <1>2, <1>5 DEF FaultInv, TypeOK
  <1> QED
    BY <1>1, <1>6, <1>7

(* The change of the tables and of the block's record. *)
LEMMA MapBlockStep ==
    ASSUME Inv, MapBlock
    PROVE  StoreInv'
  <1> USE DEF Inv, StoreInv
  <1>1. PoolsInv' /\ busy_pages' = busy_pages /\ \A q \in Process : Held(q)' = Held(q)
    BY SamePools DEF MapBlock
  <1>2. fault.at = "map" /\ fault.block \in Block /\ fault.core \in Core /\ fault.vpn \in Page
    BY DEF MapBlock, FaultInv
  <1> DEFINE Table == [Process -> [Page -> Ppn \cup {NoPage}]]
             b == fault.block
             c == fault.core
             v == fault.vpn
             p == running[c]
             origin == tlb[c][v].ppn
             evicted == TablesAfterEviction(p, b)
  <1>3. /\ p \in Process /\ table \in Table /\ block_id_to_addr(b) \in Ppn
        /\ origin \in Ppn \cup {NoPage} /\ original_addr[b] \in Ppn \cup {NoPage}
    BY <1>2, AddressFacts DEF TypeOK
  <1>4. ASSUME NEW t \in Table, NEW ppn, NEW target \in Ppn \cup {NoPage}
        PROVE  Remapped(t, ppn, target) \in Table
    BY <1>4 DEF Remapped
  <1>5. evicted \in Table
    BY <1>3, <1>4 DEF TablesAfterEviction
  <1>6. table' \in Table
    <2> HIDE DEF evicted
    <2>1. \/ table' = Remapped(evicted, origin, block_id_to_addr(b))
          \/ table' = [evicted EXCEPT ![p][v] = block_id_to_addr(b)]
      BY DEF MapBlock, evicted
    <2>2. Remapped(evicted, origin, block_id_to_addr(b)) \in Table
      BY <1>3, <1>4, <1>5
    <2>3. [evicted EXCEPT ![p][v] = block_id_to_addr(b)] \in Table
      BY <1>2, <1>3, <1>5
    <2> QED
      BY <2>1, <2>2, <2>3
  <1>7. used' \subseteq Block /\ dirty' \subseteq Block
    BY <1>2 DEF MapBlock, TypeOK
  <1>8. original_addr' \in [Block -> Ppn \cup {NoPage}] /\ vaddr' \in [Block -> Page \cup {NoPage}]
    BY <1>2, <1>3 DEF MapBlock, TypeOK
  <1>9. fault' = [fault EXCEPT !.at = "shoot"]
    BY DEF MapBlock
  <1>10. TypeOK'
    BY <1>6, <1>7, <1>8, <1>9 DEF MapBlock, TypeOK, pools
  <1>11. FaultInv'
    BY <1>1, <1>2, <1>9 DEF FaultInv, TypeOK
  <1> QED
    BY <1>1, <1>10, <1>11

(* The page is in its block. *)
LEMMA ShootDownInstalledStep ==
    ASSUME Inv, ShootDownInstalled
    PROVE  StoreInv'
  <1> USE DEF Inv, StoreInv
  <1>1. PoolsInv' /\ busy_pages' = busy_pages /\ \A q \in Process : Held(q)' = Held(q)
    BY SamePools DEF ShootDownInstalled
  <1>2. fault.block \in Block
    BY DEF ShootDownInstalled, FaultInv
  <1>3. tlb' \in [Core -> [Page -> TlbEntry]]
    <2>1. block_id_to_addr(fault.block) \in Ppn \cup {NoPage}
      BY <1>2, AddressFacts
    <2> QED
      BY <2>1, ShootdownType DEF ShootDownInstalled
  <1>4. fault' = NoFault /\ 0 \in Process
    BY BlockFacts DEF ShootDownInstalled, Process
  <1>5. TypeOK'
    <2>1. NoFault \in [at : {"none", "reclaim", "release", "allocate", "evict", "map", "shoot"},
                       core : Core \cup {NoPage}, vpn : Page \cup {NoPage},
                       block : Block \cup {NoBlock}, proc : Process, counted : 0 .. total_page_count]
      BY <1>4, BlockFacts DEF NoFault
    <2> QED
      BY <1>3, <1>4, <2>1 DEF ShootDownInstalled, TypeOK, pools, blocks, TlbEntry
  <1>6. FaultInv'
    BY <1>1, <1>4 DEF FaultInv, NoFault
  <1> QED
    BY <1>1, <1>5, <1>6

(* A first write begins. *)
LEMMA WriteHitStep ==
    ASSUME Inv, NEW c \in Core, NEW v \in Page, WriteHit(c, v)
    PROVE  StoreInv'
  <1> USE DEF Inv, StoreInv
  <1>1. PoolsInv' /\ FaultInv'
    BY SamePools, SameFault DEF WriteHit
  <1>2. writing' \in [Core -> [at : {"none", "set", "through", "convert"}, vpn : Page \cup {NoPage}]]
    BY DEF WriteHit, TypeOK
  <1>3. TypeOK'
    BY <1>2 DEF WriteHit, TypeOK, pools, blocks
  <1> QED
    BY <1>1, <1>3

(* It marks the entry. *)
LEMMA SetDirtyStep ==
    ASSUME Inv, NEW c \in Core, SetDirty(c)
    PROVE  StoreInv'
  <1> USE DEF Inv, StoreInv
  <1> DEFINE v == writing[c].vpn
  <1>1. PoolsInv' /\ FaultInv'
    BY SamePools, SameFault DEF SetDirty
  <1>2. tlb' \in [Core -> [Page -> TlbEntry]]
    <2>1. tlb \in [Core -> [Page -> TlbEntry]]
      BY TlbIsTyped
    <2>2. \A e \in TlbEntry : [e EXCEPT !.dirty = TRUE] \in TlbEntry
      BY DEF TlbEntry
    <2>3. tlb' = [tlb EXCEPT ![c] = [tlb[c] EXCEPT ![v] = [tlb[c][v] EXCEPT !.dirty = TRUE]]]
      BY DEF SetDirty
    <2> HIDE DEF TlbEntry, v
    <2>4. v \in Page => [tlb[c][v] EXCEPT !.dirty = TRUE] \in TlbEntry
      BY <2>1, <2>2
    <2>5. [tlb[c] EXCEPT ![v] = [tlb[c][v] EXCEPT !.dirty = TRUE]] \in [Page -> TlbEntry]
      BY <2>1, <2>4
    <2> QED
      BY <2>1, <2>3, <2>5
  <1>3. writing' \in [Core -> [at : {"none", "set", "through", "convert"}, vpn : Page \cup {NoPage}]]
    BY DEF SetDirty, TypeOK
  <1>4. UNCHANGED <<table, running, walk, overtaken, pools, blocks, fault>>
    BY DEF SetDirty
  <1>5. TypeOK'
    BY <1>2, <1>3, <1>4 DEF TypeOK, pools, blocks, TlbEntry
  <1> QED
    BY <1>1, <1>5

(* It marks a block. *)
LEMMA WriteThroughStep ==
    ASSUME Inv, NEW c \in Core, WriteThrough(c)
    PROVE  StoreInv'
  <1> USE DEF Inv, StoreInv
  <1>1. PoolsInv' /\ FaultInv'
    BY SamePools, SameFault DEF WriteThrough
  <1>2. dirty' \subseteq Block
    <2> DEFINE ppn == table[running[c]][writing[c].vpn]
    <2>1. writing[c].vpn \in Page => ppn \in Ppn \cup {NoPage}
      BY DEF TypeOK
    <2>2. dirty' = dirty \/ (is_dram_address(ppn) /\ dirty' = dirty \cup {dram_addr_to_block_id(ppn)})
      BY DEF WriteThrough
    <2>3. writing[c].vpn \in Page
      <3>1. writing[c].at = "through"
        BY DEF WriteThrough
      <3> QED
        BY <3>1 DEF CoresInv
    <2> QED
      BY <2>1, <2>2, <2>3, AddressFacts DEF TypeOK
  <1>3. writing' \in [Core -> [at : {"none", "set", "through", "convert"}, vpn : Page \cup {NoPage}]]
    BY DEF WriteThrough, TypeOK
  <1>4. TypeOK'
    BY <1>2, <1>3 DEF WriteThrough, TypeOK, pools, blocks
  <1> QED
    BY <1>1, <1>4

(* It moves the block to the pool of written ones. *)
LEMMA ConvertToDirtyStep ==
    ASSUME Inv, NEW c \in Core, ConvertToDirty(c)
    PROVE  StoreInv'
  <1> USE DEF Inv, StoreInv
  <1> DEFINE p == running[c]
             b == dram_addr_to_block_id(tlb[c][writing[c].vpn].ppn)
  <1>1. p \in Process
    BY DEF TypeOK
  <1>2. writing' \in [Core -> [at : {"none", "set", "through", "convert"}, vpn : Page \cup {NoPage}]]
    BY DEF ConvertToDirty, TypeOK, NotWriting
  <1>4. convert_to_dirty(p, b) /\ UNCHANGED <<global_clean_pool, global_dirty_pool, busy_pages, fault>>
    BY DEF ConvertToDirty
  <1>5. clean_pools \in [Process -> SUBSET Block] /\ dirty_pools \in [Process -> SUBSET Block]
    BY DEF TypeOK
  <1>6. CASE b \in clean_pools[p]
    <2>1. /\ clean_pools' = [clean_pools EXCEPT ![p] = clean_pools[p] \ {b}]
          /\ dirty_pools' = [dirty_pools EXCEPT ![p] = dirty_pools[p] \cup {b}]
      BY <1>4, <1>6 DEF convert_to_dirty
    <2>2. b \in Block
      BY <1>1, <1>5, <1>6
    <2>3. clean_pools' \in [Process -> SUBSET Block] /\ dirty_pools' \in [Process -> SUBSET Block]
      BY <1>1, <1>5, <2>1, <2>2
    <2>4. \A q \in Process : /\ clean_pools'[q] = (IF q = p THEN clean_pools[p] \ {b} ELSE clean_pools[q])
                             /\ dirty_pools'[q] = (IF q = p THEN dirty_pools[p] \cup {b} ELSE dirty_pools[q])
      BY <1>5, <2>1
    <2>5. \A q \in Process : clean_pools'[q] \cup dirty_pools'[q] = clean_pools[q] \cup dirty_pools[q]
      BY <1>6, <2>4
    <2>6. Given' = Given
      BY <2>5 DEF Given
    <2>7. FreeBlocks' = FreeBlocks
      BY <1>4 DEF FreeBlocks
    <2>8. ASSUME NEW q \in Process, NEW r \in Process
          PROVE  /\ clean_pools'[q] \cap dirty_pools'[r] = {}
                 /\ q # r => clean_pools'[q] \cap clean_pools'[r] = {} /\ dirty_pools'[q] \cap dirty_pools'[r] = {}
      <3>1. /\ clean_pools[q] \cap dirty_pools[r] = {}
            /\ q # r => clean_pools[q] \cap clean_pools[r] = {} /\ dirty_pools[q] \cap dirty_pools[r] = {}
            /\ p # r => b \notin clean_pools[r]
            /\ p # q => b \notin clean_pools[q]
            /\ b \notin dirty_pools[q] /\ b \notin dirty_pools[r]
        BY <1>1, <1>6 DEF PoolsInv
      <3> QED
        BY <2>4, <3>1
    <2>9. PoolsInv'
      BY <1>4, <2>6, <2>7, <2>8 DEF PoolsInv
    <2>10. TypeOK'
      BY <1>2, <1>4, <2>3 DEF ConvertToDirty, TypeOK, blocks
    <2>11. \A q \in Process : Held(q)' = Held(q) /\ Cardinality(dirty_pools[q])' >= Cardinality(dirty_pools[q])
      <3> SUFFICES ASSUME NEW q \in Process
                   PROVE  Held(q)' = Held(q) /\ Cardinality(dirty_pools'[q]) >= Cardinality(dirty_pools[q])
        OBVIOUS
      <3>1. /\ IsFiniteSet(clean_pools[q]) /\ IsFiniteSet(dirty_pools[q])
            /\ Cardinality(clean_pools[q]) \in Nat /\ Cardinality(dirty_pools[q]) \in Nat
        BY HeldFacts
      <3>2. CASE q = p
        <4>1. b \in clean_pools[p] /\ b \notin dirty_pools[p]
          BY <1>1, <1>6 DEF PoolsInv
        <4>2. /\ Cardinality(clean_pools[p] \ {b}) = Cardinality(clean_pools[p]) - 1
              /\ Cardinality(dirty_pools[p] \cup {b}) = Cardinality(dirty_pools[p]) + 1
          <5> DEFINE S == clean_pools[p]
                     T == dirty_pools[p]
          <5>1. IsFiniteSet(S) /\ IsFiniteSet(T) /\ b \in S /\ b \notin T
            BY <3>1, <3>2, <4>1
          <5> HIDE DEF S, T, b
          <5>2. Cardinality(S \ {b}) = Cardinality(S) - 1
            BY <5>1, FS_RemoveElement
          <5>3. Cardinality(T \cup {b}) = Cardinality(T) + 1
            BY <5>1, FS_AddElement
          <5> QED
            BY <5>2, <5>3 DEF S, T
        <4> QED
          BY <2>4, <3>1, <3>2, <4>2 DEF Held
      <3>3. CASE q # p
        BY <2>4, <3>1, <3>3 DEF Held
      <3> QED
        BY <3>2, <3>3
    <2>12. FaultInv'
      <3>1. fault.at = "release" => fault.proc \in Process /\ fault.counted \in Nat
        BY BlockFacts DEF TypeOK
      <3>2. fault.at = "release" => Held(fault.proc) <= Counted(fault.proc)'
        <4> SUFFICES ASSUME fault.at = "release" PROVE Held(fault.proc) <= Counted(fault.proc)'
          OBVIOUS
        <4>1. Cardinality(dirty_pools'[fault.proc]) \in Nat /\ Cardinality(dirty_pools[fault.proc]) \in Nat
          BY <2>3, <3>1, PoolFacts, HeldFacts
        <4> QED
          BY <1>4, <2>11, <3>1, <4>1, HeldFacts DEF FaultInv, Counted
      <3> QED
        BY <1>4, <2>11, <3>1, <3>2 DEF FaultInv
    <2> QED
      BY <2>9, <2>10, <2>12
  <1>7. CASE b \notin clean_pools[p]
    <2>1. UNCHANGED pools
      BY <1>4, <1>7 DEF convert_to_dirty, pools
    <2>2. PoolsInv' /\ FaultInv'
      BY <1>4, <2>1, SamePools, SameFault
    <2>3. TypeOK'
      BY <1>2, <1>4, <2>1 DEF ConvertToDirty, TypeOK, pools, blocks
    <2> QED
      BY <2>2, <2>3
  <1> QED
    BY <1>6, <1>7

(* A reclaim counts what a process has. *)
LEMMA CountCleanStep ==
    ASSUME Inv, CountClean
    PROVE  StoreInv'
  <1> USE DEF Inv, StoreInv
  <1> DEFINE n == Cardinality(clean_pools[fault.proc])
  <1>1. PoolsInv' /\ busy_pages' = busy_pages /\ \A q \in Process : Held(q)' = Held(q)
    BY SamePools DEF CountClean
  <1>2. /\ fault.at = "reclaim" /\ fault.core \in Core /\ fault.vpn \in Page /\ fault.proc \in Process
        /\ fault' = [fault EXCEPT !.at = "release", !.counted = n]
    BY DEF CountClean, FaultInv, TypeOK
  <1>3. n \in 0 .. total_page_count
    <2>1. clean_pools[fault.proc] \subseteq Block
      BY <1>2 DEF TypeOK
    <2>2. n <= Cardinality(Block)
      BY <2>1, BlockFacts, FS_Subset
    <2> QED
      BY <1>2, <2>2, BlockFacts, HeldFacts
  <1>4. TypeOK'
    BY <1>2, <1>3 DEF CountClean, TypeOK, pools, blocks
  <1>5. /\ fault'.at = "release" /\ fault'.core = fault.core /\ fault'.vpn = fault.vpn
        /\ fault'.proc = fault.proc /\ fault'.counted = n
    BY <1>2 DEF TypeOK
  <1>6. n <= Held(fault.proc) /\ Counted(fault.proc)' = Held(fault.proc)
    <2>1. dirty_pools' = dirty_pools
      BY DEF CountClean, pools
    <2>2. Cardinality(dirty_pools[fault.proc]) \in Nat /\ n \in Nat
      BY <1>2, HeldFacts
    <2> QED
      BY <1>5, <2>1, <2>2 DEF Held, Counted
  <1>7. Held(fault.proc)' = Held(fault.proc)
    BY <1>5 DEF CountClean, Held, pools
  <1>8. Held(fault.proc) \in Nat
    BY <1>2, HeldFacts
  <1>9. busy_pages + 2 <= total_page_count \/ \E q \in Process : fault.proc <= q /\ Held(q) > 0
    BY <1>2 DEF FaultInv
  <1>10. FaultInv'
    BY <1>1, <1>2, <1>5, <1>6, <1>7, <1>8, <1>9 DEF FaultInv
  <1> QED
    BY <1>1, <1>4, <1>10

(* A reclaim from one process. *)
LEMMA ReleaseStep ==
    ASSUME Inv, Release
    PROVE  StoreInv'
  <1> USE DEF Inv, StoreInv
  <1> DEFINE p == fault.proc
             n == release_size(Counted(p))
             fromClean == SmallerOf(n, Cardinality(clean_pools[p]))
  <1>1. p \in Process /\ fault.at = "release" /\ fault.core \in Core /\ fault.vpn \in Page
    BY DEF TypeOK, FaultInv, Release
  <1>2. n \in Nat /\ n <= Held(p) /\ Held(p) \in Nat /\ (Held(p) > 0 => n > 0) /\ Held(p) <= busy_pages
    BY <1>1, ReleaseSizeFacts, HeldFacts, GivenFacts
  <1>3. PICK clean \in SUBSET clean_pools[p], written \in SUBSET dirty_pools[p] :
          /\ Cardinality(clean) = fromClean /\ Cardinality(written) = n - fromClean
          /\ clean_pools' = [clean_pools EXCEPT ![p] = clean_pools[p] \ clean]
          /\ dirty_pools' = [dirty_pools EXCEPT ![p] = dirty_pools[p] \ written]
          /\ \E s \in SetToSeqs(clean) : global_clean_pool' = global_clean_pool \o s
          /\ \E s \in SetToSeqs(written) : global_dirty_pool' = global_dirty_pool \o s
    BY DEF Release
  <1>31. PICK s \in SetToSeqs(clean) : global_clean_pool' = global_clean_pool \o s
    BY <1>3
  <1>32. PICK t \in SetToSeqs(written) : global_dirty_pool' = global_dirty_pool \o t
    BY <1>3
  <1>4. /\ busy_pages' = busy_pages - n
        /\ fault' = IF p + 1 \in Process THEN [fault EXCEPT !.at = "reclaim", !.proc = p + 1, !.counted = 0]
                    ELSE [fault EXCEPT !.at = "allocate", !.counted = 0]
        /\ UNCHANGED <<table, running, tlb, walk, writing, overtaken, blocks>>
    BY DEF Release
  <1>5. /\ clean_pools \in [Process -> SUBSET Block] /\ dirty_pools \in [Process -> SUBSET Block]
        /\ global_clean_pool \in Seq(Block) /\ global_dirty_pool \in Seq(Block)
        /\ busy_pages \in Nat /\ busy_pages <= total_page_count /\ total_page_count \in Nat
    BY BlockFacts DEF TypeOK
  <1>6. /\ clean \subseteq Block /\ written \subseteq Block
        /\ IsFiniteSet(clean) /\ IsFiniteSet(written)
    BY <1>1, <1>5, BlockFacts, FS_Subset
  <1>7. \A q \in Process : /\ clean_pools'[q] = (IF q = p THEN clean_pools[p] \ clean ELSE clean_pools[q])
                           /\ dirty_pools'[q] = (IF q = p THEN dirty_pools[p] \ written ELSE dirty_pools[q])
    BY <1>3, <1>5
  <1>8. /\ clean_pools' \in [Process -> SUBSET Block] /\ dirty_pools' \in [Process -> SUBSET Block]
        /\ \A q \in Process : clean_pools'[q] \subseteq clean_pools[q] /\ dirty_pools'[q] \subseteq dirty_pools[q]
    BY <1>1, <1>3, <1>5, <1>7
  <1> DEFINE moved == clean \cup written
  <1>9. clean \cap written = {} /\ moved \subseteq Given /\ moved \cap FreeBlocks = {}
    BY <1>1 DEF PoolsInv, Given
  <1>10. IsFiniteSet(moved) /\ Cardinality(moved) = n
    <2>1. /\ IsFiniteSet(moved) /\ Cardinality(clean) \in Nat /\ Cardinality(written) \in Nat
          /\ Cardinality(moved) = Cardinality(clean) + Cardinality(written)
      BY <1>6, <1>9, SizesAddUp
    <2> QED
      BY <2>1, <1>2, <1>3
  <1>11. Given' = Given \ moved
    <2>1. \A x : x \in Given' <=> \E q \in Process : x \in clean_pools'[q] \/ x \in dirty_pools'[q]
      BY DEF Given
    <2>2. ASSUME NEW x, x \in Given' PROVE x \in Given /\ x \notin moved
      <3>1. PICK q \in Process : x \in clean_pools'[q] \/ x \in dirty_pools'[q]
        BY <2>1, <2>2
      <3>2. /\ clean_pools[q] \cap dirty_pools[p] = {} /\ clean_pools[p] \cap dirty_pools[q] = {}
            /\ q # p => clean_pools[q] \cap clean_pools[p] = {} /\ dirty_pools[q] \cap dirty_pools[p] = {}
        BY <1>1 DEF PoolsInv
      <3> QED
        BY <1>7, <1>8, <3>1, <3>2 DEF Given
    <2>3. ASSUME NEW x \in Given, x \notin moved PROVE x \in Given'
      <3>1. PICK q \in Process : x \in clean_pools[q] \/ x \in dirty_pools[q]
        BY DEF Given
      <3>2. x \in clean_pools'[q] \/ x \in dirty_pools'[q]
        BY <1>7, <2>3, <3>1
      <3> QED
        BY <2>1, <3>2
    <2> QED
      BY <2>2, <2>3
  <1>12. busy_pages' = Cardinality(Given') /\ busy_pages' \in Nat /\ busy_pages' <= busy_pages
    <2>1. IsFiniteSet(Given \ moved) /\ (Given \ moved) \cap moved = {} /\ (Given \ moved) \cup moved = Given
      BY <1>9, GivenFacts, FS_Subset
    <2>2. /\ Cardinality(Given) = Cardinality(Given \ moved) + Cardinality(moved)
          /\ Cardinality(Given \ moved) \in Nat
      BY <2>1, <1>10, SizesAddUp
    <2> QED
      BY <2>2, <1>2, <1>4, <1>5, <1>10, <1>11 DEF PoolsInv
  <1>13. /\ s \in Seq(clean) /\ Distinct(s) /\ ToSet(s) = clean
         /\ t \in Seq(written) /\ Distinct(t) /\ ToSet(t) = written
    BY <1>6, ListingIsComplete
  <1>14. /\ global_clean_pool' \in Seq(Block) /\ Distinct(global_clean_pool')
         /\ ToSet(global_clean_pool') = ToSet(global_clean_pool) \cup clean
    <2>1. s \in Seq(Block) /\ ToSet(global_clean_pool) \cap ToSet(s) = {}
      BY <1>6, <1>9, <1>13 DEF FreeBlocks
    <2> QED
      BY <2>1, <1>31, <1>5, <1>13, AppendedList DEF PoolsInv
  <1>15. /\ global_dirty_pool' \in Seq(Block) /\ Distinct(global_dirty_pool')
         /\ ToSet(global_dirty_pool') = ToSet(global_dirty_pool) \cup written
    <2>1. t \in Seq(Block) /\ ToSet(global_dirty_pool) \cap ToSet(t) = {}
      BY <1>6, <1>9, <1>13 DEF FreeBlocks
    <2> QED
      BY <2>1, <1>32, <1>5, <1>13, AppendedList DEF PoolsInv
  <1>16. FreeBlocks' = FreeBlocks \cup moved
    BY <1>14, <1>15 DEF FreeBlocks
  <1>17. PoolsInv'
    <2>1. ToSet(global_clean_pool') \cap ToSet(global_dirty_pool') = {}
      BY <1>9, <1>14, <1>15 DEF PoolsInv, FreeBlocks
    <2>2. Given' \cup FreeBlocks' = Block /\ Given' \cap FreeBlocks' = {}
      BY <1>9, <1>11, <1>16 DEF PoolsInv
    <2>3. \A q, r \in Process :
            /\ clean_pools'[q] \cap dirty_pools'[r] = {}
            /\ q # r => clean_pools'[q] \cap clean_pools'[r] = {} /\ dirty_pools'[q] \cap dirty_pools'[r] = {}
      BY <1>8 DEF PoolsInv
    <2> QED
      BY <1>12, <1>14, <1>15, <2>1, <2>2, <2>3 DEF PoolsInv
  <1>18. TypeOK'
    <2>1. busy_pages' \in 0 .. total_page_count
      BY <1>5, <1>12
    <2>2. fault' \in [at : {"none", "reclaim", "release", "allocate", "evict", "map", "shoot"},
                      core : Core \cup {NoPage}, vpn : Page \cup {NoPage},
                      block : Block \cup {NoBlock}, proc : Process, counted : 0 .. total_page_count]
      <3>1. 0 \in 0 .. total_page_count
        BY <1>5
      <3>2. CASE p + 1 \in Process
        <4>1. fault' = [fault EXCEPT !.at = "reclaim", !.proc = p + 1, !.counted = 0]
          BY <1>4, <3>2
        <4> QED
          BY <3>1, <3>2, <4>1 DEF TypeOK
      <3>3. CASE p + 1 \notin Process
        <4>1. fault' = [fault EXCEPT !.at = "allocate", !.counted = 0]
          BY <1>4, <3>3
        <4> QED
          BY <3>1, <4>1 DEF TypeOK
      <3> QED
        BY <3>2, <3>3
    <2> QED
      BY <1>4, <1>8, <1>14, <1>15, <2>1, <2>2 DEF TypeOK, blocks
  <1>19. /\ fault'.core = fault.core /\ fault'.vpn = fault.vpn
         /\ p + 1 \in Process => fault'.at = "reclaim" /\ fault'.proc = p + 1
         /\ p + 1 \notin Process => fault'.at = "allocate"
    BY <1>1, <1>4 DEF TypeOK
  <1>20. busy_pages' + 1 <= total_page_count
    BY <1>5, <1>12 DEF FaultInv
  <1>21. fault'.at \in {"reclaim", "allocate"}
    BY <1>19
  <1>22. CASE busy_pages' + 2 <= total_page_count
    BY <1>1, <1>17, <1>18, <1>19, <1>20, <1>21, <1>22 DEF FaultInv
  <1>23. CASE ~(busy_pages' + 2 <= total_page_count)
    <2>1. busy_pages + 1 = total_page_count /\ n = 0
      BY <1>2, <1>4, <1>5, <1>12, <1>20, <1>23 DEF FaultInv
    <2>2. PICK q \in Process : p <= q /\ Held(q) > 0
      BY <1>1, <1>5, <2>1 DEF FaultInv
    <2>3. q # p
      BY <1>2, <2>1, <2>2
    <2>4. p + 1 \in Process /\ p + 1 <= q
      BY <1>1, <2>2, <2>3, BlockFacts DEF Process
    <2>5. Held(q)' = Held(q)
      BY <1>7, <2>3 DEF Held
    <2>6. fault'.at = "reclaim" /\ fault'.proc <= q /\ Held(q)' > 0
      BY <1>19, <2>2, <2>4, <2>5
    <2>7. \E r \in Process : fault'.proc <= r /\ Held(r)' > 0
      BY <2>6
    <2> QED
      BY <1>1, <1>17, <1>18, <1>19, <1>20, <2>6, <2>7 DEF FaultInv
  <1> QED
    BY <1>22, <1>23

(* An allocation. *)
LEMMA AllocateStep ==
    ASSUME Inv, Allocate
    PROVE  StoreInv'
  <1> USE DEF Inv, StoreInv
  <1> DEFINE p == running[fault.core]
  <1>1. fault.at = "allocate" /\ fault.core \in Core /\ fault.vpn \in Page /\ p \in Process
    BY DEF TypeOK, FaultInv, Allocate
  <1>2. PICK b \in Block :
          /\ Taken(b)
          /\ \/ global_clean_pool # <<>> /\ b = Head(global_clean_pool)
                /\ global_clean_pool' = Tail(global_clean_pool) /\ global_dirty_pool' = global_dirty_pool
             \/ global_dirty_pool # <<>> /\ b = Head(global_dirty_pool)
                /\ global_dirty_pool' = Tail(global_dirty_pool) /\ global_clean_pool' = global_clean_pool
    <2>1. global_clean_pool \in Seq(Block) /\ global_dirty_pool \in Seq(Block)
      BY DEF TypeOK
    <2>2. global_clean_pool # <<>> => Head(global_clean_pool) \in Block
      BY <2>1
    <2>3. global_dirty_pool # <<>> => Head(global_dirty_pool) \in Block
      BY <2>1
    <2> QED
      BY <2>2, <2>3 DEF Allocate
  <1>3. UNCHANGED <<table, running, tlb, walk, writing, overtaken, dirty_pools, blocks>>
    BY DEF Allocate
  <1>4. /\ clean_pools' = [clean_pools EXCEPT ![p] = clean_pools[p] \cup {b}]
        /\ busy_pages' = busy_pages + 1
        /\ fault' = [fault EXCEPT !.block = b, !.at = IF b \in used THEN "evict" ELSE "map"]
    BY <1>2 DEF Taken
  <1>5. /\ clean_pools \in [Process -> SUBSET Block] /\ dirty_pools \in [Process -> SUBSET Block]
        /\ global_clean_pool \in Seq(Block) /\ global_dirty_pool \in Seq(Block)
        /\ busy_pages \in Nat /\ busy_pages + 2 <= total_page_count /\ total_page_count \in Nat
    BY <1>1, BlockFacts DEF TypeOK, FaultInv
  <1>6. /\ global_clean_pool' \in Seq(Block) /\ global_dirty_pool' \in Seq(Block)
        /\ Distinct(global_clean_pool') /\ Distinct(global_dirty_pool')
        /\ ToSet(global_clean_pool') \cap ToSet(global_dirty_pool') = {}
        /\ b \in FreeBlocks /\ FreeBlocks' = FreeBlocks \ {b}
    <2>1. /\ Distinct(global_clean_pool) /\ Distinct(global_dirty_pool)
          /\ ToSet(global_clean_pool) \cap ToSet(global_dirty_pool) = {}
      BY DEF PoolsInv
    <2>2. CASE /\ global_clean_pool # <<>> /\ b = Head(global_clean_pool)
               /\ global_clean_pool' = Tail(global_clean_pool) /\ global_dirty_pool' = global_dirty_pool
      <3>1. /\ Tail(global_clean_pool) \in Seq(Block) /\ Distinct(Tail(global_clean_pool))
            /\ b \in ToSet(global_clean_pool)
            /\ ToSet(Tail(global_clean_pool)) = ToSet(global_clean_pool) \ {b}
        BY <1>5, <2>1, <2>2, TailOfList
      <3> QED
        BY <1>5, <2>1, <2>2, <3>1 DEF FreeBlocks
    <2>3. CASE /\ global_dirty_pool # <<>> /\ b = Head(global_dirty_pool)
               /\ global_dirty_pool' = Tail(global_dirty_pool) /\ global_clean_pool' = global_clean_pool
      <3>1. /\ Tail(global_dirty_pool) \in Seq(Block) /\ Distinct(Tail(global_dirty_pool))
            /\ b \in ToSet(global_dirty_pool)
            /\ ToSet(Tail(global_dirty_pool)) = ToSet(global_dirty_pool) \ {b}
        BY <1>5, <2>1, <2>3, TailOfList
      <3> QED
        BY <1>5, <2>1, <2>3, <3>1 DEF FreeBlocks
    <2> QED
      BY <1>2, <2>2, <2>3
  <1>7. b \notin Given
    BY <1>6 DEF PoolsInv
  <1>8. \A q \in Process : b \notin clean_pools[q] /\ b \notin dirty_pools[q]
    BY <1>7 DEF Given
  <1>9. /\ clean_pools' \in [Process -> SUBSET Block] /\ dirty_pools' = dirty_pools
        /\ \A q \in Process : clean_pools'[q] = (IF q = p THEN clean_pools[p] \cup {b} ELSE clean_pools[q])
    BY <1>1, <1>3, <1>4, <1>5
  <1>10. Given' = Given \cup {b}
    <2>1. \A x : x \in Given' <=> \E q \in Process : x \in clean_pools'[q] \/ x \in dirty_pools'[q]
      BY DEF Given
    <2>2. \A x : x \in Given <=> \E q \in Process : x \in clean_pools[q] \/ x \in dirty_pools[q]
      BY DEF Given
    <2>3. \A x : x \in Given' => x \in Given \cup {b}
      BY <1>9, <2>1, <2>2
    <2>4. \A x : x \in Given => x \in Given'
      BY <1>9, <2>1, <2>2
    <2>5. b \in Given'
      BY <1>1, <1>9, <2>1
    <2> QED
      BY <2>3, <2>4, <2>5
  <1>11. busy_pages' = Cardinality(Given')
    <2>1. Cardinality(Given \cup {b}) = Cardinality(Given) + 1
      BY <1>7, GivenFacts, FS_AddElement
    <2> QED
      BY <1>4, <1>10, <2>1 DEF PoolsInv
  <1>12. PoolsInv'
    <2>1. Given' \cup FreeBlocks' = Block /\ Given' \cap FreeBlocks' = {}
      BY <1>6, <1>10 DEF PoolsInv
    <2>2. ASSUME NEW q \in Process, NEW r \in Process
          PROVE  /\ clean_pools'[q] \cap dirty_pools'[r] = {}
                 /\ q # r => clean_pools'[q] \cap clean_pools'[r] = {} /\ dirty_pools'[q] \cap dirty_pools'[r] = {}
      <3>1. /\ clean_pools[q] \cap dirty_pools[r] = {}
            /\ q # r => clean_pools[q] \cap clean_pools[r] = {} /\ dirty_pools[q] \cap dirty_pools[r] = {}
        BY DEF PoolsInv
      <3> QED
        BY <1>8, <1>9, <3>1
    <2> QED
      BY <1>6, <1>11, <2>1, <2>2 DEF PoolsInv
  <1>13. TypeOK'
    <2>1. busy_pages' \in 0 .. total_page_count
      BY <1>4, <1>5
    <2>2. fault' \in [at : {"none", "reclaim", "release", "allocate", "evict", "map", "shoot"},
                      core : Core \cup {NoPage}, vpn : Page \cup {NoPage},
                      block : Block \cup {NoBlock}, proc : Process, counted : 0 .. total_page_count]
      BY <1>4 DEF TypeOK
    <2> QED
      BY <1>3, <1>6, <1>9, <2>1, <2>2 DEF TypeOK, blocks
  <1>14. FaultInv'
    <2>1. /\ fault'.core = fault.core /\ fault'.vpn = fault.vpn /\ fault'.block = b
          /\ fault'.at \in {"evict", "map"}
      BY <1>4 DEF TypeOK
    <2>2. busy_pages' + 1 <= total_page_count
      BY <1>4, <1>5
    <2> QED
      BY <1>1, <2>1, <2>2 DEF FaultInv
  <1> QED
    BY <1>12, <1>13, <1>14

(* What cores are at. *)
LEMMA CoresStep ==
    ASSUME Inv, Next
    PROVE  CoresInv'
  <1> USE DEF Inv, CoresInv
  <1>1. CASE UNCHANGED <<walk, writing>>
    BY <1>1
  <1>2. ASSUME NEW c \in Core, NEW v \in Page, WalkTable(c, v) PROVE CoresInv'
    <2>1. writing' = writing /\ \E ppn : walk' = [walk EXCEPT ![c] = [vpn |-> v, ppn |-> ppn]]
      BY <1>2 DEF WalkTable
    <2>2. \A d \in Core : walk'[d] = walk[d] \/ walk'[d].vpn = v
      BY <2>1 DEF StoreInv, TypeOK
    <2> QED
      BY <2>1, <2>2 DEF NoWalk
  <1>3. ASSUME NEW c \in Core, Insert(c) PROVE CoresInv'
    <2>1. writing' = writing /\ \A d \in Core : walk'[d] \in {walk[d], NoWalk}
      BY <1>3 DEF Insert, StoreInv, TypeOK
    <2> QED
      BY <2>1 DEF NoWalk
  <1>4. ASSUME NEW c \in Core, NEW v \in Page, WriteHit(c, v) PROVE CoresInv'
    <2>1. walk' = walk /\ \A d \in Core : writing'[d] \in {writing[d], [at |-> "set", vpn |-> v]}
      BY <1>4 DEF WriteHit, StoreInv, TypeOK
    <2> QED
      BY <2>1
  <1>5. ASSUME NEW c \in Core, SetDirty(c) \/ WriteThrough(c) PROVE CoresInv'
    <2>1. walk' = walk /\ \E at \in {"through", "convert"} : writing' = [writing EXCEPT ![c].at = at]
      BY <1>5 DEF SetDirty, WriteThrough
    <2>2. writing[c].at # "none"
      BY <1>5 DEF SetDirty, WriteThrough
    <2>3. \A d \in Core : writing'[d].vpn = writing[d].vpn /\ (d # c => writing'[d] = writing[d])
      BY <2>1 DEF StoreInv, TypeOK
    <2> QED
      BY <2>1, <2>2, <2>3
  <1>6. ASSUME NEW c \in Core, ConvertToDirty(c) PROVE CoresInv'
    <2>1. walk' = walk /\ \A d \in Core : writing'[d] \in {writing[d], NotWriting}
      BY <1>6 DEF ConvertToDirty, StoreInv, TypeOK
    <2> QED
      BY <2>1 DEF NotWriting
  <1> QED
    BY <1>1, <1>2, <1>3, <1>4, <1>5, <1>6 DEF Next, DramFault, ContextSwitch, SetPaging, CountClean, Release,
       Allocate, ShootDownEvicted, MapBlock, ShootDownInstalled

(* No step breaks the invariant. *)
LEMMA NextInv == Inv /\ [Next]_vars => Inv'
  <1> SUFFICES ASSUME Inv, [Next]_vars PROVE Inv'
    OBVIOUS
  <1>1. CASE UNCHANGED vars
    <2>1. PoolsInv' /\ FaultInv'
      BY <1>1, SamePools, SameFault DEF vars
    <2>2. TypeOK' /\ CoresInv'
      BY <1>1 DEF Inv, StoreInv, CoresInv, TypeOK, vars, pools, blocks
    <2> QED
      BY <2>1, <2>2 DEF Inv, StoreInv
  <1>2. CASE Next
    <2>1. CoresInv'
      BY <1>2, CoresStep
    <2>2. StoreInv'
      BY <1>2, WalkTableStep, WriteHitStep, DramFaultStep, InsertStep, SetDirtyStep,
       WriteThroughStep, ConvertToDirtyStep, ContextSwitchStep, SetPagingStep, CountCleanStep, ReleaseStep, AllocateStep,
       ShootDownEvictedStep, MapBlockStep, ShootDownInstalledStep DEF Next
    <2> QED
      BY <2>1, <2>2 DEF Inv
  <1> QED
    BY <1>1, <1>2

-----------------------------------------------------------------------------
(***************************************************************************)
(* Where pages are.  With several processes an evicted page is mapped in   *)
(* the table of another (private tables) or not at all (reversed ones), so *)
(* this is about one process, with every race of misses and first writes.  *)
(***************************************************************************)
OneProcess == process_count = 1

(* A page that is not in a block is in PCM, where it is mapped first. *)
PlaceOf(v, ppn) == ppn # NoPage /\ (is_dram_address(ppn) \/ ppn = Frame(0, v))

(* The table and the records of the blocks say the same.  A page that was   *)
(* overtaken may be in two blocks, and then the table names one of them.    *)
TableInv ==
    /\ \A v \in Page : table[0][v] # NoPage /\ table[0][v] # Frame(0, v) =>
          \E b \in used : vaddr[b] = v /\ table[0][v] = block_id_to_addr(b)
    /\ \A b \in used : /\ vaddr[b] \in Page /\ original_addr[b] = Frame(0, vaddr[b])
                       /\ table[0][vaddr[b]] # NoPage
                       /\ vaddr[b] \in overtaken \/ table[0][vaddr[b]] = block_id_to_addr(b)

(* An entry that counts as dirty: its block is marked, and no clean one. *)
Marked(c, v) ==
    LET b == dram_addr_to_block_id(tlb[c][v].ppn) IN
    /\ b \in dirty \/ writing[c] = [at |-> "through", vpn |-> v]
    /\ b \notin clean_pools[0] \/ b = fault.block \/ writing[c].vpn = v

(* Entries are of mapped pages, and lead where MappingsAgree says. *)
TlbInv ==
    \A c \in Core, v \in Page : tlb[c][v] # NoEntry =>
        /\ table[0][v] # NoPage /\ PlaceOf(v, tlb[c][v].ppn)
        /\ v \notin overtaken =>
              /\ tlb[c][v].ppn \in Whereabouts(0, v)
              /\ tlb[c][v].in_dram = is_dram_address(tlb[c][v].ppn)
              /\ tlb[c][v].in_dram /\ tlb[c][v].dirty => Marked(c, v)

(* What a miss has read may be out of date, but it was a place of the page; *)
(* the page of a first write keeps its entry.                               *)
AccessInv ==
    \A c \in Core :
        /\ walk[c] # NoWalk => table[0][walk[c].vpn] # NoPage /\ PlaceOf(walk[c].vpn, walk[c].ppn)
        /\ writing[c].at # "none" => tlb[c][writing[c].vpn] # NoEntry /\ walk[c] = NoWalk

(* The page to bring in stays in PCM until it is mapped, and the thread     *)
(* that does it keeps its entry.                                            *)
MoveInv ==
    /\ fault.at = "none" => fault = NoFault
    /\ fault.at \in {"none", "reclaim", "release", "allocate"} => fault.block = NoBlock
    /\ fault.at \in {"reclaim", "release", "allocate", "evict", "map"} =>
          /\ fault.vpn \in overtaken \/ table[0][fault.vpn] = Frame(0, fault.vpn)
          /\ tlb[fault.core][fault.vpn].ppn = Frame(0, fault.vpn)
          /\ walk[fault.core] = NoWalk /\ writing[fault.core].at = "none"
    /\ fault.at = "evict" => fault.block \in used
    /\ fault.at = "shoot" =>
          /\ fault.block \in used /\ vaddr[fault.block] = fault.vpn
          /\ table[0][fault.vpn] = block_id_to_addr(fault.block)

MapsInv == TableInv /\ TlbInv /\ AccessInv /\ MoveInv

(* Frames are no blocks, and blocks have addresses of their own. *)
LEMMA MapFacts ==
    ASSUME OneProcess, Inv
    PROVE  /\ Process = {0} /\ ~enable_shared_memory
           /\ \A v \in Page : Frame(0, v) = v /\ ~is_dram_address(v) /\ v # NoPage
           /\ \A b \in Block : /\ is_dram_address(block_id_to_addr(b))
                               /\ dram_addr_to_block_id(block_id_to_addr(b)) = b
                               /\ block_id_to_addr(b) # NoPage /\ b # NoBlock
           /\ ~is_dram_address(NoPage)
           /\ \A c \in Core : running[c] = 0
           /\ NoPage \notin Page
  <1>1. process_count = 1 /\ pages \in Nat /\ total_page_count \in Nat /\ high_addr = pages
    BY BufferAssumption DEF OneProcess, high_addr
  <1>2. Process = {0}
    BY <1>1 DEF Process
  <1>3. ~enable_shared_memory
    BY <1>1, SharedAssumption
  <1>4. \A v \in Page : Frame(0, v) = v /\ ~is_dram_address(v) /\ v # NoPage
    BY <1>1 DEF Page, Frame, is_dram_address, NoPage
  <1>5. \A b \in Block : /\ is_dram_address(block_id_to_addr(b))
                         /\ dram_addr_to_block_id(block_id_to_addr(b)) = b
                         /\ block_id_to_addr(b) # NoPage /\ b # NoBlock
    BY <1>1 DEF Block, is_dram_address, block_id_to_addr, dram_addr_to_block_id, NoPage, NoBlock
  <1>6. ~is_dram_address(NoPage) /\ NoPage \notin Page
    BY <1>1 DEF is_dram_address, NoPage, Page
  <1>7. \A c \in Core : running[c] = 0
    BY <1>2 DEF Inv, StoreInv, TypeOK
  <1> QED
    BY <1>2, <1>3, <1>4, <1>5, <1>6, <1>7

(* The types of what the maps are made of. *)
LEMMA MapTypes ==
    ASSUME OneProcess, Inv
    PROVE  /\ table \in [{0} -> [Page -> Ppn \cup {NoPage}]]
           /\ tlb \in [Core -> [Page -> TlbEntry]]
           /\ walk \in [Core -> [vpn : Page \cup {NoPage}, ppn : Ppn \cup {NoPage}]]
           /\ writing \in [Core -> [at : {"none", "set", "through", "convert"}, vpn : Page \cup {NoPage}]]
           /\ used \subseteq Block /\ clean_pools \in [{0} -> SUBSET Block]
           /\ original_addr \in [Block -> Ppn \cup {NoPage}]
           /\ vaddr \in [Block -> Page \cup {NoPage}]
           /\ fault \in [at : {"none", "reclaim", "release", "allocate", "evict", "map", "shoot"},
                         core : Core \cup {NoPage}, vpn : Page \cup {NoPage},
                         block : Block \cup {NoBlock}, proc : Process, counted : 0 .. total_page_count]
           /\ fault.at # "none" => fault.core \in Core /\ fault.vpn \in Page
           /\ fault.at \in {"evict", "map", "shoot"} => fault.block \in Block
           /\ \A c \in Core : /\ walk[c] # NoWalk => walk[c].vpn \in Page
                              /\ writing[c].at # "none" => writing[c].vpn \in Page
  <1>1. Process = {0}
    BY MapFacts
  <1>2. tlb \in [Core -> [Page -> TlbEntry]]
    BY TlbIsTyped DEF Inv, StoreInv
  <1> QED
    BY <1>1, <1>2 DEF Inv, StoreInv, TypeOK, FaultInv, CoresInv

(* An entry made for a physical page. *)
LEMMA EntryFacts ==
    /\ \A ppn : Entry(ppn).ppn = ppn /\ Entry(ppn).in_dram = is_dram_address(ppn) /\ ~Entry(ppn).dirty
    /\ \A ppn : ppn # NoPage => Entry(ppn) # NoEntry
    /\ NoEntry.ppn = NoPage /\ ~NoEntry.in_dram /\ ~NoEntry.dirty
  BY DEF Entry, NoEntry

(* Where an entry may lead, case by case. *)
LEMMA WhereaboutsFacts ==
    ASSUME NEW v
    PROVE  /\ fault.at \notin {"map", "shoot"} => Whereabouts(0, v) = {table[0][v]}
           /\ fault.at = "map" /\ fault.block \in used /\ vaddr[fault.block] = v =>
                 Whereabouts(0, v) = {original_addr[fault.block]}
           /\ fault.at = "map" /\ ~(fault.block \in used /\ vaddr[fault.block] = v) =>
                 Whereabouts(0, v) = {table[0][v]}
           /\ fault.at = "shoot" /\ fault.vpn = v =>
                 Whereabouts(0, v) = {original_addr[fault.block], block_id_to_addr(fault.block)}
           /\ fault.at = "shoot" /\ fault.vpn # v => Whereabouts(0, v) = {table[0][v]}
  BY DEF Whereabouts

(* What the maps mean for one page, and for an entry of it that leads to a block. *)
LEMMA PageFacts ==
    ASSUME OneProcess, Inv, MapsInv
    PROVE  /\ \A b \in used : vaddr[b] \in Page /\ original_addr[b] = vaddr[b]
           /\ \A v \in Page : is_dram_address(table[0][v]) =>
                 LET b == dram_addr_to_block_id(table[0][v]) IN
                 b \in used /\ vaddr[b] = v /\ table[0][v] = block_id_to_addr(b)
           /\ \A c \in Core, v \in Page :
                 tlb[c][v] # NoEntry /\ tlb[c][v].in_dram /\ v \notin overtaken =>
                    is_dram_address(tlb[c][v].ppn) /\ tlb[c][v].ppn = table[0][v]
  <1>1. \A b \in used : vaddr[b] \in Page /\ original_addr[b] = vaddr[b]
    BY MapFacts DEF MapsInv, TableInv
  <1>2. ASSUME NEW v \in Page, is_dram_address(table[0][v])
        PROVE  LET b == dram_addr_to_block_id(table[0][v]) IN
               b \in used /\ vaddr[b] = v /\ table[0][v] = block_id_to_addr(b)
    <2>1. table[0][v] # NoPage /\ table[0][v] # Frame(0, v)
      BY <1>2, MapFacts
    <2>2. PICK b \in used : vaddr[b] = v /\ table[0][v] = block_id_to_addr(b)
      BY <2>1 DEF MapsInv, TableInv
    <2>3. dram_addr_to_block_id(table[0][v]) = b
      BY <2>2, MapFacts, MapTypes
    <2> QED
      BY <2>2, <2>3
  <1>3. ASSUME NEW c \in Core, NEW v \in Page,
               tlb[c][v] # NoEntry, tlb[c][v].in_dram, v \notin overtaken
        PROVE  is_dram_address(tlb[c][v].ppn) /\ tlb[c][v].ppn = table[0][v]
    <2>1. tlb[c][v].ppn \in Whereabouts(0, v) /\ is_dram_address(tlb[c][v].ppn)
      BY <1>3 DEF MapsInv, TlbInv
    <2>2. \A b \in used : ~is_dram_address(original_addr[b])
      BY <1>1, MapFacts
    <2> QED
      BY <2>1, <2>2, WhereaboutsFacts DEF MapsInv, MoveInv
  <1> QED
    BY <1>1, <1>2, <1>3

-----------------------------------------------------------------------------
(* What the cores do. *)

(* A walk: nobody has an entry for a page that is not mapped. *)
LEMMA WalkTableMaps ==
    ASSUME OneProcess, Inv, MapsInv, NEW c \in Core, NEW v \in Page, WalkTable(c, v)
    PROVE  MapsInv'
  <1> USE DEF MapsInv
  <1>1. /\ UNCHANGED <<used, vaddr, original_addr, dirty, clean_pools, fault, writing, overtaken>>
        /\ walk[c] = NoWalk /\ fault.core # c /\ writing[c].at = "none" /\ running[c] = 0
    <2>1. running[c] = 0
      BY MapFacts
    <2>2. UNCHANGED <<running, writing, overtaken, pools, blocks, fault>> /\ Free(c)
      BY DEF WalkTable
    <2>3. writing[c].at = "none"
      BY <2>2 DEF Free, NotWriting
    <2> QED
      BY <2>1, <2>2, <2>3 DEF blocks, pools, Free
  <1>2. CASE table[0][v] # NoPage
    <2>1. UNCHANGED <<table, tlb>> /\ walk' = [walk EXCEPT ![c] = [vpn |-> v, ppn |-> table[0][v]]]
      BY <1>1, <1>2 DEF WalkTable
    <2>2. PlaceOf(v, table[0][v])
      BY <1>2, MapFacts, MapTypes DEF PlaceOf, TableInv
    <2>3. AccessInv'
      <3> SUFFICES ASSUME NEW d \in Core
                   PROVE  /\ walk'[d] # NoWalk => table[0][walk'[d].vpn] # NoPage /\ PlaceOf(walk'[d].vpn, walk'[d].ppn)
                          /\ writing[d].at # "none" => tlb[d][writing[d].vpn] # NoEntry /\ walk'[d] = NoWalk
        BY <1>1, <2>1 DEF AccessInv, PlaceOf, Frame, NoWalk, NoEntry, NoPage, is_dram_address, high_addr
      <3>1. CASE d = c
        <4>1. walk'[d].vpn = v /\ walk'[d].ppn = table[0][v]
          BY <2>1, <3>1, MapTypes
        <4> QED
          BY <1>1, <1>2, <2>2, <3>1, <4>1
      <3>2. CASE d # c
        <4>1. walk'[d] = walk[d]
          BY <2>1, <3>2, MapTypes
        <4> QED
          BY <4>1 DEF AccessInv
      <3> QED
        BY <3>1, <3>2
    <2>4. MoveInv'
      <3>1. fault.core \in Core => walk'[fault.core] = walk[fault.core]
        BY <1>1, <2>1, MapTypes
      <3> QED
        BY <1>1, <2>1, <3>1, MapTypes DEF MoveInv
    <2>5. TableInv' /\ TlbInv'
      BY <1>1, <2>1 DEF TableInv, TlbInv, Marked, Whereabouts
    <2> QED
      BY <2>3, <2>4, <2>5
  <1>3. CASE table[0][v] = NoPage
    <2>1. /\ walk' = [walk EXCEPT ![c] = [vpn |-> v, ppn |-> v]]
          /\ table' = [table EXCEPT ![0][v] = v]
          /\ tlb' = [d \in Core |->
                [tlb[d] EXCEPT ![v] = [tlb[d][v] EXCEPT !.in_dram = FALSE, !.dirty = FALSE]]]
      BY <1>1, <1>3, MapFacts DEF WalkTable
    <2>2. \A w \in Page : table'[0][w] = IF w = v THEN v ELSE table[0][w]
      BY <2>1, MapTypes
    <2>3. \A d \in Core : tlb[d][v] = NoEntry
      BY <1>3 DEF TlbInv
    <2>4. tlb' = tlb
      <3>1. [NoEntry EXCEPT !.in_dram = FALSE, !.dirty = FALSE] = NoEntry
        <4>1. \A e \in TlbEntry : e.in_dram = FALSE /\ e.dirty = FALSE =>
                  [e EXCEPT !.in_dram = FALSE, !.dirty = FALSE] = e
          BY DEF TlbEntry
        <4>2. NoEntry \in TlbEntry /\ NoEntry.in_dram = FALSE /\ NoEntry.dirty = FALSE
          BY DEF NoEntry, TlbEntry
        <4> QED
          BY <4>1, <4>2
      <3>2. tlb' = [d \in Core |-> [tlb[d] EXCEPT ![v] = NoEntry]]
        BY <2>1, <2>3, <3>1
      <3>3. \A d \in Core : [tlb[d] EXCEPT ![v] = NoEntry] = tlb[d]
        BY <2>3, MapTypes
      <3>4. tlb = [d \in Core |-> tlb[d]]
        BY MapTypes
      <3> QED
        BY <3>2, <3>3, <3>4
    <2>5. \A b \in used : vaddr[b] # v
      BY <1>3 DEF TableInv
    <2>6. TableInv'
      BY <1>1, <2>2, <2>5, MapFacts DEF TableInv, block_id_to_addr, Frame, high_addr
    <2>7. TlbInv'
      <3> SUFFICES ASSUME NEW d \in Core, NEW w \in Page, tlb[d][w] # NoEntry
                   PROVE  /\ table'[0][w] # NoPage /\ PlaceOf(w, tlb[d][w].ppn)
                          /\ w \notin overtaken =>
                                /\ tlb[d][w].ppn \in Whereabouts(0, w)'
                                /\ tlb[d][w].in_dram = is_dram_address(tlb[d][w].ppn)
                                /\ tlb[d][w].in_dram /\ tlb[d][w].dirty => Marked(d, w)
        BY <1>1, <2>4 DEF TlbInv, Marked, PlaceOf, Frame, NoEntry, NoPage, is_dram_address, high_addr,
           dram_addr_to_block_id
      <3>1. w # v /\ table'[0][w] = table[0][w]
        BY <2>2, <2>3
      <3>2. Whereabouts(0, w)' = Whereabouts(0, w)
        BY <1>1, <3>1 DEF Whereabouts
      <3> QED
        BY <3>1, <3>2 DEF TlbInv
    <2>8. AccessInv'
      <3> SUFFICES ASSUME NEW d \in Core
                   PROVE  /\ walk'[d] # NoWalk => table'[0][walk'[d].vpn] # NoPage /\ PlaceOf(walk'[d].vpn, walk'[d].ppn)
                          /\ writing[d].at # "none" => tlb[d][writing[d].vpn] # NoEntry /\ walk'[d] = NoWalk
        BY <1>1, <2>4 DEF AccessInv, PlaceOf, Frame, NoWalk, NoEntry, NoPage, is_dram_address, high_addr
      <3>1. CASE d = c
        <4>1. walk'[d].vpn = v /\ walk'[d].ppn = v
          BY <2>1, <3>1, MapTypes
        <4> QED
          BY <1>1, <2>2, <3>1, <4>1, MapFacts DEF PlaceOf
      <3>2. CASE d # c
        <4>1. walk'[d] = walk[d]
          BY <2>1, <3>2, MapTypes
        <4> QED
          BY <1>3, <2>2, <4>1, MapTypes DEF AccessInv
      <3> QED
        BY <3>1, <3>2
    <2>9. MoveInv'
      <3>1. fault.core \in Core => walk'[fault.core] = walk[fault.core]
        BY <1>1, <2>1, MapTypes
      <3>2. fault.at \in {"reclaim", "release", "allocate", "evict", "map", "shoot"} =>
               table'[0][fault.vpn] = table[0][fault.vpn]
        <4> SUFFICES ASSUME fault.at # "none" PROVE (fault.vpn \in Page /\ fault.vpn # v) \/ table'[0][fault.vpn] = table[0][fault.vpn]
          BY <2>2
        <4>1. fault.vpn \in Page /\ fault.core \in Core
          BY MapTypes
        <4>2. CASE fault.at = "shoot"
          BY <1>3, <4>1, <4>2, MapFacts, MapTypes DEF MoveInv
        <4>3. CASE fault.at # "shoot"
          <5>1. tlb[fault.core][fault.vpn].ppn = fault.vpn
            BY <4>1, <4>3, MapFacts, MapTypes DEF MoveInv
          <5>2. tlb[fault.core][fault.vpn] # NoEntry
            BY <4>1, <5>1, MapFacts, EntryFacts
          <5> QED
            BY <1>3, <4>1, <5>2 DEF TlbInv
        <4> QED
          BY <4>2, <4>3
      <3> QED
        BY <1>1, <2>4, <3>1, <3>2, MapTypes DEF MoveInv, block_id_to_addr, Frame, high_addr
    <2> QED
      BY <2>6, <2>7, <2>8, <2>9
  <1> QED
    BY <1>2, <1>3

(* A fill: what is out of date is told by overtaken. *)
LEMMA InsertMaps ==
    ASSUME OneProcess, Inv, MapsInv, NEW c \in Core, Insert(c)
    PROVE  MapsInv'
  <1> USE DEF MapsInv
  <1> DEFINE v == walk[c].vpn
             filled == [tlb[c] EXCEPT ![v] = Entry(walk[c].ppn)]
  <1>1. /\ UNCHANGED <<table, used, vaddr, original_addr, dirty, clean_pools, fault, writing>>
        /\ walk[c] # NoWalk /\ walk' = [walk EXCEPT ![c] = NoWalk] /\ running[c] = 0
    BY MapFacts DEF Insert, blocks, pools
  <1>2. v \in Page /\ table[0][v] # NoPage /\ PlaceOf(v, walk[c].ppn)
    BY <1>1, MapTypes DEF AccessInv
  <1>3. /\ overtaken \subseteq overtaken'
        /\ v \notin overtaken' => walk[c].ppn \in Whereabouts(0, v)
    BY <1>1 DEF Insert
  <1>4. \A d \in Core, w \in Page :
            \/ tlb'[d][w] = tlb[d][w]
            \/ d = c /\ tlb'[d][w] = NoEntry
            \/ d = c /\ w = v /\ tlb'[d][w] = Entry(walk[c].ppn)
    <2>1. \/ tlb' = [tlb EXCEPT ![c] = filled]
          \/ \E w \in Page : tlb' = [tlb EXCEPT ![c] = [filled EXCEPT ![w] = NoEntry]]
      BY DEF Insert, Entries
    <2>2. filled \in [Page -> TlbEntry] /\ \A w \in Page : filled[w] = IF w = v THEN Entry(walk[c].ppn) ELSE tlb[c][w]
      BY <1>2, EntryType, MapTypes
    <2> HIDE DEF filled
    <2> QED
      BY <2>1, <2>2, MapTypes
  <1>5. \A d \in Core : writing[d].at # "none" => d # c
    BY <1>1 DEF AccessInv
  <1>6. TlbInv'
    <2> SUFFICES ASSUME NEW d \in Core, NEW w \in Page, tlb'[d][w] # NoEntry
                 PROVE  /\ table[0][w] # NoPage /\ PlaceOf(w, tlb'[d][w].ppn)
                        /\ w \notin overtaken' =>
                              /\ tlb'[d][w].ppn \in Whereabouts(0, w)
                              /\ tlb'[d][w].in_dram = is_dram_address(tlb'[d][w].ppn)
                              /\ tlb'[d][w].in_dram /\ tlb'[d][w].dirty => Marked(d, w)'
      BY <1>1 DEF TlbInv, PlaceOf, Frame, NoEntry, NoPage, is_dram_address, high_addr, Whereabouts,
         block_id_to_addr
    <2>1. CASE tlb'[d][w] = tlb[d][w]
      BY <1>1, <1>3, <2>1 DEF TlbInv, Marked
    <2>2. CASE w = v /\ tlb'[d][w] = Entry(walk[c].ppn)
      BY <1>2, <1>3, <2>2, EntryFacts
    <2> QED
      BY <1>4, <2>1, <2>2
  <1>7. \A d \in Core : walk'[d] = IF d = c THEN NoWalk ELSE walk[d]
    BY <1>1, MapTypes
  <1>8. AccessInv'
    <2> SUFFICES ASSUME NEW d \in Core
                 PROVE  /\ walk'[d] # NoWalk => table[0][walk'[d].vpn] # NoPage /\ PlaceOf(walk'[d].vpn, walk'[d].ppn)
                        /\ writing[d].at # "none" => tlb'[d][writing[d].vpn] # NoEntry /\ walk'[d] = NoWalk
      BY <1>1 DEF AccessInv, PlaceOf, Frame, NoWalk, NoEntry, NoPage, is_dram_address, high_addr
    <2> QED
      BY <1>4, <1>5, <1>7, MapTypes DEF AccessInv
  <1>9. MoveInv'
    <2> SUFFICES ASSUME fault.at \in {"reclaim", "release", "allocate", "evict", "map"}
                 PROVE  /\ fault.vpn \in overtaken' \/ table[0][fault.vpn] = Frame(0, fault.vpn)
                        /\ tlb'[fault.core][fault.vpn].ppn = Frame(0, fault.vpn)
                        /\ walk'[fault.core] = NoWalk /\ writing[fault.core].at = "none"
      BY <1>1 DEF MoveInv, Frame, NoWalk, block_id_to_addr, high_addr, NoFault, NoPage, NoBlock
    <2>1. fault.core \in Core /\ fault.vpn \in Page /\ fault.core # c
      BY <1>1, MapTypes DEF MoveInv
    <2> QED
      BY <1>3, <1>4, <1>7, <2>1 DEF MoveInv
  <1>10. TableInv'
    BY <1>1, <1>3 DEF TableInv
  <1> QED
    BY <1>6, <1>8, <1>9, <1>10

(* A flush: an empty TLB agrees with any table. *)
LEMMA ContextSwitchMaps ==
    ASSUME OneProcess, Inv, MapsInv, NEW c \in Core, ContextSwitch(c)
    PROVE  MapsInv'
  <1> USE DEF MapsInv
  <1>1. /\ UNCHANGED <<table, used, vaddr, original_addr, dirty, clean_pools, fault, walk, writing, overtaken>>
        /\ fault.core # c /\ writing[c].at = "none"
    BY DEF ContextSwitch, blocks, pools, Free, NotWriting
  <1>2. \A d \in Core, w \in Page : tlb'[d][w] = IF d = c THEN NoEntry ELSE tlb[d][w]
    BY MapTypes DEF ContextSwitch
  <1>3. TlbInv'
    BY <1>1, <1>2 DEF TlbInv, Marked, Whereabouts
  <1>4. MoveInv'
    BY <1>1, <1>2, MapTypes DEF MoveInv
  <1>5. AccessInv'
    BY <1>1, <1>2, MapTypes DEF AccessInv
  <1>6. TableInv'
    BY <1>1 DEF TableInv
  <1> QED
    BY <1>3, <1>4, <1>5, <1>6

(* The only process, on a core again. *)
LEMMA SetPagingMaps ==
    ASSUME OneProcess, Inv, MapsInv, NEW c \in Core, NEW p \in Process, SetPaging(c, p)
    PROVE  MapsInv'
  <1>1. UNCHANGED <<table, tlb, walk, writing, overtaken, pools, blocks, fault>>
    BY DEF SetPaging
  <1>2. UNCHANGED <<used, dirty, vaddr, original_addr, clean_pools>>
    BY <1>1 DEF blocks, pools
  <1>3. TableInv' /\ AccessInv' /\ MoveInv'
    BY <1>1, <1>2 DEF MapsInv, TableInv, AccessInv, MoveInv
  <1>4. TlbInv'
    BY <1>1, <1>2 DEF MapsInv, TlbInv, Marked, Whereabouts
  <1> QED
    BY <1>3, <1>4 DEF MapsInv

(* A first write begins: the page has an entry, and stays in the TLB. *)
LEMMA WriteHitMaps ==
    ASSUME OneProcess, Inv, MapsInv, NEW c \in Core, NEW v \in Page, WriteHit(c, v)
    PROVE  MapsInv'
  <1> USE DEF MapsInv
  <1>1. /\ UNCHANGED <<table, tlb, walk, used, vaddr, original_addr, dirty, clean_pools, fault, overtaken>>
        /\ walk[c] = NoWalk /\ writing[c] = NotWriting /\ fault.core # c
        /\ tlb[c][v].in_dram /\ writing' = [writing EXCEPT ![c] = [at |-> "set", vpn |-> v]]
    BY DEF WriteHit, blocks, pools, Free
  <1>2. \A d \in Core : writing'[d] = IF d = c THEN [at |-> "set", vpn |-> v] ELSE writing[d]
    BY <1>1, MapTypes
  <1>3. tlb[c][v] # NoEntry
    BY <1>1, EntryFacts
  <1>4. AccessInv'
    BY <1>1, <1>2, <1>3 DEF AccessInv
  <1>5. TlbInv'
    <2>1. ASSUME NEW d \in Core, NEW w \in Page, Marked(d, w) PROVE Marked(d, w)'
      <3>1. CASE d # c
        BY <1>1, <1>2, <2>1, <3>1 DEF Marked
      <3>2. CASE d = c
        <4>1. writing[d].at # "through" /\ writing[d].vpn # w
          BY <1>1, <3>2, MapFacts DEF NotWriting
        <4> QED
          BY <1>1, <2>1, <4>1 DEF Marked
      <3> QED
        BY <3>1, <3>2
    <2> QED
      BY <1>1, <2>1 DEF TlbInv, Whereabouts
  <1>6. MoveInv'
    <2>1. fault.core \in Core => writing'[fault.core] = writing[fault.core]
      BY <1>1, <1>2
    <2> QED
      BY <1>1, <2>1, MapTypes DEF MoveInv
  <1>7. TableInv'
    BY <1>1 DEF TableInv
  <1> QED
    BY <1>4, <1>5, <1>6, <1>7

(* It marks the entry; the block will be. *)
LEMMA SetDirtyMaps ==
    ASSUME OneProcess, Inv, MapsInv, NEW c \in Core, SetDirty(c)
    PROVE  MapsInv'
  <1> USE DEF MapsInv
  <1> DEFINE v == writing[c].vpn
  <1>1. /\ UNCHANGED <<table, walk, used, vaddr, original_addr, dirty, clean_pools, fault, overtaken>>
        /\ writing[c].at = "set" /\ tlb' = [tlb EXCEPT ![c][v].dirty = TRUE]
        /\ writing' = [writing EXCEPT ![c].at = "through"]
    BY DEF SetDirty, blocks, pools
  <1>2. v \in Page /\ tlb[c][v] # NoEntry /\ walk[c] = NoWalk
    BY <1>1, MapTypes DEF AccessInv
  <1>3. \A d \in Core : writing'[d] = IF d = c THEN [at |-> "through", vpn |-> v] ELSE writing[d]
    BY <1>1, MapTypes
  <1>4. \A d \in Core, w \in Page :
            /\ tlb'[d][w].ppn = tlb[d][w].ppn /\ tlb'[d][w].in_dram = tlb[d][w].in_dram
            /\ d # c \/ w # v => tlb'[d][w] = tlb[d][w]
    <2>1. \A d \in Core, w \in Page :
              tlb'[d][w] = IF d = c /\ w = v THEN [tlb[c][v] EXCEPT !.dirty = TRUE] ELSE tlb[d][w]
      BY <1>1, <1>2, MapTypes
    <2>2. tlb[c][v] \in TlbEntry
      BY <1>2, MapTypes
    <2>3. [tlb[c][v] EXCEPT !.dirty = TRUE].ppn = tlb[c][v].ppn
          /\ [tlb[c][v] EXCEPT !.dirty = TRUE].in_dram = tlb[c][v].in_dram
      BY <2>2 DEF TlbEntry
    <2> QED
      BY <2>1, <2>3
  <1>5. PlaceOf(v, tlb[c][v].ppn)
    BY <1>2 DEF TlbInv
  <1>6. AccessInv'
    <2>1. tlb'[c][v] # NoEntry
      BY <1>2, <1>4, <1>5, EntryFacts DEF PlaceOf
    <2> QED
      BY <1>1, <1>2, <1>3, <1>4, <2>1, MapTypes DEF AccessInv
  <1>7. TlbInv'
    <2>0. UNCHANGED <<table, overtaken>> /\ \A w : Whereabouts(0, w)' = Whereabouts(0, w)
      BY <1>1 DEF Whereabouts
    <2> SUFFICES ASSUME NEW d \in Core, NEW w \in Page, tlb'[d][w] # NoEntry
                 PROVE  /\ table[0][w] # NoPage /\ PlaceOf(w, tlb'[d][w].ppn)
                        /\ w \notin overtaken =>
                              /\ tlb'[d][w].ppn \in Whereabouts(0, w)
                              /\ tlb'[d][w].in_dram = is_dram_address(tlb'[d][w].ppn)
                              /\ tlb'[d][w].in_dram /\ tlb'[d][w].dirty => Marked(d, w)'
      BY <2>0 DEF TlbInv, PlaceOf, Frame, NoEntry, NoPage, is_dram_address, high_addr
    <2>1. tlb[d][w] # NoEntry
      BY <1>2, <1>4
    <2>2. CASE d = c /\ w = v
      BY <1>3, <1>4, <2>1, <2>2 DEF TlbInv, Marked
    <2>3. CASE d # c \/ w # v
      <3>1. Marked(d, w) => Marked(d, w)'
        BY <1>1, <1>3, <1>4, <2>3 DEF Marked
      <3> QED
        BY <1>4, <2>1, <2>3, <3>1 DEF TlbInv
    <2> QED
      BY <2>2, <2>3
  <1>8. MoveInv'
    <2>1. fault.at \in {"reclaim", "release", "allocate", "evict", "map"} =>
             fault.core \in Core /\ fault.vpn \in Page /\ fault.core # c
      BY <1>1, MapTypes DEF MoveInv
    <2> QED
      BY <1>1, <1>3, <1>4, <2>1 DEF MoveInv
  <1>9. TableInv'
    BY <1>1 DEF TableInv
  <1> QED
    BY <1>6, <1>7, <1>8, <1>9

(* It marks the block that the table names: the entry's, unless the page was overtaken. *)
LEMMA WriteThroughMaps ==
    ASSUME OneProcess, Inv, MapsInv, NEW c \in Core, WriteThrough(c)
    PROVE  MapsInv'
  <1> USE DEF MapsInv
  <1> DEFINE v == writing[c].vpn
  <1>1. /\ UNCHANGED <<table, tlb, walk, used, vaddr, original_addr, clean_pools, fault, overtaken>>
        /\ writing[c].at = "through" /\ writing' = [writing EXCEPT ![c].at = "convert"]
        /\ dirty \subseteq dirty'
        /\ is_dram_address(table[0][v]) => dram_addr_to_block_id(table[0][v]) \in dirty'
    BY MapFacts DEF WriteThrough, pools
  <1>2. v \in Page /\ tlb[c][v] # NoEntry /\ walk[c] = NoWalk
    BY <1>1, MapTypes DEF AccessInv
  <1>3. \A d \in Core : writing'[d] = IF d = c THEN [at |-> "convert", vpn |-> v] ELSE writing[d]
    BY <1>1, MapTypes
  <1>4. AccessInv'
    BY <1>1, <1>2, <1>3 DEF AccessInv
  <1>5. TlbInv'
    <2>1. ASSUME NEW d \in Core, NEW w \in Page, tlb[d][w] # NoEntry, w \notin overtaken,
                 tlb[d][w].in_dram, Marked(d, w)
          PROVE  Marked(d, w)'
      <3>1. CASE d = c /\ w = v
        <4>1. is_dram_address(tlb[c][v].ppn) /\ tlb[c][v].ppn = table[0][v]
          BY <1>2, <2>1, <3>1, PageFacts
        <4> QED
          BY <1>1, <1>3, <2>1, <3>1, <4>1 DEF Marked
      <3>2. CASE d # c \/ w # v
        BY <1>1, <1>3, <2>1, <3>2, MapTypes DEF Marked
      <3> QED
        BY <3>1, <3>2
    <2> QED
      BY <1>1, <2>1 DEF TlbInv, Whereabouts
  <1>6. MoveInv'
    <2>1. fault.at \in {"reclaim", "release", "allocate", "evict", "map"} =>
             fault.core \in Core /\ fault.vpn \in Page /\ fault.core # c
      BY <1>1, MapTypes DEF MoveInv
    <2> QED
      BY <1>1, <1>3, <2>1 DEF MoveInv
  <1>7. TableInv'
    BY <1>1 DEF TableInv
  <1> QED
    BY <1>4, <1>5, <1>6, <1>7

(* It moves the entry's block to the written ones, whatever the entry has become. *)
LEMMA ConvertToDirtyMaps ==
    ASSUME OneProcess, Inv, MapsInv, NEW c \in Core, ConvertToDirty(c)
    PROVE  MapsInv'
  <1> USE DEF MapsInv
  <1> DEFINE v == writing[c].vpn
             b == dram_addr_to_block_id(tlb[c][v].ppn)
  <1>1. /\ UNCHANGED <<table, tlb, walk, used, vaddr, original_addr, dirty, fault, overtaken>>
        /\ writing[c].at = "convert" /\ writing' = [writing EXCEPT ![c] = NotWriting]
        /\ convert_to_dirty(0, b)
    BY MapFacts DEF ConvertToDirty, blocks
  <1>2. v \in Page /\ tlb[c][v] # NoEntry /\ walk[c] = NoWalk
    BY <1>1, MapTypes DEF AccessInv
  <1>3. \A d \in Core : writing'[d] = IF d = c THEN NotWriting ELSE writing[d]
    BY <1>1, MapTypes
  <1>4. clean_pools'[0] = clean_pools[0] \ {b}
    BY <1>1, MapTypes DEF convert_to_dirty
  <1>5. AccessInv'
    BY <1>1, <1>3 DEF AccessInv, NotWriting
  <1>6. TlbInv'
    <2>1. ASSUME NEW d \in Core, NEW w \in Page, Marked(d, w)
          PROVE  Marked(d, w)'
      <3>1. CASE d = c /\ w = v
        BY <1>1, <1>4, <2>1, <3>1 DEF Marked
      <3>2. CASE d # c
        BY <1>1, <1>3, <1>4, <2>1, <3>2 DEF Marked
      <3>3. CASE w # v /\ d = c
        BY <1>1, <1>4, <2>1, <3>3 DEF Marked
      <3> QED
        BY <3>1, <3>2, <3>3
    <2> QED
      BY <1>1, <2>1 DEF TlbInv, Whereabouts
  <1>7. MoveInv'
    <2>1. fault.at \in {"reclaim", "release", "allocate", "evict", "map"} =>
             fault.core \in Core /\ fault.vpn \in Page /\ fault.core # c
      BY <1>1, MapTypes DEF MoveInv
    <2> QED
      BY <1>1, <1>3, <2>1 DEF MoveInv
  <1>8. TableInv'
    BY <1>1 DEF TableInv
  <1> QED
    BY <1>5, <1>6, <1>7, <1>8

-----------------------------------------------------------------------------
(* The fault. *)

(* Its start: the entry says that the page is in PCM. *)
LEMMA DramFaultMaps ==
    ASSUME OneProcess, Inv, MapsInv, NEW c \in Core, NEW v \in Page, DramFault(c, v)
    PROVE  MapsInv'
  <1> USE DEF MapsInv
  <1>1. /\ UNCHANGED <<table, tlb, walk, writing, overtaken, used, vaddr, original_addr, dirty, clean_pools>>
        /\ fault = NoFault /\ fault' = [NoFault EXCEPT !.at = IF should_reclaim THEN "reclaim" ELSE "allocate",
                                                       !.core = c, !.vpn = v]
        /\ walk[c] = NoWalk /\ writing[c].at = "none"
        /\ tlb[c][v] # NoEntry /\ ~is_dram_address(tlb[c][v].ppn)
    BY DEF DramFault, blocks, pools, Free, NotWriting
  <1>2. /\ fault.at = "none" /\ fault.block = NoBlock
        /\ fault'.at \in {"reclaim", "allocate"} /\ fault'.core = c /\ fault'.vpn = v
        /\ fault'.block = NoBlock
    BY <1>1 DEF NoFault
  <1>3. \A w : Whereabouts(0, w) = {table[0][w]} /\ Whereabouts(0, w)' = {table[0][w]}
    BY <1>1, <1>2 DEF Whereabouts
  <1>4. tlb[c][v].ppn = Frame(0, v) /\ (v \in overtaken \/ table[0][v] = Frame(0, v))
    BY <1>1, <1>3 DEF TlbInv, PlaceOf
  <1>5. MoveInv'
    BY <1>1, <1>2, <1>4 DEF MoveInv
  <1>6. AccessInv'
    BY <1>1 DEF AccessInv
  <1>7. TlbInv'
    BY <1>1, <1>2, <1>3 DEF TlbInv, Marked
  <1>8. TableInv'
    BY <1>1 DEF TableInv
  <1> QED
    BY <1>5, <1>6, <1>7, <1>8

(* A reclaim takes blocks from pools, but not from the maps. *)
LEMMA ReclaimMaps ==
    ASSUME OneProcess, Inv, MapsInv, CountClean \/ Release
    PROVE  MapsInv'
  <1> USE DEF MapsInv
  <1>1. UNCHANGED <<table, tlb, walk, writing, overtaken, used, vaddr, original_addr, dirty>>
    BY DEF CountClean, Release, blocks
  <1>2. /\ fault.at \in {"reclaim", "release"}
        /\ fault'.at \in {"reclaim", "release", "allocate"} /\ fault'.core = fault.core /\ fault'.vpn = fault.vpn
        /\ fault'.block = fault.block
    <2>1. CASE CountClean
      BY <2>1, MapTypes DEF CountClean
    <2>2. CASE Release
      <3>1. /\ fault.at = "release"
            /\ \/ \E q : fault' = [fault EXCEPT !.at = "reclaim", !.proc = q, !.counted = 0]
               \/ fault' = [fault EXCEPT !.at = "allocate", !.counted = 0]
        BY <2>2 DEF Release
      <3> QED
        BY <3>1, MapTypes
    <2> QED
      BY <2>1, <2>2
  <1>3. \A w : Whereabouts(0, w) = {table[0][w]} /\ Whereabouts(0, w)' = {table[0][w]}
    BY <1>1, <1>2 DEF Whereabouts
  <1>4. clean_pools'[0] \subseteq clean_pools[0]
    <2>1. CASE CountClean
      BY <2>1 DEF CountClean, pools
    <2>2. CASE Release
      <3>1. fault.proc = 0
        BY MapFacts DEF Inv, StoreInv, TypeOK
      <3>2. PICK clean : clean_pools' = [clean_pools EXCEPT ![0] = clean_pools[0] \ clean]
        BY <2>2, <3>1 DEF Release
      <3> QED
        BY <3>2, MapTypes
    <2> QED
      BY <2>1, <2>2
  <1>5. MoveInv'
    BY <1>1, <1>2 DEF MoveInv
  <1>6. TlbInv'
    BY <1>1, <1>2, <1>3, <1>4 DEF TlbInv, Marked
  <1>7. TableInv' /\ AccessInv'
    BY <1>1 DEF TableInv, AccessInv
  <1> QED
    BY <1>5, <1>6, <1>7

(* The block taken may be a written one: it counts as clean at once, and    *)
(* its mark stays until the page in it is put out.                          *)
LEMMA AllocateMaps ==
    ASSUME OneProcess, Inv, MapsInv, Allocate
    PROVE  MapsInv'
  <1> USE DEF MapsInv
  <1>1. PICK b : Taken(b) /\ b \in Block
    <2>1. \A s \in Seq(Block) : s # <<>> => Head(s) \in Block
      OBVIOUS
    <2>2. global_clean_pool \in Seq(Block) /\ global_dirty_pool \in Seq(Block)
      BY DEF Inv, StoreInv, TypeOK
    <2> QED
      BY <2>1, <2>2 DEF Allocate
  <1>2. /\ UNCHANGED <<table, tlb, walk, writing, overtaken, used, vaddr, original_addr, dirty>>
        /\ fault.at = "allocate" /\ fault.core \in Core
        /\ fault' = [fault EXCEPT !.block = b, !.at = IF b \in used THEN "evict" ELSE "map"]
    BY <1>1, MapTypes DEF Allocate, Taken, blocks
  <1>3. /\ fault'.at = (IF b \in used THEN "evict" ELSE "map") /\ fault'.core = fault.core
        /\ fault'.vpn = fault.vpn /\ fault'.block = b
    BY <1>2, MapTypes
  <1>4. \A w : Whereabouts(0, w) = {table[0][w]} /\ Whereabouts(0, w)' = {table[0][w]}
    BY <1>2, <1>3 DEF Whereabouts
  <1>5. clean_pools'[0] = clean_pools[0] \cup {b}
    BY <1>1, <1>2, MapFacts, MapTypes DEF Taken
  <1>6. fault.block = NoBlock
    BY <1>2 DEF MoveInv
  <1>7. MoveInv'
    BY <1>2, <1>3 DEF MoveInv
  <1>8. TlbInv'
    <2>1. ASSUME NEW c \in Core, NEW v \in Page, tlb[c][v] # NoEntry, v \notin overtaken,
                 tlb[c][v].in_dram, Marked(c, v)
          PROVE  Marked(c, v)'
      <3>1. is_dram_address(tlb[c][v].ppn) /\ tlb[c][v].ppn \in Ppn \cup {NoPage}
        BY <2>1, MapTypes, PageFacts DEF TlbEntry
      <3>2. dram_addr_to_block_id(tlb[c][v].ppn) # fault.block
        BY <1>6, <3>1, AddressFacts, MapFacts
      <3> QED
        BY <1>2, <1>3, <1>5, <2>1, <3>2 DEF Marked
    <2> QED
      BY <1>2, <1>4, <2>1 DEF TlbInv
  <1>9. TableInv' /\ AccessInv'
    BY <1>2 DEF TableInv, AccessInv
  <1> QED
    BY <1>7, <1>8, <1>9

(* What a shootdown does to an entry. *)
LEMMA ShootdownFacts ==
    ASSUME OneProcess, Inv, NEW v \in Page, NEW ppn \in Ppn, tlb_shootdown_hscc(v, ppn)
    PROVE  \A c \in Core, w \in Page :
              tlb'[c][w] = IF w = v /\ tlb[c][v] # NoEntry THEN Entry(ppn) ELSE tlb[c][w]
  BY MapTypes DEF tlb_shootdown_hscc

(* The page in the block is put out of the TLBs: they say PCM now, though   *)
(* the table does not yet.                                                  *)
LEMMA ShootDownEvictedMaps ==
    ASSUME OneProcess, Inv, MapsInv, ShootDownEvicted
    PROVE  MapsInv'
  <1> USE DEF MapsInv
  <1> DEFINE b == fault.block
             w == vaddr[b]
  <1>1. /\ UNCHANGED <<table, walk, writing, overtaken, used, vaddr, original_addr, clean_pools>>
        /\ fault.at = "evict" /\ fault' = [fault EXCEPT !.at = "map"]
        /\ tlb_shootdown_hscc(w, original_addr[b])
        /\ dirty \subseteq dirty'
    BY DEF ShootDownEvicted, pools
  <1>2. /\ fault'.at = "map" /\ fault'.core = fault.core /\ fault'.vpn = fault.vpn /\ fault'.block = b
        /\ b \in used /\ fault.core \in Core /\ fault.vpn \in Page
    BY <1>1, MapTypes DEF MoveInv
  <1>3. w \in Page /\ original_addr[b] = w /\ w \in Ppn /\ w # NoPage /\ ~is_dram_address(w)
        /\ Frame(0, w) = w /\ table[0][w] # NoPage
    BY <1>2, PageFacts, AddressFacts, MapFacts DEF TableInv
  <1>4. \A c \in Core, v \in Page :
            tlb'[c][v] = IF v = w /\ tlb[c][w] # NoEntry THEN Entry(w) ELSE tlb[c][v]
    BY <1>1, <1>3, ShootdownFacts
  <1>5. Entry(w) # NoEntry /\ Entry(w).ppn = w /\ ~Entry(w).in_dram
    BY <1>3, EntryFacts
  <1>6. /\ \A v : Whereabouts(0, v) = {table[0][v]}
        /\ \A v : Whereabouts(0, v)' = IF v = w THEN {w} ELSE {table[0][v]}
    BY <1>1, <1>2, <1>3 DEF Whereabouts
  <1>7. TlbInv'
    <2> SUFFICES ASSUME NEW c \in Core, NEW v \in Page, tlb'[c][v] # NoEntry
                 PROVE  /\ table[0][v] # NoPage /\ PlaceOf(v, tlb'[c][v].ppn)
                        /\ v \notin overtaken =>
                              /\ tlb'[c][v].ppn \in Whereabouts(0, v)'
                              /\ tlb'[c][v].in_dram = is_dram_address(tlb'[c][v].ppn)
                              /\ tlb'[c][v].in_dram /\ tlb'[c][v].dirty => Marked(c, v)'
      BY <1>1 DEF TlbInv, PlaceOf, Frame, NoEntry, NoPage, is_dram_address, high_addr
    <2>1. CASE v = w
      <3>1. tlb'[c][v] = Entry(w)
        BY <1>4, <2>1
      <3>2. Entry(w).in_dram = is_dram_address(w)
        BY EntryFacts
      <3> QED
        BY <1>3, <1>5, <1>6, <2>1, <3>1, <3>2 DEF PlaceOf
    <2>2. CASE v # w
      <3>1. tlb'[c][v] = tlb[c][v]
        BY <1>4, <2>2
      <3>2. Marked(c, v) => Marked(c, v)'
        BY <1>1, <1>2, <3>1 DEF Marked
      <3> QED
        BY <1>6, <2>2, <3>1, <3>2 DEF TlbInv
    <2> QED
      BY <2>1, <2>2
  <1>8. MoveInv'
    <2>1. tlb'[fault.core][fault.vpn].ppn = Frame(0, fault.vpn)
      BY <1>1, <1>2, <1>3, <1>4, <1>5 DEF MoveInv
    <2> QED
      BY <1>1, <1>2, <2>1 DEF MoveInv
  <1>9. AccessInv'
    BY <1>1, <1>4, <1>5, MapTypes DEF AccessInv
  <1>10. TableInv'
    BY <1>1 DEF TableInv
  <1> QED
    BY <1>7, <1>8, <1>9, <1>10

(* The table changes for both pages at once, and the mark goes. *)
LEMMA MapBlockMaps ==
    ASSUME OneProcess, Inv, MapsInv, MapBlock
    PROVE  MapsInv'
  <1> USE DEF MapsInv
  <1> DEFINE b == fault.block
             v == fault.vpn
             w == vaddr[b]
  <1>1. /\ UNCHANGED <<tlb, walk, writing, overtaken, clean_pools>>
        /\ fault.at = "map" /\ fault' = [fault EXCEPT !.at = "shoot"]
        /\ fault.core \in Core /\ v \in Page /\ b \in Block
        /\ used' = used \cup {b} /\ dirty' = IF b \in used THEN dirty \ {b} ELSE dirty
        /\ original_addr' = [original_addr EXCEPT ![b] = tlb[fault.core][v].ppn]
        /\ vaddr' = [vaddr EXCEPT ![b] = v]
    BY MapTypes DEF MapBlock, pools
  <1>2. /\ fault'.at = "shoot" /\ fault'.core = fault.core /\ fault'.vpn = v /\ fault'.block = b
    BY <1>1, MapTypes
  <1>3. b \in used => w \in Page /\ original_addr[b] = w /\ (w \in overtaken \/ table[0][w] = block_id_to_addr(b))
    BY <1>1, PageFacts, MapFacts DEF TableInv
  <1>4. /\ tlb[fault.core][v].ppn = v /\ (v \in overtaken \/ table[0][v] = v)
        /\ Frame(0, v) = v /\ v # NoPage /\ table[0][v] # NoPage
    <2>1. tlb[fault.core][v].ppn = v /\ (v \in overtaken \/ table[0][v] = v)
      BY <1>1, MapFacts DEF MoveInv
    <2>2. tlb[fault.core][v] # NoEntry
      BY <1>1, <2>1, MapFacts, EntryFacts
    <2> QED
      BY <1>1, <2>1, <2>2, MapFacts DEF TlbInv
  <1>5. b \in used /\ w = v => v \in overtaken
    BY <1>1, <1>3, <1>4, MapFacts
  <1>6. \A u \in Page : table'[0][u] = IF u = v THEN block_id_to_addr(b)
                                       ELSE IF b \in used /\ u = w THEN u ELSE table[0][u]
    <2>1. table' = IF b \in used THEN [[table EXCEPT ![0][w] = w] EXCEPT ![0][v] = block_id_to_addr(b)]
                                 ELSE [table EXCEPT ![0][v] = block_id_to_addr(b)]
      <3>1. ~enable_shared_memory /\ running[fault.core] = 0
        BY <1>1, MapFacts
      <3>2. table' = [TablesAfterEviction(0, b) EXCEPT ![0][v] = block_id_to_addr(b)]
        BY <3>1 DEF MapBlock
      <3>3. TablesAfterEviction(0, b) = IF b \in used THEN [table EXCEPT ![0][w] = original_addr[b]] ELSE table
        BY <3>1 DEF TablesAfterEviction
      <3> QED
        BY <1>3, <3>2, <3>3
    <2> QED
      BY <1>1, <1>3, <2>1, MapTypes
  <1>7. /\ \A d \in used' : vaddr'[d] = IF d = b THEN v ELSE vaddr[d]
        /\ \A d \in used' : original_addr'[d] = IF d = b THEN v ELSE original_addr[d]
    BY <1>1, <1>4, MapTypes
  (* Another page that the table has in a block is in another block. *)
  <1>8. ASSUME NEW u \in Page, u # v, ~(b \in used /\ u = w), table[0][u] # NoPage, table[0][u] # u
        PROVE  \E d \in used : d # b /\ vaddr[d] = u /\ table[0][u] = block_id_to_addr(d)
    <2>1. PICK d \in used : vaddr[d] = u /\ table[0][u] = block_id_to_addr(d)
      BY <1>8, MapFacts DEF TableInv
    <2> QED
      BY <1>8, <2>1
  <1>9. TableInv'
    <2>1. ASSUME NEW d \in used'
          PROVE  /\ vaddr'[d] \in Page /\ original_addr'[d] = vaddr'[d] /\ table'[0][vaddr'[d]] # NoPage
                 /\ vaddr'[d] \in overtaken \/ table'[0][vaddr'[d]] = block_id_to_addr(d)
      <3>1. CASE d = b
        BY <1>1, <1>6, <1>7, <3>1, MapFacts
      <3>2. CASE d # b
        <4>1. /\ d \in used /\ d \in Block /\ vaddr'[d] = vaddr[d] /\ original_addr'[d] = vaddr[d] /\ vaddr[d] \in Page
              /\ table[0][vaddr[d]] # NoPage
              /\ vaddr[d] \in overtaken \/ table[0][vaddr[d]] = block_id_to_addr(d)
          BY <1>1, <1>7, <2>1, <3>2, PageFacts, MapTypes DEF TableInv
        <4>2. table'[0][vaddr[d]] # NoPage
          BY <1>1, <1>6, <4>1, MapFacts
        <4>3. ASSUME vaddr[d] \notin overtaken PROVE table'[0][vaddr[d]] = block_id_to_addr(d)
          <5>1. table[0][vaddr[d]] = block_id_to_addr(d) /\ is_dram_address(block_id_to_addr(d))
            BY <4>1, <4>3, MapFacts
          <5>2. vaddr[d] # v
            BY <1>1, <1>4, <4>3, <5>1, MapFacts
          <5>3. ~(b \in used /\ vaddr[d] = w)
            <6> SUFFICES ASSUME b \in used, vaddr[d] = w PROVE FALSE
              OBVIOUS
            <6>1. block_id_to_addr(d) = block_id_to_addr(b)
              BY <1>3, <4>3, <5>1
            <6> QED
              BY <1>1, <3>2, <4>1, <6>1, MapFacts
          <5> QED
            BY <1>6, <4>1, <5>1, <5>2, <5>3
        <4> QED
          BY <4>1, <4>2, <4>3
      <3> QED
        BY <3>1, <3>2
    <2>2. ASSUME NEW u \in Page, table'[0][u] # NoPage, table'[0][u] # u
          PROVE  \E d \in used' : vaddr'[d] = u /\ table'[0][u] = block_id_to_addr(d)
      <3>1. CASE u = v
        BY <1>1, <1>6, <1>7, <3>1
      <3>2. CASE u # v
        <4>1. table'[0][u] = table[0][u] /\ ~(b \in used /\ u = w)
          BY <1>6, <2>2, <3>2
        <4>2. PICK d \in used : d # b /\ vaddr[d] = u /\ table[0][u] = block_id_to_addr(d)
          BY <1>8, <2>2, <3>2, <4>1
        <4> QED
          BY <1>1, <1>7, <4>1, <4>2
      <3> QED
        BY <3>1, <3>2
    <2>3. \A u \in Page : Frame(0, u) = u
      BY MapFacts
    <2>4. overtaken' = overtaken
      BY <1>1
    <2> QED
      BY <2>1, <2>2, <2>3, <2>4 DEF TableInv, block_id_to_addr, Frame, high_addr, NoPage
  <1>10. \A u \in Page : table[0][u] # NoPage => table'[0][u] # NoPage
    BY <1>1, <1>6, MapFacts
  <1>11. TlbInv'
    <2> SUFFICES ASSUME NEW c \in Core, NEW u \in Page, tlb[c][u] # NoEntry
                 PROVE  /\ table'[0][u] # NoPage /\ PlaceOf(u, tlb[c][u].ppn)
                        /\ u \notin overtaken =>
                              /\ tlb[c][u].ppn \in Whereabouts(0, u)'
                              /\ tlb[c][u].in_dram = is_dram_address(tlb[c][u].ppn)
                              /\ tlb[c][u].in_dram /\ tlb[c][u].dirty => Marked(c, u)'
      BY <1>1 DEF TlbInv, PlaceOf, Frame, NoEntry, NoPage, is_dram_address, high_addr
    <2>1. table'[0][u] # NoPage /\ PlaceOf(u, tlb[c][u].ppn)
      BY <1>10 DEF TlbInv
    <2> SUFFICES ASSUME u \notin overtaken
                 PROVE  /\ tlb[c][u].ppn \in Whereabouts(0, u)'
                        /\ tlb[c][u].in_dram = is_dram_address(tlb[c][u].ppn)
                        /\ tlb[c][u].in_dram /\ tlb[c][u].dirty => Marked(c, u)'
      BY <2>1
    <2>2. /\ tlb[c][u].ppn \in Whereabouts(0, u)
          /\ tlb[c][u].in_dram = is_dram_address(tlb[c][u].ppn)
          /\ tlb[c][u].in_dram /\ tlb[c][u].dirty => Marked(c, u)
      BY DEF TlbInv
    <2>3. Whereabouts(0, u)' = IF u = v THEN {v, block_id_to_addr(b)} ELSE {table'[0][u]}
      <3>1. original_addr'[b] = v
        BY <1>1, <1>7
      <3> QED
        BY <1>2, <3>1 DEF Whereabouts, block_id_to_addr, high_addr
    <2>4. CASE u = v
      <3>1. tlb[c][u].ppn = v
        BY <1>1, <1>4, <1>5, <2>2, <2>4, WhereaboutsFacts
      <3> QED
        BY <1>1, <2>2, <2>3, <2>4, <3>1, MapFacts
    <2>5. CASE u # v /\ b \in used /\ u = w
      <3>1. tlb[c][u].ppn = w
        BY <1>1, <1>3, <2>2, <2>5, WhereaboutsFacts
      <3> QED
        BY <1>6, <2>2, <2>3, <2>5, <3>1, MapFacts
    <2>6. CASE u # v /\ ~(b \in used /\ u = w)
      <3>1. tlb[c][u].ppn = table[0][u] /\ table'[0][u] = table[0][u]
        BY <1>1, <1>6, <2>2, <2>6, WhereaboutsFacts
      <3>2. ASSUME tlb[c][u].in_dram, tlb[c][u].dirty PROVE Marked(c, u)'
        <4>1. is_dram_address(table[0][u])
          BY <2>2, <3>1, <3>2
        <4>2. PICK d \in used : d # b /\ table[0][u] = block_id_to_addr(d)
          BY <1>8, <2>6, <4>1, MapFacts
        <4>3. dram_addr_to_block_id(tlb[c][u].ppn) = d
          BY <3>1, <4>2, MapFacts, MapTypes
        <4> QED
          BY <1>1, <1>2, <2>2, <3>2, <4>2, <4>3 DEF Marked, dram_addr_to_block_id, high_addr
      <3> QED
        BY <2>2, <2>3, <2>6, <3>1, <3>2
    <2> QED
      BY <2>4, <2>5, <2>6
  <1>12. AccessInv'
    BY <1>1, <1>10, MapTypes DEF AccessInv, PlaceOf, Frame, NoPage, NoWalk, NoEntry, is_dram_address, high_addr
  <1>13. MoveInv'
    <2>1. table'[0][v] = block_id_to_addr(b) /\ vaddr'[b] = v /\ b \in used'
      BY <1>1, <1>6, <1>7
    <2> QED
      BY <1>2, <2>1 DEF MoveInv, block_id_to_addr, high_addr
  <1> QED
    BY <1>9, <1>11, <1>12, <1>13

(* The last step: the TLBs learn of the block. *)
LEMMA ShootDownInstalledMaps ==
    ASSUME OneProcess, Inv, MapsInv, ShootDownInstalled
    PROVE  MapsInv'
  <1> USE DEF MapsInv
  <1> DEFINE b == fault.block
             v == fault.vpn
             addr == block_id_to_addr(b)
  <1>1. /\ UNCHANGED <<table, walk, writing, overtaken, used, vaddr, original_addr, dirty, clean_pools>>
        /\ fault.at = "shoot" /\ fault' = NoFault /\ v \in Page /\ b \in used /\ b \in Block
        /\ tlb_shootdown_hscc(v, addr) /\ vaddr[b] = v /\ table[0][v] = addr
    BY MapTypes DEF ShootDownInstalled, pools, blocks, MoveInv
  <1>2. fault'.at = "none" /\ fault'.block = NoBlock
    BY <1>1 DEF NoFault
  <1>3. addr \in Ppn /\ is_dram_address(addr) /\ addr # NoPage
    BY <1>1, AddressFacts, MapFacts
  <1>4. \A c \in Core, u \in Page :
            tlb'[c][u] = IF u = v /\ tlb[c][v] # NoEntry THEN Entry(addr) ELSE tlb[c][u]
    <2> HIDE DEF addr
    <2> QED
      BY <1>1, <1>3, ShootdownFacts
  <1>5. Entry(addr) # NoEntry /\ Entry(addr).ppn = addr /\ Entry(addr).in_dram = is_dram_address(addr) /\ ~Entry(addr).dirty
    BY <1>3, EntryFacts
  <1>6. \A u : Whereabouts(0, u)' = {table[0][u]}
    BY <1>1, <1>2 DEF Whereabouts
  <1>7. TlbInv'
    <2> SUFFICES ASSUME NEW c \in Core, NEW u \in Page, tlb'[c][u] # NoEntry
                 PROVE  /\ table[0][u] # NoPage /\ PlaceOf(u, tlb'[c][u].ppn)
                        /\ u \notin overtaken =>
                              /\ tlb'[c][u].ppn \in Whereabouts(0, u)'
                              /\ tlb'[c][u].in_dram = is_dram_address(tlb'[c][u].ppn)
                              /\ tlb'[c][u].in_dram /\ tlb'[c][u].dirty => Marked(c, u)'
      BY <1>1 DEF TlbInv, PlaceOf, Frame, NoEntry, NoPage, is_dram_address, high_addr
    <2>1. CASE u = v
      <3>1. tlb'[c][u] = Entry(addr)
        BY <1>4, <2>1
      <3> QED
        BY <1>1, <1>3, <1>5, <1>6, <2>1, <3>1 DEF PlaceOf
    <2>2. CASE u # v
      <3>1. tlb'[c][u] = tlb[c][u] /\ tlb[c][u] # NoEntry
        BY <1>4, <2>2
      <3>2. u \notin overtaken => tlb[c][u].ppn = table[0][u]
        BY <1>1, <2>2, <3>1, WhereaboutsFacts DEF TlbInv
      <3>3. ASSUME u \notin overtaken, tlb[c][u].in_dram, tlb[c][u].dirty PROVE Marked(c, u)'
        <4>1. Marked(c, u) /\ is_dram_address(table[0][u])
          BY <3>1, <3>2, <3>3 DEF TlbInv
        <4>2. dram_addr_to_block_id(tlb[c][u].ppn) # b
          BY <1>1, <2>2, <3>2, <3>3, <4>1, PageFacts
        <4> QED
          BY <1>1, <3>1, <4>1, <4>2 DEF Marked
      <3> QED
        BY <1>6, <3>1, <3>2, <3>3 DEF TlbInv
    <2> QED
      BY <2>1, <2>2
  <1>8. AccessInv'
    BY <1>1, <1>4, <1>5, MapTypes DEF AccessInv
  <1>9. MoveInv'
    BY <1>1, <1>2 DEF MoveInv, NoFault
  <1>10. TableInv'
    BY <1>1 DEF TableInv
  <1> QED
    BY <1>7, <1>8, <1>9, <1>10

(* At the start nothing is mapped. *)
LEMMA InitMaps == ASSUME OneProcess, Init, Inv PROVE MapsInv
  <1>1. /\ \A v \in Page : table[0][v] = NoPage
        /\ \A c \in Core, v \in Page : tlb[c][v] = NoEntry
        /\ \A c \in Core : walk[c] = NoWalk /\ writing[c].at = "none"
        /\ used = {} /\ fault = NoFault
    BY MapFacts DEF Init, NotWriting
  <1> QED
    BY <1>1 DEF MapsInv, TableInv, TlbInv, AccessInv, MoveInv, NoFault

(* No step breaks what is known of the maps. *)
LEMMA NextMaps == ASSUME OneProcess PROVE Inv /\ MapsInv /\ [Next]_vars => MapsInv'
  <1> SUFFICES ASSUME Inv, MapsInv, [Next]_vars PROVE MapsInv'
    OBVIOUS
  <1>1. CASE UNCHANGED vars
    BY <1>1 DEF vars, blocks, pools, MapsInv, TableInv, TlbInv, Marked, Whereabouts, AccessInv, MoveInv
  <1>2. CASE Next
    BY <1>2, WalkTableMaps, WriteHitMaps, DramFaultMaps, InsertMaps, SetDirtyMaps, WriteThroughMaps,
       ConvertToDirtyMaps, ContextSwitchMaps, SetPagingMaps, ReclaimMaps, AllocateMaps, ShootDownEvictedMaps,
       MapBlockMaps, ShootDownInstalledMaps DEF Next
  <1> QED
    BY <1>1, <1>2

(* It implies the property. *)
LEMMA MapsAreInAgreement == ASSUME OneProcess PROVE Inv /\ MapsInv => MappingsAgree
  <1> SUFFICES ASSUME Inv, MapsInv PROVE MappingsAgree
    OBVIOUS
  <1> USE DEF MapsInv
  <1>1. ASSUME NEW c \in Core, NEW v \in Page \ overtaken, tlb[c][v] # NoEntry
        PROVE  /\ tlb[c][v].ppn \in Whereabouts(running[c], v)
               /\ tlb[c][v].in_dram = is_dram_address(tlb[c][v].ppn)
    BY <1>1, MapFacts DEF TlbInv
  <1>2. ASSUME NEW p \in Process, NEW v \in Page, is_dram_address(table[p][v])
        PROVE  LET b == dram_addr_to_block_id(table[p][v]) IN
               b \in used /\ vaddr[b] = v /\ original_addr[b] = Frame(p, v)
    BY <1>2, MapFacts, PageFacts
  <1>3. ASSUME NEW b \in used
        PROVE  vaddr[b] \in overtaken \/ \E p \in Process : table[p][vaddr[b]] = block_id_to_addr(b)
    BY MapFacts DEF TableInv
  <1>4. ASSUME NEW c \in Core, NEW v \in Page \ overtaken, tlb[c][v].in_dram /\ tlb[c][v].dirty
        PROVE  LET b == dram_addr_to_block_id(tlb[c][v].ppn) IN
               /\ b \in dirty \/ writing[c] = [at |-> "through", vpn |-> v]
               /\ b \notin clean_pools[running[c]] \/ b = fault.block \/ writing[c].vpn = v
    <2>1. tlb[c][v] # NoEntry
      BY <1>4, EntryFacts
    <2> QED
      BY <1>4, <2>1, MapFacts DEF TlbInv, Marked
  <1> QED
    BY <1>1, <1>2, <1>3, <1>4 DEF MappingsAgree

-----------------------------------------------------------------------------
(***************************************************************************)
(* What the allocator and the tables promise, kept for all processes,      *)
(* cores, pages and blocks.                                                *)
(***************************************************************************)
THEOREM Invariance == Spec => []Inv
  BY InitInv, NextInv, PTL DEF Spec

(***************************************************************************)
(* Every table, TLB entry, pool and block record stays in its range: block *)
(* numbers, physical and virtual pages of tables, TLBs, pools and faults.  *)
(***************************************************************************)
THEOREM TypeCorrect == Spec => []TypeOK
  <1>1. Inv => TypeOK
    BY DEF Inv, StoreInv
  <1> QED
    BY <1>1, Invariance, PTL

(***************************************************************************)
(* Every block is in one pool, the count of busy blocks is exact, a        *)
(* reclaim asks of no process more than it has, and allocate_one_page()    *)
(* finds a block (the assertions of FairAllocator.cpp).                    *)
(***************************************************************************)
THEOREM PoolsAlwaysExact == Spec => []PoolsExact
  BY Invariance, InvImpliesPoolsExact, PTL

(***************************************************************************)
(* Whatever cores do while a page is moved in and another one out, misses  *)
(* and first writes in the middle of a move included: TLB entries lead     *)
(* where the table does or a shootdown to come will put them right, but    *)
(* for pages of which a miss was overtaken by a move; the table leads to a *)
(* block only if the block holds the page; and no write to a block is      *)
(* forgotten (do_dram_page_fault(), convert_to_dirty(), the shootdowns).   *)
(***************************************************************************)
THEOREM MappingsAlwaysAgree ==
    ASSUME OneProcess
    PROVE  Spec => []MappingsAgree
  <1>1. Init => Inv /\ MapsInv
    BY InitInv, InitMaps
  <1>2. Inv /\ MapsInv /\ [Next]_vars => (Inv /\ MapsInv)'
    BY NextInv, NextMaps
  <1>3. Inv /\ MapsInv => MappingsAgree
    BY MapsAreInAgreement
  <1> QED
    BY <1>1, <1>2, <1>3, PTL DEF Spec
=============================================================================
