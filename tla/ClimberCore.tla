----------------------------- MODULE ClimberCore -----------------------------
(***************************************************************************)
(* The part that the two CLIMBER schemes of this repository share: the     *)
(* hot-count scheme (hcmm_climber.cpp) and the bloom-filter scheme         *)
(* (bwlmm_climber.cpp).  Both keep a permutation of the memory pages that  *)
(* maps logical addresses to physical pages, both order the physical pages *)
(* by remaining life, and both move a written address "up" that order,     *)
(* into the region named by climberpoint, when its write count reaches a   *)
(* multiple of the threshold of the page it sits on.                       *)
(*                                                                         *)
(* Pages, logical addresses and ranks (positions in the life order) are    *)
(* all numbered 0 .. maxpagenums - 1.                                      *)
(***************************************************************************)
EXTENDS Integers, FiniteSets

CONSTANTS
    regions,          \* how many regions the life order is cut into
    regionsize,       \* 1 << climbershift, the ranks of one region
    lifelist2,        \* the endurance of every physical page (whole writes)
    climbethreshold,  \* the climb threshold of the weakest page
    remapthreshold,   \* accesses in a cycle before the global remap
    cyclethreshold,   \* accesses after which the cycle starts over
    endnums,          \* the driver makes fewer than endnums accesses
    ClimbModes,       \* the values of climberenable a scheme is built with
    randomenable,     \* scramble the weak half of the ranks in a remap
    Xor(_, _),        \* the C++ operator ^ on ranks
    Orders,           \* the orders std::sort can list the pages in
    Requests          \* the logical addresses the workload writes

maxpagenums == regions * regionsize

Page == 0 .. maxpagenums - 1

(***************************************************************************)
(* The ranks a remap may scramble: whole regions of the weaker half.       *)
(***************************************************************************)
ScrambledRanks ==
    0 .. (((maxpagenums \div 2) \div regionsize) * regionsize) - 1

ASSUME GeometryAssumption ==
    /\ regions \in Nat /\ regions >= 2
    /\ regionsize \in Nat /\ regionsize >= 2

ASSUME EnduranceAssumption ==
    /\ lifelist2 \in [Page -> Nat \ {0}]
    /\ climbethreshold \in Nat \ {0}

ASSUME CadenceAssumption ==
    /\ remapthreshold \in Nat \ {0}
    /\ cyclethreshold \in Nat /\ cyclethreshold > remapthreshold
    /\ endnums \in Nat \ {0}
    /\ ClimbModes \subseteq 0 .. 2
    /\ randomenable \in BOOLEAN

(***************************************************************************)
(* XOR with a key below regionsize changes only the low bits of a rank: it *)
(* stays inside its region, and applying the key twice gives the rank back.*)
(***************************************************************************)
ASSUME XorAssumption ==
    \A rank \in ScrambledRanks, key \in 0 .. regionsize - 1 :
        /\ Xor(rank, key) \in ScrambledRanks
        /\ Xor(rank, key) \div regionsize = rank \div regionsize
        /\ Xor(Xor(rank, key), key) = rank

(***************************************************************************)
(* An order lists every page exactly once.  std::sort is free to list      *)
(* pages with equal keys either way, so the model takes any of them.       *)
(***************************************************************************)
ASSUME OrdersAssumption ==
    \A s \in Orders :
        /\ s \in [Page -> Page]
        /\ \A p \in Page : \E i \in Page : s[i] = p
        /\ \A i, j \in Page : s[i] = s[j] => i = j

ASSUME RequestsAssumption == Requests \subseteq Page

VARIABLES
    climberenable, \* 0: no climbing, 1: climb and remap, 2: climb only
    lifelist,      \* remaining life of each physical page
    maplist,       \* logical address -> physical page
    reverselist,   \* physical page -> logical address
    sortednow,     \* rank -> physical page, as of the last remap
    climbla2hot,   \* logical address -> rank
    climberpoint,  \* the region addresses climb towards
    totalcount,    \* accesses of the current cycle
    totaltime,     \* calls of access() so far
    pc,            \* where the call of access() is: between calls "ready"
    addr_temp,     \* the address being written
    host,          \* doswap's addr: the page that took the write
    mapindex,      \* doswap: how many addresses it has placed
    randomkey      \* doswap: the key of this remap

tables  == <<maplist, reverselist, climbla2hot>>
locals  == <<host, mapindex, randomkey>>
coreVars == <<climberenable, lifelist, maplist, reverselist, sortednow,
              climbla2hot, climberpoint, totalcount, totaltime, pc, addr_temp,
              host, mapindex, randomkey>>

-----------------------------------------------------------------------------
(* Geometry and thresholds. *)

RegionOf(rank) == rank \div regionsize

TopRegion == (maxpagenums - 1) \div regionsize

LowestPoint == (maxpagenums \div 2) \div regionsize

minlifetime == CHOOSE m \in {lifelist2[p] : p \in Page} :
                   \A p \in Page : m <= lifelist2[p]

climberlocthre(p) == (climbethreshold * lifelist2[p]) \div minlifetime

IsAscending(s, key) == \A i \in Page \ {0} : key[s[i - 1]] <= key[s[i]]

AscendingOrders(key) == {s \in Orders : IsAscending(s, key)}

Identity == [p \in Page |-> p]

Ranking(s) == [p \in Page |-> CHOOSE i \in Page : s[i] = p]

-----------------------------------------------------------------------------
(* The state the constructors leave: identity maps, full life, the life    *)
(* order sorted by endurance, and climberpoint at the top region.          *)

CoreInit ==
    /\ climberenable \in ClimbModes
    /\ lifelist = lifelist2
    /\ maplist = Identity
    /\ reverselist = Identity
    /\ sortednow \in AscendingOrders(lifelist2)
    /\ climbla2hot = Ranking(sortednow)
    /\ climberpoint = TopRegion
    /\ totalcount = 0
    /\ totaltime = 0
    /\ pc = "ready"
    /\ addr_temp = 0
    /\ host = 0
    /\ mapindex = 0
    /\ randomkey = 0

-----------------------------------------------------------------------------
(* climber(): the local move. *)

(* The first rank after the region climberpoint names. *)
MaxUp == IF climberpoint = TopRegion
         THEN maxpagenums
         ELSE (climberpoint + 1) * regionsize

(* How many ranks getrandom() may pick in a target region. *)
RandomMax(region) == IF region = climberpoint
                     THEN MaxUp - region * regionsize
                     ELSE regionsize

(* The regions an address outside climberpoint's region may be sent to. *)
TargetRegions(area) == IF area > climberpoint
                       THEN {climberpoint}
                       ELSE area + 1 .. climberpoint

(* From climberpoint's own region: another rank of it, counted round it.   *)
OwnRegionRanks(hot) ==
    {((hot + k) % regionsize) + (MaxUp - regionsize) : k \in 1 .. regionsize - 1}

(* Every rank climber() can pick for address l, over all outcomes of rand(). *)
TargetRanks(l) ==
    LET hot  == climbla2hot[l]
        area == RegionOf(hot)
    IN  IF area = climberpoint
        THEN OwnRegionRanks(hot)
        ELSE UNION {{region * regionsize + k : k \in 0 .. RandomMax(region) - 1} :
                        region \in TargetRegions(area)}

(* Page p has a larger share of its endurance left than page q. *)
LessWorn(p, q) == lifelist[p] * lifelist2[q] > lifelist[q] * lifelist2[p]

(* paced is the number of writes held against the threshold of l's page. *)
Triggered(l, paced) ==
    /\ climberenable >= 1
    /\ paced % climberlocthre(maplist[l]) = 0

(* The counts of the two addresses and the wear of their pages disagree. *)
WorthSwapping(l, target, counterv, targetcount) ==
    \/ LessWorn(target, maplist[l]) /\ targetcount <= counterv
    \/ LessWorn(maplist[l], target) /\ targetcount > counterv

(***************************************************************************)
(* One page is charged for the data it receives.  A charge that takes the  *)
(* life below zero ends the run: access() returns -1.                      *)
(***************************************************************************)
Charge(p) == lifelist' = [lifelist EXCEPT ![p] = @ - 1]

Survives(p) == lifelist[p] > 0

NoClimb == UNCHANGED <<lifelist, tables>> /\ pc' = "write"

(* Faulty variant: only the climbing address gets its new rank. *)
ExchangeOneRank(l, tarla) ==
    climbla2hot' = [climbla2hot EXCEPT ![l] = climbla2hot[tarla]]

(* Two addresses exchange their ranks. *)
ExchangeRanks(l, tarla) ==
    climbla2hot' = [climbla2hot EXCEPT ![l] = climbla2hot[tarla],
                                       ![tarla] = climbla2hot[l]]

Exchange(l, target) ==
    LET page == maplist[l]
        tarla == reverselist[target]
    IN  /\ Charge(page)
        /\ IF Survives(page)
           THEN /\ reverselist' = [reverselist EXCEPT ![target] = l, ![page] = tarla]
                /\ maplist' = [maplist EXCEPT ![l] = target, ![tarla] = page]
                /\ ExchangeRanks(l, tarla)
                /\ pc' = "write"
           ELSE UNCHANGED tables /\ pc' = "worn"

(***************************************************************************)
(* climber(l, counterv), where counts are the write counts it compares.    *)
(* hcmm_climber.cpp holds counterv against the threshold, bwlmm_climber.cpp*)
(* a quarter of it.                                                        *)
(***************************************************************************)
Climber(l, paced, counterv, counts) ==
    IF Triggered(l, paced)
    THEN \E rank \in TargetRanks(l) :
            LET target == sortednow[rank]
            IN  IF WorthSwapping(l, target, counterv, counts[reverselist[target]])
                THEN Exchange(l, target)
                ELSE NoClimb
    ELSE NoClimb

-----------------------------------------------------------------------------
(* The driver: it calls access() until that returns -1 ("worn") or until   *)
(* it has asked for endnums addresses.                                     *)

Driving == pc = "ready" /\ totaltime < endnums - 1

Stopped ==
    /\ pc = "worn" \/ (pc = "ready" /\ totaltime = endnums - 1)
    /\ UNCHANGED coreVars

-----------------------------------------------------------------------------
(* doswap(): the global remap. *)

(* Faulty variant: climberpoint never returns to the top. *)
AdvanceWithoutWrap == climberpoint' = climberpoint - 1

(* climberpoint walks down to the middle of the order and back to the top. *)
AdvancePoint ==
    climberpoint' = IF climberpoint - 1 < LowestPoint
                    THEN TopRegion
                    ELSE climberpoint - 1

(* Faulty variant: the order is walked from the weak end. *)
PlacedRankFromWeakEnd(i) ==
    IF randomenable /\ i \in ScrambledRanks THEN Xor(i, randomkey) ELSE i

(* Faulty variant: the key is added, not xored. *)
PlacedRankAdded(i) ==
    LET rank == maxpagenums - 1 - i
    IN  IF randomenable /\ rank \in ScrambledRanks THEN rank + randomkey ELSE rank

(* The rank that the mapindex-th placed address gets. *)
PlacedRank(i) ==
    LET rank == maxpagenums - 1 - i
    IN  IF randomenable /\ rank \in ScrambledRanks THEN Xor(rank, randomkey) ELSE rank

(* The loop's next index; bwlmm_climber.cpp advances it by hand. *)
NextIndex(i) == i + 1

(* The page that the next placed address moves to. *)
NewPage == sortednow[PlacedRank(mapindex)]

(* access() returns after the last address, or the loop goes on. *)
Continue(last) ==
    IF last
    THEN pc' = "ready" /\ mapindex' = 0 /\ host' = 0 /\ randomkey' = 0
    ELSE pc' = "remap" /\ mapindex' = NextIndex(mapindex) /\ UNCHANGED <<host, randomkey>>

(***************************************************************************)
(* One iteration of the remap loop: address v moves to its new page.  The  *)
(* page it leaves, which another address gets, is charged when that is     *)
(* owed; last says that no address is left to place.                       *)
(***************************************************************************)
Place(v, owed, last) ==
    /\ pc = "remap"
    /\ IF owed THEN Charge(maplist[v]) ELSE UNCHANGED lifelist
    /\ IF owed /\ ~Survives(maplist[v])
       THEN pc' = "worn" /\ UNCHANGED <<tables, locals>>
       ELSE /\ maplist' = [maplist EXCEPT ![v] = NewPage]
            /\ reverselist' = [reverselist EXCEPT ![NewPage] = v]
            /\ climbla2hot' = [climbla2hot EXCEPT ![v] = PlacedRank(mapindex)]
            /\ Continue(last)
    /\ UNCHANGED <<climberenable, sortednow, climberpoint, totalcount, totaltime, addr_temp>>

-----------------------------------------------------------------------------
(* The types and ranges of the state. *)
CoreTypeOK ==
    /\ climberenable \in ClimbModes
    /\ lifelist \in [Page -> Int]
    /\ maplist \in [Page -> Page]
    /\ reverselist \in [Page -> Page]
    /\ sortednow \in Orders
    /\ climbla2hot \in [Page -> Page]
    /\ climberpoint \in LowestPoint .. TopRegion
    /\ totalcount \in 0 .. cyclethreshold
    /\ totaltime \in 0 .. endnums - 1
    /\ pc \in {"ready", "write", "remap", "worn"}
    /\ addr_temp \in Page
    /\ host \in Page
    /\ mapindex \in Page
    /\ randomkey \in 0 .. regionsize - 1

(***************************************************************************)
(* The four tables describe one placement: reverselist undoes maplist, and *)
(* the page at an address's rank is the page the address is on.            *)
(***************************************************************************)
Consistent ==
    /\ \A l \in Page : reverselist[maplist[l]] = l
    /\ \A p \in Page : maplist[reverselist[p]] = p
    /\ \A l \in Page : sortednow[climbla2hot[l]] = maplist[l]

(***************************************************************************)
(* The tables agree whenever access() is called and when it writes.        *)
(* Climbing changes three of them by hand, and the remap overwrites all    *)
(* four, one address at a time, so agreement is at stake in every step.    *)
(***************************************************************************)
TablesAgree == pc \in {"ready", "write"} => Consistent

(* The address the remap loop has put on the i-th page it gave out. *)
PlacedAddress(i) == reverselist[sortednow[PlacedRank(i)]]

(***************************************************************************)
(* The remap loop's invariant: the tables agree about the occupant of each *)
(* page the loop has already given out.                                    *)
(***************************************************************************)
RemapSettles ==
    pc = "remap" => \A i \in 0 .. mapindex - 1 :
                        /\ maplist[PlacedAddress(i)] = sortednow[PlacedRank(i)]
                        /\ climbla2hot[PlacedAddress(i)] = PlacedRank(i)

(***************************************************************************)
(* Every rank climber() can pick is a position of sortednow, and none is   *)
(* the rank of the climbing address itself: a climb always meets another   *)
(* address.  It depends on climberpoint staying between the middle and the *)
(* top region while remaps move it.                                        *)
(***************************************************************************)
CandidatesAreOthers ==
    pc = "ready" =>
        \A l \in Page : TargetRanks(l) \subseteq Page \ {climbla2hot[l]}

(***************************************************************************)
(* No page is written beyond its endurance unnoticed: the run stops at the *)
(* very charge that takes a page below zero, in whichever of the three     *)
(* functions that charge is made, and at no other.                         *)
(***************************************************************************)
StopsAtFirstWornPage ==
    /\ pc = "worn" => \E p \in Page : /\ lifelist[p] = -1
                                      /\ \A q \in Page \ {p} : lifelist[q] >= 0
    /\ pc # "worn" => \A p \in Page : lifelist[p] >= 0
=============================================================================
