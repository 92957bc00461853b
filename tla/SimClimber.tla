----------------------------- MODULE SimClimber -----------------------------
(***************************************************************************)
(* The CLIMBER scheme built into the simulator (zsim-nvmain/src/climber.cpp*)
(* behind climberif2.h).  It differs from the standalone scheme of         *)
(* hcmm_climber.cpp: climberenable is fixed to 2, so there is no remap and *)
(* the life order never changes; counts are kept per address for ever; a   *)
(* climb looks at up to four candidate pages, in the top region, above, in *)
(* the address's own region and below, and takes the least worn one worth  *)
(* swapping with; and nobody looks whether a page is worn out, so a life   *)
(* may fall below zero.                                                    *)
(***************************************************************************)
EXTENDS Integers

CONSTANTS
    regions,          \* regions of the life order
    regionsize,       \* 1 << climbershift
    lifelist2,        \* the endurance of every page
    climbethreshold,  \* the climb threshold of the weakest page
    Requests,         \* the logical addresses the cores access
    MaxCount          \* bound: writes of one address

maxpagenums == regions * regionsize

Page == 0 .. maxpagenums - 1

ASSUME GeometryAssumption ==
    /\ regions \in Nat \ {0}
    /\ regionsize \in Nat /\ regionsize >= 2

ASSUME EnduranceAssumption ==
    /\ lifelist2 \in [Page -> Nat \ {0}]
    /\ climbethreshold \in Nat \ {0}

ASSUME WorkloadAssumption == Requests \subseteq Page /\ MaxCount \in Nat

VARIABLES
    lifelist,     \* remaining life of each page, below zero when overspent
    maplist,      \* logical address -> page
    reverselist,  \* page -> logical address
    sortedlist,   \* rank -> page, by endurance (sortednow holds the same)
    climbla2hot,  \* logical address -> rank
    visitcount    \* writes of each logical address

tables     == <<maplist, reverselist, climbla2hot>>
schemeVars == <<lifelist, maplist, reverselist, sortedlist, climbla2hot, visitcount>>

-----------------------------------------------------------------------------
RegionOf(rank) == rank \div regionsize

TopRegion == (maxpagenums - 1) \div regionsize

minlifetime == CHOOSE m \in {lifelist2[p] : p \in Page} :
                   \A p \in Page : m <= lifelist2[p]

climberlocthre(p) == (climbethreshold * lifelist2[p]) \div minlifetime

Identity == [p \in Page |-> p]

(* The orders std::sort can leave: ascending, equal endurances either way. *)
LifeOrders ==
    {s \in [Page -> Page] :
        /\ \A p \in Page : \E i \in Page : s[i] = p
        /\ \A i, j \in Page : s[i] = s[j] => i = j
        /\ \A i \in Page \ {0} : lifelist2[s[i - 1]] <= lifelist2[s[i]]}

SchemeInit ==
    /\ lifelist = lifelist2
    /\ maplist = Identity
    /\ reverselist = Identity
    /\ sortedlist \in LifeOrders
    /\ climbla2hot = [p \in Page |-> CHOOSE i \in Page : sortedlist[i] = p]
    /\ visitcount = [l \in Page |-> 0]

-----------------------------------------------------------------------------
(* climber(): the candidates, the choice among them, and the exchange.     *)

Offset == 1 .. regionsize - 1

TopPages == {sortedlist[TopRegion * regionsize + k] : k \in Offset}

(* For the regions above and below, the number made of region and offset   *)
(* is used as a page and not looked up in the life order.                  *)
PagesOf(someRegions) == {region * regionsize + k : region \in someRegions, k \in Offset}

OwnPages(hot) ==
    {sortedlist[((hot + k) % regionsize) + RegionOf(hot) * regionsize] : k \in Offset}

(* What each of the four candidates can be, over all outcomes of rand();   *)
(* empty where the scheme has none.                                        *)
Offered(l, kind) ==
    LET hot  == climbla2hot[l]
        area == RegionOf(hot)
    IN  CASE kind = 0 -> TopPages
          [] kind = 1 -> PagesOf(area + 1 .. TopRegion)
          [] kind = 2 -> OwnPages(hot)
          [] kind = 3 -> PagesOf(0 .. area - 1)

Kinds(l) == {kind \in 0 .. 3 : Offered(l, kind) # {}}

(* Page p has a larger share of its endurance left than page q. *)
LessWorn(p, q) == lifelist[p] * lifelist2[q] > lifelist[q] * lifelist2[p]

(* counterv is the count of l with the write in progress. *)
WorthSwapping(l, target, counterv) ==
    LET targetcount == visitcount[reverselist[target]]
    IN  \/ LessWorn(target, maplist[l]) /\ targetcount <= counterv
        \/ LessWorn(maplist[l], target) /\ targetcount > counterv

(***************************************************************************)
(* Of one candidate of every kind, those worth it are compared and the     *)
(* least worn is taken, the first kind of several: target can be taken if  *)
(* every other kind may come up with a page that it prevails over.         *)
(***************************************************************************)
CanClimbTo(l, target, counterv) ==
    /\ WorthSwapping(l, target, counterv)
    /\ \E kind \in Kinds(l) :
          /\ target \in Offered(l, kind)
          /\ \A other \in Kinds(l) \ {kind} : \E page \in Offered(l, other) :
                WorthSwapping(l, page, counterv) =>
                    IF other < kind THEN LessWorn(target, page)
                                    ELSE ~LessWorn(page, target)

(* Every candidate may turn out not to be worth it. *)
CanStay(l, counterv) ==
    \A kind \in Kinds(l) : \E page \in Offered(l, kind) :
        ~WorthSwapping(l, page, counterv)

(* The pages l can be on when climber() returns. *)
Destinations(l, counterv) ==
    IF counterv % climberlocthre(maplist[l]) = 0
    THEN {page \in Page : \/ CanClimbTo(l, page, counterv)
                          \/ page = maplist[l] /\ CanStay(l, counterv)}
    ELSE {maplist[l]}

(* l and the occupant of page target change places, and so do their ranks. *)
Exchange(l, target) ==
    LET tarla == reverselist[target]
    IN  /\ reverselist' = [reverselist EXCEPT ![target] = l, ![maplist[l]] = tarla]
        /\ maplist' = [maplist EXCEPT ![l] = target, ![tarla] = maplist[l]]
        /\ climbla2hot' = [climbla2hot EXCEPT ![l] = climbla2hot[tarla],
                                              ![tarla] = climbla2hot[l]]

(***************************************************************************)
(* access() of a write, which leaves l on page.  A climb charges the page  *)
(* that l leaves, the write the page that l is on then.                    *)
(***************************************************************************)
WriteTo(l, page) ==
    LET counterv == visitcount[l] + 1
    IN  /\ counterv <= MaxCount
        /\ page \in Destinations(l, counterv)
        /\ visitcount' = [visitcount EXCEPT ![l] = counterv]
        /\ lifelist' = [p \in Page |-> IF p \in {maplist[l], page}
                                       THEN lifelist[p] - 1 ELSE lifelist[p]]
        /\ IF page = maplist[l] THEN UNCHANGED tables ELSE Exchange(l, page)
        /\ UNCHANGED sortedlist

(***************************************************************************)
(* The tables describe one placement: maplist and reverselist are inverse, *)
(* and every address has the rank of the page it is on (climber.cpp        *)
(* rewrites the three of them by hand and never rebuilds them).            *)
(***************************************************************************)
TablesAgree ==
    /\ \A l \in Page : reverselist[maplist[l]] = l
    /\ \A p \in Page : maplist[reverselist[p]] = p
    /\ \A l \in Page : sortedlist[climbla2hot[l]] = maplist[l]
=============================================================================
