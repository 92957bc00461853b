--------------------------------- MODULE Twl ---------------------------------
(***************************************************************************)
(* The toss-up wear leveling of twl.cpp, the scheme the repository         *)
(* compares CLIMBER with.                                                  *)
(*                                                                         *)
(* Pages are paired by endurance: the weakest with the strongest, and so   *)
(* on.  Every swapthreshold writes of a page a toss decides, by the lives  *)
(* the two pages of its pair have left, on which of them the written data  *)
(* goes (the toss-up, isswap).  Every interinterval writes of an address   *)
(* it moves to the place of a random other one (the inter-pair swap,       *)
(* intermaptable and reversemaptable).                                     *)
(*                                                                         *)
(* The code reaches pages through sortedlist and pairlist, which never     *)
(* change.  Here pages, and the addresses they are named by, are numbered  *)
(* by endurance: page p is sortedlist[p].addr, and pairlist[page p] is p.  *)
(***************************************************************************)
EXTENDS Integers, FiniteSets, Functions

CONSTANTS
    maxpagenums,     \* how many pages there are
    interinterval,   \* the writes of an address between inter-pair swaps
    swapthreshold,   \* the writes of a page between tosses
    lifelist2,       \* the endurance of each page, weakest first
    endnums          \* the driver makes fewer than endnums accesses

Page == 0 .. maxpagenums - 1

Pair == 0 .. (maxpagenums \div 2) - 1

ASSUME SizeAssumption ==
    /\ maxpagenums \in Nat \ {0} /\ maxpagenums % 2 = 0
    /\ interinterval \in Nat \ {0} /\ swapthreshold \in Nat \ {0}
    /\ endnums \in Nat \ {0}

ASSUME EnduranceAssumption ==
    /\ lifelist2 \in [Page -> Nat]
    /\ \A p, q \in Page : p <= q => lifelist2[p] <= lifelist2[q]

VARIABLES
    life,              \* page -> its remaining life (lifelist)
    intermaptable,     \* address -> slot: the page it is on, or its partner
    reversemaptable,   \* slot -> address
    isswap,            \* pair -> its two slots are on each other's page
    interswapcount,    \* address -> its writes since its last inter-pair swap
    swapvisitcount,    \* page -> its writes since its pair's last toss
    interswaptimes,    \* all inter-pair swaps so far
    swaptimes,         \* all exchanges of a pair so far
    totaltime,         \* calls of access() so far
    worn               \* access() has returned -1

maps == <<intermaptable, reversemaptable>>
counts == <<interswapcount, swapvisitcount>>
vars == <<life, maps, isswap, counts, interswaptimes, swaptimes, totaltime, worn>>

Init ==
    /\ life = lifelist2
    /\ intermaptable = [a \in Page |-> a]
    /\ reversemaptable = [s \in Page |-> s]
    /\ isswap = [d \in Pair |-> FALSE]
    /\ interswapcount = [a \in Page |-> 0]
    /\ swapvisitcount = [p \in Page |-> 0]
    /\ interswaptimes = 0
    /\ swaptimes = 0
    /\ totaltime = 0
    /\ worn = FALSE

-----------------------------------------------------------------------------
(* Pairs. *)

Opposite(p) == maxpagenums - 1 - p

(* sourceaddr: the slot is in the stronger half. *)
Strong(s) == s >= maxpagenums \div 2

PairOf(s) == IF Strong(s) THEN Opposite(s) ELSE s

(* The page under slot s. *)
PageAt(s) == IF isswap[PairOf(s)] THEN Opposite(s) ELSE s

PageOf(a) == PageAt(intermaptable[a])

(* Faulty variant: a page without life stays at 0 instead of falling below. *)
ChargedToZero(l, p) == [l EXCEPT ![p] = IF @ > 0 THEN @ - 1 ELSE 0]

Charged(l, p) == [l EXCEPT ![p] = @ - 1]

-----------------------------------------------------------------------------
(* getpairaddr() *)

(***************************************************************************)
(* The page charged for the data that an inter-pair swap moves into slot   *)
(* s.  For a weak slot it is the page under it, for a strong slot the      *)
(* partner of that page.                                                   *)
(***************************************************************************)
VacatedPage(s) == IF Strong(s) = isswap[PairOf(s)] THEN s ELSE Opposite(s)

(* Faulty variant: the swap moves one address and forgets the other. *)
ExchangeSlotsOneWay(a, s) ==
    /\ intermaptable' = [intermaptable EXCEPT ![a] = s]
    /\ reversemaptable' = [reversemaptable EXCEPT ![s] = a]

(* Address a takes slot s, whoever is there takes the slot of a. *)
ExchangeSlots(a, s) ==
    LET b == reversemaptable[s]
        t == intermaptable[a]
    IN  /\ intermaptable' = [intermaptable EXCEPT ![a] = s, ![b] = t]
        /\ reversemaptable' = [reversemaptable EXCEPT ![t] = b, ![s] = a]

(* l is the life of the pages when getpairaddr() returns. *)
KeepSlot(a, l) ==
    /\ interswapcount[a] + 1 < interinterval
    /\ interswapcount' = [interswapcount EXCEPT ![a] = @ + 1]
    /\ l = life
    /\ UNCHANGED <<maps, interswaptimes>>

(* Faulty variant: the move of the other address costs nothing. *)
InterPairSwapUncharged(a, l) ==
    /\ interswapcount[a] + 1 >= interinterval
    /\ l = life
    /\ \E s \in Page \ {intermaptable[a]} :
          /\ interswapcount' = [interswapcount EXCEPT ![a] = 0, ![reversemaptable[s]] = 0]
          /\ ExchangeSlots(a, s)
    /\ interswaptimes' = interswaptimes + 1

InterPairSwap(a, l) ==
    /\ interswapcount[a] + 1 >= interinterval
    /\ l = Charged(life, VacatedPage(intermaptable[a]))
    /\ \E s \in Page \ {intermaptable[a]} :
          /\ interswapcount' = [interswapcount EXCEPT ![a] = 0, ![reversemaptable[s]] = 0]
          /\ ExchangeSlots(a, s)
    /\ interswaptimes' = interswaptimes + 1

-----------------------------------------------------------------------------
(* access(): the write, in slot s, when the pages' lives are l.             *)

(***************************************************************************)
(* swaparbiter(): toss >= life1 / (life1 + life2), where toss is in        *)
(* thousandths, life1 may be below 0 and the sum may be 0.                 *)
(***************************************************************************)
swaparbiter(toss, life1, life2) ==
    LET sum == life1 + life2
    IN  \/ sum > 0 /\ toss * sum >= 1000 * life1
        \/ sum < 0 /\ toss * sum <= 1000 * life1
        \/ sum = 0 /\ life1 < 0

(* rand() % 1000 is any number below 1000; the extremes give every outcome. *)
Tosses == {0, 999}

(* Faulty variant: the arbiter compares with the life of the partner. *)
TossedToPartner(s, l, toss) == swaparbiter(toss, l[Opposite(s)], l[s])

(* The toss takes the data of slot s to the page opposite to s. *)
TossedOver(s, l, toss) == swaparbiter(toss, l[s], l[Opposite(s)])

(* Both pages of a pair pay when their data change places. *)
ChargedBoth(l, p) == Charged(Charged(l, p), Opposite(p))

(* Faulty variant: access() starts with a clean status. *)
WornForgotten(l) == FALSE

(* getpairaddr() found a page without life. *)
WornAlready(l) == \E p \in Page : l[p] < life[p] /\ l[p] < 0

Write(s, l) ==
    LET p == PageAt(s)
    IN  /\ swapvisitcount[p] + 1 < swapthreshold
        /\ swapvisitcount' = [swapvisitcount EXCEPT ![p] = @ + 1]
        /\ life' = Charged(l, p)
        /\ worn' = (WornAlready(l) \/ life'[p] < 0)
        /\ UNCHANGED <<isswap, swaptimes>>

(* swapvisitcount is reset for both pages of a pair. *)
TossDue(s) ==
    LET p == PageAt(s)
    IN  /\ swapvisitcount[p] + 1 >= swapthreshold
        /\ swapvisitcount' = [swapvisitcount EXCEPT ![p] = 0, ![Opposite(p)] = 0]

(* The toss leaves the pair as it is. *)
TossKeeps(s, l) ==
    LET p == PageAt(s)
    IN  /\ TossDue(s)
        /\ \E toss \in Tosses : TossedOver(s, l, toss) = isswap[PairOf(s)]
        /\ life' = Charged(l, p)
        /\ worn' = (WornAlready(l) \/ life'[p] < 0)
        /\ UNCHANGED <<isswap, swaptimes>>

(***************************************************************************)
(* The toss exchanges the data of the pair.  Only the stronger page is     *)
(* looked at for wear, and the status getpairaddr() left is overwritten.   *)
(***************************************************************************)
TossSwaps(s, l) ==
    LET p == PairOf(s)
    IN  /\ TossDue(s)
        /\ \E toss \in Tosses : TossedOver(s, l, toss) # isswap[p]
        /\ isswap' = [isswap EXCEPT ![p] = ~@]
        /\ life' = ChargedBoth(l, p)
        /\ worn' = (life'[Opposite(p)] < 0)
        /\ swaptimes' = swaptimes + 1

-----------------------------------------------------------------------------
(* The driver calls access() until that returns -1 or it has asked for     *)
(* endnums addresses.  It only writes.                                     *)

access(a) ==
    /\ ~worn /\ totaltime < endnums - 1
    /\ totaltime' = totaltime + 1
    /\ \E l \in {life, Charged(life, VacatedPage(intermaptable[a]))} :
          /\ KeepSlot(a, l) \/ InterPairSwap(a, l)
          /\ \/ Write(intermaptable'[a], l)
             \/ TossKeeps(intermaptable'[a], l)
             \/ TossSwaps(intermaptable'[a], l)

Stopped ==
    /\ worn \/ totaltime = endnums - 1
    /\ UNCHANGED vars

Next == Stopped \/ \E a \in Page : access(a)

Spec == Init /\ [][Next]_vars

(* The driver calls access() again until it returns -1. *)
FairSpec == Spec /\ WF_vars(Next)

-----------------------------------------------------------------------------
(* The types and ranges of the state; a count never stays at its limit. *)
TypeOK ==
    /\ life \in [Page -> Int]
    /\ intermaptable \in [Page -> Page]
    /\ reversemaptable \in [Page -> Page]
    /\ isswap \in [Pair -> BOOLEAN]
    /\ interswapcount \in [Page -> 0 .. interinterval - 1]
    /\ swapvisitcount \in [Page -> 0 .. swapthreshold - 1]
    /\ interswaptimes \in Nat /\ swaptimes \in Nat /\ totaltime \in Nat
    /\ worn \in BOOLEAN

(***************************************************************************)
(* intermaptable and reversemaptable are inverse to each other, so every   *)
(* address has a slot of its own.  An inter-pair swap writes two entries   *)
(* of each table, and reads one of them after another was written.         *)
(***************************************************************************)
MapsAreInverse ==
    /\ \A a \in Page : reversemaptable[intermaptable[a]] = a
    /\ \A s \in Page : intermaptable[reversemaptable[s]] = s

(***************************************************************************)
(* An access charges the page that holds the written address when it       *)
(* returns, through an inter-pair swap, a toss, or both in one access.     *)
(***************************************************************************)
WrittenPageCharged ==
    [][ \A a \in Page : access(a) => life'[PageOf(a)'] < life[PageOf(a)'] ]_vars

(***************************************************************************)
(* Data never move for free: when an address comes to another page, that   *)
(* page or the other page of its pair is charged in the same access.  (An  *)
(* inter-pair swap charges the other one when the vacated slot is strong.) *)
(***************************************************************************)
MovesAreCharged ==
    [][ \A x \in Page : PageOf(x)' # PageOf(x) =>
            \E p \in {PageOf(x)', Opposite(PageOf(x)')} : life'[p] < life[p] ]_vars

(***************************************************************************)
(* A toss does not wear out a page while the other page of the pair could  *)
(* have taken the write.  (It may spend a page that is already worn: with  *)
(* the sum of the two lives below 0 the arbiter's quotient changes sign.)  *)
(***************************************************************************)
TossSparesWeakPages ==
    [][ \A a \in Page :
          LET p == PageOf(a)'
          IN  access(a) /\ swapvisitcount'[p] = 0 /\ life[p] >= 0 /\ life'[p] < 0
                  => life'[Opposite(p)] <= 0 ]_vars

(***************************************************************************)
(* A page can wear out without ending the run only in an access whose toss *)
(* exchanges a pair.                                                       *)
(***************************************************************************)
OnlySwapsHideWear ==
    [][ (\E p \in Page : life[p] >= 0 /\ life'[p] < 0) /\ ~worn'
            => swaptimes' > swaptimes ]_vars

(***************************************************************************)
(* The memory wears out: as long as the driver keeps writing, some access  *)
(* returns -1, although an exchange may hide a page that is worn.          *)
(***************************************************************************)
WearsOut == <>worn
=============================================================================
