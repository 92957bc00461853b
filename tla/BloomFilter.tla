----------------------------- MODULE BloomFilter -----------------------------
(***************************************************************************)
(* The bloomfilter class of bwlmm_climber.cpp: an approximate write        *)
(* counter with lists of hot addresses.                                    *)
(*                                                                         *)
(* Addresses come in groups of groupsize.  A write of an address adds one  *)
(* to hashnums counters, in a group picked by the address's hash key; the  *)
(* smallest of them is the address's count.  When all of them reach        *)
(* hotthreshold the address enters the hot lists of its own group.         *)
(*                                                                         *)
(* The three lists of a group are one row of slots here, as addr2hot       *)
(* numbers them: first the list3size slots that newcomers take in turn     *)
(* (list3point), then those of list 2 and list 1, through which an address *)
(* moves up one slot with each write.                                      *)
(***************************************************************************)
EXTENDS Integers, FiniteSets

CONSTANTS
    areasize,      \* how many addresses there are
    groupsize,     \* 1 << groupshift
    hashnums,      \* the counters of one address
    counternums,   \* the counters of one group
    list1size, list2size, list3size,
    hotthreshold,  \* the count that makes an address hot
    hashkey,       \* a random key for each address
    HashXor(_, _)  \* the C++ operator ^ on addresses

groupnums == areasize \div groupsize + 1

hotlistsize == list1size + list2size + list3size

Address == 0 .. areasize - 1

Group == 0 .. groupnums - 1

Slot == 0 .. hotlistsize - 1

Cell == Group \X (0 .. counternums - 1)

Hashed(a) == HashXor(a, hashkey[a])

ASSUME SizeAssumption ==
    /\ areasize \in Nat \ {0} /\ groupsize \in Nat \ {0}
    /\ list1size \in Nat \ {0} /\ list2size \in Nat \ {0} /\ list3size \in Nat \ {0}
    /\ hotthreshold \in Nat \ {0}

(* The area is a power of two, so hashing an address stays inside it. *)
ASSUME HashAssumption ==
    /\ hashnums \in Nat \ {0} /\ counternums \in Nat /\ hashnums <= counternums
    /\ \A a \in Address : Hashed(a) \in Address

VARIABLES
    counter,     \* cell -> writes counted
    hotlist,     \* group -> slot -> the hot address in it
    addr2hot,    \* address -> its slot in its group's lists
    list3point   \* group -> the slot of list 3 the next newcomer takes

bloomVars == <<counter, hotlist, addr2hot, list3point>>

(* What hotlist and addr2hot hold where ishotlist and isaddr2hot are 0. *)
NoAddress == -1
NotHot == -1

GroupOf(a) == a \div groupsize

Hot(a) == addr2hot[a] # NotHot

(* The counters of address a. *)
Cells(a) ==
    {<<Hashed(a) \div groupsize, ((Hashed(a) % groupsize) + i) % counternums>> :
        i \in 0 .. hashnums - 1}

(* getcount(), when the counters are those of c. *)
CountIn(c, a) == CHOOSE n \in {c[x] : x \in Cells(a)} : \A x \in Cells(a) : n <= c[x]

getcount(a) == CountIn(counter, a)

NoCounts == [x \in Cell |-> 0]

EmptyLists == [g \in Group |-> [s \in Slot |-> NoAddress]]

BloomInit ==
    /\ counter = NoCounts
    /\ hotlist = EmptyLists
    /\ addr2hot = [a \in Address |-> NotHot]
    /\ list3point = [g \in Group |-> 0]

-----------------------------------------------------------------------------
(* access(): promotion, counting, and entry into the lists. *)

(* Faulty variant: the counters of a's own group, not of its hashed one. *)
CountedInOwnGroup(a) ==
    [x \in Cell |-> counter[x] +
        IF x[1] = GroupOf(a) /\ <<Hashed(a) \div groupsize, x[2]>> \in Cells(a)
        THEN 1 ELSE 0]

(* The counters after one more write of a. *)
Counted(a) == [x \in Cell |-> counter[x] + IF x \in Cells(a) THEN 1 ELSE 0]

(* Faulty variant: every write takes the address to the top. *)
SlotAtTop(s) == hotlistsize - 1

(* Newcomers in list 3 rise straight to list 2, others by one slot. *)
SlotAbove(s) == IF s < list3size THEN list3size ELSE s + 1

(* Faulty variant: the address that makes room keeps its old index. *)
ReindexOnlyRiser(a, s, t) == addr2hot' = [addr2hot EXCEPT ![a] = t]

(* addr2hot when a rises from slot s to t and the occupant of t sinks.     *)
Reindex(a, s, t) ==
    addr2hot' = [x \in Address |->
                    CASE x = a -> t
                      [] x # a /\ x = hotlist[GroupOf(a)][t] -> s
                      [] OTHER -> addr2hot[x]]

(* A hot address changes places with the occupant of the slot above. *)
Promote(a) ==
    LET g == GroupOf(a)
        s == addr2hot[a]
        t == SlotAbove(s)
    IN  IF s < hotlistsize - 1
        THEN /\ Reindex(a, s, t)
             /\ hotlist' = [hotlist EXCEPT ![g][s] = hotlist[g][t], ![g][t] = a]
        ELSE UNCHANGED <<addr2hot, hotlist>>

(* Faulty variant: newcomers take the slots of all three lists in turn. *)
NextPointAnywhere(p) == (p + 1) % hotlistsize

NextPoint(p) == (p + 1) % list3size

(***************************************************************************)
(* An address that has become hot takes the slot of list 3 whose turn it   *)
(* is, and whoever is in that slot leaves the lists.                       *)
(***************************************************************************)
Insert(a) ==
    LET g == GroupOf(a)
        p == list3point[g]
    IN  /\ addr2hot' = [x \in Address |->
                            CASE x = a -> p
                              [] x # a /\ x = hotlist[g][p] -> NotHot
                              [] OTHER -> addr2hot[x]]
        /\ hotlist' = [hotlist EXCEPT ![g][p] = a]
        /\ list3point' = [list3point EXCEPT ![g] = NextPoint(p)]

Access(a) ==
    /\ counter' = Counted(a)
    /\ \/ /\ Hot(a)
          /\ Promote(a)
          /\ UNCHANGED list3point
       \/ /\ ~Hot(a)
          /\ \A x \in Cells(a) : Counted(a)[x] >= hotthreshold
          /\ Insert(a)
       \/ /\ ~Hot(a)
          /\ \E x \in Cells(a) : Counted(a)[x] < hotthreshold
          /\ UNCHANGED <<hotlist, addr2hot, list3point>>

Clear ==
    /\ counter' = NoCounts
    /\ hotlist' = EmptyLists
    /\ addr2hot' = [a \in Address |-> NotHot]
    /\ list3point' = [g \in Group |-> 0]

-----------------------------------------------------------------------------
(* The types and ranges of the state. *)
BloomTypeOK ==
    /\ counter \in [Cell -> Nat]
    /\ hotlist \in [Group -> [Slot -> Address \cup {NoAddress}]]
    /\ addr2hot \in [Address -> Slot \cup {NotHot}]
    /\ list3point \in [Group -> 0 .. list3size - 1]

(***************************************************************************)
(* The hot lists and their index say the same: an occupied slot holds an   *)
(* address of its group whose index is that slot, and the index of a hot   *)
(* address points at a slot that holds it.  A promotion changes two slots  *)
(* and two indices by hand, an entry may evict; the remap of the           *)
(* bloom-filter scheme visits an address twice or never if this fails.     *)
(***************************************************************************)
HotIndexExact ==
    /\ \A g \in Group, s \in Slot : hotlist[g][s] # NoAddress =>
            GroupOf(hotlist[g][s]) = g /\ addr2hot[hotlist[g][s]] = s
    /\ \A a \in Address : Hot(a) => hotlist[GroupOf(a)][addr2hot[a]] = a

(***************************************************************************)
(* An address is in the hot lists only while all its counters are at the   *)
(* threshold: a clear must empty lists and counters together.              *)
(***************************************************************************)
HotIsCounted == \A a \in Address : Hot(a) => getcount(a) >= hotthreshold
=============================================================================
