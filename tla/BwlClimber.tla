----------------------------- MODULE BwlClimber -----------------------------
(***************************************************************************)
(* bwlmm_climber.cpp: CLIMBER with write counts estimated by bloom         *)
(* filters.  Filter B1 counts addresses, filter B2 counts groups of        *)
(* addresses.  A remap places first the hot addresses of hot groups, then  *)
(* the other hot addresses, then the rest, and ends by clearing both       *)
(* filters.                                                                *)
(*                                                                         *)
(* The steps of a call of access() are those of HcClimber.                 *)
(***************************************************************************)
EXTENDS ClimberCore

CONSTANTS
    groupsize, hashnums, counternums, list1size, list2size, list3size, hotthreshold,
    hashkey1, hashkey2   \* the hash keys of the two filters

VARIABLES
    counter1, hotlist1, addr2hot1, list3point1,   \* bloomfilter1
    counter2, hotlist2, addr2hot2, list3point2,   \* bloomfilter2
    visited    \* doswap: where the visit of the last placed address was

B1 == INSTANCE BloomFilter WITH
        areasize <- maxpagenums, hashkey <- hashkey1, HashXor <- Xor,
        counter <- counter1, hotlist <- hotlist1,
        addr2hot <- addr2hot1, list3point <- list3point1

B2 == INSTANCE BloomFilter WITH
        areasize <- maxpagenums \div groupsize, hashkey <- hashkey2, HashXor <- Xor,
        counter <- counter2, hotlist <- hotlist2,
        addr2hot <- addr2hot2, list3point <- list3point2

(***************************************************************************)
(* Addresses and groups are numbered by powers of two: the groups divide   *)
(* the pages evenly, and hashing leaves both areas as they are.            *)
(***************************************************************************)
ASSUME FilterAssumption ==
    /\ groupsize \in Nat \ {0} /\ maxpagenums % groupsize = 0
    /\ list1size \in Nat \ {0} /\ list2size \in Nat \ {0} /\ list3size \in Nat \ {0}
    /\ hotthreshold \in Nat \ {0} /\ hashnums \in Nat \ {0}
    /\ counternums \in Nat /\ hashnums <= counternums
    /\ \A a \in B1!Address : B1!Hashed(a) \in B1!Address
    /\ \A g \in B2!Address : B2!Hashed(g) \in B2!Address

filters == <<counter1, hotlist1, addr2hot1, list3point1,
             counter2, hotlist2, addr2hot2, list3point2>>

bwlVars == <<coreVars, filters, visited>>

(* The visits of a remap are ordered by tuples; this one precedes them all. *)
Start == <<0, 0, 0, 0, 0>>

BwlInit ==
    /\ CoreInit
    /\ B1!BloomInit
    /\ B2!BloomInit
    /\ visited = Start

-----------------------------------------------------------------------------
(* access(), up to and including its call of climber(). *)
BwlAccessClimb(l) ==
    /\ Driving
    /\ totaltime' = totaltime + 1
    /\ totalcount' = totalcount + 1
    /\ addr_temp' = l
    /\ B1!Access(l)
    /\ B2!Access(l \div groupsize)
    /\ LET counts == [a \in Page |-> B1!CountIn(B1!Counted(l), a)]
       IN  Climber(l, counts[l] \div 4, counts[l], counts)
    /\ UNCHANGED <<climberenable, sortednow, climberpoint, locals, visited>>

(* The head of doswap(): move climberpoint, choose the key, sort the pages. *)
BwlBeginRemap ==
    /\ AdvancePoint
    /\ sortednow' \in AscendingOrders(lifelist')
    /\ randomkey' \in (IF randomenable THEN 0 .. regionsize - 1 ELSE {0})
    /\ host' = maplist[addr_temp]
    /\ mapindex' = 0
    /\ pc' = "remap"

(* access(), from the write to its return or its call of doswap(). *)
BwlAccessWrite ==
    LET page == maplist[addr_temp]
        wrapped == IF totalcount = cyclethreshold THEN 0 ELSE totalcount
    IN  /\ pc = "write"
        /\ Charge(page)
        /\ IF ~Survives(page)
           THEN /\ pc' = "worn"
                /\ UNCHANGED <<totalcount, sortednow, climberpoint, locals>>
           ELSE /\ totalcount' = wrapped
                /\ IF wrapped = remapthreshold /\ climberenable = 1
                   THEN BwlBeginRemap
                   ELSE pc' = "ready" /\ UNCHANGED <<sortednow, climberpoint, locals>>
        /\ UNCHANGED <<climberenable, tables, totaltime, addr_temp, filters, visited>>

-----------------------------------------------------------------------------
(* doswap(): the three passes over the filters. *)

(* The list that slot s belongs to, by its index in hotlist: 0 for list 1. *)
ListIndex(s) == CASE s < list3size -> 2
                  [] s >= list3size /\ s < list3size + list2size -> 1
                  [] OTHER -> 0

Occupied1(g, s) == hotlist1[g][s] # B1!NoAddress

Occupied2(q, t) == hotlist2[q][t] # B2!NoAddress

(***************************************************************************)
(* What the passes visit: an address, and its place in the nested loops as *)
(* a tuple of loop indices.  Slots are walked from the last to the first.  *)
(***************************************************************************)
HotGroupVisits ==
    {[addr |-> hotlist1[hotlist2[v[1]][v[2]]][v[3]],
      at   |-> <<1, ListIndex(v[3]), v[1], -v[2], -v[3]>>] :
        v \in {w \in B2!Group \X B2!Slot \X B1!Slot :
                  Occupied2(w[1], w[2]) /\ Occupied1(hotlist2[w[1]][w[2]], w[3])}}

ColdGroupVisits ==
    {[addr |-> hotlist1[v[1]][v[2]], at |-> <<2, v[1], -v[2], 0, 0>>] :
        v \in {w \in B2!Address \X B1!Slot : ~B2!Hot(w[1]) /\ Occupied1(w[1], w[2])}}

ColdVisits ==
    {[addr |-> a, at |-> <<3, a, 0, 0, 0>>] : a \in {b \in Page : ~B1!Hot(b)}}

Visits == HotGroupVisits \cup ColdGroupVisits \cup ColdVisits

(* The nested loops reach tuple x before tuple y. *)
Before(x, y) ==
    \E i \in 1 .. 5 : x[i] < y[i] /\ \A j \in 1 .. i - 1 : x[j] = y[j]

(* Faulty variant: the other hot addresses are not walked. *)
AheadWithoutColdGroups == {v \in HotGroupVisits \cup ColdVisits : Before(visited, v.at)}

Ahead == {v \in Visits : Before(visited, v.at)}

IsNext(v) == \A w \in Ahead \ {v} : Before(v.at, w.at)

(* Faulty variant: the pages that addresses leave are not charged. *)
BwlOwedForWriteOnly(v) == maplist[v] = host

(* An address's page is charged if the address leaves it, or took the write. *)
BwlOwed(v) == maplist[v] # NewPage \/ maplist[v] = host

(* The body of the three loops, and the end of doswap(). *)
BwlRemapStep ==
    \E v \in Ahead :
        /\ IsNext(v)
        /\ Place(v.addr, BwlOwed(v.addr), Ahead = {v})
        /\ CASE pc' = "ready" -> B1!Clear /\ B2!Clear /\ visited' = Start
             [] pc' = "remap" -> UNCHANGED filters /\ visited' = v.at
             [] OTHER -> UNCHANGED <<filters, visited>>

BwlNext ==
    \/ \E l \in Requests : BwlAccessClimb(l)
    \/ BwlAccessWrite
    \/ BwlRemapStep
    \/ Stopped /\ UNCHANGED <<filters, visited>>

BwlSpec == BwlInit /\ [][BwlNext]_bwlVars

-----------------------------------------------------------------------------
(* The types and ranges of the state. *)
BwlTypeOK ==
    /\ CoreTypeOK
    /\ B1!BloomTypeOK
    /\ B2!BloomTypeOK
    /\ pc = "ready" => totalcount < cyclethreshold

(***************************************************************************)
(* A remap visits every address once, although the loops only see slots    *)
(* and indices of two filters that have to agree with each other.  (The    *)
(* state keeps its types besides.)                                         *)
(***************************************************************************)
VisitedOnce ==
    /\ BwlTypeOK
    /\ pc = "remap" =>
        /\ \A a \in Page : \E v \in Visits : v.addr = a
        /\ \A v, w \in Visits : v.addr = w.addr \/ v.at = w.at => v = w
        /\ mapindex + Cardinality(Ahead) = maxpagenums

(* The filters rank address a above address b: a is hot and b is not, or   *)
(* both are hot in one group and a has the higher slot.                    *)
Hotter(a, b) ==
    /\ B1!Hot(a)
    /\ ~B1!Hot(b) \/ (B1!GroupOf(a) = B1!GroupOf(b) /\ addr2hot1[a] > addr2hot1[b])

(***************************************************************************)
(* The purpose of the remap: an address that the filters rank above        *)
(* another one ends in the same region of the life order or in a stronger  *)
(* one, and without scrambling at the higher rank.                         *)
(***************************************************************************)
BwlHotOnStrong ==
    [][ pc = "remap" /\ pc' = "ready" =>
          \A a, b \in Page : Hotter(a, b) =>
              /\ RegionOf(climbla2hot'[a]) >= RegionOf(climbla2hot'[b])
              /\ ~randomenable => climbla2hot'[a] > climbla2hot'[b]
      ]_bwlVars
=============================================================================
