------------------------------ MODULE HcClimber ------------------------------
(***************************************************************************)
(* hcmm_climber.cpp: CLIMBER with one exact write counter per address.     *)
(*                                                                         *)
(* The driver calls access() for one address at a time.  A call runs in    *)
(* steps named by pc: climber() may exchange the address with a hotter     *)
(* region's occupant ("ready" -> "write"), the write charges the page the  *)
(* address is now on, and at the remap threshold doswap() sorts pages and  *)
(* addresses and places them one by one ("remap").  "worn" is a return     *)
(* value of -1: the driver prints the remaining lives and stops.           *)
(***************************************************************************)
EXTENDS ClimberCore

VARIABLES
    visitcount,   \* writes counted for each logical address
    order         \* doswap: the addresses in the order it places them

vars == <<coreVars, visitcount, order>>

Init ==
    /\ CoreInit
    /\ visitcount = [l \in Page |-> 0]
    /\ order = Identity

-----------------------------------------------------------------------------
(* access(), up to and including its call of climber(). *)
AccessClimb(l) ==
    LET counted == [visitcount EXCEPT ![l] = @ + 1]
    IN  /\ Driving
        /\ totaltime' = totaltime + 1
        /\ visitcount' = counted
        /\ addr_temp' = l
        /\ Climber(l, counted[l], counted[l], counted)
        /\ UNCHANGED <<climberenable, sortednow, climberpoint, totalcount, locals, order>>

(***************************************************************************)
(* s lists the addresses by ascending count.  zeropoint is its last place  *)
(* whose address was never written, or 0 when every address was.           *)
(***************************************************************************)
IsZeropoint(s, zeropoint) ==
    /\ \A i \in Page : visitcount[s[i]] = 0 => i <= zeropoint
    /\ zeropoint = 0 \/ visitcount[s[zeropoint]] = 0

(* Faulty variant: the sorted addresses are walked from the cold end. *)
VisitOrderColdFirst(s, zeropoint) == [i \in Page |-> s[i]]

(***************************************************************************)
(* The order in which the remap places the addresses: those with a count,  *)
(* hottest first, then those never written, in the order of s.             *)
(***************************************************************************)
VisitOrder(s, zeropoint) ==
    [i \in Page |->
        LET place == maxpagenums - 1 - i
        IN  IF place > zeropoint THEN s[place] ELSE s[zeropoint - place]]

(* The head of doswap(): sort, choose the key, move climberpoint. *)
BeginRemap ==
    /\ AdvancePoint
    /\ sortednow' \in AscendingOrders(lifelist')
    /\ \E s \in AscendingOrders(visitcount), zeropoint \in Page :
          IsZeropoint(s, zeropoint) /\ order' = VisitOrder(s, zeropoint)
    /\ randomkey' \in (IF randomenable THEN 0 .. regionsize - 2 ELSE {0})
    /\ host' = maplist[addr_temp]
    /\ mapindex' = 0
    /\ pc' = "remap"

HalfCleared(count) == (count * 3) \div 4

(* What access() does at the remap threshold when remapping is off. *)
ClearInstead ==
    /\ AdvancePoint
    /\ visitcount' = [l \in Page |-> HalfCleared(visitcount[l])]
    /\ pc' = "ready"

(* access(), from the write to its return or its call of doswap(). *)
AccessWrite ==
    LET page == maplist[addr_temp]
        next == totalcount + 1
        wrapped == IF next = cyclethreshold THEN 0 ELSE next
    IN  /\ pc = "write"
        /\ Charge(page)
        /\ IF ~Survives(page)
           THEN /\ pc' = "worn" /\ totalcount' = next
                /\ UNCHANGED <<visitcount, sortednow, climberpoint, locals, order>>
           ELSE /\ totalcount' = wrapped
                /\ \/ /\ wrapped = remapthreshold /\ climberenable = 1
                      /\ BeginRemap
                      /\ UNCHANGED visitcount
                   \/ /\ wrapped = remapthreshold /\ climberenable # 1
                      /\ ClearInstead
                      /\ UNCHANGED <<sortednow, locals, order>>
                   \/ /\ wrapped # remapthreshold
                      /\ pc' = "ready"
                      /\ UNCHANGED <<visitcount, sortednow, climberpoint, locals, order>>
        /\ UNCHANGED <<climberenable, tables, totaltime, addr_temp>>

(* Faulty variant: the page that took the write is charged again. *)
HcOwedAgain(v) == maplist[v] # NewPage

(* The page that took the write has been charged for it already. *)
HcOwed(v) == maplist[v] # NewPage /\ maplist[v] # host

(* The body of doswap()'s loop; an address keeps 3/4 of its count. *)
RemapStep ==
    LET v    == order[mapindex]
        last == NextIndex(mapindex) = maxpagenums
    IN  /\ Place(v, HcOwed(v), last)
        /\ \/ /\ pc' = "worn"
              /\ UNCHANGED <<visitcount, order>>
           \/ /\ pc' # "worn"
              /\ visitcount' = [visitcount EXCEPT ![v] = HalfCleared(@)]
              /\ order' = IF last THEN Identity ELSE order

Next ==
    \/ \E l \in Requests : AccessClimb(l)
    \/ AccessWrite
    \/ RemapStep
    \/ Stopped /\ UNCHANGED <<visitcount, order>>

Spec == Init /\ [][Next]_vars

-----------------------------------------------------------------------------
(* The types and ranges of the state. *)
TypeOK ==
    /\ CoreTypeOK
    /\ visitcount \in [Page -> Nat]
    /\ order \in [Page -> Page]
    /\ pc # "worn" => totalcount < cyclethreshold

(***************************************************************************)
(* The order names each address once, and the addresses placed so far are  *)
(* its first ones.                                                         *)
(***************************************************************************)
OrderIsComplete ==
    /\ \A a \in Page : \E i \in Page : order[i] = a
    /\ \A i, j \in Page : order[i] = order[j] => i = j

RemapFollowsOrder ==
    pc = "remap" =>
        /\ OrderIsComplete
        /\ \A i \in 0 .. mapindex - 1 : PlacedAddress(i) = order[i]

(***************************************************************************)
(* The purpose of the remap: when it finishes, an address with the higher  *)
(* (kept) count is in the same region of the life order as an address with *)
(* a lower one, or in a stronger region; without scrambling, its very rank *)
(* is higher.                                                              *)
(***************************************************************************)
HotOnStrong ==
    [][ pc = "remap" /\ pc' = "ready" =>
          \A a, b \in Page : visitcount'[a] > visitcount'[b] =>
              /\ RegionOf(climbla2hot'[a]) >= RegionOf(climbla2hot'[b])
              /\ ~randomenable => climbla2hot'[a] > climbla2hot'[b]
      ]_vars
=============================================================================
