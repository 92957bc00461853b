---------------------------- MODULE WearLeveling ----------------------------
(***************************************************************************)
(* What a wear-leveling scheme of this repository promises its driver, in  *)
(* terms of what the driver and the recorded wear can see: between two     *)
(* writes every logical address has a physical page of its own, and every  *)
(* page has been charged for exactly the data it has received.             *)
(*                                                                         *)
(* A write may first exchange its address with one other (the climb), then *)
(* lands on the address's page, and may be followed by moving any number   *)
(* of addresses (the remap).  A page pays once for the exchange, and once  *)
(* for the write and the moves together, as if the written data went       *)
(* straight to where the remap puts it.  In the scheme of                  *)
(* bwlmm_climber.cpp the remap charges the page that took the write once   *)
(* more, moved or not (Recharges).                                         *)
(***************************************************************************)
EXTENDS Integers

CONSTANTS
    Page,       \* the physical pages, which are also the logical addresses
    Endurance,  \* the writes each page can take
    Recharges   \* a remap charges the written page again

VARIABLES
    map,     \* logical address -> physical page
    life,    \* the writes each page has left
    alive    \* the memory still accepts writes

wvars == <<map, life, alive>>

(* m gives every page to exactly one address. *)
IsPlacement(m) ==
    /\ m \in [Page -> Page]
    /\ \A p \in Page : \E l \in Page : m[l] = p

(* Address l and the occupant of page p change places. *)
Exchanged(m, l, p) ==
    [x \in Page |-> CASE x = l -> p
                      [] x # l /\ m[x] = p -> m[l]
                      [] OTHER -> m[x]]

(* The pages that addresses leave, and so the pages that get new data. *)
Moved(m1, m2) == {m1[x] : x \in {y \in Page : m1[y] # m2[y]}}

Paid(p, pages) == IF p \in pages THEN 1 ELSE 0

Init ==
    /\ map = [l \in Page |-> l]
    /\ life = Endurance
    /\ alive = TRUE

(* One write of address l, with everything it makes the scheme do. *)
Write(l) ==
    /\ alive
    /\ IsPlacement(map')
    /\ \E climbed \in {map} \cup {Exchanged(map, l, p) : p \in Page} :
          LET climb == IF climbed = map THEN {} ELSE {map[l]}
              write == {climbed[l]} \cup Moved(climbed, map')
          IN  \E again \in IF Recharges THEN {{}, {climbed[l]}} ELSE {{}} :
                  life' = [p \in Page |->
                              life[p] - Paid(p, climb) - Paid(p, write) - Paid(p, again)]
    /\ \A p \in Page : life'[p] >= 0
    /\ UNCHANGED alive

(***************************************************************************)
(* The memory fails only when a page cannot take what a single write may   *)
(* still demand of it.  The write in progress is lost.                     *)
(***************************************************************************)
WearOut ==
    /\ alive
    /\ \E p \in Page : life[p] <= 1
    /\ alive' = FALSE
    /\ UNCHANGED <<map, life>>

Next == WearOut \/ \E l \in Page : Write(l)

Spec == Init /\ [][Next]_wvars
=============================================================================
