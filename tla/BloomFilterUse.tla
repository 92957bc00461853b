--------------------------- MODULE BloomFilterUse ---------------------------
(***************************************************************************)
(* A BloomFilter in use: climberobj writes addresses in any order and      *)
(* clears the filter when a remap ends.  The history variable written has  *)
(* the true count of every address since the last clear, which the filter  *)
(* only estimates.                                                         *)
(***************************************************************************)
EXTENDS BloomFilter

CONSTANT MaxAccesses   \* bounds the accesses between two clears

VARIABLES
    written,    \* address -> its writes since the last clear
    accesses    \* all writes since the last clear

vars == <<bloomVars, written, accesses>>

Init ==
    /\ BloomInit
    /\ written = [a \in Address |-> 0]
    /\ accesses = 0

AccessOf(a) ==
    /\ accesses < MaxAccesses
    /\ Access(a)
    /\ written' = [written EXCEPT ![a] = @ + 1]
    /\ accesses' = accesses + 1

ClearAll ==
    /\ Clear
    /\ written' = [a \in Address |-> 0]
    /\ accesses' = 0

Next == ClearAll \/ \E a \in Address : AccessOf(a)

Spec == Init /\ [][Next]_vars

-----------------------------------------------------------------------------
(* The types and ranges of the state. *)
TypeOK ==
    /\ BloomTypeOK
    /\ written \in [Address -> Nat]
    /\ accesses \in Nat

(***************************************************************************)
(* The filter may count an address too high, never too low: climbing and   *)
(* the comparison of two addresses' counts rely on it.                     *)
(***************************************************************************)
NeverUndercounts == \A a \in Address : getcount(a) >= written[a]

(***************************************************************************)
(* An access can drop an address out of the hot lists only from list 3,    *)
(* never from list 1 or 2, and only when another address of the same group *)
(* enters them.                                                            *)
(***************************************************************************)
OnlyNewcomersDisplaced ==
    [][ accesses' > accesses =>
          \A a \in Address : Hot(a) /\ ~Hot(a)' =>
              /\ addr2hot[a] < list3size
              /\ \E b \in Address : GroupOf(b) = GroupOf(a) /\ ~Hot(b) /\ Hot(b)'
      ]_vars

(***************************************************************************)
(* Only a write of an address moves it up the lists; a write of another    *)
(* one moves it down by one place at most, or to the place of a newcomer   *)
(* that overtakes it.                                                      *)
(***************************************************************************)
OvertakenByOneSlot ==
    [][ accesses' > accesses =>
          \A a \in Address : Hot(a) /\ Hot(a)' /\ written'[a] = written[a] =>
              \/ addr2hot'[a] = addr2hot[a]
              \/ addr2hot'[a] = addr2hot[a] - 1
              \/ addr2hot[a] = list3size /\ addr2hot'[a] < list3size
      ]_vars
=============================================================================
