---------------------------- MODULE MCBwlClimber ----------------------------
(* Instances of BwlClimber small enough for TLC. *)
EXTENDS BwlClimber, TLC

(* XOR of two numbers below 2^3, bit by bit. *)
MCXor(a, b) ==
    LET bit(x, n) == (x \div 2^n) % 2
        differ(n) == IF bit(a, n) # bit(b, n) THEN 2^n ELSE 0
    IN  differ(0) + differ(1) + differ(2)

(* Climbing with remaps, the only mode in which the filters are cleared.   *)
MCRemaps == {1}

MCOrders == Permutations(Page)

(* Pages of unequal endurance, and two alike so that a sort has a tie. *)
MCLife4 == [p \in 0 .. 3 |-> <<1, 2, 4, 4>>[p + 1]]

(* Hash keys under which addresses share counters within and across groups. *)
MCKeys1 == [a \in 0 .. 3 |-> <<0, 1, 3, 2>>[a + 1]]

MCKeys2 == [g \in 0 .. 1 |-> 0]
=============================================================================
