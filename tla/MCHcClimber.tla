---------------------------- MODULE MCHcClimber ----------------------------
(* Instances of HcClimber small enough for TLC. *)
EXTENDS HcClimber, TLC

(* XOR of two numbers below 2^4, bit by bit. *)
MCXor(a, b) ==
    LET bit(x, n) == (x \div 2^n) % 2
        differ(n) == IF bit(a, n) # bit(b, n) THEN 2^n ELSE 0
    IN  differ(0) + differ(1) + differ(2) + differ(3)

(* Climbing with remaps, and without. *)
MCBothModes == {1, 2}

MCOrders == Permutations(Page)

(* Pages of unequal endurance; as they wear, the sorts meet ties. *)
MCLife4 == [p \in 0 .. 3 |-> <<1, 2, 3, 4>>[p + 1]]
=============================================================================
