---------------------------- MODULE MCBloomFilter ----------------------------
(* Instances of BloomFilterUse small enough for TLC. *)
EXTENDS BloomFilterUse

(* XOR of two numbers below 2^3, bit by bit. *)
MCXor(a, b) ==
    LET bit(x, n) == (x \div 2^n) % 2
        differ(n) == IF bit(a, n) # bit(b, n) THEN 2^n ELSE 0
    IN  differ(0) + differ(1) + differ(2)

(* Keys that make addresses share counters, within a group and across two. *)
MCKeys == [a \in 0 .. 7 |-> <<0, 2, 2, 1, 4, 4, 6, 0>>[a + 1]]
=============================================================================
