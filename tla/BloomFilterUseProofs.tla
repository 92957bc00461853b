------------------------ MODULE BloomFilterUseProofs ------------------------
(***************************************************************************)
(* What a bloom filter in use promises, for every geometry, every choice   *)
(* of hash keys and every sequence of writes and clears.                   *)
(***************************************************************************)
EXTENDS BloomFilterUse, WellFoundedInduction, TLAPS

(* A nonempty set of numbers has a smallest one. *)
LEMMA SmallestExists ==
    ASSUME NEW S \in SUBSET Nat, S # {}
    PROVE  \E n \in S : \A m \in S : n <= m
  <1>1. IsWellFoundedOn(OpToRel(<, Nat), Nat)
    BY NatLessThanWellFounded, Zenon
  <1>2. PICK n \in S : \A m \in S : ~(<<m, n>> \in OpToRel(<, Nat))
    BY <1>1, WFMin, Zenon
  <1>3. \A m \in S : ~(m < n)
    BY <1>2 DEF OpToRel
  <1> QED
    BY <1>3

(* Quotients of naturals are naturals, in order. *)
LEMMA GroupQuotient ==
    ASSUME NEW a \in Nat, NEW b \in Nat, NEW c \in Nat, c > 0, a <= b
    PROVE  a \div c \in Nat /\ a \div c <= b \div c /\ b \div c \in Nat
  OBVIOUS

(* A remainder is below the divisor. *)
LEMMA GroupRemainder ==
    ASSUME NEW a \in Nat, NEW c \in Nat, c > 0
    PROVE  a % c \in 0 .. c - 1
  OBVIOUS

(* Slots and groups are numbers, and the marks for "none" are none of them. *)
LEMMA SlotFacts ==
    /\ hotlistsize \in Nat /\ list3size \in Slot /\ 0 \in 0 .. list3size - 1
    /\ \A s \in Slot : s \in Int /\ s >= 0
    /\ \A p \in 0 .. list3size - 1 : p \in Slot
    /\ NotHot \notin Slot /\ NoAddress \notin Address
    /\ \A a \in Address : a \in Nat /\ GroupOf(a) \in Group
  <1>1. \A a \in Address : a \in Nat /\ a <= areasize
    BY SizeAssumption DEF Address
  <1>2. \A a \in Address : GroupOf(a) \in Group
    BY <1>1, GroupQuotient, SizeAssumption DEF GroupOf, Group, groupnums
  <1> QED
    BY <1>1, <1>2, SizeAssumption DEF hotlistsize, Slot, NotHot, NoAddress, Address

(* Hashing stays inside the counters, and every address has one. *)
LEMMA CellsAreCells ==
    ASSUME NEW a \in Address
    PROVE  Cells(a) \subseteq Cell /\ Cells(a) # {}
  <1> DEFINE h == Hashed(a)
  <1>1. h \in Address /\ h \in Nat
    BY HashAssumption, SlotFacts
  <1>2. h \div groupsize \in Group
    BY <1>1, SlotFacts DEF GroupOf
  <1>3. ASSUME NEW i \in 0 .. hashnums - 1
        PROVE  ((h % groupsize) + i) % counternums \in 0 .. counternums - 1
    <2>1. (h % groupsize) + i \in Nat
      BY <1>1, GroupRemainder, SizeAssumption, HashAssumption
    <2>2. counternums \in Nat /\ counternums > 0
      BY HashAssumption
    <2> QED
      BY <2>1, <2>2, GroupRemainder
  <1> DEFINE Nth(i) == <<h \div groupsize, ((h % groupsize) + i) % counternums>>
  <1>4. Cells(a) = {Nth(i) : i \in 0 .. hashnums - 1}
    BY DEF Cells
  <1>5. \A i \in 0 .. hashnums - 1 : Nth(i) \in Cell
    BY <1>2, <1>3 DEF Cell
  <1> HIDE DEF Nth
  <1>6. 0 \in 0 .. hashnums - 1
    BY HashAssumption
  <1> QED
    BY <1>4, <1>5, <1>6

(* getcount() returns the smallest of the address's counters. *)
LEMMA CountIsSmallest ==
    ASSUME NEW c \in [Cell -> Nat], NEW a \in Address
    PROVE  /\ CountIn(c, a) \in Nat
           /\ \E x \in Cells(a) : CountIn(c, a) = c[x]
           /\ \A x \in Cells(a) : CountIn(c, a) <= c[x]
  <1> DEFINE S == {c[x] : x \in Cells(a)}
  <1>1. S \in SUBSET Nat /\ S # {}
    BY CellsAreCells
  <1>2. \E n \in S : \A m \in S : n <= m
    <2> HIDE DEF S
    <2> QED
      BY <1>1, SmallestExists
  <1>3. \E n \in S : \A x \in Cells(a) : n <= c[x]
    BY <1>2
  <1>4. CountIn(c, a) \in S /\ \A x \in Cells(a) : CountIn(c, a) <= c[x]
    BY <1>3 DEF CountIn
  <1> QED
    BY <1>1, <1>4

(* A write of an address raises its counters by one and lowers none. *)
LEMMA CountedRaises ==
    ASSUME BloomTypeOK, NEW a \in Address
    PROVE  /\ Counted(a) \in [Cell -> Nat]
           /\ \A x \in Cell : Counted(a)[x] >= counter[x]
           /\ \A x \in Cells(a) : Counted(a)[x] = counter[x] + 1
  <1>1. \A x \in Cell : counter[x] \in Nat
    BY DEF BloomTypeOK
  <1>2. Cells(a) \subseteq Cell
    BY CellsAreCells
  <1> QED
    BY <1>1, <1>2 DEF Counted

-----------------------------------------------------------------------------
(* The hot lists and their index. *)

ListsTyped ==
    /\ hotlist \in [Group -> [Slot -> Address \cup {NoAddress}]]
    /\ addr2hot \in [Address -> Slot \cup {NotHot}]

(* A promotion changes two slots and two indices, and they stay exact. *)
LEMMA PromoteKeepsIndex ==
    ASSUME ListsTyped, HotIndexExact, NEW a \in Address, Hot(a), Promote(a)
    PROVE  /\ ListsTyped' /\ HotIndexExact'
           /\ \A x \in Address : Hot(x)' <=> Hot(x)
  <1> DEFINE g == GroupOf(a)
             s == addr2hot[a]
             t == SlotAbove(s)
             o == hotlist[g][t]
  <1>1. g \in Group /\ s \in Slot /\ s \in Int /\ hotlist[g][s] = a
    BY SlotFacts DEF ListsTyped, Hot, HotIndexExact
  <1>2. CASE ~(s < hotlistsize - 1)
    <2>1. UNCHANGED <<addr2hot, hotlist>>
      BY <1>2 DEF Promote
    <2> QED
      BY <2>1 DEF ListsTyped, HotIndexExact, Hot
  <1>3. CASE s < hotlistsize - 1
    <2>1. t \in Slot /\ t # s
      BY <1>1, <1>3, SlotFacts DEF SlotAbove, Slot
    <2>2. /\ addr2hot' = [x \in Address |-> CASE x = a -> t
                                              [] x # a /\ x = o -> s
                                              [] OTHER -> addr2hot[x]]
          /\ hotlist' = [hotlist EXCEPT ![g][s] = o, ![g][t] = a]
      BY <1>3 DEF Promote, Reindex
    <2> HIDE DEF t
    <2>3. o \in Address \cup {NoAddress} /\ o # a
          /\ (o \in Address => GroupOf(o) = g /\ addr2hot[o] = t)
      BY <1>1, <2>1, SlotFacts DEF ListsTyped, HotIndexExact
    <2>4. /\ hotlist'[g][s] = o /\ hotlist'[g][t] = a
          /\ \A r \in Slot \ {s, t} : hotlist'[g][r] = hotlist[g][r]
          /\ \A q \in Group \ {g} : hotlist'[q] = hotlist[q]
          /\ hotlist' \in [Group -> [Slot -> Address \cup {NoAddress}]]
      BY <1>1, <2>1, <2>2, <2>3 DEF ListsTyped
    <2> HIDE DEF g, s, o
    <2>5. /\ addr2hot'[a] = t
          /\ o \in Address => addr2hot'[o] = s
          /\ \A x \in Address \ {a, o} : addr2hot'[x] = addr2hot[x]
          /\ addr2hot' \in [Address -> Slot \cup {NotHot}]
      BY <1>1, <2>1, <2>2, <2>3 DEF ListsTyped
    <2>6. ASSUME NEW q \in Group, NEW r \in Slot, hotlist'[q][r] # NoAddress
          PROVE  GroupOf(hotlist'[q][r]) = q /\ addr2hot'[hotlist'[q][r]] = r
      <3>1. CASE q # g
        <4>1. hotlist'[q][r] = hotlist[q][r] /\ hotlist[q][r] \in Address
          BY <3>1, <2>4, <2>6 DEF ListsTyped
        <4>2. GroupOf(hotlist[q][r]) = q /\ addr2hot[hotlist[q][r]] = r
          BY <4>1, <2>6 DEF HotIndexExact
        <4>3. hotlist[q][r] # a /\ hotlist[q][r] # o
          BY <4>1, <4>2, <3>1, <2>3 DEF g
        <4> QED
          BY <4>1, <4>2, <4>3, <2>5
      <3>2. CASE q = g /\ r = s
        BY <3>2, <2>3, <2>4, <2>5, <2>6
      <3>3. CASE q = g /\ r = t
        BY <3>3, <2>4, <2>5 DEF g
      <3>4. CASE q = g /\ r \notin {s, t}
        <4>1. hotlist'[q][r] = hotlist[q][r] /\ hotlist[q][r] \in Address
          BY <3>4, <2>4, <2>6 DEF ListsTyped
        <4>2. GroupOf(hotlist[q][r]) = q /\ addr2hot[hotlist[q][r]] = r
          BY <4>1, <2>6 DEF HotIndexExact
        <4>3. hotlist[q][r] # a /\ hotlist[q][r] # o
          BY <4>1, <4>2, <3>4, <2>3 DEF s
        <4> QED
          BY <4>1, <4>2, <4>3, <2>5
      <3> QED
        BY <3>1, <3>2, <3>3, <3>4
    <2>7. ASSUME NEW x \in Address, addr2hot'[x] # NotHot
          PROVE  hotlist'[GroupOf(x)][addr2hot'[x]] = x /\ addr2hot[x] # NotHot
      <3>1. CASE x = a
        BY <3>1, <2>4, <2>5 DEF g, Hot
      <3>2. CASE x = o
        BY <3>2, <2>1, <2>3, <2>4, <2>5, SlotFacts
      <3>3. CASE x \notin {a, o}
        <4>1. addr2hot'[x] = addr2hot[x] /\ addr2hot[x] # NotHot /\ addr2hot[x] \in Slot
          BY <3>3, <2>5, <2>7 DEF ListsTyped
        <4>2. hotlist[GroupOf(x)][addr2hot[x]] = x /\ GroupOf(x) \in Group
          BY <4>1, SlotFacts DEF HotIndexExact, Hot
        <4>3. GroupOf(x) = g => addr2hot[x] \notin {s, t}
          BY <4>2, <3>3, <1>1 DEF g, s, o
        <4> QED
          BY <4>1, <4>2, <4>3, <2>4
      <3> QED
        BY <3>1, <3>2, <3>3
    <2>8. ASSUME NEW x \in Address, addr2hot[x] # NotHot
          PROVE  addr2hot'[x] # NotHot
      BY <2>8, <1>1, <2>1, <2>3, <2>5, SlotFacts
    <2> QED
      BY <2>4, <2>5, <2>6, <2>7, <2>8 DEF ListsTyped, HotIndexExact, Hot
  <1> QED
    BY <1>2, <1>3

(* An entry takes one slot and perhaps evicts one address. *)
LEMMA InsertKeepsIndex ==
    ASSUME ListsTyped, HotIndexExact, NEW a \in Address, ~Hot(a),
           list3point[GroupOf(a)] \in 0 .. list3size - 1, Insert(a)
    PROVE  /\ ListsTyped' /\ HotIndexExact'
           /\ \A x \in Address \ {a} : Hot(x)' => Hot(x)
           /\ \A x \in Address : Hot(x) /\ ~Hot(x)' =>
                 GroupOf(x) = GroupOf(a) /\ addr2hot[x] = list3point[GroupOf(a)]
           /\ Hot(a)'
  <1> DEFINE g == GroupOf(a)
             p == list3point[g]
             o == hotlist[g][p]
  <1>1. g \in Group /\ p \in Slot
    BY SlotFacts
  <1>2. /\ addr2hot' = [x \in Address |-> CASE x = a -> p
                                            [] x # a /\ x = o -> NotHot
                                            [] OTHER -> addr2hot[x]]
        /\ hotlist' = [hotlist EXCEPT ![g][p] = a]
    BY DEF Insert
  <1>3. o \in Address \cup {NoAddress}
        /\ (o \in Address => GroupOf(o) = g /\ addr2hot[o] = p /\ o # a)
    BY <1>1, SlotFacts DEF ListsTyped, HotIndexExact, Hot
  <1> HIDE DEF g, p, o
  <1>4. /\ hotlist'[g][p] = a
        /\ \A r \in Slot \ {p} : hotlist'[g][r] = hotlist[g][r]
        /\ \A q \in Group \ {g} : hotlist'[q] = hotlist[q]
        /\ hotlist' \in [Group -> [Slot -> Address \cup {NoAddress}]]
    BY <1>1, <1>2, <1>3 DEF ListsTyped
  <1>5. /\ addr2hot'[a] = p
        /\ o \in Address => addr2hot'[o] = NotHot
        /\ \A x \in Address \ {a, o} : addr2hot'[x] = addr2hot[x]
        /\ addr2hot' \in [Address -> Slot \cup {NotHot}]
    BY <1>1, <1>2, <1>3 DEF ListsTyped
  <1>6. ASSUME NEW q \in Group, NEW r \in Slot, hotlist'[q][r] # NoAddress
        PROVE  GroupOf(hotlist'[q][r]) = q /\ addr2hot'[hotlist'[q][r]] = r
    <2>1. CASE q = g /\ r = p
      BY <2>1, <1>4, <1>5 DEF g
    <2>2. CASE ~(q = g /\ r = p)
      <3>1. hotlist'[q][r] = hotlist[q][r] /\ hotlist[q][r] \in Address
        BY <2>2, <1>4, <1>6 DEF ListsTyped
      <3>2. GroupOf(hotlist[q][r]) = q /\ addr2hot[hotlist[q][r]] = r
        BY <3>1, <1>6 DEF HotIndexExact
      <3>3. hotlist[q][r] # a /\ hotlist[q][r] # o
        BY <3>1, <3>2, <2>2, <1>3, SlotFacts DEF Hot
      <3> QED
        BY <3>1, <3>2, <3>3, <1>5
    <2> QED
      BY <2>1, <2>2
  <1>7. ASSUME NEW x \in Address, addr2hot'[x] # NotHot
        PROVE  /\ hotlist'[GroupOf(x)][addr2hot'[x]] = x
               /\ x # a => addr2hot[x] # NotHot
    <2>1. CASE x = a
      BY <2>1, <1>4, <1>5 DEF g
    <2>2. CASE x = o
      BY <2>2, <1>3, <1>5, <1>7
    <2>3. CASE x \notin {a, o}
      <3>1. addr2hot'[x] = addr2hot[x] /\ addr2hot[x] # NotHot /\ addr2hot[x] \in Slot
        BY <2>3, <1>5, <1>7 DEF ListsTyped
      <3>2. hotlist[GroupOf(x)][addr2hot[x]] = x /\ GroupOf(x) \in Group
        BY <3>1, SlotFacts DEF HotIndexExact, Hot
      <3>3. GroupOf(x) = g => addr2hot[x] # p
        BY <3>2, <2>3 DEF o
      <3> QED
        BY <3>1, <3>2, <3>3, <1>4
    <2> QED
      BY <2>1, <2>2, <2>3
  <1>8. ASSUME NEW x \in Address, Hot(x), ~Hot(x)'
        PROVE  GroupOf(x) = g /\ addr2hot[x] = p
    <2>1. x = o
      BY <1>1, <1>5, <1>8, SlotFacts DEF Hot
    <2> QED
      BY <2>1, <1>3
  <1>9. Hot(a)'
    BY <1>1, <1>5, SlotFacts DEF Hot
  <1> QED
    BY <1>4, <1>5, <1>6, <1>7, <1>8, <1>9 DEF ListsTyped, HotIndexExact, Hot, g, p

-----------------------------------------------------------------------------
(* The two operations of the filter. *)

(* An estimate bounds every counter of its address, and the other way round. *)
LEMMA CountBounds ==
    ASSUME NEW c \in [Cell -> Nat], NEW a \in Address, NEW n \in Nat
    PROVE  CountIn(c, a) >= n <=> \A x \in Cells(a) : c[x] >= n
  <1>1. \A x \in Cells(a) : c[x] \in Nat
    BY CellsAreCells
  <1> QED
    BY <1>1, CountIsSmallest

(* A write keeps the types, the index and the threshold of the hot lists, *)
(* lowers no count and raises the count of the address written.           *)
LEMMA AccessIsCorrect ==
    ASSUME BloomTypeOK, HotIndexExact, HotIsCounted,
           NEW a \in Address, Access(a)
    PROVE  /\ BloomTypeOK' /\ HotIndexExact' /\ HotIsCounted'
           /\ \A x \in Address : getcount(x)' >= getcount(x)
           /\ getcount(a)' >= getcount(a) + 1
  <1>1. counter' = Counted(a)
    BY DEF Access
  <1>2. /\ counter \in [Cell -> Nat] /\ counter' \in [Cell -> Nat]
        /\ \A x \in Cell : counter'[x] >= counter[x]
        /\ \A x \in Cells(a) : counter'[x] = counter[x] + 1
    BY <1>1, CountedRaises DEF BloomTypeOK
  <1>3. ASSUME NEW x \in Address, NEW n \in Nat
        PROVE  getcount(x)' >= n <=> \A y \in Cells(x) : counter'[y] >= n
    BY <1>2, <1>3, CountBounds DEF getcount, CountIn
  <1>4. \A x \in Address : getcount(x) \in Nat
                /\ \A y \in Cells(x) : getcount(x) <= counter[y]
    BY <1>2, CountIsSmallest DEF getcount
  <1>5. \A x \in Address : getcount(x)' >= getcount(x)
    <2> SUFFICES ASSUME NEW x \in Address PROVE getcount(x)' >= getcount(x)
      OBVIOUS
    <2>1. \A y \in Cells(x) : y \in Cell /\ counter'[y] >= getcount(x)
      <3>1. \A y \in Cells(x) : y \in Cell
        BY CellsAreCells
      <3>2. \A y \in Cell : counter[y] \in Nat /\ counter'[y] \in Nat
        BY <1>2
      <3> QED
        BY <3>1, <3>2, <1>2, <1>4
    <2> QED
      BY <2>1, <1>3, <1>4
  <1>6. getcount(a)' >= getcount(a) + 1
    <2>1. \A y \in Cells(a) : counter'[y] >= getcount(a) + 1
      <3>1. \A y \in Cells(a) : counter[y] \in Nat
        BY <1>2, CellsAreCells
      <3> QED
        BY <3>1, <1>2, <1>4
    <2>2. getcount(a) + 1 \in Nat
      BY <1>4
    <2> QED
      BY <2>1, <2>2, <1>3
  <1>7. ListsTyped
    BY DEF ListsTyped, BloomTypeOK
  <1>8. list3point \in [Group -> 0 .. list3size - 1] /\ GroupOf(a) \in Group
    BY SlotFacts DEF BloomTypeOK
  <1>9. /\ ListsTyped' /\ HotIndexExact' /\ list3point' \in [Group -> 0 .. list3size - 1]
        /\ \A x \in Address : Hot(x)' =>
              Hot(x) \/ (x = a /\ \A y \in Cells(a) : counter'[y] >= hotthreshold)
    <2>1. CASE Hot(a) /\ Promote(a) /\ UNCHANGED list3point
      BY <2>1, <1>7, <1>8, PromoteKeepsIndex
    <2>2. CASE /\ ~Hot(a) /\ Insert(a)
               /\ \A y \in Cells(a) : Counted(a)[y] >= hotthreshold
      <3>1. NextPoint(list3point[GroupOf(a)]) \in 0 .. list3size - 1
        BY <1>8, SizeAssumption, GroupRemainder DEF NextPoint
      <3>2. list3point' \in [Group -> 0 .. list3size - 1]
        BY <2>2, <3>1, <1>8 DEF Insert
      <3>3. list3point[GroupOf(a)] \in 0 .. list3size - 1
        BY <1>8
      <3> QED
        BY <2>2, <3>2, <3>3, <1>1, <1>7, InsertKeepsIndex
    <2>3. CASE ~Hot(a) /\ UNCHANGED <<hotlist, addr2hot, list3point>>
      BY <2>3, <1>7, <1>8 DEF ListsTyped, HotIndexExact, Hot
    <2> QED
      BY <2>1, <2>2, <2>3 DEF Access
  <1>10. HotIsCounted'
    <2> SUFFICES ASSUME NEW x \in Address, Hot(x)' PROVE getcount(x)' >= hotthreshold
      BY DEF HotIsCounted
    <2>1. CASE Hot(x)
      <3>1. getcount(x) >= hotthreshold
        BY <2>1 DEF HotIsCounted
      <3>2. \A y \in Cells(x) : counter'[y] >= hotthreshold
        <4>1. \A y \in Cells(x) : y \in Cell /\ counter[y] \in Nat /\ counter'[y] \in Nat
          BY <1>2, CellsAreCells
        <4> QED
          BY <3>1, <4>1, <1>2, <1>4, SizeAssumption
      <3> QED
        BY <3>2, <1>3, SizeAssumption
    <2>2. CASE x = a /\ \A y \in Cells(a) : counter'[y] >= hotthreshold
      BY <2>2, <1>3, SizeAssumption
    <2> QED
      BY <2>1, <2>2, <1>9
  <1> QED
    BY <1>2, <1>5, <1>6, <1>9, <1>10 DEF BloomTypeOK, ListsTyped

(* Counters and lists are empty together. *)
BloomEmpty ==
    /\ BloomTypeOK /\ HotIndexExact /\ HotIsCounted
    /\ \A a \in Address : getcount(a) = 0

(* A new or cleared filter has empty lists, an exact index and counts of 0. *)
LEMMA EmptyIsCorrect == BloomInit => BloomEmpty
  <1> SUFFICES ASSUME BloomInit PROVE BloomEmpty
    OBVIOUS
  <1>1. BloomTypeOK
    BY SlotFacts DEF BloomInit, BloomTypeOK, NoCounts, EmptyLists
  <1>2. \A a \in Address : ~Hot(a)
    BY DEF BloomInit, Hot
  <1>3. HotIndexExact
    BY <1>2 DEF BloomInit, HotIndexExact, EmptyLists
  <1>4. \A a \in Address : getcount(a) = 0
    <2> SUFFICES ASSUME NEW a \in Address PROVE getcount(a) = 0
      OBVIOUS
    <2>1. PICK x \in Cells(a) : getcount(a) = counter[x]
      BY <1>1, CountIsSmallest DEF BloomTypeOK, getcount
    <2>2. x \in Cell
      BY CellsAreCells
    <2> QED
      BY <2>1, <2>2 DEF BloomInit, NoCounts
  <1> QED
    BY <1>1, <1>2, <1>3, <1>4 DEF HotIsCounted, BloomEmpty
-----------------------------------------------------------------------------

(***************************************************************************)
(* The inductive invariant.  The hot lists are exact only because their    *)
(* entries are counted and typed, and the estimates stay above the truth   *)
(* only because no operation but a clear lowers a counter.                 *)
(***************************************************************************)
Inv == TypeOK /\ HotIndexExact /\ HotIsCounted /\ NeverUndercounts

(* Init establishes the invariant. *)
LEMMA InitInv == Init => Inv
  <1> SUFFICES ASSUME Init PROVE Inv
    OBVIOUS
  <1>1. /\ BloomTypeOK /\ HotIndexExact /\ HotIsCounted
        /\ \A a \in Address : getcount(a) = 0
    BY EmptyIsCorrect DEF Init, BloomEmpty
  <1> QED
    BY <1>1 DEF Init, Inv, TypeOK, NeverUndercounts

(* Counting an address and moving it in the lists keeps the invariant. *)
LEMMA AccessKeepsInv ==
    ASSUME Inv, NEW a \in Address, AccessOf(a)
    PROVE  Inv'
  <1>1. /\ BloomTypeOK' /\ HotIndexExact' /\ HotIsCounted'
        /\ \A x \in Address : getcount(x)' >= getcount(x)
        /\ getcount(a)' >= getcount(a) + 1
    BY AccessIsCorrect DEF Inv, TypeOK, AccessOf
  <1>2. written' = [written EXCEPT ![a] = @ + 1] /\ accesses' = accesses + 1
    BY DEF AccessOf
  <1>3. written' \in [Address -> Nat] /\ accesses' \in Nat
    BY <1>2 DEF Inv, TypeOK
  <1>4. \A x \in Address : getcount(x) \in Nat /\ getcount(x)' \in Nat
    <2>1. counter \in [Cell -> Nat] /\ counter' \in [Cell -> Nat]
      BY <1>1 DEF Inv, TypeOK, BloomTypeOK
    <2> QED
      BY <2>1, CountIsSmallest DEF getcount, CountIn
  <1>5. NeverUndercounts'
    <2> SUFFICES ASSUME NEW x \in Address PROVE getcount(x)' >= written'[x]
      BY DEF NeverUndercounts
    <2>1. getcount(x) >= written[x] /\ written[x] \in Nat /\ written'[x] \in Nat
      BY <1>3 DEF Inv, TypeOK, NeverUndercounts
    <2>2. CASE x = a
      BY <2>1, <2>2, <1>1, <1>2, <1>4 DEF Inv, TypeOK
    <2>3. CASE x # a
      <3>1. written'[x] = written[x]
        BY <2>3, <1>2 DEF Inv, TypeOK
      <3> QED
        BY <3>1, <2>1, <1>1, <1>4
    <2> QED
      BY <2>2, <2>3
  <1> QED
    BY <1>1, <1>3, <1>5 DEF Inv, TypeOK

(* Clearing the filter keeps it, with true counts that restart from 0. *)
LEMMA ClearKeepsInv ==
    ASSUME Inv, ClearAll
    PROVE  Inv'
  <1>1. BloomInit'
    BY DEF ClearAll, Clear, BloomInit
  <1>2. BloomEmpty'
    BY <1>1, EmptyIsCorrect, PTL
  <1> QED
    BY <1>2 DEF ClearAll, BloomEmpty, Inv, TypeOK, NeverUndercounts

(* Every step keeps it. *)
LEMMA StepInv == Inv /\ [Next]_vars => Inv'
  <1> SUFFICES ASSUME Inv, [Next]_vars PROVE Inv'
    OBVIOUS
  <1>1. CASE ClearAll
    BY <1>1, ClearKeepsInv
  <1>2. ASSUME NEW a \in Address, AccessOf(a) PROVE Inv'
    BY <1>2, AccessKeepsInv
  <1>3. CASE UNCHANGED vars
    <2>1. UNCHANGED <<counter, hotlist, addr2hot, list3point, written, accesses>>
      BY <1>3 DEF vars, bloomVars
    <2>2. \A a \in Address : getcount(a)' = getcount(a)
      BY <2>1 DEF getcount, CountIn
    <2>3. TypeOK' /\ HotIndexExact'
      BY <2>1 DEF Inv, TypeOK, BloomTypeOK, HotIndexExact, Hot
    <2>4. HotIsCounted' /\ NeverUndercounts'
      BY <2>1, <2>2 DEF Inv, HotIsCounted, Hot, NeverUndercounts
    <2> QED
      BY <2>3, <2>4 DEF Inv
  <1> QED
    BY <1>1, <1>2, <1>3 DEF Next

(* The invariant that the theorems below follow from. *)
THEOREM Invariance == Spec => []Inv
  BY InitInv, StepInv, PTL DEF Spec

(* The types and ranges of the filter's state: list3point stays in list 3. *)
THEOREM TypeCorrect == Spec => []TypeOK
  <1>1. Inv => TypeOK
    BY DEF Inv
  <1> QED
    BY <1>1, Invariance, PTL

(* hotlist and addr2hot describe the same lists after every operation. *)
THEOREM IndexAlwaysExact == Spec => []HotIndexExact
  <1>1. Inv => HotIndexExact
    BY DEF Inv
  <1> QED
    BY <1>1, Invariance, PTL

(* Whoever is in the hot lists has been counted up to the threshold. *)
THEOREM HotAlwaysCounted == Spec => []HotIsCounted
  <1>1. Inv => HotIsCounted
    BY DEF Inv
  <1> QED
    BY <1>1, Invariance, PTL

(* An address's estimate is never below the writes it has received. *)
THEOREM NeverTooLow == Spec => []NeverUndercounts
  <1>1. Inv => NeverUndercounts
    BY DEF Inv
  <1> QED
    BY <1>1, Invariance, PTL

-----------------------------------------------------------------------------
(* What a step may never do to the hot lists. *)

(* Only a write that finds its address hot keeps everybody in the lists; *)
(* an entry can drop one address, from the slot of list 3 it takes.      *)
LEMMA AccessDisplaces ==
    ASSUME Inv, NEW b \in Address, AccessOf(b), NEW a \in Address, Hot(a), ~Hot(a)'
    PROVE  addr2hot[a] < list3size /\ GroupOf(b) = GroupOf(a) /\ ~Hot(b) /\ Hot(b)'
  <1>1. ListsTyped /\ HotIndexExact
    BY DEF Inv, TypeOK, BloomTypeOK, ListsTyped
  <1>2. list3point[GroupOf(b)] \in 0 .. list3size - 1 /\ list3point[GroupOf(b)] < list3size
    BY SlotFacts, SizeAssumption DEF Inv, TypeOK, BloomTypeOK
  <1>3. CASE Hot(b) /\ Promote(b)
    BY <1>1, <1>3, PromoteKeepsIndex
  <1>4. CASE ~Hot(b) /\ Insert(b)
    BY <1>1, <1>2, <1>4, InsertKeepsIndex
  <1>5. CASE UNCHANGED addr2hot
    BY <1>5 DEF Hot
  <1> QED
    BY <1>3, <1>4, <1>5 DEF AccessOf, Access

(* A write moves nobody but its own address and whom that overtakes. *)
LEMMA AccessMoves ==
    ASSUME Inv, NEW b \in Address, AccessOf(b), NEW a \in Address, a # b,
           Hot(a), Hot(a)'
    PROVE  \/ addr2hot'[a] = addr2hot[a]
           \/ addr2hot'[a] = addr2hot[a] - 1
           \/ addr2hot[a] = list3size /\ addr2hot'[a] < list3size
  <1>1. /\ addr2hot \in [Address -> Slot \cup {NotHot}]
        /\ hotlist \in [Group -> [Slot -> Address \cup {NoAddress}]]
        /\ addr2hot[a] \in Slot /\ addr2hot[a] \in Int
    BY SlotFacts DEF Inv, TypeOK, BloomTypeOK, Hot
  <1>2. CASE Hot(b) /\ Promote(b)
    <2> DEFINE g == GroupOf(b)
               s == addr2hot[b]
               t == SlotAbove(s)
    <2>1. g \in Group /\ s \in Slot /\ s \in Int
      BY <1>1, <1>2, SlotFacts DEF Hot
    <2>2. CASE ~(s < hotlistsize - 1)
      BY <2>2, <1>2 DEF Promote
    <2>3. CASE s < hotlistsize - 1 /\ a # hotlist[g][t]
      BY <2>3, <1>1, <1>2 DEF Promote, Reindex
    <2>4. CASE s < hotlistsize - 1 /\ a = hotlist[g][t]
      <3>1. t \in Slot
        BY <2>1, <2>4, SlotFacts DEF SlotAbove, Slot
      <3>2. addr2hot[a] = t
        BY <2>1, <2>4, <3>1, SlotFacts DEF Inv, HotIndexExact
      <3>3. addr2hot'[a] = s
        BY <2>4, <1>1, <1>2 DEF Promote, Reindex
      <3>4. (t = list3size /\ s < list3size) \/ t = s + 1
        BY <2>1 DEF SlotAbove
      <3> QED
        BY <2>1, <3>2, <3>3, <3>4
    <2> QED
      BY <2>2, <2>3, <2>4
  <1>3. CASE Insert(b)
    BY <1>1, <1>3 DEF Insert, Hot
  <1>4. CASE UNCHANGED addr2hot
    BY <1>4
  <1> QED
    BY <1>2, <1>3, <1>4 DEF AccessOf, Access

(* The number of accesses grows only when an address is accessed. *)
LEMMA StepCounts ==
    ASSUME Inv, [Next]_vars, accesses' > accesses
    PROVE  \E b \in Address : AccessOf(b)
  <1>1. accesses \in Nat
    BY DEF Inv, TypeOK
  <1>2. CASE ClearAll
    BY <1>1, <1>2 DEF ClearAll
  <1>3. CASE UNCHANGED vars
    BY <1>1, <1>3 DEF vars
  <1> QED
    BY <1>2, <1>3 DEF Next

(* A write drops an address out of the hot lists only from list 3, and    *)
(* only for a newcomer of the same group.                                 *)
THEOREM NewcomersAlwaysDisplace == Spec => OnlyNewcomersDisplaced
  <1> DEFINE Displaces ==
        accesses' > accesses =>
          \A a \in Address : Hot(a) /\ ~Hot(a)' =>
              /\ addr2hot[a] < list3size
              /\ \E b \in Address : GroupOf(b) = GroupOf(a) /\ ~Hot(b) /\ Hot(b)'
  <1>1. Inv /\ [Next]_vars => [Displaces]_vars
    <2> SUFFICES ASSUME Inv, [Next]_vars, accesses' > accesses,
                        NEW a \in Address, Hot(a), ~Hot(a)'
                 PROVE  /\ addr2hot[a] < list3size
                        /\ \E b \in Address : GroupOf(b) = GroupOf(a) /\ ~Hot(b) /\ Hot(b)'
      OBVIOUS
    <2>1. PICK b \in Address : AccessOf(b)
      BY StepCounts
    <2> QED
      BY <2>1, AccessDisplaces
  <1> QED
    BY <1>1, Invariance, PTL DEF Spec, OnlyNewcomersDisplaced

(* Nobody but a writer moves up, and who is overtaken loses one place or  *)
(* makes room for a newcomer to list 2.                                   *)
THEOREM AlwaysOvertakenByOne == Spec => OvertakenByOneSlot
  <1> DEFINE Overtakes ==
        accesses' > accesses =>
          \A a \in Address : Hot(a) /\ Hot(a)' /\ written'[a] = written[a] =>
              \/ addr2hot'[a] = addr2hot[a]
              \/ addr2hot'[a] = addr2hot[a] - 1
              \/ addr2hot[a] = list3size /\ addr2hot'[a] < list3size
  <1>1. Inv /\ [Next]_vars => [Overtakes]_vars
    <2> SUFFICES ASSUME Inv, [Next]_vars, accesses' > accesses,
                        NEW a \in Address, Hot(a), Hot(a)', written'[a] = written[a]
                 PROVE  \/ addr2hot'[a] = addr2hot[a]
                        \/ addr2hot'[a] = addr2hot[a] - 1
                        \/ addr2hot[a] = list3size /\ addr2hot'[a] < list3size
      OBVIOUS
    <2>1. PICK b \in Address : AccessOf(b)
      BY StepCounts
    <2>2. a # b
      BY <2>1 DEF AccessOf, Inv, TypeOK
    <2> QED
      BY <2>1, <2>2, AccessMoves
  <1> QED
    BY <1>1, Invariance, PTL DEF Spec, OvertakenByOneSlot
=============================================================================
