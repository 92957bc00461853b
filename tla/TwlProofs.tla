------------------------------ MODULE TwlProofs ------------------------------
(***************************************************************************)
(* What the toss-up scheme keeps for every number of pages, every          *)
(* interval, threshold and endurance, and every outcome of its draws.      *)
(***************************************************************************)
EXTENDS Twl, TLAPS

(* The tables are typed and inverse; nothing else is needed of a state. *)
Inv == TypeOK /\ MapsAreInverse

(* Pages, their partners and their pairs. *)
LEMMA PageFacts ==
    /\ \A p \in Page : p \in Nat /\ Opposite(p) \in Page
    /\ \A p \in Page : Opposite(Opposite(p)) = p /\ Opposite(p) # p
    /\ \A p \in Page : PairOf(p) \in Pair /\ PairOf(p) \in {p, Opposite(p)}
    /\ \A d \in Pair : d \in Page
  BY SizeAssumption DEF Page, Pair, Opposite, PairOf, Strong

(* A slot is kept on one of the two pages of its pair. *)
LEMMA PageAtFacts ==
    ASSUME NEW s \in Page
    PROVE  /\ PageAt(s) \in {s, Opposite(s)} /\ PageAt(s) \in Page
           /\ VacatedPage(s) \in {s, Opposite(s)} /\ VacatedPage(s) \in Page
           /\ PairOf(s) \in {PageAt(s), Opposite(PageAt(s))}
           /\ Opposite(PairOf(s)) \in {PageAt(s), Opposite(PageAt(s))}
  BY PageFacts DEF PageAt, VacatedPage

(* Init establishes the invariant. *)
LEMMA InitInv == Init => Inv
  <1> SUFFICES ASSUME Init PROVE Inv
    OBVIOUS
  <1>1. life \in [Page -> Int]
    BY EnduranceAssumption DEF Init
  <1>2. MapsAreInverse
    BY DEF Init, MapsAreInverse
  <1>3. 0 \in 0 .. interinterval - 1 /\ 0 \in 0 .. swapthreshold - 1
    BY SizeAssumption
  <1>4. intermaptable \in [Page -> Page] /\ reversemaptable \in [Page -> Page]
    BY DEF Init
  <1>5. isswap \in [Pair -> BOOLEAN]
    BY DEF Init
  <1>6. /\ interswapcount \in [Page -> 0 .. interinterval - 1]
        /\ swapvisitcount \in [Page -> 0 .. swapthreshold - 1]
    BY <1>3 DEF Init
  <1>7. interswaptimes \in Nat /\ swaptimes \in Nat /\ totaltime \in Nat /\ worn \in BOOLEAN
    BY DEF Init
  <1> QED
    BY <1>1, <1>2, <1>4, <1>5, <1>6, <1>7 DEF Inv, TypeOK

-----------------------------------------------------------------------------
(* getpairaddr() *)

(* What getpairaddr() has done when it returns, and how it leaves the lives. *)
SlotChosen(a, l) == KeepSlot(a, l) \/ InterPairSwap(a, l)

MapsOK ==
    /\ intermaptable \in [Page -> Page]
    /\ reversemaptable \in [Page -> Page]
    /\ interswapcount \in [Page -> 0 .. interinterval - 1]
    /\ interswaptimes \in Nat
    /\ MapsAreInverse

(* Exchanging two slots keeps the maps inverse. *)
LEMMA ExchangeKeepsInverse ==
    ASSUME MapsOK, NEW a \in Page, NEW s \in Page, s # intermaptable[a],
           ExchangeSlots(a, s)
    PROVE  /\ intermaptable' \in [Page -> Page] /\ reversemaptable' \in [Page -> Page]
           /\ MapsAreInverse'
  <1> DEFINE b == reversemaptable[s]
             t == intermaptable[a]
  <1>1. b \in Page /\ t \in Page /\ b # a
    BY DEF MapsOK, MapsAreInverse
  <1>2. /\ intermaptable' = [intermaptable EXCEPT ![a] = s, ![b] = t]
        /\ reversemaptable' = [reversemaptable EXCEPT ![t] = b, ![s] = a]
    BY DEF ExchangeSlots
  <1>3. /\ intermaptable'[a] = s /\ intermaptable'[b] = t
        /\ \A x \in Page \ {a, b} : intermaptable'[x] = intermaptable[x]
        /\ reversemaptable'[t] = b /\ reversemaptable'[s] = a
        /\ \A x \in Page \ {s, t} : reversemaptable'[x] = reversemaptable[x]
    BY <1>1, <1>2 DEF MapsOK
  <1>4. \A x \in Page \ {a, b} : intermaptable[x] \notin {s, t}
    BY DEF MapsOK, MapsAreInverse
  <1>5. \A x \in Page \ {s, t} : reversemaptable[x] \notin {a, b}
    BY DEF MapsOK, MapsAreInverse
  <1>6. MapsAreInverse'
    BY <1>1, <1>3, <1>4, <1>5 DEF MapsOK, MapsAreInverse
  <1> QED
    BY <1>1, <1>2, <1>6 DEF MapsOK

(* The first half of a call, the inter-pair swap, keeps the maps right. *)
LEMMA SlotChosenIsCorrect ==
    ASSUME MapsOK, NEW a \in Page, NEW l, SlotChosen(a, l)
    PROVE  MapsOK'
  <1>1. CASE KeepSlot(a, l)
    <2>1. interswapcount' \in [Page -> 0 .. interinterval - 1]
      BY <1>1, SizeAssumption DEF KeepSlot, MapsOK
    <2> QED
      BY <1>1, <2>1 DEF KeepSlot, maps, MapsOK, MapsAreInverse
  <1>2. CASE InterPairSwap(a, l)
    <2>1. PICK s \in Page \ {intermaptable[a]} :
              /\ interswapcount' = [interswapcount EXCEPT ![a] = 0, ![reversemaptable[s]] = 0]
              /\ ExchangeSlots(a, s)
      BY <1>2 DEF InterPairSwap
    <2>2. interswapcount' \in [Page -> 0 .. interinterval - 1]
      BY <2>1, SizeAssumption DEF MapsOK
    <2>3. interswaptimes' \in Nat
      BY <1>2 DEF InterPairSwap, MapsOK
    <2>4. /\ intermaptable' \in [Page -> Page] /\ reversemaptable' \in [Page -> Page]
          /\ MapsAreInverse'
      BY <2>1, ExchangeKeepsInverse
    <2> QED
      BY <2>2, <2>3, <2>4 DEF MapsOK
  <1> QED
    BY <1>1, <1>2 DEF SlotChosen

-----------------------------------------------------------------------------
(* The write. *)

SlotWritten(s, l) == Write(s, l) \/ TossKeeps(s, l) \/ TossSwaps(s, l)

RestOK ==
    /\ life \in [Page -> Int]
    /\ isswap \in [Pair -> BOOLEAN]
    /\ swapvisitcount \in [Page -> 0 .. swapthreshold - 1]
    /\ swaptimes \in Nat
    /\ worn \in BOOLEAN

(* The second half, the write and the toss, charges the page written. *)
LEMMA SlotWrittenIsCorrect ==
    ASSUME RestOK, NEW s \in Page, NEW l \in [Page -> Int], SlotWritten(s, l)
    PROVE  /\ RestOK'
           /\ \A p \in Page : life'[p] <= l[p]
           /\ LET p == IF isswap'[PairOf(s)] THEN Opposite(s) ELSE s
              IN  life'[p] < l[p]
  <1> DEFINE p == PageAt(s)
             o == Opposite(p)
  <1>1. p \in Page /\ o \in Page /\ p # o /\ p \in {s, Opposite(s)} /\ PairOf(s) \in Pair
        /\ PairOf(s) \in {p, o} /\ Opposite(PairOf(s)) \in {p, o}
        /\ Opposite(s) \in {p, o} /\ s \in {p, o}
    BY PageFacts, PageAtFacts
  <1>2. CASE Write(s, l) \/ TossKeeps(s, l)
    <2>1. life' = [l EXCEPT ![p] = @ - 1] /\ UNCHANGED <<isswap, swaptimes>>
      BY <1>2 DEF Write, TossKeeps, Charged
    <2>2. life' \in [Page -> Int] /\ life'[p] < l[p] /\ \A q \in Page : life'[q] <= l[q]
      BY <2>1, <1>1
    <2>3. swapvisitcount' \in [Page -> 0 .. swapthreshold - 1]
      BY <1>1, <1>2, SizeAssumption DEF Write, TossKeeps, TossDue, RestOK
    <2>4. worn' \in BOOLEAN
      BY <1>2 DEF Write, TossKeeps
    <2> QED
      BY <2>1, <2>2, <2>3, <2>4 DEF RestOK, PageAt
  <1>3. CASE TossSwaps(s, l)
    <2> DEFINE d == PairOf(s)
    <2>1. life' = [[l EXCEPT ![d] = @ - 1] EXCEPT ![Opposite(d)] = @ - 1]
      BY <1>3 DEF TossSwaps, ChargedBoth, Charged
    <2>2. d \in Page /\ Opposite(d) \in Page /\ d # Opposite(d)
          /\ {d, Opposite(d)} = {s, Opposite(s)}
      BY <1>1, PageFacts
    <2> HIDE DEF d
    <2>3. life' \in [Page -> Int] /\ \A q \in Page : life'[q] <= l[q]
          /\ life'[d] < l[d] /\ life'[Opposite(d)] < l[Opposite(d)]
      BY <2>1, <2>2
    <2>4. swapvisitcount' \in [Page -> 0 .. swapthreshold - 1]
      BY <1>1, <1>3, SizeAssumption DEF TossSwaps, TossDue, RestOK
    <2>5. isswap' \in [Pair -> BOOLEAN] /\ swaptimes' \in Nat /\ worn' \in BOOLEAN
      BY <1>1, <1>3 DEF TossSwaps, RestOK
    <2>6. life'[s] < l[s] /\ life'[Opposite(s)] < l[Opposite(s)]
      BY <2>2, <2>3
    <2> QED
      BY <2>3, <2>4, <2>5, <2>6 DEF RestOK
  <1> QED
    BY <1>2, <1>3 DEF SlotWritten

-----------------------------------------------------------------------------
(* One access. *)

(* An access keeps the invariant, and its own page pays. *)
LEMMA AccessIsCorrect ==
    ASSUME Inv, NEW a \in Page, access(a)
    PROVE  Inv' /\ life'[PageOf(a)'] < life[PageOf(a)']
  <1>1. PICK l \in {life, Charged(life, VacatedPage(intermaptable[a]))} :
            SlotChosen(a, l) /\ SlotWritten(intermaptable'[a], l)
    BY DEF access, SlotChosen, SlotWritten
  <1>2. MapsOK /\ RestOK
    BY DEF Inv, TypeOK, MapsOK, RestOK
  <1>3. MapsOK'
    BY <1>1, <1>2, SlotChosenIsCorrect
  <1>4. PICK s \in Page : s = intermaptable'[a]
    BY <1>3 DEF MapsOK
  <1>5. l \in [Page -> Int] /\ \A p \in Page : l[p] <= life[p]
    <2>1. VacatedPage(intermaptable[a]) \in Page
      BY <1>2, PageAtFacts DEF MapsOK
    <2> QED
      BY <1>1, <1>2, <2>1 DEF RestOK, Charged
  <1>6. /\ RestOK'
        /\ LET p == IF isswap'[PairOf(s)] THEN Opposite(s) ELSE s
           IN  life'[p] < l[p]
    BY <1>1, <1>2, <1>4, <1>5, SlotWrittenIsCorrect
  <1>7. totaltime' \in Nat
    BY DEF access, Inv, TypeOK
  <1>8. Inv'
    BY <1>3, <1>6, <1>7 DEF Inv, TypeOK, MapsOK, RestOK
  <1>9. life'[PageOf(a)'] < life[PageOf(a)']
    <2> DEFINE p == IF isswap'[PairOf(s)] THEN Opposite(s) ELSE s
    <2>1. PageOf(a)' = p
      BY <1>4 DEF PageOf, PageAt
    <2>2. p \in Page
      BY PageFacts
    <2>3. life'[p] < l[p] /\ l[p] <= life[p] /\ l[p] \in Int /\ life[p] \in Int
          /\ life'[p] \in Int
      BY <2>2, <1>2, <1>5, <1>6 DEF RestOK
    <2> QED
      BY <2>1, <2>3
  <1> QED
    BY <1>8, <1>9

(* A stuttering step keeps the invariant. *)
LEMMA StutterKeepsInv ==
    ASSUME Inv, UNCHANGED vars
    PROVE  Inv'
  BY DEF vars, maps, counts, Inv, TypeOK, MapsAreInverse

(* Every step keeps it. *)
LEMMA StepInv == Inv /\ [Next]_vars => Inv'
  <1> SUFFICES ASSUME Inv, [Next]_vars PROVE Inv'
    OBVIOUS
  <1>1. CASE Stopped \/ UNCHANGED vars
    BY <1>1, StutterKeepsInv DEF Stopped
  <1>2. ASSUME NEW a \in Page, access(a) PROVE Inv'
    BY <1>2, AccessIsCorrect
  <1> QED
    BY <1>1, <1>2 DEF Next

(* The invariant that the theorems below follow from. *)
THEOREM Invariance == Spec => []Inv
  BY InitInv, StepInv, PTL DEF Spec

(* The types of the state, and counts that never stay at their limit. *)
THEOREM TypeCorrect == Spec => []TypeOK
  <1>1. Inv => TypeOK
    BY DEF Inv
  <1> QED
    BY <1>1, Invariance, PTL

(* The two map tables are inverse after every access. *)
THEOREM MapsAlwaysInverse == Spec => []MapsAreInverse
  <1>1. Inv => MapsAreInverse
    BY DEF Inv
  <1> QED
    BY <1>1, Invariance, PTL

(* Every access charges the page that ends up with the written data. *)
THEOREM WritesAlwaysCharged == Spec => WrittenPageCharged
  <1>1. Inv /\ [Next]_vars =>
            [\A a \in Page : access(a) => life'[PageOf(a)'] < life[PageOf(a)']]_vars
    BY AccessIsCorrect
  <1> QED
    BY <1>1, Invariance, PTL DEF Spec, WrittenPageCharged

-----------------------------------------------------------------------------
(* Moves and wear. *)

(* How an access splits into the choice of a slot and the write there. *)
LEMMA AccessSplits ==
    ASSUME Inv, NEW a \in Page, access(a)
    PROVE  \E l \in [Page -> Int], s \in Page :
               /\ SlotChosen(a, l) /\ SlotWritten(s, l) /\ s = intermaptable'[a]
               /\ \A p \in Page : l[p] <= life[p] /\ life'[p] <= l[p]
               /\ \A p \in Page : l[p] >= life[p] - 1
  <1>1. PICK l \in {life, Charged(life, VacatedPage(intermaptable[a]))} :
            SlotChosen(a, l) /\ SlotWritten(intermaptable'[a], l)
    BY DEF access, SlotChosen, SlotWritten
  <1>2. MapsOK /\ RestOK
    BY DEF Inv, TypeOK, MapsOK, RestOK
  <1>3. MapsOK'
    BY <1>1, <1>2, SlotChosenIsCorrect
  <1>4. PICK s \in Page : s = intermaptable'[a]
    BY <1>3 DEF MapsOK
  <1>5. l \in [Page -> Int] /\ \A p \in Page : l[p] <= life[p] /\ l[p] >= life[p] - 1
    <2>1. VacatedPage(intermaptable[a]) \in Page
      BY <1>2, PageAtFacts DEF MapsOK
    <2> QED
      BY <1>1, <1>2, <2>1 DEF RestOK, Charged
  <1>6. \A p \in Page : life'[p] <= l[p]
    BY <1>1, <1>2, <1>4, <1>5, SlotWrittenIsCorrect
  <1> QED
    BY <1>1, <1>4, <1>5, <1>6

(* Whoever comes to another page has a page of that pair charged. *)
LEMMA MoveIsCharged ==
    ASSUME Inv, NEW a \in Page, access(a), NEW x \in Page, PageOf(x)' # PageOf(x)
    PROVE  \E p \in {PageOf(x)', Opposite(PageOf(x)')} : life'[p] < life[p]
  <1>1. PICK l \in [Page -> Int], s \in Page :
               /\ SlotChosen(a, l) /\ SlotWritten(s, l) /\ s = intermaptable'[a]
               /\ \A p \in Page : l[p] <= life[p] /\ life'[p] <= l[p]
    BY AccessSplits
  <1>2. Inv'
    BY AccessIsCorrect
  <1>3. life \in [Page -> Int] /\ life' \in [Page -> Int]
    BY <1>2 DEF Inv, TypeOK
  <1> DEFINE u == intermaptable'[x]
  <1>4. u \in Page
    BY <1>2 DEF Inv, TypeOK
  <1>5. PageOf(x)' = IF isswap'[PairOf(u)] THEN Opposite(u) ELSE u
    BY DEF PageOf, PageAt
  <1>6. {PageOf(x)', Opposite(PageOf(x)')} = {u, Opposite(u)}
    BY <1>4, <1>5, PageFacts
  <1>7. CASE x = a
    BY <1>7, AccessIsCorrect
  <1>8. CASE x # a /\ u # intermaptable[x]
    <2>1. InterPairSwap(a, l)
      BY <1>1, <1>8 DEF SlotChosen, KeepSlot, maps
    <2> DEFINE t == intermaptable[a]
    <2>2. t \in Page /\ VacatedPage(t) \in {t, Opposite(t)} /\ VacatedPage(t) \in Page
      BY PageAtFacts DEF Inv, TypeOK
    <2>3. u = t
      BY <2>1, <1>8 DEF InterPairSwap, ExchangeSlots, Inv, TypeOK
    <2>4. l[VacatedPage(t)] < life[VacatedPage(t)]
      BY <2>1, <2>2, <1>3 DEF InterPairSwap, Charged
    <2>5. life'[VacatedPage(t)] < life[VacatedPage(t)]
      BY <2>2, <2>4, <1>1, <1>3
    <2> QED
      BY <2>2, <2>3, <2>5, <1>6
  <1>9. CASE u = intermaptable[x]
    <2>1. isswap'[PairOf(u)] # isswap[PairOf(u)]
      BY <1>5, <1>9 DEF PageOf, PageAt
    <2>2. TossSwaps(s, l)
      BY <2>1, <1>1 DEF SlotWritten, Write, TossKeeps
    <2> DEFINE d == PairOf(s)
    <2>3. d \in Pair /\ d \in Page /\ Opposite(d) \in Page /\ d # Opposite(d)
          /\ PairOf(u) \in Pair /\ PairOf(u) \in {u, Opposite(u)}
      BY <1>1, <1>4, PageFacts
    <2>4. isswap' = [isswap EXCEPT ![d] = ~@] /\ isswap \in [Pair -> BOOLEAN]
      BY <2>2 DEF TossSwaps, Inv, TypeOK
    <2>5. PairOf(u) = d
      BY <2>1, <2>3, <2>4
    <2>6. life' = [[l EXCEPT ![d] = @ - 1] EXCEPT ![Opposite(d)] = @ - 1]
      BY <2>2 DEF TossSwaps, ChargedBoth, Charged
    <2> HIDE DEF d
    <2>7. life'[d] < l[d]
      BY <2>3, <2>6
    <2>8. life'[d] < life[d]
      BY <2>3, <2>7, <1>1, <1>3
    <2> QED
      BY <2>3, <2>5, <2>8, <1>6
  <1> QED
    BY <1>7, <1>8, <1>9

(* Without an exchange of a pair, wear that an access causes ends the run. *)
LEMMA WearIsSeen ==
    ASSUME Inv, NEW a \in Page, access(a),
           NEW p \in Page, life[p] >= 0, life'[p] < 0, ~worn'
    PROVE  swaptimes' > swaptimes
  <1>1. PICK l \in [Page -> Int], s \in Page :
               /\ SlotChosen(a, l) /\ SlotWritten(s, l) /\ s = intermaptable'[a]
               /\ \A q \in Page : l[q] <= life[q] /\ life'[q] <= l[q]
    BY AccessSplits
  <1>2. CASE Write(s, l) \/ TossKeeps(s, l)
    <2> DEFINE w == PageAt(s)
    <2>1. w \in Page
      BY <1>1, PageAtFacts
    <2>2. life' = [l EXCEPT ![w] = @ - 1] /\ worn' = (WornAlready(l) \/ life'[w] < 0)
      BY <1>2 DEF Write, TossKeeps, Charged
    <2> HIDE DEF w
    <2>3. p # w /\ ~WornAlready(l)
      BY <2>2
    <2>4. l[p] = life'[p]
      BY <2>1, <2>2, <2>3
    <2>5. life[p] \in Int /\ l[p] \in Int
      BY DEF Inv, TypeOK
    <2>6. l[p] < life[p] /\ l[p] < 0
      BY <2>4, <2>5
    <2> QED
      BY <2>3, <2>6 DEF WornAlready
  <1>3. CASE TossSwaps(s, l)
    BY <1>3 DEF TossSwaps, Inv, TypeOK
  <1> QED
    BY <1>1, <1>2, <1>3 DEF SlotWritten

(***************************************************************************)
(* When one page of a pair has nothing left and the other has, every toss  *)
(* is for the other, whichever of the two the slot belongs to.             *)
(***************************************************************************)
LEMMA TossIsForLiving ==
    ASSUME NEW toss \in Tosses, NEW spent \in {0, -1}, NEW other \in Int, other >= 1
    PROVE  /\ swaparbiter(toss, spent, other)
           /\ ~swaparbiter(toss, other, spent)
  <1>1. CASE toss = 0
    BY <1>1 DEF swaparbiter
  <1>2. CASE toss = 999
    BY <1>2 DEF swaparbiter
  <1> QED
    BY <1>1, <1>2 DEF Tosses

(* A toss that wears out the page written finds the other one worn, too. *)
LEMMA TossSpares ==
    ASSUME Inv, NEW a \in Page, access(a),
           swapvisitcount'[PageOf(a)'] = 0,
           life[PageOf(a)'] >= 0, life'[PageOf(a)'] < 0
    PROVE  life'[Opposite(PageOf(a)')] <= 0
  <1>1. PICK l \in [Page -> Int], s \in Page :
               /\ SlotChosen(a, l) /\ SlotWritten(s, l) /\ s = intermaptable'[a]
               /\ \A q \in Page : l[q] <= life[q] /\ life'[q] <= l[q]
               /\ \A q \in Page : l[q] >= life[q] - 1
    BY AccessSplits
  <1> DEFINE d == PairOf(s)
             p == IF isswap'[d] THEN Opposite(s) ELSE s
             o == Opposite(p)
  <1>2. PageOf(a)' = p
    BY <1>1 DEF PageOf, PageAt
  <1>3. /\ p \in Page /\ o \in Page /\ p # o /\ d \in Pair /\ d \in Page
        /\ s \in {p, o} /\ Opposite(s) = (IF s = p THEN o ELSE p)
        /\ {d, Opposite(d)} = {p, o}
    BY <1>1, PageFacts
  <1>4. /\ life \in [Page -> Int] /\ isswap \in [Pair -> BOOLEAN]
        /\ swapvisitcount \in [Page -> 0 .. swapthreshold - 1]
    BY DEF Inv, TypeOK
  <1>5. life[p] >= 0 /\ life'[p] < 0 /\ l[p] >= life[p] - 1 /\ l[p] <= life[p]
    BY <1>1, <1>2, <1>3
  <1>6. CASE Write(s, l)
    <2>1. isswap' = isswap /\ p = PageAt(s)
      BY <1>6 DEF Write, PageAt
    <2>2. swapvisitcount'[p] = swapvisitcount[p] + 1
      BY <1>3, <1>4, <1>6, <2>1 DEF Write
    <2> QED
      BY <1>2, <1>3, <1>4, <2>2, SizeAssumption
  <1>7. CASE TossKeeps(s, l)
    <2>1. isswap' = isswap /\ p = PageAt(s)
      BY <1>7 DEF TossKeeps, PageAt
    <2>2. life' = [l EXCEPT ![p] = @ - 1]
      BY <1>7, <2>1 DEF TossKeeps, Charged
    <2>3. PICK toss \in Tosses : swaparbiter(toss, l[s], l[Opposite(s)]) = isswap[d]
      BY <1>7 DEF TossKeeps, TossedOver
    <2>4. isswap[d] = (s = o)
      BY <1>3, <1>4, <2>1
    <2> HIDE DEF p, d, o
    <2>5. life'[p] = l[p] - 1 /\ life'[o] = l[o] /\ l[p] \in Int /\ l[o] \in Int
      BY <1>1, <1>3, <2>2
    <2>6. l[p] \in {0, -1}
      BY <1>3, <1>4, <1>5, <2>5
    <2>7. ~(l[o] >= 1)
      <3>1. CASE s = p
        BY <1>3, <2>3, <2>4, <2>5, <2>6, <3>1, TossIsForLiving
      <3>2. CASE s = o
        BY <1>3, <2>3, <2>4, <2>5, <2>6, <3>2, TossIsForLiving
      <3> QED
        BY <1>3, <3>1, <3>2
    <2>8. life'[o] <= 0
      BY <2>5, <2>7
    <2> QED
      BY <1>2, <2>8 DEF o
  <1>8. CASE TossSwaps(s, l)
    <2>1. isswap' = [isswap EXCEPT ![d] = ~@]
      BY <1>8 DEF TossSwaps
    <2>2. life' = [[l EXCEPT ![d] = @ - 1] EXCEPT ![Opposite(d)] = @ - 1]
      BY <1>8 DEF TossSwaps, ChargedBoth, Charged
    <2>3. PICK toss \in Tosses : ~(swaparbiter(toss, l[s], l[Opposite(s)]) <=> isswap[d])
      <3>1. PICK toss \in Tosses : swaparbiter(toss, l[s], l[Opposite(s)]) # isswap[d]
        BY <1>8 DEF TossSwaps, TossedOver
      <3>2. isswap[d] \in BOOLEAN /\ swaparbiter(toss, l[s], l[Opposite(s)]) \in BOOLEAN
        BY <1>3, <1>4 DEF swaparbiter
      <3> QED
        BY <3>1, <3>2
    <2>4. isswap[d] <=> s = p
      BY <1>3, <1>4, <2>1
    <2> HIDE DEF p, d, o
    <2>5. life'[p] = l[p] - 1 /\ life'[o] = l[o] - 1 /\ l[p] \in Int /\ l[o] \in Int
      BY <1>1, <1>3, <2>2
    <2>6. l[p] \in {0, -1}
      BY <1>3, <1>4, <1>5, <2>5
    <2>7. ~(l[o] >= 1)
      <3>1. CASE s = p
        BY <1>3, <2>3, <2>4, <2>5, <2>6, <3>1, TossIsForLiving
      <3>2. CASE s = o
        BY <1>3, <2>3, <2>4, <2>5, <2>6, <3>2, TossIsForLiving
      <3> QED
        BY <1>3, <3>1, <3>2
    <2>8. life'[o] <= 0
      BY <2>5, <2>7
    <2> QED
      BY <1>2, <2>8 DEF o
  <1> QED
    BY <1>1, <1>6, <1>7, <1>8 DEF SlotWritten

(* Data never move for free. *)
THEOREM MovesAlwaysCharged == Spec => MovesAreCharged
  <1> DEFINE Moves ==
        \A x \in Page : PageOf(x)' # PageOf(x) =>
            \E p \in {PageOf(x)', Opposite(PageOf(x)')} : life'[p] < life[p]
  <1>1. Inv /\ [Next]_vars => [Moves]_vars
    <2>1. CASE Stopped \/ UNCHANGED vars
      BY <2>1 DEF Stopped
    <2>2. ASSUME Inv, NEW a \in Page, access(a) PROVE Moves
      BY <2>2, MoveIsCharged
    <2> QED
      BY <2>1, <2>2 DEF Next
  <1> QED
    BY <1>1, Invariance, PTL DEF Spec, MovesAreCharged

(* Only the exchange of a pair can hide that a page has worn out. *)
THEOREM OnlySwapsEverHideWear == Spec => OnlySwapsHideWear
  <1> DEFINE Hides ==
        (\E p \in Page : life[p] >= 0 /\ life'[p] < 0) /\ ~worn'
            => swaptimes' > swaptimes
  <1>1. Inv /\ [Next]_vars => [Hides]_vars
    <2>1. CASE Stopped \/ UNCHANGED vars
      BY <2>1 DEF Stopped
    <2>2. ASSUME Inv, NEW a \in Page, access(a) PROVE Hides
      BY <2>2, WearIsSeen
    <2> QED
      BY <2>1, <2>2 DEF Next
  <1> QED
    BY <1>1, Invariance, PTL DEF Spec, OnlySwapsHideWear

(* A toss does not wear out a page that the other one could have spared. *)
THEOREM TossAlwaysSparesWeakPages == Spec => TossSparesWeakPages
  <1> DEFINE Spares ==
        \A a \in Page :
          LET p == PageOf(a)'
          IN  access(a) /\ swapvisitcount'[p] = 0 /\ life[p] >= 0 /\ life'[p] < 0
                  => life'[Opposite(p)] <= 0
  <1>1. Inv /\ [Next]_vars => [Spares]_vars
    BY TossSpares
  <1> QED
    BY <1>1, Invariance, PTL DEF Spec, TossSparesWeakPages
=============================================================================
