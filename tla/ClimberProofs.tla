--------------------------- MODULE ClimberProofs ----------------------------
(***************************************************************************)
(* Theorems about the two CLIMBER schemes, HcClimber and BwlClimber, for   *)
(* every memory size, endurance, threshold and workload that the           *)
(* assumptions of ClimberCore and BwlClimber admit.                        *)
(***************************************************************************)
EXTENDS HcWearLeveling, BwlWearLeveling, FiniteSetTheorems, WellFoundedInduction, TLAPS

-----------------------------------------------------------------------------
(* Facts about numbers. *)

(* A nonempty set of numbers has a smallest one. *)
LEMMA SmallestExists ==
    ASSUME NEW S \in SUBSET Nat, S # {}
    PROVE  \E n \in S : \A m \in S : n <= m
  <1>1. IsWellFoundedOn(OpToRel(<, Nat), Nat)
    BY NatLessThanWellFounded, Zenon
  <1>2. PICK n \in S : \A m \in S : ~(<<m, n>> \in OpToRel(<, Nat))
    BY <1>1, WFMin, Zenon
  <1>3. \A m \in S : ~(m < n)
    BY <1>2 DEF OpToRel
  <1> QED
    BY <1>3

(* Quotients are in the order of the dividends. *)
LEMMA DivMonotonic ==
    ASSUME NEW a \in Nat, NEW b \in Nat, NEW c \in Nat, c > 0, a <= b
    PROVE  a \div c <= b \div c
  OBVIOUS

(* Quotient and remainder. *)
LEMMA DivisionWithRemainder ==
    ASSUME NEW a \in Int, NEW b \in Nat, b > 0
    PROVE  /\ a \div b \in Int /\ a % b \in Int
           /\ a = (a \div b) * b + (a % b)
           /\ 0 <= a % b /\ a % b < b
  OBVIOUS

(* The quotient of a number written as a multiple and a rest. *)
LEMMA QuotientIsUnique ==
    ASSUME NEW q \in Int, NEW r \in Int, NEW b \in Nat, b > 0, 0 <= r, r < b
    PROVE  (q * b + r) \div b = q
  OBVIOUS

(* Quotients of naturals are naturals, in order. *)
LEMMA GroupQuotient ==
    ASSUME NEW a \in Nat, NEW b \in Nat, NEW c \in Nat, c > 0, a <= b
    PROVE  a \div c \in Nat /\ a \div c <= b \div c /\ b \div c \in Nat
  OBVIOUS

(* A product loses nothing when it is scaled by a ratio of at least one. *)
LEMMA ScaledUp ==
    ASSUME NEW t \in Nat, NEW l \in Nat, NEW m \in Nat, m > 0, m <= l
    PROVE  (t * l) \div m \in Nat /\ (t * l) \div m >= t
  <1>1. t * l \in Nat /\ t * m \in Nat /\ t * m <= t * l
    <2>1. PICK d \in Nat : l = m + d
      BY l - m \in Nat
    <2>2. t * l = t * m + t * d /\ t * d \in Nat /\ t * m \in Nat
      BY <2>1
    <2> QED
      BY <2>2
  <1>2. (t * m) \div m = t
    OBVIOUS
  <1> QED
    BY <1>1, <1>2, GroupQuotient

-----------------------------------------------------------------------------
(* Facts about the geometry, and about the operators of ClimberCore. *)

(* The memory has at least four pages, numbered from 0. *)
LEMMA PageFacts ==
    /\ maxpagenums \in Nat /\ maxpagenums >= 4
    /\ 0 \in Page /\ maxpagenums - 1 \in Page
    /\ \A p \in Page : p \in Int /\ 0 <= p /\ p <= maxpagenums - 1
  <1>1. maxpagenums \in Nat
    BY GeometryAssumption DEF maxpagenums
  <1>2. maxpagenums >= 4
    BY GeometryAssumption DEF maxpagenums
  <1> QED
    BY <1>1, <1>2 DEF Page

(* No page has a climb threshold below the smallest one that is set, so   *)
(* climber() never takes a count modulo 0.                                *)
THEOREM ThresholdNeverZero ==
    \A p \in Page : climberlocthre(p) \in Nat /\ climberlocthre(p) >= climbethreshold
                   /\ climberlocthre(p) # 0
  <1> DEFINE S == {lifelist2[p] : p \in Page}
  <1>1. S \in SUBSET (Nat \ {0}) /\ S # {}
    BY PageFacts, EnduranceAssumption
  <1>2. \E m \in S : \A n \in S : m <= n
    <2> HIDE DEF S
    <2> QED
      BY <1>1, SmallestExists
  <1>3. \E m \in S : \A p \in Page : m <= lifelist2[p]
    BY <1>2
  <1>4. minlifetime \in S /\ \A p \in Page : minlifetime <= lifelist2[p]
    BY <1>3 DEF minlifetime
  <1>5. minlifetime \in Nat /\ minlifetime > 0
    BY <1>1, <1>4
  <1> SUFFICES ASSUME NEW p \in Page
               PROVE  /\ climberlocthre(p) \in Nat
                      /\ climberlocthre(p) >= climbethreshold /\ climberlocthre(p) # 0
    OBVIOUS
  <1>6. lifelist2[p] \in Nat /\ climbethreshold \in Nat /\ climbethreshold > 0
    BY EnduranceAssumption
  <1>7. climberlocthre(p) \in Nat /\ climberlocthre(p) >= climbethreshold
    BY <1>4, <1>5, <1>6, ScaledUp DEF climberlocthre
  <1> QED
    BY <1>6, <1>7

(* The top region is the last one, and the middle is not above it. *)
LEMMA RegionFacts ==
    /\ TopRegion = regions - 1
    /\ LowestPoint \in Int /\ LowestPoint <= TopRegion
    /\ LowestPoint >= 0
  <1>1. maxpagenums - 1 = (regions - 1) * regionsize + (regionsize - 1)
    BY GeometryAssumption DEF maxpagenums
  <1>2. TopRegion = regions - 1
    BY <1>1, GeometryAssumption,
       QuotientIsUnique DEF TopRegion
  <1>3. maxpagenums \div 2 \in Nat /\ maxpagenums \div 2 <= maxpagenums - 1
    BY PageFacts
  <1>4. LowestPoint <= TopRegion
    BY <1>3, PageFacts, GeometryAssumption, DivMonotonic DEF LowestPoint, TopRegion
  <1>5. LowestPoint \in Int /\ LowestPoint >= 0
    BY <1>3, GeometryAssumption DEF LowestPoint
  <1> QED
    BY <1>2, <1>4, <1>5

(* The ranks a remap scrambles are ranks. *)
LEMMA ScrambledRanksAreRanks == ScrambledRanks \subseteq Page
  <1> DEFINE half == maxpagenums \div 2
             cut  == half \div regionsize
  <1>1. half \in Nat /\ half <= maxpagenums
    BY PageFacts
  <1>2. cut * regionsize <= half /\ cut \in Int
    <2>1. half = cut * regionsize + (half % regionsize) /\ 0 <= half % regionsize
      BY <1>1, GeometryAssumption, DivisionWithRemainder
    <2>2. cut \in Int /\ cut * regionsize \in Int /\ half % regionsize \in Int
      BY <1>1, GeometryAssumption, DivisionWithRemainder
    <2> QED
      BY <2>1, <2>2, <1>1
  <1>3. cut * regionsize <= maxpagenums /\ cut * regionsize \in Int
    BY <1>1, <1>2, GeometryAssumption, PageFacts
  <1> QED
    BY <1>3, PageFacts DEF ScrambledRanks, Page

-----------------------------------------------------------------------------
(* Facts about the operators of the remap. *)

(* The remap gives each address a rank, and no rank twice. *)
LEMMA PlacedRankIsInjective ==
    ASSUME randomkey \in 0 .. regionsize - 1
    PROVE  /\ \A i \in Page : PlacedRank(i) \in Page
           /\ \A i, j \in Page : PlacedRank(i) = PlacedRank(j) => i = j
  <1> DEFINE rankOf(i) == maxpagenums - 1 - i
  <1>1. \A i \in Page : rankOf(i) \in Page
    BY PageFacts DEF Page
  <1>2. \A rank \in ScrambledRanks :
           Xor(rank, randomkey) \in ScrambledRanks /\ Xor(Xor(rank, randomkey), randomkey) = rank
    BY XorAssumption
  <1>3. ASSUME NEW i \in Page
        PROVE  PlacedRank(i) \in Page
    BY <1>1, <1>2, ScrambledRanksAreRanks DEF PlacedRank
  <1>4. ASSUME NEW i \in Page, NEW j \in Page, PlacedRank(i) = PlacedRank(j)
        PROVE  rankOf(i) = rankOf(j)
    <2>1. CASE ~randomenable
      BY <2>1, <1>4 DEF PlacedRank
    <2>2. CASE rankOf(i) \in ScrambledRanks /\ rankOf(j) \in ScrambledRanks
      BY <2>2, <1>4, <1>2 DEF PlacedRank
    <2>3. CASE rankOf(i) \in ScrambledRanks /\ rankOf(j) \notin ScrambledRanks
      BY <2>3, <1>4, <1>2 DEF PlacedRank
    <2>4. CASE rankOf(i) \notin ScrambledRanks /\ rankOf(j) \in ScrambledRanks
      BY <2>4, <1>4, <1>2 DEF PlacedRank
    <2>5. CASE rankOf(i) \notin ScrambledRanks /\ rankOf(j) \notin ScrambledRanks
      BY <2>5, <1>4 DEF PlacedRank
    <2> QED
      BY <2>1, <2>2, <2>3, <2>4, <2>5
  <1>5. ASSUME NEW i \in Page, NEW j \in Page, PlacedRank(i) = PlacedRank(j)
        PROVE  i = j
    <2>1. rankOf(i) = rankOf(j)
      BY <1>4, <1>5
    <2> QED
      BY <2>1, PageFacts
  <1> QED
    BY <1>3, <1>5

(* Every page is at some rank the remap gives out. *)
LEMMA PlacedRankIsSurjective ==
    ASSUME randomkey \in 0 .. regionsize - 1, NEW rank \in Page
    PROVE  \E i \in Page : PlacedRank(i) = rank
  <1> DEFINE back(r) == maxpagenums - 1 - r
  <1>1. \A r \in Page : back(r) \in Page /\ maxpagenums - 1 - back(r) = r
    BY PageFacts DEF Page
  <1>2. CASE randomenable /\ rank \in ScrambledRanks
    <2> DEFINE r == Xor(rank, randomkey)
    <2>1. r \in ScrambledRanks /\ Xor(r, randomkey) = rank
      BY <1>2, XorAssumption
    <2>2. back(r) \in Page /\ PlacedRank(back(r)) = rank
      BY <2>1, <1>1, <1>2, ScrambledRanksAreRanks DEF PlacedRank
    <2> QED
      BY <2>2
  <1>3. CASE ~(randomenable /\ rank \in ScrambledRanks)
    <2>1. back(rank) \in Page /\ PlacedRank(back(rank)) = rank
      BY <1>1, <1>3 DEF PlacedRank
    <2> QED
      BY <2>1
  <1> QED
    BY <1>2, <1>3

-----------------------------------------------------------------------------
(* Facts about the candidates of a climb. *)

(* The remainder of a number written as a multiple and a rest. *)
LEMMA RemainderIsUnique ==
    ASSUME NEW q \in Int, NEW r \in Int, NEW b \in Nat, b > 0, 0 <= r, r < b
    PROVE  (q * b + r) % b = r
  OBVIOUS

(* The k-th rank of a region is a rank, and is in that region. *)
LEMMA RanksOfRegion ==
    ASSUME NEW region \in 0 .. regions - 1, NEW k \in 0 .. regionsize - 1
    PROVE  /\ region * regionsize + k \in Page
           /\ RegionOf(region * regionsize + k) = region
  <1>1. /\ regions \in Int /\ regionsize \in Int /\ region \in Int /\ k \in Int
        /\ regionsize \in Nat /\ regionsize > 0
        /\ 0 <= k /\ k < regionsize /\ 0 <= region /\ region + 1 <= regions
    BY GeometryAssumption
  <1>2. region * regionsize \in Int /\ region * regionsize >= 0
    BY <1>1
  <1>3. (region + 1) * regionsize <= regions * regionsize
    BY <1>1
  <1>4. (region + 1) * regionsize = region * regionsize + regionsize
    BY <1>1
  <1>5. maxpagenums = regions * regionsize /\ maxpagenums \in Int
    BY PageFacts DEF maxpagenums
  <1>6. region * regionsize + k <= maxpagenums - 1
    BY <1>1, <1>2, <1>3, <1>4, <1>5
  <1>7. region * regionsize + k \in Page
    BY <1>1, <1>2, <1>6, <1>5 DEF Page
  <1>8. RegionOf(region * regionsize + k) = region
    BY <1>1, QuotientIsUnique DEF RegionOf
  <1> QED
    BY <1>7, <1>8

(* MaxUp is the end of climberpoint's region, the top region or not. *)
LEMMA MaxUpIsRegionEnd ==
    ASSUME climberpoint \in LowestPoint .. TopRegion
    PROVE  /\ climberpoint \in 0 .. regions - 1
           /\ MaxUp = climberpoint * regionsize + regionsize
  <1>1. climberpoint \in 0 .. regions - 1
    BY RegionFacts
  <1>2. (climberpoint + 1) * regionsize = climberpoint * regionsize + regionsize
    BY <1>1, GeometryAssumption
  <1>3. TopRegion = regions - 1 /\ maxpagenums = regions * regionsize
    BY RegionFacts DEF maxpagenums
  <1>4. CASE climberpoint = TopRegion
    <2>1. climberpoint + 1 = regions
      BY <1>3, <1>4, GeometryAssumption
    <2> QED
      BY <1>1, <1>2, <1>3, <1>4, <2>1 DEF MaxUp
  <1>5. CASE climberpoint # TopRegion
    BY <1>1, <1>2, <1>5 DEF MaxUp
  <1> QED
    BY <1>4, <1>5

(* From the region climberpoint names, another rank of that region. *)
LEMMA OwnRegionRanksAreOthers ==
    ASSUME climberpoint \in LowestPoint .. TopRegion,
           NEW hot \in Page, RegionOf(hot) = climberpoint
    PROVE  OwnRegionRanks(hot) \subseteq Page \ {hot}
  <1> DEFINE r == hot % regionsize
             base == climberpoint * regionsize
  <1>1. /\ regionsize \in Nat /\ regionsize > 0 /\ hot \in Int
        /\ climberpoint \in Int /\ base \in Int
    BY GeometryAssumption, PageFacts, MaxUpIsRegionEnd
  <1>2. r \in Int /\ hot = base + r /\ 0 <= r /\ r < regionsize
    BY <1>1, DivisionWithRemainder DEF RegionOf
  <1> SUFFICES ASSUME NEW k \in 1 .. regionsize - 1
               PROVE  ((hot + k) % regionsize) + (MaxUp - regionsize) \in Page \ {hot}
    BY DEF OwnRegionRanks
  <1> DEFINE m == (hot + k) % regionsize
  <1>3. MaxUp - regionsize = base
    BY <1>1, MaxUpIsRegionEnd
  <1>4. m \in 0 .. regionsize - 1
    BY <1>1, DivisionWithRemainder
  <1>5. base + m \in Page
    BY <1>4, MaxUpIsRegionEnd, RanksOfRegion
  <1>6. m # r
    <2>1. CASE r + k < regionsize
      <3>1. hot + k = climberpoint * regionsize + (r + k)
        BY <1>1, <1>2
      <3>2. r + k \in Int /\ 0 <= r + k
        BY <1>2
      <3>3. (climberpoint * regionsize + (r + k)) % regionsize = r + k
        BY <3>2, <2>1, <1>1, RemainderIsUnique
      <3> QED
        BY <3>1, <3>3, <1>2
    <2>2. CASE r + k >= regionsize
      <3> DEFINE q == climberpoint + 1
                 s == r + k - regionsize
      <3>1. q * regionsize = base + regionsize
        BY <1>1
      <3>2. hot + k = q * regionsize + s
        BY <1>1, <1>2, <3>1
      <3>3. q \in Int /\ s \in Int /\ 0 <= s /\ s < regionsize /\ s # r
        BY <2>2, <1>1, <1>2
      <3> HIDE DEF q, s
      <3>4. (q * regionsize + s) % regionsize = s
        BY <3>3, <1>1, RemainderIsUnique
      <3> QED
        BY <3>2, <3>3, <3>4
    <2> QED
      BY <2>1, <2>2, <1>1, <1>2
  <1>7. m + base \in Page /\ m + base # hot
    BY <1>1, <1>2, <1>4, <1>5, <1>6
  <1> QED
    BY <1>3, <1>7

(* Every candidate is a rank of the life order, and not the address's own. *)
LEMMA TargetRanksAreOthers ==
    ASSUME climberpoint \in LowestPoint .. TopRegion,
           climbla2hot \in [Page -> Page], NEW l \in Page
    PROVE  TargetRanks(l) \subseteq Page \ {climbla2hot[l]}
  <1> DEFINE hot == climbla2hot[l]
             area == RegionOf(hot)
  <1>1. hot \in Page /\ hot \in Int
    BY PageFacts
  <1>2. area \in Int /\ area >= 0
    BY <1>1, PageFacts, GeometryAssumption DEF RegionOf
  <1>3. CASE area = climberpoint
    BY <1>1, <1>3, OwnRegionRanksAreOthers DEF TargetRanks
  <1>4. CASE area # climberpoint
    <2>1. \A region \in TargetRegions(area) :
             region \in 0 .. regions - 1 /\ region # area
      BY <1>2, <1>4, MaxUpIsRegionEnd, GeometryAssumption DEF TargetRegions
    <2>2. \A region \in TargetRegions(area) : RandomMax(region) = regionsize
      <3> SUFFICES ASSUME NEW region \in TargetRegions(area)
                   PROVE  RandomMax(region) = regionsize
        OBVIOUS
      <3>1. region * regionsize \in Int /\ regionsize \in Int
        BY <2>1, GeometryAssumption
      <3> QED
        BY <3>1, MaxUpIsRegionEnd DEF RandomMax
    <2>3. \A region \in TargetRegions(area), k \in 0 .. regionsize - 1 :
             region * regionsize + k \in Page \ {hot}
      BY <2>1, RanksOfRegion
    <2> QED
      BY <1>4, <2>2, <2>3 DEF TargetRanks
  <1> QED
    BY <1>3, <1>4

-----------------------------------------------------------------------------
(* What charging, exchanging and placing do to the state. *)

AllUnworn == \A p \in Page : lifelist[p] >= 0

OneWorn == \E p \in Page : lifelist[p] = -1 /\ \A q \in Page \ {p} : lifelist[q] >= 0

(* A charge wears a page out exactly when the page had no life left. *)
LEMMA ChargeWears ==
    ASSUME lifelist \in [Page -> Int], AllUnworn, NEW p \in Page, Charge(p)
    PROVE  /\ lifelist' \in [Page -> Int]
           /\ Survives(p) => AllUnworn'
           /\ ~Survives(p) => OneWorn'
  <1>1. lifelist' = [lifelist EXCEPT ![p] = lifelist[p] - 1] /\ lifelist[p] \in Int
    BY DEF Charge
  <1>2. /\ lifelist' \in [Page -> Int]
        /\ lifelist'[p] = lifelist[p] - 1
        /\ \A q \in Page \ {p} : lifelist'[q] = lifelist[q]
    BY <1>1
  <1>3. ASSUME Survives(p) PROVE AllUnworn'
    BY <1>1, <1>2, <1>3 DEF AllUnworn, Survives
  <1>4. ASSUME ~Survives(p) PROVE OneWorn'
    <2>1. lifelist[p] = 0
      BY <1>1, <1>4 DEF AllUnworn, Survives
    <2>2. lifelist'[p] = -1 /\ \A q \in Page \ {p} : lifelist'[q] >= 0
      BY <1>2, <2>1 DEF AllUnworn
    <2> QED
      BY <2>2 DEF OneWorn
  <1> QED
    BY <1>2, <1>3, <1>4

TablesTyped ==
    /\ maplist \in [Page -> Page]
    /\ reverselist \in [Page -> Page]
    /\ climbla2hot \in [Page -> Page]

(* An exchange of two addresses leaves the four tables in agreement. *)
LEMMA ExchangeKeepsConsistent ==
    ASSUME TablesTyped, Consistent,
           NEW l \in Page, NEW target \in Page, target # maplist[l],
           Survives(maplist[l]), Exchange(l, target), sortednow' = sortednow
    PROVE  TablesTyped' /\ Consistent'
  <1> DEFINE page == maplist[l]
             tarla == reverselist[target]
  <1>1. page \in Page /\ tarla \in Page /\ maplist[tarla] = target /\ tarla # l
    BY DEF TablesTyped, Consistent
  <1>2. /\ reverselist' = [reverselist EXCEPT ![target] = l, ![page] = tarla]
        /\ maplist' = [maplist EXCEPT ![l] = target, ![tarla] = page]
        /\ climbla2hot' = [climbla2hot EXCEPT ![l] = climbla2hot[tarla],
                                              ![tarla] = climbla2hot[l]]
    BY DEF Exchange, ExchangeRanks
  <1>3. TablesTyped'
    BY <1>1, <1>2 DEF TablesTyped
  <1>4. /\ maplist'[l] = target /\ maplist'[tarla] = page
        /\ \A x \in Page \ {l, tarla} : maplist'[x] = maplist[x]
        /\ reverselist'[target] = l /\ reverselist'[page] = tarla
        /\ \A p \in Page \ {target, page} : reverselist'[p] = reverselist[p]
        /\ climbla2hot'[l] = climbla2hot[tarla] /\ climbla2hot'[tarla] = climbla2hot[l]
        /\ \A x \in Page \ {l, tarla} : climbla2hot'[x] = climbla2hot[x]
    BY <1>1, <1>2 DEF TablesTyped
  <1>5. ASSUME NEW x \in Page PROVE reverselist'[maplist'[x]] = x
    <2>1. CASE x \in {l, tarla}
      BY <2>1, <1>4
    <2>2. CASE x \notin {l, tarla}
      <3>1. reverselist[maplist[x]] = x /\ maplist[x] \in Page
        BY DEF Consistent, TablesTyped
      <3>2. maplist[x] \notin {target, page}
        BY <3>1, <2>2, <1>1 DEF Consistent
      <3> QED
        BY <3>1, <3>2, <2>2, <1>4
    <2> QED
      BY <2>1, <2>2
  <1>6. ASSUME NEW p \in Page PROVE maplist'[reverselist'[p]] = p
    <2>1. CASE p \in {target, page}
      BY <2>1, <1>4
    <2>2. CASE p \notin {target, page}
      <3>1. maplist[reverselist[p]] = p /\ reverselist[p] \in Page
        BY DEF Consistent, TablesTyped
      <3>2. reverselist[p] \notin {l, tarla}
        BY <3>1, <2>2, <1>1
      <3> QED
        BY <3>1, <3>2, <2>2, <1>4
    <2> QED
      BY <2>1, <2>2
  <1>7. ASSUME NEW x \in Page PROVE sortednow'[climbla2hot'[x]] = maplist'[x]
    <2>1. CASE x \in {l, tarla}
      BY <2>1, <1>1, <1>4 DEF Consistent
    <2>2. CASE x \notin {l, tarla}
      BY <2>2, <1>4 DEF Consistent
    <2> QED
      BY <2>1, <2>2
  <1> QED
    BY <1>3, <1>5, <1>6, <1>7 DEF Consistent

(* No page is less worn than itself, so a climb never meets its own page. *)
LEMMA WorthSwappingIsOther ==
    ASSUME lifelist \in [Page -> Int], maplist \in [Page -> Page],
           NEW l \in Page, NEW target \in Page, NEW c, NEW tc,
           WorthSwapping(l, target, c, tc)
    PROVE  target # maplist[l]
  <1>1. ASSUME NEW p \in Page PROVE ~LessWorn(p, p)
    <2>1. lifelist[p] * lifelist2[p] \in Int
      BY EnduranceAssumption
    <2> QED
      BY <2>1 DEF LessWorn
  <1> QED
    BY <1>1 DEF WorthSwapping

(* climber() keeps the tables in agreement, or ends the run. *)
LEMMA ClimberIsCorrect ==
    ASSUME CoreTypeOK, Consistent, AllUnworn,
           NEW l \in Page, NEW paced, NEW c, NEW counts, Climber(l, paced, c, counts),
           sortednow' = sortednow
    PROVE  /\ lifelist' \in [Page -> Int]
           /\ TablesTyped'
           /\ \/ pc' = "write" /\ Consistent' /\ AllUnworn'
              \/ pc' = "worn" /\ OneWorn'
  <1>1. TablesTyped /\ lifelist \in [Page -> Int]
    BY DEF CoreTypeOK, TablesTyped
  <1>2. CASE NoClimb
    BY <1>1, <1>2 DEF NoClimb, tables, TablesTyped, Consistent, AllUnworn
  <1>3. CASE ~NoClimb
    <2>1. PICK rank \in TargetRanks(l) :
             /\ WorthSwapping(l, sortednow[rank], c, counts[reverselist[sortednow[rank]]])
             /\ Exchange(l, sortednow[rank])
      BY <1>3 DEF Climber
    <2> DEFINE target == sortednow[rank]
               page == maplist[l]
    <2>2. rank \in Page
      BY TargetRanksAreOthers DEF CoreTypeOK
    <2>3. target \in Page /\ page \in Page
      BY <2>2, <1>1, OrdersAssumption DEF CoreTypeOK, TablesTyped
    <2>4. target # page
      BY <2>1, <2>3, <1>1, WorthSwappingIsOther DEF TablesTyped
    <2>5. Charge(page)
      BY <2>1 DEF Exchange
    <2>6. CASE Survives(page)
      <3>1. TablesTyped' /\ Consistent'
        BY <1>1, <2>1, <2>3, <2>4, <2>6, ExchangeKeepsConsistent
      <3>2. lifelist' \in [Page -> Int] /\ AllUnworn'
        BY <1>1, <2>3, <2>5, <2>6, ChargeWears
      <3>3. pc' = "write"
        BY <2>1, <2>6 DEF Exchange
      <3> QED
        BY <3>1, <3>2, <3>3
    <2>7. CASE ~Survives(page)
      <3>1. lifelist' \in [Page -> Int] /\ OneWorn'
        BY <1>1, <2>3, <2>5, <2>7, ChargeWears
      <3>2. pc' = "worn" /\ UNCHANGED tables
        BY <2>1, <2>7 DEF Exchange
      <3> QED
        BY <1>1, <3>1, <3>2 DEF TablesTyped, tables
    <2> QED
      BY <2>6, <2>7
  <1> QED
    BY <1>2, <1>3

(***************************************************************************)
(* One iteration of the remap loop puts address v, not placed before, on   *)
(* the next page and disturbs none of the addresses placed already.        *)
(***************************************************************************)
LEMMA PlacingKeepsPlaced ==
    ASSUME CoreTypeOK, pc = "remap", RemapSettles, NEW v \in Page,
           \A i \in 0 .. mapindex - 1 : PlacedAddress(i) # v,
           maplist' = [maplist EXCEPT ![v] = NewPage],
           reverselist' = [reverselist EXCEPT ![NewPage] = v],
           climbla2hot' = [climbla2hot EXCEPT ![v] = PlacedRank(mapindex)]
    PROVE  /\ TablesTyped'
           /\ reverselist'[sortednow[PlacedRank(mapindex)]] = v
           /\ \A i \in 0 .. mapindex - 1 :
                 reverselist'[sortednow[PlacedRank(i)]] = PlacedAddress(i)
           /\ \A i \in 0 .. mapindex :
                 LET page == sortednow[PlacedRank(i)]
                 IN  /\ maplist'[reverselist'[page]] = page
                     /\ climbla2hot'[reverselist'[page]] = PlacedRank(i)
  <1> DEFINE rank == PlacedRank(mapindex)
  <1>1. /\ mapindex \in Page
        /\ \A i \in Page : PlacedRank(i) \in Page
        /\ \A i, j \in Page : PlacedRank(i) = PlacedRank(j) => i = j
    BY PlacedRankIsInjective DEF CoreTypeOK
  <1>2. /\ sortednow \in [Page -> Page]
        /\ \A i, j \in Page : sortednow[i] = sortednow[j] => i = j
    BY OrdersAssumption DEF CoreTypeOK
  <1>3. rank \in Page /\ NewPage \in Page /\ NewPage = sortednow[rank]
    BY <1>1, <1>2 DEF NewPage
  <1>4. TablesTyped'
    BY <1>3 DEF CoreTypeOK, TablesTyped
  <1>5. /\ maplist'[v] = NewPage /\ reverselist'[NewPage] = v /\ climbla2hot'[v] = rank
        /\ \A x \in Page \ {v} : maplist'[x] = maplist[x] /\ climbla2hot'[x] = climbla2hot[x]
        /\ \A p \in Page \ {NewPage} : reverselist'[p] = reverselist[p]
    BY <1>3 DEF CoreTypeOK
  <1>6. ASSUME NEW i \in 0 .. mapindex - 1
        PROVE  LET page == sortednow[PlacedRank(i)]
               IN  /\ reverselist'[page] = PlacedAddress(i)
                   /\ maplist'[reverselist'[page]] = page
                   /\ climbla2hot'[reverselist'[page]] = PlacedRank(i)
    <2>1. i \in Page /\ i # mapindex
      BY <1>1, PageFacts DEF Page
    <2>2. PlacedRank(i) \in Page /\ PlacedRank(i) # rank
      BY <2>1, <1>1
    <2>3. sortednow[PlacedRank(i)] \in Page \ {NewPage}
      BY <2>2, <1>2, <1>3
    <2>4. reverselist'[sortednow[PlacedRank(i)]] = PlacedAddress(i)
      BY <2>3, <1>5 DEF PlacedAddress
    <2>5. PlacedAddress(i) \in Page \ {v}
      BY <2>3 DEF PlacedAddress, CoreTypeOK
    <2>6. /\ maplist[PlacedAddress(i)] = sortednow[PlacedRank(i)]
          /\ climbla2hot[PlacedAddress(i)] = PlacedRank(i)
      BY DEF RemapSettles
    <2> QED
      BY <2>4, <2>5, <2>6, <1>5
  <1>7. \A i \in 0 .. mapindex : i = mapindex \/ i \in 0 .. mapindex - 1
    BY <1>1, PageFacts
  <1> QED
    BY <1>3, <1>4, <1>5, <1>6, <1>7

(* When every page is given out and every address placed, the four tables  *)
(* agree again.                                                            *)
LEMMA AllPlacedIsConsistent ==
    ASSUME CoreTypeOK, TablesTyped', sortednow' = sortednow,
           \A i \in Page :
              LET page == sortednow[PlacedRank(i)]
              IN  /\ maplist'[reverselist'[page]] = page
                  /\ climbla2hot'[reverselist'[page]] = PlacedRank(i),
           \A l \in Page : \E i \in Page : reverselist'[sortednow[PlacedRank(i)]] = l
    PROVE  Consistent'
  <1>1. ASSUME NEW l \in Page
        PROVE  reverselist'[maplist'[l]] = l /\ sortednow'[climbla2hot'[l]] = maplist'[l]
    <2>1. PICK i \in Page : reverselist'[sortednow[PlacedRank(i)]] = l
      OBVIOUS
    <2> QED
      BY <2>1
  <1>2. ASSUME NEW p \in Page PROVE maplist'[reverselist'[p]] = p
    <2>1. PICK rank \in Page : sortednow[rank] = p
      BY OrdersAssumption DEF CoreTypeOK
    <2>2. PICK i \in Page : PlacedRank(i) = rank
      BY PlacedRankIsSurjective DEF CoreTypeOK
    <2> QED
      BY <2>1, <2>2
  <1> QED
    BY <1>1, <1>2 DEF Consistent

(***************************************************************************)
(* The whole iteration, for a loop that places each address once: it ends  *)
(* the run, goes on, or completes the remap.                               *)
(***************************************************************************)
LEMMA PlaceIsCorrect ==
    ASSUME CoreTypeOK, RemapSettles, AllUnworn,
           NEW v \in Page, NEW owed, NEW last \in BOOLEAN, Place(v, owed, last),
           \A i \in 0 .. mapindex - 1 : PlacedAddress(i) # v,
           last <=> mapindex + 1 = maxpagenums,
           last => \A l \in Page \ {v} : \E i \in 0 .. mapindex - 1 : PlacedAddress(i) = l
    PROVE  /\ CoreTypeOK' /\ TablesAgree' /\ RemapSettles' /\ StopsAtFirstWornPage'
           /\ pc' = "remap" => /\ mapindex' = mapindex + 1
                               /\ \A i : i = mapindex => PlacedAddress(i)' = v
                               /\ \A i \in 0 .. mapindex - 1 :
                                     PlacedAddress(i)' = PlacedAddress(i)
  <1>1. /\ pc = "remap"
        /\ UNCHANGED <<climberenable, sortednow, climberpoint, totalcount, totaltime, addr_temp>>
        /\ mapindex \in Page /\ mapindex \in Int
        /\ maplist[v] \in Page
    BY PageFacts DEF Place, CoreTypeOK
  <1>2. CASE owed /\ ~Survives(maplist[v])
    <2>1. Charge(maplist[v]) /\ pc' = "worn" /\ UNCHANGED <<tables, locals>>
      BY <1>2 DEF Place
    <2>2. lifelist' \in [Page -> Int] /\ OneWorn'
      BY <2>1, <1>1, <1>2, ChargeWears DEF CoreTypeOK
    <2> QED
      BY <2>1, <2>2, <1>1
      DEF CoreTypeOK, TablesAgree, RemapSettles, StopsAtFirstWornPage, OneWorn, tables, locals
  <1>3. CASE ~(owed /\ ~Survives(maplist[v]))
    <2>1. /\ maplist' = [maplist EXCEPT ![v] = NewPage]
          /\ reverselist' = [reverselist EXCEPT ![NewPage] = v]
          /\ climbla2hot' = [climbla2hot EXCEPT ![v] = PlacedRank(mapindex)]
          /\ Continue(last)
      BY <1>3 DEF Place
    <2>2. lifelist' \in [Page -> Int] /\ AllUnworn'
      <3>1. CASE owed
        <4>1. Charge(maplist[v]) /\ Survives(maplist[v])
          BY <3>1, <1>3 DEF Place
        <4> QED
          BY <4>1, <1>1, ChargeWears DEF CoreTypeOK
      <3>2. CASE ~owed
        <4>1. UNCHANGED lifelist
          BY <3>2 DEF Place
        <4> QED
          BY <4>1 DEF AllUnworn, CoreTypeOK
      <3> QED
        BY <3>1, <3>2
    <2>3. /\ TablesTyped'
          /\ reverselist'[sortednow[PlacedRank(mapindex)]] = v
          /\ \A i \in 0 .. mapindex - 1 :
                reverselist'[sortednow[PlacedRank(i)]] = PlacedAddress(i)
          /\ \A i \in 0 .. mapindex :
                /\ maplist'[reverselist'[sortednow[PlacedRank(i)]]] = sortednow[PlacedRank(i)]
                /\ climbla2hot'[reverselist'[sortednow[PlacedRank(i)]]] = PlacedRank(i)
      BY <1>1, <2>1, PlacingKeepsPlaced
    <2>4. CASE last
      <3>1. /\ pc' = "ready" /\ mapindex' = 0 /\ host' = 0 /\ randomkey' = 0
            /\ mapindex + 1 = maxpagenums
        BY <2>1, <2>4 DEF Continue
      <3>2. 0 .. mapindex = Page
        BY <3>1, <1>1, PageFacts DEF Page
      <3>3. \A l \in Page : \E i \in Page : reverselist'[sortednow[PlacedRank(i)]] = l
        <4> SUFFICES ASSUME NEW l \in Page
                     PROVE  \E i \in Page : reverselist'[sortednow[PlacedRank(i)]] = l
          OBVIOUS
        <4>1. CASE l = v
          BY <4>1, <2>3, <1>1
        <4>2. CASE l # v
          <5>1. PICK i \in 0 .. mapindex - 1 : PlacedAddress(i) = l
            BY <4>2, <2>4
          <5>2. i \in Page
            BY <3>1, <1>1, PageFacts DEF Page
          <5> QED
            BY <5>1, <5>2, <2>3
        <4> QED
          BY <4>1, <4>2
      <3>4. Consistent'
        BY <1>1, <2>3, <3>2, <3>3, AllPlacedIsConsistent
      <3>5. CoreTypeOK'
        BY <1>1, <2>2, <2>3, <3>1, PageFacts, GeometryAssumption
        DEF CoreTypeOK, TablesTyped
      <3> QED
        BY <2>2, <3>1, <3>4, <3>5
        DEF TablesAgree, RemapSettles, StopsAtFirstWornPage, AllUnworn
    <2>5. CASE ~last
      <3>1. /\ pc' = "remap" /\ mapindex' = mapindex + 1 /\ UNCHANGED <<host, randomkey>>
            /\ mapindex + 1 # maxpagenums
        BY <2>1, <2>5 DEF Continue, NextIndex
      <3>2. mapindex' \in Page /\ \A i \in 0 .. mapindex' - 1 : i \in 0 .. mapindex
        BY <1>1, <3>1, PageFacts DEF Page
      <3>3. CoreTypeOK'
        BY <1>1, <2>2, <2>3, <3>1, <3>2 DEF CoreTypeOK, TablesTyped
      <3>4. \A i : PlacedRank(i)' = PlacedRank(i)
        BY <3>1 DEF PlacedRank
      <3>5. \A i : PlacedAddress(i)' = reverselist'[sortednow[PlacedRank(i)]]
        BY <1>1, <3>4 DEF PlacedAddress
      <3>6. RemapSettles'
        <4> SUFFICES ASSUME NEW i \in 0 .. mapindex' - 1
                     PROVE  /\ maplist'[PlacedAddress(i)'] = sortednow'[PlacedRank(i)']
                            /\ climbla2hot'[PlacedAddress(i)'] = PlacedRank(i)'
          BY DEF RemapSettles
        <4> QED
          BY <1>1, <2>3, <3>2, <3>4, <3>5
      <3>7. \A i : i = mapindex => PlacedAddress(i)' = v
        BY <2>3, <3>5
      <3> QED
        BY <2>2, <2>3, <3>1, <3>3, <3>5, <3>6, <3>7
        DEF TablesAgree, StopsAtFirstWornPage, AllUnworn
    <2> QED
      BY <2>4, <2>5
  <1> QED
    BY <1>2, <1>3

(* The constructor leaves identity maps and the pages in order of life. *)
LEMMA CoreInitIsCorrect ==
    ASSUME CoreInit
    PROVE  CoreTypeOK /\ TablesAgree /\ RemapSettles /\ StopsAtFirstWornPage
  <1>1. sortednow \in Orders
    BY DEF CoreInit, AscendingOrders
  <1>2. \A p \in Page : /\ climbla2hot[p] \in Page
                        /\ sortednow[climbla2hot[p]] = p
    BY <1>1, OrdersAssumption DEF CoreInit, Ranking
  <1>3. climbla2hot \in [Page -> Page]
    BY <1>2 DEF CoreInit, Ranking
  <1>4. lifelist \in [Page -> Int] /\ AllUnworn
    BY EnduranceAssumption DEF CoreInit, AllUnworn
  <1>5. CoreTypeOK
    <2>1. climberpoint \in LowestPoint .. TopRegion
      BY RegionFacts, GeometryAssumption DEF CoreInit
    <2>2. totalcount = 0 /\ 0 \in 0 .. cyclethreshold /\ 0 < cyclethreshold
      BY CadenceAssumption DEF CoreInit
    <2>3. totaltime \in 0 .. endnums - 1
      BY CadenceAssumption DEF CoreInit
    <2>4. randomkey \in 0 .. regionsize - 1
      BY GeometryAssumption DEF CoreInit
    <2> QED
      BY <1>1, <1>3, <1>4, <2>1, <2>2, <2>3, <2>4, PageFacts DEF CoreInit, CoreTypeOK, Identity
  <1>6. Consistent
    BY <1>2, PageFacts DEF CoreInit, Consistent, Identity
  <1> QED
    BY <1>4, <1>5, <1>6
    DEF CoreInit, TablesAgree, RemapSettles, StopsAtFirstWornPage, AllUnworn

-----------------------------------------------------------------------------
(* The hot-count scheme. *)

(***************************************************************************)
(* The inductive invariant.  TablesAgree alone is not inductive: while a   *)
(* remap runs the tables do not agree, and that they agree again when it   *)
(* ends follows only from what the loop has placed so far.                 *)
(***************************************************************************)
Inv ==
    TypeOK /\ TablesAgree /\ RemapSettles /\ RemapFollowsOrder /\ StopsAtFirstWornPage

(* The visiting order of a remap names every address exactly once. *)
LEMMA VisitOrderIsComplete ==
    ASSUME NEW s \in Orders, NEW zeropoint \in Page
    PROVE  LET o == VisitOrder(s, zeropoint)
           IN  /\ o \in [Page -> Page]
               /\ \A a \in Page : \E i \in Page : o[i] = a
               /\ \A i, j \in Page : o[i] = o[j] => i = j
  <1> DEFINE o == VisitOrder(s, zeropoint)
             place(i) == maxpagenums - 1 - i
             source(i) == IF place(i) > zeropoint THEN place(i) ELSE zeropoint - place(i)
  <1>1. \A i \in Page : source(i) \in Page
    BY PageFacts DEF Page
  <1>2. \A i \in Page : o[i] = s[source(i)]
    BY DEF VisitOrder
  <1>3. o \in [Page -> Page]
    BY <1>1, OrdersAssumption DEF VisitOrder
  <1>4. \A i, j \in Page : source(i) = source(j) => i = j
    BY PageFacts
  <1>5. \A k \in Page : \E i \in Page : source(i) = k
    <2> SUFFICES ASSUME NEW k \in Page
                 PROVE  \E i \in Page : source(i) = k
      OBVIOUS
    <2>1. CASE k > zeropoint
      <3>1. maxpagenums - 1 - k \in Page /\ source(maxpagenums - 1 - k) = k
        BY <2>1, PageFacts DEF Page
      <3> QED
        BY <3>1
    <2>2. CASE k <= zeropoint
      <3>1. /\ maxpagenums - 1 - (zeropoint - k) \in Page
            /\ source(maxpagenums - 1 - (zeropoint - k)) = k
        BY <2>2, PageFacts DEF Page
      <3> QED
        BY <3>1
    <2> QED
      BY <2>1, <2>2, PageFacts
  <1>6. /\ \A p \in Page : \E i \in Page : s[i] = p
        /\ \A i, j \in Page : s[i] = s[j] => i = j
    BY OrdersAssumption
  <1> HIDE DEF o, source
  <1>7. \A i, j \in Page : o[i] = o[j] => i = j
    BY <1>1, <1>2, <1>4, <1>6
  <1>8. \A a \in Page : \E i \in Page : o[i] = a
    <2> SUFFICES ASSUME NEW a \in Page
                 PROVE  \E i \in Page : o[i] = a
      OBVIOUS
    <2>1. PICK k \in Page : s[k] = a
      BY <1>6
    <2>2. PICK i \in Page : source(i) = k
      BY <1>5
    <2> QED
      BY <2>1, <2>2, <1>2
  <1> QED
    BY <1>3, <1>7, <1>8 DEF o

-----------------------------------------------------------------------------
(* Every step preserves the invariant. *)

(* Init establishes the invariant. *)
LEMMA InitInv == Init => Inv
  <1> SUFFICES ASSUME Init PROVE Inv
    OBVIOUS
  <1>1. CoreTypeOK /\ TablesAgree /\ RemapSettles /\ StopsAtFirstWornPage
    BY CoreInitIsCorrect DEF Init
  <1>2. pc = "ready" /\ totalcount < cyclethreshold
    BY CadenceAssumption DEF Init, CoreInit
  <1>3. visitcount \in [Page -> Nat] /\ order \in [Page -> Page]
    BY DEF Init, Identity
  <1> QED
    BY <1>1, <1>2, <1>3 DEF Inv, TypeOK, RemapFollowsOrder

(* Decaying a count leaves a count. *)
LEMMA HalfClearedIsCount == \A n \in Nat : HalfCleared(n) \in Nat
  BY DEF HalfCleared

(* climberpoint stays between the middle and the top region. *)
LEMMA AdvanceStaysInRange ==
    ASSUME climberpoint \in LowestPoint .. TopRegion, AdvancePoint
    PROVE  climberpoint' \in LowestPoint .. TopRegion
  BY RegionFacts, GeometryAssumption DEF AdvancePoint

(* access() up to climber() keeps the invariant: see ClimberIsCorrect. *)
LEMMA AccessClimbStep ==
    ASSUME Inv, NEW l \in Requests, AccessClimb(l)
    PROVE  Inv'
  <1>1. /\ l \in Page /\ pc = "ready" /\ totaltime' = totaltime + 1
        /\ totaltime < endnums - 1 /\ addr_temp' = l
        /\ UNCHANGED <<climberenable, sortednow, climberpoint, totalcount, host, order,
                       mapindex, randomkey>>
    BY RequestsAssumption DEF AccessClimb, Driving, locals
  <1>2. CoreTypeOK /\ Consistent /\ AllUnworn
    BY <1>1 DEF Inv, TypeOK, TablesAgree, StopsAtFirstWornPage, AllUnworn
  <1>3. /\ lifelist' \in [Page -> Int] /\ TablesTyped'
        /\ \/ pc' = "write" /\ Consistent' /\ AllUnworn'
           \/ pc' = "worn" /\ OneWorn'
    <2> DEFINE counted == [visitcount EXCEPT ![l] = @ + 1]
    <2>1. Climber(l, counted[l], counted[l], counted)
      BY DEF AccessClimb
    <2> HIDE DEF counted
    <2> QED
      BY <1>1, <1>2, <2>1, ClimberIsCorrect
  <1>4. visitcount' \in [Page -> Nat]
    BY <1>1 DEF AccessClimb, Inv, TypeOK
  <1>5. totaltime' \in 0 .. endnums - 1
    BY <1>1, <1>2, CadenceAssumption DEF CoreTypeOK
  <1>6. CoreTypeOK'
    BY <1>1, <1>2, <1>3, <1>5 DEF CoreTypeOK, TablesTyped
  <1> QED
    BY <1>1, <1>3, <1>4, <1>6
    DEF Inv, TypeOK, TablesAgree, RemapSettles, RemapFollowsOrder, StopsAtFirstWornPage, AllUnworn, OneWorn

(* The head of the remap fixes an order that names every address. *)
LEMMA BeginRemapIsCorrect ==
    ASSUME CoreTypeOK, BeginRemap
    PROVE  /\ climberpoint' \in LowestPoint .. TopRegion
           /\ sortednow' \in Orders
           /\ order' \in [Page -> Page] /\ OrderIsComplete'
           /\ randomkey' \in 0 .. regionsize - 1
           /\ host' \in Page /\ mapindex' = 0 /\ pc' = "remap"
  <1>1. climberpoint' \in LowestPoint .. TopRegion
    BY AdvanceStaysInRange DEF BeginRemap, CoreTypeOK
  <1>2. PICK s \in Orders, zeropoint \in Page : order' = VisitOrder(s, zeropoint)
    BY DEF BeginRemap, AscendingOrders
  <1>3. order' \in [Page -> Page] /\ OrderIsComplete'
    <2> DEFINE o == VisitOrder(s, zeropoint)
    <2>1. /\ o \in [Page -> Page]
          /\ \A a \in Page : \E i \in Page : o[i] = a
          /\ \A i, j \in Page : o[i] = o[j] => i = j
      BY VisitOrderIsComplete
    <2>2. order' = o
      BY <1>2
    <2> HIDE DEF o
    <2> QED
      BY <2>1, <2>2 DEF OrderIsComplete
  <1>4. randomkey' \in 0 .. regionsize - 1
    BY GeometryAssumption DEF BeginRemap
  <1> QED
    BY <1>1, <1>3, <1>4 DEF BeginRemap, AscendingOrders, CoreTypeOK

(* The write, and the start of a remap or of a decay, keep it. *)
LEMMA AccessWriteStep ==
    ASSUME Inv, AccessWrite
    PROVE  Inv'
  <1> DEFINE page == maplist[addr_temp]
             next == totalcount + 1
             wrapped == IF next = cyclethreshold THEN 0 ELSE next
  <1>1. /\ pc = "write" /\ Charge(page)
        /\ UNCHANGED <<climberenable, maplist, reverselist, climbla2hot, totaltime, addr_temp>>
    BY DEF AccessWrite, tables
  <1>2. /\ CoreTypeOK /\ Consistent /\ AllUnworn /\ page \in Page
        /\ visitcount \in [Page -> Nat] /\ order \in [Page -> Page]
    BY <1>1 DEF Inv, TypeOK, TablesAgree, StopsAtFirstWornPage, AllUnworn, CoreTypeOK
  <1>3. /\ totalcount \in Int /\ totalcount >= 0 /\ totalcount < cyclethreshold
        /\ cyclethreshold \in Int
    BY <1>1, <1>2, CadenceAssumption DEF Inv, TypeOK, CoreTypeOK
  <1>4. next \in 0 .. cyclethreshold /\ wrapped \in 0 .. cyclethreshold /\ wrapped < cyclethreshold
    BY <1>3, CadenceAssumption
  <1>5. lifelist' \in [Page -> Int]
    BY <1>1, <1>2, ChargeWears DEF CoreTypeOK
  <1>6. CASE ~Survives(page)
    <2>1. /\ pc' = "worn" /\ totalcount' = next
          /\ UNCHANGED <<visitcount, sortednow, climberpoint, host, order, mapindex, randomkey>>
      BY <1>6 DEF AccessWrite, locals
    <2>2. OneWorn'
      BY <1>1, <1>2, <1>6, ChargeWears DEF CoreTypeOK
    <2>3. CoreTypeOK'
      BY <1>1, <1>2, <1>4, <1>5, <2>1 DEF CoreTypeOK
    <2> QED
      BY <1>2, <1>4, <2>1, <2>2, <2>3
      DEF Inv, TypeOK, TablesAgree, RemapSettles, RemapFollowsOrder, StopsAtFirstWornPage, OneWorn
  <1>7. CASE Survives(page)
    <2>1. AllUnworn'
      BY <1>1, <1>2, <1>7, ChargeWears DEF CoreTypeOK
    <2>2. totalcount' = wrapped
      BY <1>7 DEF AccessWrite
    <2>3. CASE BeginRemap /\ UNCHANGED visitcount
      <3>1. /\ climberpoint' \in LowestPoint .. TopRegion /\ sortednow' \in Orders
            /\ order' \in [Page -> Page] /\ OrderIsComplete'
            /\ randomkey' \in 0 .. regionsize - 1
            /\ host' \in Page /\ mapindex' = 0 /\ pc' = "remap"
        BY <1>2, <2>3, BeginRemapIsCorrect
      <3>2. CoreTypeOK'
        BY <1>1, <1>2, <1>4, <1>5, <2>2, <3>1, PageFacts DEF CoreTypeOK
      <3> QED
        BY <1>2, <1>4, <2>1, <2>2, <2>3, <3>1, <3>2, PageFacts
        DEF Inv, TypeOK, TablesAgree, RemapSettles, RemapFollowsOrder, StopsAtFirstWornPage, AllUnworn
    <2>4. CASE ClearInstead /\ UNCHANGED <<sortednow, locals, order>>
      <3>1. pc' = "ready" /\ climberpoint' \in LowestPoint .. TopRegion
        BY <1>2, <2>4, AdvanceStaysInRange DEF ClearInstead, CoreTypeOK
      <3>2. visitcount' \in [Page -> Nat]
        BY <1>2, <2>4, HalfClearedIsCount DEF ClearInstead
      <3>3. CoreTypeOK'
        BY <1>1, <1>2, <1>4, <1>5, <2>2, <2>4, <3>1 DEF CoreTypeOK, locals
      <3>4. Consistent'
        BY <1>1, <1>2, <2>4 DEF Consistent
      <3> QED
        BY <1>2, <1>4, <2>1, <2>2, <2>4, <3>1, <3>2, <3>3, <3>4
        DEF Inv, TypeOK, TablesAgree, RemapSettles, RemapFollowsOrder, StopsAtFirstWornPage, AllUnworn
    <2>5. CASE pc' = "ready" /\ UNCHANGED <<visitcount, sortednow, climberpoint, locals, order>>
      <3>1. CoreTypeOK'
        BY <1>1, <1>2, <1>4, <1>5, <2>2, <2>5 DEF CoreTypeOK, locals
      <3>2. Consistent'
        BY <1>1, <1>2, <2>5 DEF Consistent
      <3> QED
        BY <1>2, <1>4, <2>1, <2>2, <2>5, <3>1, <3>2
        DEF Inv, TypeOK, TablesAgree, RemapSettles, RemapFollowsOrder, StopsAtFirstWornPage, AllUnworn
    <2> QED
      BY <1>7, <2>3, <2>4, <2>5 DEF AccessWrite
  <1> QED
    BY <1>6, <1>7

(* One iteration of doswap()'s loop keeps it: one page more is settled. *)
LEMMA RemapStepStep ==
    ASSUME Inv, RemapStep
    PROVE  Inv'
  <1> DEFINE v == order[mapindex]
             last == NextIndex(mapindex) = maxpagenums
  <1>1. Place(v, HcOwed(v), last) /\ pc = "remap"
    BY DEF RemapStep, Place
  <1>2. /\ CoreTypeOK /\ RemapSettles /\ AllUnworn /\ OrderIsComplete
        /\ visitcount \in [Page -> Nat] /\ order \in [Page -> Page]
        /\ totalcount < cyclethreshold
        /\ \A i \in 0 .. mapindex - 1 : PlacedAddress(i) = order[i]
    BY <1>1 DEF Inv, TypeOK, RemapFollowsOrder, StopsAtFirstWornPage, AllUnworn
  <1>3. /\ mapindex \in Page /\ mapindex \in Int
        /\ \A i \in 0 .. mapindex - 1 : i \in Page /\ i # mapindex
        /\ last <=> mapindex + 1 = maxpagenums
    <2>1. mapindex \in Page /\ mapindex \in Int
      BY <1>2, PageFacts DEF CoreTypeOK
    <2>2. \A i \in 0 .. mapindex - 1 : i \in Page /\ i # mapindex
      BY <2>1, PageFacts DEF Page
    <2> QED
      BY <2>1, <2>2 DEF NextIndex
  <1>4. v \in Page /\ \A i \in 0 .. mapindex - 1 : PlacedAddress(i) # v
    BY <1>2, <1>3 DEF OrderIsComplete
  <1>5. ASSUME last, NEW l \in Page \ {v}
        PROVE  \E i \in 0 .. mapindex - 1 : PlacedAddress(i) = l
    <2>1. PICK i \in Page : order[i] = l
      BY <1>2 DEF OrderIsComplete
    <2>2. i # mapindex /\ i \in 0 .. mapindex - 1
      BY <2>1, <1>3, <1>5, PageFacts
    <2> QED
      BY <2>1, <2>2, <1>2
  <1>6. /\ CoreTypeOK' /\ TablesAgree' /\ RemapSettles' /\ StopsAtFirstWornPage'
        /\ pc' = "remap" => /\ mapindex' = mapindex + 1
                            /\ \A i : i = mapindex => PlacedAddress(i)' = v
                            /\ \A i \in 0 .. mapindex - 1 :
                                  PlacedAddress(i)' = PlacedAddress(i)
    <2> HIDE DEF v, last
    <2>1. last \in BOOLEAN
      BY DEF last
    <2> QED
      BY <1>1, <1>2, <1>3, <1>4, <1>5, <2>1, PlaceIsCorrect
  <1>7. totalcount' = totalcount
    BY <1>1 DEF Place
  <1>8. visitcount' \in [Page -> Nat]
    BY <1>2, HalfClearedIsCount DEF RemapStep
  <1>9. order' \in [Page -> Page]
    BY <1>2 DEF RemapStep, Identity
  <1>10. ASSUME pc' = "remap"
         PROVE  order' = order
    <2>1. ~last
      BY <1>1, <1>10 DEF Place, Continue
    <2> QED
      BY <2>1, <1>10 DEF RemapStep
  <1>11. RemapFollowsOrder'
    <2> SUFFICES ASSUME pc' = "remap"
                 PROVE  /\ OrderIsComplete'
                        /\ \A i \in 0 .. mapindex' - 1 : PlacedAddress(i)' = order'[i]
      BY DEF RemapFollowsOrder
    <2>1. order' = order /\ OrderIsComplete'
      BY <1>2, <1>10 DEF OrderIsComplete
    <2>2. \A i \in 0 .. mapindex' - 1 : i = mapindex \/ i \in 0 .. mapindex - 1
      BY <1>3, <1>6
    <2> QED
      BY <2>1, <2>2, <1>2, <1>6
  <1> QED
    BY <1>2, <1>6, <1>7, <1>8, <1>9, <1>11 DEF Inv, TypeOK

(* A stuttering step keeps it. *)
LEMMA StutterStep ==
    ASSUME Inv, UNCHANGED vars
    PROVE  Inv'
  BY DEF Inv, vars, coreVars, tables, TypeOK, CoreTypeOK, TablesAgree, Consistent,
         RemapSettles, RemapFollowsOrder, OrderIsComplete, PlacedAddress, PlacedRank,
         StopsAtFirstWornPage

(* Every step keeps the invariant. *)
LEMMA NextInv == Inv /\ [Next]_vars => Inv'
  <1> SUFFICES ASSUME Inv, [Next]_vars PROVE Inv'
    OBVIOUS
  <1>1. ASSUME NEW l \in Requests, AccessClimb(l) PROVE Inv'
    BY <1>1, AccessClimbStep
  <1>2. CASE AccessWrite
    BY <1>2, AccessWriteStep
  <1>3. CASE RemapStep
    BY <1>3, RemapStepStep
  <1>4. CASE Stopped /\ UNCHANGED <<visitcount, order>>
    BY <1>4, StutterStep DEF Stopped, vars
  <1>5. CASE UNCHANGED vars
    BY <1>5, StutterStep
  <1> QED
    BY <1>1, <1>2, <1>3, <1>4, <1>5 DEF Next

-----------------------------------------------------------------------------
(* The theorems. *)

(* The inductive invariant holds in every reachable state. *)
THEOREM Invariance == Spec => []Inv
  <1>1. Init => Inv
    BY InitInv
  <1>2. Inv /\ [Next]_vars => Inv'
    BY NextInv
  <1> QED
    BY <1>1, <1>2, PTL DEF Spec

(* Every variable keeps its type and its range; in particular climberpoint *)
(* never leaves the regions from the middle to the top.                    *)
THEOREM TypeCorrect == Spec => []TypeOK
  <1>1. Inv => TypeOK
    BY DEF Inv
  <1> QED
    BY <1>1, Invariance, PTL

(* maplist, reverselist, sortednow and climbla2hot describe one placement  *)
(* of the addresses whenever access() is called and when it writes.        *)
THEOREM TablesAlwaysAgree == Spec => []TablesAgree
  <1>1. Inv => TablesAgree
    BY DEF Inv
  <1> QED
    BY <1>1, Invariance, PTL

(* The run ends at the first charge that finds a page without life.        *)
THEOREM StopsInTime == Spec => []StopsAtFirstWornPage
  <1>1. Inv => StopsAtFirstWornPage
    BY DEF Inv
  <1> QED
    BY <1>1, Invariance, PTL

(* climber() only ever picks positions of sortednow other than the rank of *)
(* the address it moves.                                                   *)
THEOREM CandidatesAlwaysOthers == Spec => []CandidatesAreOthers
  <1>1. Inv => CandidatesAreOthers
    BY TargetRanksAreOthers DEF Inv, TypeOK, CoreTypeOK, CandidatesAreOthers
  <1> QED
    BY <1>1, Invariance, PTL
-----------------------------------------------------------------------------
(* The hottest addresses on the strongest pages. *)

(***************************************************************************)
(* The counts as they will be when the remap is over: each is reduced when *)
(* its address is placed.  The order has them in descending order.         *)
(***************************************************************************)
KeptCount(i) ==
    IF i < mapindex THEN visitcount[order[i]] ELSE HalfCleared(visitcount[order[i]])

HotFirst ==
    pc = "remap" => \A i, j \in Page : i <= j => KeptCount(j) <= KeptCount(i)

(* What is sorted in every pair of neighbours is sorted. *)
LEMMA AscendingIsSorted ==
    ASSUME NEW key \in [Page -> Nat], NEW s \in Orders, IsAscending(s, key),
           NEW i \in Page, NEW j \in Page, i <= j
    PROVE  key[s[i]] <= key[s[j]]
  <1> DEFINE Misplaced == {k \in Page : i <= k /\ ~(key[s[i]] <= key[s[k]])}
  <1>1. \A k \in Page : s[k] \in Page /\ key[s[k]] \in Nat
    BY OrdersAssumption
  <1>2. ASSUME Misplaced # {} PROVE FALSE
    <2>1. Misplaced \in SUBSET Nat
      BY PageFacts DEF Page
    <2>2. PICK k \in Misplaced : \A m \in Misplaced : k <= m
      <3> HIDE DEF Misplaced
      <3> QED
        BY <1>2, <2>1, SmallestExists
    <2>3. k # i /\ k \in Page /\ i <= k
      BY <1>1
    <2>4. k - 1 \in Page /\ i <= k - 1 /\ k \in Page \ {0}
      BY <2>3, PageFacts DEF Page
    <2>5. k - 1 \notin Misplaced
      BY <2>2, <2>4, PageFacts
    <2>6. key[s[i]] <= key[s[k - 1]]
      BY <2>4, <2>5
    <2>7. key[s[k - 1]] <= key[s[k]]
      BY <2>4 DEF IsAscending
    <2> QED
      BY <1>1, <2>2, <2>3, <2>4, <2>6, <2>7
  <1> QED
    BY <1>2

(* The reduction keeps counts in order. *)
LEMMA HalfClearedKeepsOrder ==
    \A m, n \in Nat : m <= n => HalfCleared(m) <= HalfCleared(n)
  BY DEF HalfCleared

(* The visiting order has the counts in descending order, the addresses     *)
(* never written included.                                                  *)
LEMMA VisitOrderIsDescending ==
    ASSUME visitcount \in [Page -> Nat], NEW s \in AscendingOrders(visitcount),
           NEW zeropoint \in Page, IsZeropoint(s, zeropoint), NEW i \in Page, NEW j \in Page, i <= j
    PROVE  LET o == VisitOrder(s, zeropoint) IN visitcount[o[j]] <= visitcount[o[i]]
  <1> DEFINE o == VisitOrder(s, zeropoint)
             place(k) == maxpagenums - 1 - k
             source(k) == IF place(k) > zeropoint THEN place(k) ELSE zeropoint - place(k)
             count(k) == visitcount[s[k]]
  <1>1. s \in Orders /\ IsAscending(s, visitcount)
    BY DEF AscendingOrders
  <1>2. \A k \in Page : source(k) \in Page /\ o[k] = s[source(k)]
    BY PageFacts DEF Page, VisitOrder
  <1>3. \A k \in Page : s[k] \in Page /\ count(k) \in Nat
    BY <1>1, OrdersAssumption
  <1>4. \A k, m \in Page : k <= m => count(k) <= count(m)
    BY <1>1, AscendingIsSorted
  <1>5. CASE place(j) > zeropoint
    <2>1. source(i) = place(i) /\ source(j) = place(j) /\ place(j) <= place(i)
      BY <1>5, PageFacts
    <2> QED
      BY <1>2, <1>4, <2>1
  <1>6. CASE ~(place(j) > zeropoint)
    <2>1. source(j) <= zeropoint
      BY <1>6, PageFacts
    <2>2. CASE zeropoint = 0
      <3>1. source(j) = 0 /\ source(j) <= source(i)
        BY <1>2, <1>6, <2>1, <2>2, PageFacts
      <3> QED
        BY <1>2, <1>4, <3>1
    <2>3. CASE zeropoint # 0
      <3>1. count(zeropoint) = 0
        BY <2>3 DEF IsZeropoint
      <3>2. count(source(j)) = 0
        BY <1>2, <1>3, <1>4, <2>1, <3>1
      <3> QED
        BY <1>2, <1>3, <3>2
    <2> QED
      BY <2>2, <2>3
  <1> QED
    BY <1>5, <1>6

(* Placing an address gives it the count it was placed for. *)
LEMMA PlacingKeepsCounts ==
    ASSUME Inv, RemapStep, pc' # "worn"
    PROVE  /\ pc = "remap" /\ mapindex \in Page
           /\ \A i \in Page : visitcount'[order[i]] =
                 IF i <= mapindex THEN KeptCount(i) ELSE visitcount[order[i]]
           /\ pc' = "remap" => order' = order /\ mapindex' = mapindex + 1
           /\ pc' = "ready" => mapindex + 1 = maxpagenums
           /\ climbla2hot' = [climbla2hot EXCEPT ![order[mapindex]] = PlacedRank(mapindex)]
           /\ OrderIsComplete /\ order \in [Page -> Page]
  <1> DEFINE v == order[mapindex]
             last == NextIndex(mapindex) = maxpagenums
  <1>1. /\ pc = "remap" /\ mapindex \in Page /\ order \in [Page -> Page]
        /\ visitcount \in [Page -> Nat] /\ OrderIsComplete
    BY DEF RemapStep, Place, Inv, TypeOK, CoreTypeOK, RemapFollowsOrder
  <1>2. Place(v, HcOwed(v), last) /\ visitcount' = [visitcount EXCEPT ![v] = HalfCleared(visitcount[v])]
        /\ order' = IF last THEN Identity ELSE order
    BY DEF RemapStep
  <1>3. Continue(last) /\ climbla2hot' = [climbla2hot EXCEPT ![v] = PlacedRank(mapindex)]
    BY <1>2 DEF Place
  <1>4. \A i \in Page : order[i] \in Page /\ (order[i] = v => i = mapindex)
    BY <1>1 DEF OrderIsComplete
  <1>5. ASSUME NEW i \in Page
        PROVE  visitcount'[order[i]] = IF i <= mapindex THEN KeptCount(i) ELSE visitcount[order[i]]
    <2>1. CASE i = mapindex
      BY <1>1, <1>2, <1>4, <2>1, PageFacts DEF KeptCount
    <2>2. CASE i # mapindex
      BY <1>1, <1>2, <1>4, <2>2, PageFacts DEF KeptCount
    <2> QED
      BY <2>1, <2>2
  <1>6. /\ pc' = "remap" => ~last /\ mapindex' = mapindex + 1
        /\ pc' = "ready" => mapindex + 1 = maxpagenums
    BY <1>3 DEF Continue, NextIndex
  <1> QED
    BY <1>1, <1>2, <1>3, <1>5, <1>6

(* The remap begins, and goes on, with the hottest address that is left. *)
LEMMA HotFirstStep ==
    ASSUME Inv, HotFirst, [Next]_vars
    PROVE  HotFirst'
  <1> SUFFICES ASSUME pc' = "remap", NEW i \in Page, NEW j \in Page, i <= j
               PROVE  KeptCount(j)' <= KeptCount(i)'
    BY DEF HotFirst
  <1>1. ASSUME NEW l \in Requests, AccessClimb(l) PROVE FALSE
    BY <1>1 DEF AccessClimb, Climber, NoClimb, Exchange
  <1>2. CASE AccessWrite
    <2>1. BeginRemap /\ visitcount' = visitcount /\ visitcount \in [Page -> Nat]
      BY <1>2 DEF AccessWrite, ClearInstead, Inv, TypeOK
    <2>2. PICK s \in AscendingOrders(visitcount), zeropoint \in Page :
             IsZeropoint(s, zeropoint) /\ order' = VisitOrder(s, zeropoint)
      BY <2>1 DEF BeginRemap
    <2>3. visitcount[order'[j]] <= visitcount[order'[i]]
      BY <2>1, <2>2, VisitOrderIsDescending
    <2>4. order' \in [Page -> Page]
      BY <1>2, NextInv DEF Next, Inv, TypeOK
    <2>5. KeptCount(i)' = HalfCleared(visitcount[order'[i]])
          /\ KeptCount(j)' = HalfCleared(visitcount[order'[j]])
      BY <2>1, PageFacts DEF BeginRemap, KeptCount, HalfCleared
    <2> QED
      BY <2>1, <2>3, <2>4, <2>5, HalfClearedKeepsOrder
  <1>3. CASE RemapStep
    <2>1. \A k \in Page : KeptCount(k)' = KeptCount(k)
      <3> SUFFICES ASSUME NEW k \in Page PROVE KeptCount(k)' = KeptCount(k)
        OBVIOUS
      <3>1. /\ order' = order /\ mapindex' = mapindex + 1 /\ mapindex \in Page
            /\ visitcount'[order[k]] = IF k <= mapindex THEN KeptCount(k) ELSE visitcount[order[k]]
        BY <1>3, PlacingKeepsCounts
      <3>2. CASE k <= mapindex
        BY <3>1, <3>2, PageFacts DEF KeptCount
      <3>3. CASE ~(k <= mapindex)
        BY <3>1, <3>3, PageFacts DEF KeptCount, HalfCleared
      <3> QED
        BY <3>2, <3>3
    <2>2. pc = "remap"
      BY <1>3, PlacingKeepsCounts
    <2> QED
      BY <2>1, <2>2 DEF HotFirst
  <1>4. CASE UNCHANGED vars \/ (Stopped /\ UNCHANGED <<visitcount, order>>)
    BY <1>4 DEF vars, coreVars, Stopped, HotFirst, KeptCount, HalfCleared
  <1> QED
    BY <1>1, <1>2, <1>3, <1>4 DEF Next

(* Scrambling keeps a rank in its region. *)
LEMMA PlacedRankKeepsRegion ==
    ASSUME randomkey \in 0 .. regionsize - 1, NEW i \in Page
    PROVE  /\ RegionOf(PlacedRank(i)) = RegionOf(maxpagenums - 1 - i)
           /\ ~randomenable => PlacedRank(i) = maxpagenums - 1 - i
  BY XorAssumption DEF PlacedRank, RegionOf

(* What is placed earlier gets the higher rank, scrambled or not. *)
LEMMA EarlierIsHigher ==
    ASSUME randomkey \in 0 .. regionsize - 1, NEW i \in Page, NEW j \in Page, i < j
    PROVE  /\ RegionOf(PlacedRank(i)) >= RegionOf(PlacedRank(j))
           /\ ~randomenable => PlacedRank(i) > PlacedRank(j)
  <1>1. /\ maxpagenums - 1 - i \in Nat /\ maxpagenums - 1 - j \in Nat
        /\ maxpagenums - 1 - i > maxpagenums - 1 - j
    BY PageFacts
  <1>2. RegionOf(maxpagenums - 1 - i) >= RegionOf(maxpagenums - 1 - j)
    BY <1>1, GeometryAssumption, GroupQuotient DEF RegionOf
  <1> QED
    BY <1>1, <1>2, PlacedRankKeepsRegion

(* What the order promises of the ranks given out. *)
LEMMA HotterIsHigher ==
    ASSUME Inv, HotFirst, RemapStep, pc' = "ready", NEW a \in Page, NEW b \in Page,
           visitcount'[a] > visitcount'[b]
    PROVE  /\ RegionOf(climbla2hot'[a]) >= RegionOf(climbla2hot'[b])
           /\ ~randomenable => climbla2hot'[a] > climbla2hot'[b]
  <1>1. /\ mapindex \in Page /\ mapindex + 1 = maxpagenums /\ OrderIsComplete
        /\ \A i \in Page : visitcount'[order[i]] = KeptCount(i)
        /\ climbla2hot' = [climbla2hot EXCEPT ![order[mapindex]] = PlacedRank(mapindex)]
        /\ pc = "remap" /\ order \in [Page -> Page]
    BY PlacingKeepsCounts, PageFacts
  <1>2. climbla2hot \in [Page -> Page] /\ randomkey \in 0 .. regionsize - 1
    BY DEF Inv, TypeOK, CoreTypeOK
  <1>3. \A i \in Page : climbla2hot'[order[i]] = PlacedRank(i)
    <2> SUFFICES ASSUME NEW i \in Page PROVE climbla2hot'[order[i]] = PlacedRank(i)
      OBVIOUS
    <2>1. CASE i = mapindex
      BY <1>1, <1>2, <2>1
    <2>2. CASE i # mapindex
      <3>1. i \in 0 .. mapindex - 1 /\ order[i] # order[mapindex]
        BY <1>1, <2>2, PageFacts DEF OrderIsComplete
      <3>2. PlacedAddress(i) = order[i] /\ climbla2hot[PlacedAddress(i)] = PlacedRank(i)
        BY <1>1, <3>1 DEF Inv, RemapFollowsOrder, RemapSettles
      <3> QED
        BY <1>1, <1>2, <3>1, <3>2
    <2> QED
      BY <2>1, <2>2
  <1>4. PICK i \in Page, j \in Page : order[i] = a /\ order[j] = b
    BY <1>1 DEF OrderIsComplete
  <1>5. KeptCount(i) > KeptCount(j)
    BY <1>1, <1>4
  <1>6. KeptCount(i) \in Nat /\ KeptCount(j) \in Nat
    BY HalfClearedIsCount DEF KeptCount, Inv, TypeOK
  <1>7. ~(j <= i)
    BY <1>1, <1>5, <1>6 DEF HotFirst
  <1>8. i < j
    BY <1>7, PageFacts
  <1> QED
    BY <1>2, <1>3, <1>4, <1>8, EarlierIsHigher

(* It holds whenever the remap runs. *)
LEMMA HotFirstInit == Init => HotFirst
  BY DEF Init, CoreInit, HotFirst

THEOREM HotAlwaysOnStrong == Spec => HotOnStrong
  <1> DEFINE Ranked ==
        pc = "remap" /\ pc' = "ready" =>
          \A a, b \in Page : visitcount'[a] > visitcount'[b] =>
              /\ RegionOf(climbla2hot'[a]) >= RegionOf(climbla2hot'[b])
              /\ ~randomenable => climbla2hot'[a] > climbla2hot'[b]
  <1>1. Init => Inv /\ HotFirst
    BY InitInv, HotFirstInit
  <1>2. Inv /\ HotFirst /\ [Next]_vars => (Inv /\ HotFirst)'
    BY NextInv, HotFirstStep
  <1>3. Inv /\ HotFirst /\ [Next]_vars => [Ranked]_vars
    <2> SUFFICES ASSUME Inv, HotFirst, [Next]_vars, pc = "remap", pc' = "ready" PROVE Ranked
      OBVIOUS
    <2>1. RemapStep
      BY DEF Next, AccessClimb, Driving, AccessWrite, Stopped, vars, coreVars
    <2> QED
      BY <2>1, HotterIsHigher
  <1> QED
    BY <1>1, <1>2, <1>3, PTL DEF Spec, HotOnStrong

-----------------------------------------------------------------------------
(* The refinement: a call of access() is one write of WearLeveling. *)

(* The placements that the climb of the call under way may leave. *)
IsClimbed(m) ==
    m = before.map \/ \E p \in Page : m = WL!Exchanged(before.map, addr_temp, p)

(* The pages that the climb charges, if it leaves m. *)
ClimbCost(m) == IF m = before.map THEN {} ELSE {before.map[addr_temp]}

(* The lives once the climb has left m, the pages written have got data, and *)
(* the pages again have been charged once more.                              *)
LivesAfter(m, written, again) ==
    [p \in Page |-> before.life[p] - WL!Paid(p, ClimbCost(m)) - WL!Paid(p, written)
                                  - WL!Paid(p, again)]

(***************************************************************************)
(* The remap started from m.  The addresses still to be placed are where   *)
(* m has them; the page that took the write and the pages left so far have *)
(* been charged, each of them once.                                        *)
(***************************************************************************)
RemapCharges(m) ==
    /\ m \in [Page -> Page] /\ \A x, y \in Page : m[x] = m[y] => x = y
    /\ IsClimbed(m) /\ host = m[addr_temp]
    /\ \A i \in Page : mapindex <= i => maplist[order[i]] = m[order[i]]
    /\ lifelist = LivesAfter(m, {host} \cup WL!Moved(m, maplist), {})

(***************************************************************************)
(* What the call under way has charged so far, compared with the state it  *)
(* started from.  It is what makes the charges of climber(), access() and  *)
(* doswap(), each made in a step of its own, add up to one abstract write. *)
(***************************************************************************)
CallInv ==
    /\ before.map \in [Page -> Page] /\ before.life \in [Page -> Int]
    /\ pc = "ready" => before = Snapshot
    /\ pc = "write" => IsClimbed(maplist) /\ lifelist = LivesAfter(maplist, {}, {})
    /\ pc = "remap" => \E m \in [Page -> Page] : RemapCharges(m)

(* A page pays for data once. *)
LEMMA PaidFacts ==
    \A p, S : WL!Paid(p, S) = (IF p \in S THEN 1 ELSE 0)
  BY DEF WL!Paid

(* A charge adds its page to those that have paid for their data, or to     *)
(* those that pay again.                                                    *)
LEMMA ChargedOnce ==
    ASSUME before.life \in [Page -> Int], NEW m, NEW written, NEW again,
           lifelist = LivesAfter(m, written, again), NEW p \in Page, Charge(p)
    PROVE  /\ p \notin written => lifelist' = LivesAfter(m, written \cup {p}, again)
           /\ p \notin again => lifelist' = LivesAfter(m, written, again \cup {p})
  <1>1. lifelist' = [q \in Page |-> IF q = p THEN lifelist[q] - 1 ELSE lifelist[q]]
    BY DEF Charge, LivesAfter
  <1>2. \A q \in Page :
           /\ before.life[q] \in Int /\ WL!Paid(q, ClimbCost(m)) \in Int
           /\ WL!Paid(q, written) \in Int /\ WL!Paid(q, again) \in Int
           /\ lifelist[q] = before.life[q] - WL!Paid(q, ClimbCost(m)) - WL!Paid(q, written)
                                          - WL!Paid(q, again)
    BY PaidFacts DEF LivesAfter
  <1>3. ASSUME NEW S, p \notin S, NEW q \in Page
        PROVE  WL!Paid(q, S \cup {p}) = IF q = p THEN WL!Paid(q, S) + 1 ELSE WL!Paid(q, S)
    BY <1>3, PaidFacts
  <1>4. ASSUME p \notin written PROVE lifelist' = LivesAfter(m, written \cup {p}, again)
    <2>1. \A q \in Page :
             lifelist'[q] = before.life[q] - WL!Paid(q, ClimbCost(m)) - WL!Paid(q, written \cup {p})
                                          - WL!Paid(q, again)
      BY <1>1, <1>2, <1>3, <1>4
    <2> QED
      BY <1>1, <2>1 DEF LivesAfter
  <1>5. ASSUME p \notin again PROVE lifelist' = LivesAfter(m, written, again \cup {p})
    <2>1. \A q \in Page :
             lifelist'[q] = before.life[q] - WL!Paid(q, ClimbCost(m)) - WL!Paid(q, written)
                                          - WL!Paid(q, again \cup {p})
      BY <1>1, <1>2, <1>3, <1>5
    <2> QED
      BY <1>1, <2>1 DEF LivesAfter
  <1> QED
    BY <1>4, <1>5

(* A worn page that has paid once in this call had one write left.          *)
LEMMA WornLife ==
    ASSUME before.life \in [Page -> Int], NEW m, NEW written, NEW again,
           lifelist = LivesAfter(m, written, again), NEW p \in Page, ~Survives(p),
           WL!Paid(p, ClimbCost(m)) + WL!Paid(p, written) + WL!Paid(p, again) <= 1
    PROVE  before.life[p] <= 1
  <1>1. lifelist[p] = before.life[p] - WL!Paid(p, ClimbCost(m)) - WL!Paid(p, written) - WL!Paid(p, again)
    BY DEF LivesAfter
  <1>2. /\ WL!Paid(p, written) \in Int /\ WL!Paid(p, ClimbCost(m)) \in Int /\ WL!Paid(p, again) \in Int
        /\ before.life[p] \in Int
    BY PaidFacts
  <1> QED
    BY <1>1, <1>2 DEF Survives

(* A climb exchanges the address with one other, and pays for one page. *)
LEMMA ClimbFacts ==
    ASSUME CoreTypeOK, Consistent,
           NEW l \in Page, NEW paced, NEW c, NEW counts, Climber(l, paced, c, counts)
    PROVE  \/ pc' = "write" /\ maplist' = maplist /\ lifelist' = lifelist
           \/ /\ pc' = "write" /\ Charge(maplist[l])
              /\ \E p \in Page : p # maplist[l] /\ maplist' = WL!Exchanged(maplist, l, p)
           \/ pc' = "worn" /\ \E p \in Page : lifelist[p] <= 0
  <1>1. TablesTyped /\ lifelist \in [Page -> Int]
    BY DEF CoreTypeOK, TablesTyped
  <1>2. CASE NoClimb
    BY <1>2 DEF NoClimb, tables
  <1>3. CASE ~NoClimb
    <2>1. PICK rank \in TargetRanks(l) :
             /\ WorthSwapping(l, sortednow[rank], c, counts[reverselist[sortednow[rank]]])
             /\ Exchange(l, sortednow[rank])
      BY <1>3 DEF Climber
    <2> DEFINE target == sortednow[rank]
               page == maplist[l]
               tarla == reverselist[target]
    <2>2. rank \in Page
      BY TargetRanksAreOthers DEF CoreTypeOK
    <2>3. target \in Page /\ page \in Page /\ tarla \in Page
      BY <2>2, <1>1, OrdersAssumption DEF CoreTypeOK, TablesTyped
    <2>4. target # page
      BY <2>1, <2>3, <1>1, WorthSwappingIsOther DEF TablesTyped
    <2>5. Exchange(l, target)
      BY <2>1
    <2> HIDE DEF target
    <2>6. CASE Survives(page)
      <3>1. /\ maplist' = [maplist EXCEPT ![l] = target, ![tarla] = page]
            /\ pc' = "write" /\ Charge(page)
        BY <2>5, <2>6 DEF Exchange
      <3>2. tarla # l /\ \A x \in Page : maplist[x] = target <=> x = tarla
        BY <2>3, <2>4 DEF Consistent
      <3>3. \A x \in Page : maplist'[x] = IF x = l THEN target ELSE IF x = tarla THEN page ELSE maplist[x]
        BY <1>1, <2>3, <3>1, <3>2 DEF TablesTyped
      <3>4. ASSUME NEW x \in Page
            PROVE  (CASE x = l -> target
                      [] x # l /\ maplist[x] = target -> maplist[l]
                      [] OTHER -> maplist[x])
                   = IF x = l THEN target ELSE IF x = tarla THEN page ELSE maplist[x]
        BY <3>2
      <3>5. maplist' \in [Page -> Page]
        BY <1>1, <2>3, <3>1 DEF TablesTyped
      <3>6. maplist' = WL!Exchanged(maplist, l, target)
        BY <3>3, <3>4, <3>5 DEF WL!Exchanged
      <3> QED
        BY <2>3, <2>4, <3>1, <3>6
    <2>7. CASE ~Survives(page)
      <3>1. pc' = "worn"
        BY <2>5, <2>7 DEF Exchange
      <3> QED
        BY <1>1, <2>3, <2>7, <3>1 DEF Survives
    <2> QED
      BY <2>6, <2>7
  <1> QED
    BY <1>2, <1>3

(* What the climb charges is what it owes. *)
LEMMA ClimbCharges ==
    ASSUME before.map = maplist, before.life = lifelist, before' = before,
           lifelist \in [Page -> Int], maplist \in [Page -> Page], NEW l \in Page, addr_temp' = l,
           \/ maplist' = maplist /\ lifelist' = lifelist
           \/ /\ Charge(maplist[l])
              /\ \E p \in Page : p # maplist[l] /\ maplist' = WL!Exchanged(maplist, l, p)
    PROVE  IsClimbed(maplist)' /\ (lifelist = LivesAfter(maplist, {}, {}))'
  <1>1. CASE maplist' = maplist /\ lifelist' = lifelist
    <2>1. ClimbCost(maplist)' = {}
      BY <1>1 DEF ClimbCost
    <2>2. ASSUME NEW p \in Page PROVE lifelist[p] = lifelist[p] - WL!Paid(p, {}) - WL!Paid(p, {}) - WL!Paid(p, {})
      BY PaidFacts
    <2>3. lifelist = [p \in Page |-> lifelist[p] - WL!Paid(p, {}) - WL!Paid(p, {}) - WL!Paid(p, {})]
      BY <2>2
    <2> QED
      BY <1>1, <2>1, <2>3 DEF IsClimbed, LivesAfter
  <1>2. ASSUME Charge(maplist[l]),
               NEW p \in Page, p # maplist[l], maplist' = WL!Exchanged(maplist, l, p)
        PROVE  IsClimbed(maplist)' /\ (lifelist = LivesAfter(maplist, {}, {}))'
    <2>1. maplist'[l] = p
      BY <1>2 DEF WL!Exchanged
    <2>2. ClimbCost(maplist)' = {maplist[l]}
      BY <1>2, <2>1 DEF ClimbCost
    <2>3. lifelist' = [q \in Page |-> lifelist[q] - WL!Paid(q, {maplist[l]}) - WL!Paid(q, {}) - WL!Paid(q, {})]
      <3>1. lifelist' = [q \in Page |-> IF q = maplist[l] THEN lifelist[q] - 1 ELSE lifelist[q]]
        BY <1>2 DEF Charge
      <3>2. ASSUME NEW q \in Page
            PROVE  lifelist[q] - WL!Paid(q, {maplist[l]}) - WL!Paid(q, {}) - WL!Paid(q, {})
                   = IF q = maplist[l] THEN lifelist[q] - 1 ELSE lifelist[q]
        BY PaidFacts
      <3> QED
        BY <3>1, <3>2
    <2>4. IsClimbed(maplist)'
      BY <1>2 DEF IsClimbed
    <2> QED
      BY <2>2, <2>3, <2>4 DEF LivesAfter
  <1> QED
    BY <1>1, <1>2

(* A step of the detailed scheme, as WearLeveling sees it. *)
Seen == [WL!Next]_(WL!wvars)

(* A call that meets a worn page had a page at the end of its life. *)
LEMMA WornSeen ==
    ASSUME CallInv, Remembers, pc # "worn", pc' = "worn",
           NEW p \in Page, before.life[p] <= 1
    PROVE  CallInv' /\ Seen
  <1>1. before' = before
    BY DEF Remembers
  <1>2. CallInv'
    BY <1>1 DEF CallInv
  <1>3. WL!WearOut
    BY <1>1 DEF WL!WearOut
  <1> QED
    BY <1>2, <1>3 DEF Seen, WL!Next

(* A call that goes on is not seen. *)
LEMMA UnderWayUnseen ==
    ASSUME Remembers, pc # "worn", pc' \in {"write", "remap"}
    PROVE  before' = before /\ Seen
  BY DEF Remembers, Seen, WL!wvars

(* A call that returns is seen as one write. *)
LEMMA ReturnSeen ==
    ASSUME Inv', CallInv, Remembers, pc # "worn", pc' = "ready", addr_temp \in Page,
           NEW m \in [Page -> Page], IsClimbed(m),
           lifelist' = LivesAfter(m, {m[addr_temp]} \cup WL!Moved(m, maplist'), {})
    PROVE  CallInv' /\ Seen
  <1>1. before' = Snapshot' /\ before'.map = maplist' /\ before'.life = lifelist'
    BY DEF Remembers, Snapshot
  <1>2. /\ maplist' \in [Page -> Page] /\ reverselist' \in [Page -> Page] /\ lifelist' \in [Page -> Int]
        /\ Consistent' /\ \A p \in Page : lifelist'[p] >= 0
    BY DEF Inv, TypeOK, CoreTypeOK, TablesAgree, StopsAtFirstWornPage
  <1>3. CallInv'
    BY <1>1, <1>2 DEF CallInv
  <1>4. WL!IsPlacement(maplist')
    BY <1>2 DEF WL!IsPlacement, Consistent
  <1>5. m \in {before.map} \cup {WL!Exchanged(before.map, addr_temp, p) : p \in Page}
    BY DEF IsClimbed
  <1>6. lifelist' = [p \in Page |-> before.life[p] - WL!Paid(p, ClimbCost(m))
                        - WL!Paid(p, {m[addr_temp]} \cup WL!Moved(m, maplist')) - WL!Paid(p, {})]
    BY DEF LivesAfter
  <1>7. \E climbed \in {before.map} \cup {WL!Exchanged(before.map, addr_temp, p) : p \in Page} :
           LET climb == IF climbed = before.map THEN {} ELSE {before.map[addr_temp]}
               write == {climbed[addr_temp]} \cup WL!Moved(climbed, before'.map)
           IN  \E again \in IF FALSE THEN {{}, {climbed[addr_temp]}} ELSE {{}} :
                   before'.life = [p \in Page |-> before.life[p] - WL!Paid(p, climb)
                                      - WL!Paid(p, write) - WL!Paid(p, again)]
    <2> WITNESS m \in {before.map} \cup {WL!Exchanged(before.map, addr_temp, p) : p \in Page}
    <2> QED
      BY <1>1, <1>6 DEF ClimbCost
  <1>8. /\ pc # "worn" /\ WL!IsPlacement(before'.map)
        /\ \A p \in Page : before'.life[p] >= 0
        /\ UNCHANGED (pc # "worn")
    BY <1>1, <1>2, <1>4
  <1>9. WL!Write(addr_temp)
    BY <1>7, <1>8, Zenon DEF WL!Write
  <1> QED
    BY <1>3, <1>9 DEF Seen, WL!Next

(* The climb. *)
LEMMA ClimbSeen ==
    ASSUME Inv, CallInv, Remembers, NEW l \in Requests, AccessClimb(l)
    PROVE  CallInv' /\ Seen
  <1>1. l \in Page /\ pc = "ready" /\ addr_temp' = l
    BY RequestsAssumption DEF AccessClimb, Driving
  <1>2. CoreTypeOK /\ Consistent
    BY <1>1 DEF Inv, TypeOK, TablesAgree
  <1>3. before.map = maplist /\ before.life = lifelist /\ lifelist \in [Page -> Int]
        /\ maplist \in [Page -> Page]
    BY <1>1, <1>2 DEF CallInv, Snapshot, CoreTypeOK
  <1>4. \/ pc' = "write" /\ maplist' = maplist /\ lifelist' = lifelist
        \/ /\ pc' = "write" /\ Charge(maplist[l])
           /\ \E p \in Page : p # maplist[l] /\ maplist' = WL!Exchanged(maplist, l, p)
        \/ pc' = "worn" /\ \E p \in Page : lifelist[p] <= 0
    <2> DEFINE counted == [visitcount EXCEPT ![l] = @ + 1]
    <2>1. Climber(l, counted[l], counted[l], counted)
      BY DEF AccessClimb
    <2> HIDE DEF counted
    <2> QED
      BY <1>1, <1>2, <2>1, ClimbFacts
  <1>5. CASE pc' = "worn"
    <2>1. PICK p \in Page : lifelist[p] <= 0
      BY <1>4, <1>5
    <2>2. before.life[p] <= 1
      BY <1>3, <2>1
    <2> QED
      BY <1>1, <1>5, <2>2, WornSeen
  <1>6. CASE pc' = "write"
    <2>1. before' = before /\ Seen
      BY <1>1, <1>6, UnderWayUnseen
    <2>2. IsClimbed(maplist)' /\ (lifelist = LivesAfter(maplist, {}, {}))'
      BY <1>1, <1>3, <1>4, <1>6, <2>1, ClimbCharges
    <2> QED
      BY <1>6, <2>1, <2>2 DEF CallInv
  <1> QED
    BY <1>4, <1>5, <1>6

(* Nothing has moved from where it is. *)
LEMMA NothingMoved == \A m : WL!Moved(m, m) = {}
  BY DEF WL!Moved

(* The write. *)
LEMMA WriteSeen ==
    ASSUME Inv, Inv', CallInv, Remembers, AccessWrite
    PROVE  CallInv' /\ Seen
  <1> DEFINE page == maplist[addr_temp]
  <1>1. /\ pc = "write" /\ Charge(page) /\ maplist' = maplist /\ addr_temp' = addr_temp
        /\ ~Survives(page) => pc' = "worn"
        /\ Survives(page) => \/ pc' = "remap" /\ host' = page /\ mapindex' = 0
                             \/ pc' = "ready"
    BY DEF AccessWrite, BeginRemap, ClearInstead, tables
  <1>2. /\ IsClimbed(maplist) /\ lifelist = LivesAfter(maplist, {}, {}) /\ Consistent
        /\ maplist \in [Page -> Page] /\ lifelist \in [Page -> Int] /\ addr_temp \in Page
        /\ before.life \in [Page -> Int] /\ page \in Page
    BY <1>1 DEF CallInv, Inv, TypeOK, CoreTypeOK, TablesAgree
  <1>3. CASE ~Survives(page)
    <2>1. before.life[page] <= 1
      BY <1>2, <1>3, PaidFacts, WornLife
    <2> QED
      BY <1>1, <1>2, <1>3, <2>1, WornSeen
  <1>4. ASSUME Survives(page) PROVE lifelist' = LivesAfter(maplist, {page} \cup WL!Moved(maplist, maplist'), {})
    <2>1. lifelist' = LivesAfter(maplist, {} \cup {page}, {})
      BY <1>1, <1>2, ChargedOnce
    <2>2. {} \cup {page} = {page} \cup WL!Moved(maplist, maplist')
      BY <1>1, NothingMoved
    <2> QED
      BY <2>1, <2>2
  <1>5. CASE Survives(page) /\ pc' = "remap" /\ host' = page /\ mapindex' = 0
    <2>1. before' = before /\ Seen
      BY <1>1, <1>5, UnderWayUnseen
    <2>2. \A x, y \in Page : maplist[x] = maplist[y] => x = y
      BY <1>2 DEF Consistent
    <2>3. order' \in [Page -> Page]
      BY DEF Inv, TypeOK
    <2>4. IsClimbed(maplist)'
      BY <1>1, <1>2, <2>1 DEF IsClimbed
    <2>5. lifelist' = LivesAfter(maplist, {host} \cup WL!Moved(maplist, maplist), {})'
      BY <1>1, <1>4, <1>5, <2>1 DEF LivesAfter, ClimbCost
    <2>6. RemapCharges(maplist)'
      BY <1>1, <1>2, <1>5, <2>2, <2>3, <2>4, <2>5 DEF RemapCharges
    <2>7. \E m \in [Page -> Page] : RemapCharges(m)'
      BY <1>1, <1>2, <2>6
    <2> QED
      BY <1>5, <2>1, <2>7 DEF CallInv
  <1>6. CASE Survives(page) /\ pc' = "ready"
    BY <1>1, <1>2, <1>4, <1>6, ReturnSeen
  <1> QED
    BY <1>1, <1>3, <1>5, <1>6

(* Placing one more address adds the page it leaves, if it leaves it. *)
LEMMA MovedGrows ==
    ASSUME NEW m \in [Page -> Page], \A x, y \in Page : m[x] = m[y] => x = y,
           maplist \in [Page -> Page], NEW v \in Page, maplist[v] = m[v],
           NEW p \in Page, maplist' = [maplist EXCEPT ![v] = p]
    PROVE  /\ m[v] \notin WL!Moved(m, maplist)
           /\ WL!Moved(m, maplist') = WL!Moved(m, maplist) \cup (IF p = m[v] THEN {} ELSE {m[v]})
  BY DEF WL!Moved

(* One iteration of the remap. *)
LEMMA RemapSeen ==
    ASSUME Inv, Inv', CallInv, Remembers, RemapStep
    PROVE  CallInv' /\ Seen
  <1> DEFINE v == order[mapindex]
             last == NextIndex(mapindex) = maxpagenums
  <1>1. Place(v, HcOwed(v), last) /\ pc = "remap"
    BY DEF RemapStep, Place
  <1>2. PICK m \in [Page -> Page] : RemapCharges(m)
    BY <1>1 DEF CallInv
  <1>3. /\ mapindex \in Page /\ order \in [Page -> Page] /\ v \in Page /\ OrderIsComplete
        /\ maplist \in [Page -> Page] /\ lifelist \in [Page -> Int] /\ addr_temp \in Page
        /\ before.map \in [Page -> Page] /\ before.life \in [Page -> Int]
        /\ randomkey \in 0 .. regionsize - 1 /\ sortednow \in Orders
    BY <1>1 DEF Inv, TypeOK, CoreTypeOK, RemapFollowsOrder, CallInv
  <1>4. NewPage \in Page
    BY <1>3, PlacedRankIsInjective, OrdersAssumption DEF NewPage
  <1>5. /\ maplist[v] = m[v] /\ m[v] \in Page /\ host = m[addr_temp] /\ IsClimbed(m)
        /\ \A x, y \in Page : m[x] = m[y] => x = y
        /\ lifelist = LivesAfter(m, {host} \cup WL!Moved(m, maplist), {})
    BY <1>2, <1>3, PageFacts DEF RemapCharges
  <1>6. m[v] \notin WL!Moved(m, maplist)
    BY <1>5, <1>3 DEF WL!Moved
  <1>7. CASE HcOwed(v) /\ ~Survives(maplist[v])
    <2>1. pc' = "worn"
      BY <1>1, <1>7 DEF Place
    <2>2. maplist[v] \notin {host} \cup WL!Moved(m, maplist)
      BY <1>5, <1>6, <1>7 DEF HcOwed
    <2>3. before.life[maplist[v]] <= 1
      <3> DEFINE p == maplist[v]
                 paid == {host} \cup WL!Moved(m, maplist)
      <3>1. WL!Paid(p, ClimbCost(m)) + WL!Paid(p, paid) + WL!Paid(p, {}) <= 1
        BY <2>2, PaidFacts
      <3>2. p \in Page /\ ~Survives(p) /\ lifelist = LivesAfter(m, paid, {})
        BY <1>3, <1>5, <1>7
      <3> HIDE DEF p, paid
      <3>3. before.life[p] <= 1
        BY <1>3, <3>1, <3>2, WornLife
      <3> QED
        BY <3>3 DEF p
    <2> QED
      BY <1>1, <1>3, <1>5, <2>1, <2>3, WornSeen
  <1>8. CASE ~(HcOwed(v) /\ ~Survives(maplist[v]))
    <2>1. /\ maplist' = [maplist EXCEPT ![v] = NewPage] /\ Continue(last) /\ addr_temp' = addr_temp
          /\ IF HcOwed(v) THEN Charge(maplist[v]) ELSE UNCHANGED lifelist
      BY <1>1, <1>8 DEF Place
    <2>2. WL!Moved(m, maplist') = WL!Moved(m, maplist) \cup (IF NewPage = m[v] THEN {} ELSE {m[v]})
      BY <1>3, <1>4, <1>5, <2>1, MovedGrows
    <2>3. lifelist' = LivesAfter(m, {host} \cup WL!Moved(m, maplist'), {})
      <3>1. CASE HcOwed(v)
        <4>1. lifelist' = LivesAfter(m, ({host} \cup WL!Moved(m, maplist)) \cup {m[v]}, {})
          <5> DEFINE paid == {host} \cup WL!Moved(m, maplist)
          <5>1. m[v] \notin paid /\ Charge(m[v]) /\ lifelist = LivesAfter(m, paid, {})
            BY <1>5, <1>6, <2>1, <3>1 DEF HcOwed
          <5> HIDE DEF paid
          <5>2. lifelist' = LivesAfter(m, paid \cup {m[v]}, {})
            <6>1. m[v] \in Page /\ before.life \in [Page -> Int]
              BY <1>3, <1>5
            <6> QED
              BY <5>1, <6>1, ChargedOnce, Zenon
          <5> QED
            BY <5>2 DEF paid
        <4>2. ({host} \cup WL!Moved(m, maplist)) \cup {m[v]} = {host} \cup WL!Moved(m, maplist')
          BY <1>5, <2>2, <3>1 DEF HcOwed
        <4> QED
          BY <4>1, <4>2
      <3>2. CASE ~HcOwed(v)
        <4>1. {host} \cup WL!Moved(m, maplist) = {host} \cup WL!Moved(m, maplist')
          BY <1>5, <2>2, <3>2 DEF HcOwed
        <4> QED
          BY <1>5, <2>1, <3>2, <4>1
      <3> QED
        BY <3>1, <3>2
    <2>4. CASE last
      <3>1. pc' = "ready" /\ lifelist' = LivesAfter(m, {m[addr_temp]} \cup WL!Moved(m, maplist'), {})
        BY <1>5, <2>1, <2>3, <2>4 DEF Continue
      <3> QED
        BY <1>1, <1>3, <1>5, <3>1, ReturnSeen
    <2>5. CASE ~last
      <3>1. /\ pc' = "remap" /\ mapindex' = mapindex + 1 /\ host' = host /\ order' = order
            /\ before' = before /\ Seen
        BY <1>1, <2>1, <2>5, UnderWayUnseen DEF Continue, NextIndex, RemapStep
      <3>2. ASSUME NEW i \in Page, mapindex' <= i
            PROVE  maplist'[order[i]] = m[order[i]]
        <4>1. order[i] \in Page /\ order[i] # v /\ mapindex <= i
          BY <1>3, <3>1, <3>2, PageFacts DEF OrderIsComplete
        <4>2. maplist[order[i]] = m[order[i]]
          BY <1>2, <4>1 DEF RemapCharges
        <4> QED
          BY <1>3, <2>1, <4>1, <4>2
      <3>3. IsClimbed(m)' /\ lifelist' = LivesAfter(m, {host} \cup WL!Moved(m, maplist), {})'
        BY <1>5, <2>1, <2>3, <3>1 DEF IsClimbed, LivesAfter, ClimbCost
      <3>4. RemapCharges(m)'
        BY <1>5, <2>1, <3>1, <3>2, <3>3 DEF RemapCharges
      <3> QED
        BY <1>3, <3>1, <3>4 DEF CallInv
    <2> QED
      BY <2>4, <2>5
  <1> QED
    BY <1>7, <1>8

(* A step that changes nothing is not seen. *)
LEMMA StutterSeen ==
    ASSUME CallInv, UNCHANGED vars, Remembers \/ before' = before
    PROVE  CallInv' /\ Seen
  <1>1. /\ UNCHANGED <<pc, maplist, lifelist, addr_temp, host, mapindex, order>>
    BY DEF vars, coreVars
  <1>2. before' = before
    BY <1>1 DEF Remembers, CallInv, Snapshot
  <1>3. Seen
    BY <1>1, <1>2 DEF Seen, WL!wvars
  <1>4. /\ \A m, S, T : LivesAfter(m, S, T)' = LivesAfter(m, S, T)
        /\ \A m : IsClimbed(m)' <=> IsClimbed(m)
    BY <1>1, <1>2 DEF LivesAfter, ClimbCost, IsClimbed
  <1>5. ASSUME NEW m PROVE RemapCharges(m)' <=> RemapCharges(m)
    BY <1>1, <1>2, <1>4 DEF RemapCharges
  <1>6. CallInv'
    BY <1>1, <1>2, <1>4, <1>5 DEF CallInv, Snapshot
  <1> QED
    BY <1>3, <1>6

(* Every call of access() is a write of the abstract memory: it leaves a    *)
(* placement, and it has charged exactly the pages that received data, in   *)
(* the climb, the write and the remap taken together; and a call fails only *)
(* when a page could not take what that write demands of it.                *)
THEOREM WearLevelingKept == HSpec => ImplementsWearLeveling
  <1>1. HInit => Inv /\ CallInv /\ WL!Init
    <2> SUFFICES ASSUME HInit PROVE Inv /\ CallInv /\ WL!Init
      OBVIOUS
    <2>1. Inv
      BY InitInv DEF HInit
    <2>2. /\ before.map = Identity /\ before.life = lifelist2 /\ before = Snapshot /\ pc = "ready"
          /\ maplist = Identity /\ lifelist = lifelist2
      BY DEF HInit, Init, CoreInit, Snapshot
    <2>3. CallInv
      BY <2>1, <2>2 DEF CallInv, Inv, TypeOK, CoreTypeOK
    <2> QED
      BY <2>1, <2>2, <2>3 DEF WL!Init, Identity
  <1>2. Inv /\ CallInv /\ [HNext]_hvars => Inv' /\ CallInv' /\ Seen
    <2> SUFFICES ASSUME Inv, CallInv, [HNext]_hvars PROVE Inv' /\ CallInv' /\ Seen
      OBVIOUS
    <2>1. Inv'
      BY NextInv DEF HNext, hvars
    <2>2. CASE UNCHANGED hvars
      BY <2>1, <2>2, StutterSeen DEF hvars
    <2>3. CASE HNext
      <3>1. Next /\ Remembers
        BY <2>3 DEF HNext
      <3>2. ASSUME NEW l \in Requests, AccessClimb(l) PROVE CallInv' /\ Seen
        BY <3>1, <3>2, ClimbSeen
      <3>3. CASE AccessWrite
        BY <2>1, <3>1, <3>3, WriteSeen
      <3>4. CASE RemapStep
        BY <2>1, <3>1, <3>4, RemapSeen
      <3>5. CASE Stopped /\ UNCHANGED <<visitcount, order>>
        <4>1. UNCHANGED vars
          BY <3>5 DEF Stopped, vars
        <4> QED
          BY <2>1, <3>1, <4>1, StutterSeen
      <3> QED
        BY <2>1, <3>1, <3>2, <3>3, <3>4, <3>5 DEF Next
    <2> QED
      BY <2>2, <2>3
  <1> QED
    BY <1>1, <1>2, PTL DEF HSpec, ImplementsWearLeveling, WL!Spec, Seen

-----------------------------------------------------------------------------
(* The bloom-filter scheme: the two filters. *)

(* What is proved of a filter in use holds of both, whatever their history. *)
P1 == INSTANCE BloomFilterUseProofs WITH
        areasize <- maxpagenums, hashkey <- hashkey1, HashXor <- Xor,
        counter <- counter1, hotlist <- hotlist1,
        addr2hot <- addr2hot1, list3point <- list3point1,
        MaxAccesses <- 0, written <- Identity, accesses <- 0

P2 == INSTANCE BloomFilterUseProofs WITH
        areasize <- maxpagenums \div groupsize, hashkey <- hashkey2, HashXor <- Xor,
        counter <- counter2, hotlist <- hotlist2,
        addr2hot <- addr2hot2, list3point <- list3point2,
        MaxAccesses <- 0, written <- Identity, accesses <- 0

(* The groups of addresses divide the memory. *)
LEMMA GroupsFit ==
    /\ maxpagenums \div groupsize \in Nat \ {0}
    /\ B2!Address \subseteq B1!Group
    /\ \A a \in Page : a \div groupsize \in B2!Address
  <1> DEFINE q == maxpagenums \div groupsize
  <1>1. /\ maxpagenums \in Nat /\ maxpagenums >= 4 /\ groupsize \in Nat /\ groupsize > 0
        /\ maxpagenums % groupsize = 0
    BY PageFacts, FilterAssumption
  <1>2. q \in Int /\ maxpagenums = q * groupsize
    BY <1>1, DivisionWithRemainder
  <1>3. q \in Nat /\ q # 0
    <2>1. q \in Nat
      BY <1>1
    <2>2. q # 0
      BY <1>1, <1>2
    <2> QED
      BY <2>1, <2>2
  <1>4. (maxpagenums - 1) \div groupsize = q - 1
    <2>1. maxpagenums - 1 = (q - 1) * groupsize + (groupsize - 1)
      BY <1>1, <1>2
    <2> HIDE DEF q
    <2>2. ((q - 1) * groupsize + (groupsize - 1)) \div groupsize = q - 1
      BY <1>1, <1>2, QuotientIsUnique
    <2> QED
      BY <2>1, <2>2
  <1> HIDE DEF q
  <1>5. ASSUME NEW a \in Page PROVE a \div groupsize \in 0 .. q - 1
    <2>1. a \in Nat /\ maxpagenums - 1 \in Nat /\ a <= maxpagenums - 1
      BY PageFacts
    <2>2. a \div groupsize \in Nat /\ a \div groupsize <= (maxpagenums - 1) \div groupsize
      BY <1>1, <2>1, GroupQuotient
    <2> QED
      BY <1>3, <1>4, <2>2
  <1> QED
    BY <1>3, <1>5 DEF q, B2!Address, B1!Group, B1!groupnums

(* The first filter is one. *)
LEMMA Filter1Facts ==
    /\ P1!SizeAssumption /\ P1!HashAssumption
    /\ P1!BloomTypeOK <=> B1!BloomTypeOK
    /\ P1!HotIndexExact <=> B1!HotIndexExact
    /\ P1!HotIsCounted <=> B1!HotIsCounted
    /\ \A a : P1!Access(a) <=> B1!Access(a)
    /\ (P1!BloomInit <=> B1!BloomInit) /\ P1!Address = B1!Address
  <1>1. P1!SizeAssumption /\ P1!HashAssumption
    BY FilterAssumption, PageFacts, GroupsFit DEF P1!Hashed, B1!Hashed, P1!Address, B1!Address
  <1>2. P1!BloomTypeOK <=> B1!BloomTypeOK
    BY
    DEF P1!BloomTypeOK, B1!BloomTypeOK, P1!Cell, B1!Cell, P1!Address, B1!Address,
        P1!NoAddress, B1!NoAddress, P1!NotHot, B1!NotHot, P1!Group, B1!Group, P1!Slot, B1!Slot,
        P1!groupnums, B1!groupnums, P1!hotlistsize, B1!hotlistsize
  <1>3. P1!HotIndexExact <=> B1!HotIndexExact
    BY
    DEF P1!HotIndexExact, B1!HotIndexExact, P1!Address, B1!Address, P1!NoAddress, B1!NoAddress,
        P1!NotHot, B1!NotHot, P1!GroupOf, B1!GroupOf, P1!Hot, B1!Hot, P1!Group, B1!Group,
        P1!Slot, B1!Slot, P1!groupnums, B1!groupnums, P1!hotlistsize, B1!hotlistsize
  <1>4. P1!HotIsCounted <=> B1!HotIsCounted
    BY
    DEF P1!HotIsCounted, B1!HotIsCounted, P1!Address, B1!Address, P1!NotHot, B1!NotHot,
        P1!Hot, B1!Hot, P1!getcount, B1!getcount, P1!CountIn, B1!CountIn, P1!Cells, B1!Cells,
        P1!Hashed, B1!Hashed
  <1>5. \A a : P1!Access(a) <=> B1!Access(a)
    BY
    DEF P1!Access, B1!Access, P1!Counted, B1!Counted, P1!Promote, B1!Promote, P1!Insert, B1!Insert,
        P1!Reindex, B1!Reindex, P1!SlotAbove, B1!SlotAbove, P1!NextPoint, B1!NextPoint,
        P1!Cells, B1!Cells, P1!Hashed, B1!Hashed, P1!Cell, B1!Cell, P1!Group, B1!Group,
        P1!Slot, B1!Slot, P1!Address, B1!Address, P1!NoAddress, B1!NoAddress, P1!NotHot, B1!NotHot,
        P1!GroupOf, B1!GroupOf, P1!Hot, B1!Hot, P1!groupnums, B1!groupnums,
        P1!hotlistsize, B1!hotlistsize
  <1>6. (P1!BloomInit <=> B1!BloomInit) /\ P1!Address = B1!Address
    BY
    DEF P1!BloomInit, B1!BloomInit, P1!NoCounts, B1!NoCounts, P1!EmptyLists, B1!EmptyLists,
        P1!Cell, B1!Cell, P1!Group, B1!Group, P1!Slot, B1!Slot, P1!Address, B1!Address,
        P1!NoAddress, B1!NoAddress, P1!NotHot, B1!NotHot, P1!groupnums, B1!groupnums,
        P1!hotlistsize, B1!hotlistsize
  <1> QED
    BY <1>1, <1>2, <1>3, <1>4, <1>5, <1>6

(* The second filter is one. *)
LEMMA Filter2Facts ==
    /\ P2!SizeAssumption /\ P2!HashAssumption
    /\ P2!BloomTypeOK <=> B2!BloomTypeOK
    /\ P2!HotIndexExact <=> B2!HotIndexExact
    /\ P2!HotIsCounted <=> B2!HotIsCounted
    /\ \A a : P2!Access(a) <=> B2!Access(a)
    /\ (P2!BloomInit <=> B2!BloomInit) /\ P2!Address = B2!Address
  <1>1. P2!SizeAssumption /\ P2!HashAssumption
    BY FilterAssumption, PageFacts, GroupsFit DEF P2!Hashed, B2!Hashed, P2!Address, B2!Address
  <1>2. P2!BloomTypeOK <=> B2!BloomTypeOK
    BY
    DEF P2!BloomTypeOK, B2!BloomTypeOK, P2!Cell, B2!Cell, P2!Address, B2!Address,
        P2!NoAddress, B2!NoAddress, P2!NotHot, B2!NotHot, P2!Group, B2!Group, P2!Slot, B2!Slot,
        P2!groupnums, B2!groupnums, P2!hotlistsize, B2!hotlistsize
  <1>3. P2!HotIndexExact <=> B2!HotIndexExact
    BY
    DEF P2!HotIndexExact, B2!HotIndexExact, P2!Address, B2!Address, P2!NoAddress, B2!NoAddress,
        P2!NotHot, B2!NotHot, P2!GroupOf, B2!GroupOf, P2!Hot, B2!Hot, P2!Group, B2!Group,
        P2!Slot, B2!Slot, P2!groupnums, B2!groupnums, P2!hotlistsize, B2!hotlistsize
  <1>4. P2!HotIsCounted <=> B2!HotIsCounted
    BY
    DEF P2!HotIsCounted, B2!HotIsCounted, P2!Address, B2!Address, P2!NotHot, B2!NotHot,
        P2!Hot, B2!Hot, P2!getcount, B2!getcount, P2!CountIn, B2!CountIn, P2!Cells, B2!Cells,
        P2!Hashed, B2!Hashed
  <1>5. \A a : P2!Access(a) <=> B2!Access(a)
    BY
    DEF P2!Access, B2!Access, P2!Counted, B2!Counted, P2!Promote, B2!Promote, P2!Insert, B2!Insert,
        P2!Reindex, B2!Reindex, P2!SlotAbove, B2!SlotAbove, P2!NextPoint, B2!NextPoint,
        P2!Cells, B2!Cells, P2!Hashed, B2!Hashed, P2!Cell, B2!Cell, P2!Group, B2!Group,
        P2!Slot, B2!Slot, P2!Address, B2!Address, P2!NoAddress, B2!NoAddress, P2!NotHot, B2!NotHot,
        P2!GroupOf, B2!GroupOf, P2!Hot, B2!Hot, P2!groupnums, B2!groupnums,
        P2!hotlistsize, B2!hotlistsize
  <1>6. (P2!BloomInit <=> B2!BloomInit) /\ P2!Address = B2!Address
    BY
    DEF P2!BloomInit, B2!BloomInit, P2!NoCounts, B2!NoCounts, P2!EmptyLists, B2!EmptyLists,
        P2!Cell, B2!Cell, P2!Group, B2!Group, P2!Slot, B2!Slot, P2!Address, B2!Address,
        P2!NoAddress, B2!NoAddress, P2!NotHot, B2!NotHot, P2!groupnums, B2!groupnums,
        P2!hotlistsize, B2!hotlistsize
  <1> QED
    BY <1>1, <1>2, <1>3, <1>4, <1>5, <1>6


(* What both filters keep. *)
FiltersExact ==
    /\ B1!BloomTypeOK /\ B1!HotIndexExact /\ B1!HotIsCounted
    /\ B2!BloomTypeOK /\ B2!HotIndexExact /\ B2!HotIsCounted

(* The equivalences that outlive a step. *)
LEMMA FiltersNext ==
    /\ (P1!BloomTypeOK' <=> B1!BloomTypeOK') /\ (P1!HotIndexExact' <=> B1!HotIndexExact')
    /\ (P1!HotIsCounted' <=> B1!HotIsCounted')
    /\ (P2!BloomTypeOK' <=> B2!BloomTypeOK') /\ (P2!HotIndexExact' <=> B2!HotIndexExact')
    /\ (P2!HotIsCounted' <=> B2!HotIsCounted')
  <1>1. P1!BloomTypeOK' <=> B1!BloomTypeOK'
    <2>1. P1!BloomTypeOK <=> B1!BloomTypeOK
      BY Filter1Facts
    <2> QED
      BY <2>1, PTL
  <1>2. P1!HotIndexExact' <=> B1!HotIndexExact'
    <2>1. P1!HotIndexExact <=> B1!HotIndexExact
      BY Filter1Facts
    <2> QED
      BY <2>1, PTL
  <1>3. P1!HotIsCounted' <=> B1!HotIsCounted'
    <2>1. P1!HotIsCounted <=> B1!HotIsCounted
      BY Filter1Facts
    <2> QED
      BY <2>1, PTL
  <1>4. P2!BloomTypeOK' <=> B2!BloomTypeOK'
    <2>1. P2!BloomTypeOK <=> B2!BloomTypeOK
      BY Filter2Facts
    <2> QED
      BY <2>1, PTL
  <1>5. P2!HotIndexExact' <=> B2!HotIndexExact'
    <2>1. P2!HotIndexExact <=> B2!HotIndexExact
      BY Filter2Facts
    <2> QED
      BY <2>1, PTL
  <1>6. P2!HotIsCounted' <=> B2!HotIsCounted'
    <2>1. P2!HotIsCounted <=> B2!HotIsCounted
      BY Filter2Facts
    <2> QED
      BY <2>1, PTL
  <1> QED
    BY <1>1, <1>2, <1>3, <1>4, <1>5, <1>6

(* A write of an address counts it, and its group. *)
LEMMA CountingKeepsFilters ==
    ASSUME FiltersExact, NEW a \in Page, B1!Access(a), B2!Access(a \div groupsize)
    PROVE  FiltersExact'
  <1>1. a \in B1!Address /\ a \div groupsize \in B2!Address
    BY GroupsFit DEF Page, B1!Address
  <1>2. P1!BloomTypeOK' /\ P1!HotIndexExact' /\ P1!HotIsCounted'
    BY <1>1, Filter1Facts, P1!AccessIsCorrect DEF FiltersExact
  <1>3. P2!BloomTypeOK' /\ P2!HotIndexExact' /\ P2!HotIsCounted'
    BY <1>1, Filter2Facts, P2!AccessIsCorrect DEF FiltersExact
  <1> QED
    BY <1>2, <1>3, FiltersNext DEF FiltersExact

(* New filters are exact. *)
LEMMA EmptyFilters == B1!BloomInit /\ B2!BloomInit => FiltersExact
  <1>1. P1!BloomInit => P1!BloomTypeOK /\ P1!HotIndexExact /\ P1!HotIsCounted
    BY Filter1Facts, P1!EmptyIsCorrect DEF P1!BloomEmpty
  <1>2. P2!BloomInit => P2!BloomTypeOK /\ P2!HotIndexExact /\ P2!HotIsCounted
    BY Filter2Facts, P2!EmptyIsCorrect DEF P2!BloomEmpty
  <1> QED
    BY <1>1, <1>2, Filter1Facts, Filter2Facts DEF FiltersExact

(* Cleared filters are new. *)
LEMMA ClearedFilters == B1!Clear /\ B2!Clear => FiltersExact'
  <1>1. B1!Clear => B1!BloomInit'
    BY DEF B1!Clear, B1!BloomInit
  <1>2. B2!Clear => B2!BloomInit'
    BY DEF B2!Clear, B2!BloomInit
  <1> QED
    BY <1>1, <1>2, EmptyFilters, PTL

-----------------------------------------------------------------------------
(* The bloom-filter scheme: the visits of a remap. *)

(* Where the loops reach address a. *)
LoopPlace(a) ==
    IF ~B1!Hot(a) THEN <<3, a, 0, 0, 0>>
    ELSE IF ~B2!Hot(B1!GroupOf(a))
    THEN <<2, B1!GroupOf(a), -addr2hot1[a], 0, 0>>
    ELSE <<1, ListIndex(addr2hot1[a]), B2!GroupOf(B1!GroupOf(a)),
              -addr2hot2[B1!GroupOf(a)], -addr2hot1[a]>>

VisitOf(a) == [addr |-> a, at |-> LoopPlace(a)]

LoopPlaces == Int \X Int \X Int \X Int \X Int

(* What exact filters say of an address and of its group. *)
LEMMA FilterFacts ==
    ASSUME FiltersExact
    PROVE  /\ Page = B1!Address
           /\ \A a \in Page : /\ a \in Int /\ B1!GroupOf(a) \in B2!Address
                              /\ B1!GroupOf(a) \in B1!Group /\ B1!GroupOf(a) \in Int
           /\ \A a \in Page : B1!Hot(a) =>
                 /\ addr2hot1[a] \in B1!Slot /\ addr2hot1[a] \in Int
                 /\ hotlist1[B1!GroupOf(a)][addr2hot1[a]] = a
           /\ \A g \in B2!Address : B2!GroupOf(g) \in Int /\ B2!GroupOf(g) \in B2!Group
           /\ \A g \in B2!Address : B2!Hot(g) =>
                 /\ addr2hot2[g] \in B2!Slot /\ addr2hot2[g] \in Int
                 /\ hotlist2[B2!GroupOf(g)][addr2hot2[g]] = g
           /\ \A g \in B2!Address, s \in B1!Slot : Occupied1(g, s) =>
                 /\ hotlist1[g][s] \in Page /\ B1!Hot(hotlist1[g][s])
                 /\ B1!GroupOf(hotlist1[g][s]) = g /\ addr2hot1[hotlist1[g][s]] = s
           /\ \A q \in B2!Group, t \in B2!Slot : Occupied2(q, t) =>
                 /\ hotlist2[q][t] \in B2!Address /\ B2!Hot(hotlist2[q][t])
                 /\ B2!GroupOf(hotlist2[q][t]) = q /\ addr2hot2[hotlist2[q][t]] = t
  <1>1. Page = B1!Address
    BY DEF Page, B1!Address
  <1>2. /\ P1!SizeAssumption /\ P1!HashAssumption /\ P2!SizeAssumption /\ P2!HashAssumption
    BY Filter1Facts, Filter2Facts
  <1>3. /\ \A s \in B1!Slot : s \in Int /\ s # -1
        /\ \A s \in B2!Slot : s \in Int /\ s # -1
    BY DEF B1!Slot, B2!Slot
  <1>4. \A a \in Page : a \in Int /\ B1!GroupOf(a) \in B2!Address
                        /\ B1!GroupOf(a) \in B1!Group /\ B1!GroupOf(a) \in Int
    <2>1. B2!Address \subseteq Int
      BY DEF B2!Address
    <2> QED
      BY <2>1, PageFacts, GroupsFit DEF B1!GroupOf
  <1>5. ASSUME NEW g \in B2!Address PROVE B2!GroupOf(g) \in B2!Group /\ B2!GroupOf(g) \in Int
    <2>1. P2!GroupOf(g) \in P2!Group
      BY <1>2, P2!SlotFacts DEF P2!Address, B2!Address
    <2> QED
      BY <2>1 DEF P2!GroupOf, B2!GroupOf, P2!Group, B2!Group, P2!groupnums, B2!groupnums
  <1>6. ASSUME NEW a \in Page, B1!Hot(a)
        PROVE  /\ addr2hot1[a] \in B1!Slot /\ addr2hot1[a] \in Int
               /\ hotlist1[B1!GroupOf(a)][addr2hot1[a]] = a
    BY <1>1, <1>3, <1>6 DEF FiltersExact, B1!BloomTypeOK, B1!HotIndexExact, B1!Hot
  <1>7. ASSUME NEW g \in B2!Address, B2!Hot(g)
        PROVE  /\ addr2hot2[g] \in B2!Slot /\ addr2hot2[g] \in Int
               /\ hotlist2[B2!GroupOf(g)][addr2hot2[g]] = g
    BY <1>3, <1>7 DEF FiltersExact, B2!BloomTypeOK, B2!HotIndexExact, B2!Hot
  <1>8. ASSUME NEW g \in B2!Address, NEW s \in B1!Slot, Occupied1(g, s)
        PROVE  /\ hotlist1[g][s] \in Page /\ B1!Hot(hotlist1[g][s])
               /\ B1!GroupOf(hotlist1[g][s]) = g /\ addr2hot1[hotlist1[g][s]] = s
    <2>1. g \in B1!Group
      BY GroupsFit
    <2>2. hotlist1[g][s] \in B1!Address
      BY <2>1, <1>8 DEF FiltersExact, B1!BloomTypeOK, Occupied1
    <2>3. B1!GroupOf(hotlist1[g][s]) = g /\ addr2hot1[hotlist1[g][s]] = s
      BY <2>1, <1>8 DEF FiltersExact, B1!HotIndexExact, Occupied1
    <2> QED
      BY <1>1, <1>3, <2>2, <2>3 DEF B1!Hot, B1!NotHot
  <1>9. ASSUME NEW q \in B2!Group, NEW t \in B2!Slot, Occupied2(q, t)
        PROVE  /\ hotlist2[q][t] \in B2!Address /\ B2!Hot(hotlist2[q][t])
               /\ B2!GroupOf(hotlist2[q][t]) = q /\ addr2hot2[hotlist2[q][t]] = t
    <2>1. hotlist2[q][t] \in B2!Address
      BY <1>9 DEF FiltersExact, B2!BloomTypeOK, Occupied2
    <2>2. B2!GroupOf(hotlist2[q][t]) = q /\ addr2hot2[hotlist2[q][t]] = t
      BY <1>9 DEF FiltersExact, B2!HotIndexExact, Occupied2
    <2> QED
      BY <1>3, <2>1, <2>2 DEF B2!Hot, B2!NotHot
  <1> QED
    BY <1>1, <1>4, <1>5, <1>6, <1>7, <1>8, <1>9

(* The three passes visit every address, each at its place in the loops. *)
LEMMA VisitsOfPages ==
    ASSUME FiltersExact
    PROVE  Visits = {VisitOf(a) : a \in Page}
  <1>1. ColdVisits = {VisitOf(a) : a \in {b \in Page : ~B1!Hot(b)}}
    BY DEF ColdVisits, VisitOf, LoopPlace
  <1>2. ASSUME NEW w \in ColdGroupVisits PROVE \E a \in Page : w = VisitOf(a)
    <2>1. PICK g \in B2!Address, s \in B1!Slot :
             /\ ~B2!Hot(g) /\ Occupied1(g, s)
             /\ w = [addr |-> hotlist1[g][s], at |-> <<2, g, -s, 0, 0>>]
      BY DEF ColdGroupVisits
    <2> DEFINE a == hotlist1[g][s]
    <2>2. a \in Page /\ B1!Hot(a) /\ B1!GroupOf(a) = g /\ addr2hot1[a] = s
      BY <2>1, FilterFacts
    <2> QED
      BY <2>1, <2>2 DEF VisitOf, LoopPlace
  <1>3. ASSUME NEW w \in HotGroupVisits PROVE \E a \in Page : w = VisitOf(a)
    <2>1. PICK q \in B2!Group, t \in B2!Slot, s \in B1!Slot :
             /\ Occupied2(q, t) /\ Occupied1(hotlist2[q][t], s)
             /\ w = [addr |-> hotlist1[hotlist2[q][t]][s], at |-> <<1, ListIndex(s), q, -t, -s>>]
      BY DEF HotGroupVisits
    <2> DEFINE g == hotlist2[q][t]
               a == hotlist1[g][s]
    <2>2. g \in B2!Address /\ B2!Hot(g) /\ B2!GroupOf(g) = q /\ addr2hot2[g] = t
      BY <2>1, FilterFacts
    <2>3. a \in Page /\ B1!Hot(a) /\ B1!GroupOf(a) = g /\ addr2hot1[a] = s
      BY <2>1, <2>2, FilterFacts
    <2> QED
      BY <2>1, <2>2, <2>3 DEF VisitOf, LoopPlace
  <1>4. ASSUME NEW a \in Page, B1!Hot(a), ~B2!Hot(B1!GroupOf(a)) PROVE VisitOf(a) \in ColdGroupVisits
    <2> DEFINE g == B1!GroupOf(a)
               s == addr2hot1[a]
    <2>1. g \in B2!Address /\ s \in B1!Slot /\ hotlist1[g][s] = a /\ a # -1
      BY <1>4, FilterFacts, PageFacts
    <2>2. Occupied1(g, s)
      BY <2>1 DEF Occupied1, B1!NoAddress
    <2>3. VisitOf(a) = [addr |-> hotlist1[g][s], at |-> <<2, g, -s, 0, 0>>]
      BY <1>4, <2>1 DEF VisitOf, LoopPlace
    <2> HIDE DEF g, s
    <2>4. <<g, s>> \in {w \in B2!Address \X B1!Slot : ~B2!Hot(w[1]) /\ Occupied1(w[1], w[2])}
      BY <1>4, <2>1, <2>2 DEF g
    <2>5. \E v \in {w \in B2!Address \X B1!Slot : ~B2!Hot(w[1]) /\ Occupied1(w[1], w[2])} :
             VisitOf(a) = [addr |-> hotlist1[v[1]][v[2]], at |-> <<2, v[1], -v[2], 0, 0>>]
      <3> WITNESS <<g, s>> \in {w \in B2!Address \X B1!Slot : ~B2!Hot(w[1]) /\ Occupied1(w[1], w[2])}
      <3> QED
        BY <2>3
    <2> QED
      BY <2>5 DEF ColdGroupVisits
  <1>5. ASSUME NEW a \in Page, B1!Hot(a), B2!Hot(B1!GroupOf(a)) PROVE VisitOf(a) \in HotGroupVisits
    <2> DEFINE g == B1!GroupOf(a)
               s == addr2hot1[a]
               q == B2!GroupOf(g)
               t == addr2hot2[g]
    <2>1. g \in B2!Address /\ s \in B1!Slot /\ hotlist1[g][s] = a /\ a # -1
      BY <1>5, FilterFacts, PageFacts
    <2>2. q \in B2!Group /\ t \in B2!Slot /\ hotlist2[q][t] = g /\ g # -1
      BY <1>5, <2>1, FilterFacts DEF B2!Address
    <2>3. Occupied1(g, s) /\ Occupied2(q, t)
      BY <2>1, <2>2 DEF Occupied1, Occupied2, B1!NoAddress, B2!NoAddress
    <2>4. VisitOf(a) = [addr |-> hotlist1[hotlist2[q][t]][s], at |-> <<1, ListIndex(s), q, -t, -s>>]
      BY <1>5, <2>1, <2>2 DEF VisitOf, LoopPlace
    <2>5. hotlist2[q][t] = g
      BY <2>2
    <2> HIDE DEF g, s, q, t
    <2>6. <<q, t, s>> \in {w \in B2!Group \X B2!Slot \X B1!Slot :
                             Occupied2(w[1], w[2]) /\ Occupied1(hotlist2[w[1]][w[2]], w[3])}
      BY <2>1, <2>2, <2>3, <2>5
    <2> DEFINE W == {w \in B2!Group \X B2!Slot \X B1!Slot :
                        Occupied2(w[1], w[2]) /\ Occupied1(hotlist2[w[1]][w[2]], w[3])}
    <2>7. \E v \in W : VisitOf(a) = [addr |-> hotlist1[hotlist2[v[1]][v[2]]][v[3]],
                                    at   |-> <<1, ListIndex(v[3]), v[1], -v[2], -v[3]>>]
      <3> WITNESS <<q, t, s>> \in W
      <3> QED
        BY <2>4
    <2> QED
      BY <2>7 DEF HotGroupVisits
  <1>6. ASSUME NEW a \in Page PROVE VisitOf(a) \in Visits
    BY <1>1, <1>4, <1>5 DEF Visits
  <1>7. ASSUME NEW w \in Visits PROVE \E a \in Page : w = VisitOf(a)
    BY <1>1, <1>2, <1>3 DEF Visits
  <1> QED
    BY <1>6, <1>7

(* The order of the loops, spelled out. *)
LEMMA BeforeSpelledOut ==
    ASSUME NEW x \in LoopPlaces, NEW y \in LoopPlaces
    PROVE  Before(x, y) <=>
             \/ x[1] < y[1]
             \/ x[1] = y[1] /\ x[2] < y[2]
             \/ x[1] = y[1] /\ x[2] = y[2] /\ x[3] < y[3]
             \/ x[1] = y[1] /\ x[2] = y[2] /\ x[3] = y[3] /\ x[4] < y[4]
             \/ x[1] = y[1] /\ x[2] = y[2] /\ x[3] = y[3] /\ x[4] = y[4] /\ x[5] < y[5]
  <1> DEFINE Least(i) == x[i] < y[i] /\ \A j \in 1 .. i - 1 : x[j] = y[j]
  <1>1. Before(x, y) <=> \E i \in {1, 2, 3, 4, 5} : Least(i)
    BY DEF Before
  <1>2. /\ Least(1) <=> x[1] < y[1]
        /\ Least(2) <=> x[1] = y[1] /\ x[2] < y[2]
        /\ Least(3) <=> x[1] = y[1] /\ x[2] = y[2] /\ x[3] < y[3]
        /\ Least(4) <=> x[1] = y[1] /\ x[2] = y[2] /\ x[3] = y[3] /\ x[4] < y[4]
        /\ Least(5) <=> x[1] = y[1] /\ x[2] = y[2] /\ x[3] = y[3] /\ x[4] = y[4] /\ x[5] < y[5]
    <2>1. /\ \A j \in 1 .. 0 : FALSE
          /\ \A j \in 1 .. 1 : j = 1
          /\ \A j \in 1 .. 2 : j = 1 \/ j = 2
          /\ \A j \in 1 .. 3 : j = 1 \/ j = 2 \/ j = 3
          /\ \A j \in 1 .. 4 : j = 1 \/ j = 2 \/ j = 3 \/ j = 4
      OBVIOUS
    <2> QED
      BY <2>1
  <1> HIDE DEF Least
  <1> QED
    BY <1>1, <1>2

(* It is a strict and total order. *)
LEMMA LoopOrder ==
    /\ \A x \in LoopPlaces : ~Before(x, x)
    /\ \A x, y, z \in LoopPlaces : Before(x, y) /\ Before(y, z) => Before(x, z)
    /\ \A x, y \in LoopPlaces : Before(x, y) \/ x = y \/ Before(y, x)
  <1>1. \A x \in LoopPlaces : x[1] \in Int /\ x[2] \in Int /\ x[3] \in Int /\ x[4] \in Int /\ x[5] \in Int
    BY DEF LoopPlaces
  <1>2. ASSUME NEW x \in LoopPlaces PROVE ~Before(x, x)
    BY <1>1, BeforeSpelledOut
  <1>3. ASSUME NEW x \in LoopPlaces, NEW y \in LoopPlaces, NEW z \in LoopPlaces,
               Before(x, y), Before(y, z)
        PROVE  Before(x, z)
    BY <1>1, <1>3, BeforeSpelledOut
  <1>4. ASSUME NEW x \in LoopPlaces, NEW y \in LoopPlaces, ~Before(x, y), ~Before(y, x)
        PROVE  x = y
    <2>1. x[1] = y[1] /\ x[2] = y[2] /\ x[3] = y[3] /\ x[4] = y[4] /\ x[5] = y[5]
      BY <1>1, <1>4, BeforeSpelledOut
    <2> QED
      BY <2>1 DEF LoopPlaces
  <1> QED
    BY <1>2, <1>3, <1>4

(* The places of addresses, all different, after the start of the loops. *)
LEMMA LoopPlaceFacts ==
    ASSUME FiltersExact
    PROVE  /\ Start \in LoopPlaces
           /\ \A a \in Page : LoopPlace(a) \in LoopPlaces /\ Before(Start, LoopPlace(a))
           /\ \A a, b \in Page : LoopPlace(a) = LoopPlace(b) => a = b
  <1>1. Start \in LoopPlaces /\ Start[1] = 0
    BY DEF Start, LoopPlaces
  <1>2. ASSUME NEW a \in Page
        PROVE  LoopPlace(a) \in LoopPlaces /\ LoopPlace(a)[1] \in {1, 2, 3}
    <2>1. CASE ~B1!Hot(a)
      BY <2>1, FilterFacts DEF LoopPlace, LoopPlaces
    <2>2. CASE B1!Hot(a) /\ ~B2!Hot(B1!GroupOf(a))
      BY <2>2, FilterFacts DEF LoopPlace, LoopPlaces
    <2>3. CASE B1!Hot(a) /\ B2!Hot(B1!GroupOf(a))
      BY <2>3, FilterFacts DEF LoopPlace, LoopPlaces, ListIndex
    <2> QED
      BY <2>1, <2>2, <2>3
  <1>3. \A a \in Page : Before(Start, LoopPlace(a))
    BY <1>1, <1>2, BeforeSpelledOut
  <1>4. ASSUME NEW a \in Page, NEW b \in Page, LoopPlace(a) = LoopPlace(b)
        PROVE  a = b
    <2>1. CASE ~B1!Hot(a)
      BY <2>1, <1>4 DEF LoopPlace
    <2>2. CASE B1!Hot(a) /\ ~B2!Hot(B1!GroupOf(a))
      <3>1. B1!Hot(b) /\ B1!GroupOf(a) = B1!GroupOf(b) /\ -addr2hot1[a] = -addr2hot1[b]
        BY <2>2, <1>4 DEF LoopPlace
      <3> QED
        BY <2>2, <3>1, FilterFacts
    <2>3. CASE B1!Hot(a) /\ B2!Hot(B1!GroupOf(a))
      <3> DEFINE g == B1!GroupOf(a)
                 h == B1!GroupOf(b)
      <3>1. /\ B1!Hot(b) /\ B2!Hot(h) /\ B2!GroupOf(g) = B2!GroupOf(h)
            /\ -addr2hot2[g] = -addr2hot2[h] /\ -addr2hot1[a] = -addr2hot1[b]
        BY <2>3, <1>4 DEF LoopPlace
      <3>2. g \in B2!Address /\ h \in B2!Address
        BY FilterFacts
      <3> HIDE DEF g, h
      <3>3. addr2hot2[g] \in Int /\ addr2hot2[h] \in Int
            /\ hotlist2[B2!GroupOf(g)][addr2hot2[g]] = g /\ hotlist2[B2!GroupOf(h)][addr2hot2[h]] = h
        BY <2>3, <3>1, <3>2, FilterFacts DEF g
      <3>4. g = h
        BY <3>1, <3>3
      <3>5. /\ addr2hot1[a] \in Int /\ addr2hot1[b] \in Int
            /\ hotlist1[g][addr2hot1[a]] = a /\ hotlist1[h][addr2hot1[b]] = b
        BY <2>3, <3>1, FilterFacts DEF g, h
      <3> QED
        BY <3>1, <3>4, <3>5
    <2> QED
      BY <2>1, <2>2, <2>3
  <1> QED
    BY <1>1, <1>2, <1>3, <1>4

(* As many visits as there are pages. *)
LEMMA VisitsAreCounted ==
    ASSUME FiltersExact
    PROVE  IsFiniteSet(Visits) /\ Cardinality(Visits) = maxpagenums
  <1> DEFINE f == [a \in Page |-> VisitOf(a)]
  <1>1. IsFiniteSet(Page) /\ Cardinality(Page) = maxpagenums
    <2>1. maxpagenums - 1 \in Int /\ 0 \in Int /\ ~(0 > maxpagenums - 1)
          /\ (maxpagenums - 1) - 0 + 1 = maxpagenums
      BY PageFacts
    <2> QED
      BY <2>1, FS_Interval DEF Page
  <1>2. f \in Bijection(Page, Visits)
    <2>1. Visits = {VisitOf(a) : a \in Page}
      BY VisitsOfPages
    <2>2. \A a, b \in Page : VisitOf(a) = VisitOf(b) => a = b
      BY DEF VisitOf
    <2>3. f \in [Page -> Visits]
      BY <2>1
    <2>4. \A a, b \in Page : f[a] = f[b] => a = b
      BY <2>2
    <2>5. \A w \in Visits : \E a \in Page : f[a] = w
      BY <2>1
    <2> QED
      BY <2>3, <2>4, <2>5 DEF Bijection, Injection, Surjection, IsInjective
  <1> HIDE DEF f
  <1>3. ExistsBijection(Page, Visits)
    BY <1>2 DEF ExistsBijection
  <1> QED
    BY <1>1, <1>3, FS_Bijection

(* The visits still to come are those of the addresses ahead. *)
LEMMA AheadOfPages ==
    ASSUME FiltersExact
    PROVE  /\ \A a \in Page : VisitOf(a) \in Ahead <=> Before(visited, LoopPlace(a))
           /\ \A w \in Ahead : /\ w.addr \in Page /\ w = VisitOf(w.addr)
                               /\ w.at = LoopPlace(w.addr) /\ Before(visited, w.at)
           /\ IsFiniteSet(Ahead) /\ Cardinality(Ahead) \in Nat
           /\ visited = Start => Ahead = Visits
  <1>1. Visits = {VisitOf(a) : a \in Page} /\ IsFiniteSet(Visits)
    BY VisitsOfPages, VisitsAreCounted
  <1>2. \A a : VisitOf(a).addr = a /\ VisitOf(a).at = LoopPlace(a)
    BY DEF VisitOf
  <1>3. Ahead \in SUBSET Visits
    BY DEF Ahead
  <1>4. IsFiniteSet(Ahead)
    BY <1>1, <1>3, FS_Subset
  <1>5. Cardinality(Ahead) \in Nat
    BY <1>4, FS_CardinalityType
  <1>6. visited = Start => Ahead = Visits
    BY <1>1, <1>2, LoopPlaceFacts DEF Ahead
  <1>7. \A a \in Page : VisitOf(a) \in Ahead <=> Before(visited, LoopPlace(a))
    BY <1>1, <1>2 DEF Ahead
  <1>8. \A w \in Ahead : /\ w.addr \in Page /\ w = VisitOf(w.addr)
                         /\ w.at = LoopPlace(w.addr) /\ Before(visited, w.at)
    BY <1>1, <1>2 DEF Ahead
  <1> QED
    BY <1>4, <1>5, <1>6, <1>7, <1>8

(* Filters that stay as they are leave the visits as they are. *)
LEMMA SameFilters ==
    ASSUME UNCHANGED filters
    PROVE  /\ Visits' = Visits
           /\ \A a : LoopPlace(a)' = LoopPlace(a)
           /\ FiltersExact' <=> FiltersExact
  <1>1. /\ counter1' = counter1 /\ hotlist1' = hotlist1 /\ addr2hot1' = addr2hot1
        /\ list3point1' = list3point1 /\ counter2' = counter2 /\ hotlist2' = hotlist2
        /\ addr2hot2' = addr2hot2 /\ list3point2' = list3point2
    BY DEF filters
  <1>2. Visits' = Visits
    BY <1>1
    DEF Visits, HotGroupVisits, ColdGroupVisits, ColdVisits, Occupied1, Occupied2, B1!Hot, B2!Hot
  <1>3. \A a : LoopPlace(a)' = LoopPlace(a)
    BY <1>1 DEF LoopPlace, B1!Hot, B2!Hot
  <1>4. FiltersExact' <=> FiltersExact
    BY <1>1
    DEF FiltersExact, B1!BloomTypeOK, B1!HotIndexExact, B1!HotIsCounted, B1!Hot, B1!getcount,
        B2!BloomTypeOK, B2!HotIndexExact, B2!HotIsCounted, B2!Hot, B2!getcount
  <1> QED
    BY <1>2, <1>3, <1>4

(* What is not ahead comes before what is. *)
LEMMA BehindIsBefore ==
    ASSUME FiltersExact, visited \in LoopPlaces, NEW v \in Ahead,
           NEW a \in Page, ~Before(visited, LoopPlace(a))
    PROVE  Before(LoopPlace(a), v.at)
  <1>1. v.at \in LoopPlaces /\ Before(visited, v.at) /\ LoopPlace(a) \in LoopPlaces
    BY AheadOfPages, LoopPlaceFacts
  <1>2. LoopPlace(a) = visited \/ Before(LoopPlace(a), visited)
    BY <1>1, LoopOrder
  <1> QED
    BY <1>1, <1>2, LoopOrder

(* The loops go on with the next visit: just that one is behind them. *)
LEMMA AheadShrinks ==
    ASSUME FiltersExact, visited \in LoopPlaces, NEW v \in Ahead, IsNext(v),
           UNCHANGED filters, visited' = v.at
    PROVE  /\ Ahead' = Ahead \ {v} /\ Cardinality(Ahead') = Cardinality(Ahead) - 1
           /\ visited' \in LoopPlaces
           /\ \A a \in Page : Before(visited', LoopPlace(a)')
                              <=> Before(visited, LoopPlace(a)) /\ a # v.addr
  <1>1. /\ Visits = {VisitOf(a) : a \in Page} /\ Visits' = Visits
        /\ \A a : LoopPlace(a)' = LoopPlace(a)
    BY VisitsOfPages, SameFilters
  <1>2. /\ v.addr \in Page /\ v = VisitOf(v.addr) /\ v.at = LoopPlace(v.addr)
        /\ Before(visited, v.at) /\ v.at \in LoopPlaces /\ IsFiniteSet(Ahead)
    BY AheadOfPages, LoopPlaceFacts
  <1>3. \A w \in Visits : w.at \in LoopPlaces
    BY <1>1, LoopPlaceFacts DEF VisitOf
  <1>4. \A w \in Visits : Before(v.at, w.at) <=> Before(visited, w.at) /\ w # v
    <2> SUFFICES ASSUME NEW w \in Visits
                 PROVE  Before(v.at, w.at) <=> Before(visited, w.at) /\ w # v
      OBVIOUS
    <2>1. w.at \in LoopPlaces
      BY <1>3
    <2>2. ASSUME Before(v.at, w.at) PROVE Before(visited, w.at) /\ w # v
      BY <1>2, <2>1, <2>2, LoopOrder
    <2>3. ASSUME Before(visited, w.at), w # v PROVE Before(v.at, w.at)
      BY <2>3 DEF IsNext, Ahead
    <2> QED
      BY <2>2, <2>3
  <1>5. Ahead' = Ahead \ {v}
    BY <1>1, <1>4 DEF Ahead
  <1>6. Cardinality(Ahead') = Cardinality(Ahead) - 1
    BY <1>2, <1>5, FS_RemoveElement
  <1>7. ASSUME NEW a \in Page
        PROVE  Before(visited', LoopPlace(a)') <=> Before(visited, LoopPlace(a)) /\ a # v.addr
    <2>1. VisitOf(a) \in Visits /\ VisitOf(a).at = LoopPlace(a) /\ VisitOf(a).addr = a
      BY <1>1 DEF VisitOf
    <2>2. VisitOf(a) # v <=> a # v.addr
      BY <1>2, <2>1
    <2> QED
      BY <1>1, <1>4, <2>1, <2>2
  <1> QED
    BY <1>2, <1>5, <1>6, <1>7

-----------------------------------------------------------------------------
(* The bloom-filter scheme: the inductive invariant. *)

(***************************************************************************)
(* What the remap loops have done so far: the addresses placed are those   *)
(* whose visit is not ahead, they were placed in the order of the loops,   *)
(* and every visit that is left has a page left for it.                    *)
(***************************************************************************)
VisitsFollowed ==
    /\ pc \in {"ready", "write"} => visited = Start
    /\ pc = "remap" =>
        /\ visited \in LoopPlaces
        /\ totalcount < cyclethreshold
        /\ mapindex + Cardinality(Ahead) = maxpagenums
        /\ \A a \in Page : Before(visited, LoopPlace(a))
                           <=> \A i \in 0 .. mapindex - 1 : PlacedAddress(i) # a
        /\ \A a, b \in Page, i, j \in 0 .. mapindex - 1 :
              PlacedAddress(i) = a /\ PlacedAddress(j) = b /\ i < j
              => Before(LoopPlace(a), LoopPlace(b))

(***************************************************************************)
(* VisitedOnce is not inductive: that no visit is lost or repeated depends *)
(* on the filters' lists and indices, which every access changes, and that *)
(* the tables agree after a remap depends on the visits.                   *)
(***************************************************************************)
BwlInv ==
    BwlTypeOK /\ TablesAgree /\ RemapSettles /\ StopsAtFirstWornPage
    /\ FiltersExact /\ VisitsFollowed

(* New filters and new tables have the invariant. *)
LEMMA BwlInitInv == BwlInit => BwlInv
  <1> SUFFICES ASSUME BwlInit PROVE BwlInv
    OBVIOUS
  <1>1. CoreTypeOK /\ TablesAgree /\ RemapSettles /\ StopsAtFirstWornPage
    BY CoreInitIsCorrect DEF BwlInit
  <1>2. pc = "ready" /\ totalcount < cyclethreshold
    BY CadenceAssumption DEF BwlInit, CoreInit
  <1>3. FiltersExact
    BY EmptyFilters DEF BwlInit
  <1>4. VisitsFollowed
    BY <1>2 DEF BwlInit, VisitsFollowed
  <1> QED
    BY <1>1, <1>2, <1>3, <1>4 DEF BwlInv, BwlTypeOK, FiltersExact

(* access() up to climber() keeps it: the filters count, the tables follow. *)
LEMMA BwlAccessClimbStep ==
    ASSUME BwlInv, NEW l \in Requests, BwlAccessClimb(l)
    PROVE  BwlInv'
  <1>1. /\ l \in Page /\ pc = "ready" /\ totaltime' = totaltime + 1 /\ totalcount' = totalcount + 1
        /\ totaltime < endnums - 1 /\ addr_temp' = l
        /\ UNCHANGED <<climberenable, sortednow, climberpoint, host, mapindex, randomkey, visited>>
    BY RequestsAssumption DEF BwlAccessClimb, Driving, locals
  <1>2. CoreTypeOK /\ Consistent /\ AllUnworn /\ totalcount < cyclethreshold /\ visited = Start
    BY <1>1 DEF BwlInv, BwlTypeOK, TablesAgree, StopsAtFirstWornPage, AllUnworn, VisitsFollowed
  <1>3. /\ lifelist' \in [Page -> Int] /\ TablesTyped'
        /\ \/ pc' = "write" /\ Consistent' /\ AllUnworn'
           \/ pc' = "worn" /\ OneWorn'
    <2> DEFINE counts == [a \in Page |-> B1!CountIn(B1!Counted(l), a)]
    <2>1. Climber(l, counts[l] \div 4, counts[l], counts)
      BY DEF BwlAccessClimb
    <2> HIDE DEF counts
    <2> QED
      BY <1>1, <1>2, <2>1, ClimberIsCorrect
  <1>4. totaltime' \in 0 .. endnums - 1 /\ totalcount' \in 0 .. cyclethreshold
    BY <1>1, <1>2, CadenceAssumption DEF CoreTypeOK
  <1>5. CoreTypeOK'
    BY <1>1, <1>2, <1>3, <1>4 DEF CoreTypeOK, TablesTyped
  <1>6. FiltersExact'
    BY <1>1, CountingKeepsFilters DEF BwlInv, BwlAccessClimb
  <1>7. TablesAgree' /\ RemapSettles' /\ StopsAtFirstWornPage' /\ VisitsFollowed'
    BY <1>1, <1>2, <1>3
    DEF TablesAgree, RemapSettles, StopsAtFirstWornPage, AllUnworn, OneWorn, VisitsFollowed
  <1> QED
    BY <1>3, <1>5, <1>6, <1>7 DEF BwlInv, BwlTypeOK, FiltersExact

(* The write, and the start of a remap with all its visits ahead, keep it. *)
LEMMA BwlAccessWriteStep ==
    ASSUME BwlInv, BwlAccessWrite
    PROVE  BwlInv'
  <1> DEFINE page == maplist[addr_temp]
             wrapped == IF totalcount = cyclethreshold THEN 0 ELSE totalcount
  <1>1. /\ pc = "write" /\ Charge(page)
        /\ UNCHANGED <<climberenable, maplist, reverselist, climbla2hot, totaltime, addr_temp, visited>>
        /\ UNCHANGED filters
    BY DEF BwlAccessWrite, tables
  <1>2. /\ CoreTypeOK /\ Consistent /\ AllUnworn /\ page \in Page /\ FiltersExact /\ visited = Start
    BY <1>1 DEF BwlInv, BwlTypeOK, TablesAgree, StopsAtFirstWornPage, AllUnworn, CoreTypeOK, VisitsFollowed
  <1>3. wrapped \in 0 .. cyclethreshold /\ wrapped < cyclethreshold
    BY <1>2, CadenceAssumption DEF CoreTypeOK
  <1>4. lifelist' \in [Page -> Int]
    BY <1>1, <1>2, ChargeWears DEF CoreTypeOK
  <1>5. FiltersExact'
    BY <1>1, <1>2, SameFilters
  <1>6. CASE ~Survives(page)
    <2>1. pc' = "worn" /\ UNCHANGED <<totalcount, sortednow, climberpoint, host, mapindex, randomkey>>
      BY <1>6 DEF BwlAccessWrite, locals
    <2>2. OneWorn'
      BY <1>1, <1>2, <1>6, ChargeWears DEF CoreTypeOK
    <2>3. CoreTypeOK'
      BY <1>1, <1>2, <1>4, <2>1 DEF CoreTypeOK
    <2>4. TablesAgree' /\ RemapSettles' /\ StopsAtFirstWornPage' /\ VisitsFollowed'
      BY <2>1, <2>2 DEF TablesAgree, RemapSettles, StopsAtFirstWornPage, OneWorn, VisitsFollowed
    <2> QED
      BY <1>5, <2>1, <2>3, <2>4 DEF BwlInv, BwlTypeOK, FiltersExact
  <1>7. CASE Survives(page)
    <2>1. AllUnworn'
      BY <1>1, <1>2, <1>7, ChargeWears DEF CoreTypeOK
    <2>2. totalcount' = wrapped
      BY <1>7 DEF BwlAccessWrite
    <2>3. CASE BwlBeginRemap
      <3>1. /\ sortednow' \in Orders /\ host' = page /\ mapindex' = 0 /\ pc' = "remap"
            /\ randomkey' \in 0 .. regionsize - 1
        BY <2>3, GeometryAssumption DEF BwlBeginRemap, AscendingOrders
      <3>2. climberpoint' \in LowestPoint .. TopRegion
        BY <1>2, <2>3, AdvanceStaysInRange DEF BwlBeginRemap, CoreTypeOK
      <3>3. CoreTypeOK'
        BY <1>1, <1>2, <1>3, <1>4, <2>2, <3>1, <3>2, PageFacts DEF CoreTypeOK
      <3>4. \A i : i \notin 0 .. mapindex' - 1
        BY <3>1
      <3>5. Ahead' = Visits /\ Cardinality(Visits) = maxpagenums /\ \A a : LoopPlace(a)' = LoopPlace(a)
        <4>1. Visits' = Visits /\ \A a : LoopPlace(a)' = LoopPlace(a)
          BY <1>1, SameFilters
        <4>2. Ahead = Visits /\ Cardinality(Visits) = maxpagenums
          BY <1>2, AheadOfPages, VisitsAreCounted
        <4>3. Ahead' = Ahead
          BY <1>1, <4>1 DEF Ahead
        <4> QED
          BY <4>1, <4>2, <4>3
      <3>6. mapindex' + Cardinality(Ahead') = maxpagenums
        BY <3>1, <3>5, PageFacts
      <3>7. /\ visited' \in LoopPlaces
            /\ \A a \in Page : Before(visited', LoopPlace(a)')
        BY <1>1, <1>2, <3>5, LoopPlaceFacts
      <3>8. VisitsFollowed'
        BY <1>3, <2>2, <3>1, <3>4, <3>6, <3>7 DEF VisitsFollowed
      <3>9. TablesAgree' /\ RemapSettles' /\ StopsAtFirstWornPage'
        BY <2>1, <3>1, <3>4 DEF TablesAgree, RemapSettles, StopsAtFirstWornPage, AllUnworn
      <3> QED
        BY <1>5, <3>1, <3>3, <3>8, <3>9 DEF BwlInv, BwlTypeOK, FiltersExact
    <2>4. CASE pc' = "ready" /\ UNCHANGED <<sortednow, climberpoint, locals>>
      <3>1. CoreTypeOK'
        BY <1>1, <1>2, <1>3, <1>4, <2>2, <2>4 DEF CoreTypeOK, locals
      <3>2. Consistent'
        BY <1>1, <1>2, <2>4 DEF Consistent
      <3>3. TablesAgree' /\ RemapSettles' /\ StopsAtFirstWornPage' /\ VisitsFollowed'
        BY <1>1, <1>2, <2>1, <2>4, <3>2
        DEF TablesAgree, RemapSettles, StopsAtFirstWornPage, AllUnworn, VisitsFollowed
      <3> QED
        BY <1>3, <1>5, <2>2, <3>1, <3>3 DEF BwlInv, BwlTypeOK, FiltersExact
    <2> QED
      BY <1>7, <2>3, <2>4 DEF BwlAccessWrite
  <1> QED
    BY <1>6, <1>7

(* The visit a step makes is of an address not placed yet; it is the last   *)
(* one just when a single page is left to give out.                         *)
LEMMA NextVisitFacts ==
    ASSUME BwlInv, pc = "remap", NEW v \in Ahead, IsNext(v)
    PROVE  /\ v.addr \in Page /\ v.at = LoopPlace(v.addr) /\ v.at \in LoopPlaces
           /\ mapindex \in Page /\ mapindex \in Int
           /\ \A i \in 0 .. mapindex - 1 : PlacedAddress(i) \in Page /\ PlacedAddress(i) # v.addr
           /\ Ahead = {v} <=> mapindex + 1 = maxpagenums
           /\ Ahead = {v} => \A l \in Page \ {v.addr} : \E i \in 0 .. mapindex - 1 : PlacedAddress(i) = l
  <1>1. /\ CoreTypeOK /\ FiltersExact /\ visited \in LoopPlaces
        /\ mapindex + Cardinality(Ahead) = maxpagenums
        /\ \A a \in Page : Before(visited, LoopPlace(a))
                           <=> \A i \in 0 .. mapindex - 1 : PlacedAddress(i) # a
    BY DEF BwlInv, BwlTypeOK, VisitsFollowed
  <1>2. /\ v.addr \in Page /\ v = VisitOf(v.addr) /\ v.at = LoopPlace(v.addr)
        /\ Before(visited, v.at) /\ v.at \in LoopPlaces
        /\ IsFiniteSet(Ahead) /\ Cardinality(Ahead) \in Nat
    BY <1>1, AheadOfPages, LoopPlaceFacts
  <1>3. mapindex \in Page /\ mapindex \in Int
    BY <1>1, PageFacts DEF CoreTypeOK
  <1>4. ASSUME NEW i \in 0 .. mapindex - 1 PROVE PlacedAddress(i) \in Page /\ PlacedAddress(i) # v.addr
    <2>1. i \in Page
      BY <1>3, PageFacts DEF Page
    <2>2. PlacedRank(i) \in Page
      BY <1>1, <2>1, PlacedRankIsInjective DEF CoreTypeOK
    <2>3. PlacedAddress(i) \in Page
      BY <1>1, <2>2, OrdersAssumption DEF CoreTypeOK, PlacedAddress
    <2> QED
      BY <1>1, <1>2, <2>3
  <1>5. Ahead = {v} <=> Cardinality(Ahead) = 1
    BY <1>2, FS_Singleton
  <1>6. Ahead = {v} <=> mapindex + 1 = maxpagenums
    BY <1>1, <1>2, <1>3, <1>5, PageFacts
  <1>7. ASSUME Ahead = {v}, NEW l \in Page \ {v.addr}
        PROVE  \E i \in 0 .. mapindex - 1 : PlacedAddress(i) = l
    <2>1. VisitOf(l) \notin Ahead
      BY <1>2, <1>7 DEF VisitOf
    <2> QED
      BY <1>1, <2>1, AheadOfPages
  <1> QED
    BY <1>2, <1>3, <1>4, <1>6, <1>7

(* The loop bodies keep it: one page more is settled, one visit less ahead. *)
LEMMA BwlRemapStepStep ==
    ASSUME BwlInv, BwlRemapStep
    PROVE  BwlInv'
  <1>1. PICK v \in Ahead :
           /\ IsNext(v) /\ Place(v.addr, BwlOwed(v.addr), Ahead = {v})
           /\ CASE pc' = "ready" -> B1!Clear /\ B2!Clear /\ visited' = Start
                [] pc' = "remap" -> UNCHANGED filters /\ visited' = v.at
                [] OTHER -> UNCHANGED <<filters, visited>>
    BY DEF BwlRemapStep
  <1>2. /\ pc = "remap" /\ CoreTypeOK /\ RemapSettles /\ AllUnworn /\ FiltersExact
        /\ visited \in LoopPlaces /\ totalcount < cyclethreshold
        /\ mapindex + Cardinality(Ahead) = maxpagenums
        /\ \A a \in Page : Before(visited, LoopPlace(a))
                           <=> \A i \in 0 .. mapindex - 1 : PlacedAddress(i) # a
        /\ \A a, b \in Page, i, j \in 0 .. mapindex - 1 :
              PlacedAddress(i) = a /\ PlacedAddress(j) = b /\ i < j
              => Before(LoopPlace(a), LoopPlace(b))
    BY <1>1 DEF Place, BwlInv, BwlTypeOK, StopsAtFirstWornPage, AllUnworn, VisitsFollowed
  <1>3. /\ v.addr \in Page /\ v.at = LoopPlace(v.addr) /\ v.at \in LoopPlaces
        /\ mapindex \in Page /\ mapindex \in Int
        /\ \A i \in 0 .. mapindex - 1 : PlacedAddress(i) \in Page /\ PlacedAddress(i) # v.addr
        /\ Ahead = {v} <=> mapindex + 1 = maxpagenums
        /\ Ahead = {v} => \A l \in Page \ {v.addr} : \E i \in 0 .. mapindex - 1 : PlacedAddress(i) = l
    BY <1>1, <1>2, NextVisitFacts
  <1>4. /\ CoreTypeOK' /\ TablesAgree' /\ RemapSettles' /\ StopsAtFirstWornPage'
        /\ pc' = "remap" => /\ mapindex' = mapindex + 1
                            /\ \A i : i = mapindex => PlacedAddress(i)' = v.addr
                            /\ \A i \in 0 .. mapindex - 1 : PlacedAddress(i)' = PlacedAddress(i)
    <2> DEFINE last == Ahead = {v}
               a == v.addr
               owed == BwlOwed(a)
    <2>1. /\ last \in BOOLEAN /\ a \in Page /\ Place(a, owed, last)
          /\ \A i \in 0 .. mapindex - 1 : PlacedAddress(i) # a
          /\ last <=> mapindex + 1 = maxpagenums
          /\ last => \A l \in Page \ {a} : \E i \in 0 .. mapindex - 1 : PlacedAddress(i) = l
      BY <1>1, <1>3
    <2> HIDE DEF last, a, owed
    <2>2. /\ CoreTypeOK' /\ TablesAgree' /\ RemapSettles' /\ StopsAtFirstWornPage'
          /\ pc' = "remap" => /\ mapindex' = mapindex + 1
                              /\ \A i : i = mapindex => PlacedAddress(i)' = a
                              /\ \A i \in 0 .. mapindex - 1 : PlacedAddress(i)' = PlacedAddress(i)
      BY <1>2, <2>1, PlaceIsCorrect
    <2> QED
      BY <2>2 DEF a
  <1>5. totalcount' = totalcount
    BY <1>1 DEF Place
  <1>6. pc' \in {"ready", "remap", "worn"}
    BY <1>1 DEF Place, Continue
  <1>7. CASE pc' = "ready"
    <2>1. FiltersExact' /\ visited' = Start
      BY <1>1, <1>7, ClearedFilters
    <2> QED
      BY <1>2, <1>4, <1>5, <1>7, <2>1 DEF BwlInv, BwlTypeOK, FiltersExact, VisitsFollowed
  <1>8. CASE pc' = "worn"
    <2>1. FiltersExact'
      BY <1>1, <1>2, <1>8, SameFilters
    <2> QED
      BY <1>4, <1>8, <2>1 DEF BwlInv, BwlTypeOK, FiltersExact, VisitsFollowed
  <1>9. CASE pc' = "remap"
    <2>1. UNCHANGED filters /\ visited' = v.at /\ mapindex' = mapindex + 1
      BY <1>1, <1>4, <1>9
    <2>2. FiltersExact' /\ \A a : LoopPlace(a)' = LoopPlace(a)
      BY <1>2, <2>1, SameFilters
    <2>3. /\ Cardinality(Ahead') = Cardinality(Ahead) - 1 /\ visited' \in LoopPlaces
          /\ \A a \in Page : Before(visited', LoopPlace(a)')
                             <=> Before(visited, LoopPlace(a)) /\ a # v.addr
      BY <1>1, <1>2, <2>1, AheadShrinks
    <2>4. /\ \A i \in 0 .. mapindex' - 1 : i = mapindex \/ i \in 0 .. mapindex - 1
          /\ \A i \in 0 .. mapindex - 1 : i \in 0 .. mapindex' - 1 /\ i < mapindex
          /\ mapindex \in 0 .. mapindex' - 1
      BY <1>3, <2>1, PageFacts
    <2>5. /\ \A i : i = mapindex => PlacedAddress(i)' = v.addr
          /\ \A i \in 0 .. mapindex - 1 : PlacedAddress(i)' = PlacedAddress(i)
      BY <1>4, <1>9
    <2>6. mapindex' + Cardinality(Ahead') = maxpagenums
      <3>1. Cardinality(Ahead) \in Nat
        BY <1>2, AheadOfPages
      <3> QED
        BY <1>2, <1>3, <2>1, <2>3, <3>1
    <2>7. ASSUME NEW a \in Page
          PROVE  Before(visited', LoopPlace(a)')
                 <=> \A i \in 0 .. mapindex' - 1 : PlacedAddress(i)' # a
      BY <1>2, <2>3, <2>4, <2>5
    <2>8. ASSUME NEW a \in Page, NEW b \in Page,
                 NEW i \in 0 .. mapindex' - 1, NEW j \in 0 .. mapindex' - 1,
                 PlacedAddress(i)' = a, PlacedAddress(j)' = b, i < j
          PROVE  Before(LoopPlace(a)', LoopPlace(b)')
      <3>1. i \in 0 .. mapindex - 1 /\ PlacedAddress(i) = a
        BY <1>3, <2>4, <2>5, <2>8
      <3>2. CASE j \in 0 .. mapindex - 1
        BY <1>2, <2>2, <2>5, <2>8, <3>1, <3>2
      <3>3. CASE j = mapindex
        <4>1. b = v.addr /\ ~Before(visited, LoopPlace(a))
          BY <1>2, <2>5, <2>8, <3>1, <3>3
        <4> QED
          BY <1>2, <1>3, <2>2, <4>1, BehindIsBefore
      <3> QED
        BY <2>4, <3>2, <3>3
    <2>9. VisitsFollowed'
      BY <1>2, <1>5, <1>9, <2>3, <2>6, <2>7, <2>8 DEF VisitsFollowed
    <2> QED
      BY <1>4, <1>9, <2>2, <2>9 DEF BwlInv, BwlTypeOK, FiltersExact
  <1> QED
    BY <1>6, <1>7, <1>8, <1>9

(* A stuttering step keeps it. *)
LEMMA BwlStutterStep ==
    ASSUME BwlInv, UNCHANGED bwlVars
    PROVE  BwlInv'
  <1>1. UNCHANGED filters /\ UNCHANGED coreVars /\ visited' = visited
    BY DEF bwlVars
  <1>2. FiltersExact' /\ Visits' = Visits /\ \A a : LoopPlace(a)' = LoopPlace(a)
    BY <1>1, SameFilters DEF BwlInv
  <1>3. CoreTypeOK' /\ TablesAgree' /\ RemapSettles' /\ StopsAtFirstWornPage'
    BY <1>1
    DEF BwlInv, BwlTypeOK, coreVars, CoreTypeOK, TablesAgree, Consistent, RemapSettles,
        PlacedAddress, PlacedRank, StopsAtFirstWornPage
  <1>4. Ahead' = Ahead
    BY <1>1, <1>2 DEF Ahead
  <1>5. UNCHANGED <<pc, mapindex, totalcount>> /\ \A i : PlacedAddress(i)' = PlacedAddress(i)
    BY <1>1 DEF coreVars, PlacedAddress, PlacedRank
  <1>6. VisitsFollowed'
    BY <1>1, <1>2, <1>4, <1>5 DEF BwlInv, VisitsFollowed
  <1> QED
    BY <1>2, <1>3, <1>5, <1>6 DEF BwlInv, BwlTypeOK, FiltersExact

(* Every step keeps the invariant. *)
LEMMA BwlNextInv == BwlInv /\ [BwlNext]_bwlVars => BwlInv'
  <1> SUFFICES ASSUME BwlInv, [BwlNext]_bwlVars PROVE BwlInv'
    OBVIOUS
  <1>1. ASSUME NEW l \in Requests, BwlAccessClimb(l) PROVE BwlInv'
    BY <1>1, BwlAccessClimbStep
  <1>2. CASE BwlAccessWrite
    BY <1>2, BwlAccessWriteStep
  <1>3. CASE BwlRemapStep
    BY <1>3, BwlRemapStepStep
  <1>4. CASE Stopped /\ UNCHANGED <<filters, visited>>
    BY <1>4, BwlStutterStep DEF Stopped, bwlVars
  <1>5. CASE UNCHANGED bwlVars
    BY <1>5, BwlStutterStep
  <1> QED
    BY <1>1, <1>2, <1>3, <1>4, <1>5 DEF BwlNext

(* The inductive invariant holds in every reachable state. *)
THEOREM BwlInvariance == BwlSpec => []BwlInv
  BY BwlInitInv, BwlNextInv, PTL DEF BwlSpec

(***************************************************************************)
(* The three passes over the two filters visit every address once, and one *)
(* visit is left for each page that is left to give out.                   *)
(***************************************************************************)
THEOREM AlwaysVisitedOnce == BwlSpec => []VisitedOnce
  <1>1. BwlInv => VisitedOnce
    <2> SUFFICES ASSUME BwlInv, pc = "remap"
                 PROVE  /\ \A a \in Page : \E v \in Visits : v.addr = a
                        /\ \A v, w \in Visits : v.addr = w.addr \/ v.at = w.at => v = w
                        /\ mapindex + Cardinality(Ahead) = maxpagenums
      BY DEF VisitedOnce, BwlInv
    <2>1. FiltersExact /\ Visits = {VisitOf(a) : a \in Page}
      BY VisitsOfPages DEF BwlInv
    <2>2. \A a : VisitOf(a).addr = a /\ VisitOf(a).at = LoopPlace(a)
      BY DEF VisitOf
    <2> QED
      BY <2>1, <2>2, LoopPlaceFacts DEF BwlInv, VisitsFollowed
  <1> QED
    BY <1>1, BwlInvariance, PTL

(* The bloom-filter scheme keeps its tables as the hot-count scheme does. *)
THEOREM BwlTablesAlwaysAgree == BwlSpec => [](TablesAgree /\ StopsAtFirstWornPage)
  <1>1. BwlInv => TablesAgree /\ StopsAtFirstWornPage
    BY DEF BwlInv
  <1> QED
    BY <1>1, BwlInvariance, PTL

-----------------------------------------------------------------------------
(* The bloom-filter scheme: the hottest addresses on the strongest pages. *)

(* The loops reach the hotter of two addresses first. *)
LEMMA HotterIsEarlier ==
    ASSUME FiltersExact, NEW a \in Page, NEW b \in Page, Hotter(a, b)
    PROVE  Before(LoopPlace(a), LoopPlace(b))
  <1>1. LoopPlace(a) \in LoopPlaces /\ LoopPlace(b) \in LoopPlaces /\ B1!Hot(a)
    BY LoopPlaceFacts DEF Hotter
  <1>2. CASE ~B1!Hot(b)
    <2>1. LoopPlace(b)[1] = 3 /\ LoopPlace(a)[1] \in {1, 2}
      BY <1>1, <1>2 DEF LoopPlace
    <2> QED
      BY <1>1, <2>1, BeforeSpelledOut
  <1>3. CASE B1!Hot(b)
    <2> DEFINE g == B1!GroupOf(a)
               s == addr2hot1[a]
               t == addr2hot1[b]
    <2>1. /\ g = B1!GroupOf(b) /\ s > t /\ s \in Int /\ t \in Int
      BY <1>1, <1>3, FilterFacts DEF Hotter
    <2>2. CASE ~B2!Hot(g)
      <3>1. LoopPlace(a) = <<2, g, -s, 0, 0>> /\ LoopPlace(b) = <<2, g, -t, 0, 0>>
        BY <1>1, <1>3, <2>1, <2>2 DEF LoopPlace
      <3> QED
        BY <1>1, <2>1, <3>1, BeforeSpelledOut
    <2>3. CASE B2!Hot(g)
      <3>1. /\ LoopPlace(a) = <<1, ListIndex(s), B2!GroupOf(g), -addr2hot2[g], -s>>
            /\ LoopPlace(b) = <<1, ListIndex(t), B2!GroupOf(g), -addr2hot2[g], -t>>
        BY <1>1, <1>3, <2>1, <2>3 DEF LoopPlace
      <3>2. ListIndex(s) <= ListIndex(t) /\ ListIndex(s) \in Int /\ ListIndex(t) \in Int
        BY <2>1, FilterAssumption DEF ListIndex
      <3>3. ListIndex(s) < ListIndex(t) \/ ListIndex(s) = ListIndex(t)
        BY <3>2
      <3> HIDE DEF g, s, t
      <3> QED
        BY <1>1, <2>1, <3>1, <3>3, BeforeSpelledOut
    <2> QED
      BY <2>2, <2>3
  <1> QED
    BY <1>2, <1>3

(* When the last address is placed, each one has the rank of its turn. *)
LEMMA RanksFollowVisits ==
    ASSUME BwlInv, BwlRemapStep, pc' = "ready",
           NEW a \in Page, NEW b \in Page, Before(LoopPlace(a), LoopPlace(b))
    PROVE  \E i, j \in Page : /\ i < j /\ climbla2hot'[a] = PlacedRank(i)
                              /\ climbla2hot'[b] = PlacedRank(j)
  <1>1. PICK v \in Ahead : IsNext(v) /\ Place(v.addr, BwlOwed(v.addr), Ahead = {v})
    BY DEF BwlRemapStep
  <1>2. /\ pc = "remap" /\ FiltersExact /\ visited \in LoopPlaces
        /\ climbla2hot \in [Page -> Page]
        /\ \A x \in Page : Before(visited, LoopPlace(x))
                           <=> \A i \in 0 .. mapindex - 1 : PlacedAddress(i) # x
        /\ \A x, y \in Page, i, j \in 0 .. mapindex - 1 :
              PlacedAddress(i) = x /\ PlacedAddress(j) = y /\ i < j
              => Before(LoopPlace(x), LoopPlace(y))
        /\ \A i \in 0 .. mapindex - 1 : climbla2hot[PlacedAddress(i)] = PlacedRank(i)
    BY <1>1 DEF Place, BwlInv, BwlTypeOK, CoreTypeOK, VisitsFollowed, RemapSettles
  <1>3. Ahead = {v} /\ climbla2hot' = [climbla2hot EXCEPT ![v.addr] = PlacedRank(mapindex)]
    BY <1>1 DEF Place, Continue
  <1>4. /\ v.addr \in Page /\ v.at = LoopPlace(v.addr)
        /\ mapindex \in Page /\ mapindex \in Int
        /\ \A i \in 0 .. mapindex - 1 : PlacedAddress(i) \in Page /\ PlacedAddress(i) # v.addr
        /\ \A l \in Page \ {v.addr} : \E i \in 0 .. mapindex - 1 : PlacedAddress(i) = l
    BY <1>1, <1>2, <1>3, NextVisitFacts
  <1>5. \A i \in 0 .. mapindex - 1 : i \in Page /\ i < mapindex
    BY <1>4, PageFacts DEF Page
  <1>6. ASSUME NEW i \in 0 .. mapindex - 1, NEW x \in Page, PlacedAddress(i) = x
        PROVE  climbla2hot'[x] = PlacedRank(i) /\ Before(LoopPlace(x), v.at)
    <2>1. ~Before(visited, LoopPlace(x)) /\ x # v.addr
      BY <1>2, <1>4, <1>6
    <2>2. Before(LoopPlace(x), v.at)
      BY <1>2, <2>1, BehindIsBefore
    <2> QED
      BY <1>2, <1>3, <1>6, <2>1, <2>2
  <1>7. /\ LoopPlace(a) \in LoopPlaces /\ LoopPlace(b) \in LoopPlaces
        /\ ~Before(LoopPlace(b), LoopPlace(a)) /\ a # b
    BY <1>2, LoopPlaceFacts, LoopOrder
  <1>8. a # v.addr
    <2> SUFFICES ASSUME a = v.addr PROVE FALSE
      OBVIOUS
    <2>1. PICK j \in 0 .. mapindex - 1 : PlacedAddress(j) = b
      BY <1>4, <1>7
    <2> QED
      BY <1>4, <1>6, <1>7, <2>1
  <1>9. PICK i \in 0 .. mapindex - 1 : PlacedAddress(i) = a
    BY <1>4, <1>8
  <1>10. CASE b = v.addr
    <2>1. climbla2hot'[b] = PlacedRank(mapindex)
      BY <1>2, <1>3, <1>10
    <2> QED
      BY <1>4, <1>5, <1>6, <1>9, <2>1
  <1>11. CASE b # v.addr
    <2>1. PICK j \in 0 .. mapindex - 1 : PlacedAddress(j) = b
      BY <1>4, <1>11
    <2>2. i # j /\ ~(j < i)
      BY <1>2, <1>7, <1>9, <2>1
    <2>3. i < j
      BY <2>2
    <2> QED
      BY <1>5, <1>6, <1>9, <2>1, <2>3
  <1> QED
    BY <1>10, <1>11

(***************************************************************************)
(* A remap leaves an address that the filters rank above another one in    *)
(* the same region of the life order or in a stronger one, and without     *)
(* scrambling at the higher rank.                                          *)
(***************************************************************************)
THEOREM BwlHotAlwaysOnStrong == BwlSpec => BwlHotOnStrong
  <1> DEFINE Ranked ==
        pc = "remap" /\ pc' = "ready" =>
          \A a, b \in Page : Hotter(a, b) =>
              /\ RegionOf(climbla2hot'[a]) >= RegionOf(climbla2hot'[b])
              /\ ~randomenable => climbla2hot'[a] > climbla2hot'[b]
  <1>1. BwlInv /\ [BwlNext]_bwlVars => [Ranked]_bwlVars
    <2> SUFFICES ASSUME BwlInv, [BwlNext]_bwlVars, pc = "remap", pc' = "ready",
                        NEW a \in Page, NEW b \in Page, Hotter(a, b)
                 PROVE  /\ RegionOf(climbla2hot'[a]) >= RegionOf(climbla2hot'[b])
                        /\ ~randomenable => climbla2hot'[a] > climbla2hot'[b]
      OBVIOUS
    <2>1. BwlRemapStep
      BY DEF BwlNext, BwlAccessClimb, Driving, BwlAccessWrite, Stopped, bwlVars, coreVars
    <2>2. Before(LoopPlace(a), LoopPlace(b))
      BY HotterIsEarlier DEF BwlInv
    <2>3. randomkey \in 0 .. regionsize - 1
      BY DEF BwlInv, BwlTypeOK, CoreTypeOK
    <2> QED
      BY <2>1, <2>2, <2>3, RanksFollowVisits, EarlierIsHigher
  <1> QED
    BY <1>1, BwlInvariance, PTL DEF BwlSpec, BwlHotOnStrong

-----------------------------------------------------------------------------
(* The bloom-filter scheme implements WearLeveling. *)

(* The page that took the write has paid again once its address is placed. *)
PaidAgain == IF Before(visited, LoopPlace(addr_temp)) THEN {} ELSE {host}

(***************************************************************************)
(* The remap started from m: see RemapCharges.  The page that took the     *)
(* write pays again when the address written is placed.                    *)
(***************************************************************************)
BwlRemapCharges(m) ==
    /\ m \in [Page -> Page] /\ \A x, y \in Page : m[x] = m[y] => x = y
    /\ IsClimbed(m) /\ host = m[addr_temp]
    /\ \A a \in Page : Before(visited, LoopPlace(a)) => maplist[a] = m[a]
    /\ lifelist = LivesAfter(m, {host} \cup WL!Moved(m, maplist), PaidAgain)

(* What the call under way has charged so far: see CallInv. *)
BwlCallInv ==
    /\ before.map \in [Page -> Page] /\ before.life \in [Page -> Int]
    /\ pc = "ready" => before = Snapshot
    /\ pc = "write" => IsClimbed(maplist) /\ lifelist = LivesAfter(maplist, {}, {})
    /\ pc = "remap" => \E m \in [Page -> Page] : BwlRemapCharges(m)

(* A step of the bloom-filter scheme, as WearLeveling sees it. *)
BwlSeen == [BwlWL!Next]_(BwlWL!wvars)

(* Whether a remap recharges a page makes no difference to these notions. *)
LEMMA SameNotions ==
    /\ \A m, l, p : BwlWL!Exchanged(m, l, p) = WL!Exchanged(m, l, p)
    /\ \A m1, m2 : BwlWL!Moved(m1, m2) = WL!Moved(m1, m2)
    /\ \A p, S : BwlWL!Paid(p, S) = WL!Paid(p, S)
    /\ \A m : BwlWL!IsPlacement(m) <=> WL!IsPlacement(m)
  BY
  DEF BwlWL!Exchanged, WL!Exchanged, BwlWL!Moved, WL!Moved, BwlWL!Paid, WL!Paid,
      BwlWL!IsPlacement, WL!IsPlacement

(* A call that meets a worn page had a page at the end of its life. *)
LEMMA BwlWornSeen ==
    ASSUME BwlCallInv, Remembers, pc # "worn", pc' = "worn",
           NEW p \in Page, before.life[p] <= 1
    PROVE  BwlCallInv' /\ BwlSeen
  <1>1. before' = before
    BY DEF Remembers
  <1>2. BwlCallInv'
    BY <1>1 DEF BwlCallInv
  <1>3. BwlWL!WearOut
    BY <1>1 DEF BwlWL!WearOut
  <1> QED
    BY <1>2, <1>3 DEF BwlSeen, BwlWL!Next

(* A call that goes on is not seen. *)
LEMMA BwlUnderWayUnseen ==
    ASSUME Remembers, pc # "worn", pc' \in {"write", "remap"}
    PROVE  before' = before /\ BwlSeen
  BY DEF Remembers, BwlSeen, BwlWL!wvars

(* A call that returns is seen as one write. *)
LEMMA BwlReturnSeen ==
    ASSUME BwlInv', BwlCallInv, Remembers, pc # "worn", pc' = "ready", addr_temp \in Page,
           NEW m \in [Page -> Page], IsClimbed(m), NEW again \in {{}, {m[addr_temp]}},
           lifelist' = LivesAfter(m, {m[addr_temp]} \cup WL!Moved(m, maplist'), again)
    PROVE  BwlCallInv' /\ BwlSeen
  <1>1. before' = Snapshot' /\ before'.map = maplist' /\ before'.life = lifelist'
    BY DEF Remembers, Snapshot
  <1>2. /\ maplist' \in [Page -> Page] /\ reverselist' \in [Page -> Page] /\ lifelist' \in [Page -> Int]
        /\ Consistent' /\ \A p \in Page : lifelist'[p] >= 0
    BY DEF BwlInv, BwlTypeOK, CoreTypeOK, TablesAgree, StopsAtFirstWornPage
  <1>3. BwlCallInv'
    BY <1>1, <1>2 DEF BwlCallInv
  <1>4. BwlWL!IsPlacement(maplist')
    BY <1>2 DEF BwlWL!IsPlacement, Consistent
  <1>5. m \in {before.map} \cup {BwlWL!Exchanged(before.map, addr_temp, p) : p \in Page}
    BY SameNotions DEF IsClimbed
  <1>6. lifelist' = [p \in Page |-> before.life[p] - BwlWL!Paid(p, ClimbCost(m))
                        - BwlWL!Paid(p, {m[addr_temp]} \cup BwlWL!Moved(m, maplist'))
                        - BwlWL!Paid(p, again)]
    BY SameNotions DEF LivesAfter
  <1>7. \E climbed \in {before.map} \cup {BwlWL!Exchanged(before.map, addr_temp, p) : p \in Page} :
           LET climb == IF climbed = before.map THEN {} ELSE {before.map[addr_temp]}
               write == {climbed[addr_temp]} \cup BwlWL!Moved(climbed, before'.map)
           IN  \E twice \in IF TRUE THEN {{}, {climbed[addr_temp]}} ELSE {{}} :
                   before'.life = [p \in Page |-> before.life[p] - BwlWL!Paid(p, climb)
                                      - BwlWL!Paid(p, write) - BwlWL!Paid(p, twice)]
    <2> WITNESS m \in {before.map} \cup {BwlWL!Exchanged(before.map, addr_temp, p) : p \in Page}
    <2> QED
      BY <1>1, <1>6 DEF ClimbCost
  <1>8. /\ pc # "worn" /\ BwlWL!IsPlacement(before'.map)
        /\ \A p \in Page : before'.life[p] >= 0
        /\ UNCHANGED (pc # "worn")
    BY <1>1, <1>2, <1>4
  <1>9. BwlWL!Write(addr_temp)
    BY <1>7, <1>8, Zenon DEF BwlWL!Write
  <1> QED
    BY <1>3, <1>9 DEF BwlSeen, BwlWL!Next

(* The climb. *)
LEMMA BwlClimbSeen ==
    ASSUME BwlInv, BwlCallInv, Remembers, NEW l \in Requests, BwlAccessClimb(l)
    PROVE  BwlCallInv' /\ BwlSeen
  <1>1. l \in Page /\ pc = "ready" /\ addr_temp' = l
    BY RequestsAssumption DEF BwlAccessClimb, Driving
  <1>2. CoreTypeOK /\ Consistent
    BY <1>1 DEF BwlInv, BwlTypeOK, TablesAgree
  <1>3. before.map = maplist /\ before.life = lifelist /\ lifelist \in [Page -> Int]
        /\ maplist \in [Page -> Page]
    BY <1>1, <1>2 DEF BwlCallInv, Snapshot, CoreTypeOK
  <1>4. \/ pc' = "write" /\ maplist' = maplist /\ lifelist' = lifelist
        \/ /\ pc' = "write" /\ Charge(maplist[l])
           /\ \E p \in Page : p # maplist[l] /\ maplist' = WL!Exchanged(maplist, l, p)
        \/ pc' = "worn" /\ \E p \in Page : lifelist[p] <= 0
    <2> DEFINE counts == [a \in Page |-> B1!CountIn(B1!Counted(l), a)]
    <2>1. Climber(l, counts[l] \div 4, counts[l], counts)
      BY DEF BwlAccessClimb
    <2> HIDE DEF counts
    <2> QED
      BY <1>1, <1>2, <2>1, ClimbFacts
  <1>5. CASE pc' = "worn"
    <2>1. PICK p \in Page : lifelist[p] <= 0
      BY <1>4, <1>5
    <2>2. before.life[p] <= 1
      BY <1>3, <2>1
    <2> QED
      BY <1>1, <1>5, <2>2, BwlWornSeen
  <1>6. CASE pc' = "write"
    <2>1. before' = before /\ BwlSeen
      BY <1>1, <1>6, BwlUnderWayUnseen
    <2>2. IsClimbed(maplist)' /\ (lifelist = LivesAfter(maplist, {}, {}))'
      BY <1>1, <1>3, <1>4, <1>6, <2>1, ClimbCharges
    <2> QED
      BY <1>6, <2>1, <2>2 DEF BwlCallInv
  <1> QED
    BY <1>4, <1>5, <1>6

(* The write. *)
LEMMA BwlWriteSeen ==
    ASSUME BwlInv, BwlInv', BwlCallInv, Remembers, BwlAccessWrite
    PROVE  BwlCallInv' /\ BwlSeen
  <1> DEFINE page == maplist[addr_temp]
  <1>1. /\ pc = "write" /\ Charge(page) /\ maplist' = maplist /\ addr_temp' = addr_temp
        /\ ~Survives(page) => pc' = "worn"
        /\ Survives(page) => \/ pc' = "remap" /\ host' = page
                             \/ pc' = "ready"
        /\ UNCHANGED filters /\ visited' = visited
    BY DEF BwlAccessWrite, BwlBeginRemap, tables
  <1>2. /\ IsClimbed(maplist) /\ lifelist = LivesAfter(maplist, {}, {}) /\ Consistent
        /\ maplist \in [Page -> Page] /\ lifelist \in [Page -> Int] /\ addr_temp \in Page
        /\ before.life \in [Page -> Int] /\ page \in Page /\ FiltersExact /\ visited = Start
    BY <1>1 DEF BwlCallInv, BwlInv, BwlTypeOK, CoreTypeOK, TablesAgree, VisitsFollowed
  <1>3. CASE ~Survives(page)
    <2>1. before.life[page] <= 1
      BY <1>2, <1>3, PaidFacts, WornLife
    <2> QED
      BY <1>1, <1>2, <1>3, <2>1, BwlWornSeen
  <1>4. ASSUME Survives(page) PROVE lifelist' = LivesAfter(maplist, {page} \cup WL!Moved(maplist, maplist'), {})
    <2>1. lifelist' = LivesAfter(maplist, {} \cup {page}, {})
      BY <1>1, <1>2, ChargedOnce
    <2>2. {} \cup {page} = {page} \cup WL!Moved(maplist, maplist')
      BY <1>1, NothingMoved
    <2> QED
      BY <2>1, <2>2
  <1>5. CASE Survives(page) /\ pc' = "remap" /\ host' = page
    <2>1. before' = before /\ BwlSeen
      BY <1>1, <1>5, BwlUnderWayUnseen
    <2>2. \A x, y \in Page : maplist[x] = maplist[y] => x = y
      BY <1>2 DEF Consistent
    <2>3. PaidAgain' = {}
      <3>1. Before(visited, LoopPlace(addr_temp))
        BY <1>2, LoopPlaceFacts
      <3>2. LoopPlace(addr_temp)' = LoopPlace(addr_temp)
        BY <1>1 DEF LoopPlace, filters, B1!Hot, B2!Hot
      <3> QED
        BY <1>1, <3>1, <3>2 DEF PaidAgain
    <2>4. IsClimbed(maplist)'
      BY <1>1, <1>2, <2>1 DEF IsClimbed
    <2>5. lifelist' = LivesAfter(maplist, {host} \cup WL!Moved(maplist, maplist), PaidAgain)'
      BY <1>1, <1>4, <1>5, <2>1, <2>3 DEF LivesAfter, ClimbCost
    <2>6. BwlRemapCharges(maplist)'
      BY <1>1, <1>2, <1>5, <2>2, <2>4, <2>5 DEF BwlRemapCharges
    <2>7. \E m \in [Page -> Page] : BwlRemapCharges(m)'
      BY <1>1, <1>2, <2>6
    <2> QED
      BY <1>5, <2>1, <2>7 DEF BwlCallInv
  <1>6. CASE Survives(page) /\ pc' = "ready"
    BY <1>1, <1>2, <1>4, <1>6, BwlReturnSeen
  <1> QED
    BY <1>1, <1>3, <1>5, <1>6

(* The page that took the write is not the one the climb was charged to.    *)
LEMMA HostNotClimbCost ==
    ASSUME before.map \in [Page -> Page], addr_temp \in Page, NEW m \in [Page -> Page],
           IsClimbed(m), \A x, y \in Page : m[x] = m[y] => x = y
    PROVE  m[addr_temp] \notin ClimbCost(m)
  <1>1. CASE m = before.map
    BY <1>1 DEF ClimbCost
  <1>2. CASE m # before.map
    <2>1. PICK p \in Page : m = WL!Exchanged(before.map, addr_temp, p)
      BY <1>2 DEF IsClimbed
    <2> SUFFICES ASSUME p = before.map[addr_temp] PROVE FALSE
      <3>1. m[addr_temp] = p
        BY <2>1 DEF WL!Exchanged
      <3> QED
        BY <1>2, <3>1 DEF ClimbCost
    <2>2. ASSUME NEW x \in Page PROVE m[x] = before.map[x]
      <3>1. CASE x = addr_temp
        BY <2>1, <3>1 DEF WL!Exchanged
      <3>2. CASE x # addr_temp /\ before.map[x] = p
        <4>1. m[x] = before.map[addr_temp] /\ m[addr_temp] = p
          BY <2>1, <3>2 DEF WL!Exchanged
        <4> QED
          BY <3>2, <4>1
      <3>3. CASE x # addr_temp /\ before.map[x] # p
        BY <2>1, <3>3 DEF WL!Exchanged
      <3> QED
        BY <3>1, <3>2, <3>3
    <2> QED
      BY <1>2, <2>2
  <1> QED
    BY <1>1, <1>2

(* What placing one more address charges, and when that ends the run. *)
LEMMA PlacingCharges ==
    ASSUME BwlInv, BwlCallInv, pc = "remap", NEW a \in Page, Before(visited, LoopPlace(a)),
           NEW last, Place(a, BwlOwed(a), last), NEW m \in [Page -> Page], BwlRemapCharges(m)
    PROVE  IF pc' = "worn"
           THEN \E p \in Page : before.life[p] <= 1
           ELSE /\ maplist' = [maplist EXCEPT ![a] = NewPage] /\ Continue(last)
                /\ lifelist' = LivesAfter(m, {host} \cup WL!Moved(m, maplist'),
                                          IF a = addr_temp THEN {host} ELSE PaidAgain)
  <1> DEFINE paid == {host} \cup WL!Moved(m, maplist)
             again == PaidAgain
             page == m[a]
  <1>1. /\ mapindex \in Page /\ randomkey \in 0 .. regionsize - 1 /\ sortednow \in Orders
        /\ maplist \in [Page -> Page] /\ lifelist \in [Page -> Int] /\ addr_temp \in Page
        /\ before.map \in [Page -> Page] /\ before.life \in [Page -> Int]
    BY DEF BwlInv, BwlTypeOK, CoreTypeOK, BwlCallInv
  <1>2. /\ maplist[a] = page /\ page \in Page /\ host = m[addr_temp] /\ IsClimbed(m)
        /\ \A x, y \in Page : m[x] = m[y] => x = y
        /\ lifelist = LivesAfter(m, paid, again)
    BY DEF BwlRemapCharges
  <1>3. NewPage \in Page
    BY <1>1, PlacedRankIsInjective, OrdersAssumption DEF NewPage
  <1>4. page \notin WL!Moved(m, maplist)
    BY <1>1, <1>2 DEF WL!Moved
  <1>5. again \in {{}, {host}} /\ (a = addr_temp => again = {})
    BY DEF PaidAgain
  <1>6. page = host <=> a = addr_temp
    BY <1>1, <1>2
  <1>7. host \notin ClimbCost(m)
    BY <1>1, <1>2, HostNotClimbCost
  <1>8. BwlOwed(a) <=> NewPage # page \/ a = addr_temp
    BY <1>2, <1>6 DEF BwlOwed
  <1>9. CASE BwlOwed(a) /\ ~Survives(page)
    <2>1. pc' = "worn"
      BY <1>2, <1>9 DEF Place
    <2>2. WL!Paid(page, ClimbCost(m)) + WL!Paid(page, paid) + WL!Paid(page, again) <= 1
      <3>1. CASE a = addr_temp
        <4>1. page \notin ClimbCost(m) /\ page \notin again
          BY <1>5, <1>6, <1>7, <3>1
        <4> QED
          BY <4>1, PaidFacts
      <3>2. CASE a # addr_temp
        <4>1. page \notin paid /\ page \notin again
          BY <1>4, <1>5, <1>6, <3>2
        <4> QED
          BY <4>1, PaidFacts
      <3> QED
        BY <3>1, <3>2
    <2> HIDE DEF page, paid, again
    <2>3. before.life[page] <= 1
      BY <1>1, <1>2, <1>9, <2>2, WornLife
    <2> QED
      BY <1>2, <2>1, <2>3
  <1>10. CASE ~(BwlOwed(a) /\ ~Survives(page))
    <2>1. /\ maplist' = [maplist EXCEPT ![a] = NewPage] /\ Continue(last) /\ pc' # "worn"
          /\ IF BwlOwed(a) THEN Charge(page) ELSE UNCHANGED lifelist
      BY <1>2, <1>10 DEF Place, Continue
    <2>2. WL!Moved(m, maplist') = WL!Moved(m, maplist) \cup (IF NewPage = page THEN {} ELSE {page})
      BY <1>1, <1>2, <1>3, <2>1, MovedGrows
    <2> DEFINE paidNow == {host} \cup WL!Moved(m, maplist')
    <2>3. CASE a = addr_temp
      <3>1. Charge(page) /\ page \notin again /\ again = {} /\ page = host
        BY <1>5, <1>6, <1>8, <2>1, <2>3
      <3>2. paidNow = paid /\ {page} = {host} /\ {} \cup {page} = {page}
        BY <2>2, <3>1
      <3> HIDE DEF page, paid, again, paidNow
      <3>3. lifelist' = LivesAfter(m, paid, again \cup {page})
        <4>1. page \in Page /\ before.life \in [Page -> Int] /\ lifelist = LivesAfter(m, paid, again)
          BY <1>1, <1>2
        <4>2. Charge(page) /\ page \notin again
          BY <3>1
        <4> QED
          BY <4>1, <4>2, ChargedOnce, Zenon
      <3>4. lifelist' = LivesAfter(m, paidNow, {host})
        BY <3>1, <3>2, <3>3
      <3> QED
        BY <2>1, <2>3, <3>4 DEF paidNow
    <2>4. CASE a # addr_temp /\ BwlOwed(a)
      <3>1. Charge(page) /\ page \notin paid
        BY <1>4, <1>6, <2>1, <2>4
      <3>2. paidNow = paid \cup {page}
        BY <1>8, <2>2, <2>4
      <3> HIDE DEF page, paid, again, paidNow
      <3>3. lifelist' = LivesAfter(m, paid \cup {page}, again)
        <4>1. page \in Page /\ before.life \in [Page -> Int] /\ lifelist = LivesAfter(m, paid, again)
          BY <1>1, <1>2
        <4> QED
          BY <3>1, <4>1, ChargedOnce, Zenon
      <3>4. lifelist' = LivesAfter(m, paidNow, again)
        BY <3>2, <3>3
      <3> QED
        BY <2>1, <2>4, <3>4 DEF paidNow, again
    <2>5. CASE a # addr_temp /\ ~BwlOwed(a)
      <3>1. lifelist' = lifelist /\ paidNow = paid
        BY <1>8, <2>1, <2>2, <2>5
      <3> HIDE DEF paid, again, paidNow
      <3>2. lifelist' = LivesAfter(m, paidNow, again)
        BY <1>2, <3>1
      <3> QED
        BY <2>1, <2>5, <3>2 DEF paidNow, again
    <2> QED
      BY <2>3, <2>4, <2>5
  <1> QED
    BY <1>9, <1>10

(* One iteration of the remap. *)
LEMMA BwlRemapSeen ==
    ASSUME BwlInv, BwlInv', BwlCallInv, Remembers, BwlRemapStep
    PROVE  BwlCallInv' /\ BwlSeen
  <1>1. PICK v \in Ahead :
           /\ IsNext(v) /\ Place(v.addr, BwlOwed(v.addr), Ahead = {v})
           /\ CASE pc' = "ready" -> B1!Clear /\ B2!Clear /\ visited' = Start
                [] pc' = "remap" -> UNCHANGED filters /\ visited' = v.at
                [] OTHER -> UNCHANGED <<filters, visited>>
    BY DEF BwlRemapStep
  <1> DEFINE a == v.addr
             last == Ahead = {v}
  <1>2. /\ pc = "remap" /\ pc' \in {"ready", "remap", "worn"} /\ addr_temp' = addr_temp
        /\ FiltersExact /\ visited \in LoopPlaces /\ addr_temp \in Page
        /\ a \in Page /\ Before(visited, LoopPlace(a))
    <2>1. pc = "remap" /\ pc' \in {"ready", "remap", "worn"} /\ addr_temp' = addr_temp
      BY <1>1 DEF Place, Continue
    <2>2. FiltersExact /\ visited \in LoopPlaces /\ addr_temp \in Page
      BY <2>1 DEF BwlInv, BwlTypeOK, CoreTypeOK, VisitsFollowed
    <2> QED
      BY <2>1, <2>2, AheadOfPages
  <1>3. PICK m \in [Page -> Page] : BwlRemapCharges(m)
    BY <1>2 DEF BwlCallInv
  <1>4. host = m[addr_temp] /\ IsClimbed(m) /\ PaidAgain \in {{}, {host}}
    BY <1>3 DEF BwlRemapCharges, PaidAgain
  <1>5. IF pc' = "worn"
        THEN \E p \in Page : before.life[p] <= 1
        ELSE /\ maplist' = [maplist EXCEPT ![a] = NewPage] /\ Continue(last)
             /\ lifelist' = LivesAfter(m, {host} \cup WL!Moved(m, maplist'),
                                       IF a = addr_temp THEN {host} ELSE PaidAgain)
    <2> HIDE DEF last, a
    <2>1. Place(a, BwlOwed(a), last)
      BY <1>1 DEF last, a
    <2> QED
      BY <1>2, <1>3, <2>1, PlacingCharges
  <1>6. CASE pc' = "worn"
    <2>1. PICK p \in Page : before.life[p] <= 1
      BY <1>5, <1>6
    <2> QED
      BY <1>2, <1>6, <2>1, BwlWornSeen
  <1>7. CASE pc' = "ready"
    <2> DEFINE again == IF a = addr_temp THEN {host} ELSE PaidAgain
    <2>1. again \in {{}, {m[addr_temp]}}
      BY <1>4
    <2>2. lifelist' = LivesAfter(m, {m[addr_temp]} \cup WL!Moved(m, maplist'), again)
      BY <1>4, <1>5, <1>7
    <2> HIDE DEF again
    <2> QED
      BY <1>2, <1>4, <1>7, <2>1, <2>2, BwlReturnSeen
  <1>8. CASE pc' = "remap"
    <2>1. /\ before' = before /\ BwlSeen /\ host' = host /\ UNCHANGED filters /\ visited' = v.at
          /\ maplist' = [maplist EXCEPT ![a] = NewPage]
      BY <1>1, <1>2, <1>5, <1>8, BwlUnderWayUnseen DEF Continue
    <2>2. \A x \in Page : Before(visited', LoopPlace(x)') <=> Before(visited, LoopPlace(x)) /\ x # a
      BY <1>1, <1>2, <2>1, AheadShrinks
    <2>3. ASSUME NEW x \in Page, Before(visited', LoopPlace(x)')
          PROVE  maplist'[x] = m[x]
      <3>1. maplist[x] = m[x] /\ x # a
        BY <1>3, <2>2, <2>3 DEF BwlRemapCharges
      <3>2. maplist \in [Page -> Page]
        BY DEF BwlInv, BwlTypeOK, CoreTypeOK
      <3> QED
        BY <2>1, <3>1, <3>2
    <2>4. PaidAgain' = IF a = addr_temp THEN {host} ELSE PaidAgain
      <3>1. Before(visited, LoopPlace(addr_temp))' <=> Before(visited', LoopPlace(addr_temp)')
        BY DEF Before
      <3>2. Before(visited, LoopPlace(addr_temp))' <=> Before(visited, LoopPlace(addr_temp)) /\ addr_temp # a
        <4>1. \A x \in Page : LoopPlace(x)' = LoopPlace(x)
          BY <2>1, SameFilters
        <4>2. LoopPlace(addr_temp)' = LoopPlace(addr_temp)
          BY <1>2, <2>1 DEF LoopPlace, filters, B1!Hot, B2!Hot
        <4> QED
          BY <1>2, <2>2, <3>1, <4>1, <4>2
      <3> QED
        BY <1>2, <2>1, <3>2 DEF PaidAgain
    <2>5. lifelist' = LivesAfter(m, {host} \cup WL!Moved(m, maplist), PaidAgain)'
      BY <1>2, <1>5, <1>8, <2>1, <2>4 DEF LivesAfter, ClimbCost
    <2>6. IsClimbed(m)'
      BY <1>2, <1>4, <2>1 DEF IsClimbed
    <2>7. BwlRemapCharges(m)'
      BY <1>2, <1>3, <1>4, <2>1, <2>3, <2>5, <2>6 DEF BwlRemapCharges
    <2> QED
      BY <1>8, <2>1, <2>7 DEF BwlCallInv
  <1> QED
    BY <1>2, <1>6, <1>7, <1>8

(* A step that changes nothing is not seen. *)
LEMMA BwlStutterSeen ==
    ASSUME BwlCallInv, UNCHANGED bwlVars, Remembers \/ before' = before
    PROVE  BwlCallInv' /\ BwlSeen
  <1>1. /\ UNCHANGED <<pc, maplist, lifelist, addr_temp, host, mapindex, visited>> /\ UNCHANGED filters
    BY DEF bwlVars, coreVars
  <1>2. before' = before
    BY <1>1 DEF Remembers, BwlCallInv, Snapshot
  <1>3. BwlSeen
    BY <1>1, <1>2 DEF BwlSeen, BwlWL!wvars
  <1>4. /\ \A m, S, T : LivesAfter(m, S, T)' = LivesAfter(m, S, T)
        /\ \A m : IsClimbed(m)' <=> IsClimbed(m)
        /\ \A a : LoopPlace(a)' = LoopPlace(a)
    BY <1>1, <1>2, SameFilters DEF LivesAfter, ClimbCost, IsClimbed
  <1>5. PaidAgain' = PaidAgain
    BY <1>1 DEF PaidAgain, LoopPlace, filters, B1!Hot, B2!Hot
  <1>6. ASSUME NEW m PROVE BwlRemapCharges(m)' <=> BwlRemapCharges(m)
    BY <1>1, <1>2, <1>4, <1>5 DEF BwlRemapCharges
  <1>7. BwlCallInv'
    BY <1>1, <1>2, <1>4, <1>6 DEF BwlCallInv, Snapshot
  <1> QED
    BY <1>3, <1>7

(***************************************************************************)
(* The bloom-filter scheme keeps the same promise, with the page that took *)
(* the write charged again in a remap: a call leaves a placement, charges  *)
(* the pages that received data, and fails only when a page could not take *)
(* what the write demands of it.                                           *)
(***************************************************************************)
THEOREM BwlWearLevelingKept == BwlHSpec => BwlImplementsWearLeveling
  <1>1. BwlHInit => BwlInv /\ BwlCallInv /\ BwlWL!Init
    <2> SUFFICES ASSUME BwlHInit PROVE BwlInv /\ BwlCallInv /\ BwlWL!Init
      OBVIOUS
    <2>1. BwlInv
      BY BwlInitInv DEF BwlHInit
    <2>2. /\ before.map = Identity /\ before.life = lifelist2 /\ before = Snapshot /\ pc = "ready"
          /\ maplist = Identity /\ lifelist = lifelist2
      BY DEF BwlHInit, BwlInit, CoreInit, Snapshot
    <2>3. BwlCallInv
      BY <2>1, <2>2 DEF BwlCallInv, BwlInv, BwlTypeOK, CoreTypeOK
    <2> QED
      BY <2>1, <2>2, <2>3 DEF BwlWL!Init, Identity
  <1>2. BwlInv /\ BwlCallInv /\ [BwlHNext]_bwlHvars => BwlInv' /\ BwlCallInv' /\ BwlSeen
    <2> SUFFICES ASSUME BwlInv, BwlCallInv, [BwlHNext]_bwlHvars
                 PROVE  BwlInv' /\ BwlCallInv' /\ BwlSeen
      OBVIOUS
    <2>1. BwlInv'
      BY BwlNextInv DEF BwlHNext, bwlHvars
    <2>2. CASE UNCHANGED bwlHvars
      BY <2>1, <2>2, BwlStutterSeen DEF bwlHvars
    <2>3. CASE BwlHNext
      <3>1. BwlNext /\ Remembers
        BY <2>3 DEF BwlHNext
      <3>2. ASSUME NEW l \in Requests, BwlAccessClimb(l) PROVE BwlCallInv' /\ BwlSeen
        BY <3>1, <3>2, BwlClimbSeen
      <3>3. CASE BwlAccessWrite
        BY <2>1, <3>1, <3>3, BwlWriteSeen
      <3>4. CASE BwlRemapStep
        BY <2>1, <3>1, <3>4, BwlRemapSeen
      <3>5. CASE Stopped /\ UNCHANGED <<filters, visited>>
        <4>1. UNCHANGED bwlVars
          BY <3>5 DEF Stopped, bwlVars
        <4> QED
          BY <2>1, <3>1, <4>1, BwlStutterSeen
      <3> QED
        BY <2>1, <3>1, <3>2, <3>3, <3>4, <3>5 DEF BwlNext
    <2> QED
      BY <2>2, <2>3
  <1> QED
    BY <1>1, <1>2, PTL DEF BwlHSpec, BwlImplementsWearLeveling, BwlWL!Spec, BwlSeen
=============================================================================
