--------------------------- MODULE SimMemoryProofs ---------------------------
(***************************************************************************)
(* The simulator's memory controller, for every number of pages, lines and *)
(* accesses, on the assumption that NVMain does not complete the request   *)
(* issued first after all the others of its group (ParentMayBeLast).       *)
(***************************************************************************)
EXTENDS SimMemory, TLAPS

(* Types and ranges of the scheme and of the controller. *)
SchemeTypeOK ==
    /\ lifelist \in [Page -> Int]
    /\ maplist \in [Page -> Page]
    /\ reverselist \in [Page -> Page]
    /\ sortedlist \in [Page -> Page]
    /\ climbla2hot \in [Page -> Page]
    /\ visitcount \in [Page -> Nat]

TypeOK ==
    /\ SchemeTypeOK
    /\ evlist \in [Slots -> Group \cup {None}]
    /\ inflightRequests \in Seq(Slots)
    /\ nextSchedEvent \in BOOLEAN
    /\ nextSchedRequest \in Slots \cup {None}
    /\ return_lock \in BOOLEAN
    /\ nvmain \subseteq Slots \X Nat
    /\ pc \in {"idle", "tick", "enqueue"}
    /\ current \in Slots \cup {None}
    /\ p2 \in Nat

(* The children of a group are numbered after its parent; it waits for     *)
(* them only after it was issued and its parent completed.                 *)
Linked ==
    \A g \in Slots : evlist[g] # None =>
        /\ \A i \in evlist[g].linked : i >= 2
        /\ evlist[g].isend => g \in Issued /\ <<g, 1>> \notin nvmain

(* What NVMain holds belongs to issued groups: their parents, and children *)
(* that are linked and that enqueue() has reached.                         *)
Holds ==
    \A r \in nvmain :
        /\ r[1] \in Issued
        /\ r[2] # 1 => r[2] \in evlist[r[1]].linked
        /\ current = r[1] => r[2] <= p2

(* enqueue() has a group in hand, of which some request is left to issue.  *)
InHand ==
    /\ pc = "enqueue" <=> current # None
    /\ pc # "enqueue" => p2 = 0
    /\ pc = "enqueue" =>
          /\ evlist[current] # None
          /\ p2 = 0 => current \notin Issued
          /\ p2 # 0 => /\ current \in Issued
                       /\ \E i \in evlist[current].linked : i > p2

(* Groups in flight are recorded, and listed once. *)
InFlight ==
    /\ \A g \in Issued : evlist[g] # None
    /\ \A i, j \in DOMAIN inflightRequests :
          inflightRequests[i] = inflightRequests[j] => i = j

Inv == TypeOK /\ TablesAgree /\ Linked /\ Holds /\ InHand /\ InFlight /\ Clocked

-----------------------------------------------------------------------------
(* Appending a slot that is not listed keeps the list free of repetitions. *)
LEMMA Appended ==
    ASSUME NEW s \in Seq(Slots), NEW g \in Slots,
           \A i \in DOMAIN s : s[i] # g,
           \A i, j \in DOMAIN s : s[i] = s[j] => i = j
    PROVE  /\ Append(s, g) \in Seq(Slots)
           /\ {Append(s, g)[i] : i \in DOMAIN Append(s, g)} = {s[i] : i \in DOMAIN s} \cup {g}
           /\ \A i, j \in DOMAIN Append(s, g) :
                 Append(s, g)[i] = Append(s, g)[j] => i = j
  <1>1. /\ Append(s, g) \in Seq(Slots)
        /\ DOMAIN s = 1 .. Len(s) /\ Len(s) \in Nat
        /\ DOMAIN Append(s, g) = 1 .. Len(s) + 1
        /\ \A i \in 1 .. Len(s) : Append(s, g)[i] = s[i]
        /\ Append(s, g)[Len(s) + 1] = g
    OBVIOUS
  <1> QED
    BY <1>1

(* What is where in the concatenation of two sequences. *)
LEMMA Joined ==
    ASSUME NEW S, NEW a \in Seq(S), NEW b \in Seq(S)
    PROVE  /\ a \o b \in Seq(S)
           /\ Len(a) \in Nat /\ Len(b) \in Nat /\ Len(a \o b) = Len(a) + Len(b)
           /\ DOMAIN (a \o b) = 1 .. Len(a) + Len(b)
           /\ \A i \in 1 .. Len(a) + Len(b) :
                 (a \o b)[i] = IF i <= Len(a) THEN a[i] ELSE b[i - Len(a)]
  OBVIOUS

(* Erasing one of the listed slots leaves the others, once each. *)
LEMMA Erased ==
    ASSUME NEW s \in Seq(Slots), NEW k \in DOMAIN s,
           \A i, j \in DOMAIN s : s[i] = s[j] => i = j
    PROVE  LET e == SubSeq(s, 1, k - 1) \o SubSeq(s, k + 1, Len(s))
           IN  /\ e \in Seq(Slots)
               /\ {e[i] : i \in DOMAIN e} = {s[i] : i \in DOMAIN s} \ {s[k]}
               /\ \A i, j \in DOMAIN e : e[i] = e[j] => i = j
  <1> DEFINE a == SubSeq(s, 1, k - 1)
             b == SubSeq(s, k + 1, Len(s))
             e == a \o b
  <1>1. Len(s) \in Nat /\ DOMAIN s = 1 .. Len(s) /\ k \in 1 .. Len(s)
    OBVIOUS
  <1>2. /\ a \in Seq(Slots) /\ Len(a) = k - 1
        /\ \A i \in 1 .. k - 1 : a[i] = s[i]
    BY <1>1
  <1>3. /\ b \in Seq(Slots) /\ Len(b) = Len(s) - k
        /\ \A i \in 1 .. Len(s) - k : b[i] = s[i + k]
    BY <1>1
  <1> HIDE DEF a, b
  <1>4. e \in Seq(Slots) /\ Len(e) = Len(s) - 1 /\ DOMAIN e = 1 .. Len(s) - 1
    <2>1. Len(a) + Len(b) = Len(s) - 1
      BY <1>1, <1>2, <1>3
    <2> QED
      BY <1>2, <1>3, <2>1, Joined
  <1> DEFINE t(i) == IF i < k THEN i ELSE i + 1
  <1>5. \A i \in DOMAIN e : /\ t(i) \in DOMAIN s /\ t(i) # k /\ e[i] = s[t(i)]
    <2> SUFFICES ASSUME NEW i \in 1 .. Len(s) - 1
                 PROVE  t(i) \in DOMAIN s /\ t(i) # k /\ e[i] = s[t(i)]
      BY <1>4
    <2>1. e[i] = IF i <= Len(a) THEN a[i] ELSE b[i - Len(a)]
      BY <1>1, <1>2, <1>3, Joined
    <2>2. CASE i < k
      BY <2>1, <2>2, <1>1, <1>2
    <2>3. CASE ~(i < k)
      <3>1. i - (k - 1) \in 1 .. Len(s) - k /\ i - (k - 1) + k = i + 1
        BY <2>3, <1>1
      <3>2. b[i - (k - 1)] = s[i + 1]
        BY <3>1, <1>3
      <3>3. ~(i <= Len(a)) /\ Len(a) = k - 1
        BY <2>3, <1>1, <1>2
      <3>4. e[i] = s[i + 1]
        BY <2>1, <3>2, <3>3
      <3> QED
        BY <2>3, <3>4, <1>1
    <2> QED
      BY <2>2, <2>3
  <1> HIDE DEF e
  <1>6. \A i, j \in DOMAIN e : e[i] = e[j] => i = j
    <2> SUFFICES ASSUME NEW i \in DOMAIN e, NEW j \in DOMAIN e, e[i] = e[j]
                 PROVE  i = j
      OBVIOUS
    <2>1. t(i) = t(j)
      <3> HIDE DEF t
      <3> QED
        BY <1>5
    <2>2. i \in Int /\ j \in Int /\ k \in Int
      BY <1>1, <1>4
    <2> QED
      BY <2>1, <2>2
  <1>7. \A i \in DOMAIN e : e[i] \in {s[j] : j \in DOMAIN s} \ {s[k]}
    <2> HIDE DEF t
    <2> QED
      BY <1>5
  <1>8. \A i \in DOMAIN s : i # k => \E j \in DOMAIN e : e[j] = s[i]
    <2> SUFFICES ASSUME NEW i \in DOMAIN s, i # k
                 PROVE  \E j \in DOMAIN e : t(j) = i
      BY <1>5
    <2>1. CASE i < k
      <3>1. i \in DOMAIN e /\ t(i) = i
        BY <2>1, <1>1, <1>4
      <3> QED
        BY <3>1
    <2>2. CASE i > k
      <3>1. i - 1 \in DOMAIN e /\ t(i - 1) = i
        BY <2>2, <1>1, <1>4
      <3> QED
        BY <3>1
    <2>3. i < k \/ i > k
      BY <1>1
    <2> QED
      BY <2>1, <2>2, <2>3
  <1>9. {e[i] : i \in DOMAIN e} = {s[i] : i \in DOMAIN s} \ {s[k]}
    BY <1>7, <1>8
  <1> QED
    BY <1>4, <1>6, <1>9 DEF e, a, b

-----------------------------------------------------------------------------
(* The same, for sequences whose lengths are known. *)
LEMMA JoinedTo ==
    ASSUME NEW S, NEW a \in Seq(S), NEW b \in Seq(S),
           NEW m \in Nat, NEW k \in Nat, NEW n \in Nat, Len(a) = m, Len(b) = k, n = m + k
    PROVE  /\ a \o b \in Seq(S) /\ Len(a \o b) = n /\ DOMAIN (a \o b) = 1 .. n
           /\ \A i \in 1 .. n : (a \o b)[i] = IF i <= m THEN a[i] ELSE b[i - m]
  BY Joined

(* What a swap records: every line of both pages, read once, written once. *)
LEMMA SwapEventsFacts ==
    ASSUME NEW new \in Page, NEW old \in Page
    PROVE  /\ SwapEvents(new, old) \in Seq(EventRecord)
           /\ Len(SwapEvents(new, old)) = 4 * lines
           /\ Pages(SwapEvents(new, old), TRUE) = {new, old}
           /\ Pages(SwapEvents(new, old), FALSE) = {new, old}
           /\ new # old => \A i, j \in DOMAIN SwapEvents(new, old) :
                 SwapEvents(new, old)[i] = SwapEvents(new, old)[j] => i = j
  <1> DEFINE r1 == pageread(new)
             r2 == pageread(old)
             w1 == pagewrite(new)
             w2 == pagewrite(old)
             s2 == r1 \o r2
             s3 == s2 \o w1
             s == s3 \o w2
             n == lines
             first == 2 * n + 1
             p(i) == IF i = 1 THEN first ELSE IF i = first THEN 1 ELSE i
             e == SwapEvents(new, old)
  <1>0. n \in Nat /\ n >= 1
    BY MemoryAssumption
  <1>1. /\ r1 \in Seq(EventRecord) /\ Len(r1) = n /\ r2 \in Seq(EventRecord) /\ Len(r2) = n
        /\ w1 \in Seq(EventRecord) /\ Len(w1) = n /\ w2 \in Seq(EventRecord) /\ Len(w2) = n
    BY <1>0 DEF pageread, pagewrite, Event, EventRecord
  <1>2. \A i \in 1 .. n : /\ r1[i] = Event(new, i, FALSE) /\ r2[i] = Event(old, i, FALSE)
                          /\ w1[i] = Event(new, i, TRUE) /\ w2[i] = Event(old, i, TRUE)
    BY DEF pageread, pagewrite
  <1> HIDE DEF r1, r2, w1, w2
  <1> DEFINE n2 == 2 * n
             n3 == 3 * n
             n4 == 4 * n
  <1>n. /\ n2 \in Nat /\ n3 \in Nat /\ n4 \in Nat
        /\ n2 = n + n /\ n3 = n2 + n /\ n4 = n3 + n
    BY <1>0
  <1> HIDE DEF n2, n3, n4
  <1>3. /\ s2 \in Seq(EventRecord) /\ Len(s2) = n2
        /\ \A i \in 1 .. n2 : s2[i] = IF i <= n THEN r1[i] ELSE r2[i - n]
    BY <1>0, <1>1, <1>n, JoinedTo
  <1> HIDE DEF s2
  <1>4. /\ s3 \in Seq(EventRecord) /\ Len(s3) = n3
        /\ \A i \in 1 .. n3 : s3[i] = IF i <= n2 THEN s2[i] ELSE w1[i - n2]
    <2>1. /\ s2 \in Seq(EventRecord) /\ Len(s2) = n2
          /\ w1 \in Seq(EventRecord) /\ Len(w1) = n
          /\ n \in Nat /\ n2 \in Nat /\ n3 \in Nat /\ n3 = n2 + n
      BY <1>0, <1>n, <1>1, <1>3
    <2> QED
      BY <2>1, JoinedTo
  <1> HIDE DEF s3
  <1>5. /\ s \in Seq(EventRecord) /\ Len(s) = n4 /\ DOMAIN s = 1 .. n4
        /\ \A i \in 1 .. n4 : s[i] = IF i <= n3 THEN s3[i] ELSE w2[i - n3]
    <2>1. /\ s3 \in Seq(EventRecord) /\ Len(s3) = n3
          /\ w2 \in Seq(EventRecord) /\ Len(w2) = n
          /\ n \in Nat /\ n3 \in Nat /\ n4 \in Nat /\ n4 = n3 + n
      BY <1>0, <1>n, <1>1, <1>4
    <2> QED
      BY <2>1, JoinedTo
  <1> HIDE DEF s
  <1> USE DEF n2, n3, n4
  <1> DEFINE of(i) == IF i <= n THEN Event(new, i, FALSE)
                      ELSE IF i <= 2 * n THEN Event(old, i - n, FALSE)
                      ELSE IF i <= 3 * n THEN Event(new, i - 2 * n, TRUE)
                      ELSE Event(old, i - 3 * n, TRUE)
  <1>6. \A i \in 1 .. 4 * n : s[i] = of(i)
    <2> SUFFICES ASSUME NEW i \in 1 .. 4 * n PROVE s[i] = of(i)
      OBVIOUS
    <2>1. CASE i <= n
      <3>1. i \in 1 .. n /\ i \in 1 .. 2 * n /\ i \in 1 .. 3 * n /\ i <= 2 * n /\ i <= 3 * n
        BY <1>0, <2>1
      <3> QED
        BY <2>1, <3>1, <1>2, <1>3, <1>4, <1>5
    <2>2. CASE ~(i <= n) /\ i <= 2 * n
      <3>1. i - n \in 1 .. n /\ i \in 1 .. 2 * n /\ i \in 1 .. 3 * n /\ i <= 3 * n
        BY <1>0, <2>2
      <3>2. s[i] = r2[i - n]
        BY <2>2, <3>1, <1>3, <1>4, <1>5
      <3> QED
        BY <2>2, <3>1, <3>2, <1>2
    <2>3. CASE ~(i <= 2 * n) /\ i <= 3 * n
      <3>1. i - 2 * n \in 1 .. n /\ i \in 1 .. 3 * n /\ ~(i <= n)
        BY <1>0, <2>3
      <3>2. s[i] = w1[i - 2 * n]
        BY <2>3, <3>1, <1>4, <1>5
      <3> QED
        BY <2>3, <3>1, <3>2, <1>2
    <2>4. CASE ~(i <= 3 * n)
      <3>1. i - 3 * n \in 1 .. n /\ ~(i <= n) /\ ~(i <= 2 * n)
        BY <1>0, <2>4
      <3>2. s[i] = w2[i - 3 * n]
        BY <2>4, <1>5
      <3> QED
        BY <2>4, <3>1, <3>2, <1>2
    <2>5. i \in Int
      OBVIOUS
    <2> QED
      BY <2>1, <2>2, <2>3, <2>4, <2>5, <1>0
  <1>7. first \in 1 .. 4 * n /\ 1 \in 1 .. 4 * n
    BY <1>0
  <1>8. e = [s EXCEPT ![1] = s[first], ![first] = s[1]]
    BY DEF SwapEvents, s, s3, s2, r1, r2, w1, w2
  <1> HIDE DEF e
  <1>9. /\ e \in Seq(EventRecord) /\ DOMAIN e = 1 .. 4 * n /\ Len(e) = 4 * n
        /\ \A i \in 1 .. 4 * n : e[i] = s[p(i)]
    BY <1>5, <1>7, <1>8
  <1>10. \A i \in 1 .. 4 * n : p(i) \in 1 .. 4 * n /\ p(p(i)) = i
    BY <1>0, <1>7
  <1> HIDE DEF p, first
  <1>11. \A i \in 1 .. 4 * n : e[i] = of(p(i)) /\ e[p(i)] = of(i)
    <2> HIDE DEF of
    <2> QED
      BY <1>6, <1>9, <1>10
  <1>12. \A i \in 1 .. 4 * n : /\ of(i).page \in {new, old}
                               /\ i <= 2 * n => of(i).isWrite = FALSE
                               /\ ~(i <= 2 * n) => of(i).isWrite = TRUE
    BY <1>0 DEF Event
  <1>13. /\ of(1).page = new /\ of(1).isWrite = FALSE /\ 1 \in 1 .. 4 * n
         /\ of(n + 1).page = old /\ of(n + 1).isWrite = FALSE /\ n + 1 \in 1 .. 4 * n
         /\ of(2 * n + 1).page = new /\ of(2 * n + 1).isWrite = TRUE /\ 2 * n + 1 \in 1 .. 4 * n
         /\ of(3 * n + 1).page = old /\ of(3 * n + 1).isWrite = TRUE /\ 3 * n + 1 \in 1 .. 4 * n
    BY <1>0 DEF Event
  <1>14. new # old => \A i, j \in 1 .. 4 * n : of(i) = of(j) => i = j
    <2> SUFFICES ASSUME new # old, NEW i \in 1 .. 4 * n, NEW j \in 1 .. 4 * n, of(i) = of(j)
                 PROVE  i = j
      OBVIOUS
    <2>1. of(i).page = of(j).page /\ of(i).line = of(j).line /\ of(i).isWrite = of(j).isWrite
      OBVIOUS
    <2>2. i \in Int /\ j \in Int
      OBVIOUS
    <2> QED
      BY <1>0, <2>1, <2>2 DEF Event
  <1> HIDE DEF of
  <1>15. Pages(e, TRUE) = {new, old} /\ Pages(e, FALSE) = {new, old}
    <2>1. Pages(e, TRUE) \subseteq {new, old} /\ Pages(e, FALSE) \subseteq {new, old}
      BY <1>9, <1>10, <1>11, <1>12 DEF Pages
    <2>2. \A i \in 1 .. 4 * n : /\ of(i).isWrite = TRUE => of(i).page \in Pages(e, TRUE)
                                /\ of(i).isWrite = FALSE => of(i).page \in Pages(e, FALSE)
      BY <1>9, <1>10, <1>11 DEF Pages
    <2>3. new \in Pages(e, TRUE) /\ old \in Pages(e, TRUE)
      BY <2>2, <1>13
    <2>4. new \in Pages(e, FALSE) /\ old \in Pages(e, FALSE)
      BY <2>2, <1>13
    <2> QED
      BY <2>1, <2>3, <2>4
  <1>16. new # old => \A i, j \in 1 .. 4 * n : e[i] = e[j] => i = j
    BY <1>10, <1>11, <1>14
  <1> QED
    BY <1>9, <1>15, <1>16 DEF e

-----------------------------------------------------------------------------
(* A write charges the pages it goes to and moves addresses only between   *)
(* the page it leaves and the page it goes to.                             *)
LEMMA WriteFacts ==
    ASSUME SchemeTypeOK, TablesAgree, NEW l \in Page, NEW page \in Page, WriteTo(l, page)
    PROVE  /\ SchemeTypeOK' /\ TablesAgree'
           /\ {maplist[k] : k \in {m \in Page : maplist'[m] # maplist[m]}}
                 = IF page = maplist[l] THEN {} ELSE {page, maplist[l]}
           /\ {p \in Page : lifelist'[p] # lifelist[p]} = {page, maplist[l]}
  <1> USE DEF SchemeTypeOK
  <1>1. maplist[l] \in Page /\ lifelist \in [Page -> Int]
    OBVIOUS
  <1>2. /\ lifelist' = [p \in Page |-> IF p \in {maplist[l], page}
                                       THEN lifelist[p] - 1 ELSE lifelist[p]]
        /\ visitcount' = [visitcount EXCEPT ![l] = visitcount[l] + 1]
        /\ UNCHANGED sortedlist
        /\ IF page = maplist[l] THEN UNCHANGED tables ELSE Exchange(l, page)
    BY DEF WriteTo
  <1>3. lifelist' \in [Page -> Int] /\ visitcount' \in [Page -> Nat] /\ sortedlist' \in [Page -> Page]
    BY <1>1, <1>2
  <1>4. {p \in Page : lifelist'[p] # lifelist[p]} = {page, maplist[l]}
    BY <1>1, <1>2
  <1>5. CASE page = maplist[l]
    BY <1>2, <1>3, <1>4, <1>5 DEF tables, TablesAgree
  <1>6. CASE page # maplist[l]
    <2> DEFINE old == maplist[l]
               tarla == reverselist[page]
    <2>1. tarla \in Page /\ tarla # l /\ maplist[tarla] = page /\ old \in Page
      BY <1>1, <1>6 DEF TablesAgree
    <2>2. /\ reverselist' = [reverselist EXCEPT ![page] = l, ![old] = tarla]
          /\ maplist' = [maplist EXCEPT ![l] = page, ![tarla] = old]
          /\ climbla2hot' = [climbla2hot EXCEPT ![l] = climbla2hot[tarla],
                                                ![tarla] = climbla2hot[l]]
          /\ UNCHANGED sortedlist
      BY <1>2, <1>6 DEF Exchange
    <2>3. /\ maplist' \in [Page -> Page] /\ reverselist' \in [Page -> Page]
          /\ climbla2hot' \in [Page -> Page]
      BY <2>1, <2>2
    <2>4. /\ maplist'[l] = page /\ maplist'[tarla] = old
          /\ \A k \in Page \ {l, tarla} : maplist'[k] = maplist[k]
      BY <2>1, <2>2
    <2>5. /\ reverselist'[page] = l /\ reverselist'[old] = tarla
          /\ \A p \in Page \ {page, old} : reverselist'[p] = reverselist[p]
      BY <2>1, <2>2, <1>6
    <2>6. /\ climbla2hot'[l] = climbla2hot[tarla] /\ climbla2hot'[tarla] = climbla2hot[l]
          /\ \A k \in Page \ {l, tarla} : climbla2hot'[k] = climbla2hot[k]
      BY <2>1, <2>2
    <2>7. \A k \in Page \ {l, tarla} : maplist[k] \notin {page, old}
      BY <2>1 DEF TablesAgree
    <2>8. \A p \in Page \ {page, old} : reverselist[p] \notin {l, tarla}
      BY <2>1 DEF TablesAgree
    <2>9. TablesAgree'
      <3>1. \A k \in Page : reverselist'[maplist'[k]] = k
        BY <2>1, <2>4, <2>5, <2>7 DEF TablesAgree
      <3>2. \A p \in Page : maplist'[reverselist'[p]] = p
        BY <2>1, <2>4, <2>5, <2>8 DEF TablesAgree
      <3>3. \A k \in Page : sortedlist'[climbla2hot'[k]] = maplist'[k]
        BY <2>1, <2>2, <2>4, <2>6 DEF TablesAgree
      <3> QED
        BY <3>1, <3>2, <3>3 DEF TablesAgree
    <2>10. {maplist[k] : k \in {m \in Page : maplist'[m] # maplist[m]}} = {page, old}
      BY <2>1, <2>4, <1>6
    <2> QED
      BY <2>3, <2>9, <2>10, <1>3, <1>4, <1>6
  <1> QED
    BY <1>5, <1>6

(* The order of the pages by life is a permutation, so it has an inverse. *)
LEMMA SchemeStarts == SchemeInit => SchemeTypeOK /\ TablesAgree
  <1> SUFFICES ASSUME SchemeInit PROVE SchemeTypeOK /\ TablesAgree
    OBVIOUS
  <1>1. sortedlist \in [Page -> Page] /\ \A p \in Page : \E i \in Page : sortedlist[i] = p
    BY DEF SchemeInit, LifeOrders
  <1>2. \A p \in Page : climbla2hot[p] \in Page /\ sortedlist[climbla2hot[p]] = p
    BY <1>1 DEF SchemeInit
  <1>3. climbla2hot \in [Page -> Page]
    BY <1>2 DEF SchemeInit
  <1>4. lifelist \in [Page -> Int]
    BY EnduranceAssumption DEF SchemeInit
  <1>5. SchemeTypeOK
    BY <1>1, <1>3, <1>4 DEF SchemeInit, SchemeTypeOK, Identity
  <1> QED
    BY <1>2, <1>5 DEF SchemeInit, TablesAgree, Identity

-----------------------------------------------------------------------------
(* Init establishes the invariant. *)
LEMMA Starts == Init => Inv
  <1> SUFFICES ASSUME Init PROVE Inv
    OBVIOUS
  <1>1. SchemeTypeOK /\ TablesAgree
    BY SchemeStarts DEF Init
  <1>2. TypeOK
    <2>1. evlist \in [Slots -> Group \cup {None}]
      BY DEF Init
    <2>2. inflightRequests \in Seq(Slots) /\ nvmain \subseteq Slots \X Nat
      BY DEF Init
    <2> QED
      BY <1>1, <2>1, <2>2 DEF Init, TypeOK
  <1>3. Issued = {}
    BY DEF Init, Issued
  <1> QED
    BY <1>1, <1>2, <1>3, MemoryAssumption
       DEF Init, Inv, Linked, Holds, InHand, InFlight, Clocked

(* A recorded group changes nothing for the others. *)
LEMMA Recorded ==
    ASSUME Inv, SchemeTypeOK', TablesAgree', NEW g \in Slots,
           NEW events \in Seq(EventRecord), Record(g, events)
    PROVE  Inv'
  <1>1. /\ pc = "idle" /\ ~return_lock /\ evlist[g] = None
        /\ evlist' = [evlist EXCEPT ![g] = [events |-> events,
                                            linked |-> 2 .. Len(events),
                                            isend  |-> FALSE]]
        /\ UNCHANGED weaveVars
    BY DEF Record
  <1> DEFINE new == [events |-> events, linked |-> 2 .. Len(events), isend  |-> FALSE]
  <1>2. new \in Group
    BY DEF Group
  <1>3. Issued' = Issued /\ UNCHANGED weaveVars
    BY <1>1 DEF Issued, weaveVars
  <1>4. evlist' = [evlist EXCEPT ![g] = new] /\ new # None /\ evlist \in [Slots -> Group \cup {None}]
    BY <1>1, <1>2, MemoryAssumption DEF Inv, TypeOK
  <1>5. new.isend = FALSE /\ \A i \in new.linked : i >= 2
    OBVIOUS
  <1> HIDE DEF new
  <1>6. TypeOK'
    BY <1>2, <1>3, <1>4 DEF Inv, TypeOK, weaveVars
  <1>7. g \notin Issued
    BY <1>1 DEF Inv, InFlight
  <1>8. Linked'
    BY <1>3, <1>4, <1>5 DEF Inv, Linked, weaveVars
  <1>9. Holds'
    <2>1. \A r \in nvmain : evlist'[r[1]] = evlist[r[1]]
      BY <1>4, <1>7 DEF Inv, Holds, TypeOK
    <2> QED
      BY <1>3, <2>1 DEF Inv, Holds, weaveVars
  <1>10. InHand'
    BY <1>1, <1>3 DEF Inv, InHand, weaveVars
  <1>11. InFlight'
    BY <1>3, <1>4 DEF Inv, InFlight, weaveVars
  <1>12. Clocked'
    BY <1>3 DEF Inv, Clocked, weaveVars
  <1> QED
    BY <1>6, <1>8, <1>9, <1>10, <1>11, <1>12 DEF Inv

(* The requests of an access that is not a swap. *)
LEMMA OneEvent ==
    ASSUME NEW l \in Page, NEW isWrite \in BOOLEAN
    PROVE  <<Event(l, 1, isWrite)>> \in Seq(EventRecord) /\ Len(<<Event(l, 1, isWrite)>>) = 1
  BY MemoryAssumption DEF Event, EventRecord

(* An access of the core, in the bound phase, keeps the invariant. *)
LEMMA Accessed ==
    ASSUME Inv, NEW g \in Slots, NEW l \in Requests, AccessRead(g, l) \/ AccessWrite(g, l)
    PROVE  Inv'
  <1>1. l \in Page
    BY WorkloadAssumption
  <1>2. CASE AccessRead(g, l)
    <2>1. SchemeTypeOK' /\ TablesAgree'
      BY <1>2 DEF Inv, TypeOK, AccessRead, SchemeTypeOK, TablesAgree, schemeVars
    <2>2. Record(g, <<Event(l, 1, FALSE)>>)
      BY <1>2 DEF AccessRead
    <2> QED
      BY <1>1, <2>1, <2>2, OneEvent, Recorded
  <1>3. CASE AccessWrite(g, l)
    <2>1. PICK page \in Page :
              /\ WriteTo(l, page)
              /\ Record(g, IF page = maplist[l] THEN <<Event(l, 1, TRUE)>>
                           ELSE SwapEvents(page, maplist[l]))
      BY <1>3 DEF AccessWrite
    <2>2. maplist[l] \in Page /\ SchemeTypeOK /\ TablesAgree
      BY <1>1 DEF Inv, TypeOK, SchemeTypeOK
    <2>3. SchemeTypeOK' /\ TablesAgree'
      BY <1>1, <2>1, <2>2, WriteFacts
    <2>4. (IF page = maplist[l] THEN <<Event(l, 1, TRUE)>>
           ELSE SwapEvents(page, maplist[l])) \in Seq(EventRecord)
      BY <1>1, <2>2, OneEvent, SwapEventsFacts
    <2> QED
      BY <2>1, <2>3, <2>4, Recorded
  <1> QED
    BY <1>2, <1>3

-----------------------------------------------------------------------------
(* The scheme is not asked in the weave phase. *)
LEMMA SchemeKept ==
    ASSUME SchemeTypeOK, TablesAgree, UNCHANGED schemeVars
    PROVE  SchemeTypeOK' /\ TablesAgree'
  BY DEF SchemeTypeOK, TablesAgree, schemeVars

(* The simulation of a due event starts: enqueue() has a group in hand. *)
LEMMA EnqueueStarted ==
    ASSUME Inv, NEW g \in Slots, StartEnqueue(g)
    PROVE  Inv'
  <1>1. /\ pc = "idle" /\ evlist[g] # None /\ g \notin Issued
        /\ pc' = "enqueue" /\ current' = g /\ p2' = 0
        /\ UNCHANGED <<schemeVars, evlist, inflightRequests, nextSchedEvent,
                       nextSchedRequest, return_lock, nvmain>>
        /\ Issued' = Issued
    BY DEF StartEnqueue, Issued
  <1>2. TypeOK' /\ TablesAgree'
    BY <1>1, SchemeKept DEF Inv, TypeOK
  <1>3. Linked' /\ InFlight' /\ Clocked'
    BY <1>1 DEF Inv, Linked, InFlight, Clocked
  <1>4. Holds'
    BY <1>1 DEF Inv, Holds
  <1>5. InHand'
    BY <1>1, MemoryAssumption DEF InHand
  <1> QED
    BY <1>2, <1>3, <1>4, <1>5 DEF Inv

(* An event put back leaves everything as it was. *)
LEMMA Requeued ==
    ASSUME Inv, Requeue
    PROVE  Inv'
  <1>1. /\ pc = "enqueue" /\ p2 = 0 /\ pc' = "idle" /\ current' = None
        /\ UNCHANGED <<schemeVars, evlist, inflightRequests, nextSchedEvent,
                       nextSchedRequest, return_lock, nvmain, p2>>
        /\ Issued' = Issued
    BY DEF Requeue, Issued
  <1>2. TypeOK' /\ TablesAgree'
    BY <1>1, SchemeKept DEF Inv, TypeOK
  <1>3. Linked' /\ InFlight' /\ Clocked'
    BY <1>1 DEF Inv, Linked, InFlight, Clocked
  <1>4. Holds'
    <2>1. \A r \in nvmain : r[1] # None
      BY MemoryAssumption DEF Inv, TypeOK
    <2> QED
      BY <1>1, <2>1 DEF Inv, Holds
  <1>5. InHand'
    BY <1>1 DEF InHand
  <1> QED
    BY <1>2, <1>3, <1>4, <1>5 DEF Inv

(* What issuing a request leaves of what NVMain holds and enqueue() has in *)
(* hand, once the group is listed as in flight.                            *)
LEMMA OneIssued ==
    ASSUME Inv, pc = "enqueue", NEW i \in Nat, Issue(i),
           UNCHANGED evlist, current \in Issued', Issued \subseteq Issued',
           i > p2, i = 1 \/ i \in evlist[current].linked
    PROVE  /\ Holds' /\ InHand'
           /\ pc' \in {"idle", "enqueue"} /\ current' \in Slots \cup {None} /\ p2' \in Nat
           /\ nvmain' \subseteq Slots \X Nat
           /\ nvmain' = nvmain \cup {<<current, i>>}
  <1>1. /\ current \in Slots /\ evlist[current] # None /\ current # None /\ p2 \in Nat
        /\ nvmain \subseteq Slots \X Nat
    BY MemoryAssumption DEF Inv, TypeOK, InHand
  <1>2. nvmain' = nvmain \cup {<<current, i>>}
    BY DEF Issue
  <1>3. CASE \E j \in evlist[current].linked : j > i
    <2>1. p2' = i /\ UNCHANGED <<pc, current>>
      BY <1>3 DEF Issue
    <2>2. i # 0
      BY <1>1
    <2>3. InHand'
      BY <1>1, <1>3, <2>1, <2>2 DEF InHand
    <2>4. Holds'
      <3> SUFFICES ASSUME NEW r \in nvmain'
                   PROVE  /\ r[1] \in Issued'
                          /\ r[2] # 1 => r[2] \in evlist[r[1]].linked
                          /\ current = r[1] => r[2] <= i
        BY <2>1 DEF Holds
      <3>1. CASE r \in nvmain
        <4>1. r[2] \in Nat
          BY <1>1, <3>1
        <4> QED
          BY <1>1, <3>1, <4>1 DEF Inv, Holds
      <3>2. CASE r = <<current, i>>
        BY <3>2
      <3> QED
        BY <1>2, <3>1, <3>2
    <2> QED
      BY <1>1, <1>2, <2>1, <2>3, <2>4
  <1>4. CASE ~\E j \in evlist[current].linked : j > i
    <2>1. p2' = 0 /\ pc' = "idle" /\ current' = None
      BY <1>4 DEF Issue
    <2>2. InHand'
      BY <2>1 DEF InHand
    <2>3. Holds'
      <3> SUFFICES ASSUME NEW r \in nvmain'
                   PROVE  /\ r[1] \in Issued' /\ r[1] # None
                          /\ r[2] # 1 => r[2] \in evlist[r[1]].linked
        BY <2>1 DEF Holds
      <3>1. CASE r \in nvmain
        BY <1>1, <3>1, MemoryAssumption DEF Inv, Holds
      <3>2. CASE r = <<current, i>>
        BY <1>1, <3>2
      <3> QED
        BY <1>2, <3>1, <3>2
    <2> QED
      BY <1>1, <1>2, <2>1, <2>2, <2>3
  <1> QED
    BY <1>3, <1>4

(* Issuing the parent lists the group as in flight and schedules tick(). *)
LEMMA ParentEnqueued ==
    ASSUME Inv, EnqueueParent
    PROVE  Inv'
  <1>1. /\ pc = "enqueue" /\ p2 = 0 /\ Issue(1)
        /\ inflightRequests' = Append(inflightRequests, current)
        /\ IF nextSchedEvent
           THEN UNCHANGED <<nextSchedEvent, nextSchedRequest>>
           ELSE nextSchedEvent' = TRUE /\ nextSchedRequest' = current
        /\ UNCHANGED <<schemeVars, evlist, return_lock>>
    BY DEF EnqueueParent
  <1>2. /\ current \in Slots /\ evlist[current] # None /\ current \notin Issued
        /\ inflightRequests \in Seq(Slots)
    BY <1>1, MemoryAssumption DEF Inv, TypeOK, InHand
  <1>3. /\ inflightRequests' \in Seq(Slots)
        /\ Issued' = Issued \cup {current}
        /\ \A i, j \in DOMAIN inflightRequests' :
              inflightRequests'[i] = inflightRequests'[j] => i = j
    BY <1>1, <1>2, Appended DEF Inv, InFlight, Issued
  <1>4. /\ Holds' /\ InHand'
        /\ pc' \in {"idle", "enqueue"} /\ current' \in Slots \cup {None} /\ p2' \in Nat
        /\ nvmain' \subseteq Slots \X Nat
        /\ nvmain' = nvmain \cup {<<current, 1>>}
    BY <1>1, <1>3, OneIssued
  <1>5. TypeOK' /\ TablesAgree'
    BY <1>1, <1>2, <1>3, <1>4, SchemeKept DEF Inv, TypeOK
  <1>6. Linked'
    BY <1>1, <1>2, <1>3, <1>4 DEF Inv, Linked
  <1>7. InFlight'
    BY <1>1, <1>2, <1>3 DEF Inv, InFlight
  <1>8. nextSchedEvent' = TRUE
    BY <1>1 DEF Inv, TypeOK
  <1>9. Clocked'
    BY <1>1, <1>3, <1>4, <1>8 DEF Inv, Clocked
  <1> QED
    BY <1>4, <1>5, <1>6, <1>7, <1>9 DEF Inv

(* Issuing a child goes on through the list of the group's children. *)
LEMMA ChildEnqueued ==
    ASSUME Inv, enqueuechild
    PROVE  Inv'
  <1>1. /\ pc = "enqueue" /\ p2 # 0
        /\ UNCHANGED <<schemeVars, evlist, inflightRequests, nextSchedEvent,
                       nextSchedRequest, return_lock>>
        /\ Issued' = Issued
    BY DEF enqueuechild, Issued
  <1>2. PICK i \in evlist[current].linked : i > p2 /\ Issue(i)
    BY DEF enqueuechild
  <1>3. current \in Slots /\ evlist[current] # None /\ current \in Issued /\ evlist[current] \in Group
    BY <1>1, MemoryAssumption DEF Inv, TypeOK, InHand
  <1>4. i \in Nat /\ i >= 2
    BY <1>3 DEF Inv, Linked, Group
  <1>5. /\ Holds' /\ InHand'
        /\ pc' \in {"idle", "enqueue"} /\ current' \in Slots \cup {None} /\ p2' \in Nat
        /\ nvmain' \subseteq Slots \X Nat
        /\ nvmain' = nvmain \cup {<<current, i>>}
    BY <1>1, <1>2, <1>3, <1>4, OneIssued
  <1>6. TypeOK' /\ TablesAgree'
    BY <1>1, <1>5, SchemeKept DEF Inv, TypeOK
  <1>7. Linked'
    BY <1>1, <1>4, <1>5 DEF Inv, Linked
  <1>8. InFlight'
    BY <1>1 DEF Inv, InFlight
  <1>9. inflightRequests # <<>>
    BY <1>3 DEF Issued
  <1>10. Clocked'
    BY <1>1, <1>5, <1>9 DEF Inv, Clocked
  <1> QED
    BY <1>5, <1>6, <1>7, <1>8, <1>10 DEF Inv

(* tick() begins to cycle NVMain. *)
LEMMA TickStarted ==
    ASSUME Inv, StartTick
    PROVE  Inv'
  <1>1. /\ pc = "idle" /\ pc' = "tick" /\ nextSchedEvent
        /\ UNCHANGED <<schemeVars, evlist, inflightRequests, nextSchedEvent,
                       nextSchedRequest, return_lock, nvmain, current, p2>>
        /\ Issued' = Issued
    BY DEF StartTick, Issued
  <1>2. TypeOK' /\ TablesAgree'
    BY <1>1, SchemeKept DEF Inv, TypeOK
  <1> QED
    BY <1>1, <1>2 DEF Inv, Linked, Holds, InHand, InFlight, Clocked

(* tick() ends and waits for the oldest of what is in flight, if any. *)
LEMMA TickEnded ==
    ASSUME Inv, EndTick
    PROVE  Inv'
  <1>1. /\ pc = "tick" /\ pc' = "idle"
        /\ UNCHANGED <<schemeVars, evlist, inflightRequests, return_lock, nvmain,
                       current, p2>>
        /\ Issued' = Issued
        /\ IF nextSchedRequest = None THEN NextToWaitFor
           ELSE UNCHANGED <<nextSchedEvent, nextSchedRequest>>
    BY DEF EndTick, Issued
  <1>2. inflightRequests \in Seq(Slots) /\ (inflightRequests # <<>> => Head(inflightRequests) \in Issued)
    BY DEF Inv, TypeOK, Issued
  <1>3. Issued \subseteq Slots
    BY <1>2 DEF Issued
  <1>4. inflightRequests = <<>> => nvmain = {}
    BY DEF Inv, Holds, Issued
  <1>5. nextSchedEvent' \in BOOLEAN /\ nextSchedRequest' \in Slots \cup {None}
    BY <1>1, <1>2, <1>3 DEF NextToWaitFor, Inv, TypeOK
  <1>6. TypeOK' /\ TablesAgree'
    BY <1>1, <1>5, SchemeKept DEF Inv, TypeOK
  <1>7. Clocked'
    BY <1>1, <1>2, <1>4 DEF Inv, Clocked, NextToWaitFor
  <1> QED
    BY <1>1, <1>6, <1>7 DEF Inv, Linked, Holds, InHand, InFlight

-----------------------------------------------------------------------------
(* The step that ends a group: nothing of it is left to issue or complete. *)
EndsWhole(g) ==
    /\ g \in Issued /\ g # current
    /\ \A r \in nvmain' : r[1] # g

(* The last request of a group that completes ends it. *)
LEMMA Retired ==
    ASSUME Inv, NEW g \in Slots, NEW i \in Nat, Completes(g, i), Retire(g),
           UNCHANGED return_lock, evlist[g].linked \subseteq {i}, i = 1 \/ evlist[g].isend
    PROVE  Inv' /\ EndsWhole(g)
  <1>1. /\ <<g, i>> \in nvmain /\ nvmain' = nvmain \ {<<g, i>>}
        /\ UNCHANGED <<schemeVars, nextSchedEvent, pc, current, p2, return_lock>>
        /\ evlist' = [evlist EXCEPT ![g] = None]
        /\ nextSchedRequest' = IF nextSchedRequest = g THEN None ELSE nextSchedRequest
    BY DEF Completes, Retire
  <1>2. g \in Issued /\ evlist[g] # None /\ (current = g => i <= p2)
    BY <1>1 DEF Inv, Holds, InFlight
  <1>3. g # current
    <2> SUFFICES ASSUME g = current PROVE FALSE
      OBVIOUS
    <2>1. pc = "enqueue"
      BY MemoryAssumption DEF Inv, InHand
    <2>2. PICK j \in evlist[g].linked : j > p2
      BY <2>1, <1>2 DEF Inv, InHand
    <2>3. j = i
      BY <2>2
    <2> QED
      BY <1>2, <2>2, <2>3 DEF Inv, TypeOK
  <1>4. nvmain \subseteq Slots \X Nat
    BY DEF Inv, TypeOK
  <1>5. \A r \in nvmain' : r[1] # g
    <2> SUFFICES ASSUME NEW r \in nvmain', r[1] = g PROVE FALSE
      OBVIOUS
    <2>1. r \in nvmain /\ r # <<g, i>> /\ r = <<g, r[2]>>
      BY <1>1, <1>4
    <2>2. r[2] # i
      BY <2>1
    <2>3. r[2] = 1
      BY <2>1, <2>2 DEF Inv, Holds
    <2>4. i # 1 /\ <<g, 1>> \in nvmain
      BY <2>1, <2>2, <2>3
    <2> QED
      BY <1>2, <2>4 DEF Inv, Linked
  <1>6. PICK k \in DOMAIN inflightRequests :
            /\ inflightRequests[k] = g
            /\ inflightRequests' = SubSeq(inflightRequests, 1, k - 1)
                                   \o SubSeq(inflightRequests, k + 1, Len(inflightRequests))
    BY DEF Retire, Erase
  <1>7. /\ inflightRequests' \in Seq(Slots)
        /\ Issued' = Issued \ {g}
        /\ \A m, j \in DOMAIN inflightRequests' :
              inflightRequests'[m] = inflightRequests'[j] => m = j
    <2>1. /\ inflightRequests \in Seq(Slots)
          /\ \A m, j \in DOMAIN inflightRequests :
                inflightRequests[m] = inflightRequests[j] => m = j
      BY DEF Inv, TypeOK, InFlight
    <2> DEFINE e == SubSeq(inflightRequests, 1, k - 1)
                    \o SubSeq(inflightRequests, k + 1, Len(inflightRequests))
    <2>2. /\ e \in Seq(Slots)
          /\ {e[m] : m \in DOMAIN e}
                = {inflightRequests[m] : m \in DOMAIN inflightRequests} \ {inflightRequests[k]}
          /\ \A m, j \in DOMAIN e : e[m] = e[j] => m = j
      BY <2>1, Erased
    <2>3. inflightRequests' = e
      BY <1>6
    <2> HIDE DEF e
    <2> QED
      BY <1>6, <2>2, <2>3 DEF Issued
  <1>8. evlist \in [Slots -> Group \cup {None}]
    BY DEF Inv, TypeOK
  <1>9. TypeOK' /\ TablesAgree'
    BY <1>1, <1>4, <1>7, <1>8, SchemeKept DEF Inv, TypeOK
  <1>10. \A h \in Slots : h # g => evlist'[h] = evlist[h]
    BY <1>1, <1>8
  <1>11. Linked'
    BY <1>1, <1>7, <1>8, <1>10 DEF Inv, Linked
  <1>12. Holds'
    BY <1>1, <1>4, <1>5, <1>7, <1>10 DEF Inv, Holds
  <1>13. InHand'
    <2>1. pc = "enqueue" => current \in Slots /\ evlist'[current] = evlist[current]
      BY <1>3, <1>10 DEF Inv, TypeOK, InHand
    <2> QED
      BY <1>1, <1>3, <1>7, <2>1 DEF Inv, InHand
  <1>14. InFlight'
    <2>1. Issued \subseteq Slots
      BY DEF Inv, TypeOK, Issued
    <2> QED
      BY <1>7, <1>10, <2>1 DEF Inv, InFlight
  <1>15. nextSchedEvent = TRUE /\ return_lock = FALSE
    BY <1>1 DEF Inv, Clocked, TypeOK
  <1>16. Clocked'
    BY <1>1, <1>7, <1>15 DEF Inv, Clocked
  <1> QED
    BY <1>2, <1>3, <1>5, <1>9, <1>11, <1>12, <1>13, <1>14, <1>16 DEF Inv, EndsWhole

(* A completion that leaves others of its group to wait for. *)
LEMMA Waited ==
    ASSUME Inv, NEW g \in Slots, NEW i \in Nat, Completes(g, i),
           UNCHANGED <<inflightRequests, nextSchedRequest, return_lock>>,
           NEW kept \in Group, evlist' = [evlist EXCEPT ![g] = kept],
           kept.linked = evlist[g].linked \ {i},
           kept.isend => i = 1 \/ evlist[g].isend,
           kept.linked # {}
    PROVE  Inv' /\ evlist'[g] # None
  <1>1. /\ <<g, i>> \in nvmain /\ nvmain' = nvmain \ {<<g, i>>}
        /\ UNCHANGED <<schemeVars, nextSchedEvent, pc, current, p2, return_lock>>
        /\ Issued' = Issued
    BY DEF Completes, Issued
  <1>2. g \in Issued /\ evlist[g] # None /\ (current = g => i <= p2)
    BY <1>1 DEF Inv, Holds, InFlight
  <1>3. /\ evlist \in [Slots -> Group \cup {None}] /\ kept # None
        /\ nvmain \subseteq Slots \X Nat
    BY MemoryAssumption DEF Inv, TypeOK
  <1>4. evlist'[g] = kept /\ \A h \in Slots : h # g => evlist'[h] = evlist[h]
    BY <1>3
  <1>5. TypeOK' /\ TablesAgree'
    BY <1>1, <1>3, SchemeKept DEF Inv, TypeOK
  <1>6. Linked'
    <2>1. kept.isend => <<g, 1>> \notin nvmain'
      BY <1>1, <1>2 DEF Inv, Linked
    <2> QED
      BY <1>1, <1>2, <1>4, <2>1 DEF Inv, Linked
  <1>7. Holds'
    <2> SUFFICES ASSUME NEW r \in nvmain'
                 PROVE  /\ r[1] \in Issued
                        /\ r[2] # 1 => r[2] \in evlist'[r[1]].linked
                        /\ current = r[1] => r[2] <= p2
      BY <1>1 DEF Holds
    <2>1. r \in nvmain /\ r[1] \in Slots /\ r # <<g, i>> /\ r = <<r[1], r[2]>>
      BY <1>1, <1>3
    <2>2. r[1] = g => r[2] # i
      BY <2>1
    <2> QED
      BY <1>4, <2>1, <2>2 DEF Inv, Holds
  <1>8. InHand'
    <2>1. pc = "enqueue" => current \in Slots /\ evlist'[current] # None
      BY <1>3, <1>4, MemoryAssumption DEF Inv, TypeOK, InHand
    <2>2. \A j \in evlist[g].linked : current = g /\ j > p2 => j \in kept.linked
      BY <1>2, <1>3 DEF Inv, Linked, TypeOK
    <2>3. (pc = "enqueue" /\ p2 # 0) => \E j \in evlist'[current].linked : j > p2
      BY <1>4, <2>1, <2>2 DEF Inv, InHand
    <2> QED
      BY <1>1, <2>1, <2>3 DEF Inv, InHand
  <1>9. InFlight'
    <2>1. Issued \subseteq Slots
      BY DEF Inv, TypeOK, Issued
    <2> QED
      BY <1>1, <1>3, <1>4, <2>1 DEF Inv, InFlight
  <1>10. nextSchedEvent = TRUE /\ return_lock = FALSE
    BY <1>1 DEF Inv, Clocked, TypeOK
  <1>11. Clocked'
    BY <1>1, <1>10 DEF Inv, Clocked
  <1> QED
    BY <1>3, <1>4, <1>5, <1>6, <1>7, <1>8, <1>9, <1>11 DEF Inv

(* Every completion that NVMain reports keeps the invariant, and a group   *)
(* ends whole.                                                             *)
LEMMA Completed ==
    ASSUME Inv, ParentMayBeLast = FALSE, NEW g \in Slots, RequestComplete(g)
    PROVE  /\ Inv'
           /\ \A h \in Slots : evlist[h] # None /\ evlist'[h] = None => EndsWhole(h)
  <1>1. evlist \in [Slots -> Group \cup {None}] /\ nvmain \subseteq Slots \X Nat
    BY DEF Inv, TypeOK
  <1>2. \A r \in nvmain : r[1] = g => evlist[g] \in Group /\ evlist[g] # None
    BY <1>1 DEF Inv, Holds, InFlight
  <1>3. CASE ParentCompletes(g)
    <2>1. Completes(g, 1) /\ UNCHANGED return_lock
      BY <1>3 DEF ParentCompletes
    <2>2. evlist[g] \in Group /\ <<g, 1>> \in nvmain
      BY <2>1, <1>2 DEF Completes
    <2>3. CASE evlist[g].linked # {}
      <3> DEFINE kept == [evlist[g] EXCEPT !.isend = TRUE]
      <3>1. /\ evlist' = [evlist EXCEPT ![g] = kept]
            /\ UNCHANGED <<inflightRequests, nextSchedRequest>>
        BY <1>3, <2>3 DEF ParentCompletes
      <3>2. kept \in Group /\ kept.linked = evlist[g].linked
        BY <2>2 DEF Group
      <3>3. 1 \notin evlist[g].linked
        BY <2>2, MemoryAssumption DEF Inv, Linked
      <3>4. kept.linked = evlist[g].linked \ {1} /\ kept.linked # {} /\ 1 \in Nat
        BY <2>3, <3>2, <3>3
      <3> HIDE DEF kept
      <3>5. Inv' /\ evlist'[g] # None
        BY <2>1, <3>1, <3>2, <3>4, Waited
      <3> QED
        BY <1>1, <3>1, <3>5
    <2>4. CASE evlist[g].linked = {}
      <3>1. Retire(g)
        BY <1>3, <2>4 DEF ParentCompletes
      <3>2. Inv' /\ EndsWhole(g)
        BY <2>1, <2>4, <3>1, Retired
      <3> QED
        BY <1>1, <3>1, <3>2 DEF Retire
    <2> QED
      BY <2>3, <2>4
  <1>4. CASE \E r \in nvmain : r[1] = g /\ ChildCompletes(g, r[2])
    <2>1. PICK r \in nvmain : r[1] = g /\ ChildCompletes(g, r[2])
      BY <1>4
    <2> DEFINE i == r[2]
    <2>2. i \in Nat /\ i # 1 /\ Completes(g, i)
      BY <1>1, <2>1 DEF ChildCompletes
    <2>3. evlist[g] \in Group /\ evlist[g] # None /\ i \in evlist[g].linked
      BY <1>2, <2>1, <2>2 DEF Inv, Holds
    <2> HIDE DEF i
    <2>4. CASE evlist[g].linked # {i}
      <3> DEFINE kept == [evlist[g] EXCEPT !.linked = evlist[g].linked \ {i}]
      <3>1. /\ evlist' = [evlist EXCEPT ![g] = kept]
            /\ UNCHANGED <<inflightRequests, nextSchedRequest, return_lock>>
        BY <2>1, <2>4 DEF ChildCompletes, i
      <3>2. kept \in Group /\ kept.linked = evlist[g].linked \ {i} /\ kept.isend = evlist[g].isend
        BY <2>3 DEF Group
      <3> HIDE DEF kept
      <3>3. kept.linked # {}
        BY <2>3, <2>4, <3>2
      <3>4. Inv' /\ evlist'[g] # None
        BY <2>2, <3>1, <3>2, <3>3, Waited
      <3> QED
        BY <1>1, <3>1, <3>4
    <2>5. CASE evlist[g].linked = {i}
      <3>1. evlist[g].isend /\ Retire(g) /\ UNCHANGED return_lock
        BY <2>1, <2>5 DEF ChildCompletes, i
      <3>2. Inv' /\ EndsWhole(g)
        BY <2>2, <2>5, <3>1, Retired
      <3> QED
        BY <1>1, <3>1, <3>2 DEF Retire
    <2> QED
      BY <2>4, <2>5
  <1> QED
    BY <1>3, <1>4 DEF RequestComplete

-----------------------------------------------------------------------------
(* Every step keeps the invariant. *)
LEMMA Steps ==
    ASSUME ParentMayBeLast = FALSE, Inv, [Next]_vars
    PROVE  Inv'
  <1>1. CASE \E g \in Slots, l \in Requests : AccessRead(g, l) \/ AccessWrite(g, l)
    BY <1>1, Accessed
  <1>2. CASE \E g \in Slots : StartEnqueue(g)
    BY <1>2, EnqueueStarted
  <1>3. CASE \E g \in Slots : RequestComplete(g)
    BY <1>3, Completed
  <1>4. CASE Requeue
    BY <1>4, Requeued
  <1>5. CASE EnqueueParent
    BY <1>5, ParentEnqueued
  <1>6. CASE enqueuechild
    BY <1>6, ChildEnqueued
  <1>7. CASE StartTick
    BY <1>7, TickStarted
  <1>8. CASE EndTick
    BY <1>8, TickEnded
  <1>9. CASE UNCHANGED vars
    BY <1>9 DEF vars, schemeVars, weaveVars, Inv, TypeOK, SchemeTypeOK, TablesAgree,
                Linked, Holds, InHand, InFlight, Clocked, Issued
  <1> QED
    BY <1>1, <1>2, <1>3, <1>4, <1>5, <1>6, <1>7, <1>8, <1>9 DEF Next

(* The invariant that the others follow from. *)
THEOREM Invariance == ParentMayBeLast = FALSE /\ Spec => []Inv
  <1> SUFFICES ASSUME ParentMayBeLast = FALSE PROVE Spec => []Inv
    OBVIOUS
  <1>1. Init => Inv
    BY Starts
  <1>2. Inv /\ [Next]_vars => Inv'
    BY Steps
  <1> QED
    BY <1>1, <1>2, PTL DEF Spec

(* The scheme's tables describe one placement after every access. *)
THEOREM TablesAlwaysAgree == ParentMayBeLast = FALSE /\ Spec => []TablesAgree
  <1>1. Inv => TablesAgree
    BY DEF Inv
  <1> QED
    BY <1>1, Invariance, PTL

(* tick() is scheduled while requests are in flight, and return_lock free. *)
THEOREM AlwaysClocked == ParentMayBeLast = FALSE /\ Spec => []Clocked
  <1>1. Inv => Clocked
    BY DEF Inv
  <1> QED
    BY <1>1, Invariance, PTL

(* Only completions take a group away. *)
LEMMA OnlyCompletionsEnd ==
    ASSUME ParentMayBeLast = FALSE, Inv, [Next]_vars
    PROVE  \A h \in Slots : evlist[h] # None /\ evlist'[h] = None => EndsWhole(h)
  <1>1. evlist \in [Slots -> Group \cup {None}]
    BY DEF Inv, TypeOK
  <1>2. CASE \E g \in Slots, l \in Requests : AccessRead(g, l) \/ AccessWrite(g, l)
    <2>1. \E g \in Slots : \E group : evlist[g] = None /\ evlist' = [evlist EXCEPT ![g] = group]
      BY <1>2 DEF AccessRead, AccessWrite, Record
    <2> QED
      BY <1>1, <2>1
  <1>3. CASE \E g \in Slots : RequestComplete(g)
    BY <1>3, Completed
  <1>4. CASE \/ \E g \in Slots : StartEnqueue(g)
             \/ Requeue \/ EnqueueParent \/ enqueuechild \/ StartTick \/ EndTick
             \/ UNCHANGED vars
    <2>1. UNCHANGED evlist
      BY <1>4 DEF StartEnqueue, Requeue, EnqueueParent, enqueuechild, StartTick, EndTick, vars
    <2> QED
      BY <2>1
  <1> QED
    BY <1>2, <1>3, <1>4 DEF Next

(* The core hears that an access is done only when all of it is. *)
THEOREM AlwaysDoneAfterAll == ParentMayBeLast = FALSE /\ Spec => DoneAfterAll
  <1> SUFFICES ASSUME ParentMayBeLast = FALSE PROVE Spec => DoneAfterAll
    OBVIOUS
  <1> DEFINE A == \A g \in Slots : evlist[g] # None /\ evlist'[g] = None =>
                    /\ g \in Issued /\ g # current
                    /\ \A r \in nvmain' : r[1] # g
  <1>1. Inv /\ [Next]_vars => [A]_vars
    BY OnlyCompletionsEnd DEF EndsWhole
  <1>2. Spec => []Inv
    BY Invariance
  <1> QED
    BY <1>1, <1>2, PTL DEF Spec, DoneAfterAll

(* Only accesses move addresses and record groups. *)
LEMMA OnlyAccessesMove ==
    ASSUME Inv, [Next]_vars, ~\E g \in Slots, l \in Requests : AccessRead(g, l) \/ AccessWrite(g, l)
    PROVE  UNCHANGED maplist /\ \A g \in Slots : evlist[g] = None => evlist'[g] = None
  <1>1. CASE \E g \in Slots : RequestComplete(g)
    <2>1. PICK g \in Slots : RequestComplete(g)
      BY <1>1
    <2>2. PICK r \in nvmain : r[1] = g /\ Completes(g, r[2])
      BY <2>1 DEF RequestComplete, ParentCompletes, ChildCompletes, Completes
    <2>3. evlist[g] # None
      BY <2>2 DEF Inv, Holds, InFlight
    <2>4. evlist \in [Slots -> Group \cup {None}]
      BY DEF Inv, TypeOK
    <2>5. \E group : evlist' = [evlist EXCEPT ![g] = group]
      BY <2>1 DEF RequestComplete, ParentCompletes, ChildCompletes, Retire
    <2>6. UNCHANGED maplist
      BY <2>2 DEF Completes, schemeVars
    <2> QED
      BY <2>3, <2>4, <2>5, <2>6
  <1>2. CASE \/ \E g \in Slots : StartEnqueue(g)
             \/ Requeue \/ EnqueueParent \/ enqueuechild \/ StartTick \/ EndTick
             \/ UNCHANGED vars
    BY <1>2 DEF StartEnqueue, Requeue, EnqueueParent, enqueuechild, StartTick, EndTick,
                vars, schemeVars
  <1> QED
    BY <1>1, <1>2 DEF Next

(* A read moves nothing and records one event. *)
LEMMA ReadCopiesNothing ==
    ASSUME Inv, NEW g \in Slots, NEW l \in Requests, AccessRead(g, l)
    PROVE  MovesCopied
  <1>1. Moved = {}
    BY DEF AccessRead, schemeVars, Moved
  <1>2. /\ evlist[g] = None
        /\ evlist' = [evlist EXCEPT ![g] = [events |-> <<Event(l, 1, FALSE)>>,
                                            linked |-> 2 .. Len(<<Event(l, 1, FALSE)>>),
                                            isend  |-> FALSE]]
    BY DEF AccessRead, Record
  <1>3. evlist \in [Slots -> Group \cup {None}]
    BY DEF Inv, TypeOK
  <1>4. \A h \in Slots : evlist[h] = None /\ evlist'[h] # None =>
            Len(evlist'[h].events) = 1
    BY <1>2, <1>3
  <1> QED
    BY <1>1, <1>4 DEF MovesCopied

(* A write records the copies of what it moves. *)
LEMMA WriteCopiesMoves ==
    ASSUME Inv, NEW g \in Slots, NEW l \in Requests, AccessWrite(g, l)
    PROVE  MovesCopied
  <1>1. l \in Page /\ SchemeTypeOK /\ TablesAgree /\ maplist[l] \in Page
    BY WorkloadAssumption DEF Inv, TypeOK, SchemeTypeOK
  <1>2. PICK page \in Page :
          /\ WriteTo(l, page)
          /\ Record(g, IF page = maplist[l] THEN <<Event(l, 1, TRUE)>>
                       ELSE SwapEvents(page, maplist[l]))
    BY DEF AccessWrite
  <1>3. PICK events \in Seq(EventRecord) :
          /\ Record(g, events)
          /\ events = IF page = maplist[l] THEN <<Event(l, 1, TRUE)>>
                      ELSE SwapEvents(page, maplist[l])
    BY <1>1, <1>2, OneEvent, SwapEventsFacts
  <1>4. /\ Moved = IF page = maplist[l] THEN {} ELSE {page, maplist[l]}
        /\ {p \in Page : lifelist'[p] # lifelist[p]} = {page, maplist[l]}
    BY <1>1, <1>2, WriteFacts DEF Moved
  <1>5. IF Moved = {} THEN Len(events) = 1 ELSE Copies(events, Moved)
    <2>1. CASE page = maplist[l]
      BY <2>1, <1>1, <1>3, <1>4, OneEvent
    <2>2. CASE page # maplist[l]
      <3>1. Moved = {page, maplist[l]} /\ Moved # {} /\ events = SwapEvents(page, maplist[l])
        BY <2>2, <1>3, <1>4
      <3> QED
        BY <2>2, <3>1, <1>1, SwapEventsFacts DEF Copies
    <2> QED
      BY <2>1, <2>2
  <1> DEFINE new == [events |-> events, linked |-> 2 .. Len(events), isend |-> FALSE]
  <1>6. evlist[g] = None /\ evlist' = [evlist EXCEPT ![g] = new]
    BY <1>3 DEF Record
  <1>7. new \in Group
    BY DEF Group
  <1>8. new # None /\ new.events = events
    BY <1>7, MemoryAssumption
  <1> HIDE DEF new
  <1>9. evlist \in [Slots -> Group \cup {None}]
    BY DEF Inv, TypeOK
  <1>10. /\ evlist'[g] # None
         /\ \A h \in Slots : evlist[h] = None /\ evlist'[h] # None => evlist'[h].events = events
    BY <1>6, <1>8, <1>9
  <1>11. Moved # {} => {p \in Page : lifelist'[p] # lifelist[p]} = Moved
    BY <1>4
  <1> QED
    BY <1>5, <1>6, <1>10, <1>11 DEF MovesCopied

(* So does every step. *)
LEMMA StepsCopy ==
    ASSUME Inv, [Next]_vars
    PROVE  MovesCopied
  <1>1. CASE \E g \in Slots, l \in Requests : AccessRead(g, l) \/ AccessWrite(g, l)
    BY <1>1, ReadCopiesNothing, WriteCopiesMoves
  <1>2. CASE ~\E g \in Slots, l \in Requests : AccessRead(g, l) \/ AccessWrite(g, l)
    <2>1. UNCHANGED maplist /\ \A g \in Slots : evlist[g] = None => evlist'[g] = None
      BY <1>2, OnlyAccessesMove
    <2>2. Moved = {}
      BY <2>1 DEF Moved
    <2> QED
      BY <2>1, <2>2 DEF MovesCopied
  <1> QED
    BY <1>1, <1>2

(* What moves between pages is copied between them, and they are charged. *)
THEOREM SwapsAlwaysCopied == ParentMayBeLast = FALSE /\ Spec => SwapsCopied
  <1>1. Inv /\ [Next]_vars => [MovesCopied]_vars
    BY StepsCopy
  <1> QED
    BY <1>1, Invariance, PTL DEF Spec, SwapsCopied
=============================================================================
