--------------------------- MODULE SchedulerProofs ---------------------------
(***************************************************************************)
(* What the scheduler keeps true of contexts, queues and hand-offs, for    *)
(* any number of threads and cores, any masks and any quantum.             *)
(***************************************************************************)
EXTENDS Scheduler, FiniteSetTheorems, WellFoundedInduction, TLAPS

(***************************************************************************)
(* What is excluded: calls that follow each other with no instruction      *)
(* between, a call that returns while the watchdog gives up on it, and a   *)
(* process killed while a thread of it waits for a context or its turn.    *)
(* Each of them breaks the hand-over of contexts (see the README).         *)
(***************************************************************************)
Orderly ==
    /\ ~PromptReturn /\ ~BackToBack
    /\ Killable \subseteq {"app", "marked", "out", "nap"}

(* The types of the variables. *)
Types ==
    /\ state \in [Thread -> ThreadState] /\ cid \in [Thread -> Core]
    /\ handoff \in [Thread -> Thread \cup {None}] /\ futexWord \in [Thread -> {0, 1}]
    /\ marked \in [Thread -> BOOLEAN] /\ due \in [Thread -> -1 .. MaxSleep]
    /\ curThread \in [Core -> Thread \cup {None}] /\ phase \in 0 .. schedQuantum - 1
    /\ bar \in [Core -> {"out", "ready", "running", "done"}]
    /\ pc \in [Thread -> {"none", "out", "joining", "queued", "app", "marked", "nap",
                          "syncing", "handoff", "dead", "ending", "ended"}]
    /\ wd \in Thread \cup {None}

(* The queues are lists without repetitions. *)
Lists ==
    /\ freeList \in Seq(Core) /\ Distinct(freeList)
    /\ runQueue \in Seq(Thread) /\ Distinct(runQueue)
    /\ outQueue \in Seq(Thread) /\ Distinct(outQueue)
    /\ sleepQueue \in Seq(Thread) /\ Distinct(sleepQueue)
    /\ fakeLeaves \in Seq(Thread) /\ Distinct(fakeLeaves)

(* ContextsExact, without the types, from the side of each. *)
ContextsInv ==
    /\ \A t \in Thread : HasContext(t) => curThread[cid[t]] = t
    /\ \A c \in Core : curThread[c] # None => HasContext(curThread[c]) /\ cid[curThread[c]] = c
    /\ \A c \in Core : c \in ToSet(freeList) <=> curThread[c] = None
    /\ \A c \in Core : bar[c] # "out" <=> curThread[c] # None /\ state[curThread[c]] = "RUNNING"

(* Who is in which queue. *)
QueuesInv ==
    /\ \A t \in ToSet(runQueue) : t \in Thread /\ state[t] = "QUEUED"
    /\ \A t \in Thread : t \in ToSet(outQueue) <=> state[t] = "OUT"
    /\ \A t \in Thread : t \in ToSet(sleepQueue) <=> state[t] = "SLEEPING"

(* A hand-off is set at the end of a phase, when its thread waits in sync(),*)
(* and carried out when the thread has got its turn.                        *)
HandoffInv ==
    /\ \A t \in Thread : handoff[t] # None =>
          /\ pc[t] \in {"syncing", "handoff"} /\ bar[cid[t]] \in {"ready", "running"}
          /\ state[handoff[t]] = "QUEUED" /\ handoff[t] \notin ToSet(runQueue)
    /\ \A t, u \in Thread : handoff[t] = handoff[u] /\ handoff[t] # None => t = u
    /\ \A t \in Thread : state[t] = "QUEUED" =>
          t \in ToSet(runQueue) \/ \E u \in Thread : handoff[u] = t

(* What a thread is doing tells its state, and what it waits for. *)
PlacesInv ==
    \A t \in Thread :
        /\ pc[t] = "none" <=> state[t] = "NONE"
        /\ pc[t] \in {"app", "marked", "handoff", "ending", "joining", "syncing"} =>
              state[t] = "RUNNING"
        /\ pc[t] = "queued" => state[t] = (IF futexWord[t] = 1 THEN "QUEUED" ELSE "RUNNING")
        /\ state[t] = "QUEUED" => pc[t] = "queued"
        /\ pc[t] = "nap" => state[t] = "SLEEPING" \/ (state[t] = "BLOCKED" /\ futexWord[t] = 0)
        /\ pc[t] = "ended" => state[t] \in {"OUT", "BLOCKED", "SLEEPING"}
        /\ state[t] = "SLEEPING" => futexWord[t] = 1
        /\ pc[t] = "handoff" => handoff[t] # None
        /\ marked[t] => pc[t] \in {"marked", "dead", "ending"} /\ state[t] = "RUNNING"
                        /\ futexWord[t] = 1 /\ due[t] >= 1
        /\ pc[t] = "marked" => marked[t]

(* A scheduled thread has its turn, unless it waits for it in the barrier. *)
TurnsInv ==
    \A t \in Thread : state[t] = "RUNNING" =>
        \/ bar[cid[t]] = "running"
        \/ pc[t] = "joining" /\ bar[cid[t]] = "ready"
        \/ pc[t] = "syncing"

(* A leave that is suppressed is that of a scheduled thread in a call; the  *)
(* watchdog's is of one that was.                                           *)
CallsInv ==
    /\ \A t \in Thread : t \in ToSet(fakeLeaves) =>
          state[t] = "RUNNING" /\ pc[t] \in {"out", "dead"} /\ t # wd
    /\ \A t \in Thread : pc[t] = "out" /\ state[t] = "RUNNING" => t \in ToSet(fakeLeaves) \/ t = wd
    /\ wd # None =>
          \/ pc[wd] = "ended"
          \/ state[wd] = "RUNNING" /\ pc[wd] \in {"out", "dead", "ending"}

(* The inductive invariant. *)
Inv == /\ Types /\ Lists /\ ContextsInv /\ QueuesInv /\ HandoffInv /\ PlacesInv
       /\ TurnsInv /\ CallsInv /\ NoIdleContextWanted /\ SleepersOnTime

-----------------------------------------------------------------------------
(* Facts about lists. *)

(* A nonempty set of numbers has a smallest one. *)
LEMMA SmallestExists ==
    ASSUME NEW S \in SUBSET Nat, S # {}
    PROVE  Min(S) \in S /\ \A m \in S : Min(S) <= m
  <1>1. IsWellFoundedOn(OpToRel(<, Nat), Nat)
    BY NatLessThanWellFounded, Zenon
  <1>2. PICK n \in S : \A m \in S : ~(<<m, n>> \in OpToRel(<, Nat))
    BY <1>1, WFMin, Zenon
  <1>3. \A m \in S : ~(m < n)
    BY <1>2 DEF OpToRel
  <1>4. \A m \in S : n <= m
    BY <1>3
  <1> QED
    BY <1>4 DEF Min

(* The first of some places of a list. *)
LEMMA FirstAtFacts ==
    ASSUME NEW S, None \notin S, NEW s \in Seq(S), NEW P \in SUBSET DOMAIN s
    PROVE  /\ P = {} => FirstAt(s, P) = None
           /\ P # {} => FirstAt(s, P) \in S /\ \E i \in P : FirstAt(s, P) = s[i]
  <1>1. CASE P = {}
    BY <1>1 DEF FirstAt
  <1>2. CASE P # {}
    <2>1. P \in SUBSET Nat
      OBVIOUS
    <2>2. Min(P) \in P
      BY <1>2, <2>1, SmallestExists
    <2> QED
      BY <1>2, <2>2 DEF FirstAt
  <1> QED
    BY <1>1, <1>2

(* The elements of r are elements of s, in the order of s. *)
Keeps(r, s) ==
    \A i, j \in DOMAIN r : i < j => \E k, l \in DOMAIN s : k < l /\ r[i] = s[k] /\ r[j] = s[l]

(* Unlinking an element from a list. *)
LEMMA Unlinked ==
    ASSUME NEW S, NEW s \in Seq(S), Distinct(s), NEW x
    PROVE  /\ RemoveFirst(s, x) \in Seq(S) /\ Distinct(RemoveFirst(s, x))
           /\ \A y : y \in ToSet(RemoveFirst(s, x)) <=> y \in ToSet(s) /\ y # x
           /\ Keeps(RemoveFirst(s, x), s)
  <1> DEFINE r == RemoveFirst(s, x)
  <1>1. Len(s) \in Nat /\ DOMAIN s = 1 .. Len(s)
    OBVIOUS
  <1>2. CASE \E i \in 1 .. Len(s) : s[i] = x
    <2> DEFINE I == {i \in 1 .. Len(s) : s[i] = x}
    <2>1. I \in SUBSET Nat /\ I # {}
      BY <1>2
    <2>2. Min(I) \in I
      BY <2>1, SmallestExists
    <2>3. r = RemoveAt(s, Min(I))
      BY <1>2 DEF RemoveFirst, SelectInSeq
    <2> DEFINE n == Min(I)
    <2>4. n \in 1 .. Len(s) /\ s[n] = x
      BY <2>2
    <2> HIDE DEF n, r
    <2>5. r = SubSeq(s, 1, n - 1) \o SubSeq(s, n + 1, Len(s))
      BY <2>3 DEF RemoveAt, n
    <2> DEFINE a == SubSeq(s, 1, n - 1)
               b == SubSeq(s, n + 1, Len(s))
    <2>6. a \in Seq(S) /\ Len(a) = n - 1 /\ \A i \in 1 .. n - 1 : a[i] = s[i]
      BY <2>4
    <2>7. b \in Seq(S) /\ Len(b) = Len(s) - n /\ \A i \in 1 .. Len(s) - n : b[i] = s[i + n]
      BY <2>4
    <2> HIDE DEF a, b
    <2>8. r \in Seq(S) /\ Len(r) = Len(s) - 1 /\ DOMAIN r = 1 .. Len(s) - 1
      <3>1. r = a \o b
        BY <2>5 DEF a, b
      <3> QED
        <4>1. a \o b \in Seq(S) /\ Len(a \o b) = Len(a) + Len(b)
          BY <2>6, <2>7
        <4>2. Len(a) + Len(b) = Len(s) - 1
          BY <1>1, <2>4, <2>6, <2>7
        <4> QED
          BY <3>1, <4>1, <4>2
    <2>9. \A i \in 1 .. Len(s) - 1 : r[i] = IF i < n THEN s[i] ELSE s[i + 1]
      <3> SUFFICES ASSUME NEW i \in 1 .. Len(s) - 1 PROVE r[i] = IF i < n THEN s[i] ELSE s[i + 1]
        OBVIOUS
      <3>1. r = a \o b
        BY <2>5 DEF a, b
      <3>2. CASE i < n
        BY <1>1, <2>4, <2>6, <2>7, <3>1, <3>2
      <3>3. CASE ~(i < n)
        <4>1. i - Len(a) \in 1 .. Len(s) - n /\ i > Len(a) /\ i - Len(a) = i - n + 1
          BY <1>1, <2>4, <2>6, <3>3
        <4>2. r[i] = b[i - Len(a)]
          BY <1>1, <2>4, <2>6, <2>7, <3>1, <4>1
        <4>3. b[i - Len(a)] = s[i + 1]
          <5>1. (i - Len(a)) + n = i + 1
            BY <1>1, <2>4, <2>6
          <5> QED
            BY <2>7, <4>1, <5>1
        <4> QED
          BY <3>3, <4>2, <4>3
      <3> QED
        BY <3>2, <3>3
    <2> DEFINE at(i) == IF i < n THEN i ELSE i + 1
    <2>10. /\ \A i \in DOMAIN r : at(i) \in DOMAIN s /\ at(i) # n /\ r[i] = s[at(i)]
           /\ \A i, j \in DOMAIN r : i < j => at(i) < at(j)
      BY <1>1, <2>4, <2>8, <2>9
    <2>11. \A k \in DOMAIN s \ {n} : \E i \in DOMAIN r : at(i) = k
      <3> SUFFICES ASSUME NEW k \in DOMAIN s \ {n} PROVE \E i \in DOMAIN r : at(i) = k
        OBVIOUS
      <3>1. CASE k < n
        BY <1>1, <2>4, <2>8, <3>1
      <3>2. CASE k > n
        <4>1. k - 1 \in DOMAIN r /\ at(k - 1) = k
          BY <1>1, <2>4, <2>8, <3>2
        <4> QED
          BY <4>1
      <3> QED
        BY <1>1, <2>4, <3>1, <3>2
    <2> HIDE DEF at
    <2>12. Keeps(r, s)
      BY <2>10 DEF Keeps
    <2>13. Distinct(r)
      <3>1. \A i, j \in DOMAIN r : at(i) = at(j) => i = j
        BY <1>1, <2>8, <2>10
      <3> QED
        BY <2>10, <3>1 DEF Distinct
    <2>14. \A y : y \in ToSet(r) <=> y \in ToSet(s) /\ y # x
      <3>1. \A y \in ToSet(r) : y \in ToSet(s) /\ y # x
        <4> SUFFICES ASSUME NEW i \in DOMAIN r PROVE r[i] \in ToSet(s) /\ r[i] # x
          BY DEF ToSet
        <4>1. at(i) \in DOMAIN s /\ at(i) # n /\ r[i] = s[at(i)] /\ n \in DOMAIN s /\ s[n] = x
          BY <1>1, <2>4, <2>10
        <4> QED
          BY <4>1 DEF ToSet, Distinct
      <3>2. ASSUME NEW y \in ToSet(s), y # x PROVE y \in ToSet(r)
        <4>1. PICK k \in DOMAIN s : s[k] = y
          BY DEF ToSet
        <4>2. k # n
          BY <2>4, <3>2, <4>1
        <4> QED
          BY <2>10, <2>11, <4>1, <4>2 DEF ToSet
      <3> QED
        BY <3>1, <3>2
    <2> QED
      BY <2>8, <2>12, <2>13, <2>14 DEF r
  <1>3. CASE ~\E i \in 1 .. Len(s) : s[i] = x
    <2>1. r = s
      BY <1>3 DEF RemoveFirst
    <2>2. x \notin ToSet(s)
      BY <1>1, <1>3 DEF ToSet
    <2>3. Keeps(s, s)
      BY DEF Keeps
    <2> QED
      BY <2>1, <2>2, <2>3
  <1> QED
    BY <1>2, <1>3

(* Appending another element. *)
LEMMA Appended ==
    ASSUME NEW S, NEW s \in Seq(S), Distinct(s), NEW x \in S, x \notin ToSet(s)
    PROVE  /\ Append(s, x) \in Seq(S) /\ Distinct(Append(s, x))
           /\ \A y : y \in ToSet(Append(s, x)) <=> y \in ToSet(s) \/ y = x
  <1> DEFINE w == Append(s, x)
  <1>1. /\ w \in Seq(S) /\ Len(s) \in Nat /\ DOMAIN s = 1 .. Len(s) /\ DOMAIN w = 1 .. Len(s) + 1
        /\ w[Len(s) + 1] = x /\ \A i \in 1 .. Len(s) : w[i] = s[i]
    OBVIOUS
  <1> HIDE DEF w
  <1>2. \A i \in DOMAIN w : (i \in DOMAIN s /\ w[i] = s[i]) \/ (i = Len(s) + 1 /\ w[i] = x)
    BY <1>1
  <1>3. Distinct(w)
    BY <1>2 DEF Distinct, ToSet
  <1>4. \A y : y \in ToSet(w) <=> y \in ToSet(s) \/ y = x
    <2>1. \A y \in ToSet(w) : y \in ToSet(s) \/ y = x
      BY <1>2 DEF ToSet
    <2>2. \A y \in ToSet(s) : y \in ToSet(w)
      <3>1. \A i \in DOMAIN s : i \in DOMAIN w /\ w[i] = s[i]
        BY <1>1
      <3> QED
        BY <3>1 DEF ToSet
    <2>3. x \in ToSet(w)
      <3>1. Len(s) + 1 \in DOMAIN w
        BY <1>1
      <3> QED
        BY <1>1, <3>1 DEF ToSet
    <2> QED
      BY <2>1, <2>2, <2>3
  <1> QED
    BY <1>1, <1>3, <1>4 DEF w

(* Inserting another element. *)
LEMMA Inserted ==
    ASSUME NEW S, NEW s \in Seq(S), Distinct(s), NEW x \in S, x \notin ToSet(s),
          NEW n \in 1 .. Len(s) + 1
    PROVE  LET w == InsertAt(s, n, x)
           IN  /\ w \in Seq(S) /\ DOMAIN w = 1 .. Len(s) + 1 /\ Distinct(w)
               /\ \A y : y \in ToSet(w) <=> y \in ToSet(s) \/ y = x
               /\ w[n] = x
               /\ \A i \in 1 .. n - 1 : i \in DOMAIN s /\ w[i] = s[i]
               /\ \A i \in n + 1 .. Len(s) + 1 : i - 1 \in DOMAIN s /\ w[i] = s[i - 1]
  <1> DEFINE w == InsertAt(s, n, x)
             a == SubSeq(s, 1, n - 1)
             b == SubSeq(s, n, Len(s))
             c == <<x>> \o b
  <1>1. Len(s) \in Nat /\ DOMAIN s = 1 .. Len(s)
    OBVIOUS
  <1>2. a \in Seq(S) /\ Len(a) = n - 1 /\ \A i \in 1 .. n - 1 : a[i] = s[i]
    OBVIOUS
  <1>3. b \in Seq(S) /\ Len(b) = Len(s) - n + 1
              /\ \A i \in 1 .. Len(s) - n + 1 : b[i] = s[i + n - 1]
    OBVIOUS
  <1>4. w = a \o <<x>> \o b
    BY DEF InsertAt
  <1> HIDE DEF a, b, w
  <1> DEFINE d == a \o <<x>>
  <1>5. d \in Seq(S) /\ Len(d) = n /\ d[n] = x /\ \A i \in 1 .. n - 1 : d[i] = a[i]
    <2>1. d = Append(a, x)
      BY <1>2
    <2> QED
      BY <1>1, <1>2, <2>1
  <1> HIDE DEF d
  <1>6. w = d \o b
    BY <1>4 DEF d
  <1>7. w \in Seq(S) /\ Len(w) = Len(d) + Len(b) /\ DOMAIN w = 1 .. Len(w)
    <2>1. d \in Seq(S) /\ b \in Seq(S)
      BY <1>3, <1>5
    <2>2. d \o b \in Seq(S) /\ Len(d \o b) = Len(d) + Len(b)
      BY <2>1
    <2> QED
      BY <1>6, <2>2
  <1>8. Len(w) = Len(s) + 1
    BY <1>1, <1>3, <1>5, <1>7
  <1>9. \A i \in 1 .. Len(s) + 1 : w[i] = IF i <= n THEN d[i] ELSE b[i - n]
    <2> SUFFICES ASSUME NEW i \in 1 .. Len(s) + 1 PROVE w[i] = IF i <= n THEN d[i] ELSE b[i - n]
      OBVIOUS
    <2>1. i \in 1 .. Len(d) + Len(b)
      BY <1>7, <1>8
    <2> QED
      BY <1>3, <1>5, <1>6, <2>1
  <1>10. w[n] = x
    BY <1>1, <1>5, <1>9
  <1>11. \A i \in 1 .. n - 1 : i \in DOMAIN s /\ w[i] = s[i]
    BY <1>1, <1>2, <1>5, <1>9
  <1>12. \A i \in n + 1 .. Len(s) + 1 : i - 1 \in DOMAIN s /\ w[i] = s[i - 1]
    <2> SUFFICES ASSUME NEW i \in n + 1 .. Len(s) + 1 PROVE i - 1 \in DOMAIN s /\ w[i] = s[i - 1]
      OBVIOUS
    <2>1. i - n \in 1 .. Len(s) - n + 1 /\ (i - n) + n - 1 = i - 1 /\ ~(i <= n)
                /\ i \in 1 .. Len(s) + 1
      BY <1>1
    <2>2. w[i] = b[i - n] /\ b[i - n] = s[i - 1]
      BY <1>3, <1>9, <2>1
    <2> QED
      BY <1>1, <2>2
  <1>13. \A i \in DOMAIN w : i \in 1 .. n - 1 \/ i = n \/ i \in n + 1 .. Len(s) + 1
    BY <1>1, <1>7, <1>8
  <1>14. Distinct(w)
    <2> SUFFICES ASSUME NEW i \in DOMAIN w, NEW j \in DOMAIN w, w[i] = w[j] PROVE i = j
      BY DEF Distinct
    <2>1. \A k \in DOMAIN w \ {n} : w[k] \in ToSet(s)
      BY <1>11, <1>12, <1>13 DEF ToSet
    <2>2. CASE i = n \/ j = n
      BY <1>10, <2>1, <2>2
    <2>3. CASE i \in 1 .. n - 1
      <3>1. i \in DOMAIN s /\ w[i] = s[i]
        BY <1>11, <2>3
      <3>2. CASE j \in 1 .. n - 1
        BY <1>11, <3>1, <3>2 DEF Distinct
      <3>3. CASE j \in n + 1 .. Len(s) + 1
        <4>1. i = j - 1
          BY <1>12, <3>1, <3>3 DEF Distinct
        <4> QED
          BY <2>3, <3>3, <4>1
      <3> QED
        BY <1>13, <2>2, <3>2, <3>3
    <2>4. CASE i \in n + 1 .. Len(s) + 1
      <3>1. i - 1 \in DOMAIN s /\ w[i] = s[i - 1]
        BY <1>12, <2>4
      <3>2. CASE j \in 1 .. n - 1
        <4>1. j = i - 1
          BY <1>11, <3>1, <3>2 DEF Distinct
        <4> QED
          BY <2>4, <3>2, <4>1
      <3>3. CASE j \in n + 1 .. Len(s) + 1
        <4>1. i - 1 = j - 1
          BY <1>12, <3>1, <3>3 DEF Distinct
        <4> QED
          BY <2>4, <3>3, <4>1
      <3> QED
        BY <1>13, <2>2, <3>2, <3>3
    <2> QED
      BY <1>13, <2>2, <2>3, <2>4
  <1>15. \A y : y \in ToSet(w) <=> y \in ToSet(s) \/ y = x
    <2>1. \A y \in ToSet(w) : y \in ToSet(s) \/ y = x
      <3> SUFFICES ASSUME NEW i \in DOMAIN w PROVE w[i] \in ToSet(s) \/ w[i] = x
        BY DEF ToSet
      <3> QED
        BY <1>10, <1>11, <1>12, <1>13 DEF ToSet
    <2>2. \A y \in ToSet(s) : y \in ToSet(w)
      <3> SUFFICES ASSUME NEW k \in DOMAIN s PROVE s[k] \in ToSet(w)
        BY DEF ToSet
      <3>1. CASE k \in 1 .. n - 1
        <4>1. k \in DOMAIN w /\ w[k] = s[k]
          BY <1>1, <1>7, <1>8, <1>11, <3>1
        <4> QED
          BY <4>1 DEF ToSet
      <3>2. CASE ~(k \in 1 .. n - 1)
        <4>1. k + 1 \in n + 1 .. Len(s) + 1 /\ k + 1 \in DOMAIN w /\ (k + 1) - 1 = k
          BY <1>1, <1>7, <1>8, <3>2
        <4>2. w[k + 1] = s[k]
          BY <1>12, <4>1
        <4> QED
          BY <4>1, <4>2 DEF ToSet
      <3> QED
        BY <3>1, <3>2
    <2>3. x \in ToSet(w)
      <3>1. n \in DOMAIN w
        BY <1>1, <1>7, <1>8
      <3> QED
        BY <1>10, <3>1 DEF ToSet
    <2> QED
      BY <2>1, <2>2, <2>3
  <1> QED
    BY <1>7, <1>8, <1>10, <1>11, <1>12, <1>14, <1>15 DEF w

(* The end of a list, from its element n + 1 on. *)
LEMMA EndOfList ==
    ASSUME NEW S, NEW s \in Seq(S), Distinct(s), NEW n \in 0 .. Len(s)
    PROVE  LET e == SubSeq(s, n + 1, Len(s))
           IN  /\ e \in Seq(S) /\ Distinct(e) /\ Keeps(e, s)
               /\ \A y : y \in ToSet(e) <=> y \in ToSet(s) /\ y \notin {s[i] : i \in 1 .. n}
               /\ \A i \in DOMAIN e : i + n \in DOMAIN s /\ e[i] = s[i + n]
  <1> DEFINE e == SubSeq(s, n + 1, Len(s))
  <1>1. Len(s) \in Nat /\ DOMAIN s = 1 .. Len(s)
    OBVIOUS
  <1>2. e \in Seq(S) /\ Len(e) = Len(s) - n /\ \A i \in 1 .. Len(s) - n : e[i] = s[i + n]
    OBVIOUS
  <1> HIDE DEF e
  <1>3. DOMAIN e = 1 .. Len(s) - n /\ \A i \in DOMAIN e : i + n \in DOMAIN s /\ e[i] = s[i + n]
    BY <1>1, <1>2
  <1>4. Distinct(e) /\ Keeps(e, s)
    <2>1. ASSUME NEW i \in DOMAIN e, NEW j \in DOMAIN e, e[i] = e[j] PROVE i = j
      <3>1. i + n = j + n
        BY <1>3, <2>1 DEF Distinct
      <3> QED
        BY <1>3, <3>1
    <2>2. ASSUME NEW i \in DOMAIN e, NEW j \in DOMAIN e, i < j
          PROVE  \E k, l \in DOMAIN s : k < l /\ e[i] = s[k] /\ e[j] = s[l]
      <3>1. i + n < j + n
        BY <1>3, <2>2
      <3> QED
        BY <1>3, <3>1
    <2> QED
      BY <2>1, <2>2 DEF Distinct, Keeps
  <1>5. ASSUME NEW y PROVE y \in ToSet(e) <=> y \in ToSet(s) /\ y \notin {s[i] : i \in 1 .. n}
    <2>1. ASSUME y \in ToSet(e) PROVE y \in ToSet(s) /\ y \notin {s[i] : i \in 1 .. n}
      <3>1. PICK i \in DOMAIN e : e[i] = y
        BY <2>1 DEF ToSet
      <3>2. i + n \in DOMAIN s /\ y = s[i + n] /\ \A j \in 1 .. n : j \in DOMAIN s /\ j # i + n
        BY <1>1, <1>3, <3>1
      <3> QED
        BY <3>2 DEF ToSet, Distinct
    <2>2. ASSUME y \in ToSet(s), y \notin {s[i] : i \in 1 .. n} PROVE y \in ToSet(e)
      <3>1. PICK k \in DOMAIN s : s[k] = y
        BY <2>2 DEF ToSet
      <3>2. k - n \in DOMAIN e /\ (k - n) + n = k
        BY <1>1, <1>3, <2>2, <3>1
      <3>3. e[k - n] = y
        BY <1>3, <3>1, <3>2
      <3> QED
        BY <3>2, <3>3 DEF ToSet
    <2> QED
      BY <2>1, <2>2
  <1> QED
    BY <1>2, <1>3, <1>4, <1>5 DEF e

(* The first element of a list, and the others. *)
LEMMA HeadAndTail ==
    ASSUME NEW S, NEW s \in Seq(S), Distinct(s), s # <<>>
    PROVE  /\ Head(s) \in ToSet(s) /\ Head(s) \in S
           /\ Tail(s) \in Seq(S) /\ Distinct(Tail(s))
           /\ \A y : y \in ToSet(Tail(s)) <=> y \in ToSet(s) /\ y # Head(s)
  <1>1. Len(s) \in Nat /\ DOMAIN s = 1 .. Len(s) /\ Len(s) >= 1 /\ Head(s) = s[1]
    OBVIOUS
  <1>2. Tail(s) \in Seq(S) /\ Len(Tail(s)) = Len(s) - 1
              /\ \A i \in 1 .. Len(s) - 1 : Tail(s)[i] = s[i + 1]
    BY <1>1
  <1> DEFINE e == Tail(s)
  <1> HIDE DEF e
  <1>3. DOMAIN e = 1 .. Len(s) - 1 /\ \A i \in DOMAIN e : i + 1 \in DOMAIN s /\ i + 1 # 1
              /\ e[i] = s[i + 1]
    BY <1>1, <1>2 DEF e
  <1>4. 1 \in DOMAIN s /\ s[1] \in ToSet(s) /\ s[1] \in S
    BY <1>1 DEF ToSet
  <1>5. Distinct(e)
    <2> SUFFICES ASSUME NEW i \in DOMAIN e, NEW j \in DOMAIN e, e[i] = e[j] PROVE i = j
      BY DEF Distinct
    <2>1. i + 1 = j + 1
      BY <1>3 DEF Distinct
    <2> QED
      BY <1>3, <2>1
  <1>6. ASSUME NEW y PROVE y \in ToSet(e) <=> y \in ToSet(s) /\ y # s[1]
    <2>1. ASSUME y \in ToSet(e) PROVE y \in ToSet(s) /\ y # s[1]
      <3>1. PICK i \in DOMAIN e : e[i] = y
        BY <2>1 DEF ToSet
      <3> QED
        BY <1>3, <1>4, <3>1 DEF ToSet, Distinct
    <2>2. ASSUME y \in ToSet(s), y # s[1] PROVE y \in ToSet(e)
      <3>1. PICK k \in DOMAIN s : s[k] = y
        BY <2>2 DEF ToSet
      <3>2. k - 1 \in DOMAIN e /\ (k - 1) + 1 = k
        BY <1>1, <1>3, <2>2, <3>1
      <3>3. e[k - 1] = y
        BY <1>3, <3>1, <3>2
      <3> QED
        BY <3>2, <3>3 DEF ToSet
    <2> QED
      BY <2>1, <2>2
  <1> QED
    BY <1>1, <1>2, <1>4, <1>5, <1>6 DEF e

(* A listing of a finite set has all its elements, each once. *)
LEMMA ListingIsComplete ==
    ASSUME NEW S, IsFiniteSet(S), NEW s \in SetToSeqs(S)
    PROVE  s \in Seq(S) /\ Distinct(s) /\ \A y : y \in ToSet(s) <=> y \in S
  <1> DEFINE n == Cardinality(S)
             D == 1 .. n
  <1>1. n \in Nat /\ IsFiniteSet(D) /\ Cardinality(D) = n
    BY FS_CardinalityType, FS_Interval
  <1>2. s \in [D -> S] /\ \A i, j \in D : i # j => s[i] # s[j]
    BY DEF SetToSeqs
  <1>3. s \in Seq(S) /\ DOMAIN s = D
    BY <1>1, <1>2
  <1>4. ToSet(s) \subseteq S
    BY <1>2, <1>3 DEF ToSet
  <1>5. Cardinality(ToSet(s)) = n
    <2>1. s \in [D -> ToSet(s)] /\ \A y \in ToSet(s) : \E i \in D : s[i] = y
      BY <1>2, <1>3 DEF ToSet
    <2>2. s \in Bijection(D, ToSet(s))
      BY <1>2, <2>1 DEF Bijection, Injection, Surjection, IsInjective
    <2>3. ExistsBijection(D, ToSet(s))
      BY <2>2 DEF ExistsBijection
    <2>4. ExistsBijection(1 .. n, ToSet(s))
      BY <2>3
    <2> QED
      BY <1>1, <2>4, FS_CountingElements
  <1>6. ToSet(s) = S
    BY <1>4, <1>5, FS_Subset
  <1> QED
    BY <1>2, <1>3, <1>6 DEF Distinct

(* The threads that stay in the queue when the others are assigned. *)
LEMMA StillQueuedFacts ==
    ASSUME runQueue \in Seq(Thread), Distinct(runQueue), NEW m, DOMAIN m = DOMAIN runQueue,
           NEW q \in StillQueued(m)
    PROVE  /\ q \in Seq(Thread) /\ Distinct(q)
           /\ \A y : y \in ToSet(q) <=> \E i \in DOMAIN runQueue : m[i] = None /\ runQueue[i] = y
  <1> DEFINE I == {k \in DOMAIN m : m[k] = None}
             W == {runQueue[i] : i \in I}
             at == [i \in I |-> runQueue[i]]
  <1>1. IsFiniteSet(I)
    <2>1. IsFiniteSet(1 .. Len(runQueue)) /\ I \subseteq 1 .. Len(runQueue)
      BY FS_Interval
    <2> QED
      BY <2>1, FS_Subset
  <1>2. at \in Surjection(I, W)
    BY DEF Surjection
  <1>3. IsFiniteSet(W)
    BY <1>1, <1>2, FS_Surjection
  <1>4. q \in SetToSeqs(W)
    BY DEF StillQueued
  <1>5. q \in Seq(W) /\ Distinct(q) /\ \A y : y \in ToSet(q) <=> y \in W
    <2> HIDE DEF W
    <2> QED
      BY <1>3, <1>4, ListingIsComplete
  <1>6. W \subseteq Thread
    OBVIOUS
  <1>7. q \in Seq(Thread)
    BY <1>5, <1>6
  <1> QED
    BY <1>5, <1>7

(* The sleepers whose time comes no later are the first ones. *)
LEMMA FirstSleepers ==
    ASSUME sleepQueue \in Seq(Thread), due \in [Thread -> Int], NEW t \in Thread,
           \A i, j \in DOMAIN sleepQueue : i < j => due[sleepQueue[i]] <= due[sleepQueue[j]]
    PROVE  /\ SleepsBefore(t) \in 0 .. Len(sleepQueue)
           /\ \A i \in DOMAIN sleepQueue : i <= SleepsBefore(t) <=> due[sleepQueue[i]] <= due[t]
  <1> DEFINE s == sleepQueue
             P == {i \in DOMAIN s : due[s[i]] <= due[t]}
             R == {i \in 1 .. Len(s) + 1 : i \notin P}
             m == Min(R)
  <1>1. Len(s) \in Nat /\ DOMAIN s = 1 .. Len(s)
    OBVIOUS
  <1>2. R \in SUBSET Nat /\ R # {}
    <2>1. Len(s) + 1 \in R
      BY <1>1
    <2> QED
      BY <2>1
  <1>3. m \in R /\ \A k \in R : m <= k
    BY <1>2, SmallestExists
  <1> HIDE DEF m
  <1>4. m \in 1 .. Len(s) + 1 /\ m \notin P
    BY <1>3
  <1>5. P = 1 .. m - 1
    <2>1. ASSUME NEW i \in 1 .. m - 1 PROVE i \in P
      BY <1>1, <1>3, <1>4
    <2>2. ASSUME NEW i \in P PROVE i \in 1 .. m - 1
      <3>1. i \in 1 .. Len(s) /\ due[s[i]] <= due[t]
        BY <1>1
      <3>2. CASE m < i
        <4>0. m \in DOMAIN s /\ i \in DOMAIN s
          BY <1>1, <1>4, <3>1, <3>2
        <4>1. m \in DOMAIN s /\ i \in DOMAIN s /\ due[s[m]] <= due[s[i]]
          BY <3>2, <4>0
        <4>2. due[s[m]] \in Int /\ due[s[i]] \in Int /\ due[t] \in Int
          BY <4>1
        <4>3. m \in P
          BY <3>1, <4>1, <4>2
        <4> QED
          BY <1>4, <4>3
      <3>3. m # i
        BY <1>4
      <3> QED
        BY <1>4, <3>1, <3>2, <3>3
    <2> QED
      BY <2>1, <2>2
  <1>6. SleepsBefore(t) = m - 1
    <2>1. Cardinality(1 .. m - 1) = m - 1
      BY <1>4, FS_Interval
    <2> QED
      BY <1>5, <2>1 DEF SleepsBefore
  <1> QED
    BY <1>1, <1>4, <1>5, <1>6

-----------------------------------------------------------------------------
(* The actions, one by one. *)

(* Sleepers may only leave the queue. *)
LEMMA StaysOnTime ==
    ASSUME Lists', QueuesInv', SleepersOnTime,
           sleepQueue' = sleepQueue \/ Keeps(sleepQueue', sleepQueue),
           \A u \in Thread : state'[u] = "SLEEPING" => state[u] = "SLEEPING" /\ due'[u] = due[u]
    PROVE  SleepersOnTime'
  <1>1. Keeps(sleepQueue', sleepQueue)
    BY DEF Keeps
  <1>2. \A i \in DOMAIN sleepQueue' : sleepQueue'[i] \in Thread
              /\ state'[sleepQueue'[i]] = "SLEEPING"
    BY DEF Lists, QueuesInv, ToSet
  <1>3. ASSUME NEW i \in DOMAIN sleepQueue', NEW j \in DOMAIN sleepQueue', i < j
        PROVE  due'[sleepQueue'[i]] <= due'[sleepQueue'[j]]
    <2>1. PICK k \in DOMAIN sleepQueue, l \in DOMAIN sleepQueue :
             k < l /\ sleepQueue'[i] = sleepQueue[k] /\ sleepQueue'[j] = sleepQueue[l]
      BY <1>1, <1>3 DEF Keeps
    <2>2. due[sleepQueue[k]] <= due[sleepQueue[l]]
      BY <2>1 DEF SleepersOnTime
    <2> QED
      BY <1>2, <2>1, <2>2
  <1>4. \A u \in ThreadsIn("SLEEPING")' : due'[u] >= 1
    BY DEF SleepersOnTime, ThreadsIn
  <1> QED
    BY <1>3, <1>4 DEF SleepersOnTime

(* Whoever is queued finds all its contexts busy. *)
LEMMA QueuedFacts ==
    ASSUME Inv, NEW u \in ToSet(runQueue)
    PROVE  u \in Thread /\ \A c \in mask[u] : c \in Core /\ curThread[c] \in Thread
                 /\ state[curThread[c]] = "RUNNING"
  BY ParameterAssumption DEF Inv, QueuesInv, NoIdleContextWanted, Types

(* None is no thread and no context. *)
LEMMA NoneIsOther == None \notin Thread /\ None \notin Core
  BY ParameterAssumption

(* start() *)
LEMMA StartStep ==
    ASSUME Inv, NEW t \in Thread, Start(t)
    PROVE  Inv'
  <1>1. /\ UNCHANGED <<curThread, queues, phase, bar, wd>>
        /\ state' = [state EXCEPT ![t] = "STARTED"] /\ cid' = [cid EXCEPT ![t] = 0]
        /\ handoff' = [handoff EXCEPT ![t] = None] /\ futexWord' = [futexWord EXCEPT ![t] = 0]
        /\ marked' = [marked EXCEPT ![t] = FALSE] /\ due' = [due EXCEPT ![t] = 0]
        /\ pc' = [pc EXCEPT ![t] = "out"] /\ pc[t] = "none" /\ state[t] = "NONE"
    BY DEF Start, Goes, Inv, PlacesInv
  <1> USE <1>1 DEF queues, Inv
  <1>2. Types'
    BY ParameterAssumption DEF Types, ThreadState
  <1>3. Lists'
    BY DEF Lists
  <1>4. ContextsInv'
    BY DEF Types, ContextsInv, HasContext
  <1>5. QueuesInv'
    BY DEF Types, QueuesInv, Lists, ToSet
  <1>6. HandoffInv'
    BY DEF Types, HandoffInv
  <1>7. PlacesInv'
    BY DEF Types, PlacesInv
  <1>8. TurnsInv'
    BY DEF Types, TurnsInv
  <1>9. CallsInv'
    BY DEF Types, CallsInv
  <1>10. NoIdleContextWanted'
    BY DEF Types, NoIdleContextWanted
  <1>11. SleepersOnTime'
    BY <1>3, <1>5, StaysOnTime DEF Types
  <1> QED
    BY <1>2, <1>3, <1>4, <1>5, <1>6, <1>7, <1>8, <1>9, <1>10, <1>11

(* Being in a list. *)
LEMMA ContainsIsIn ==
    ASSUME NEW S, NEW s \in Seq(S), NEW x
    PROVE  Contains(s, x) <=> x \in ToSet(s)
  BY DEF Contains, ToSet

(* The thread schedContext() finds for a context. *)
LEMMA NextForFacts ==
    ASSUME Lists, NEW c \in Core
    PROVE  /\ NextFor(c) = None => \A u \in ToSet(runQueue) : c \notin mask[u]
           /\ NextFor(c) # None =>
                 NextFor(c) \in Thread /\ NextFor(c) \in ToSet(runQueue) /\ c \in mask[NextFor(c)]
  <1> DEFINE P == {i \in DOMAIN runQueue : c \in mask[runQueue[i]]}
  <1>1. runQueue \in Seq(Thread) /\ None \notin Thread /\ P \in SUBSET DOMAIN runQueue
    BY ParameterAssumption DEF Lists
  <1>2. /\ P = {} => FirstAt(runQueue, P) = None
        /\ P # {} =>
              FirstAt(runQueue, P) \in Thread /\ \E i \in P : FirstAt(runQueue, P) = runQueue[i]
    <2> HIDE DEF P
    <2> QED
      BY <1>1, FirstAtFacts
  <1> QED
    BY <1>1, <1>2 DEF NextFor, ToSet

(* The free context schedThread() finds for a thread. *)
LEMMA AnyFreeFacts ==
    ASSUME Inv, NEW t \in Thread
    PROVE  /\ AnyFree(t) = None => \A c \in mask[t] : c \in Core /\ curThread[c] # None
           /\ AnyFree(t) # None => AnyFree(t) \in Core /\ curThread[AnyFree(t)] = None
  <1> DEFINE P == {i \in DOMAIN freeList : freeList[i] \in mask[t]}
  <1>1. freeList \in Seq(Core) /\ None \notin Core /\ P \in SUBSET DOMAIN freeList
              /\ mask[t] \subseteq Core
    BY ParameterAssumption DEF Inv, Lists
  <1>2. /\ P = {} => FirstAt(freeList, P) = None
        /\ P # {} =>
              FirstAt(freeList, P) \in Core /\ \E i \in P : FirstAt(freeList, P) = freeList[i]
    <2> HIDE DEF P
    <2> QED
      BY <1>1, FirstAtFacts
  <1> QED
    BY <1>1, <1>2 DEF AnyFree, ToSet, Inv, ContextsInv

(* Its last context is preferred. *)
LEMMA FreeForFacts ==
    ASSUME Inv, NEW t \in Thread
    PROVE  /\ FreeFor(t) = None => AnyFree(t) = None
           /\ FreeFor(t) # None => FreeFor(t) \in Core /\ curThread[FreeFor(t)] = None
  <1>1. cid[t] \in Core /\ None \notin Core
    BY ParameterAssumption DEF Inv, Types
  <1> QED
    BY <1>1, AnyFreeFacts DEF FreeFor

(* The thread whose context it takes otherwise. *)
LEMMA VictimFacts ==
    ASSUME Inv, NEW t \in Thread
    PROVE  /\ VictimFor(t) = None => \A o \in Thread : state[o] = "OUT" => cid[o] \notin mask[t]
           /\ VictimFor(t) # None => VictimFor(t) \in Thread /\ state[VictimFor(t)] = "OUT"
  <1> DEFINE P == {i \in DOMAIN outQueue : cid[outQueue[i]] \in mask[t]}
  <1>1. outQueue \in Seq(Thread) /\ None \notin Thread /\ P \in SUBSET DOMAIN outQueue
    BY ParameterAssumption DEF Inv, Lists
  <1>2. /\ P = {} => FirstAt(outQueue, P) = None
        /\ P # {} =>
              FirstAt(outQueue, P) \in Thread /\ \E i \in P : FirstAt(outQueue, P) = outQueue[i]
    <2> HIDE DEF P
    <2> QED
      BY <1>1, FirstAtFacts
  <1>3. \A o \in Thread : o \in ToSet(outQueue) <=> state[o] = "OUT"
    BY DEF Inv, QueuesInv
  <1> QED
    BY <1>1, <1>2, <1>3 DEF VictimFor, ToSet

(* Nobody would find a context: all it may run on are busy. *)
LEMMA NowhereToRun ==
    ASSUME Inv, NEW t \in Thread, AnyFree(t) = None, VictimFor(t) = None
    PROVE  \A c \in mask[t] : c \in Core /\ curThread[c] \in Thread
                 /\ state[curThread[c]] = "RUNNING"
  BY AnyFreeFacts, VictimFacts DEF Inv, Types, ContextsInv, HasContext

(* join(): the thread never left. *)
LEMMA JoinFromFakeLeaveStep ==
    ASSUME Orderly, Inv, NEW t \in Thread, JoinFromFakeLeave(t)
    PROVE  Inv'
  <1>1. /\ UNCHANGED <<threads, curThread, freeList, runQueue, outQueue, sleepQueue, phase, bar,
              wd>>
        /\ fakeLeaves' = RemoveFirst(fakeLeaves, t)
        /\ pc' = [pc EXCEPT ![t] = "app"]
        /\ pc[t] = "out" /\ t # wd /\ state[t] = "RUNNING"
    BY ContainsIsIn DEF Orderly, JoinFromFakeLeave, CallsJoin, FakeLeft, Goes, Inv, Lists, CallsInv
  <1> USE <1>1 DEF queues, Inv
  <1>2. /\ fakeLeaves' \in Seq(Thread) /\ Distinct(fakeLeaves')
        /\ \A y : y \in ToSet(fakeLeaves') <=> y \in ToSet(fakeLeaves) /\ y # t
    BY Unlinked DEF Lists
  <1> USE DEF threads
  <1>11. Types'
    BY ParameterAssumption DEF Types, ThreadState
  <1>12. Lists'
    BY <1>2 DEF Lists
  <1>13. ContextsInv'
    BY DEF Types, ContextsInv, HasContext
  <1>14. QueuesInv'
    BY DEF Types, QueuesInv, Lists, ToSet
  <1>15. HandoffInv'
    BY DEF Types, HandoffInv
  <1>16. PlacesInv'
    BY DEF Types, PlacesInv
  <1>17. TurnsInv'
    BY DEF Types, TurnsInv
  <1>18. CallsInv'
    BY <1>2 DEF Types, CallsInv
  <1>19. NoIdleContextWanted'
    BY DEF Types, NoIdleContextWanted
  <1>20. SleepersOnTime'
    BY <1>12, <1>14, StaysOnTime DEF Types
  <1> QED
    BY <1>11, <1>12, <1>13, <1>14, <1>15, <1>16, <1>17, <1>18, <1>19, <1>20

(* join(): the thread still has its context. *)
LEMMA JoinAgainStep ==
    ASSUME Orderly, Inv, NEW t \in Thread, JoinAgain(t)
    PROVE  Inv'
  <1>1. /\ UNCHANGED <<cid, handoff, futexWord, marked, due, curThread, freeList, runQueue,
              sleepQueue, fakeLeaves, phase, wd>>
        /\ state' = [state EXCEPT ![t] = "RUNNING"]
        /\ outQueue' = RemoveFirst(outQueue, t)
        /\ bar' = [bar EXCEPT ![cid[t]] = "ready"]
        /\ pc' = [pc EXCEPT ![t] = "joining"]
        /\ pc[t] = "out" /\ t # wd /\ state[t] = "OUT"
    BY DEF Orderly, JoinAgain, CallsJoin, Goes, Bar!Enter, Bar!Moves
  <1> USE <1>1 DEF queues, Inv
  <1>2. /\ outQueue' \in Seq(Thread) /\ Distinct(outQueue')
        /\ \A y : y \in ToSet(outQueue') <=> y \in ToSet(outQueue) /\ y # t
    BY Unlinked DEF Lists
  <1>3. \A u \in Thread \ {t} : HasContext(u) => cid[u] # cid[t]
    BY DEF ContextsInv, HasContext
  <1>11. Types'
    BY ParameterAssumption DEF Types, ThreadState
  <1>12. Lists'
    BY <1>2 DEF Lists
  <1>13. ContextsInv'
    <2>1. \A u \in Thread : state'[u] \in {"RUNNING", "OUT"} => curThread'[cid'[u]] = u
      BY NoneIsOther DEF Types, ContextsInv, HasContext
    <2>2. \A d \in Core : curThread'[d] # None =>
                state'[curThread'[d]] \in {"RUNNING", "OUT"} /\ cid'[curThread'[d]] = d
      BY NoneIsOther DEF Types, ContextsInv, HasContext
    <2>3. \A d \in Core : d \in ToSet(freeList') <=> curThread'[d] = None
      BY NoneIsOther DEF Types, ContextsInv, HasContext
    <2>4. \A d \in Core : bar'[d] # "out" <=>
                curThread'[d] # None /\ state'[curThread'[d]] = "RUNNING"
      BY NoneIsOther DEF Types, ContextsInv, HasContext
    <2> QED
      BY <2>1, <2>2, <2>3, <2>4 DEF ContextsInv, HasContext
  <1>14. QueuesInv'
    BY <1>2 DEF Types, QueuesInv
  <1>15. HandoffInv'
    BY <1>3 DEF Types, HandoffInv, PlacesInv, HasContext
  <1>16. PlacesInv'
    BY DEF Types, PlacesInv
  <1>17. TurnsInv'
    BY <1>3 DEF Types, TurnsInv, HasContext
  <1>18. CallsInv'
    BY DEF Types, CallsInv
  <1>19. NoIdleContextWanted'
    BY DEF Types, NoIdleContextWanted
  <1>20. SleepersOnTime'
    BY <1>12, <1>14, StaysOnTime DEF Types
  <1> QED
    BY <1>11, <1>12, <1>13, <1>14, <1>15, <1>16, <1>17, <1>18, <1>19, <1>20

(* join(): the thread gets a free context. *)
LEMMA JoinOnFreeStep ==
    ASSUME Orderly, Inv, NEW t \in Thread, JoinOnFree(t)
    PROVE  Inv'
  <1> DEFINE c == FreeFor(t)
  <1>1. /\ UNCHANGED <<handoff, futexWord, marked, runQueue, outQueue, fakeLeaves, phase, wd>>
        /\ state' = [state EXCEPT ![t] = "RUNNING"]
        /\ cid' = [cid EXCEPT ![t] = c] /\ curThread' = [curThread EXCEPT ![c] = t]
        /\ freeList' = RemoveFirst(freeList, c) /\ sleepQueue' = RemoveFirst(sleepQueue, t)
        /\ bar' = [bar EXCEPT ![c] = "ready"]
        /\ pc' = [pc EXCEPT ![t] = "joining"]
        /\ due' = [due EXCEPT ![t] = 0]
        /\ pc[t] = "out" /\ t # wd /\ state[t] \in {"STARTED", "BLOCKED", "SLEEPING"}
        /\ c \in Core /\ curThread[c] = None
    BY FreeForFacts DEF Orderly, JoinOnFree, Unplaced, CallsJoin, Goes, Takes, Bar!Enter, Bar!Moves
  <1> USE <1>1 DEF queues, Inv
  <1> HIDE DEF c
  <1>2. /\ freeList' \in Seq(Core) /\ Distinct(freeList')
        /\ \A y : y \in ToSet(freeList') <=> y \in ToSet(freeList) /\ y # c
    BY Unlinked DEF Lists
  <1>3. /\ sleepQueue' \in Seq(Thread) /\ Distinct(sleepQueue') /\ Keeps(sleepQueue', sleepQueue)
        /\ \A y : y \in ToSet(sleepQueue') <=> y \in ToSet(sleepQueue) /\ y # t
    BY Unlinked DEF Lists
  <1>4. \A u \in Thread : HasContext(u) => cid[u] # c
    BY NoneIsOther DEF ContextsInv, HasContext
  <1>11. Types'
    BY ParameterAssumption DEF Types, ThreadState
  <1>12. Lists'
    BY <1>2, <1>3 DEF Lists
  <1>13. ContextsInv'
    <2>1. \A u \in Thread : state'[u] \in {"RUNNING", "OUT"} => curThread'[cid'[u]] = u
      BY <1>2, NoneIsOther DEF Types, ContextsInv, HasContext
    <2>2. \A d \in Core : curThread'[d] # None =>
                state'[curThread'[d]] \in {"RUNNING", "OUT"} /\ cid'[curThread'[d]] = d
      BY <1>2, NoneIsOther DEF Types, ContextsInv, HasContext
    <2>3. \A d \in Core : d \in ToSet(freeList') <=> curThread'[d] = None
      BY <1>2, NoneIsOther DEF Types, ContextsInv, HasContext
    <2>4. \A d \in Core : bar'[d] # "out" <=>
                curThread'[d] # None /\ state'[curThread'[d]] = "RUNNING"
      BY <1>2, NoneIsOther DEF Types, ContextsInv, HasContext
    <2> QED
      BY <2>1, <2>2, <2>3, <2>4 DEF ContextsInv, HasContext
  <1>14. QueuesInv'
    BY <1>3 DEF Types, QueuesInv
  <1>15. HandoffInv'
    BY <1>4 DEF Types, HandoffInv, PlacesInv, HasContext
  <1>16. PlacesInv'
    BY DEF Types, PlacesInv
  <1>17. TurnsInv'
    BY <1>4 DEF Types, TurnsInv, HasContext
  <1>18. CallsInv'
    BY DEF Types, CallsInv
  <1>19. NoIdleContextWanted'
    BY DEF Types, NoIdleContextWanted
  <1>20. SleepersOnTime'
    BY <1>3, <1>12, <1>14, StaysOnTime DEF Types
  <1> QED
    BY <1>11, <1>12, <1>13, <1>14, <1>15, <1>16, <1>17, <1>18, <1>19, <1>20

(* join(): the thread gets the context of one that is out. *)
LEMMA JoinOnStolenStep ==
    ASSUME Orderly, Inv, NEW t \in Thread, JoinOnStolen(t)
    PROVE  Inv'
  <1> DEFINE o == VictimFor(t)
             c == cid[o]
  <1>1. /\ UNCHANGED <<handoff, futexWord, marked, freeList, runQueue, fakeLeaves, phase, wd>>
        /\ state' = [state EXCEPT ![t] = "RUNNING", ![o] = "BLOCKED"]
        /\ cid' = [cid EXCEPT ![t] = c] /\ curThread' = [curThread EXCEPT ![c] = t]
        /\ outQueue' = RemoveFirst(outQueue, o) /\ sleepQueue' = RemoveFirst(sleepQueue, t)
        /\ bar' = [bar EXCEPT ![c] = "ready"]
        /\ pc' = [pc EXCEPT ![t] = "joining"]
        /\ due' = [due EXCEPT ![t] = 0]
        /\ pc[t] = "out" /\ t # wd /\ state[t] \in {"STARTED", "BLOCKED", "SLEEPING"}
        /\ o \in Thread /\ state[o] = "OUT" /\ o # t /\ c \in Core /\ curThread[c] = o
        /\ pc[o] \in {"out", "dead", "ended"}
    <2>1. o \in Thread /\ state[o] = "OUT" /\ c \in Core /\ curThread[c] = o
      BY VictimFacts DEF JoinOnStolen, Inv, ContextsInv, HasContext, Types
    <2>2. pc[o] \in {"out", "dead", "ended"}
      BY <2>1 DEF Inv, Types, PlacesInv
    <2> QED
      BY <2>1, <2>2 DEF Orderly, JoinOnStolen, Unplaced, CallsJoin, Goes, Takes, Bar!Enter,
         Bar!Moves
  <1> USE <1>1 DEF queues, Inv
  <1> HIDE DEF c, o
  <1>2. /\ outQueue' \in Seq(Thread) /\ Distinct(outQueue')
        /\ \A y : y \in ToSet(outQueue') <=> y \in ToSet(outQueue) /\ y # o
    BY Unlinked DEF Lists
  <1>3. /\ sleepQueue' \in Seq(Thread) /\ Distinct(sleepQueue') /\ Keeps(sleepQueue', sleepQueue)
        /\ \A y : y \in ToSet(sleepQueue') <=> y \in ToSet(sleepQueue) /\ y # t
    BY Unlinked DEF Lists
  <1>4. \A u \in Thread \ {o} : HasContext(u) => cid[u] # c
    BY NoneIsOther DEF ContextsInv, HasContext
  <1>11. Types'
    BY ParameterAssumption DEF Types, ThreadState
  <1>12. Lists'
    BY <1>2, <1>3 DEF Lists
  <1>13. ContextsInv'
    <2>1. \A u \in Thread : state'[u] \in {"RUNNING", "OUT"} => curThread'[cid'[u]] = u
      BY NoneIsOther DEF Types, ContextsInv, HasContext
    <2>2. \A d \in Core : curThread'[d] # None =>
                state'[curThread'[d]] \in {"RUNNING", "OUT"} /\ cid'[curThread'[d]] = d
      BY NoneIsOther DEF Types, ContextsInv, HasContext
    <2>3. \A d \in Core : d \in ToSet(freeList') <=> curThread'[d] = None
      BY NoneIsOther DEF Types, ContextsInv, HasContext
    <2>4. \A d \in Core : bar'[d] # "out" <=>
                curThread'[d] # None /\ state'[curThread'[d]] = "RUNNING"
      BY NoneIsOther DEF Types, ContextsInv, HasContext
    <2> QED
      BY <2>1, <2>2, <2>3, <2>4 DEF ContextsInv, HasContext
  <1>14. QueuesInv'
    BY <1>2, <1>3 DEF Types, QueuesInv
  <1>15. HandoffInv'
    BY <1>4 DEF Types, HandoffInv, PlacesInv, HasContext
  <1>16. PlacesInv'
    BY DEF Types, PlacesInv
  <1>17. TurnsInv'
    BY <1>4 DEF Types, TurnsInv, HasContext
  <1>18. CallsInv'
    BY DEF Types, CallsInv
  <1>19. NoIdleContextWanted'
    BY QueuedFacts DEF Types, NoIdleContextWanted, HasContext
  <1>20. SleepersOnTime'
    BY <1>3, <1>12, <1>14, StaysOnTime DEF Types
  <1> QED
    BY <1>11, <1>12, <1>13, <1>14, <1>15, <1>16, <1>17, <1>18, <1>19, <1>20

(* join(): the thread waits for a context. *)
LEMMA JoinQueueStep ==
    ASSUME Orderly, Inv, NEW t \in Thread, JoinQueue(t)
    PROVE  Inv'
  <1>1. /\ UNCHANGED <<cid, handoff, marked, curThread, freeList, outQueue, fakeLeaves, phase, bar,
              wd>>
        /\ state' = [state EXCEPT ![t] = "QUEUED"]
        /\ runQueue' = Append(runQueue, t) /\ sleepQueue' = RemoveFirst(sleepQueue, t)
        /\ futexWord' = [futexWord EXCEPT ![t] = 1]
        /\ pc' = [pc EXCEPT ![t] = "queued"]
        /\ due' = [due EXCEPT ![t] = 0]
        /\ pc[t] = "out" /\ t # wd /\ state[t] \in {"STARTED", "BLOCKED", "SLEEPING"}
        /\ \A c \in mask[t] : c \in Core /\ curThread[c] \in Thread
              /\ state[curThread[c]] = "RUNNING"
    BY FreeForFacts, NowhereToRun DEF Orderly, JoinQueue, Unplaced, CallsJoin, Goes
  <1> USE <1>1 DEF queues, Inv
  <1>2. /\ runQueue' \in Seq(Thread) /\ Distinct(runQueue')
        /\ \A y : y \in ToSet(runQueue') <=> y \in ToSet(runQueue) \/ y = t
    <2>1. t \notin ToSet(runQueue)
      BY DEF QueuesInv
    <2> QED
      BY <2>1, Appended DEF Lists
  <1>3. /\ sleepQueue' \in Seq(Thread) /\ Distinct(sleepQueue') /\ Keeps(sleepQueue', sleepQueue)
        /\ \A y : y \in ToSet(sleepQueue') <=> y \in ToSet(sleepQueue) /\ y # t
    BY Unlinked DEF Lists
  <1>11. Types'
    BY ParameterAssumption DEF Types, ThreadState
  <1>12. Lists'
    BY <1>2, <1>3 DEF Lists
  <1>13. ContextsInv'
    BY DEF Types, ContextsInv, HasContext
  <1>14. QueuesInv'
    BY <1>2, <1>3 DEF Types, QueuesInv
  <1>15. HandoffInv'
    BY <1>2 DEF Types, HandoffInv
  <1>16. PlacesInv'
    BY DEF Types, PlacesInv
  <1>17. TurnsInv'
    BY DEF Types, TurnsInv
  <1>18. CallsInv'
    BY DEF Types, CallsInv
  <1>19. NoIdleContextWanted'
    <2> SUFFICES ASSUME NEW u \in ToSet(runQueue'), NEW c \in mask[u]
                 PROVE  curThread[c] # None /\ state'[curThread[c]] = "RUNNING"
      BY DEF NoIdleContextWanted
    <2>1. c \in Core /\ curThread[c] \in Thread /\ state[curThread[c]] = "RUNNING"
      BY <1>2, QueuedFacts
    <2> QED
      BY <2>1, NoneIsOther DEF Types
  <1>20. SleepersOnTime'
    BY <1>3, <1>12, <1>14, StaysOnTime DEF Types
  <1> QED
    BY <1>11, <1>12, <1>13, <1>14, <1>15, <1>16, <1>17, <1>18, <1>19, <1>20

(* join() returns. *)
LEMMA JoinReturnsStep ==
    ASSUME Inv, NEW t \in Thread, JoinReturns(t)
    PROVE  Inv'
  <1>1. /\ UNCHANGED <<threads, curThread, queues, phase, bar, wd>>
        /\ pc' = [pc EXCEPT ![t] = "app"]
        /\ pc[t] = "joining" \/ (pc[t] = "queued" /\ futexWord[t] = 0)
        /\ pc[t] = "joining" => bar[cid[t]] = "running"
        /\ state[t] = "RUNNING"
    BY DEF JoinReturns, Goes, Inv, PlacesInv
  <1> USE <1>1 DEF queues, Inv
  <1> USE DEF threads
  <1>11. Types'
    BY ParameterAssumption DEF Types, ThreadState
  <1>12. Lists'
    BY DEF Lists
  <1>13. ContextsInv'
    BY DEF Types, ContextsInv, HasContext
  <1>14. QueuesInv'
    BY DEF Types, QueuesInv, Lists, ToSet
  <1>15. HandoffInv'
    BY DEF Types, HandoffInv
  <1>16. PlacesInv'
    BY DEF Types, PlacesInv
  <1>17. TurnsInv'
    BY DEF Types, TurnsInv
  <1>18. CallsInv'
    BY DEF Types, CallsInv
  <1>19. NoIdleContextWanted'
    BY DEF Types, NoIdleContextWanted
  <1>20. SleepersOnTime'
    BY <1>12, <1>14, StaysOnTime DEF Types
  <1> QED
    BY <1>11, <1>12, <1>13, <1>14, <1>15, <1>16, <1>17, <1>18, <1>19, <1>20

(* sync(): the thread waits for its turn in the next phase. *)
LEMMA SyncCallStep ==
    ASSUME Inv, NEW t \in Thread, SyncCall(t)
    PROVE  Inv'
  <1>1. /\ UNCHANGED <<threads, curThread, queues, phase, wd>>
        /\ pc' = [pc EXCEPT ![t] = "syncing"]
        /\ bar' = [bar EXCEPT ![cid[t]] = "done"] /\ bar[cid[t]] = "running"
        /\ pc[t] = "app" /\ state[t] = "RUNNING" /\ ~marked[t]
    BY DEF SyncCall, Goes, Bar!Finish, Bar!Moves, Inv, PlacesInv
  <1> USE <1>1 DEF queues, Inv
  <1> USE DEF threads
  <1>2. \A u \in Thread \ {t} : HasContext(u) => cid[u] # cid[t]
    BY DEF ContextsInv, HasContext
  <1>11. Types'
    BY ParameterAssumption DEF Types, ThreadState
  <1>12. Lists'
    BY DEF Lists
  <1>13. ContextsInv'
    BY DEF Types, ContextsInv, HasContext
  <1>14. QueuesInv'
    BY DEF Types, QueuesInv, Lists, ToSet
  <1>15. HandoffInv'
    BY <1>2 DEF Types, HandoffInv, PlacesInv, HasContext
  <1>16. PlacesInv'
    BY DEF Types, PlacesInv
  <1>17. TurnsInv'
    BY <1>2 DEF Types, TurnsInv, HasContext
  <1>18. CallsInv'
    BY DEF Types, CallsInv
  <1>19. NoIdleContextWanted'
    BY DEF Types, NoIdleContextWanted
  <1>20. SleepersOnTime'
    BY <1>12, <1>14, StaysOnTime DEF Types
  <1> QED
    BY <1>11, <1>12, <1>13, <1>14, <1>15, <1>16, <1>17, <1>18, <1>19, <1>20

(* sync() returns, or goes on to hand the context over. *)
LEMMA SyncReturnsStep ==
    ASSUME Inv, NEW t \in Thread, SyncReturns(t)
    PROVE  Inv'
  <1>1. /\ UNCHANGED <<threads, curThread, queues, phase, bar, wd>>
        /\ pc' = [pc EXCEPT ![t] = IF handoff[t] = None THEN "app" ELSE "handoff"]
        /\ pc[t] = "syncing" /\ state[t] = "RUNNING" /\ bar[cid[t]] = "running"
    BY DEF SyncReturns, Goes, Inv, PlacesInv
  <1> USE <1>1 DEF queues, Inv
  <1> USE DEF threads
  <1>11. Types'
    BY ParameterAssumption DEF Types, ThreadState
  <1>12. Lists'
    BY DEF Lists
  <1>13. ContextsInv'
    BY DEF Types, ContextsInv, HasContext
  <1>14. QueuesInv'
    BY DEF Types, QueuesInv, Lists, ToSet
  <1>15. HandoffInv'
    BY DEF Types, HandoffInv
  <1>16. PlacesInv'
    BY DEF Types, PlacesInv
  <1>17. TurnsInv'
    BY DEF Types, TurnsInv
  <1>18. CallsInv'
    BY DEF Types, CallsInv
  <1>19. NoIdleContextWanted'
    BY DEF Types, NoIdleContextWanted
  <1>20. SleepersOnTime'
    BY <1>12, <1>14, StaysOnTime DEF Types
  <1> QED
    BY <1>11, <1>12, <1>13, <1>14, <1>15, <1>16, <1>17, <1>18, <1>19, <1>20

(* Who takes part in a hand-off. *)
LEMMA HandoffFacts ==
    ASSUME Inv, NEW t \in Thread, pc[t] = "handoff"
    PROVE  LET c == cid[t]
               dst == handoff[t]
           IN  /\ cid[t] = c /\ handoff[t] = dst
               /\ state[t] = "RUNNING" /\ bar[c] = "running" /\ c \in Core /\ curThread[c] = t
               /\ dst \in Thread /\ dst # t /\ state[dst] = "QUEUED" /\ pc[dst] = "queued"
               /\ dst \notin ToSet(runQueue)
               /\ pc[t] = "handoff" /\ ~marked[t] /\ t \notin ToSet(fakeLeaves) /\ t # wd
               /\ dst # wd /\ handoff[dst] = None
               /\ \A u \in Thread : (handoff[u] = dst => u = t) /\ handoff[u] # t
  <1> USE DEF Inv
  <1>1. handoff[t] \in Thread /\ state[t] = "RUNNING" /\ cid[t] \in Core
    BY DEF Types, PlacesInv
  <1>2. curThread[cid[t]] = t
    BY <1>1 DEF ContextsInv, HasContext
  <1>3. handoff[t] # None /\ state[handoff[t]] = "QUEUED" /\ pc[handoff[t]] = "queued"
    BY <1>1, NoneIsOther DEF HandoffInv, PlacesInv
  <1>4. bar[cid[t]] = "running"
    BY <1>1 DEF TurnsInv
  <1>5. ~marked[t] /\ t \notin ToSet(fakeLeaves) /\ t # wd /\ handoff[t] # wd
              /\ handoff[handoff[t]] = None
    BY <1>1, <1>3, NoneIsOther DEF Types, PlacesInv, CallsInv, HandoffInv
  <1>6. \A u \in Thread : (handoff[u] = handoff[t] => u = t) /\ handoff[u] # t
    BY <1>1, <1>3, NoneIsOther DEF HandoffInv
  <1>7. handoff[t] \notin ToSet(runQueue)
    BY <1>3 DEF HandoffInv
  <1> QED
    BY <1>1, <1>2, <1>3, <1>4, <1>5, <1>6, <1>7

(* The thread gives its context over and is queued. *)
LEMMA HandoffStep ==
    ASSUME Inv, NEW t \in Thread, Handoff(t)
    PROVE  Inv'
  <1> DEFINE c == cid[t]
             dst == handoff[t]
  <1>1. /\ UNCHANGED <<marked, due, freeList, outQueue, sleepQueue, fakeLeaves, phase, bar, wd>>
        /\ state' = [state EXCEPT ![dst] = "RUNNING", ![t] = "QUEUED"]
        /\ handoff' = [handoff EXCEPT ![t] = None]
        /\ cid' = [cid EXCEPT ![dst] = c] /\ curThread' = [curThread EXCEPT ![c] = dst]
        /\ futexWord' = [futexWord EXCEPT ![dst] = 0, ![t] = 1]
        /\ runQueue' = Append(runQueue, t) /\ pc' = [pc EXCEPT ![t] = "queued"]
        /\ cid[t] = c /\ handoff[t] = dst
        /\ state[t] = "RUNNING" /\ bar[c] = "running" /\ c \in Core /\ curThread[c] = t
        /\ dst \in Thread /\ dst # t /\ state[dst] = "QUEUED" /\ pc[dst] = "queued"
        /\ dst \notin ToSet(runQueue)
        /\ pc[t] = "handoff" /\ ~marked[t] /\ t \notin ToSet(fakeLeaves) /\ t # wd /\ dst # wd
        /\ handoff[dst] = None
        /\ \A u \in Thread : (handoff[u] = dst => u = t) /\ handoff[u] # t
        /\ \A d \in mask[t] : d \in Core /\ curThread[d] \in Thread
              /\ state[curThread[d]] = "RUNNING"
    BY HandoffFacts, NowhereToRun DEF Handoff, Takes, Goes
  <1> USE <1>1 DEF queues, Inv
  <1> HIDE DEF c, dst
  <1>2. /\ runQueue' \in Seq(Thread) /\ Distinct(runQueue')
        /\ \A y : y \in ToSet(runQueue') <=> y \in ToSet(runQueue) \/ y = t
    <2>1. t \notin ToSet(runQueue)
      BY DEF QueuesInv
    <2> QED
      BY <2>1, Appended DEF Lists
  <1>3. \A u \in Thread \ {t} : HasContext(u) => cid[u] # c
    BY DEF ContextsInv, HasContext
  <1>11. Types'
    BY ParameterAssumption DEF Types, ThreadState
  <1>12. Lists'
    BY <1>2 DEF Lists
  <1>13. ContextsInv'
    <2>1. \A u \in Thread : state'[u] \in {"RUNNING", "OUT"} => curThread'[cid'[u]] = u
      BY <1>3, NoneIsOther DEF Types, ContextsInv, HasContext
    <2>2. \A d \in Core : curThread'[d] # None =>
                state'[curThread'[d]] \in {"RUNNING", "OUT"} /\ cid'[curThread'[d]] = d
      BY <1>3, NoneIsOther DEF Types, ContextsInv, HasContext
    <2>3. \A d \in Core : d \in ToSet(freeList') <=> curThread'[d] = None
      BY <1>3, NoneIsOther DEF Types, ContextsInv, HasContext
    <2>4. \A d \in Core : bar'[d] # "out" <=>
                curThread'[d] # None /\ state'[curThread'[d]] = "RUNNING"
      BY <1>3, NoneIsOther DEF Types, ContextsInv, HasContext
    <2> QED
      BY <2>1, <2>2, <2>3, <2>4 DEF ContextsInv, HasContext
  <1>14. QueuesInv'
    BY <1>2 DEF Types, QueuesInv
  <1>15. HandoffInv'
    <2>1. \A u \in Thread : handoff'[u] # None =>
             /\ pc'[u] \in {"syncing", "handoff"} /\ bar'[cid'[u]] \in {"ready", "running"}
             /\ state'[handoff'[u]] = "QUEUED" /\ handoff'[u] \notin ToSet(runQueue')
      BY <1>2, <1>3, NoneIsOther DEF Types, HandoffInv, PlacesInv, HasContext
    <2>2. \A u, v \in Thread : handoff'[u] = handoff'[v] /\ handoff'[u] # None => u = v
      BY <1>2, <1>3, NoneIsOther DEF Types, HandoffInv, PlacesInv, HasContext
    <2>3. ASSUME NEW u \in Thread, state'[u] = "QUEUED", u \notin ToSet(runQueue')
          PROVE  \E v \in Thread : handoff'[v] = u
      <3>1. state[u] = "QUEUED" /\ u \notin ToSet(runQueue) /\ u # t /\ u # dst
        BY <2>3, <1>2 DEF Types
      <3>2. PICK v \in Thread : handoff[v] = u
        BY <3>1 DEF HandoffInv
      <3> QED
        BY <3>1, <3>2 DEF Types
    <2> HIDE <1>1
    <2> QED
      BY <2>1, <2>2, <2>3 DEF HandoffInv
  <1>16. PlacesInv'
    BY DEF Types, PlacesInv
  <1>17. TurnsInv'
    BY <1>3 DEF Types, TurnsInv, HasContext
  <1>18. CallsInv'
    BY DEF Types, CallsInv
  <1>19. NoIdleContextWanted'
    <2> SUFFICES ASSUME NEW u \in ToSet(runQueue'), NEW d \in mask[u]
                 PROVE  curThread'[d] # None /\ state'[curThread'[d]] = "RUNNING"
      BY DEF NoIdleContextWanted
    <2>1. d \in Core /\ curThread[d] \in Thread /\ state[curThread[d]] = "RUNNING"
      BY <1>2, QueuedFacts
    <2>2. d # c => curThread[d] # t
      BY <2>1, NoneIsOther DEF ContextsInv, c
    <2> QED
      BY <2>1, <2>2, NoneIsOther DEF Types
  <1>20. SleepersOnTime'
    BY <1>12, <1>14, StaysOnTime DEF Types
  <1> QED
    BY <1>11, <1>12, <1>13, <1>14, <1>15, <1>16, <1>17, <1>18, <1>19, <1>20

(* The thread gives its context over and finds another. *)
LEMMA HandoffAndMoveStep ==
    ASSUME Inv, NEW t \in Thread, HandoffAndMove(t)
    PROVE  Inv'
  <1> DEFINE c == cid[t]
             dst == handoff[t]
             free == AnyFree(t)
             o == VictimFor(t)
             to == IF free # None THEN free ELSE IF o # None THEN cid[o] ELSE None
             old == curThread[to]
  <1>1. /\ UNCHANGED <<marked, due, runQueue, sleepQueue, fakeLeaves, phase, wd>>
        /\ state' \in [Thread -> ThreadState]
        /\ \A u \in Thread : state'[u] =
              IF u = dst THEN "RUNNING" ELSE IF u = old THEN "BLOCKED" ELSE state[u]
        /\ handoff' = [handoff EXCEPT ![t] = None]
        /\ cid' = [cid EXCEPT ![dst] = c, ![t] = to]
        /\ curThread' = [curThread EXCEPT ![c] = dst, ![to] = t]
        /\ futexWord' = [futexWord EXCEPT ![dst] = 0]
        /\ freeList' = RemoveFirst(freeList, to)
        /\ outQueue' \in Seq(Thread) /\ Distinct(outQueue')
        /\ \A y : y \in ToSet(outQueue') <=> y \in ToSet(outQueue) /\ y # old
        /\ bar' = [bar EXCEPT ![to] = "ready"] /\ pc' = [pc EXCEPT ![t] = "joining"]
        /\ to \in Core /\ to # c /\ old # t /\ old # dst /\ old = curThread[to]
        /\ old \in Thread =>
              state[old] = "OUT" /\ cid[old] = to /\ pc[old] \in {"out", "dead", "ended"}
        /\ cid[t] = c /\ handoff[t] = dst
        /\ state[t] = "RUNNING" /\ bar[c] = "running" /\ c \in Core /\ curThread[c] = t
        /\ dst \in Thread /\ dst # t /\ state[dst] = "QUEUED" /\ pc[dst] = "queued"
        /\ dst \notin ToSet(runQueue)
        /\ pc[t] = "handoff" /\ ~marked[t] /\ t \notin ToSet(fakeLeaves) /\ t # wd /\ dst # wd
        /\ handoff[dst] = None
        /\ \A u \in Thread : (handoff[u] = dst => u = t) /\ handoff[u] # t
    <2>0. old = curThread[to]
      OBVIOUS
    <2>1. /\ cid[t] = c /\ handoff[t] = dst
          /\ state[t] = "RUNNING" /\ bar[c] = "running" /\ c \in Core /\ curThread[c] = t
          /\ dst \in Thread /\ dst # t /\ state[dst] = "QUEUED" /\ pc[dst] = "queued"
          /\ dst \notin ToSet(runQueue)
          /\ pc[t] = "handoff" /\ ~marked[t] /\ t \notin ToSet(fakeLeaves) /\ t # wd /\ dst # wd
          /\ handoff[dst] = None
          /\ \A u \in Thread : (handoff[u] = dst => u = t) /\ handoff[u] # t
      BY HandoffFacts DEF HandoffAndMove
    <2>2. /\ to # None /\ bar' = [bar EXCEPT ![to] = "ready"] /\ bar[to] = "out"
          /\ UNCHANGED <<marked, due, runQueue, sleepQueue, fakeLeaves, phase, wd>>
          /\ handoff' = [handoff EXCEPT ![t] = None] /\ futexWord' = [futexWord EXCEPT ![dst] = 0]
          /\ cid' = [cid EXCEPT ![dst] = c, ![t] = to]
          /\ curThread' = [curThread EXCEPT ![c] = dst, ![to] = t]
          /\ freeList' = RemoveFirst(freeList, to) /\ pc' = [pc EXCEPT ![t] = "joining"]
          /\ IF free = None
             THEN /\ state' = [state EXCEPT ![dst] = "RUNNING", ![o] = "BLOCKED"]
                  /\ outQueue' = RemoveFirst(outQueue, o)
             ELSE /\ state' = [state EXCEPT ![dst] = "RUNNING"]
                  /\ UNCHANGED outQueue
      BY DEF HandoffAndMove, Goes, Bar!Enter, Bar!Moves
    <2> HIDE DEF c, dst
    <2>3. CASE free # None
      <3>1. to = free /\ to \in Core /\ old = None
        BY <2>3, AnyFreeFacts
      <3>2. state' = [state EXCEPT ![dst] = "RUNNING"] /\ outQueue' = outQueue
        BY <2>2, <2>3
      <3>3. old \notin ToSet(outQueue) /\ outQueue \in Seq(Thread) /\ Distinct(outQueue)
        BY <3>1, NoneIsOther DEF Inv, Lists, ToSet
      <3>4. /\ old # t /\ old # dst /\ to # c
            /\ state' \in [Thread -> ThreadState]
            /\ \A u \in Thread : state'[u] =
                  IF u = dst THEN "RUNNING" ELSE IF u = old THEN "BLOCKED" ELSE state[u]
        BY <2>1, <3>1, <3>2, NoneIsOther DEF Inv, Types, ThreadState
      <3> HIDE DEF to, old, free, o
      <3> QED
        BY <2>0, <2>1, <2>2, <3>1, <3>2, <3>3, <3>4, NoneIsOther
    <2>4. CASE free = None
      <3>1. to = cid[o] /\ o \in Thread /\ state[o] = "OUT" /\ to \in Core
        BY <2>2, <2>4, VictimFacts DEF Inv, Types
      <3>2. old = o
        BY <3>1 DEF Inv, ContextsInv, HasContext
      <3>3. pc[o] \in {"out", "dead", "ended"}
        BY <3>1 DEF Inv, Types, PlacesInv
      <3>4. state' = [state EXCEPT ![dst] = "RUNNING", ![o] = "BLOCKED"]
                  /\ outQueue' = RemoveFirst(outQueue, o)
        BY <2>2, <2>4
      <3>5. /\ outQueue' \in Seq(Thread) /\ Distinct(outQueue')
            /\ \A y : y \in ToSet(outQueue') <=> y \in ToSet(outQueue) /\ y # o
        BY <3>4, Unlinked DEF Inv, Lists
      <3> HIDE DEF to, old, free
      <3>6. /\ old # t /\ old # dst /\ to # c
            /\ state' \in [Thread -> ThreadState]
            /\ \A u \in Thread : state'[u] =
                  IF u = dst THEN "RUNNING" ELSE IF u = old THEN "BLOCKED" ELSE state[u]
        <4>1. o # t /\ o # dst
          BY <2>1, <3>1
        <4>2. to # c
          BY <2>1, <3>1, <4>1 DEF Inv, ContextsInv, HasContext
        <4> HIDE DEF o
        <4> QED
          BY <2>1, <3>1, <3>2, <3>4, <4>1, <4>2 DEF Inv, Types, ThreadState
      <3> HIDE DEF o
      <3> QED
        BY <2>0, <2>1, <2>2, <3>1, <3>2, <3>3, <3>5, <3>6
    <2> QED
      BY <2>3, <2>4
  <1> USE <1>1 DEF queues, Inv
  <1> HIDE DEF to, old, free, o, c, dst
  <1>2. /\ freeList' \in Seq(Core) /\ Distinct(freeList')
        /\ \A y : y \in ToSet(freeList') <=> y \in ToSet(freeList) /\ y # to
    BY Unlinked DEF Lists
  <1>3. \A u \in Thread :
           (HasContext(u) /\ u # t => cid[u] # c) /\ (HasContext(u) /\ u # old => cid[u] # to)
    BY DEF ContextsInv, HasContext, old
  <1>4. \A d \in Core : curThread'[d] = IF d = to THEN t ELSE IF d = c THEN dst ELSE curThread[d]
    BY DEF Types
  <1>5. \A d \in Core : d # c /\ d # to /\ curThread[d] # None =>
           curThread[d] \in Thread /\ curThread[d] \notin {t, dst, old}
    BY NoneIsOther DEF Types, ContextsInv, HasContext
  <1>11. Types'
    BY ParameterAssumption DEF Types, ThreadState
  <1>12. Lists'
    BY <1>2 DEF Lists
  <1>13. ContextsInv'
    <2>1. \A u \in Thread : state'[u] \in {"RUNNING", "OUT"} => curThread'[cid'[u]] = u
      BY <1>2, <1>3, <1>4, <1>5, NoneIsOther DEF Types, ContextsInv, HasContext
    <2>2. \A d \in Core : curThread'[d] # None =>
                state'[curThread'[d]] \in {"RUNNING", "OUT"} /\ cid'[curThread'[d]] = d
      BY <1>2, <1>3, <1>4, <1>5, NoneIsOther DEF Types, ContextsInv, HasContext
    <2>3. \A d \in Core : d \in ToSet(freeList') <=> curThread'[d] = None
      BY <1>2, <1>3, <1>4, <1>5, NoneIsOther DEF Types, ContextsInv, HasContext
    <2>4. \A d \in Core : bar'[d] # "out" <=>
                curThread'[d] # None /\ state'[curThread'[d]] = "RUNNING"
      <3> SUFFICES ASSUME NEW d \in Core
                   PROVE  bar'[d] # "out" <=>
                                curThread'[d] # None /\ state'[curThread'[d]] = "RUNNING"
        OBVIOUS
      <3>1. CASE d = to
        BY <1>4, <3>1, NoneIsOther DEF Types
      <3>2. CASE d = c
        BY <1>4, <3>2, NoneIsOther DEF Types
      <3>3. CASE d # to /\ d # c
        <4>1. bar'[d] = bar[d] /\ curThread'[d] = curThread[d]
          BY <1>4, <3>3 DEF Types
        <4>2. curThread[d] # None => state'[curThread[d]] = state[curThread[d]]
          BY <1>5, <3>3
        <4> HIDE <1>1
        <4> QED
          BY <4>1, <4>2 DEF ContextsInv
      <3> QED
        BY <3>1, <3>2, <3>3
    <2> QED
      BY <2>1, <2>2, <2>3, <2>4 DEF ContextsInv, HasContext
  <1>14. QueuesInv'
    <2>1. /\ \A u \in Thread : state'[u] =
                IF u = dst THEN "RUNNING" ELSE IF u = old THEN "BLOCKED" ELSE state[u]
          /\ old \in Thread => state[old] = "OUT" /\ pc[old] \in {"out", "dead", "ended"}
          /\ runQueue' = runQueue /\ sleepQueue' = sleepQueue
          /\ \A y : y \in ToSet(outQueue') <=> y \in ToSet(outQueue) /\ y # old
          /\ dst \in Thread /\ state[dst] = "QUEUED" /\ dst \notin ToSet(runQueue)
      OBVIOUS
    <2> HIDE <1>1
    <2> QED
      BY <2>1, NoneIsOther DEF Types, QueuesInv
  <1>15. HandoffInv'
    <2>1. \A u \in Thread : handoff'[u] # None =>
             /\ pc'[u] \in {"syncing", "handoff"} /\ bar'[cid'[u]] \in {"ready", "running"}
             /\ state'[handoff'[u]] = "QUEUED" /\ handoff'[u] \notin ToSet(runQueue')
      BY <1>3, NoneIsOther DEF Types, HandoffInv, PlacesInv, HasContext
    <2>2. \A u, v \in Thread : handoff'[u] = handoff'[v] /\ handoff'[u] # None => u = v
      BY <1>3, NoneIsOther DEF Types, HandoffInv, PlacesInv, HasContext
    <2>3. ASSUME NEW u \in Thread, state'[u] = "QUEUED", u \notin ToSet(runQueue')
          PROVE  \E v \in Thread : handoff'[v] = u
      <3>1. state[u] = "QUEUED" /\ u \notin ToSet(runQueue) /\ u # t /\ u # dst
        BY <2>3 DEF Types
      <3>2. PICK v \in Thread : handoff[v] = u
        BY <3>1 DEF HandoffInv
      <3> QED
        BY <3>1, <3>2 DEF Types
    <2> HIDE <1>1
    <2> QED
      BY <2>1, <2>2, <2>3 DEF HandoffInv
  <1>16. PlacesInv'
    BY DEF Types, PlacesInv
  <1>17. TurnsInv'
    BY <1>3 DEF Types, TurnsInv, HasContext
  <1>18. CallsInv'
    <2>1. /\ \A u \in Thread : state'[u] =
                IF u = dst THEN "RUNNING" ELSE IF u = old THEN "BLOCKED" ELSE state[u]
          /\ old \in Thread => state[old] = "OUT" /\ pc[old] \in {"out", "dead", "ended"}
          /\ wd' = wd /\ fakeLeaves' = fakeLeaves /\ t # wd /\ dst # wd /\ dst \in Thread
          /\ state[dst] = "QUEUED" /\ pc[dst] = "queued"
          /\ pc' = [pc EXCEPT ![t] = "joining"] /\ pc[t] = "handoff"
      OBVIOUS
    <2> HIDE <1>1
    <2> QED
      BY <2>1, NoneIsOther DEF Types, CallsInv
  <1>19. NoIdleContextWanted'
    <2> SUFFICES ASSUME NEW u \in ToSet(runQueue'), NEW d \in mask[u]
                 PROVE  curThread'[d] # None /\ state'[curThread'[d]] = "RUNNING"
      BY DEF NoIdleContextWanted
    <2>1. d \in Core /\ curThread[d] \in Thread /\ state[curThread[d]] = "RUNNING"
      BY QueuedFacts
    <2>2. d # c /\ d # to => curThread[d] # t /\ curThread[d] # old
      BY <2>1, NoneIsOther DEF ContextsInv, c, old
    <2> QED
      BY <2>1, <2>2, NoneIsOther DEF Types, old
  <1>20. SleepersOnTime'
    BY <1>12, <1>14, StaysOnTime DEF Types
  <1> QED
    BY <1>11, <1>12, <1>13, <1>14, <1>15, <1>16, <1>17, <1>18, <1>19, <1>20

(* A scheduled thread is marked for a sleep. *)
LEMMA MarkForSleepStep ==
    ASSUME Orderly, Inv, NEW t \in Thread, MarkForSleep(t)
    PROVE  Inv'
  <1>1. /\ UNCHANGED <<state, cid, handoff, curThread, queues, phase, bar, wd>>
        /\ pc' = [pc EXCEPT ![t] = "marked"]
        /\ marked' = [marked EXCEPT ![t] = TRUE] /\ futexWord' = [futexWord EXCEPT ![t] = 1]
        /\ \E d \in 1 .. MaxSleep : due' = [due EXCEPT ![t] = d]
        /\ pc[t] = "app" /\ state[t] = "RUNNING"
    BY DEF Orderly, MarkForSleep, Goes, Inv, PlacesInv
  <1> USE <1>1 DEF queues, Inv
  <1>11. Types'
    BY ParameterAssumption DEF Types, ThreadState
  <1>12. Lists'
    BY DEF Lists
  <1>13. ContextsInv'
    BY DEF Types, ContextsInv, HasContext
  <1>14. QueuesInv'
    BY DEF Types, QueuesInv, Lists, ToSet
  <1>15. HandoffInv'
    BY DEF Types, HandoffInv
  <1>16. PlacesInv'
    BY DEF Types, PlacesInv
  <1>17. TurnsInv'
    BY DEF Types, TurnsInv
  <1>18. CallsInv'
    BY DEF Types, CallsInv
  <1>19. NoIdleContextWanted'
    BY DEF Types, NoIdleContextWanted
  <1>20. SleepersOnTime'
    BY <1>12, <1>14, StaysOnTime DEF Types
  <1> QED
    BY <1>11, <1>12, <1>13, <1>14, <1>15, <1>16, <1>17, <1>18, <1>19, <1>20

(* A leave is suppressed. *)
LEMMA SyscallFakesLeaveStep ==
    ASSUME Inv, NEW t \in Thread, SyscallFakesLeave(t)
    PROVE  Inv'
  <1>1. /\ UNCHANGED <<threads, curThread, freeList, runQueue, outQueue, sleepQueue, phase, bar,
              wd>>
        /\ pc' = [pc EXCEPT ![t] = "out"]
        /\ fakeLeaves' = Append(fakeLeaves, t)
        /\ pc[t] = "app" /\ state[t] = "RUNNING"
    BY DEF SyscallFakesLeave, Goes, Inv, PlacesInv
  <1> USE <1>1 DEF queues, Inv
  <1> USE DEF threads
  <1>2. /\ fakeLeaves' \in Seq(Thread) /\ Distinct(fakeLeaves')
        /\ \A y : y \in ToSet(fakeLeaves') <=> y \in ToSet(fakeLeaves) \/ y = t
    <2>1. t \notin ToSet(fakeLeaves)
      BY DEF CallsInv
    <2> QED
      BY <2>1, Appended DEF Lists
  <1>11. Types'
    BY ParameterAssumption DEF Types, ThreadState
  <1>12. Lists'
    BY <1>2 DEF Lists
  <1>13. ContextsInv'
    BY DEF Types, ContextsInv, HasContext
  <1>14. QueuesInv'
    BY DEF Types, QueuesInv, Lists, ToSet
  <1>15. HandoffInv'
    BY DEF Types, HandoffInv
  <1>16. PlacesInv'
    BY DEF Types, PlacesInv
  <1>17. TurnsInv'
    BY DEF Types, TurnsInv
  <1>18. CallsInv'
    BY <1>2, NoneIsOther DEF Types, CallsInv
  <1>19. NoIdleContextWanted'
    BY DEF Types, NoIdleContextWanted
  <1>20. SleepersOnTime'
    BY <1>12, <1>14, StaysOnTime DEF Types
  <1> QED
    BY <1>11, <1>12, <1>13, <1>14, <1>15, <1>16, <1>17, <1>18, <1>19, <1>20

(* A sleep ends, or a signal ends it. *)
LEMMA NapEndsStep ==
    ASSUME Inv, NEW t \in Thread, NapEnds(t)
    PROVE  Inv'
  <1>1. /\ UNCHANGED <<threads, curThread, queues, phase, bar, wd>>
        /\ pc' = [pc EXCEPT ![t] = "out"]
        /\ pc[t] = "nap" /\ state[t] \in {"SLEEPING", "BLOCKED"}
    BY DEF NapEnds, Goes, Inv, PlacesInv
  <1> USE <1>1 DEF queues, Inv
  <1> USE DEF threads
  <1>11. Types'
    BY ParameterAssumption DEF Types, ThreadState
  <1>12. Lists'
    BY DEF Lists
  <1>13. ContextsInv'
    BY DEF Types, ContextsInv, HasContext
  <1>14. QueuesInv'
    BY DEF Types, QueuesInv, Lists, ToSet
  <1>15. HandoffInv'
    BY DEF Types, HandoffInv
  <1>16. PlacesInv'
    BY DEF Types, PlacesInv
  <1>17. TurnsInv'
    BY DEF Types, TurnsInv
  <1>18. CallsInv'
    BY DEF Types, CallsInv
  <1>19. NoIdleContextWanted'
    BY DEF Types, NoIdleContextWanted
  <1>20. SleepersOnTime'
    BY <1>12, <1>14, StaysOnTime DEF Types
  <1> QED
    BY <1>11, <1>12, <1>13, <1>14, <1>15, <1>16, <1>17, <1>18, <1>19, <1>20

(* The scheduler is told of the signal. *)
LEMMA NotifySleepEndStep ==
    ASSUME Inv, NEW t \in Thread, NotifySleepEnd(t)
    PROVE  Inv'
  <1>1. /\ UNCHANGED <<cid, handoff, futexWord, marked, curThread, freeList, runQueue, outQueue,
              fakeLeaves, phase, bar, wd>>
        /\ state' = [state EXCEPT ![t] = "BLOCKED"] /\ sleepQueue' = RemoveFirst(sleepQueue, t)
        /\ due' = [due EXCEPT ![t] = 0] /\ pc' = [pc EXCEPT ![t] = "out"]
        /\ pc[t] = "nap" /\ state[t] = "SLEEPING"
    BY DEF NotifySleepEnd, Goes
  <1> USE <1>1 DEF queues, Inv
  <1>2. /\ sleepQueue' \in Seq(Thread) /\ Distinct(sleepQueue') /\ Keeps(sleepQueue', sleepQueue)
        /\ \A y : y \in ToSet(sleepQueue') <=> y \in ToSet(sleepQueue) /\ y # t
    BY Unlinked DEF Lists
  <1>11. Types'
    BY ParameterAssumption DEF Types, ThreadState
  <1>12. Lists'
    BY <1>2 DEF Lists
  <1>13. ContextsInv'
    BY DEF Types, ContextsInv, HasContext
  <1>14. QueuesInv'
    BY <1>2 DEF Types, QueuesInv
  <1>15. HandoffInv'
    BY DEF Types, HandoffInv
  <1>16. PlacesInv'
    BY DEF Types, PlacesInv
  <1>17. TurnsInv'
    BY DEF Types, TurnsInv
  <1>18. CallsInv'
    BY DEF Types, CallsInv
  <1>19. NoIdleContextWanted'
    BY DEF Types, NoIdleContextWanted
  <1>20. SleepersOnTime'
    BY <1>2, <1>12, <1>14, StaysOnTime DEF Types
  <1> QED
    BY <1>11, <1>12, <1>13, <1>14, <1>15, <1>16, <1>17, <1>18, <1>19, <1>20

(* The process of a thread is killed. *)
LEMMA KillStep ==
    ASSUME Orderly, Inv, NEW t \in Thread, Kill(t)
    PROVE  Inv'
  <1>1. /\ UNCHANGED <<threads, curThread, queues, phase, bar, wd>>
        /\ pc' = [pc EXCEPT ![t] = "dead"]
        /\ pc[t] \in {"app", "marked", "out", "nap"}
    BY DEF Orderly, Kill, Goes
  <1> USE <1>1 DEF queues, Inv
  <1> USE DEF threads
  <1>11. Types'
    BY ParameterAssumption DEF Types, ThreadState
  <1>12. Lists'
    BY DEF Lists
  <1>13. ContextsInv'
    BY DEF Types, ContextsInv, HasContext
  <1>14. QueuesInv'
    BY DEF Types, QueuesInv, Lists, ToSet
  <1>15. HandoffInv'
    BY DEF Types, HandoffInv
  <1>16. PlacesInv'
    BY DEF Types, PlacesInv
  <1>17. TurnsInv'
    BY DEF Types, TurnsInv
  <1>18. CallsInv'
    BY DEF Types, CallsInv
  <1>19. NoIdleContextWanted'
    BY DEF Types, NoIdleContextWanted
  <1>20. SleepersOnTime'
    BY <1>12, <1>14, StaysOnTime DEF Types
  <1> QED
    BY <1>11, <1>12, <1>13, <1>14, <1>15, <1>16, <1>17, <1>18, <1>19, <1>20

(* finish() finds its thread scheduled. *)
LEMMA FinishStep ==
    ASSUME Orderly, Inv, NEW t \in Thread, Finish(t)
    PROVE  Inv'
  <1>1. /\ UNCHANGED <<threads, curThread, freeList, runQueue, outQueue, sleepQueue, phase, bar>>
        /\ fakeLeaves' = RemoveFirst(fakeLeaves, t) /\ pc' = [pc EXCEPT ![t] = "ending"]
        /\ wd' = IF pc[t] = "dead" THEN t ELSE wd
        /\ (pc[t] = "dead" /\ wd = None) \/ (pc[t] = "out" /\ t # wd)
        /\ state[t] = "RUNNING"
    BY DEF Orderly, Finish, MayFinish, CallsJoin, Goes
  <1> USE <1>1 DEF queues, Inv
  <1> USE DEF threads
  <1>2. /\ fakeLeaves' \in Seq(Thread) /\ Distinct(fakeLeaves')
        /\ \A y : y \in ToSet(fakeLeaves') <=> y \in ToSet(fakeLeaves) /\ y # t
    BY Unlinked DEF Lists
  <1>11. Types'
    BY ParameterAssumption DEF Types, ThreadState
  <1>12. Lists'
    BY <1>2 DEF Lists
  <1>13. ContextsInv'
    BY DEF Types, ContextsInv, HasContext
  <1>14. QueuesInv'
    BY DEF Types, QueuesInv, Lists, ToSet
  <1>15. HandoffInv'
    BY DEF Types, HandoffInv
  <1>16. PlacesInv'
    BY DEF Types, PlacesInv
  <1>17. TurnsInv'
    BY DEF Types, TurnsInv
  <1>18. CallsInv'
    BY <1>2, NoneIsOther DEF Types, CallsInv
  <1>19. NoIdleContextWanted'
    BY DEF Types, NoIdleContextWanted
  <1>20. SleepersOnTime'
    BY <1>12, <1>14, StaysOnTime DEF Types
  <1> QED
    BY <1>11, <1>12, <1>13, <1>14, <1>15, <1>16, <1>17, <1>18, <1>19, <1>20

(* The thread is gone. *)
LEMMA FinishedStep ==
    ASSUME Orderly, Inv, NEW t \in Thread, Finished(t)
    PROVE  Inv'
  <1>5. /\ state[t] = "OUT" =>
              cid[t] \in Core /\ curThread[cid[t]] = t /\ cid[t] \notin ToSet(freeList)
        /\ state[t] # "OUT" => \A d \in Core : curThread[d] # t
    BY NoneIsOther DEF Finished, Ended, MayFinish, CallsJoin, Orderly, PlacesInv, Inv, Types,
       ContextsInv, HasContext
  <1>1. /\ UNCHANGED <<cid, handoff, futexWord, marked, fakeLeaves, phase, bar>>
        /\ state' = [state EXCEPT ![t] = "NONE"] /\ pc' = [pc EXCEPT ![t] = "none"]
        /\ due' = [due EXCEPT ![t] = 0]
        /\ runQueue' = RemoveFirst(runQueue, t) /\ outQueue' = RemoveFirst(outQueue, t)
        /\ sleepQueue' = RemoveFirst(sleepQueue, t)
        /\ wd' = IF wd = t THEN None ELSE wd
        /\ state[t] = "OUT" =>
              curThread' = [curThread EXCEPT ![cid[t]] = None]
                    /\ freeList' = Append(freeList, cid[t])
        /\ state[t] # "OUT" => curThread' = curThread /\ freeList' = freeList
        /\ pc[t] \in {"ended", "dead", "out"} /\ state[t] \notin {"NONE", "RUNNING", "QUEUED"}
    BY DEF Orderly, Finished, Ended, MayFinish, CallsJoin, Goes, Inv, PlacesInv
  <1> USE <1>1 DEF queues, Inv
  <1>2. /\ runQueue' \in Seq(Thread) /\ Distinct(runQueue') /\ Keeps(runQueue', runQueue)
        /\ \A y : y \in ToSet(runQueue') <=> y \in ToSet(runQueue) /\ y # t
    BY Unlinked DEF Lists
  <1>3. /\ outQueue' \in Seq(Thread) /\ Distinct(outQueue') /\ Keeps(outQueue', outQueue)
        /\ \A y : y \in ToSet(outQueue') <=> y \in ToSet(outQueue) /\ y # t
    BY Unlinked DEF Lists
  <1>4. /\ sleepQueue' \in Seq(Thread) /\ Distinct(sleepQueue') /\ Keeps(sleepQueue', sleepQueue)
        /\ \A y : y \in ToSet(sleepQueue') <=> y \in ToSet(sleepQueue) /\ y # t
    BY Unlinked DEF Lists
  <1>6. /\ freeList' \in Seq(Core) /\ Distinct(freeList')
        /\ \A y : y \in ToSet(freeList') <=>
              y \in ToSet(freeList) \/ (state[t] = "OUT" /\ y = cid[t])
    <2>1. CASE state[t] = "OUT"
      <3>1. freeList' = Append(freeList, cid[t]) /\ cid[t] \in Core /\ cid[t] \notin ToSet(freeList)
        BY <1>5, <2>1
      <3>2. freeList \in Seq(Core) /\ Distinct(freeList)
        BY DEF Lists
      <3> QED
        BY <2>1, <3>1, <3>2, Appended
    <2>2. CASE state[t] # "OUT"
      BY <2>2 DEF Lists
    <2> QED
      BY <2>1, <2>2
  <1>7. \A d \in Core : curThread'[d] = IF curThread[d] = t THEN None ELSE curThread[d]
    BY <1>5 DEF Types, ContextsInv
  <1>11. Types'
    BY ParameterAssumption DEF Types, ThreadState
  <1>12. Lists'
    BY <1>2, <1>3, <1>4, <1>6 DEF Lists
  <1>13. ContextsInv'
    <2>1. \A u \in Thread : state'[u] \in {"RUNNING", "OUT"} => curThread'[cid'[u]] = u
      BY <1>5, <1>6, <1>7, NoneIsOther DEF Types, ContextsInv, HasContext
    <2>2. \A d \in Core : curThread'[d] # None =>
                state'[curThread'[d]] \in {"RUNNING", "OUT"} /\ cid'[curThread'[d]] = d
      BY <1>5, <1>6, <1>7, NoneIsOther DEF Types, ContextsInv, HasContext
    <2>3. \A d \in Core : d \in ToSet(freeList') <=> curThread'[d] = None
      BY <1>5, <1>6, <1>7, NoneIsOther DEF Types, ContextsInv, HasContext
    <2>4. \A d \in Core : bar'[d] # "out" <=>
                curThread'[d] # None /\ state'[curThread'[d]] = "RUNNING"
      BY <1>5, <1>6, <1>7, NoneIsOther DEF Types, ContextsInv, HasContext
    <2> QED
      BY <2>1, <2>2, <2>3, <2>4 DEF ContextsInv, HasContext
  <1>14. QueuesInv'
    BY <1>2, <1>3, <1>4 DEF Types, QueuesInv
  <1>15. HandoffInv'
    BY <1>2 DEF Types, HandoffInv
  <1>16. PlacesInv'
    BY DEF Types, PlacesInv
  <1>17. TurnsInv'
    BY DEF Types, TurnsInv
  <1>18. CallsInv'
    BY NoneIsOther DEF Types, CallsInv
  <1>19. NoIdleContextWanted'
    <2> SUFFICES ASSUME NEW u \in ToSet(runQueue'), NEW d \in mask[u]
                 PROVE  curThread'[d] # None /\ state'[curThread'[d]] = "RUNNING"
      BY DEF NoIdleContextWanted
    <2>1. d \in Core /\ curThread[d] \in Thread /\ state[curThread[d]] = "RUNNING"
      BY <1>2, QueuedFacts
    <2>2. curThread[d] # t
      BY <2>1
    <2>3. curThread'[d] = curThread[d]
      BY <1>7, <2>1, <2>2
    <2>4. state'[curThread[d]] = state[curThread[d]]
      BY <2>1, <2>2 DEF Types
    <2> QED
      BY <2>1, <2>3, <2>4, NoneIsOther
  <1>20. SleepersOnTime'
    BY <1>4, <1>12, <1>14, StaysOnTime DEF Types
  <1> QED
    BY <1>11, <1>12, <1>13, <1>14, <1>15, <1>16, <1>17, <1>18, <1>19, <1>20

(* A context gets its turn. *)
LEMMA BarrierStartsStep ==
    ASSUME Inv, NEW c \in Core, BarrierStarts(c)
    PROVE  Inv'
  <1>1. /\ UNCHANGED <<threads, curThread, queues, phase, pc, wd>>
        /\ bar' = [bar EXCEPT ![c] = "running"] /\ bar[c] = "ready"
    BY DEF BarrierStarts, Bar!Start, Bar!Moves
  <1> USE <1>1 DEF queues, Inv
  <1> USE DEF threads
  <1>11. Types'
    BY ParameterAssumption DEF Types, ThreadState
  <1>12. Lists'
    BY DEF Lists
  <1>13. ContextsInv'
    BY DEF Types, ContextsInv, HasContext
  <1>14. QueuesInv'
    BY DEF Types, QueuesInv, Lists, ToSet
  <1>15. HandoffInv'
    BY DEF Types, HandoffInv
  <1>16. PlacesInv'
    BY DEF Types, PlacesInv
  <1>17. TurnsInv'
    BY DEF Types, TurnsInv
  <1>18. CallsInv'
    BY DEF Types, CallsInv
  <1>19. NoIdleContextWanted'
    BY DEF Types, NoIdleContextWanted
  <1>20. SleepersOnTime'
    BY <1>12, <1>14, StaysOnTime DEF Types
  <1> QED
    BY <1>11, <1>12, <1>13, <1>14, <1>15, <1>16, <1>17, <1>18, <1>19, <1>20


-----------------------------------------------------------------------------
(* leave() *)

(* What the callers of leave() have in common: t is in no suppressed leave, *)
(* goes on at p, and is no longer the watchdog's business unless it ends.   *)
LeavesFor(t, p) ==
    /\ t \notin ToSet(fakeLeaves) /\ fakeLeaves' = fakeLeaves
    /\ pc[t] \in {"app", "marked", "ending", "out", "dead"} /\ p \in {"out", "nap", "ended", "dead"}
    /\ p = "nap" => marked[t]
    /\ pc' = [pc EXCEPT ![t] = p]
    /\ wd' = IF wd = t /\ p # "ended" THEN None ELSE wd

(* The queue of sleepers after a leave. *)
LEMMA LeaveSleeps ==
    ASSUME Inv, NEW t \in Thread, state[t] = "RUNNING", due' = due,
           sleepQueue' = IF marked[t] THEN SleepQueueWith(t) ELSE sleepQueue
    PROVE  /\ sleepQueue' \in Seq(Thread) /\ Distinct(sleepQueue')
           /\ \A y : y \in ToSet(sleepQueue') <=> y \in ToSet(sleepQueue) \/ (marked[t] /\ y = t)
           /\ \A i, j \in DOMAIN sleepQueue' : i < j => due'[sleepQueue'[i]] <= due'[sleepQueue'[j]]
  <1>1. /\ sleepQueue \in Seq(Thread) /\ Distinct(sleepQueue) /\ t \notin ToSet(sleepQueue)
        /\ \A i, j \in DOMAIN sleepQueue : i < j => due[sleepQueue[i]] <= due[sleepQueue[j]]
    BY DEF Inv, Lists, QueuesInv, SleepersOnTime
  <1>2. due \in [Thread -> Int]
    BY ParameterAssumption DEF Inv, Types
  <1>3. CASE ~marked[t]
    BY <1>1, <1>3
  <1>4. CASE marked[t]
    <2> DEFINE s == sleepQueue
               n == SleepsBefore(t)
               k == n + 1
               w == InsertAt(s, k, t)
    <2>1. sleepQueue' = w
      BY <1>4 DEF SleepQueueWith
    <2>2. n \in 0 .. Len(s) /\ \A i \in DOMAIN s : i <= n <=> due[s[i]] <= due[t]
      BY <1>1, <1>2, FirstSleepers
    <2> HIDE DEF n
    <2>3. k \in 1 .. Len(s) + 1 /\ k - 1 = n /\ k + 1 = n + 2 /\ k = n + 1
      BY <2>2
    <2> HIDE DEF k
    <2>4. /\ w \in Seq(Thread) /\ DOMAIN w = 1 .. Len(s) + 1 /\ Distinct(w)
          /\ \A y : y \in ToSet(w) <=> y \in ToSet(s) \/ y = t
          /\ w[n + 1] = t
          /\ \A i \in 1 .. n : i \in DOMAIN s /\ w[i] = s[i]
          /\ \A i \in n + 2 .. Len(s) + 1 : i - 1 \in DOMAIN s /\ w[i] = s[i - 1]
      <3>1. /\ w \in Seq(Thread) /\ DOMAIN w = 1 .. Len(s) + 1 /\ Distinct(w)
            /\ \A y : y \in ToSet(w) <=> y \in ToSet(s) \/ y = t
            /\ w[k] = t
            /\ \A i \in 1 .. k - 1 : i \in DOMAIN s /\ w[i] = s[i]
            /\ \A i \in k + 1 .. Len(s) + 1 : i - 1 \in DOMAIN s /\ w[i] = s[i - 1]
        <4>1. s \in Seq(Thread) /\ Distinct(s) /\ t \notin ToSet(s) /\ k \in 1 .. Len(s) + 1
          BY <1>1, <2>3
        <4> HIDE DEF s
        <4> QED
          BY <4>1, Inserted
      <3> HIDE DEF w
      <3> QED
        BY <2>3, <3>1
    <2> HIDE DEF w
    <2>5. ASSUME NEW i \in DOMAIN w, NEW j \in DOMAIN w, i < j PROVE due[w[i]] <= due[w[j]]
      <3>1. i \in Nat /\ j \in Nat /\ n \in Nat /\ i \in 1 .. Len(s) + 1 /\ j \in 1 .. Len(s) + 1
        BY <2>2, <2>4
      <3>2. CASE i <= n /\ j <= n
        BY <1>1, <2>4, <2>5, <3>1, <3>2
      <3>3. CASE i <= n /\ j = n + 1
        BY <2>2, <2>4, <3>1, <3>3
      <3>4. CASE i <= n /\ j > n + 1
        <4>1. i \in DOMAIN s /\ w[i] = s[i] /\ j - 1 \in DOMAIN s /\ w[j] = s[j - 1] /\ i < j - 1
          BY <2>4, <3>1, <3>4
        <4> QED
          BY <1>1, <4>1
      <3>5. CASE i = n + 1
        <4>1. w[i] = t /\ j - 1 \in DOMAIN s /\ w[j] = s[j - 1] /\ ~(j - 1 <= n)
          BY <2>4, <2>5, <3>1, <3>5
        <4>2. ~(due[s[j - 1]] <= due[t]) /\ s[j - 1] \in Thread
          BY <1>1, <2>2, <4>1
        <4> QED
          BY <1>2, <4>1, <4>2
      <3>6. CASE i > n + 1
        <4>1. i - 1 \in DOMAIN s /\ w[i] = s[i - 1] /\ j - 1 \in DOMAIN s /\ w[j] = s[j - 1]
                    /\ i - 1 < j - 1
          BY <2>4, <2>5, <3>1, <3>6
        <4> QED
          BY <1>1, <4>1
      <3> QED
        BY <2>5, <3>1, <3>2, <3>3, <3>4, <3>5, <3>6
    <2> QED
      BY <1>4, <2>1, <2>4, <2>5
  <1> QED
    BY <1>3, <1>4

(* A thread that leaves has a context whose turn it is. *)
LEMMA LeaveFacts ==
    ASSUME Inv, NEW t \in Thread, NEW p, LeavesFor(t, p), state[t] = "RUNNING"
    PROVE  /\ marked[t] \in BOOLEAN /\ (marked[t] => futexWord[t] = 1 /\ due[t] >= 1)
           /\ cid[t] \in Core /\ curThread[cid[t]] = t /\ bar[cid[t]] = "running"
           /\ handoff[t] = None
  <1> USE DEF Inv
  <1>1. marked[t] \in BOOLEAN /\ cid[t] \in Core
    BY DEF Types
  <1>2. marked[t] => futexWord[t] = 1 /\ due[t] >= 1
    BY DEF PlacesInv
  <1>3. curThread[cid[t]] = t
    BY DEF ContextsInv, HasContext
  <1>4. bar[cid[t]] = "running"
    BY DEF TurnsInv, LeavesFor
  <1>5. handoff[t] = None
    BY DEF HandoffInv, LeavesFor
  <1> QED
    BY <1>1, <1>2, <1>3, <1>4, <1>5

(* leave(): a queued thread goes on in the context. *)
LEMMA LeaveToNextStep ==
    ASSUME Inv, NEW t \in Thread, NEW p, LeavesFor(t, p), LeaveCall(t), LeaveToNext(t)
    PROVE  Inv'
  <1> DEFINE c == cid[t]
             in == NextFor(c)
             left == LeftState(t)
  <1>1. /\ state' = [state EXCEPT ![t] = left, ![in] = "RUNNING"]
        /\ cid' = [cid EXCEPT ![in] = c] /\ curThread' = [curThread EXCEPT ![c] = in]
        /\ futexWord' = [futexWord EXCEPT ![in] = 0] /\ runQueue' = RemoveFirst(runQueue, in)
        /\ bar' = bar /\ freeList' = freeList /\ outQueue' = outQueue
        /\ sleepQueue' = IF marked[t] THEN SleepQueueWith(t) ELSE sleepQueue
        /\ handoff' = handoff /\ due' = due /\ phase' = phase
        /\ marked' = [marked EXCEPT ![t] = FALSE]
        /\ t \notin ToSet(fakeLeaves) /\ fakeLeaves' = fakeLeaves
        /\ wd' = (IF wd = t /\ p # "ended" THEN None ELSE wd)
        /\ pc' = [pc EXCEPT ![t] = p] /\ pc[t] \in {"app", "marked", "ending", "out", "dead"}
        /\ p \in {"out", "nap", "ended", "dead"}
        /\ p = "nap" => marked[t]
        /\ state[t] = "RUNNING" /\ marked[t] \in BOOLEAN
        /\ (marked[t] => futexWord[t] = 1 /\ due[t] >= 1)
        /\ cid[t] = c /\ c \in Core /\ curThread[c] = t /\ bar[c] = "running" /\ handoff[t] = None
        /\ in \in Thread /\ in # t /\ in \in ToSet(runQueue) /\ state[in] = "QUEUED"
        /\ pc[in] = "queued"
        /\ left = IF marked[t] THEN "SLEEPING" ELSE "BLOCKED"
    <2>1. state[t] = "RUNNING" /\ in # None
      BY DEF LeaveCall, LeaveToNext
    <2>2. c \in Core /\ curThread[c] = t /\ bar[c] = "running" /\ handoff[t] = None
                /\ marked[t] \in BOOLEAN /\ (marked[t] => futexWord[t] = 1 /\ due[t] >= 1)
      BY <2>1, LeaveFacts
    <2>3. in \in Thread /\ in \in ToSet(runQueue)
      BY <2>1, <2>2, NextForFacts DEF Inv
    <2>4. state[in] = "QUEUED" /\ pc[in] = "queued" /\ in # t
      BY <2>1, <2>3 DEF Inv, QueuesInv, PlacesInv
    <2> QED
      BY <2>1, <2>2, <2>3, <2>4 DEF LeaveCall, LeaveToNext, Takes, LeftState, LeavesFor
  <1> USE <1>1 DEF queues, Inv
  <1> HIDE DEF c, in, left
  <1>2. /\ sleepQueue' \in Seq(Thread) /\ Distinct(sleepQueue')
        /\ \A y : y \in ToSet(sleepQueue') <=> y \in ToSet(sleepQueue) \/ (marked[t] /\ y = t)
        /\ \A i, j \in DOMAIN sleepQueue' : i < j => due'[sleepQueue'[i]] <= due'[sleepQueue'[j]]
    BY LeaveSleeps
  <1>3. \A u \in Thread \ {t} : HasContext(u) => cid[u] # c
    BY DEF ContextsInv, HasContext
  <1>4. /\ runQueue' \in Seq(Thread) /\ Distinct(runQueue')
        /\ \A y : y \in ToSet(runQueue') <=> y \in ToSet(runQueue) /\ y # in
    BY Unlinked DEF Lists
  <1>11. Types'
    BY NoneIsOther DEF Types, ThreadState
  <1>12. Lists'
    BY <1>2, <1>4 DEF Lists
  <1>13. ContextsInv'
    <2>1. \A u \in Thread : state'[u] \in {"RUNNING", "OUT"} => curThread'[cid'[u]] = u
      BY <1>3, NoneIsOther DEF Types, ContextsInv, HasContext
    <2>2. \A d \in Core : curThread'[d] # None =>
                state'[curThread'[d]] \in {"RUNNING", "OUT"} /\ cid'[curThread'[d]] = d
      BY <1>3, NoneIsOther DEF Types, ContextsInv, HasContext
    <2>3. \A d \in Core : d \in ToSet(freeList') <=> curThread'[d] = None
      BY <1>3, NoneIsOther DEF Types, ContextsInv, HasContext
    <2>4. \A d \in Core : bar'[d] # "out" <=>
                curThread'[d] # None /\ state'[curThread'[d]] = "RUNNING"
      BY <1>3, NoneIsOther DEF Types, ContextsInv, HasContext
    <2> QED
      BY <2>1, <2>2, <2>3, <2>4 DEF ContextsInv, HasContext
  <1>14. QueuesInv'
    BY <1>2, <1>4 DEF Types, QueuesInv
  <1>15. HandoffInv'
    <2>1. \A u \in Thread : handoff'[u] # None =>
             /\ pc'[u] \in {"syncing", "handoff"} /\ bar'[cid'[u]] \in {"ready", "running"}
             /\ state'[handoff'[u]] = "QUEUED" /\ handoff'[u] \notin ToSet(runQueue')
      BY <1>3, <1>4, NoneIsOther DEF Types, HandoffInv, PlacesInv, HasContext
    <2>2. \A u, v \in Thread : handoff'[u] = handoff'[v] /\ handoff'[u] # None => u = v
      BY <1>3, <1>4, NoneIsOther DEF Types, HandoffInv, PlacesInv, HasContext
    <2>3. ASSUME NEW u \in Thread, state'[u] = "QUEUED", u \notin ToSet(runQueue')
          PROVE  \E v \in Thread : handoff'[v] = u
      <3>1. state[u] = "QUEUED" /\ u \notin ToSet(runQueue) /\ u # t /\ u # in
        BY <2>3, <1>4 DEF Types
      <3>2. PICK v \in Thread : handoff[v] = u
        BY <3>1 DEF HandoffInv
      <3> QED
        BY <3>1, <3>2 DEF Types
    <2> HIDE <1>1
    <2> QED
      BY <2>1, <2>2, <2>3 DEF HandoffInv
  <1>16. PlacesInv'
    BY DEF Types, PlacesInv
  <1>17. TurnsInv'
    BY <1>3 DEF Types, TurnsInv, HasContext
  <1>18. CallsInv'
    BY NoneIsOther DEF Types, CallsInv
  <1>19. NoIdleContextWanted'
    <2> SUFFICES ASSUME NEW u \in ToSet(runQueue'), NEW d \in mask[u]
                 PROVE  curThread'[d] # None /\ state'[curThread'[d]] = "RUNNING"
      BY DEF NoIdleContextWanted
    <2>1. d \in Core /\ curThread[d] \in Thread /\ state[curThread[d]] = "RUNNING"
      BY QueuedFacts, <1>4
    <2>2. d # c => curThread[d] # t
      BY <2>1, NoneIsOther DEF ContextsInv
    <2> QED
      BY <2>1, <2>2, NoneIsOther DEF Types
  <1>20. SleepersOnTime'
    BY <1>2, <1>3 DEF Types, SleepersOnTime, ThreadsIn
  <1> QED
    BY <1>11, <1>12, <1>13, <1>14, <1>15, <1>16, <1>17, <1>18, <1>19, <1>20

(* leave(): a thread that goes to sleep gives its context up. *)
LEMMA LeaveAsleepStep ==
    ASSUME Inv, NEW t \in Thread, NEW p, LeavesFor(t, p), LeaveCall(t), LeaveBarrier(t), marked[t]
    PROVE  Inv'
  <1> DEFINE c == cid[t]
  <1>1. /\ cid' = cid /\ futexWord' = futexWord /\ runQueue' = runQueue
        /\ bar' = [bar EXCEPT ![c] = "out"]
        /\ state' = [state EXCEPT ![t] = "SLEEPING"] /\ curThread' = [curThread EXCEPT ![c] = None]
        /\ freeList' = Append(freeList, c) /\ outQueue' = outQueue
        /\ sleepQueue' = IF marked[t] THEN SleepQueueWith(t) ELSE sleepQueue
        /\ handoff' = handoff /\ due' = due /\ phase' = phase
        /\ marked' = [marked EXCEPT ![t] = FALSE]
        /\ t \notin ToSet(fakeLeaves) /\ fakeLeaves' = fakeLeaves
        /\ wd' = (IF wd = t /\ p # "ended" THEN None ELSE wd)
        /\ pc' = [pc EXCEPT ![t] = p] /\ pc[t] \in {"app", "marked", "ending", "out", "dead"}
        /\ p \in {"out", "nap", "ended", "dead"}
        /\ p = "nap" => marked[t]
        /\ state[t] = "RUNNING" /\ marked[t] \in BOOLEAN
        /\ (marked[t] => futexWord[t] = 1 /\ due[t] >= 1)
        /\ cid[t] = c /\ c \in Core /\ curThread[c] = t /\ bar[c] = "running" /\ handoff[t] = None
        /\ \A u \in ToSet(runQueue) : c \notin mask[u]
        /\ marked[t]
    <2>1. state[t] = "RUNNING" /\ NextFor(c) = None
      BY DEF LeaveCall, LeaveBarrier
    <2>2. c \in Core /\ curThread[c] = t /\ bar[c] = "running" /\ handoff[t] = None
                /\ marked[t] \in BOOLEAN /\ (marked[t] => futexWord[t] = 1 /\ due[t] >= 1)
      BY <2>1, LeaveFacts
    <2>3. \A u \in ToSet(runQueue) : c \notin mask[u]
      BY <2>1, <2>2, NextForFacts DEF Inv
    <2> QED
      BY <2>1, <2>2, <2>3 DEF LeaveCall, LeaveBarrier, Bar!Exit, Bar!Moves, LeavesFor
  <1> USE <1>1 DEF queues, Inv
  <1> HIDE DEF c
  <1>2. /\ sleepQueue' \in Seq(Thread) /\ Distinct(sleepQueue')
        /\ \A y : y \in ToSet(sleepQueue') <=> y \in ToSet(sleepQueue) \/ (marked[t] /\ y = t)
        /\ \A i, j \in DOMAIN sleepQueue' : i < j => due'[sleepQueue'[i]] <= due'[sleepQueue'[j]]
    BY LeaveSleeps
  <1>3. \A u \in Thread \ {t} : HasContext(u) => cid[u] # c
    BY DEF ContextsInv, HasContext
  <1>4. /\ freeList' \in Seq(Core) /\ Distinct(freeList')
        /\ \A y : y \in ToSet(freeList') <=> y \in ToSet(freeList) \/ y = c
    <2>1. freeList \in Seq(Core) /\ Distinct(freeList) /\ c \notin ToSet(freeList)
      BY NoneIsOther DEF Lists, ContextsInv, QueuesInv
    <2> QED
      BY <2>1, Appended
  <1>11. Types'
    BY NoneIsOther DEF Types, ThreadState
  <1>12. Lists'
    BY <1>2, <1>4 DEF Lists
  <1>13. ContextsInv'
    <2>1. \A u \in Thread : state'[u] \in {"RUNNING", "OUT"} => curThread'[cid'[u]] = u
      BY <1>3, <1>4, NoneIsOther DEF Types, ContextsInv, HasContext
    <2>2. \A d \in Core : curThread'[d] # None =>
                state'[curThread'[d]] \in {"RUNNING", "OUT"} /\ cid'[curThread'[d]] = d
      BY <1>3, <1>4, NoneIsOther DEF Types, ContextsInv, HasContext
    <2>3. \A d \in Core : d \in ToSet(freeList') <=> curThread'[d] = None
      BY <1>3, <1>4, NoneIsOther DEF Types, ContextsInv, HasContext
    <2>4. \A d \in Core : bar'[d] # "out" <=>
                curThread'[d] # None /\ state'[curThread'[d]] = "RUNNING"
      BY <1>3, <1>4, NoneIsOther DEF Types, ContextsInv, HasContext
    <2> QED
      BY <2>1, <2>2, <2>3, <2>4 DEF ContextsInv, HasContext
  <1>14. QueuesInv'
    BY <1>2, <1>4 DEF Types, QueuesInv
  <1>15. HandoffInv'
    BY <1>3, NoneIsOther DEF Types, HandoffInv, PlacesInv, HasContext
  <1>16. PlacesInv'
    BY DEF Types, PlacesInv
  <1>17. TurnsInv'
    BY <1>3 DEF Types, TurnsInv, HasContext
  <1>18. CallsInv'
    BY NoneIsOther DEF Types, CallsInv
  <1>19. NoIdleContextWanted'
    <2> SUFFICES ASSUME NEW u \in ToSet(runQueue'), NEW d \in mask[u]
                 PROVE  curThread'[d] # None /\ state'[curThread'[d]] = "RUNNING"
      BY DEF NoIdleContextWanted
    <2>1. d \in Core /\ curThread[d] \in Thread /\ state[curThread[d]] = "RUNNING"
      BY QueuedFacts
    <2>2. d # c /\ curThread[d] # t
      BY <2>1, NoneIsOther DEF ContextsInv
    <2> QED
      BY <2>1, <2>2, NoneIsOther DEF Types
  <1>20. SleepersOnTime'
    BY <1>2, <1>3 DEF Types, SleepersOnTime, ThreadsIn
  <1> QED
    BY <1>11, <1>12, <1>13, <1>14, <1>15, <1>16, <1>17, <1>18, <1>19, <1>20

(* leave(): any other thread keeps its context for the time being. *)
LEMMA LeaveOutStep ==
    ASSUME Inv, NEW t \in Thread, NEW p, LeavesFor(t, p), LeaveCall(t), LeaveBarrier(t), ~marked[t]
    PROVE  Inv'
  <1> DEFINE c == cid[t]
  <1>1. /\ cid' = cid /\ futexWord' = futexWord /\ runQueue' = runQueue
        /\ bar' = [bar EXCEPT ![c] = "out"]
        /\ state' = [state EXCEPT ![t] = "OUT"] /\ curThread' = curThread
        /\ freeList' = freeList /\ outQueue' = Append(outQueue, t)
        /\ sleepQueue' = IF marked[t] THEN SleepQueueWith(t) ELSE sleepQueue
        /\ handoff' = handoff /\ due' = due /\ phase' = phase
        /\ marked' = [marked EXCEPT ![t] = FALSE]
        /\ t \notin ToSet(fakeLeaves) /\ fakeLeaves' = fakeLeaves
        /\ wd' = (IF wd = t /\ p # "ended" THEN None ELSE wd)
        /\ pc' = [pc EXCEPT ![t] = p] /\ pc[t] \in {"app", "marked", "ending", "out", "dead"}
        /\ p \in {"out", "nap", "ended", "dead"}
        /\ p = "nap" => marked[t]
        /\ state[t] = "RUNNING" /\ marked[t] \in BOOLEAN
        /\ (marked[t] => futexWord[t] = 1 /\ due[t] >= 1)
        /\ cid[t] = c /\ c \in Core /\ curThread[c] = t /\ bar[c] = "running" /\ handoff[t] = None
        /\ \A u \in ToSet(runQueue) : c \notin mask[u]
        /\ ~marked[t]
    <2>1. state[t] = "RUNNING" /\ NextFor(c) = None
      BY DEF LeaveCall, LeaveBarrier
    <2>2. c \in Core /\ curThread[c] = t /\ bar[c] = "running" /\ handoff[t] = None
                /\ marked[t] \in BOOLEAN /\ (marked[t] => futexWord[t] = 1 /\ due[t] >= 1)
      BY <2>1, LeaveFacts
    <2>3. \A u \in ToSet(runQueue) : c \notin mask[u]
      BY <2>1, <2>2, NextForFacts DEF Inv
    <2> QED
      BY <2>1, <2>2, <2>3 DEF LeaveCall, LeaveBarrier, Bar!Exit, Bar!Moves, LeavesFor
  <1> USE <1>1 DEF queues, Inv
  <1> HIDE DEF c
  <1>2. /\ sleepQueue' \in Seq(Thread) /\ Distinct(sleepQueue')
        /\ \A y : y \in ToSet(sleepQueue') <=> y \in ToSet(sleepQueue) \/ (marked[t] /\ y = t)
        /\ \A i, j \in DOMAIN sleepQueue' : i < j => due'[sleepQueue'[i]] <= due'[sleepQueue'[j]]
    BY LeaveSleeps
  <1>3. \A u \in Thread \ {t} : HasContext(u) => cid[u] # c
    BY DEF ContextsInv, HasContext
  <1>4. /\ outQueue' \in Seq(Thread) /\ Distinct(outQueue')
        /\ \A y : y \in ToSet(outQueue') <=> y \in ToSet(outQueue) \/ y = t
    <2>1. outQueue \in Seq(Thread) /\ Distinct(outQueue) /\ t \notin ToSet(outQueue)
      BY NoneIsOther DEF Lists, ContextsInv, QueuesInv
    <2> QED
      BY <2>1, Appended
  <1>11. Types'
    BY NoneIsOther DEF Types, ThreadState
  <1>12. Lists'
    BY <1>2, <1>4 DEF Lists
  <1>13. ContextsInv'
    <2>1. \A u \in Thread : state'[u] \in {"RUNNING", "OUT"} => curThread'[cid'[u]] = u
      BY <1>3, <1>4, NoneIsOther DEF Types, ContextsInv, HasContext
    <2>2. \A d \in Core : curThread'[d] # None =>
                state'[curThread'[d]] \in {"RUNNING", "OUT"} /\ cid'[curThread'[d]] = d
      BY <1>3, <1>4, NoneIsOther DEF Types, ContextsInv, HasContext
    <2>3. \A d \in Core : d \in ToSet(freeList') <=> curThread'[d] = None
      BY <1>3, <1>4, NoneIsOther DEF Types, ContextsInv, HasContext
    <2>4. \A d \in Core : bar'[d] # "out" <=>
                curThread'[d] # None /\ state'[curThread'[d]] = "RUNNING"
      BY <1>3, <1>4, NoneIsOther DEF Types, ContextsInv, HasContext
    <2> QED
      BY <2>1, <2>2, <2>3, <2>4 DEF ContextsInv, HasContext
  <1>14. QueuesInv'
    BY <1>2, <1>4 DEF Types, QueuesInv
  <1>15. HandoffInv'
    BY <1>3, NoneIsOther DEF Types, HandoffInv, PlacesInv, HasContext
  <1>16. PlacesInv'
    BY DEF Types, PlacesInv
  <1>17. TurnsInv'
    BY <1>3 DEF Types, TurnsInv, HasContext
  <1>18. CallsInv'
    BY NoneIsOther DEF Types, CallsInv
  <1>19. NoIdleContextWanted'
    <2> SUFFICES ASSUME NEW u \in ToSet(runQueue'), NEW d \in mask[u]
                 PROVE  curThread'[d] # None /\ state'[curThread'[d]] = "RUNNING"
      BY DEF NoIdleContextWanted
    <2>1. d \in Core /\ curThread[d] \in Thread /\ state[curThread[d]] = "RUNNING"
      BY QueuedFacts
    <2>2. d # c /\ curThread[d] # t
      BY <2>1, NoneIsOther DEF ContextsInv
    <2> QED
      BY <2>1, <2>2, NoneIsOther DEF Types
  <1>20. SleepersOnTime'
    BY <1>2, <1>3 DEF Types, SleepersOnTime, ThreadsIn
  <1> QED
    BY <1>11, <1>12, <1>13, <1>14, <1>15, <1>16, <1>17, <1>18, <1>19, <1>20

(* leave(), for every caller. *)
LEMMA LeaveStep ==
    ASSUME Inv, NEW t \in Thread, NEW p, LeavesFor(t, p), LeaveCall(t)
    PROVE  Inv'
  <1>1. CASE LeaveToNext(t)
    BY <1>1, LeaveToNextStep
  <1>2. CASE LeaveBarrier(t) /\ marked[t]
    BY <1>2, LeaveAsleepStep
  <1>3. CASE LeaveBarrier(t) /\ ~marked[t]
    BY <1>3, LeaveOutStep
  <1> QED
    BY <1>1, <1>2, <1>3 DEF LeaveCall

(* A thread leaves for a system call. *)
LEMMA SyscallLeavesStep ==
    ASSUME Inv, NEW t \in Thread, SyscallLeaves(t)
    PROVE  Inv'
  <1>1. CASE pc[t] = "app"
    <2>1. t \notin ToSet(fakeLeaves) /\ wd # t
      BY <1>1, NoneIsOther DEF Inv, CallsInv
    <2>2. LeavesFor(t, "out")
      BY <1>1, <2>1 DEF SyscallLeaves, LeavesFor, Goes
    <2> QED
      BY <2>2, LeaveStep DEF SyscallLeaves
  <1>2. CASE pc[t] = "marked"
    <2>1. t \notin ToSet(fakeLeaves) /\ wd # t /\ marked[t]
      BY <1>2, NoneIsOther DEF Inv, CallsInv, PlacesInv
    <2>2. LeavesFor(t, "nap")
      BY <1>2, <2>1 DEF SyscallLeaves, LeavesFor, Goes
    <2> QED
      BY <2>2, LeaveStep DEF SyscallLeaves
  <1> QED
    BY <1>1, <1>2 DEF SyscallLeaves

(* A thread leaves when it ends. *)
LEMMA FinishLeavesStep ==
    ASSUME Inv, NEW t \in Thread, FinishLeaves(t)
    PROVE  Inv'
  <1>1. t \notin ToSet(fakeLeaves)
    BY DEF FinishLeaves, Inv, CallsInv
  <1>2. LeavesFor(t, "ended")
    BY <1>1 DEF FinishLeaves, LeavesFor, Goes
  <1> QED
    BY <1>2, LeaveStep DEF FinishLeaves

(* The watchdog leaves for a thread in a system call. *)
LEMMA WatchdogLeavesStep ==
    ASSUME Inv, WatchdogLeaves
    PROVE  Inv'
  <1>1. wd \in Thread /\ pc[wd] \in {"out", "dead"} /\ wd \notin ToSet(fakeLeaves)
              /\ ~(pc[wd] = "nap")
    BY DEF WatchdogLeaves, Inv, Types, CallsInv
  <1>2. pc' = [pc EXCEPT ![wd] = pc[wd]]
    BY DEF WatchdogLeaves, Inv, Types
  <1>3. LeavesFor(wd, pc[wd])
    BY <1>1, <1>2 DEF WatchdogLeaves, LeavesFor
  <1> QED
    BY <1>1, <1>3, LeaveStep DEF WatchdogLeaves


-----------------------------------------------------------------------------
(* callback(), the watchdog and the whole system. *)

(* What schedTick() does: a thread that it takes out of the queue becomes   *)
(* the hand-off of one thread that is scheduled, and of one only.           *)
LEMMA TickFacts ==
    ASSUME Inv, Tick, \A u \in Thread : handoff[u] = None
    PROVE  /\ handoff' \in [Thread -> Thread \cup {None}]
           /\ runQueue' \in Seq(Thread) /\ Distinct(runQueue')
           /\ \A y \in ToSet(runQueue') : y \in ToSet(runQueue)
           /\ \A u \in Thread : handoff'[u] # None =>
                 state[u] = "RUNNING" /\ handoff'[u] \in ToSet(runQueue)
                       /\ handoff'[u] \notin ToSet(runQueue')
           /\ \A u, v \in Thread : handoff'[u] = handoff'[v] /\ handoff'[u] # None => u = v
           /\ \A y \in ToSet(runQueue) : y \in ToSet(runQueue') \/ \E u \in Thread : handoff'[u] = y
  <1> DEFINE Gets(m, i, u) == m[i] # None /\ curThread[m[i]] = u
  <1>1. PICK m \in Assignments :
           /\ handoff' = [t \in Thread |->
                   IF \E i \in DOMAIN m : Gets(m, i, t)
                   THEN runQueue[CHOOSE i \in DOMAIN m : Gets(m, i, t)]
                   ELSE handoff[t]]
           /\ runQueue' \in StillQueued(m)
    BY DEF Tick
  <1>2. runQueue \in Seq(Thread) /\ Distinct(runQueue) /\ DOMAIN runQueue = 1 .. Len(runQueue)
              /\ Len(runQueue) \in Nat
    BY DEF Inv, Lists
  <1>3. /\ DOMAIN m = DOMAIN runQueue
        /\ \A i \in DOMAIN runQueue : m[i] # None =>
              m[i] \in mask[runQueue[i]] /\ \A j \in 1 .. i - 1 : m[j] # m[i]
    BY DEF Assignments
  <1>4. /\ runQueue' \in Seq(Thread) /\ Distinct(runQueue')
        /\ \A y : y \in ToSet(runQueue') <=>
              \E i \in DOMAIN runQueue : m[i] = None /\ runQueue[i] = y
    BY <1>1, <1>2, <1>3, StillQueuedFacts
  <1>5. ASSUME NEW i \in DOMAIN runQueue, m[i] # None
        PROVE  /\ curThread[m[i]] \in Thread /\ state[curThread[m[i]]] = "RUNNING"
               /\ cid[curThread[m[i]]] = m[i]
    <2>1. runQueue[i] \in ToSet(runQueue) /\ m[i] \in mask[runQueue[i]]
      BY <1>3, <1>5 DEF ToSet
    <2>2. m[i] \in Core /\ curThread[m[i]] \in Thread /\ state[curThread[m[i]]] = "RUNNING"
      BY <2>1, QueuedFacts
    <2> QED
      BY <2>2, NoneIsOther DEF Inv, ContextsInv
  <1>6. ASSUME NEW i \in DOMAIN runQueue, NEW j \in DOMAIN runQueue, m[i] # None, m[j] # None,
               curThread[m[i]] = curThread[m[j]]
        PROVE  i = j
    <2>1. m[i] = m[j]
      BY <1>5, <1>6
    <2>2. i \in Nat /\ j \in Nat /\ ~(i < j) /\ ~(j < i)
      BY <1>2, <1>3, <1>6, <2>1
    <2> QED
      BY <2>2
  <1>7. ASSUME NEW u \in Thread, handoff'[u] # None
        PROVE  \E i \in DOMAIN runQueue : m[i] # None /\ curThread[m[i]] = u
                     /\ handoff'[u] = runQueue[i]
    <2>1. \E i \in DOMAIN m : Gets(m, i, u)
      BY <1>1, <1>7
    <2> DEFINE k == CHOOSE i \in DOMAIN m : Gets(m, i, u)
    <2>2. k \in DOMAIN m /\ Gets(m, k, u)
      BY <2>1
    <2>3. handoff'[u] = runQueue[k]
      BY <1>1, <2>1
    <2> HIDE DEF k
    <2> QED
      BY <1>3, <2>2, <2>3
  <1>8. ASSUME NEW i \in DOMAIN runQueue, m[i] # None
        PROVE  handoff'[curThread[m[i]]] = runQueue[i]
    <2> DEFINE u == curThread[m[i]]
               k == CHOOSE j \in DOMAIN m : Gets(m, j, u)
    <2>1. u \in Thread /\ Gets(m, i, u) /\ i \in DOMAIN m
      BY <1>3, <1>5, <1>8
    <2>2. k \in DOMAIN m /\ Gets(m, k, u)
      BY <2>1
    <2>3. handoff'[u] = runQueue[k]
      BY <1>1, <2>1
    <2>4. k = i
      <3> HIDE DEF k
      <3> QED
        BY <1>3, <1>6, <1>8, <2>2
    <2> QED
      BY <2>3, <2>4
  <1>9. handoff' \in [Thread -> Thread \cup {None}]
    <2> SUFFICES ASSUME NEW u \in Thread, handoff'[u] # None PROVE handoff'[u] \in Thread
      BY <1>1
    <2> QED
      BY <1>2, <1>7
  <1>10. ASSUME NEW u \in Thread, handoff'[u] # None
         PROVE  state[u] = "RUNNING" /\ handoff'[u] \in ToSet(runQueue)
                      /\ handoff'[u] \notin ToSet(runQueue')
    <2>1. PICK i \in DOMAIN runQueue : m[i] # None /\ curThread[m[i]] = u
                     /\ handoff'[u] = runQueue[i]
      BY <1>7, <1>10
    <2>2. \A j \in DOMAIN runQueue : runQueue[j] = runQueue[i] => j = i
      BY <1>2 DEF Distinct
    <2>3. handoff'[u] \notin ToSet(runQueue')
      BY <1>4, <2>1, <2>2
    <2> QED
      BY <1>5, <2>1, <2>3 DEF ToSet
  <1>11. ASSUME NEW u \in Thread, NEW v \in Thread, handoff'[u] = handoff'[v], handoff'[u] # None
         PROVE  u = v
    <2>1. PICK i \in DOMAIN runQueue : m[i] # None /\ curThread[m[i]] = u
                     /\ handoff'[u] = runQueue[i]
      BY <1>7, <1>11
    <2>2. PICK j \in DOMAIN runQueue : m[j] # None /\ curThread[m[j]] = v
                     /\ handoff'[v] = runQueue[j]
      BY <1>7, <1>11
    <2>3. i = j
      BY <1>2, <1>11, <2>1, <2>2 DEF Distinct
    <2> QED
      BY <2>1, <2>2, <2>3
  <1>12. ASSUME NEW y \in ToSet(runQueue), y \notin ToSet(runQueue')
         PROVE  \E u \in Thread : handoff'[u] = y
    <2>1. PICK i \in DOMAIN runQueue : runQueue[i] = y
      BY DEF ToSet
    <2>2. m[i] # None
      BY <1>4, <1>12, <2>1
    <2> QED
      BY <1>5, <1>8, <2>1, <2>2
  <1>13. \A y \in ToSet(runQueue') : y \in ToSet(runQueue)
    BY <1>4 DEF ToSet
  <1> QED
    BY <1>4, <1>9, <1>10, <1>11, <1>12, <1>13

(* The sleepers that callback() wakes, and what it does about sleepers. *)
Woken(n) == {sleepQueue[i] : i \in 1 .. n}

Wakes(n) ==
    /\ WakesFirst(n)
    /\ state' = [t \in Thread |-> IF t \in Woken(n) THEN "BLOCKED" ELSE state[t]]
    /\ futexWord' = [t \in Thread |-> IF t \in Woken(n) THEN 0 ELSE futexWord[t]]
    /\ sleepQueue' = SubSeq(sleepQueue, n + 1, Len(sleepQueue))
    /\ due' = [t \in Thread |->
          IF Sleeps(t) /\ t \notin Woken(n) /\ due[t] >= 0 THEN due[t] - 1 ELSE 0]

(* Who is woken was asleep, and who goes on sleeping is in time. *)
LEMMA WakeFacts ==
    ASSUME Inv, NEW n \in 0 .. Len(sleepQueue), Wakes(n)
    PROVE  /\ \A u \in Woken(n) : u \in Thread /\ state[u] = "SLEEPING"
           /\ sleepQueue' \in Seq(Thread) /\ Distinct(sleepQueue')
           /\ \A y : y \in ToSet(sleepQueue') <=> y \in ToSet(sleepQueue) /\ y \notin Woken(n)
           /\ due' \in [Thread -> -1 .. MaxSleep]
           /\ \A u \in Thread : state[u] = "SLEEPING" /\ u \notin Woken(n) => due'[u] >= 1
           /\ \A i, j \in DOMAIN sleepQueue' : i < j => due'[sleepQueue'[i]] <= due'[sleepQueue'[j]]
  <1> DEFINE s == sleepQueue
             e == sleepQueue'
             woken == Woken(n)
  <1>1. /\ s \in Seq(Thread) /\ Distinct(s) /\ Len(s) \in Nat /\ DOMAIN s = 1 .. Len(s)
        /\ \A u \in Thread : u \in ToSet(s) <=> state[u] = "SLEEPING"
        /\ \A i, j \in DOMAIN s : i < j => due[s[i]] <= due[s[j]]
    BY DEF Inv, Lists, QueuesInv, SleepersOnTime
  <1>2. /\ e \in Seq(Thread) /\ Distinct(e)
        /\ \A y : y \in ToSet(e) <=> y \in ToSet(s) /\ y \notin woken
        /\ \A i \in DOMAIN e : i + n \in DOMAIN s /\ e[i] = s[i + n]
    <2>1. e = SubSeq(s, n + 1, Len(s)) /\ woken = {s[i] : i \in 1 .. n} /\ n \in 0 .. Len(s)
      BY DEF Wakes, Woken
    <2>2. s \in Seq(Thread) /\ Distinct(s) /\ n \in 0 .. Len(s)
      BY <1>1, <2>1
    <2> HIDE DEF s
    <2>3. LET q == SubSeq(s, n + 1, Len(s))
          IN  /\ q \in Seq(Thread) /\ Distinct(q)
              /\ \A y : y \in ToSet(q) <=> y \in ToSet(s) /\ y \notin {s[i] : i \in 1 .. n}
              /\ \A i \in DOMAIN q : i + n \in DOMAIN s /\ q[i] = s[i + n]
      <3> HIDE <2>1
      <3> QED
        BY <2>2, EndOfList
    <2> HIDE DEF e, woken
    <2> QED
      BY <2>1, <2>3
  <1>3. due \in [Thread -> -1 .. MaxSleep] /\ MaxSleep \in Nat
    BY ParameterAssumption DEF Inv, Types
  <1>4. \A u \in woken : u \in Thread /\ state[u] = "SLEEPING"
    <2> SUFFICES ASSUME NEW i \in 1 .. n PROVE s[i] \in Thread /\ state[s[i]] = "SLEEPING"
      BY DEF Woken
    <2>1. i \in DOMAIN s
      BY <1>1
    <2>2. s[i] \in Thread /\ s[i] \in ToSet(s)
      BY <1>1, <2>1 DEF ToSet
    <2> QED
      BY <1>1, <2>2
  <1>5. due' \in [Thread -> -1 .. MaxSleep]
    BY <1>3 DEF Wakes
  <1>6. ASSUME NEW u \in Thread, state[u] = "SLEEPING", u \notin woken
        PROVE  due[u] > 1 /\ due'[u] = due[u] - 1
    <2>1. PICK k \in DOMAIN s : s[k] = u
      BY <1>1, <1>6 DEF ToSet
    <2>2. n + 1 \in DOMAIN s /\ k \in Nat /\ n + 1 <= k /\ n < Len(s)
      BY <1>1, <1>6, <2>1 DEF Woken
    <2>3. due[s[n + 1]] > 1
      BY <2>2 DEF Wakes, WakesFirst
    <2>4. due[s[n + 1]] <= due[u]
      <3>1. CASE n + 1 = k
        BY <1>3, <2>1, <3>1
      <3>2. CASE n + 1 < k
        BY <1>1, <2>1, <2>2, <3>2
      <3> QED
        BY <2>2, <3>1, <3>2
    <2>5. due[u] \in Int /\ due[s[n + 1]] \in Int
      BY <1>1, <1>3, <2>2
    <2> QED
      BY <1>6, <2>3, <2>4, <2>5 DEF Sleeps, Wakes
  <1>7. \A u \in Thread : state[u] = "SLEEPING" /\ u \notin woken => due'[u] >= 1
    BY <1>3, <1>6
  <1>8. ASSUME NEW i \in DOMAIN e, NEW j \in DOMAIN e, i < j PROVE due'[e[i]] <= due'[e[j]]
    <2>1. i + n \in DOMAIN s /\ j + n \in DOMAIN s /\ i + n < j + n /\ e[i] = s[i + n]
                /\ e[j] = s[j + n]
      BY <1>2, <1>8
    <2>2. due[e[i]] <= due[e[j]]
      BY <1>1, <2>1
    <2>3. /\ e[i] \in Thread /\ state[e[i]] = "SLEEPING" /\ e[i] \notin woken
          /\ e[j] \in Thread /\ state[e[j]] = "SLEEPING" /\ e[j] \notin woken
      <3>1. e[i] \in ToSet(e) /\ e[i] \in Thread /\ e[j] \in ToSet(e) /\ e[j] \in Thread
        BY <1>2 DEF ToSet
      <3> QED
        BY <1>1, <1>2, <3>1
    <2>4. due[e[i]] \in Int /\ due[e[j]] \in Int
      BY <1>3, <2>3
    <2>5. due'[e[i]] = due[e[i]] - 1 /\ due'[e[j]] = due[e[j]] - 1
      BY <1>6, <2>3
    <2> QED
      BY <2>2, <2>4, <2>5
  <1> QED
    BY <1>2, <1>4, <1>5, <1>7, <1>8

(* callback(), called when every scheduled thread waits for its next turn. *)
LEMMA CallbackStep ==
    ASSUME Inv, Callback, \A u \in Thread : handoff[u] = None,
           bar' \in [Core -> {"out", "ready", "running", "done"}],
           \A c \in Core : bar'[c] # "out" <=> bar[c] # "out",
           \A u \in Thread : state[u] = "RUNNING" => pc[u] = "syncing" /\ bar'[cid[u]] = "ready"
    PROVE  Inv'
  <1>0. PICK n \in 0 .. Len(sleepQueue) : Wakes(n)
    BY DEF Callback, Wakes, Woken
  <1> DEFINE woken == Woken(n)
  <1>1. /\ UNCHANGED <<cid, marked, curThread, freeList, outQueue, fakeLeaves, pc, wd>>
        /\ phase' \in 0 .. schedQuantum - 1
        /\ state' = [t \in Thread |-> IF t \in woken THEN "BLOCKED" ELSE state[t]]
        /\ futexWord' = [t \in Thread |-> IF t \in woken THEN 0 ELSE futexWord[t]]
        /\ \A u \in woken : u \in Thread /\ state[u] = "SLEEPING"
        /\ sleepQueue' \in Seq(Thread) /\ Distinct(sleepQueue')
        /\ \A y : y \in ToSet(sleepQueue') <=> y \in ToSet(sleepQueue) /\ y \notin woken
        /\ due' \in [Thread -> -1 .. MaxSleep]
        /\ \A u \in Thread : state[u] = "SLEEPING" /\ u \notin woken => due'[u] >= 1
        /\ \A i, j \in DOMAIN sleepQueue' : i < j => due'[sleepQueue'[i]] <= due'[sleepQueue'[j]]
    <2>1. phase' \in 0 .. schedQuantum - 1
      BY ParameterAssumption DEF Callback, Inv, Types
    <2>4. /\ \A u \in woken : u \in Thread /\ state[u] = "SLEEPING"
          /\ sleepQueue' \in Seq(Thread) /\ Distinct(sleepQueue')
          /\ \A y : y \in ToSet(sleepQueue') <=> y \in ToSet(sleepQueue) /\ y \notin woken
          /\ due' \in [Thread -> -1 .. MaxSleep]
          /\ \A u \in Thread : state[u] = "SLEEPING" /\ u \notin woken => due'[u] >= 1
          /\ \A i, j \in DOMAIN sleepQueue' : i < j => due'[sleepQueue'[i]] <= due'[sleepQueue'[j]]
      BY <1>0, WakeFacts
    <2>5. UNCHANGED <<cid, marked, curThread, freeList, outQueue, fakeLeaves, pc, wd>>
      BY DEF Callback
    <2>6. /\ state' = [t \in Thread |-> IF t \in woken THEN "BLOCKED" ELSE state[t]]
          /\ futexWord' = [t \in Thread |-> IF t \in woken THEN 0 ELSE futexWord[t]]
      BY <1>0 DEF Wakes
    <2> HIDE DEF woken
    <2> QED
      BY <2>1, <2>4, <2>5, <2>6
  <1> HIDE DEF woken
  <1>2. /\ handoff' \in [Thread -> Thread \cup {None}]
        /\ runQueue' \in Seq(Thread) /\ Distinct(runQueue')
        /\ \A y \in ToSet(runQueue') : y \in ToSet(runQueue)
        /\ \A u \in Thread : handoff'[u] # None =>
              state[u] = "RUNNING" /\ handoff'[u] \in ToSet(runQueue)
                    /\ handoff'[u] \notin ToSet(runQueue')
        /\ \A u, v \in Thread : handoff'[u] = handoff'[v] /\ handoff'[u] # None => u = v
        /\ \A y \in ToSet(runQueue) : y \in ToSet(runQueue') \/ \E u \in Thread : handoff'[u] = y
    <2>1. CASE Tick
      BY <2>1, TickFacts
    <2>2. CASE UNCHANGED <<handoff, runQueue>>
      BY <2>2 DEF Inv, Types, Lists
    <2> QED
      BY <2>1, <2>2 DEF Callback
  <1> USE <1>1 DEF queues, Inv
  <1>3. \A u \in Thread : state'[u] = IF u \in woken THEN "BLOCKED" ELSE state[u]
    OBVIOUS
  <1>11. Types'
    BY <1>2 DEF Types, ThreadState
  <1>12. Lists'
    BY <1>2 DEF Lists
  <1>13. ContextsInv'
    <2>1. \A u \in Thread : state'[u] \in {"RUNNING", "OUT"} => curThread'[cid'[u]] = u
      BY NoneIsOther DEF Types, ContextsInv, HasContext
    <2>2. \A d \in Core : curThread'[d] # None =>
                state'[curThread'[d]] \in {"RUNNING", "OUT"} /\ cid'[curThread'[d]] = d
      BY NoneIsOther DEF Types, ContextsInv, HasContext
    <2>3. \A d \in Core : d \in ToSet(freeList') <=> curThread'[d] = None
      BY NoneIsOther DEF Types, ContextsInv, HasContext
    <2>4. \A d \in Core : bar'[d] # "out" <=>
                curThread'[d] # None /\ state'[curThread'[d]] = "RUNNING"
      BY NoneIsOther DEF Types, ContextsInv, HasContext
    <2> QED
      BY <2>1, <2>2, <2>3, <2>4 DEF ContextsInv, HasContext
  <1>14. QueuesInv'
    BY <1>2 DEF Types, QueuesInv
  <1>15. HandoffInv'
    <2>1. ASSUME NEW u \in Thread, handoff'[u] # None
          PROVE  /\ pc'[u] \in {"syncing", "handoff"} /\ bar'[cid'[u]] \in {"ready", "running"}
                 /\ state'[handoff'[u]] = "QUEUED" /\ handoff'[u] \notin ToSet(runQueue')
      <3>1. state[u] = "RUNNING" /\ handoff'[u] \in ToSet(runQueue)
                  /\ handoff'[u] \notin ToSet(runQueue')
        BY <1>2, <2>1
      <3>2. handoff'[u] \in Thread /\ state[handoff'[u]] = "QUEUED"
        BY <3>1 DEF QueuesInv
      <3>3. handoff'[u] \notin woken
        BY <3>2
      <3> QED
        BY <3>1, <3>2, <3>3
    <2>2. ASSUME NEW u \in Thread, state'[u] = "QUEUED", u \notin ToSet(runQueue')
          PROVE  \E v \in Thread : handoff'[v] = u
      <3>1. state[u] = "QUEUED"
        BY <2>2
      <3>2. u \in ToSet(runQueue)
        BY <3>1, NoneIsOther DEF HandoffInv
      <3> QED
        BY <1>2, <2>2, <3>2
    <2> QED
      BY <1>2, <2>1, <2>2 DEF HandoffInv
  <1>16. PlacesInv'
    BY NoneIsOther DEF Types, PlacesInv
  <1>17. TurnsInv'
    BY DEF Types, TurnsInv
  <1>18. CallsInv'
    BY DEF Types, CallsInv
  <1>19. NoIdleContextWanted'
    <2> SUFFICES ASSUME NEW u \in ToSet(runQueue'), NEW d \in mask[u]
                 PROVE  curThread[d] # None /\ state'[curThread[d]] = "RUNNING"
      BY DEF NoIdleContextWanted
    <2>1. d \in Core /\ curThread[d] \in Thread /\ state[curThread[d]] = "RUNNING"
      BY <1>2, QueuedFacts
    <2> QED
      BY <2>1, NoneIsOther
  <1>20. SleepersOnTime'
    BY <1>3 DEF SleepersOnTime, ThreadsIn
  <1> QED
    BY <1>11, <1>12, <1>13, <1>14, <1>15, <1>16, <1>17, <1>18, <1>19, <1>20

(* A phase ends. *)
LEMMA EndPhaseStep ==
    ASSUME Inv, EndPhase
    PROVE  Inv'
  <1>1. /\ \A c \in Core : bar[c] \notin {"ready", "running"}
        /\ bar' = [c \in Core |-> IF bar[c] = "done" THEN "ready" ELSE bar[c]]
    BY DEF EndPhase, Bar!EndPhase, Bar!In
  <1>2. bar \in [Core -> {"out", "ready", "running", "done"}] /\ cid \in [Thread -> Core]
    BY DEF Inv, Types
  <1>3. ASSUME NEW u \in Thread, state[u] = "RUNNING" PROVE pc[u] = "syncing"
              /\ bar'[cid[u]] = "ready"
    <2>1. bar[cid[u]] # "out"
      BY <1>2, <1>3, NoneIsOther DEF Inv, ContextsInv, HasContext
    <2>2. pc[u] = "syncing"
      BY <1>1, <1>2, <1>3 DEF Inv, TurnsInv
    <2> QED
      BY <1>1, <1>2, <2>1, <2>2
  <1>4. \A u \in Thread : handoff[u] = None
    BY <1>1, <1>2 DEF Inv, HandoffInv
  <1> QED
    BY <1>1, <1>2, <1>3, <1>4, CallbackStep DEF EndPhase

(* The watchdog drives time on only when nobody is scheduled. *)
LEMMA NobodyScheduled ==
    ASSUME Inv, ScheduledThreads = Len(outQueue), NEW t \in Thread
    PROVE  state[t] # "RUNNING"
  <1> DEFINE S == {c \in Core : curThread[c] # None}
             n == Len(outQueue)
             f == [i \in 1 .. n |-> cid[outQueue[i]]]
             O == {f[i] : i \in 1 .. n}
  <1>1. outQueue \in Seq(Thread) /\ Distinct(outQueue) /\ n \in Nat /\ DOMAIN outQueue = 1 .. n
    BY DEF Inv, Lists
  <1>2. \A i \in 1 .. n : outQueue[i] \in Thread /\ state[outQueue[i]] = "OUT"
    BY <1>1 DEF Inv, QueuesInv, ToSet
  <1>3. \A i \in 1 .. n : f[i] \in Core /\ curThread[f[i]] = outQueue[i]
    BY <1>2 DEF Inv, Types, ContextsInv, HasContext
  <1>4. f \in Bijection(1 .. n, O)
    <2>1. f \in [1 .. n -> O] /\ \A y \in O : \E i \in 1 .. n : f[i] = y
      OBVIOUS
    <2>2. \A i, j \in 1 .. n : f[i] = f[j] => i = j
      BY <1>1, <1>3 DEF Distinct
    <2> HIDE DEF f, O
    <2> QED
      BY <2>1, <2>2 DEF Bijection, Injection, Surjection, IsInjective
  <1>5. Cardinality(O) = n
    <2> HIDE DEF f, O
    <2>1. ExistsBijection(1 .. n, O)
      BY <1>4 DEF ExistsBijection
    <2> QED
      BY <1>1, <2>1, FS_CountingElements
  <1>6. IsFiniteSet(S) /\ Cardinality(S) = n
    BY ParameterAssumption, FS_Subset DEF ScheduledThreads
  <1>7. O \subseteq S
    BY <1>2, <1>3, NoneIsOther
  <1>8. O = S
    <2> HIDE DEF O, S
    <2> QED
      BY <1>5, <1>6, <1>7, FS_Subset
  <1>9. ASSUME state[t] = "RUNNING" PROVE FALSE
    <2>1. cid[t] \in Core /\ curThread[cid[t]] = t
      BY <1>9 DEF Inv, Types, ContextsInv, HasContext
    <2>2. cid[t] \in O
      BY <1>8, <2>1, NoneIsOther
    <2>3. PICK i \in 1 .. n : f[i] = cid[t]
      BY <2>2
    <2> QED
      BY <1>2, <1>3, <1>9, <2>1, <2>3
  <1> QED
    BY <1>9

(* The watchdog drives time on. *)
LEMMA DriveTimeStep ==
    ASSUME Inv, DriveTime
    PROVE  Inv'
  <1>1. Callback /\ bar' = bar /\ \A u \in Thread : state[u] # "RUNNING"
    BY NobodyScheduled DEF DriveTime
  <1>2. \A u \in Thread : handoff[u] = None
    BY <1>1 DEF Inv, HandoffInv, PlacesInv
  <1> QED
    BY <1>1, <1>2, CallbackStep DEF Inv, Types

(* The watchdog gives up on a system call. *)
LEMMA GiveUpOnCallStep ==
    ASSUME Inv, GiveUpOnCall
    PROVE  Inv'
  <1>1. /\ UNCHANGED <<threads, curThread, freeList, runQueue, outQueue, sleepQueue, phase, bar,
              pc>>
        /\ wd = None /\ wd' = Head(fakeLeaves) /\ fakeLeaves' = Tail(fakeLeaves)
        /\ fakeLeaves # <<>>
    BY DEF GiveUpOnCall
  <1> USE <1>1 DEF queues, Inv
  <1> USE DEF threads
  <1>2. /\ wd' \in ToSet(fakeLeaves) /\ wd' \in Thread
        /\ fakeLeaves' \in Seq(Thread) /\ Distinct(fakeLeaves')
        /\ \A y : y \in ToSet(fakeLeaves') <=> y \in ToSet(fakeLeaves) /\ y # wd'
    BY HeadAndTail DEF Lists
  <1>11. Types'
    <2>1. UNCHANGED <<state, cid, handoff, futexWord, marked, due, curThread, phase, bar, pc>>
      OBVIOUS
    <2>2. wd' \in Thread \cup {None}
      BY <1>2
    <2> HIDE <1>1
    <2> QED
      BY <2>1, <2>2 DEF Types
  <1>12. Lists'
    BY <1>2 DEF Lists
  <1>13. ContextsInv'
    BY DEF Types, ContextsInv, HasContext
  <1>14. QueuesInv'
    BY DEF Types, QueuesInv, Lists, ToSet
  <1>15. HandoffInv'
    BY DEF Types, HandoffInv
  <1>16. PlacesInv'
    BY DEF Types, PlacesInv
  <1>17. TurnsInv'
    BY DEF Types, TurnsInv
  <1>18. CallsInv'
    BY <1>2, NoneIsOther DEF Types, CallsInv
  <1>19. NoIdleContextWanted'
    BY DEF Types, NoIdleContextWanted
  <1>20. SleepersOnTime'
    BY <1>12, <1>14, StaysOnTime DEF Types
  <1> QED
    BY <1>11, <1>12, <1>13, <1>14, <1>15, <1>16, <1>17, <1>18, <1>19, <1>20

(* The initial state. *)
LEMMA InvInit == Init => Inv
  <1> SUFFICES ASSUME Init PROVE Inv
    OBVIOUS
  <1>1. freeList \in Seq(Core) /\ Distinct(freeList) /\ \A y : y \in ToSet(freeList) <=> y \in Core
    BY ParameterAssumption, ListingIsComplete DEF Init
  <1>2. /\ runQueue = <<>> /\ outQueue = <<>> /\ sleepQueue = <<>> /\ fakeLeaves = <<>>
        /\ \A y : y \notin ToSet(<<>>)
        /\ \A S : <<>> \in Seq(S)
        /\ Distinct(<<>>)
    BY DEF Init, ToSet, Distinct
  <1>3. /\ state = [t \in Thread |-> "NONE"] /\ pc = [t \in Thread |-> "none"]
        /\ handoff = [t \in Thread |-> None] /\ marked = [t \in Thread |-> FALSE]
        /\ curThread = [c \in Core |-> None] /\ bar = [c \in Core |-> "out"] /\ wd = None
    BY DEF Init, Bar!Init
  <1>4. Types
    BY ParameterAssumption DEF Init, Bar!Init, Types, ThreadState
  <1>5. Lists
    BY <1>1, <1>2 DEF Lists
  <1>6. ContextsInv
    BY <1>1, <1>3, NoneIsOther DEF ContextsInv, HasContext
  <1>7. QueuesInv
    BY <1>2, <1>3 DEF QueuesInv
  <1>8. HandoffInv
    BY <1>3 DEF HandoffInv
  <1>9. PlacesInv
    BY <1>3 DEF PlacesInv
  <1>10. TurnsInv
    BY <1>3 DEF TurnsInv
  <1>11. CallsInv
    BY <1>2, <1>3 DEF CallsInv
  <1>12. NoIdleContextWanted
    BY <1>2 DEF NoIdleContextWanted
  <1>13. SleepersOnTime
    BY <1>2, <1>3 DEF SleepersOnTime, ThreadsIn
  <1> QED
    BY <1>4, <1>5, <1>6, <1>7, <1>8, <1>9, <1>10, <1>11, <1>12, <1>13 DEF Inv

(* Nothing happens. *)
LEMMA StutterStep ==
    ASSUME Inv, UNCHANGED vars
    PROVE  Inv'
  <1> USE DEF Inv, vars, threads, queues
  <1>1. Types' /\ Lists'
    BY DEF Types, Lists
  <1>2. ContextsInv' /\ QueuesInv'
    BY DEF ContextsInv, QueuesInv, HasContext
  <1>3. HandoffInv' /\ PlacesInv'
    BY DEF HandoffInv, PlacesInv
  <1>4. TurnsInv' /\ CallsInv'
    BY DEF TurnsInv, CallsInv
  <1>5. NoIdleContextWanted' /\ SleepersOnTime'
    BY DEF NoIdleContextWanted, SleepersOnTime, ThreadsIn
  <1> QED
    BY <1>1, <1>2, <1>3, <1>4, <1>5


(* Every step of the scheduler. *)
LEMMA InvNext ==
    ASSUME Orderly, Inv, [Next]_vars
    PROVE  Inv'
  <1>1. ASSUME NEW t \in Thread, Start(t) PROVE Inv'
    BY <1>1, StartStep
  <1>2. ASSUME NEW t \in Thread, Join(t) PROVE Inv'
    BY <1>2, JoinFromFakeLeaveStep, JoinAgainStep, JoinOnFreeStep, JoinOnStolenStep,
       JoinQueueStep DEF Join
  <1>3. ASSUME NEW t \in Thread, Works(t) PROVE Inv'
    BY <1>2, <1>3, JoinReturnsStep, SyncReturnsStep, HandoffStep, HandoffAndMoveStep DEF Works
  <1>4. ASSUME NEW t \in Thread,
              SyncCall(t) \/ MarkForSleep(t) \/ SyscallLeaves(t) \/ SyscallFakesLeave(t)
        PROVE  Inv'
    BY <1>4, SyncCallStep, MarkForSleepStep, SyscallLeavesStep, SyscallFakesLeaveStep
  <1>5. ASSUME NEW t \in Thread, NapEnds(t) \/ NotifySleepEnd(t) \/ Kill(t)
        PROVE  Inv'
    BY <1>5, NapEndsStep, NotifySleepEndStep, KillStep
  <1>6. ASSUME NEW t \in Thread, Finish(t) \/ FinishLeaves(t) \/ Finished(t)
        PROVE  Inv'
    BY <1>6, FinishStep, FinishLeavesStep, FinishedStep
  <1>7. ASSUME NEW c \in Core, BarrierStarts(c) PROVE Inv'
    BY <1>7, BarrierStartsStep
  <1>8. CASE EndPhase \/ DriveTime
    BY <1>8, EndPhaseStep, DriveTimeStep
  <1>9. CASE GiveUpOnCall \/ WatchdogLeaves
    BY <1>9, GiveUpOnCallStep, WatchdogLeavesStep
  <1>10. CASE UNCHANGED vars
    BY <1>10, StutterStep
  <1> QED
    BY <1>1, <1>3, <1>4, <1>5, <1>6, <1>7, <1>8, <1>9, <1>10 DEF Next

(***************************************************************************)
(* The inductive invariant holds of every state of the scheduler.          *)
(***************************************************************************)
THEOREM InvAlways == ASSUME Orderly PROVE Spec => []Inv
  BY InvInit, InvNext, PTL DEF Spec

-----------------------------------------------------------------------------
(* What it implies. *)

(***************************************************************************)
(* Contexts and threads name each other, whatever joins, leaves, steals,   *)
(* hands over and ends.                                                    *)
(***************************************************************************)
THEOREM ContextsAlwaysExact == ASSUME Orderly PROVE Spec => []ContextsExact
  <1>1. ASSUME Inv PROVE ContextsExact
    <2> USE <1>1 DEF Inv
    <2>1. \A S : \A q \in Seq(S) : ToSet(q) \subseteq S
      BY DEF ToSet
    <2>2. ToSet(freeList) \subseteq Core /\ Distinct(freeList)
      BY <2>1 DEF Lists
    <2>3. ASSUME NEW q \in {runQueue, outQueue, sleepQueue, fakeLeaves}
          PROVE  ToSet(q) \subseteq Thread /\ Distinct(q)
      BY <2>1 DEF Lists
    <2>4. TypeOK
      BY <2>2, <2>3 DEF TypeOK, Types
    <2>5. \A t \in Thread : HasContext(t) <=> \E c \in Core : curThread[c] = t
      BY NoneIsOther DEF Types, ContextsInv
    <2>6. ToSet(freeList) = {c \in Core : curThread[c] = None}
      BY <2>2 DEF ContextsInv
    <2> QED
      BY <2>4, <2>5, <2>6 DEF ContextsExact, ContextsInv
  <1> QED
    BY <1>1, InvAlways, PTL

(***************************************************************************)
(* Nobody is lost: a QUEUED thread is in the queue or is the hand-off of   *)
(* one scheduled thread, never both.                                       *)
(***************************************************************************)
THEOREM NobodyEverLost == ASSUME Orderly PROVE Spec => []NobodyLost
  <1>1. ASSUME Inv PROVE NobodyLost
    <2> USE <1>1 DEF Inv
    <2>1. \A t \in Thread : handoff[t] # None =>
                state[t] = "RUNNING" /\ state[handoff[t]] = "QUEUED"
      BY DEF HandoffInv, PlacesInv
    <2>2. ASSUME NEW t \in ThreadsIn("QUEUED")
          PROVE  LET heirs == {v \in ThreadsIn("RUNNING") : handoff[v] = t}
                 IN  Cardinality(heirs) = IF Contains(runQueue, t) THEN 0 ELSE 1
      <3> DEFINE heirs == {v \in ThreadsIn("RUNNING") : handoff[v] = t}
      <3>1. t \in Thread /\ state[t] = "QUEUED" /\ t # None
        BY NoneIsOther DEF ThreadsIn
      <3>2. Contains(runQueue, t) <=> t \in ToSet(runQueue)
        BY ContainsIsIn DEF Lists
      <3>3. CASE t \in ToSet(runQueue)
        <4>1. heirs = {}
          BY <3>1, <3>3 DEF HandoffInv, ThreadsIn
        <4> QED
          BY <3>2, <3>3, <4>1, FS_EmptySet
      <3>4. CASE t \notin ToSet(runQueue)
        <4>1. PICK u \in Thread : handoff[u] = t
          BY <3>1, <3>4 DEF HandoffInv
        <4>2. heirs = {u}
          BY <2>1, <3>1, <4>1 DEF HandoffInv, ThreadsIn
        <4> QED
          BY <3>2, <3>4, <4>2, FS_Singleton
      <3> QED
        BY <3>3, <3>4
    <2>3. \A q : q \in Seq(Thread) => ToSet(q) \subseteq Thread
      BY DEF ToSet
    <2>4. ToSet(runQueue) \subseteq ThreadsIn("QUEUED")
      BY DEF QueuesInv, ThreadsIn
    <2>5. ToSet(outQueue) = ThreadsIn("OUT") /\ ToSet(sleepQueue) = ThreadsIn("SLEEPING")
      BY <2>3 DEF Lists, QueuesInv, ThreadsIn
    <2> QED
      BY <2>1, <2>2, <2>4, <2>5 DEF NobodyLost
  <1> QED
    BY <1>1, InvAlways, PTL

(***************************************************************************)
(* No thread waits for a context that is free or whose thread is out.      *)
(***************************************************************************)
THEOREM NeverIdleWanted == ASSUME Orderly PROVE Spec => []NoIdleContextWanted
  <1>1. Inv => NoIdleContextWanted
    BY DEF Inv
  <1> QED
    BY <1>1, InvAlways, PTL

(***************************************************************************)
(* Only a scheduled thread whose context has its turn executes.            *)
(***************************************************************************)
THEOREM OnlyScheduledEverRun == ASSUME Orderly PROVE Spec => []OnlyScheduledRun
  <1>1. ASSUME Inv PROVE OnlyScheduledRun
    <2> SUFFICES ASSUME NEW t \in Thread, pc[t] \in {"app", "marked", "handoff"}
                 PROVE  state[t] = "RUNNING" /\ curThread[cid[t]] = t /\ bar[cid[t]] = "running"
      BY DEF OnlyScheduledRun
    <2>1. state[t] = "RUNNING"
      BY <1>1 DEF Inv, PlacesInv
    <2> QED
      BY <1>1, <2>1 DEF Inv, ContextsInv, HasContext, TurnsInv
  <1> QED
    BY <1>1, InvAlways, PTL

(***************************************************************************)
(* Sleepers are in the order of their deadlines and miss none.             *)
(***************************************************************************)
THEOREM SleepersAlwaysOnTime == ASSUME Orderly PROVE Spec => []SleepersOnTime
  <1>1. Inv => SleepersOnTime
    BY DEF Inv
  <1> QED
    BY <1>1, InvAlways, PTL

(***************************************************************************)
(* A thread that sleeps is in the queue of sleepers, or is yet to leave.   *)
(***************************************************************************)
THEOREM SleepersAlwaysHaveAlarm == ASSUME Orderly PROVE Spec => []SleepersHaveAlarm
  <1>1. Inv => SleepersHaveAlarm
    BY DEF Inv, PlacesInv, SleepersHaveAlarm
  <1> QED
    BY <1>1, InvAlways, PTL

(***************************************************************************)
(* wakeup() finds the word of the thread it wakes at 1 (scheduler.h:616),  *)
(* in orderly programs: a thread is queued or asleep only while it waits.  *)
(* What join() and sync() assert of the state they find is not claimed:    *)
(* disorderly programs break it.                                           *)
(***************************************************************************)
THEOREM WakeupsNeverRace == ASSUME Orderly PROVE Spec => []NoWakeupRace
  <1>1. Inv => NoWakeupRace
    BY DEF Inv, PlacesInv, NoWakeupRace
  <1> QED
    BY <1>1, InvAlways, PTL
=============================================================================
