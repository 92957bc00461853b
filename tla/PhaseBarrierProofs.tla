------------------------- MODULE PhaseBarrierProofs -------------------------
(***************************************************************************)
(* What the phase barrier keeps for every number of threads, of which any  *)
(* number may run together, provided no tid is used again before the       *)
(* thread killed on it is dropped.                                         *)
(***************************************************************************)
EXTENDS PhaseBarrier, FiniteSetTheorems, TLAPS

-----------------------------------------------------------------------------
(* The inductive invariant. *)

LockHeld ==
    /\ holder = Nobody <=> at = "free"
    /\ waking # Nobody => InCheckRunList

(* A thread that runs, or left while it ran, knows its place. *)
KnowsPlace(t) ==
    state[t] = "RUNNING" \/ (state[t] = "LEFT" /\ pc[t] # "killed")

Located ==
    \A t \in Thread : KnowsPlace(t) => lastIdx[t] \in Listed /\ runList[lastIdx[t]] = t

(* The passes over the list at the end of a phase. *)
Passes ==
    /\ at = "clean" =>
          /\ newSize <= runListSize /\ idx <= newSize
          /\ curThreadIdx = 0
          /\ leftThreads # runListSize
          /\ \A i \in 0 .. idx - 1 : state[runList[i]] # "LEFT"
    /\ at = "shuffle" => curThreadIdx = 0 /\ idx < runListSize

(* What a thread's place in join() or sync() says of its state and word. *)
Words ==
    /\ waking # Nobody => state[waking] = "RUNNING" /\ futexWord[waking] = 1
    /\ \A t \in Thread :
          /\ state[t] = "WAITING" => futexWord[t] = 1
          /\ state[t] = "RUNNING" /\ futexWord[t] = 1 => waking = t
          /\ pc[t] \in {"joining", "syncing", "testing", "waiting", "asleep"} =>
                state[t] \in {"WAITING", "RUNNING"}
          /\ pc[t] = "asleep" => futexWord[t] = 1

(* The waiting threads whose turn is still to come. *)
Comes(t) == state[t] = "WAITING" /\ \E i \in Listed : i >= curThreadIdx /\ runList[i] = t

Turns ==
    /\ runningThreads <= parallelThreads
    /\ waking # Nobody => runningThreads < parallelThreads
    /\ \A t \in ThreadsIn("RUNNING") : lastIdx[t] < curThreadIdx
    /\ at \in {"end", "unlock", "free"} =>
          runningThreads = parallelThreads \/ curThreadIdx = runListSize
    /\ at \in {"unlock", "free"} => ThreadsIn("WAITING") = {} \/ runningThreads > 0
    /\ at = "rewake" =>
          \/ ThreadsIn("WAITING") = {} \/ runningThreads > 0 \/ waking # Nobody
          \/ \E t \in Thread : Comes(t)
    /\ at \in {"wake", "end"} /\ pc[holder] = "joining" =>
          state[holder] = "RUNNING" \/ Comes(holder)

Inv ==
    /\ TypeOK /\ LockHeld /\ RunListExact /\ Located /\ Passes
    /\ CountersExact /\ Words /\ WakeupsExact /\ Turns

-----------------------------------------------------------------------------
(* Counting threads. *)

(* There are finitely many threads, and Nobody is none of them. *)
LEMMA ThreadFacts == IsFiniteSet(Thread) /\ Nobody \notin Thread
  BY ThreadAssumption

(* The threads in a state can be counted. *)
LEMMA ThreadsInFinite ==
    ASSUME NEW s
    PROVE  IsFiniteSet(ThreadsIn(s)) /\ Cardinality(ThreadsIn(s)) \in Nat
  <1>1. ThreadsIn(s) \in SUBSET Thread
    BY DEF ThreadsIn
  <1> QED
    BY <1>1, ThreadFacts, FS_Subset, FS_CardinalityType

(* A set with a member has a positive size. *)
LEMMA SomeCounted ==
    ASSUME NEW s, NEW t \in ThreadsIn(s)
    PROVE  Cardinality(ThreadsIn(s)) > 0
  BY ThreadsInFinite, FS_EmptySet

(* A thread goes from one state to another. *)
Moves(t, a, b) == state[t] = a /\ state' = [state EXCEPT ![t] = b]

ThreadsWith(st, s) == {u \in Thread : st[u] = s}

(* How the size of one set of threads follows. *)
LEMMA CountOne ==
    ASSUME state \in [Thread -> {"OFFLINE", "WAITING", "RUNNING", "LEFT"}],
           NEW t \in Thread, NEW a, NEW b, a # b, Moves(t, a, b),
           NEW s
    PROVE  Cardinality(ThreadsWith(state', s)) =
             Cardinality(ThreadsWith(state, s)) +
               (IF s = b THEN 1 ELSE IF s = a THEN -1 ELSE 0)
  <1> DEFINE S == ThreadsWith(state, s)
             T == ThreadsWith(state', s)
  <1>0. IsFiniteSet(S) /\ Cardinality(S) \in Nat
    BY ThreadsInFinite DEF ThreadsIn, ThreadsWith
  <1>1. CASE s = b
    <2>1. T = S \cup {t} /\ t \notin S
      BY <1>1 DEF Moves, ThreadsWith
    <2> QED
      BY <1>0, <1>1, <2>1, FS_AddElement
  <1>2. CASE s # b /\ s = a
    <2>1. T = S \ {t} /\ t \in S
      BY <1>2 DEF Moves, ThreadsWith
    <2> QED
      BY <1>0, <1>2, <2>1, FS_RemoveElement
  <1>3. CASE s # a /\ s # b
    <2>1. T = S
      BY <1>3 DEF Moves, ThreadsWith
    <2> QED
      BY <1>0, <1>3, <2>1
  <1> QED
    BY <1>1, <1>2, <1>3

(* How the sizes the counters stand for follow. *)
LEMMA CountAfter ==
    ASSUME state \in [Thread -> {"OFFLINE", "WAITING", "RUNNING", "LEFT"}],
           NEW t \in Thread, NEW a, NEW b, a # b, Moves(t, a, b)
    PROVE  /\ Cardinality(ThreadsIn("RUNNING")') = Cardinality(ThreadsIn("RUNNING")) +
                (IF "RUNNING" = b THEN 1 ELSE IF "RUNNING" = a THEN -1 ELSE 0)
           /\ Cardinality(ThreadsIn("LEFT")') = Cardinality(ThreadsIn("LEFT")) +
                (IF "LEFT" = b THEN 1 ELSE IF "LEFT" = a THEN -1 ELSE 0)
  <1>1. /\ ThreadsIn("RUNNING") = ThreadsWith(state, "RUNNING")
        /\ ThreadsIn("RUNNING")' = ThreadsWith(state', "RUNNING")
        /\ ThreadsIn("LEFT") = ThreadsWith(state, "LEFT")
        /\ ThreadsIn("LEFT")' = ThreadsWith(state', "LEFT")
    BY DEF ThreadsIn, ThreadsWith
  <1> QED
    BY <1>1, CountOne

InBarrier == {t \in Thread : state[t] # "OFFLINE"}

(* The list is as long as there are threads in the barrier. *)
LEMMA ListLength ==
    ASSUME TypeOK, RunListExact, Passes
    PROVE  /\ IsFiniteSet(InBarrier)
           /\ Cardinality(InBarrier) = (IF at = "clean" THEN newSize ELSE runListSize)
  <1> DEFINE n == IF at = "clean" THEN newSize ELSE runListSize
             f == [i \in Listed |-> runList[i]]
  <1>1. n \in 0 .. MAX_THREADS /\ Listed = 0 .. n - 1 /\ MAX_THREADS \in Nat
    BY ThreadAssumption DEF TypeOK, Passes, Listed
  <1>2. IsFiniteSet(Listed) /\ Cardinality(Listed) = n
    <2> HIDE DEF n
    <2>1. n \in Int /\ n - 1 \in Int /\ 0 \in Int
      BY <1>1
    <2>2. /\ IsFiniteSet(0 .. n - 1)
          /\ Cardinality(0 .. n - 1) = IF 0 > n - 1 THEN 0 ELSE n - 1 - 0 + 1
      BY <2>1, FS_Interval
    <2> QED
      BY <1>1, <2>2
  <1>3. \A i \in Listed : runList[i] \in InBarrier
    BY <1>1 DEF TypeOK, RunListExact, InBarrier, Slot
  <1>4. f \in Bijection(Listed, InBarrier)
    BY <1>3 DEF RunListExact, InBarrier, Bijection, Injection, Surjection, IsInjective
  <1> HIDE DEF f
  <1>5. ExistsBijection(Listed, InBarrier)
    BY <1>4 DEF ExistsBijection
  <1> QED
    BY <1>2, <1>5, FS_Bijection

-----------------------------------------------------------------------------
(* Init establishes the invariant. *)
LEMMA InitInv == Init => Inv
  <1> SUFFICES ASSUME Init PROVE Inv
    OBVIOUS
  <1>1. TypeOK
    BY ThreadAssumption, ParameterAssumption DEF Init, TypeOK, Slot
  <1>2. ThreadsIn("RUNNING") = {} /\ ThreadsIn("LEFT") = {} /\ ThreadsIn("WAITING") = {}
    BY DEF Init, ThreadsIn
  <1>3. CountersExact
    BY <1>2, FS_EmptySet DEF Init, CountersExact
  <1>4. RunListExact /\ Located /\ Passes
    BY DEF Init, RunListExact, Located, KnowsPlace, Passes, Listed
  <1>5. LockHeld /\ Words /\ WakeupsExact
    BY ThreadFacts DEF Init, LockHeld, Words, WakeupsExact
  <1>6. Turns
    BY <1>2, ParameterAssumption DEF Init, Turns
  <1> QED
    BY <1>1, <1>3, <1>4, <1>5, <1>6 DEF Inv

(* A thread that joins for the first time finds room in the list. *)
LEMMA RoomToEnlist ==
    ASSUME Inv, NEW t \in Thread, state[t] = "OFFLINE", at = "free"
    PROVE  runListSize < MAX_THREADS
  <1>1. IsFiniteSet(InBarrier) /\ Cardinality(InBarrier) = runListSize
    BY ListLength DEF Inv
  <1>2. InBarrier \in SUBSET (Thread \ {t})
    BY DEF InBarrier
  <1>3. IsFiniteSet(Thread \ {t}) /\ Cardinality(Thread \ {t}) = Cardinality(Thread) - 1
    BY ThreadFacts, FS_RemoveElement
  <1>4. Cardinality(InBarrier) <= Cardinality(Thread) - 1
    BY <1>2, <1>3, FS_Subset
  <1> QED
    BY <1>1, <1>4, ThreadAssumption, FS_CardinalityType DEF Inv, TypeOK

-----------------------------------------------------------------------------
(* join() *)

(* What both kinds of join do to the rest of the state. *)
LEMMA JoinWords ==
    ASSUME Inv, NEW t \in Thread, Join(t), state[t] \in {"OFFLINE", "LEFT"}
    PROVE  LockHeld' /\ Words' /\ WakeupsExact'
  <1>1. waking = Nobody /\ waking' = Nobody /\ at = "free" /\ at' = "wake" /\ holder' = t
    BY DEF Inv, LockHeld, InCheckRunList, Join, Locks
  <1>2. LockHeld'
    BY <1>1, ThreadFacts DEF LockHeld, InCheckRunList
  <1>3. /\ state' = [state EXCEPT ![t] = "WAITING"]
        /\ futexWord' = [futexWord EXCEPT ![t] = 1]
        /\ pc' = [pc EXCEPT ![t] = "joining"]
    BY DEF Join, Locks
  <1>4. Words'
    BY <1>1, <1>3, ThreadFacts DEF Inv, TypeOK, Words
  <1>5. WakeupsExact'
    BY <1>1, <1>3 DEF Inv, TypeOK, WakeupsExact
  <1> QED
    BY <1>2, <1>4, <1>5

(* join() of a thread that is offline: it takes a new slot at the end. *)
LEMMA EnlistStep ==
    ASSUME Inv, NEW t \in Thread, Join(t), Enlist(t)
    PROVE  Inv'
  <1>1. /\ waking = Nobody /\ waking' = Nobody /\ at = "free" /\ at' = "wake"
        /\ holder' = t /\ state[t] = "OFFLINE"
        /\ state' = [state EXCEPT ![t] = "WAITING"]
        /\ futexWord' = [futexWord EXCEPT ![t] = 1]
        /\ pc' = [pc EXCEPT ![t] = "joining"]
        /\ runList' = [runList EXCEPT ![runListSize] = t]
        /\ runListSize' = runListSize + 1
        /\ UNCHANGED <<curThreadIdx, lastIdx, counters, phaseCount, loop>>
    BY DEF Inv, LockHeld, InCheckRunList, Join, Enlist, Locks, counters
  <1> USE <1>1
  <1>2. runListSize < MAX_THREADS
    BY RoomToEnlist
  <1>3. /\ Listed = 0 .. runListSize - 1 /\ Listed' = 0 .. runListSize
        /\ runListSize \in Slot /\ runListSize \in Nat
    BY <1>2, ThreadAssumption DEF Listed, Slot, Inv, TypeOK
  <1>4. TypeOK'
    <2>1. runList' \in [Slot -> Thread \cup {Nobody}]
      BY <1>3 DEF Inv, TypeOK
    <2>2. runListSize + 1 \in 0 .. MAX_THREADS /\ curThreadIdx \in 0 .. runListSize + 1
      BY <1>2, <1>3, ThreadAssumption DEF Inv, TypeOK
    <2> QED
      BY <2>1, <2>2 DEF Inv, TypeOK, counters, loop
  <1>5. RunListExact'
    <2>1. \A k \in Listed' : runList'[k] = IF k = runListSize THEN t ELSE runList[k]
      BY <1>2, <1>3, ThreadAssumption DEF Inv, TypeOK, Slot
    <2>2. \A k \in Listed' : k = runListSize \/ k \in Listed
      BY <1>3
    <2>3. \A k \in Listed : runList[k] # t /\ k # runListSize /\ k \in Listed'
      BY <1>3 DEF Inv, RunListExact
    <2>4. runListSize \in Listed'
      BY <1>3
    <2>5. \A k, m \in Listed' : runList'[k] = runList'[m] => k = m
      BY <2>1, <2>2, <2>3 DEF Inv, RunListExact
    <2>6. \A k \in Listed' : runList'[k] # Nobody
      BY <2>1, <2>2, ThreadFacts DEF Inv, RunListExact
    <2>7. \A u \in Thread : state'[u] # "OFFLINE" <=> \E k \in Listed' : runList'[k] = u
      <3> SUFFICES ASSUME NEW u \in Thread
                   PROVE  state'[u] # "OFFLINE" <=> \E k \in Listed' : runList'[k] = u
        OBVIOUS
      <3>1. CASE u = t
        BY <2>1, <2>4, <3>1 DEF Inv, TypeOK
      <3>2. CASE u # t
        <4>1. state'[u] = state[u]
          BY <3>2 DEF Inv, TypeOK
        <4>2. state[u] # "OFFLINE" <=> \E k \in Listed : runList[k] = u
          BY DEF Inv, RunListExact
        <4> QED
          BY <2>1, <2>2, <2>3, <3>2, <4>1, <4>2
      <3> QED
        BY <3>1, <3>2
    <2> QED
      BY <2>5, <2>6, <2>7 DEF RunListExact
  <1>6. Located'
    BY <1>3 DEF Inv, TypeOK, Located, KnowsPlace, Slot
  <1>7. Passes'
    BY DEF Passes
  <1>8. CountersExact'
    <2>1. Moves(t, "OFFLINE", "WAITING")
      BY DEF Moves
    <2>2. /\ Cardinality(ThreadsIn("RUNNING")') = Cardinality(ThreadsIn("RUNNING"))
          /\ Cardinality(ThreadsIn("LEFT")') = Cardinality(ThreadsIn("LEFT"))
      BY <2>1, CountAfter, ThreadsInFinite DEF Inv, TypeOK
    <2> QED
      BY <2>2 DEF Inv, CountersExact, counters, loop
  <1>9. LockHeld' /\ Words' /\ WakeupsExact'
    BY JoinWords
  <1>10. Comes(t)'
    BY <1>3 DEF Inv, TypeOK, Comes, Slot
  <1>11. Turns'
    BY <1>10 DEF Inv, TypeOK, Turns, ThreadsIn, counters
  <1> QED
    BY <1>4, <1>5, <1>6, <1>7, <1>8, <1>9, <1>11 DEF Inv

(* join() of a thread that left in this phase: it trades places in runList. *)
LEMMA ReenlistStep ==
    ASSUME Inv, EarlyReuse = FALSE, NEW t \in Thread, Join(t), Reenlist(t)
    PROVE  Inv'
  <1>1. /\ waking = Nobody /\ waking' = Nobody /\ at = "free" /\ at' = "wake"
        /\ holder' = t /\ state[t] = "LEFT" /\ pc[t] # "killed"
        /\ state' = [state EXCEPT ![t] = "WAITING"]
        /\ futexWord' = [futexWord EXCEPT ![t] = 1]
        /\ pc' = [pc EXCEPT ![t] = "joining"]
        /\ leftThreads' = leftThreads - 1
        /\ UNCHANGED <<runListSize, runningThreads, phaseCount, idx, newSize>>
    BY DEF Inv, LockHeld, InCheckRunList, Join, Reenlist, Locks, loop
  <1> DEFINE i == lastIdx[t]
             c == curThreadIdx - 1
             other == runList[c]
  <1>2. /\ Listed = 0 .. runListSize - 1 /\ Listed' = Listed
        /\ Listed \subseteq Slot /\ Slot \subseteq Nat /\ MAX_THREADS \in Nat
        /\ runListSize \in 0 .. MAX_THREADS /\ curThreadIdx \in 0 .. runListSize
    BY <1>1, ThreadAssumption DEF Listed, Slot, Inv, TypeOK
  <1>3. i \in Listed /\ runList[i] = t /\ i # Unknown
    BY <1>1, <1>2 DEF Inv, Located, KnowsPlace, Unknown
  <1>4. LastIdxRead(t) = {i}
    BY <1>3 DEF LastIdxRead
  <1>5. \/ /\ i < curThreadIdx
           /\ curThreadIdx' = c
           /\ runList' = [runList EXCEPT ![i] = other, ![c] = t]
           /\ lastIdx' = [lastIdx EXCEPT ![other] = i, ![t] = c]
        \/ /\ i >= curThreadIdx
           /\ UNCHANGED <<runList, curThreadIdx, lastIdx>>
    BY <1>2, <1>3, <1>4 DEF Reenlist, Reschedules
  <1>6. i < curThreadIdx => c \in Listed /\ other \in Thread
    BY <1>2, <1>3 DEF Inv, TypeOK, RunListExact
  <1>7. TypeOK'
    <2>1. leftThreads - 1 \in Nat
      <3>1. t \in ThreadsIn("LEFT")
        BY <1>1 DEF ThreadsIn
      <3> QED
        BY <1>1, <3>1, SomeCounted, ThreadsInFinite DEF Inv, CountersExact
    <2>2. runList' \in [Slot -> Thread \cup {Nobody}] /\ lastIdx' \in [Thread -> Slot \cup {Unknown}]
      BY <1>2, <1>3, <1>5, <1>6 DEF Inv, TypeOK
    <2>3. curThreadIdx' \in 0 .. runListSize
      BY <1>2, <1>3, <1>5
    <2> QED
      BY <1>1, <2>1, <2>2, <2>3 DEF Inv, TypeOK
  <1>8. RunListExact'
    <2>1. CASE i >= curThreadIdx
      BY <1>1, <1>2, <1>3, <1>5, <2>1 DEF Inv, TypeOK, RunListExact
    <2>2. CASE i < curThreadIdx
      <3>1. \A k \in Listed : runList'[k] = IF k = c THEN t ELSE IF k = i THEN other ELSE runList[k]
        BY <1>2, <1>3, <1>5, <1>6, <2>2 DEF Inv, TypeOK
      <3> QED
        BY <1>1, <1>2, <1>3, <1>6, <2>2, <3>1, ThreadFacts DEF Inv, TypeOK, RunListExact
    <2> QED
      BY <1>2, <1>3, <2>1, <2>2
  <1>9. /\ Located'
        /\ \A u \in ThreadsIn("RUNNING")' : lastIdx'[u] < curThreadIdx'
    <2>1. CASE i >= curThreadIdx
      BY <1>1, <1>2, <1>3, <1>5, <2>1 DEF Inv, TypeOK, Located, KnowsPlace, Turns, ThreadsIn
    <2>2. CASE i < curThreadIdx
      <3>1. \A k \in Listed : runList'[k] = IF k = c THEN t ELSE IF k = i THEN other ELSE runList[k]
        BY <1>2, <1>3, <1>5, <1>6, <2>2 DEF Inv, TypeOK
      <3>2. \A u \in Thread : lastIdx'[u] = IF u = t THEN c ELSE IF u = other THEN i ELSE lastIdx[u]
        BY <1>5, <1>6, <2>2, <1>2, <1>3 DEF Inv, TypeOK
      <3>3. curThreadIdx' = c
        BY <1>2, <1>3, <1>5, <2>2
      <3> SUFFICES ASSUME NEW u \in Thread
                   PROVE  /\ KnowsPlace(u)' => lastIdx'[u] \in Listed /\ runList'[lastIdx'[u]] = u
                          /\ state'[u] = "RUNNING" => lastIdx'[u] < curThreadIdx'
        BY <1>2 DEF Located, ThreadsIn
      <3>4. CASE u = t
        BY <1>1, <1>6, <2>2, <3>1, <3>2, <3>4 DEF KnowsPlace, Inv, TypeOK
      <3>5. CASE u = other /\ u # t
        <4>1. i # c
          BY <3>5, <1>3
        <4> QED
          BY <1>1, <1>2, <1>3, <1>6, <2>2, <3>1, <3>2, <3>3, <3>5, <4>1
      <3>6. CASE u # other /\ u # t
        <4>1. KnowsPlace(u)' <=> KnowsPlace(u)
          BY <1>1, <3>6 DEF KnowsPlace, Inv, TypeOK
        <4>2. KnowsPlace(u) => /\ lastIdx[u] \in Listed /\ runList[lastIdx[u]] = u
                               /\ lastIdx[u] # c /\ lastIdx[u] # i
          BY <1>3, <3>6 DEF Inv, Located
        <4>3. state'[u] = "RUNNING" => KnowsPlace(u) /\ lastIdx[u] < curThreadIdx
          BY <1>1, <3>6 DEF KnowsPlace, Inv, TypeOK, Turns, ThreadsIn
        <4> QED
          BY <1>2, <3>1, <3>2, <3>3, <3>6, <4>1, <4>2, <4>3
      <3> QED
        BY <3>4, <3>5, <3>6
    <2> QED
      BY <1>2, <1>3, <2>1, <2>2
  <1>10. Passes'
    BY <1>1 DEF Passes
  <1>11. CountersExact'
    <2>1. Moves(t, "LEFT", "WAITING")
      BY <1>1 DEF Moves
    <2>2. /\ Cardinality(ThreadsIn("RUNNING")') = Cardinality(ThreadsIn("RUNNING"))
          /\ Cardinality(ThreadsIn("LEFT")') = Cardinality(ThreadsIn("LEFT")) - 1
      BY <2>1, CountAfter, ThreadsInFinite DEF Inv, TypeOK
    <2> QED
      BY <1>1, <2>2, ThreadsInFinite DEF Inv, TypeOK, CountersExact
  <1>12. LockHeld' /\ Words' /\ WakeupsExact'
    BY <1>1, JoinWords
  <1>13. Comes(t)'
    <2>1. state'[t] = "WAITING"
      BY <1>1 DEF Inv, TypeOK
    <2>2. CASE i >= curThreadIdx
      BY <1>2, <1>3, <1>5, <2>1, <2>2 DEF Comes
    <2>3. CASE i < curThreadIdx
      BY <1>2, <1>3, <1>5, <1>6, <2>1, <2>3 DEF Comes, Inv, TypeOK
    <2> QED
      BY <1>2, <1>3, <2>2, <2>3
  <1>14. Turns'
    BY <1>1, <1>9, <1>13 DEF Inv, TypeOK, Turns
  <1> QED
    BY <1>7, <1>8, <1>9, <1>10, <1>11, <1>12, <1>14 DEF Inv

-----------------------------------------------------------------------------
(* leave() and sync() *)

(* leave() of a running thread, which then looks for others to wake. *)
LEMMA LeaveRunningStep ==
    ASSUME Inv, NEW t \in Thread, LeaveRunning(t)
    PROVE  Inv'
  <1>1. /\ waking = Nobody /\ waking' = Nobody /\ at = "free" /\ at' = "wake"
        /\ holder' = t /\ state[t] = "RUNNING"
        /\ state' = [state EXCEPT ![t] = "LEFT"]
        /\ pc' = [pc EXCEPT ![t] = "leaving"]
        /\ runningThreads' = runningThreads - 1
        /\ leftThreads' = leftThreads + 1
        /\ UNCHANGED <<futexWord, lastIdx, runList, runListSize, curThreadIdx,
                       phaseCount, idx, newSize>>
    BY DEF Inv, LockHeld, InCheckRunList, LeaveRunning, Locks, loop, list
  <1> USE <1>1
  <1>2. Listed' = Listed
    BY DEF Listed
  <1>3. TypeOK'
    <2>1. t \in ThreadsIn("RUNNING")
      BY DEF ThreadsIn
    <2>2. runningThreads - 1 \in Nat
      BY <2>1, SomeCounted, ThreadsInFinite DEF Inv, TypeOK, CountersExact
    <2> QED
      BY <2>2 DEF Inv, TypeOK
  <1>4. RunListExact'
    BY <1>2 DEF Inv, TypeOK, RunListExact
  <1>5. Located'
    BY <1>2 DEF Inv, TypeOK, Located, KnowsPlace
  <1>6. CountersExact'
    <2>1. Moves(t, "RUNNING", "LEFT")
      BY DEF Moves
    <2>2. /\ Cardinality(ThreadsIn("RUNNING")') = Cardinality(ThreadsIn("RUNNING")) - 1
          /\ Cardinality(ThreadsIn("LEFT")') = Cardinality(ThreadsIn("LEFT")) + 1
      BY <2>1, CountAfter, ThreadsInFinite DEF Inv, TypeOK
    <2> QED
      BY <2>2, ThreadsInFinite DEF Inv, TypeOK, CountersExact
  <1>7. LockHeld' /\ Words' /\ WakeupsExact' /\ Passes'
    BY ThreadFacts DEF Inv, TypeOK, LockHeld, InCheckRunList, Words, WakeupsExact, Passes
  <1>8. Turns'
    BY ParameterAssumption DEF Inv, TypeOK, Turns, ThreadsIn
  <1> QED
    BY <1>3, <1>4, <1>5, <1>6, <1>7, <1>8 DEF Inv

(* leave() of a waiting thread, which wakes nobody. *)
LEMMA LeaveWaitingStep ==
    ASSUME Inv, NEW t \in Thread, LeaveWaiting(t)
    PROVE  Inv'
  <1>1. /\ waking = Nobody /\ waking' = Nobody /\ at = "free" /\ at' = "unlock"
        /\ holder' = t /\ state[t] = "WAITING"
        /\ state' = [state EXCEPT ![t] = "LEFT"]
        /\ pc' = [pc EXCEPT ![t] = "killed"]
        /\ leftThreads' = leftThreads + 1
        /\ UNCHANGED <<futexWord, lastIdx, runList, runListSize, curThreadIdx,
                       runningThreads, phaseCount, idx, newSize>>
    BY DEF Inv, LockHeld, InCheckRunList, LeaveWaiting, Locks, loop, list
  <1> USE <1>1
  <1>2. Listed' = Listed
    BY DEF Listed
  <1>3. TypeOK'
    BY DEF Inv, TypeOK
  <1>4. RunListExact'
    BY <1>2 DEF Inv, TypeOK, RunListExact
  <1>5. Located'
    BY <1>2 DEF Inv, TypeOK, Located, KnowsPlace
  <1>6. CountersExact'
    <2>1. Moves(t, "WAITING", "LEFT")
      BY DEF Moves
    <2>2. /\ Cardinality(ThreadsIn("RUNNING")') = Cardinality(ThreadsIn("RUNNING"))
          /\ Cardinality(ThreadsIn("LEFT")') = Cardinality(ThreadsIn("LEFT")) + 1
      BY <2>1, CountAfter, ThreadsInFinite DEF Inv, TypeOK
    <2> QED
      BY <2>2, ThreadsInFinite DEF Inv, TypeOK, CountersExact
  <1>7. LockHeld' /\ Words' /\ WakeupsExact' /\ Passes'
    BY ThreadFacts DEF Inv, TypeOK, LockHeld, InCheckRunList, Words, WakeupsExact, Passes
  <1>8. Turns'
    <2>1. ThreadsIn("WAITING")' \subseteq ThreadsIn("WAITING")
      BY DEF Inv, TypeOK, ThreadsIn
    <2>2. ThreadsIn("RUNNING")' = ThreadsIn("RUNNING")
      BY DEF Inv, TypeOK, ThreadsIn
    <2> QED
      BY <2>1, <2>2 DEF Inv, TypeOK, Turns
  <1> QED
    BY <1>3, <1>4, <1>5, <1>6, <1>7, <1>8 DEF Inv

(* sync() of a running thread. *)
LEMMA SyncStep ==
    ASSUME Inv, NEW t \in Thread, Sync(t)
    PROVE  Inv'
  <1>1. /\ waking = Nobody /\ waking' = Nobody /\ at = "free" /\ at' = "wake"
        /\ holder' = t /\ state[t] = "RUNNING"
        /\ state' = [state EXCEPT ![t] = "WAITING"]
        /\ futexWord' = [futexWord EXCEPT ![t] = 1]
        /\ pc' = [pc EXCEPT ![t] = "syncing"]
        /\ runningThreads' = runningThreads - 1
        /\ UNCHANGED <<lastIdx, runList, runListSize, curThreadIdx, leftThreads,
                       phaseCount, idx, newSize>>
    BY DEF Inv, LockHeld, InCheckRunList, WakeupsExact, Sync, Locks, loop, list
  <1> USE <1>1
  <1>2. Listed' = Listed
    BY DEF Listed
  <1>3. TypeOK'
    <2>1. t \in ThreadsIn("RUNNING")
      BY DEF ThreadsIn
    <2>2. runningThreads - 1 \in Nat
      BY <2>1, SomeCounted, ThreadsInFinite DEF Inv, TypeOK, CountersExact
    <2> QED
      BY <2>2 DEF Inv, TypeOK
  <1>4. RunListExact'
    BY <1>2 DEF Inv, TypeOK, RunListExact
  <1>5. Located'
    BY <1>2 DEF Inv, TypeOK, Located, KnowsPlace
  <1>6. CountersExact'
    <2>1. Moves(t, "RUNNING", "WAITING")
      BY DEF Moves
    <2>2. /\ Cardinality(ThreadsIn("RUNNING")') = Cardinality(ThreadsIn("RUNNING")) - 1
          /\ Cardinality(ThreadsIn("LEFT")') = Cardinality(ThreadsIn("LEFT"))
      BY <2>1, CountAfter, ThreadsInFinite DEF Inv, TypeOK
    <2> QED
      BY <2>2, ThreadsInFinite DEF Inv, TypeOK, CountersExact
  <1>7. LockHeld' /\ Words' /\ WakeupsExact' /\ Passes'
    BY ThreadFacts DEF Inv, TypeOK, LockHeld, InCheckRunList, Words, WakeupsExact, Passes
  <1>8. Turns'
    BY ParameterAssumption DEF Inv, TypeOK, Turns, ThreadsIn
  <1> QED
    BY <1>3, <1>4, <1>5, <1>6, <1>7, <1>8 DEF Inv

-----------------------------------------------------------------------------
(* checkRunList() *)

(* One slot of runList is considered for waking. *)
LEMMA ConsiderStep ==
    ASSUME Inv, Consider
    PROVE  Inv'
  <1> DEFINE c == curThreadIdx
             w == runList[c]
  <1>1. /\ at \in {"wake", "rewake"} /\ waking = Nobody
        /\ runningThreads < parallelThreads /\ c < runListSize
        /\ curThreadIdx' = c + 1
        /\ UNCHANGED <<futexWord, runList, runListSize, runningThreads, leftThreads,
                       phaseCount, pc, holder, at, idx, newSize>>
    BY DEF Consider, InCheckRunList, RoomForMore, counters, lock, loop
  <1> USE <1>1
  <1>2. Listed = 0 .. runListSize - 1 /\ Listed' = Listed /\ Listed \subseteq Slot
    BY ThreadAssumption DEF Listed, Slot, Inv, TypeOK
  <1>3. c \in Listed /\ c + 1 \in 0 .. runListSize /\ w \in Thread
    BY <1>2, ThreadAssumption DEF Inv, TypeOK, RunListExact
  <1>4. Passes'
    BY DEF Passes
  <1>5. \A u : (\E i \in Listed : i >= c /\ runList[i] = u) /\ u # w =>
             \E i \in Listed : i >= c + 1 /\ runList[i] = u
    BY <1>2 DEF Inv, TypeOK
  <1>6. CASE state[w] = "WAITING"
    <2>1. /\ state' = [state EXCEPT ![w] = "RUNNING"]
          /\ lastIdx' = [lastIdx EXCEPT ![w] = c]
          /\ waking' = w
      BY <1>6 DEF Consider
    <2>2. TypeOK'
      BY <1>2, <1>3, <2>1 DEF Inv, TypeOK
    <2>3. RunListExact'
      BY <1>2, <1>3, <1>6, <2>1 DEF Inv, TypeOK, RunListExact
    <2>4. Located'
      BY <1>2, <1>3, <2>1 DEF Inv, TypeOK, Located, KnowsPlace
    <2>5. CountersExact'
      <3>1. Moves(w, "WAITING", "RUNNING")
        BY <1>6, <2>1 DEF Moves
      <3>2. /\ Cardinality(ThreadsIn("RUNNING")') = Cardinality(ThreadsIn("RUNNING")) + 1
            /\ Cardinality(ThreadsIn("LEFT")') = Cardinality(ThreadsIn("LEFT"))
        BY <1>3, <3>1, CountAfter, ThreadsInFinite DEF Inv, TypeOK
      <3> QED
        BY <1>3, <2>1, <3>2, ThreadsInFinite, ThreadFacts DEF Inv, TypeOK, CountersExact
    <2>6. LockHeld' /\ Words' /\ WakeupsExact'
      BY <1>3, <1>6, <2>1, ThreadFacts
         DEF Inv, TypeOK, LockHeld, InCheckRunList, Words, WakeupsExact
    <2>7. Turns'
      <3>1. \A u \in ThreadsIn("RUNNING")' : lastIdx'[u] < curThreadIdx'
        BY <1>2, <1>3, <2>1 DEF Inv, TypeOK, Turns, ThreadsIn, Located, KnowsPlace
      <3>2. at = "wake" /\ pc[holder] = "joining" =>
               state'[holder] = "RUNNING" \/ Comes(holder)'
        <4> SUFFICES ASSUME at = "wake", pc[holder] = "joining", holder # w
                     PROVE  state'[holder] = "RUNNING" \/ Comes(holder)'
          BY <1>3, <2>1 DEF Inv, TypeOK
        <4>1. holder \in Thread
          BY ThreadFacts DEF Inv, TypeOK, LockHeld
        <4>2. state'[holder] = state[holder]
          BY <2>1 DEF Inv, TypeOK
        <4>3. state[holder] = "RUNNING" \/ Comes(holder)
          BY DEF Inv, Turns
        <4> QED
          BY <1>2, <1>5, <4>2, <4>3 DEF Comes
      <3> QED
        BY <1>3, <2>1, <3>1, <3>2, ThreadFacts, ParameterAssumption DEF Inv, TypeOK, Turns
    <2> QED
      BY <1>4, <2>2, <2>3, <2>4, <2>5, <2>6, <2>7 DEF Inv
  <1>7. CASE state[w] # "WAITING"
    <2>1. UNCHANGED <<state, lastIdx, waking>>
      BY <1>7 DEF Consider
    <2>2. TypeOK'
      BY <1>2, <1>3, <2>1 DEF Inv, TypeOK
    <2>3. RunListExact' /\ Located' /\ CountersExact'
      BY <1>2, <2>1 DEF Inv, RunListExact, Located, KnowsPlace, CountersExact, ThreadsIn
    <2>4. LockHeld' /\ Words' /\ WakeupsExact'
      BY <2>1 DEF Inv, LockHeld, InCheckRunList, Words, WakeupsExact
    <2>5. \A u : Comes(u) => Comes(u)'
      BY <1>2, <1>5, <1>7, <2>1 DEF Comes
    <2>6. \A u \in ThreadsIn("RUNNING")' : lastIdx'[u] < curThreadIdx'
      BY <1>2, <1>3, <2>1 DEF Inv, TypeOK, Turns, ThreadsIn, Located, KnowsPlace, Slot
    <2>7. Turns'
      <3>1. \A s : ThreadsIn(s)' = ThreadsIn(s)
        BY <2>1 DEF ThreadsIn
      <3>2. at = "rewake" => ThreadsIn("WAITING")' = {} \/ runningThreads > 0
                               \/ \E u \in Thread : Comes(u)'
        BY <2>1, <2>5 DEF Inv, Turns, ThreadsIn
      <3> QED
        BY <2>1, <2>5, <2>6, <3>2 DEF Inv, TypeOK, Turns
    <2> QED
      BY <1>4, <2>2, <2>3, <2>4, <2>7 DEF Inv
  <1> QED
    BY <1>6, <1>7

(* The futex of a chosen thread is written and woken. *)
LEMMA WakeStep ==
    ASSUME Inv, Wake
    PROVE  Inv'
  <1>1. /\ waking # Nobody /\ waking' = Nobody /\ at \in {"wake", "rewake"}
        /\ futexWord' = [futexWord EXCEPT ![waking] = 0]
        /\ pc' = [pc EXCEPT ![waking] = IF @ = "asleep" THEN "woken" ELSE @]
        /\ runningThreads' = runningThreads + 1
        /\ UNCHANGED <<state, lastIdx, runList, runListSize, curThreadIdx, leftThreads,
                       phaseCount, holder, at, idx, newSize>>
    BY DEF Inv, LockHeld, InCheckRunList, Wake, list, lock, loop
  <1> USE <1>1
  <1>2. waking \in Thread /\ state[waking] = "RUNNING"
    BY DEF Inv, TypeOK, Words
  <1>3. Listed' = Listed /\ ThreadsIn("RUNNING")' = ThreadsIn("RUNNING")
        /\ ThreadsIn("LEFT")' = ThreadsIn("LEFT")
    BY DEF Listed, ThreadsIn
  <1>4. TypeOK'
    BY DEF Inv, TypeOK
  <1>5. RunListExact' /\ Located' /\ Passes'
    BY <1>2, <1>3 DEF Inv, TypeOK, RunListExact, Located, KnowsPlace, Passes
  <1>6. CountersExact'
    BY <1>3, ThreadsInFinite DEF Inv, TypeOK, CountersExact
  <1>7. LockHeld' /\ Words' /\ WakeupsExact'
    BY <1>2, ThreadFacts DEF Inv, TypeOK, LockHeld, Words, WakeupsExact
  <1>8. Turns'
    <2>1. \A u : Comes(u)' <=> Comes(u)
      BY <1>3 DEF Comes
    <2>2. pc'[holder] = "joining" => pc[holder] = "joining"
      BY <1>2 DEF Inv, TypeOK
    <2> QED
      BY <1>3, <2>1, <2>2, ParameterAssumption DEF Inv, TypeOK, Turns
  <1> QED
    BY <1>4, <1>5, <1>6, <1>7, <1>8 DEF Inv

(* A step that changes nothing but where the holder of the lock stands, and *)
(* keeps it out of the cleanup pass.                                        *)
LEMMA HolderMoves ==
    ASSUME Inv, at # "clean", at \notin {"free"}, at' \in {"end", "rewake", "unlock"},
           waking = Nobody,
           UNCHANGED <<state, futexWord, lastIdx, list, counters, phaseCount, pc,
                       holder, waking, loop>>
    PROVE  /\ TypeOK' /\ LockHeld' /\ RunListExact' /\ Located' /\ Passes'
           /\ CountersExact' /\ Words' /\ WakeupsExact'
           /\ \A u : Comes(u)' <=> Comes(u)
           /\ ThreadsIn("RUNNING")' = ThreadsIn("RUNNING")
           /\ ThreadsIn("WAITING")' = ThreadsIn("WAITING")
  <1>1. Listed' = Listed
    BY DEF Listed, list
  <1>2. /\ ThreadsIn("RUNNING")' = ThreadsIn("RUNNING")
        /\ ThreadsIn("WAITING")' = ThreadsIn("WAITING")
        /\ ThreadsIn("LEFT")' = ThreadsIn("LEFT")
    BY DEF ThreadsIn
  <1>3. TypeOK'
    BY DEF Inv, TypeOK, list, counters, loop
  <1>4. RunListExact' /\ Located' /\ Passes'
    BY <1>1 DEF Inv, RunListExact, Located, KnowsPlace, Passes, list
  <1>5. LockHeld' /\ Words' /\ WakeupsExact'
    BY DEF Inv, LockHeld, Words, WakeupsExact
  <1>6. CountersExact'
    BY <1>2 DEF Inv, CountersExact, counters
  <1>7. \A u : Comes(u)' <=> Comes(u)
    BY <1>1 DEF Comes, list
  <1> QED
    BY <1>2, <1>3, <1>4, <1>5, <1>6, <1>7

(* The search ends: no room, or no slot left. *)
LEMMA RunListCheckedStep ==
    ASSUME Inv, RunListChecked
    PROVE  Inv'
  <1>1. /\ at \in {"wake", "rewake"} /\ waking = Nobody /\ ~RoomForMore
        /\ at' = IF at = "wake" THEN "end" ELSE "unlock"
        /\ UNCHANGED <<state, futexWord, lastIdx, list, counters, phaseCount, pc,
                       holder, waking, loop>>
    BY DEF RunListChecked, InCheckRunList
  <1>2. /\ TypeOK' /\ LockHeld' /\ RunListExact' /\ Located' /\ Passes'
        /\ CountersExact' /\ Words' /\ WakeupsExact'
        /\ \A u : Comes(u)' <=> Comes(u)
        /\ ThreadsIn("RUNNING")' = ThreadsIn("RUNNING")
        /\ ThreadsIn("WAITING")' = ThreadsIn("WAITING")
    BY <1>1, HolderMoves
  <1>3. runningThreads = parallelThreads \/ curThreadIdx = runListSize
    BY <1>1, ParameterAssumption, ThreadAssumption DEF Inv, TypeOK, Turns, RoomForMore
  <1>4. (\E t \in Thread : Comes(t)) => runningThreads > 0
    BY <1>1, <1>3, ParameterAssumption, ThreadAssumption DEF Inv, TypeOK, Comes, Listed
  <1>5. Turns'
    BY <1>1, <1>2, <1>3, <1>4 DEF Inv, Turns, list, counters
  <1> QED
    BY <1>2, <1>5 DEF Inv

-----------------------------------------------------------------------------
(* checkEndPhase() *)

(* If every thread of the list has left, nobody waits. *)
LEMMA AllLeft ==
    ASSUME Inv, at # "clean", leftThreads = runListSize
    PROVE  ThreadsIn("WAITING") = {} /\ ThreadsIn("RUNNING") = {}
  <1>1. IsFiniteSet(InBarrier) /\ Cardinality(InBarrier) = runListSize
    BY ListLength DEF Inv
  <1>2. Cardinality(ThreadsIn("LEFT")) = runListSize
    BY ThreadsInFinite DEF Inv, TypeOK, CountersExact
  <1>3. ThreadsIn("LEFT") \in SUBSET InBarrier
    BY DEF ThreadsIn, InBarrier
  <1>4. ThreadsIn("LEFT") = InBarrier
    BY <1>1, <1>2, <1>3, FS_Subset
  <1> QED
    BY <1>4 DEF ThreadsIn, InBarrier

(* The phase is not over. *)
LEMMA GoOnStep ==
    ASSUME Inv, GoOn
    PROVE  Inv'
  <1>1. /\ at = "end" /\ waking = Nobody /\ ~PhaseOver /\ at' = "rewake"
        /\ UNCHANGED <<state, futexWord, lastIdx, list, counters, phaseCount, pc,
                       holder, waking, loop>>
    BY DEF Inv, LockHeld, InCheckRunList, GoOn
  <1>2. /\ TypeOK' /\ LockHeld' /\ RunListExact' /\ Located' /\ Passes'
        /\ CountersExact' /\ Words' /\ WakeupsExact'
        /\ ThreadsIn("RUNNING")' = ThreadsIn("RUNNING")
        /\ ThreadsIn("WAITING")' = ThreadsIn("WAITING")
    BY <1>1, HolderMoves
  <1>3. runningThreads > 0 \/ ThreadsIn("WAITING") = {}
    <2> SUFFICES ASSUME runningThreads = 0 PROVE ThreadsIn("WAITING") = {}
      BY DEF Inv, TypeOK
    <2>1. curThreadIdx = runListSize
      BY <1>1, ParameterAssumption DEF Inv, Turns
    <2> QED
      BY <1>1, <2>1, AllLeft DEF PhaseOver
  <1>4. Turns'
    BY <1>1, <1>2, <1>3 DEF Inv, Turns, list, counters
  <1> QED
    BY <1>2, <1>4 DEF Inv

(* In the passes over the list nobody runs. *)
LEMMA NobodyRuns ==
    ASSUME Inv, at \in {"clean", "shuffle"}
    PROVE  ThreadsIn("RUNNING") = {}
  BY ThreadAssumption
     DEF Inv, TypeOK, Turns, Located, KnowsPlace, Passes, Listed, ThreadsIn

(* The phase ends. *)
LEMMA EndPhaseStep ==
    ASSUME Inv, EndPhase
    PROVE  Inv'
  <1>1. /\ at = "end" /\ waking = Nobody /\ waking' = Nobody
        /\ runningThreads = 0 /\ leftThreads # runListSize
        /\ curThreadIdx' = 0
        /\ phaseCount' = (phaseCount + 1) % CleanupPeriod
        /\ \/ at' = "clean" /\ idx' = 0 /\ newSize' = runListSize
           \/ at' = "shuffle" /\ idx' = runListSize - 1 /\ newSize' = newSize
        /\ UNCHANGED <<state, futexWord, lastIdx, runList, runListSize,
                       runningThreads, leftThreads, pc, holder>>
    BY DEF Inv, LockHeld, InCheckRunList, EndPhase, PhaseOver, counters
  <1>2. ThreadsIn("RUNNING") = {}
    <2>1. Cardinality(ThreadsIn("RUNNING")) = 0
      BY <1>1 DEF Inv, CountersExact
    <2> QED
      BY <2>1, ThreadsInFinite, FS_EmptySet
  <1>3. runListSize > 0
    <2> SUFFICES ASSUME runListSize = 0 PROVE FALSE
      BY ThreadAssumption DEF Inv, TypeOK
    <2>1. ThreadsIn("LEFT") = {}
      BY <1>1 DEF Inv, RunListExact, Listed, ThreadsIn
    <2>2. Cardinality(ThreadsIn("LEFT")) = 0
      BY <2>1, FS_EmptySet
    <2> QED
      BY <1>1, <2>2 DEF Inv, TypeOK, CountersExact
  <1>4. Listed' = Listed
    BY <1>1 DEF Listed
  <1>5. /\ ThreadsIn("RUNNING")' = ThreadsIn("RUNNING")
        /\ ThreadsIn("LEFT")' = ThreadsIn("LEFT")
    BY <1>1 DEF ThreadsIn
  <1>6. TypeOK'
    <2>1. phaseCount' \in 0 .. CleanupPeriod - 1
      BY <1>1, ParameterAssumption DEF Inv, TypeOK
    <2>2. curThreadIdx' \in 0 .. runListSize' /\ idx' \in 0 .. MAX_THREADS
          /\ newSize' \in 0 .. MAX_THREADS
      BY <1>1, <1>3, ThreadAssumption DEF Inv, TypeOK
    <2> QED
      BY <1>1, <2>1, <2>2 DEF Inv, TypeOK
  <1>7. RunListExact' /\ Located'
    BY <1>1, <1>4 DEF Inv, RunListExact, Located, KnowsPlace
  <1>8. Passes'
    BY <1>1, <1>3, ThreadAssumption DEF Inv, TypeOK, Passes
  <1>9. CountersExact'
    BY <1>1, <1>5, ThreadsInFinite, ThreadAssumption DEF Inv, TypeOK, CountersExact
  <1>10. LockHeld' /\ Words' /\ WakeupsExact'
    BY <1>1 DEF Inv, LockHeld, Words, WakeupsExact
  <1>11. Turns'
    BY <1>1, <1>2, <1>5, ParameterAssumption DEF Turns
  <1> QED
    BY <1>6, <1>7, <1>8, <1>9, <1>10, <1>11 DEF Inv

(* The cleanup pass drops the thread at idx. *)
LEMMA DropStep ==
    ASSUME Inv, CleanOne, state[runList[idx]] = "LEFT"
    PROVE  Inv'
  <1> DEFINE d == runList[idx]
             e == newSize - 1
             l == runList[e]
  <1>1. /\ at = "clean" /\ at' = "clean" /\ waking = Nobody /\ waking' = Nobody
        /\ idx < newSize /\ state[d] = "LEFT"
        /\ state' = [state EXCEPT ![d] = "OFFLINE"]
        /\ runList' = [runList EXCEPT ![idx] = l]
        /\ lastIdx' = [lastIdx EXCEPT ![l] = idx]
        /\ newSize' = e
        /\ UNCHANGED <<idx, futexWord, runListSize, curThreadIdx, runningThreads,
                       leftThreads, phaseCount, pc, holder>>
    BY DEF Inv, LockHeld, InCheckRunList, CleanOne, counters, lock
  <1>2. /\ Listed = 0 .. e /\ Listed' = 0 .. e - 1 /\ Listed \subseteq Slot
        /\ idx \in Listed /\ e \in Listed /\ e \in Nat /\ idx \in Nat
        /\ newSize <= runListSize
    BY <1>1, ThreadAssumption DEF Inv, TypeOK, Passes, Listed, Slot
  <1>3. d \in Thread /\ l \in Thread
    BY <1>2 DEF Inv, TypeOK, RunListExact
  <1>4. /\ \A k \in Listed : runList'[k] = IF k = idx THEN l ELSE runList[k]
        /\ \A u \in Thread : state'[u] = IF u = d THEN "OFFLINE" ELSE state[u]
        /\ \A u \in Thread : lastIdx'[u] = IF u = l THEN idx ELSE lastIdx[u]
    BY <1>1, <1>2, <1>3 DEF Inv, TypeOK
  <1>5. \A k, m \in Listed : runList[k] = runList[m] => k = m
    BY DEF Inv, RunListExact
  <1>6. \A k \in Listed' : k \in Listed /\ k # e
    BY <1>2
  <1>7. \A k \in Listed : k # e => k \in Listed'
    BY <1>2
  <1>8. TypeOK'
    <2>1. /\ state' \in [Thread -> {"OFFLINE", "WAITING", "RUNNING", "LEFT"}]
          /\ runList' \in [Slot -> Thread \cup {Nobody}]
          /\ lastIdx' \in [Thread -> Slot \cup {Unknown}]
      BY <1>1, <1>2, <1>3 DEF Inv, TypeOK
    <2>2. newSize' \in 0 .. MAX_THREADS
      BY <1>1, <1>2, ThreadAssumption DEF Inv, TypeOK
    <2> QED
      BY <1>1, <2>1, <2>2 DEF Inv, TypeOK
  <1>9. RunListExact'
    <2>1. \A k, m \in Listed' : runList'[k] = runList'[m] => k = m
      BY <1>2, <1>4, <1>5, <1>6
    <2>2. \A k \in Listed' : runList'[k] # Nobody
      BY <1>3, <1>4, <1>6, ThreadFacts DEF Inv, RunListExact
    <2>3. \A u \in Thread : state'[u] # "OFFLINE" <=> \E k \in Listed' : runList'[k] = u
      <3> SUFFICES ASSUME NEW u \in Thread
                   PROVE  state'[u] # "OFFLINE" <=> \E k \in Listed' : runList'[k] = u
        OBVIOUS
      <3>1. CASE u = d
        BY <1>2, <1>4, <1>5, <1>6, <3>1
      <3>2. CASE u # d
        <4>1. state'[u] # "OFFLINE" <=> \E k \in Listed : runList[k] = u
          BY <1>4, <3>2 DEF Inv, RunListExact
        <4>2. ASSUME NEW k \in Listed, runList[k] = u
              PROVE  \E m \in Listed' : runList'[m] = u
          <5>1. CASE k = e
            BY <1>2, <1>4, <1>7, <3>2, <4>2, <5>1
          <5>2. CASE k # e
            BY <1>4, <1>7, <3>2, <4>2, <5>2
          <5> QED
            BY <5>1, <5>2
        <4>3. ASSUME NEW k \in Listed', runList'[k] = u
              PROVE  \E m \in Listed : runList[m] = u
          BY <1>2, <1>4, <1>6, <4>3
        <4> QED
          BY <4>1, <4>2, <4>3
      <3> QED
        BY <3>1, <3>2
    <2> QED
      BY <2>1, <2>2, <2>3 DEF RunListExact
  <1>10. Located'
    <2> SUFFICES ASSUME NEW u \in Thread, KnowsPlace(u)'
                 PROVE  lastIdx'[u] \in Listed' /\ runList'[lastIdx'[u]] = u
      BY DEF Located
    <2>1. u # d /\ KnowsPlace(u)
      BY <1>1, <1>3, <1>4 DEF KnowsPlace
    <2>2. lastIdx[u] \in Listed /\ runList[lastIdx[u]] = u
      BY <2>1 DEF Inv, Located
    <2>3. CASE u = l
      BY <1>2, <1>4, <1>7, <2>1, <2>3
    <2>4. CASE u # l
      BY <1>2, <1>4, <1>7, <2>1, <2>2, <2>4
    <2> QED
      BY <2>3, <2>4
  <1>11. Passes'
    <2>1. ASSUME NEW k \in 0 .. idx - 1
          PROVE  state'[runList'[k]] # "LEFT"
      <3>1. k \in Listed /\ k # idx
        BY <1>2
      <3>2. runList'[k] = runList[k]
        BY <1>4, <3>1
      <3>3. runList[k] \in Thread
        BY <1>2, <3>1 DEF Inv, TypeOK, RunListExact
      <3>4. state[runList[k]] # "LEFT"
        BY <1>1 DEF Inv, Passes
      <3> QED
        BY <1>4, <3>2, <3>3, <3>4
    <2>2. newSize' <= runListSize' /\ idx' <= newSize'
      BY <1>1, <1>2, ThreadAssumption DEF Inv, TypeOK
    <2>3. curThreadIdx' = 0 /\ leftThreads' # runListSize'
      BY <1>1 DEF Inv, Passes
    <2>4. at' = "clean" /\ idx' = idx
      BY <1>1
    <2> QED
      BY <2>1, <2>2, <2>3, <2>4 DEF Passes
  <1>12. CountersExact'
    <2>1. Moves(d, "LEFT", "OFFLINE")
      BY <1>1 DEF Moves
    <2>2. /\ Cardinality(ThreadsIn("RUNNING")') = Cardinality(ThreadsIn("RUNNING"))
          /\ Cardinality(ThreadsIn("LEFT")') = Cardinality(ThreadsIn("LEFT")) - 1
      BY <1>3, <2>1, CountAfter, ThreadsInFinite DEF Inv, TypeOK
    <2> QED
      BY <1>1, <1>2, <2>2, ThreadsInFinite, ThreadAssumption DEF Inv, TypeOK, CountersExact
  <1>13. LockHeld' /\ Words' /\ WakeupsExact'
    BY <1>1, <1>3, <1>4 DEF Inv, LockHeld, Words, WakeupsExact
  <1>14. Turns'
    <2>1. ThreadsIn("RUNNING")' = {}
      BY <1>1, <1>4, NobodyRuns DEF ThreadsIn
    <2> QED
      BY <1>1, <2>1 DEF Inv, Turns
  <1> QED
    BY <1>8, <1>9, <1>10, <1>11, <1>12, <1>13, <1>14 DEF Inv

(* One slot is cleaned or kept at the end of a phase. *)
LEMMA CleanOneStep ==
    ASSUME Inv, CleanOne
    PROVE  Inv'
  <1>1. CASE state[runList[idx]] = "LEFT"
    BY <1>1, DropStep
  <1>2. CASE state[runList[idx]] # "LEFT"
    <2>1. /\ at = "clean" /\ idx < newSize /\ idx' = idx + 1
          /\ UNCHANGED <<state, runList, lastIdx, newSize, futexWord, runListSize,
                         curThreadIdx, runningThreads, leftThreads, phaseCount, pc,
                         holder, at, waking>>
      BY <1>2 DEF CleanOne, counters, lock
    <2>2. TypeOK'
      BY <2>1, ThreadAssumption DEF Inv, TypeOK
    <2>3. Listed' = Listed
      BY <2>1 DEF Listed
    <2>4. RunListExact' /\ Located'
      BY <2>1, <2>3 DEF Inv, RunListExact, Located, KnowsPlace
    <2>5. Passes'
      <3>1. \A k \in 0 .. idx : k = idx \/ k \in 0 .. idx - 1
        BY DEF Inv, TypeOK
      <3> QED
        BY <1>2, <2>1, <3>1 DEF Inv, TypeOK, Passes
    <2>6. ThreadsIn("RUNNING")' = ThreadsIn("RUNNING") /\ ThreadsIn("LEFT")' = ThreadsIn("LEFT")
      BY <2>1 DEF ThreadsIn
    <2>7. CountersExact'
      BY <2>1, <2>6 DEF Inv, CountersExact
    <2>8. LockHeld' /\ Words' /\ WakeupsExact'
      BY <2>1 DEF Inv, LockHeld, InCheckRunList, Words, WakeupsExact
    <2>9. Turns'
      BY <2>1, <2>6 DEF Inv, Turns
    <2> QED
      BY <2>2, <2>4, <2>5, <2>7, <2>8, <2>9 DEF Inv
  <1> QED
    BY <1>1, <1>2

(* All slots are cleaned. *)
LEMMA CleanedStep ==
    ASSUME Inv, Cleaned
    PROVE  Inv'
  <1>1. /\ at = "clean" /\ idx >= newSize /\ leftThreads' = 0
        /\ runListSize' = newSize /\ at' = "shuffle" /\ idx' = newSize - 1
        /\ waking = Nobody /\ waking' = Nobody
        /\ UNCHANGED <<state, futexWord, lastIdx, runList, curThreadIdx,
                       runningThreads, phaseCount, pc, holder, newSize>>
    BY DEF Inv, LockHeld, InCheckRunList, Cleaned
  <1>2. /\ idx = newSize /\ curThreadIdx = 0 /\ leftThreads # runListSize
        /\ newSize \in 0 .. MAX_THREADS /\ MAX_THREADS \in Nat
    BY <1>1, ThreadAssumption DEF Inv, TypeOK, Passes
  <1>3. Listed = 0 .. newSize - 1 /\ Listed' = Listed
    BY <1>1 DEF Listed
  <1>4. ThreadsIn("LEFT") = {}
    BY <1>1, <1>2, <1>3 DEF Inv, RunListExact, Passes, ThreadsIn
  <1>5. Cardinality(ThreadsIn("LEFT")) = 0
    BY <1>4, FS_EmptySet
  <1>6. newSize > 0
    BY <1>1, <1>2, <1>5 DEF Inv, TypeOK, CountersExact
  <1>7. ThreadsIn("RUNNING")' = ThreadsIn("RUNNING") /\ ThreadsIn("LEFT")' = ThreadsIn("LEFT")
    BY <1>1 DEF ThreadsIn
  <1>8. TypeOK'
    <2>1. curThreadIdx' \in 0 .. runListSize' /\ idx' \in 0 .. MAX_THREADS
      BY <1>1, <1>2, <1>6
    <2> QED
      BY <1>1, <1>2, <2>1 DEF Inv, TypeOK
  <1>9. RunListExact' /\ Located'
    BY <1>1, <1>3 DEF Inv, RunListExact, Located, KnowsPlace
  <1>10. Passes'
    BY <1>1, <1>2 DEF Passes
  <1>11. CountersExact'
    BY <1>1, <1>5, <1>7 DEF Inv, CountersExact
  <1>12. LockHeld' /\ Words' /\ WakeupsExact'
    BY <1>1 DEF Inv, LockHeld, Words, WakeupsExact
  <1>13. Turns'
    BY <1>1, <1>7 DEF Inv, Turns
  <1> QED
    BY <1>8, <1>9, <1>10, <1>11, <1>12, <1>13 DEF Inv

(* Two slots are exchanged by the shuffle. *)
LEMMA ShuffleOneStep ==
    ASSUME Inv, ShuffleOne
    PROVE  Inv'
  <1>1. PICK j \in 0 .. idx :
          /\ runList' = [runList EXCEPT ![idx] = runList[j], ![j] = runList[idx]]
          /\ lastIdx' = [lastIdx EXCEPT ![runList[idx]] = j, ![runList[j]] = idx]
    BY DEF ShuffleOne
  <1>2. /\ at = "shuffle" /\ idx > 0 /\ idx' = idx - 1 /\ waking = Nobody
        /\ UNCHANGED <<state, futexWord, runListSize, curThreadIdx, runningThreads,
                       leftThreads, phaseCount, pc, holder, at, waking, newSize>>
    BY DEF Inv, LockHeld, InCheckRunList, ShuffleOne, Shuffling, counters, lock
  <1> DEFINE a == runList[idx]
             b == runList[j]
  <1>3. /\ Listed = 0 .. runListSize - 1 /\ Listed' = Listed /\ Listed \subseteq Slot
        /\ idx \in Listed /\ j \in Listed /\ idx \in 0 .. MAX_THREADS
    BY <1>2, ThreadAssumption DEF Inv, TypeOK, Passes, Listed, Slot
  <1>4. a \in Thread /\ b \in Thread
    BY <1>3 DEF Inv, TypeOK, RunListExact
  <1>5. /\ \A k \in Listed : runList'[k] = IF k = j THEN a ELSE IF k = idx THEN b ELSE runList[k]
        /\ \A u \in Thread : lastIdx'[u] = IF u = b THEN idx ELSE IF u = a THEN j ELSE lastIdx[u]
    BY <1>1, <1>3, <1>4 DEF Inv, TypeOK
  <1>6. \A k, m \in Listed : runList[k] = runList[m] => k = m
    BY DEF Inv, RunListExact
  <1>7. TypeOK'
    <2>1. /\ runList' \in [Slot -> Thread \cup {Nobody}]
          /\ lastIdx' \in [Thread -> Slot \cup {Unknown}]
      BY <1>1, <1>3, <1>4 DEF Inv, TypeOK
    <2> QED
      BY <1>2, <1>3, <2>1, ThreadAssumption DEF Inv, TypeOK
  <1>8. RunListExact'
    <2>1. \A k, m \in Listed : runList'[k] = runList'[m] => k = m
      BY <1>3, <1>5, <1>6
    <2>2. \A u \in Thread : (\E k \in Listed : runList[k] = u) <=> \E k \in Listed : runList'[k] = u
      BY <1>3, <1>5
    <2>3. \A k \in Listed : runList'[k] # Nobody
      BY <1>3, <1>5 DEF Inv, RunListExact
    <2> QED
      BY <1>2, <1>3, <2>1, <2>2, <2>3 DEF Inv, RunListExact
  <1>9. Located'
    <2> SUFFICES ASSUME NEW u \in Thread, KnowsPlace(u)
                 PROVE  lastIdx'[u] \in Listed /\ runList'[lastIdx'[u]] = u
      BY <1>2, <1>3 DEF Located, KnowsPlace
    <2>1. lastIdx[u] \in Listed /\ runList[lastIdx[u]] = u
      BY DEF Inv, Located
    <2> QED
      BY <1>3, <1>5, <1>6, <2>1
  <1>10. Passes'
    BY <1>2, <1>3, ThreadAssumption DEF Inv, TypeOK, Passes
  <1>11. ThreadsIn("RUNNING")' = {} /\ ThreadsIn("RUNNING") = {}
         /\ ThreadsIn("LEFT")' = ThreadsIn("LEFT")
    BY <1>2, NobodyRuns DEF ThreadsIn
  <1>12. CountersExact'
    BY <1>2, <1>11 DEF Inv, CountersExact
  <1>13. LockHeld' /\ Words' /\ WakeupsExact'
    BY <1>2 DEF Inv, LockHeld, InCheckRunList, Words, WakeupsExact
  <1>14. Turns'
    BY <1>2, <1>11 DEF Inv, Turns
  <1> QED
    BY <1>7, <1>8, <1>9, <1>10, <1>12, <1>13, <1>14 DEF Inv

(* The shuffle is done. *)
LEMMA ShuffledStep ==
    ASSUME Inv, Shuffled
    PROVE  Inv'
  <1>1. /\ at = "shuffle" /\ waking = Nobody /\ at' = "rewake" /\ curThreadIdx = 0
        /\ UNCHANGED <<state, futexWord, lastIdx, list, counters, phaseCount, pc,
                       holder, waking, loop>>
    BY DEF Inv, LockHeld, InCheckRunList, Passes, Shuffled
  <1>2. /\ TypeOK' /\ LockHeld' /\ RunListExact' /\ Located' /\ Passes'
        /\ CountersExact' /\ Words' /\ WakeupsExact'
        /\ \A u : Comes(u)' <=> Comes(u)
        /\ ThreadsIn("RUNNING")' = ThreadsIn("RUNNING")
        /\ ThreadsIn("WAITING")' = ThreadsIn("WAITING")
    BY <1>1, HolderMoves
  <1>3. \A u \in ThreadsIn("WAITING") : Comes(u)
    BY <1>1, ThreadAssumption DEF Inv, TypeOK, RunListExact, Comes, ThreadsIn, Listed
  <1>4. Turns'
    BY <1>1, <1>2, <1>3 DEF Inv, Turns, ThreadsIn, list, counters
  <1> QED
    BY <1>2, <1>4 DEF Inv

-----------------------------------------------------------------------------
(* After tryWakeNext() *)

(* The lock is released. *)
LEMMA UnlockStep ==
    ASSUME Inv, Unlock
    PROVE  Inv'
  <1>1. /\ at = "unlock" /\ at' = "free" /\ holder' = Nobody /\ waking = Nobody
        /\ pc' = [pc EXCEPT ![holder] = CASE @ \in {"joining", "syncing"} -> "testing"
                                          [] @ = "leaving" -> "outside"
                                          [] OTHER -> @]
        /\ UNCHANGED <<state, futexWord, lastIdx, runList, runListSize, curThreadIdx,
                       runningThreads, leftThreads, phaseCount, waking, idx, newSize>>
    BY DEF Inv, LockHeld, InCheckRunList, Unlock, list, counters, loop
  <1>2. holder \in Thread
    BY <1>1 DEF Inv, TypeOK, LockHeld
  <1>3. \A u \in Thread :
          \/ pc'[u] = pc[u]
          \/ pc[u] \in {"joining", "syncing"} /\ pc'[u] = "testing"
          \/ pc[u] = "leaving" /\ pc'[u] = "outside"
    BY <1>1, <1>2 DEF Inv, TypeOK
  <1>4. pc' \in [Thread -> {"outside", "joining", "syncing", "leaving", "testing",
                            "waiting", "asleep", "woken", "running", "killed"}]
    BY <1>1, <1>2 DEF Inv, TypeOK
  <1>5. Listed' = Listed /\ \A u \in Thread : KnowsPlace(u)' => KnowsPlace(u)
    BY <1>1, <1>3 DEF Listed, KnowsPlace
  <1>6. /\ ThreadsIn("RUNNING")' = ThreadsIn("RUNNING")
        /\ ThreadsIn("WAITING")' = ThreadsIn("WAITING")
        /\ ThreadsIn("LEFT")' = ThreadsIn("LEFT")
    BY <1>1 DEF ThreadsIn
  <1>7. TypeOK'
    BY <1>1, <1>4 DEF Inv, TypeOK
  <1>8. RunListExact' /\ Located' /\ Passes'
    BY <1>1, <1>5 DEF Inv, RunListExact, Located, Passes
  <1>9. CountersExact'
    BY <1>1, <1>6 DEF Inv, CountersExact
  <1>10. LockHeld' /\ Words' /\ WakeupsExact'
    BY <1>1, <1>3 DEF Inv, LockHeld, Words, WakeupsExact
  <1>11. Turns'
    BY <1>1, <1>6 DEF Inv, Turns
  <1> QED
    BY <1>7, <1>8, <1>9, <1>10, <1>11 DEF Inv

(* A thread tests its state, falls asleep or wakes up. *)
LEMMA WaiterStep ==
    ASSUME Inv, NEW t \in Thread, Waiter(t)
    PROVE  Inv'
  <1>1. /\ pc[t] \in {"testing", "waiting", "woken"}
        /\ UNCHANGED <<state, futexWord, lastIdx, runList, runListSize, curThreadIdx,
                       runningThreads, leftThreads, phaseCount, holder, at, waking,
                       idx, newSize>>
    BY DEF Waiter, Test, FutexWait, Resume, list, counters, lock, loop
  <1>2. PICK p \in {"waiting", "running", "asleep", "woken"} :
          /\ pc' = [pc EXCEPT ![t] = p]
          /\ p \in {"running", "woken"} => state[t] = "RUNNING"
          /\ p = "waiting" => state[t] \in {"WAITING", "RUNNING"}
          /\ p = "asleep" => /\ futexWord[t] = 1
                             /\ state[t] \in {"WAITING", "RUNNING"}
    <2>1. CASE Test(t)
      BY <2>1 DEF Test, Inv, Words
    <2>2. CASE FutexWait(t)
      BY <2>2 DEF FutexWait, Inv, Words
    <2>3. CASE Resume(t)
      BY <2>3 DEF Resume, Inv, WakeupsExact
    <2> QED
      BY <2>1, <2>2, <2>3 DEF Waiter
  <1>3. \A u \in Thread : pc'[u] = IF u = t THEN p ELSE pc[u]
    BY <1>2 DEF Inv, TypeOK
  <1>4. Listed' = Listed /\ \A u \in Thread : KnowsPlace(u)' <=> KnowsPlace(u)
    BY <1>1, <1>3 DEF Listed, KnowsPlace
  <1>5. /\ ThreadsIn("RUNNING")' = ThreadsIn("RUNNING")
        /\ ThreadsIn("WAITING")' = ThreadsIn("WAITING")
        /\ ThreadsIn("LEFT")' = ThreadsIn("LEFT")
        /\ \A u \in Thread : Comes(u)' <=> Comes(u)
    BY <1>1, <1>4 DEF ThreadsIn, Comes
  <1>6. TypeOK'
    BY <1>1, <1>2 DEF Inv, TypeOK
  <1>7. RunListExact' /\ Located' /\ Passes'
    BY <1>1, <1>4 DEF Inv, RunListExact, Located, Passes
  <1>8. CountersExact'
    BY <1>1, <1>5 DEF Inv, CountersExact
  <1>9. LockHeld' /\ Words' /\ WakeupsExact'
    BY <1>1, <1>2, <1>3 DEF Inv, LockHeld, InCheckRunList, Words, WakeupsExact
  <1>10. Turns'
    <2>1. at \in {"wake", "end"} /\ pc'[holder] = "joining" =>
             state[holder] = "RUNNING" \/ Comes(holder)'
      <3> SUFFICES ASSUME at \in {"wake", "end"}, pc'[holder] = "joining"
                   PROVE  state[holder] = "RUNNING" \/ Comes(holder)'
        OBVIOUS
      <3>1. holder \in Thread
        BY DEF Inv, TypeOK, LockHeld
      <3>2. pc[holder] = "joining"
        BY <1>3, <3>1
      <3> QED
        BY <1>1, <1>4, <3>2 DEF Inv, Turns, Comes
    <2> QED
      BY <1>1, <1>5, <2>1 DEF Inv, Turns
  <1> QED
    BY <1>6, <1>7, <1>8, <1>9, <1>10 DEF Inv

(* A stuttering step keeps the invariant. *)
LEMMA Stutter ==
    ASSUME Inv, UNCHANGED vars
    PROVE  Inv'
  <1>1. Listed' = Listed
    BY DEF vars, list, lock, loop, Listed
  <1>2. \A u : Comes(u)' <=> Comes(u)
    BY <1>1 DEF vars, list, Comes
  <1> QED
    BY <1>1, <1>2 DEF vars, list, counters, lock, loop, Inv, TypeOK, LockHeld, InCheckRunList,
       RunListExact, Located, KnowsPlace, Passes, CountersExact, Words, WakeupsExact,
       Turns, ThreadsIn

-----------------------------------------------------------------------------
(* Every step keeps the invariant. *)
LEMMA InvStep ==
    ASSUME EarlyReuse = FALSE, Inv, [Next]_vars
    PROVE  Inv'
  <1>1. ASSUME NEW t \in Thread, Join(t) PROVE Inv'
    BY <1>1, EnlistStep, ReenlistStep DEF Join
  <1>2. ASSUME NEW t \in Thread, LeaveRunning(t) PROVE Inv'
    BY <1>2, LeaveRunningStep
  <1>3. ASSUME NEW t \in Thread, LeaveWaiting(t) PROVE Inv'
    BY <1>3, LeaveWaitingStep
  <1>4. ASSUME NEW t \in Thread, Sync(t) PROVE Inv'
    BY <1>4, SyncStep
  <1>5. ASSUME NEW t \in Thread, Waiter(t) PROVE Inv'
    BY <1>5, WaiterStep
  <1>6. CASE LockHolder
    BY <1>6, ConsiderStep, WakeStep, RunListCheckedStep, GoOnStep, EndPhaseStep,
       CleanOneStep, CleanedStep, ShuffleOneStep, ShuffledStep, UnlockStep DEF LockHolder
  <1>7. CASE UNCHANGED vars
    BY <1>7, Stutter
  <1> QED
    BY <1>1, <1>2, <1>3, <1>4, <1>5, <1>6, <1>7 DEF Next

(* The invariant that the theorems below follow from. *)
LEMMA Invariance ==
    ASSUME EarlyReuse = FALSE
    PROVE  Spec => []Inv
  <1>1. Inv /\ [Next]_vars => Inv'
    BY InvStep
  <1> QED
    BY <1>1, InitInv, PTL DEF Spec

-----------------------------------------------------------------------------
(* The variables keep their types: the counters do not fall below zero, and *)
(* neither join() nor the passes over runList leave the array.              *)
THEOREM TypeCorrect ==
    ASSUME EarlyReuse = FALSE
    PROVE  Spec => []TypeOK
  <1>1. Inv => TypeOK
    BY DEF Inv
  <1> QED
    BY <1>1, Invariance, PTL

(* Every thread in the barrier is in runList, once, and nobody else is. *)
THEOREM RunListAlwaysExact ==
    ASSUME EarlyReuse = FALSE
    PROVE  Spec => []RunListExact
  <1>1. Inv => RunListExact
    BY DEF Inv
  <1> QED
    BY <1>1, Invariance, PTL

(* runningThreads and leftThreads agree with the states of the threads. *)
THEOREM CountersAlwaysExact ==
    ASSUME EarlyReuse = FALSE
    PROVE  Spec => []CountersExact
  <1>1. Inv => CountersExact
    BY DEF Inv
  <1> QED
    BY <1>1, Invariance, PTL

(* A thread that joins again is where its lastIdx says, as join() asserts. *)
THEOREM FoundAlwaysWhereLeft ==
    ASSUME EarlyReuse = FALSE
    PROVE  Spec => []FoundWhereLeft
  <1>1. Inv => FoundWhereLeft
    BY DEF Inv, Located, KnowsPlace, FoundWhereLeft, ThreadsIn
  <1> QED
    BY <1>1, Invariance, PTL

(* Nobody goes on while it should wait, and nobody sleeps through its turn. *)
THEOREM WakeupsAlwaysExact ==
    ASSUME EarlyReuse = FALSE
    PROVE  Spec => []WakeupsExact
  <1>1. Inv => WakeupsExact
    BY DEF Inv
  <1> QED
    BY <1>1, Invariance, PTL

(* The panic of checkRunList() at a futex word that is not 1 is not reached. *)
THEOREM NoWakeupRaces ==
    ASSUME EarlyReuse = FALSE
    PROVE  Spec => []NoWakeupRace
  <1>1. Inv => NoWakeupRace
    BY DEF Inv, Words, NoWakeupRace
  <1> QED
    BY <1>1, Invariance, PTL

(* No more than parallelThreads threads run together. *)
THEOREM ParallelismAlwaysBounded ==
    ASSUME EarlyReuse = FALSE
    PROVE  Spec => []ParallelismBounded
  <1>1. Inv => ParallelismBounded
    BY ThreadsInFinite, ParameterAssumption
       DEF Inv, TypeOK, Turns, CountersExact, ParallelismBounded
  <1> QED
    BY <1>1, Invariance, PTL

(* When the lock is free and a thread waits, another runs that will call    *)
(* sync() or leave(), and no turn that could be given is held back.         *)
THEOREM NobodyEverForgotten ==
    ASSUME EarlyReuse = FALSE
    PROVE  Spec => []NobodyForgotten
  <1>1. Inv => NobodyForgotten
    BY DEF Inv, Turns, NobodyForgotten, Free
  <1> QED
    BY <1>1, Invariance, PTL

(* A thread that joins finds room to run or somebody running: its call of   *)
(* tryWakeNext() does not end the phase.                                    *)
THEOREM JoinNeverEndsPhase ==
    ASSUME EarlyReuse = FALSE
    PROVE  Spec => JoinEndsNoPhase
  <1>1. Inv /\ EndPhase => pc[holder] # "joining"
    <2> SUFFICES ASSUME Inv, EndPhase, pc[holder] = "joining"
                 PROVE  FALSE
      OBVIOUS
    <2>1. /\ at = "end" /\ waking = Nobody /\ runningThreads = 0
          /\ curThreadIdx = runListSize /\ holder \in Thread
      BY DEF Inv, TypeOK, LockHeld, InCheckRunList, EndPhase, PhaseOver
    <2>2. state[holder] = "RUNNING"
      BY <2>1, ThreadAssumption DEF Inv, TypeOK, Turns, Comes, Listed
    <2>3. holder \in ThreadsIn("RUNNING")
      BY <2>1, <2>2 DEF ThreadsIn
    <2> QED
      BY <2>1, <2>3, SomeCounted DEF Inv, CountersExact
  <1> QED
    BY <1>1, Invariance, PTL DEF JoinEndsNoPhase

-----------------------------------------------------------------------------
(* The barrier implements Phases. *)

(* Which place a thread has follows from its state and from its slot. *)
LEMMA PlaceFacts ==
    ASSUME NEW t \in Thread
    PROVE  /\ state[t] \in {"OFFLINE", "LEFT"} => Place(t) = "out"
           /\ state[t] = "RUNNING" => Place(t) = "running"
           /\ state[t] = "WAITING" /\ Considered(t) => Place(t) = "done"
           /\ state[t] = "WAITING" /\ ~Considered(t) => Place(t) = "ready"
  BY DEF Place

(* What the abstract place of a thread is after a step. *)
LEMMA PlaceFactsAfter ==
    ASSUME NEW t \in Thread
    PROVE  /\ state'[t] \in {"OFFLINE", "LEFT"} => Place(t)' = "out"
           /\ state'[t] = "RUNNING" => Place(t)' = "running"
           /\ state'[t] = "WAITING" /\ Considered(t)' => Place(t)' = "done"
           /\ state'[t] = "WAITING" /\ ~Considered(t)' => Place(t)' = "ready"
  BY DEF Place

(* A thread that keeps its state and stays considered or not keeps its place. *)
LEMMA SamePlace ==
    ASSUME NEW t \in Thread, state'[t] = state[t], Considered(t)' <=> Considered(t)
    PROVE  Place(t)' = Place(t)
  BY DEF Place

(* One thread moves and the others stay. *)
LEMMA OneMoves ==
    ASSUME NEW t \in Thread, NEW from, NEW to,
           Place(t) = from, Place(t)' = to,
           \A u \in Thread \ {t} : Place(u)' = Place(u)
    PROVE  Promise!Moves(t, from, to)
  BY DEF Promise!Moves, Where

(* If no thread changes its place, the abstract state stutters. *)
LEMMA NobodyMoves ==
    ASSUME \A u \in Thread : Place(u)' = Place(u)
    PROVE  UNCHANGED Where
  BY DEF Where

(* A join of an offline thread is Enter. *)
LEMMA EnlistEnters ==
    ASSUME Inv, NEW t \in Thread, Join(t), Enlist(t)
    PROVE  Promise!Enter(t)
  <1>1. /\ at = "free" /\ at' = "wake" /\ state[t] = "OFFLINE"
        /\ state' = [state EXCEPT ![t] = "WAITING"]
        /\ runList' = [runList EXCEPT ![runListSize] = t]
        /\ runListSize' = runListSize + 1 /\ curThreadIdx' = curThreadIdx
    BY DEF Join, Enlist, Locks
  <1>2. runListSize < MAX_THREADS
    BY <1>1, RoomToEnlist
  <1>3. /\ Listed = 0 .. runListSize - 1 /\ Listed' = 0 .. runListSize
        /\ runListSize \in Nat /\ curThreadIdx \in 0 .. runListSize
        /\ \A k \in Listed' : runList'[k] = IF k = runListSize THEN t ELSE runList[k]
    BY <1>1, <1>2, ThreadAssumption DEF Inv, TypeOK, Listed, Slot
  <1>4. ~Considered(t)'
    BY <1>1, <1>3 DEF Inv, RunListExact, Considered
  <1>5. Place(t) = "out" /\ Place(t)' = "ready"
    BY <1>1, <1>4, PlaceFacts, PlaceFactsAfter DEF Inv, TypeOK
  <1>6. \A u \in Thread \ {t} : Considered(u)' <=> Considered(u)
    BY <1>1, <1>3 DEF Considered
  <1>7. \A u \in Thread \ {t} : Place(u)' = Place(u)
    BY <1>1, <1>6, SamePlace DEF Inv, TypeOK
  <1> QED
    BY <1>5, <1>7, OneMoves DEF Promise!Enter

(* So is a join of a thread that left. *)
LEMMA ReenlistEnters ==
    ASSUME Inv, EarlyReuse = FALSE, NEW t \in Thread, Join(t), Reenlist(t)
    PROVE  Promise!Enter(t)
  <1> DEFINE i == lastIdx[t]
             c == curThreadIdx - 1
             other == runList[c]
  <1>1. /\ at = "free" /\ at' = "wake" /\ state[t] = "LEFT" /\ pc[t] # "killed"
        /\ state' = [state EXCEPT ![t] = "WAITING"]
        /\ UNCHANGED runListSize
    BY DEF Inv, Join, Reenlist, Locks
  <1>2. /\ Listed = 0 .. runListSize - 1 /\ Listed' = Listed
        /\ Listed \subseteq Slot /\ Slot \subseteq Nat
        /\ runListSize \in 0 .. MAX_THREADS /\ curThreadIdx \in 0 .. runListSize
    BY <1>1, ThreadAssumption DEF Listed, Slot, Inv, TypeOK
  <1>3. i \in Listed /\ runList[i] = t /\ i # Unknown
    BY <1>1, <1>2 DEF Inv, Located, KnowsPlace, Unknown
  <1>4. LastIdxRead(t) = {i}
    BY <1>3 DEF LastIdxRead
  <1>5. \/ /\ i < curThreadIdx /\ curThreadIdx' = c
           /\ runList' = [runList EXCEPT ![i] = other, ![c] = t]
        \/ i >= curThreadIdx /\ UNCHANGED <<runList, curThreadIdx>>
    BY <1>2, <1>3, <1>4 DEF Reenlist, Reschedules
  <1>6. \A k, m \in Listed : runList[k] = runList[m] => k = m
    BY DEF Inv, RunListExact
  <1>7. ~Considered(t)' /\ \A u \in Thread \ {t} : Considered(u)' <=> Considered(u)
    <2>1. CASE i >= curThreadIdx
      <3>1. UNCHANGED <<runList, curThreadIdx>>
        BY <1>2, <1>3, <1>5, <2>1
      <3> QED
        BY <1>2, <1>3, <1>6, <2>1, <3>1 DEF Considered
    <2>2. CASE i < curThreadIdx
      <3>1. /\ curThreadIdx' = c /\ c \in Listed
            /\ \A k \in Listed : runList'[k] = IF k = c THEN t
                                                ELSE IF k = i THEN other ELSE runList[k]
        BY <1>2, <1>3, <1>5, <2>2 DEF Inv, TypeOK
      <3>2. ~Considered(t)'
        BY <1>2, <1>3, <1>6, <2>2, <3>1 DEF Considered
      <3>3. ASSUME NEW u \in Thread \ {t}
            PROVE  Considered(u)' <=> Considered(u)
        <4>1. ASSUME NEW k \in Listed, k < curThreadIdx, runList[k] = u
              PROVE  \E m \in Listed : m < c /\ runList'[m] = u
          <5>1. CASE k = c
            BY <1>2, <1>3, <2>2, <3>1, <4>1, <5>1
          <5>2. CASE k # c
            BY <1>2, <1>3, <2>2, <3>1, <4>1, <5>2
          <5> QED
            BY <5>1, <5>2
        <4>2. ASSUME NEW k \in Listed, k < c, runList'[k] = u
              PROVE  \E m \in Listed : m < curThreadIdx /\ runList[m] = u
          BY <1>2, <1>3, <2>2, <3>1, <4>2
        <4> QED
          BY <1>2, <3>1, <4>1, <4>2 DEF Considered
      <3> QED
        BY <3>2, <3>3
    <2> QED
      BY <1>2, <1>3, <2>1, <2>2
  <1>8. Place(t) = "out" /\ Place(t)' = "ready"
    BY <1>1, <1>7, PlaceFacts, PlaceFactsAfter DEF Inv, TypeOK
  <1>9. \A u \in Thread \ {t} : Place(u)' = Place(u)
    BY <1>1, <1>7, SamePlace DEF Inv, TypeOK
  <1> QED
    BY <1>8, <1>9, OneMoves DEF Promise!Enter

(* leave() and sync() do not touch the list. *)
LEMMA LeaveExits ==
    ASSUME Inv, NEW t \in Thread, LeaveRunning(t) \/ LeaveWaiting(t)
    PROVE  Promise!Exit(t)
  <1>1. /\ state[t] \in {"RUNNING", "WAITING"}
        /\ state' = [state EXCEPT ![t] = "LEFT"]
        /\ at # "clean" /\ at' # "clean" /\ UNCHANGED list
    BY DEF LeaveRunning, LeaveWaiting, Locks
  <1>2. \A u \in Thread : Considered(u)' <=> Considered(u)
    BY <1>1 DEF Considered, Listed, list
  <1>3. \A u \in Thread \ {t} : Place(u)' = Place(u)
    BY <1>1, <1>2, SamePlace DEF Inv, TypeOK
  <1>4. Place(t) \in {"ready", "running", "done"} /\ Place(t)' = "out"
    BY <1>1, PlaceFacts, PlaceFactsAfter DEF Inv, TypeOK
  <1> QED
    BY <1>3, <1>4, OneMoves DEF Promise!Exit

(* sync() is Finish. *)
LEMMA SyncFinishes ==
    ASSUME Inv, NEW t \in Thread, Sync(t)
    PROVE  Promise!Finish(t)
  <1>1. /\ state[t] = "RUNNING" /\ state' = [state EXCEPT ![t] = "WAITING"]
        /\ at # "clean" /\ at' # "clean" /\ UNCHANGED list
    BY DEF Inv, WakeupsExact, Sync, Locks
  <1>2. \A u \in Thread : Considered(u)' <=> Considered(u)
    BY <1>1 DEF Considered, Listed, list
  <1>3. \A u \in Thread \ {t} : Place(u)' = Place(u)
    BY <1>1, <1>2, SamePlace DEF Inv, TypeOK
  <1>4. Considered(t)
    BY <1>1 DEF Inv, Located, KnowsPlace, Turns, ThreadsIn, Considered
  <1>5. Place(t) = "running" /\ Place(t)' = "done"
    BY <1>1, <1>2, <1>4, PlaceFacts, PlaceFactsAfter DEF Inv, TypeOK
  <1> QED
    BY <1>3, <1>5, OneMoves DEF Promise!Finish

(* Choosing a thread is Start, passing one over is hidden. *)
LEMMA ConsiderStarts ==
    ASSUME Inv, Consider
    PROVE  (\E t \in Thread : Promise!Start(t)) \/ UNCHANGED Where
  <1> DEFINE c == curThreadIdx
  <1>1. /\ at \in {"wake", "rewake"} /\ waking = Nobody
        /\ runningThreads < parallelThreads /\ c < runListSize
        /\ curThreadIdx' = c + 1
        /\ UNCHANGED <<runList, runListSize, at>>
    BY DEF Consider, InCheckRunList, RoomForMore, lock
  <1>2. Listed = 0 .. runListSize - 1 /\ Listed' = Listed
    BY <1>1 DEF Listed
  <1>3. PICK w \in Thread : c \in Listed /\ w = runList[c]
    BY <1>1, <1>2, ThreadAssumption DEF Inv, TypeOK, RunListExact, Slot
  <1>4. \A u \in Thread \ {w} : Considered(u)' <=> Considered(u)
    BY <1>1, <1>2, <1>3, ThreadAssumption DEF Inv, TypeOK, Considered
  <1>5. CASE state[w] = "WAITING"
    <2>1. state' = [state EXCEPT ![w] = "RUNNING"]
      BY <1>3, <1>5 DEF Consider
    <2>2. ~Considered(w)
      BY <1>2, <1>3, ThreadAssumption DEF Inv, TypeOK, RunListExact, Considered
    <2>3. Place(w) = "ready" /\ Place(w)' = "running"
      BY <1>3, <1>5, <2>1, <2>2, PlaceFacts, PlaceFactsAfter DEF Inv, TypeOK
    <2>4. \A u \in Thread \ {w} : Place(u)' = Place(u)
      BY <1>4, <2>1, SamePlace DEF Inv, TypeOK
    <2>5. Promise!Moves(w, "ready", "running")
      BY <1>3, <2>3, <2>4, OneMoves
    <2>6. Promise!In("running") = ThreadsIn("RUNNING")
      BY PlaceFacts DEF Inv, TypeOK, Promise!In, ThreadsIn, Where
    <2>7. Cardinality(ThreadsIn("RUNNING")) < parallelThreads
      BY <1>1, ThreadsInFinite DEF Inv, CountersExact, TypeOK
    <2>8. Promise!Cardinality(Promise!In("running")) < parallelThreads
      BY <2>6, <2>7 DEF Promise!Cardinality, Cardinality
    <2>9. Promise!Start(w)
      BY <2>5, <2>8 DEF Promise!Start
    <2> QED
      BY <2>9
  <1>6. CASE state[w] # "WAITING"
    <2>1. UNCHANGED state
      BY <1>3, <1>6 DEF Consider
    <2>2. Place(w)' = Place(w)
      BY <1>3, <1>6, <2>1, PlaceFacts, PlaceFactsAfter DEF Inv, TypeOK
    <2>3. \A u \in Thread : Place(u)' = Place(u)
      BY <1>4, <2>1, <2>2, SamePlace
    <2> QED
      BY <2>3, NobodyMoves
  <1> QED
    BY <1>5, <1>6

(* The end of a phase is EndPhase. *)
LEMMA PhaseEnds ==
    ASSUME Inv, EndPhase
    PROVE  Promise!EndPhase
  <1>1. /\ at = "end" /\ curThreadIdx = runListSize /\ runningThreads = 0
        /\ leftThreads # runListSize /\ curThreadIdx' = 0 /\ waking = Nobody
        /\ at' = "clean" => newSize' = runListSize
        /\ UNCHANGED <<state, runList, runListSize>>
    BY DEF Inv, LockHeld, InCheckRunList, EndPhase, PhaseOver
  <1>2. Listed = 0 .. runListSize - 1 /\ Listed' = Listed
    BY <1>1 DEF Listed
  <1>3. \A t \in Thread : state[t] = "WAITING" => Considered(t)
    BY <1>1, <1>2, ThreadAssumption DEF Inv, TypeOK, RunListExact, Considered
  <1>4. \A t \in Thread : ~Considered(t)'
    BY <1>1, <1>2, ThreadAssumption DEF Inv, TypeOK, Considered
  <1>5. ThreadsIn("RUNNING") = {}
    <2>1. Cardinality(ThreadsIn("RUNNING")) = 0
      BY <1>1 DEF Inv, CountersExact
    <2> QED
      BY <2>1, ThreadsInFinite, FS_EmptySet
  <1>6. \A t \in Thread :
          /\ Place(t) \in {"out", "done"}
          /\ state[t] = "WAITING" => Place(t) = "done"
    BY <1>3, <1>5, PlaceFacts DEF Inv, TypeOK, ThreadsIn
  <1>7. \E t \in Thread : state[t] = "WAITING"
    <2> SUFFICES ASSUME \A t \in Thread : state[t] # "WAITING" PROVE FALSE
      OBVIOUS
    <2>1. ThreadsIn("LEFT") = InBarrier
      BY <1>5 DEF Inv, TypeOK, ThreadsIn, InBarrier
    <2>2. Cardinality(InBarrier) = runListSize
      BY <1>1, ListLength DEF Inv
    <2> QED
      BY <1>1, <2>1, <2>2, ThreadAssumption DEF Inv, TypeOK, CountersExact
  <1>8. \A t \in Thread : Place(t)' = IF Place(t) = "done" THEN "ready" ELSE Place(t)
    BY <1>1, <1>4, <1>5, <1>6, PlaceFacts, PlaceFactsAfter DEF Inv, TypeOK, ThreadsIn
  <1>0. \A t \in Thread : Where[t] = Place(t)
    BY DEF Where
  <1>9. Promise!In("ready") = {} /\ Promise!In("running") = {}
    <2>1. \A t \in Thread : Where[t] # "ready" /\ Where[t] # "running"
      BY <1>0, <1>6
    <2> QED
      BY <2>1 DEF Promise!In
  <1>10. Promise!In("done") # {}
    <2>0. PICK t \in Thread : state[t] = "WAITING"
      BY <1>7
    <2>1. Place(t) = "done"
      BY <1>6, <2>0
    <2>2. Where[t] = "done"
      BY <1>0, <2>1
    <2> QED
      BY <2>2 DEF Promise!In
  <1>11. Where' = [t \in Thread |-> IF Where[t] = "done" THEN "ready" ELSE Where[t]]
    BY <1>8 DEF Where
  <1> QED
    BY <1>9, <1>10, <1>11 DEF Promise!EndPhase

(* The steps inside tryWakeNext() that the promise does not see. *)
LEMMA PassesHidden ==
    ASSUME Inv, CleanOne \/ Cleaned \/ ShuffleOne
    PROVE  UNCHANGED Where
  <1>1. /\ at \in {"clean", "shuffle"} /\ curThreadIdx = 0 /\ curThreadIdx' = 0
    BY DEF Inv, Passes, CleanOne, Cleaned, ShuffleOne
  <1>2. \A t \in Thread : ~Considered(t) /\ ~Considered(t)'
    <2>1. /\ \A i \in Listed : ~(i < curThreadIdx)
          /\ \A i \in Listed' : ~(i < curThreadIdx')
      BY <1>1 DEF Listed
    <2> QED
      BY <2>1 DEF Considered
  <1>3. \A t \in Thread :
          state'[t] = state[t] \/ (state[t] = "LEFT" /\ state'[t] = "OFFLINE")
    BY DEF Inv, TypeOK, CleanOne, Cleaned, ShuffleOne
  <1>4. \A t \in Thread : Place(t)' = Place(t)
    BY <1>2, <1>3, SamePlace, PlaceFacts, PlaceFactsAfter
  <1> QED
    BY <1>4, NobodyMoves

(* All other steps are hidden. *)
LEMMA RestHidden ==
    ASSUME Inv,
           \/ Wake \/ RunListChecked \/ GoOn \/ Shuffled \/ Unlock
           \/ \E t \in Thread : Waiter(t)
           \/ UNCHANGED vars
    PROVE  UNCHANGED Where
  <1>1. UNCHANGED <<state, runList, runListSize, curThreadIdx, newSize>>
        /\ (at' = "clean" <=> at = "clean")
    BY DEF Wake, RunListChecked, InCheckRunList, GoOn, Shuffled, Unlock, Waiter, Test,
           FutexWait, Resume, vars, list, loop, lock
  <1>2. \A t \in Thread : Considered(t)' <=> Considered(t)
    BY <1>1 DEF Considered, Listed
  <1>3. \A t \in Thread : Place(t)' = Place(t)
    BY <1>1, <1>2, SamePlace
  <1> QED
    BY <1>3, NobodyMoves

(* Every behaviour of the barrier is one of Phases: a thread has its turn   *)
(* once a phase unless it leaves and comes back, no more than               *)
(* parallelThreads threads have theirs together, and a phase ends when all  *)
(* the threads in the barrier have had theirs.                              *)
THEOREM PhasesAlwaysKept ==
    ASSUME EarlyReuse = FALSE
    PROVE  Spec => PhasesKept
  <1>1. Init => Promise!Init
    <2> SUFFICES ASSUME Init PROVE Promise!Init
      OBVIOUS
    <2>1. \A t \in Thread : Place(t) = "out"
      BY PlaceFacts DEF Init
    <2> QED
      BY <2>1 DEF Promise!Init, Where
  <1>2. Inv /\ [Next]_vars => [Promise!Next]_Where
    <2> SUFFICES ASSUME Inv, [Next]_vars
                 PROVE  Promise!Next \/ UNCHANGED Where
      OBVIOUS
    <2>1. ASSUME NEW t \in Thread, Join(t) PROVE Promise!Enter(t)
      BY <2>1, EnlistEnters, ReenlistEnters DEF Join
    <2>2. ASSUME NEW t \in Thread, LeaveRunning(t) \/ LeaveWaiting(t) PROVE Promise!Exit(t)
      BY <2>2, LeaveExits
    <2>3. ASSUME NEW t \in Thread, Sync(t) PROVE Promise!Finish(t)
      BY <2>3, SyncFinishes
    <2>4. ASSUME NEW t \in Thread, Waiter(t) PROVE UNCHANGED Where
      BY <2>4, RestHidden
    <2>5. CASE LockHolder
      BY <2>5, ConsiderStarts, PhaseEnds, PassesHidden, RestHidden
         DEF LockHolder, Promise!Next
    <2>6. CASE UNCHANGED vars
      BY <2>6, RestHidden
    <2> QED
      BY <2>1, <2>2, <2>3, <2>4, <2>5, <2>6 DEF Next, Promise!Next
  <1> QED
    BY <1>1, <1>2, Invariance, PTL DEF Spec, PhasesKept, Promise!Spec
=============================================================================
