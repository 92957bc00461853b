------------------------- MODULE FutexMatchingProofs -------------------------
(***************************************************************************)
(* The counters that match futex wakers with the threads they woke, for    *)
(* any number of threads and any order of their calls.                     *)
(***************************************************************************)
EXTENDS FutexMatching, FiniteSetTheorems, TLAPS

(***************************************************************************)
(* The wakes that the match is exact for: a positive argument, and no more *)
(* threads than the cap on wakes.  A call with argument -1, UINT_MAX, is   *)
(* counted as WordSize - 1 threads woken and breaks WokenWithinMax.        *)
(***************************************************************************)
OrdinaryWakes ==
    /\ \A n \in WakeArguments : 0 < n /\ n < WordSize
    /\ Cardinality(Thread) <= WakeCap

(* The types that hold whatever the arguments of the calls are. *)
Typed ==
    /\ maxAllowedFutexWakeups \in Int /\ unmatchedFutexWakeups \in Int
    /\ action \in [Thread -> {"NONE", "WAKE", "WAIT"}]
    /\ maxWakes \in [Thread -> Nat]
    /\ wokenUp \in [Thread -> 0 .. WordSize - 1]
    /\ val \in [Thread -> Int]
    /\ pc \in [Thread -> Places]

-----------------------------------------------------------------------------
(* Sums. *)

(* A sum is a natural number. *)
LEMMA TotalIsNatural ==
    ASSUME NEW f \in [Thread -> Nat]
    PROVE  IsFiniteSet(Units(f)) /\ Total(f) \in Nat
  <1> DEFINE Own(t) == {t} \X (1 .. f[t])
             All == {Own(t) : t \in Thread}
             own == [t \in Thread |-> Own(t)]
  <1>1. \A t \in Thread : IsFiniteSet(Own(t))
    <2> SUFFICES ASSUME NEW t \in Thread PROVE IsFiniteSet(Own(t))
      OBVIOUS
    <2>1. IsFiniteSet({t})
      BY FS_Singleton
    <2>2. f[t] \in Int /\ 1 \in Int
      OBVIOUS
    <2>3. IsFiniteSet(1 .. f[t])
      BY <2>2, FS_Interval
    <2> QED
      BY <2>1, <2>3, FS_Product
  <1> HIDE DEF Own
  <1>2. own \in Surjection(Thread, All)
    BY DEF Surjection
  <1>3. IsFiniteSet(All)
    BY <1>2, FS_Surjection, ParameterAssumption
  <1>4. IsFiniteSet(UNION All)
    BY <1>1, <1>3, FS_UNION
  <1>5. Units(f) = UNION All
    BY DEF Units, Own
  <1> QED
    BY <1>4, <1>5, FS_CardinalityType DEF Total

(* Changing one term changes the sum by as much. *)
LEMMA TotalChanges ==
    ASSUME NEW f \in [Thread -> Nat], NEW t \in Thread, NEW n \in Nat
    PROVE  Total([f EXCEPT ![t] = n]) = Total(f) - f[t] + n
  <1> DEFINE g == [f EXCEPT ![t] = n]
             Rest == {u \in Units(f) : u[1] # t}
             Own(k) == {t} \X (1 .. k)
  <1>1. g \in [Thread -> Nat]
    OBVIOUS
  <1>2. IsFiniteSet(Units(f)) /\ IsFiniteSet(Rest) /\ Cardinality(Rest) \in Nat
    <2>1. IsFiniteSet(Units(f)) /\ Rest \subseteq Units(f)
      BY TotalIsNatural
    <2> QED
      BY <2>1, FS_Subset, FS_CardinalityType
  <1>3. ASSUME NEW h \in [Thread -> Nat], \A s \in Thread \ {t} : h[s] = f[s]
        PROVE  Total(h) = Cardinality(Rest) + h[t]
    <2>1. IsFiniteSet(Own(h[t])) /\ Cardinality(Own(h[t])) = h[t]
      <3>1. IsFiniteSet({t}) /\ Cardinality({t}) = 1
        BY FS_Singleton
      <3>2. IsFiniteSet(1 .. h[t]) /\ Cardinality(1 .. h[t]) = h[t]
        BY FS_Interval
      <3>3. IsFiniteSet(Own(h[t])) /\ Cardinality(Own(h[t])) = 1 * h[t]
        BY <3>1, <3>2, FS_Product
      <3> QED
        BY <3>3
    <2>2. Units(h) = Rest \cup Own(h[t])
      <3>1. \A u : u \in Units(h) <=> \E s \in Thread : u \in {s} \X (1 .. h[s])
        BY DEF Units
      <3>2. \A u : u \in Units(f) <=> \E s \in Thread : u \in {s} \X (1 .. f[s])
        BY DEF Units
      <3>3. ASSUME NEW u \in Units(h) PROVE u \in Rest \cup Own(h[t])
        <4>1. PICK s \in Thread : u \in {s} \X (1 .. h[s])
          BY <3>1
        <4>2. u[1] = s
          BY <4>1
        <4> QED
          BY <1>3, <3>2, <4>1, <4>2
      <3>4. ASSUME NEW u \in Rest PROVE u \in Units(h)
        <4>1. PICK s \in Thread : u \in {s} \X (1 .. f[s])
          BY <3>2
        <4>2. u[1] = s /\ u[1] # t
          BY <4>1
        <4> QED
          BY <1>3, <3>1, <4>1, <4>2
      <3>5. Own(h[t]) \subseteq Units(h)
        BY <3>1
      <3> QED
        BY <3>3, <3>4, <3>5
    <2>3. Rest \cap Own(h[t]) = {}
      OBVIOUS
    <2>4. Cardinality(Rest \cap Own(h[t])) = 0
      BY <2>3, FS_EmptySet
    <2>5. h[t] \in Nat
      OBVIOUS
    <2> HIDE DEF Rest, Own
    <2>6. Cardinality(Rest \cup Own(h[t])) = Cardinality(Rest) + Cardinality(Own(h[t])) - Cardinality(Rest \cap Own(h[t]))
      BY <1>2, <2>1, FS_Union
    <2> QED
      BY <1>2, <2>1, <2>2, <2>4, <2>5, <2>6 DEF Total
  <1>4. Total(f) = Cardinality(Rest) + f[t]
    BY <1>3
  <1>5. Total(g) = Cardinality(Rest) + n
    <2>1. \A s \in Thread \ {t} : g[s] = f[s]
      OBVIOUS
    <2>2. g[t] = n
      OBVIOUS
    <2> HIDE DEF g
    <2> QED
      BY <1>1, <1>3, <2>1, <2>2
  <1> QED
    BY <1>2, <1>4, <1>5

(* Smaller terms, smaller sum. *)
LEMMA TotalIsMonotonic ==
    ASSUME NEW f \in [Thread -> Nat], NEW g \in [Thread -> Nat], \A t \in Thread : f[t] <= g[t]
    PROVE  Total(f) <= Total(g)
  <1>1. Units(f) \subseteq Units(g)
    BY DEF Units
  <1> QED
    BY <1>1, TotalIsNatural, FS_Subset DEF Total

(* No terms, no sum. *)
LEMMA TotalOfNone ==
    ASSUME NEW f, \A t \in Thread : f[t] = 0
    PROVE  Total(f) = 0
  <1>1. Units(f) = {}
    BY DEF Units
  <1> QED
    BY <1>1, FS_EmptySet DEF Total

-----------------------------------------------------------------------------
(* The allowance, whatever the arguments of the calls. *)

(* The arguments and counts that a step may write are numbers. *)
LEMMA NumberTypes ==
    /\ \A n \in WakeArguments : n \in Int /\ Lesser(Unsigned(n), WakeCap) \in Nat
    /\ \A n \in Int : Unsigned(n) \in 0 .. WordSize - 1
    /\ \A m, n \in Int : Lesser(m, n) \in Int
    /\ IsFiniteSet(Thread)
  BY ParameterAssumption DEF Unsigned, Lesser

(* The terms of both sums are natural numbers. *)
NaturalTerms ==
    /\ Claims \in [Thread -> Nat] /\ Unmatched \in [Thread -> Nat]
    /\ \A t \in Thread : maxWakes[t] \in Nat /\ wokenUp[t] \in Nat

(* The types say so. *)
LEMMA TermsAreNatural == Typed => NaturalTerms
  <1> SUFFICES ASSUME Typed PROVE NaturalTerms
    OBVIOUS
  <1>1. \A t \in Thread : maxWakes[t] \in Nat /\ wokenUp[t] \in Nat
    BY ParameterAssumption DEF Typed
  <1> QED
    BY <1>1 DEF Claims, Unmatched, NaturalTerms

(* A sum over the threads changes by one thread's term if only that one does. *)
LEMMA TermChanges ==
    ASSUME NEW f \in [Thread -> Nat], NEW g \in [Thread -> Nat], NEW t \in Thread,
           \A s \in Thread \ {t} : g[s] = f[s]
    PROVE  Total(g) = Total(f) - f[t] + g[t] /\ Total(f) \in Nat /\ Total(g) \in Nat
  <1>1. g = [f EXCEPT ![t] = g[t]]
    OBVIOUS
  <1> QED
    BY <1>1, TotalChanges, TotalIsNatural

(* A waker that waits for its match looks at the count. *)
Looks(t) == SeeEnough(t) \/ SeeTooFew(t) \/ MatchIsGone(t)

(* One step of one thread. *)
StepOf(t) ==
    \/ WaitCall(t) \/ WaitFails(t) \/ ExternalWake(t)
    \/ notifyFutexWaitWoken(t) \/ futexWaitJoin(t)
    \/ notifyFutexWakeStart(t) \/ notifyFutexWakeEnd(t) \/ WakeFails(t)
    \/ futexWakeJoin(t) \/ Looks(t) \/ Match(t) \/ MatchTimesOut(t)

(* To look changes nothing but the point the thread has reached. *)
LEMMA LooksFacts ==
    ASSUME NEW t \in Thread, Looks(t), pc \in [Thread -> Places]
    PROVE  /\ UNCHANGED <<counters, joinInfo, strayed>>
           /\ pc[t] \in Matching /\ pc'[t] \in Matching /\ pc' \in [Thread -> Places]
           /\ \A s \in Thread \ {t} : pc'[s] = pc[s]
  BY DEF Looks, SeeEnough, SeeTooFew, MatchIsGone, Goes, Matching, Places

(* The end of a wake call: who is woken, and what is counted. *)
LEMMA WakeEndFacts ==
    ASSUME Typed, NEW t \in Thread, notifyFutexWakeEnd(t)
    PROVE  \E S \in SUBSET Thread, n \in Int :
              /\ \A w \in S : pc[w] = "waits"
              /\ Cardinality(S) <= (IF val[t] > 0 THEN val[t] ELSE 1)
              /\ n = Cardinality(S) \/ (n = Cardinality(S) + 1 /\ Cardinality(S) = val[t])
              /\ pc' = [w \in Thread |-> IF w \in S THEN "woken" ELSE IF w = t THEN "woke" ELSE pc[w]]
              /\ wokenUp' = [wokenUp EXCEPT ![t] = Unsigned(Lesser(n, val[t]))]
              /\ pc[t] = "wakes" /\ t \notin S
  <1>1. PICK S \in SUBSET {w \in Thread : pc[w] = "waits"} :
          /\ Cardinality(S) <= (IF val[t] > 0 THEN val[t] ELSE 1)
          /\ pc' = [w \in Thread |-> IF w \in S THEN "woken" ELSE IF w = t THEN "woke" ELSE pc[w]]
          /\ \E requeued \in IF Cardinality(S) = val[t] THEN 0 .. 1 ELSE {0} :
                wokenUp' = [wokenUp EXCEPT ![t] = Unsigned(Counted(Cardinality(S) + requeued, val[t]))]
    BY DEF notifyFutexWakeEnd
  <1>2. PICK requeued \in IF Cardinality(S) = val[t] THEN 0 .. 1 ELSE {0} :
          wokenUp' = [wokenUp EXCEPT ![t] = Unsigned(Counted(Cardinality(S) + requeued, val[t]))]
    BY <1>1
  <1>3. Cardinality(S) \in Nat
    <2>1. IsFiniteSet(S)
      BY NumberTypes, FS_Subset
    <2> QED
      BY <2>1, FS_CardinalityType
  <1>4. pc[t] = "wakes" /\ t \notin S
    BY DEF notifyFutexWakeEnd
  <1> DEFINE n == Cardinality(S) + requeued
  <1>5. n \in Int /\ (n = Cardinality(S) \/ (n = Cardinality(S) + 1 /\ Cardinality(S) = val[t]))
    BY <1>2, <1>3
  <1>6. wokenUp' = [wokenUp EXCEPT ![t] = Unsigned(Lesser(n, val[t]))]
    BY <1>2 DEF Counted
  <1>7. S \in SUBSET Thread /\ \A w \in S : pc[w] = "waits"
    OBVIOUS
  <1> HIDE DEF n
  <1> QED
    BY <1>1, <1>4, <1>5, <1>6, <1>7

(* Types. *)
LEMMA TypedStep ==
    ASSUME Typed, NEW t \in Thread, StepOf(t)
    PROVE  Typed'
  <1> USE DEF Typed
  <1>1. CASE WaitCall(t) \/ WaitFails(t) \/ ExternalWake(t)
    BY <1>1 DEF WaitCall, WaitFails, ExternalWake, Goes, counters, joinInfo, Places, Matching
  <1>2. CASE notifyFutexWaitWoken(t)
    BY <1>2 DEF notifyFutexWaitWoken, Goes, counters, Places, Matching
  <1>3. CASE futexWaitJoin(t)
    BY <1>3, ParameterAssumption DEF futexWaitJoin, Goes, Cleared, Places, Matching
  <1>4. CASE notifyFutexWakeStart(t)
    <2>1. PICK n \in WakeArguments :
            /\ val' = [val EXCEPT ![t] = n]
            /\ maxWakes' = [maxWakes EXCEPT ![t] = Lesser(Unsigned(n), WakeCap)]
      BY <1>4 DEF notifyFutexWakeStart
    <2>2. maxWakes' \in [Thread -> Nat] /\ val' \in [Thread -> Int]
      BY <2>1, NumberTypes
    <2>3. maxAllowedFutexWakeups' \in Int
      BY <1>4, <2>2 DEF notifyFutexWakeStart
    <2> QED
      BY <1>4, <2>2, <2>3 DEF notifyFutexWakeStart, Goes, Places, Matching
  <1>5. CASE notifyFutexWakeEnd(t)
    <2>1. PICK S \in SUBSET Thread, n \in Int :
             /\ \A w \in S : pc[w] = "waits"
             /\ Cardinality(S) <= (IF val[t] > 0 THEN val[t] ELSE 1)
             /\ n = Cardinality(S) \/ (n = Cardinality(S) + 1 /\ Cardinality(S) = val[t])
             /\ pc' = [w \in Thread |-> IF w \in S THEN "woken" ELSE IF w = t THEN "woke" ELSE pc[w]]
             /\ wokenUp' = [wokenUp EXCEPT ![t] = Unsigned(Lesser(n, val[t]))]
             /\ pc[t] = "wakes" /\ t \notin S
      <3> HIDE DEF Typed
      <3> QED
        BY <1>5, WakeEndFacts, Zenon
    <2>2. pc' \in [Thread -> Places]
      BY <2>1 DEF Places, Matching
    <2>3. Unsigned(Lesser(n, val[t])) \in 0 .. WordSize - 1
      BY NumberTypes
    <2>4. wokenUp' \in [Thread -> 0 .. WordSize - 1]
      BY <2>1, <2>3
    <2> QED
      BY <1>5, <2>2, <2>4 DEF notifyFutexWakeEnd, counters
  <1>6. CASE WakeFails(t)
    BY <1>6, ParameterAssumption DEF WakeFails, Goes, Cleared, counters, Places, Matching
  <1>7. CASE futexWakeJoin(t)
    BY <1>7, TermsAreNatural DEF NaturalTerms, futexWakeJoin, Goes, joinInfo, Places, Matching
  <1>8. CASE Match(t)
    BY <1>8, TermsAreNatural, ParameterAssumption DEF NaturalTerms, Match, Goes, Cleared, Places, Matching
  <1>9. CASE MatchTimesOut(t)
    BY <1>9, TermsAreNatural, ParameterAssumption DEF NaturalTerms, MatchTimesOut, Goes, Cleared, Places, Matching
  <1>10. CASE Looks(t)
    BY <1>10, LooksFacts DEF counters, joinInfo
  <1> QED
    BY <1>1, <1>2, <1>3, <1>4, <1>5, <1>6, <1>7, <1>8, <1>9, <1>10 DEF StepOf

(* A step changes the claim of its own thread only, and the allowance at least as much. *)
LEMMA ClaimOfStep ==
    ASSUME Typed, NEW t \in Thread, StepOf(t)
    PROVE  /\ \A s \in Thread \ {t} : Claims'[s] = Claims[s]
           /\ maxAllowedFutexWakeups' - Claims'[t] >= maxAllowedFutexWakeups - Claims[t]
  <1>1. Typed' /\ maxAllowedFutexWakeups \in Int /\ maxAllowedFutexWakeups' \in Int
    BY TypedStep DEF Typed
  <1>2. /\ \A s \in Thread : /\ maxWakes[s] \in Nat /\ wokenUp[s] \in Nat
                             /\ maxWakes'[s] \in Nat /\ wokenUp'[s] \in Nat
        /\ Claims \in [Thread -> Nat] /\ Claims' \in [Thread -> Nat]
    <2>1. NaturalTerms
      BY TermsAreNatural
    <2>2. NaturalTerms'
      BY <1>1, TermsAreNatural, PTL
    <2> QED
      BY <2>1, <2>2 DEF NaturalTerms
  <1> DEFINE Claim(p, m, w) == CASE p \in {"wakes", "woke"} -> m [] p \in Matching -> w [] OTHER -> 0
  <1>3. \A s \in Thread : /\ Claims[s] = Claim(pc[s], maxWakes[s], wokenUp[s])
                          /\ Claims'[s] = Claim(pc'[s], maxWakes'[s], wokenUp'[s])
    BY DEF Claims
  <1>4. pc \in [Thread -> Places] /\ maxWakes \in [Thread -> Nat] /\ wokenUp \in [Thread -> 0 .. WordSize - 1]
    BY DEF Typed
  <1>5. CASE WaitCall(t) \/ WaitFails(t) \/ ExternalWake(t)
    BY <1>1, <1>2, <1>3, <1>4, <1>5 DEF WaitCall, WaitFails, ExternalWake, Goes, counters, joinInfo, Matching
  <1>6. CASE notifyFutexWaitWoken(t)
    BY <1>1, <1>2, <1>3, <1>4, <1>6 DEF notifyFutexWaitWoken, Goes, counters, Matching
  <1>7. CASE futexWaitJoin(t)
    BY <1>1, <1>2, <1>3, <1>4, <1>7 DEF futexWaitJoin, Goes, Cleared, Matching
  <1>8. CASE notifyFutexWakeStart(t)
    BY <1>1, <1>2, <1>3, <1>4, <1>8 DEF notifyFutexWakeStart, Goes, Matching
  <1>9. CASE notifyFutexWakeEnd(t)
    <2>1. PICK S \in SUBSET Thread :
             /\ \A w \in S : pc[w] = "waits"
             /\ pc' = [w \in Thread |-> IF w \in S THEN "woken" ELSE IF w = t THEN "woke" ELSE pc[w]]
             /\ pc[t] = "wakes" /\ t \notin S
             /\ \A s \in Thread \ {t} : wokenUp'[s] = wokenUp[s]
      BY <1>9, WakeEndFacts DEF Typed
    <2>2. maxWakes' = maxWakes /\ maxAllowedFutexWakeups' = maxAllowedFutexWakeups
      BY <1>9 DEF notifyFutexWakeEnd, counters
    <2>3. Claims'[t] = Claims[t]
      BY <1>3, <2>1, <2>2 DEF Matching
    <2>4. \A s \in Thread \ {t} : Claims'[s] = Claims[s]
      BY <1>3, <2>1, <2>2 DEF Matching
    <2> QED
      BY <1>1, <1>2, <2>2, <2>3, <2>4
  <1>10. CASE WakeFails(t)
    BY <1>1, <1>2, <1>3, <1>4, <1>10 DEF WakeFails, Goes, Cleared, counters, Matching
  <1>11. CASE futexWakeJoin(t)
    BY <1>1, <1>2, <1>3, <1>4, <1>11 DEF futexWakeJoin, Goes, joinInfo, Matching
  <1>12. CASE Match(t)
    BY <1>1, <1>2, <1>3, <1>4, <1>12 DEF Match, Goes, Cleared, Matching
  <1>13. CASE MatchTimesOut(t)
    BY <1>1, <1>2, <1>3, <1>4, <1>13 DEF MatchTimesOut, Goes, Cleared, Matching
  <1>14. CASE Looks(t)
    <2>1. /\ maxAllowedFutexWakeups' = maxAllowedFutexWakeups /\ wokenUp' = wokenUp /\ maxWakes' = maxWakes
          /\ pc[t] \in Matching /\ pc'[t] \in Matching /\ \A s \in Thread \ {t} : pc'[s] = pc[s]
      BY <1>4, <1>14, LooksFacts DEF counters, joinInfo
    <2> QED
      BY <1>1, <1>2, <1>3, <2>1 DEF Matching
  <1> QED
    BY <1>5, <1>6, <1>7, <1>8, <1>9, <1>10, <1>11, <1>12, <1>13, <1>14 DEF StepOf

(* The allowance goes on covering the claims. *)
LEMMA AllowanceStep ==
    ASSUME Typed, AllowanceCovers, NEW t \in Thread, StepOf(t)
    PROVE  AllowanceCovers'
  <1>1. Typed' /\ maxAllowedFutexWakeups \in Int /\ maxAllowedFutexWakeups' \in Int
    BY TypedStep DEF Typed
  <1>2. Claims \in [Thread -> Nat] /\ Claims' \in [Thread -> Nat]
    <2>1. NaturalTerms
      BY TermsAreNatural
    <2>2. NaturalTerms'
      BY <1>1, TermsAreNatural, PTL
    <2> QED
      BY <2>1, <2>2 DEF NaturalTerms
  <1>3. /\ \A s \in Thread \ {t} : Claims'[s] = Claims[s]
        /\ maxAllowedFutexWakeups' - Claims'[t] >= maxAllowedFutexWakeups - Claims[t]
    BY ClaimOfStep
  <1>4. Total(Claims') = Total(Claims) - Claims[t] + Claims'[t] /\ Total(Claims) \in Nat
    <2> HIDE DEF Claims
    <2> QED
      BY <1>2, <1>3, TermChanges
  <1>5. Claims[t] \in Nat /\ Claims'[t] \in Nat
    BY <1>2
  <1>6. Total(Claims)' = Total(Claims')
    BY DEF Total, Units
  <1> QED
    BY <1>1, <1>3, <1>4, <1>5, <1>6 DEF AllowanceCovers

(* At first nothing is claimed. *)
LEMMA InitTotals == Init => Typed /\ Total(Claims) = 0 /\ Total(Unmatched) = 0
  <1> SUFFICES ASSUME Init PROVE Typed /\ Total(Claims) = 0 /\ Total(Unmatched) = 0
    OBVIOUS
  <1>1. Typed
    BY ParameterAssumption DEF Init, Typed, Places
  <1>2. (\A t \in Thread : Claims[t] = 0) /\ (\A t \in Thread : Unmatched[t] = 0)
    BY DEF Init, Claims, Unmatched, Matching
  <1> QED
    BY <1>1, <1>2, TotalOfNone

(***************************************************************************)
(* The allowance covers every wake under way, for all arguments of calls   *)
(* and with failed calls, wake-ups from outside and matches given up, so   *)
(* that futexWakeJoin() never wraps the counter around.                    *)
(***************************************************************************)
THEOREM AllowanceAlwaysCovers == Spec => []AllowanceCovers
  <1>1. Init => Typed /\ AllowanceCovers
    BY InitTotals DEF Init, AllowanceCovers
  <1>2. Typed /\ AllowanceCovers /\ [Next]_vars => (Typed /\ AllowanceCovers)'
    <2> SUFFICES ASSUME Typed, AllowanceCovers, [Next]_vars PROVE (Typed /\ AllowanceCovers)'
      OBVIOUS
    <2>1. CASE UNCHANGED vars
      BY <2>1 DEF vars, counters, joinInfo, Typed, AllowanceCovers, Claims, Total, Units
    <2>2. CASE Next
      <3>1. PICK t \in Thread : StepOf(t)
        BY <2>2 DEF Next, StepOf, Looks
      <3> QED
        BY <3>1, TypedStep, AllowanceStep
    <2> QED
      BY <2>1, <2>2
  <1> QED
    BY <1>1, <1>2, PTL DEF Spec
-----------------------------------------------------------------------------
(* The match, when the calls are ordinary. *)

(* The threads woken that have not joined yet. *)
Waking == At("woken") \cup At("joins")

(* Without strays, they and the wake-ups counted make up those unmatched. *)
Exact == ~strayed => unmatchedFutexWakeups + Cardinality(Waking) = Total(Unmatched)

(* A call under way was given one of the arguments, and announced it. *)
Called == \A t \in Thread :
    pc[t] = "wakes" => val[t] \in WakeArguments /\ maxWakes[t] = Lesser(val[t], WakeCap)

(* The inductive invariant. *)
Inv == TypeOK /\ AllowanceCovers /\ Called /\ WokenWithinMax /\ Exact

(* It includes what the first part relies on. *)
LEMMA InvIsTyped == Inv => Typed
  <1> SUFFICES ASSUME TypeOK PROVE Typed
    BY DEF Inv
  <1>1. maxAllowedFutexWakeups \in Int /\ unmatchedFutexWakeups \in Int
    BY ParameterAssumption DEF TypeOK
  <1>2. maxWakes \in [Thread -> Nat]
    BY ParameterAssumption DEF TypeOK
  <1>3. val \in [Thread -> Int]
    <2>1. WakeArguments \cup {0} \subseteq Int
      BY ParameterAssumption
    <2> QED
      BY <2>1 DEF TypeOK
  <1> QED
    BY <1>1, <1>2, <1>3 DEF TypeOK, Typed

(* An ordinary wake counts exactly the threads it wakes, no more than it announced. *)
LEMMA OrdinaryWakeEnd ==
    ASSUME OrdinaryWakes, Inv, NEW t \in Thread, notifyFutexWakeEnd(t)
    PROVE  \E S \in SUBSET Thread :
              /\ \A w \in S : pc[w] = "waits"
              /\ pc' = [w \in Thread |-> IF w \in S THEN "woken" ELSE IF w = t THEN "woke" ELSE pc[w]]
              /\ wokenUp' = [wokenUp EXCEPT ![t] = Cardinality(S)]
              /\ pc[t] = "wakes" /\ t \notin S
              /\ Cardinality(S) \in Nat /\ Cardinality(S) <= maxWakes[t]
  <1>1. PICK S \in SUBSET Thread, n \in Int :
              /\ \A w \in S : pc[w] = "waits"
              /\ Cardinality(S) <= (IF val[t] > 0 THEN val[t] ELSE 1)
              /\ n = Cardinality(S) \/ (n = Cardinality(S) + 1 /\ Cardinality(S) = val[t])
              /\ pc' = [w \in Thread |-> IF w \in S THEN "woken" ELSE IF w = t THEN "woke" ELSE pc[w]]
              /\ wokenUp' = [wokenUp EXCEPT ![t] = Unsigned(Lesser(n, val[t]))]
              /\ pc[t] = "wakes" /\ t \notin S
    BY InvIsTyped, WakeEndFacts
  <1>2. val[t] \in Int /\ 0 < val[t] /\ val[t] < WordSize /\ maxWakes[t] = Lesser(val[t], WakeCap)
    BY <1>1, ParameterAssumption DEF Inv, Called, OrdinaryWakes
  <1>3. Cardinality(S) \in Nat /\ Cardinality(S) <= WakeCap
    <2>1. IsFiniteSet(S) /\ Cardinality(S) <= Cardinality(Thread) /\ Cardinality(Thread) \in Nat
      BY ParameterAssumption, FS_Subset, FS_CardinalityType
    <2>2. Cardinality(S) \in Nat
      BY <2>1, FS_CardinalityType
    <2> QED
      BY <2>1, <2>2, ParameterAssumption DEF OrdinaryWakes
  <1>4. Cardinality(S) <= val[t] /\ Lesser(n, val[t]) = Cardinality(S)
    BY <1>1, <1>2, <1>3 DEF Lesser
  <1>5. Unsigned(Lesser(n, val[t])) = Cardinality(S)
    BY <1>2, <1>3, <1>4, ParameterAssumption DEF Unsigned
  <1>6. Cardinality(S) <= maxWakes[t]
    BY <1>2, <1>3, <1>4, ParameterAssumption DEF Lesser
  <1> QED
    BY <1>1, <1>3, <1>5, <1>6

(* Types, with the bounds of the counters. *)
LEMMA TypeStep ==
    ASSUME Inv, AllowanceCovers', NEW t \in Thread, StepOf(t)
    PROVE  TypeOK'
  <1>1. Typed /\ Typed'
    BY InvIsTyped, TypedStep
  <1>2. maxAllowedFutexWakeups' >= 0
    <2>1. NaturalTerms'
      BY <1>1, TermsAreNatural, PTL
    <2>2. Total(Claims') \in Nat
      BY <2>1, TotalIsNatural DEF NaturalTerms
    <2>3. Total(Claims)' = Total(Claims')
      BY DEF Total, Units
    <2> QED
      BY <1>1, <2>2, <2>3 DEF AllowanceCovers, Typed
  <1>3. /\ maxAllowedFutexWakeups \in 0 .. MaxAllowance /\ unmatchedFutexWakeups \in 0 .. MaxAllowance
        /\ maxWakes \in [Thread -> 0 .. WakeCap] /\ wokenUp \in [Thread -> 0 .. WordSize - 1]
        /\ val \in [Thread -> WakeArguments \cup {0}] /\ strayed \in BOOLEAN /\ WokenWithinMax
    BY DEF Inv, TypeOK
  <1>4. /\ maxAllowedFutexWakeups' \in Int /\ unmatchedFutexWakeups' \in Int
        /\ action' \in [Thread -> {"NONE", "WAKE", "WAIT"}] /\ pc' \in [Thread -> Places]
        /\ wokenUp' \in [Thread -> 0 .. WordSize - 1]
    BY <1>1 DEF Typed
  <1>5. /\ maxAllowedFutexWakeups' <= MaxAllowance /\ unmatchedFutexWakeups' \in 0 .. MaxAllowance
        /\ maxWakes' \in [Thread -> 0 .. WakeCap] /\ val' \in [Thread -> WakeArguments \cup {0}]
        /\ strayed' \in BOOLEAN
    <2>1. CASE WaitCall(t) \/ WaitFails(t) \/ ExternalWake(t)
      <3>1. UNCHANGED <<counters, joinInfo>>
        BY <2>1 DEF WaitCall, WaitFails, ExternalWake
      <3>2. strayed' \in BOOLEAN
        BY <1>3, <2>1 DEF WaitCall, WaitFails, ExternalWake
      <3> QED
        BY <1>3, <3>1, <3>2 DEF counters, joinInfo
    <2>2. CASE notifyFutexWaitWoken(t)
      BY <1>3, <2>2, ParameterAssumption DEF notifyFutexWaitWoken, counters
    <2>3. CASE futexWaitJoin(t)
      BY <1>3, <2>3, ParameterAssumption DEF futexWaitJoin, Cleared
    <2>4. CASE notifyFutexWakeStart(t)
      <3>1. PICK n \in WakeArguments :
              /\ val' = [val EXCEPT ![t] = n]
              /\ maxWakes' = [maxWakes EXCEPT ![t] = Lesser(Unsigned(n), WakeCap)]
        BY <2>4 DEF notifyFutexWakeStart
      <3>2. Lesser(Unsigned(n), WakeCap) \in 0 .. WakeCap
        BY ParameterAssumption DEF Lesser, Unsigned
      <3>3. maxWakes' \in [Thread -> 0 .. WakeCap] /\ val' \in [Thread -> WakeArguments \cup {0}]
        BY <1>3, <3>1, <3>2
      <3> QED
        BY <1>3, <2>4, <3>3 DEF notifyFutexWakeStart
    <2>5. CASE notifyFutexWakeEnd(t)
      BY <1>3, <2>5, ParameterAssumption DEF notifyFutexWakeEnd, counters
    <2>6. CASE WakeFails(t)
      BY <1>3, <2>6, ParameterAssumption DEF WakeFails, Cleared, counters
    <2>7. CASE futexWakeJoin(t)
      <3>1. wokenUp[t] <= maxWakes[t] /\ wokenUp[t] \in Int /\ maxWakes[t] \in Int
        BY <1>3, <2>7, ParameterAssumption DEF futexWakeJoin, Goes, WokenWithinMax, At
      <3> QED
        BY <1>3, <2>7, <3>1, ParameterAssumption DEF futexWakeJoin, joinInfo
    <2>8. CASE Match(t)
      BY <1>3, <2>8, ParameterAssumption DEF Match, Cleared
    <2>9. CASE MatchTimesOut(t)
      <3>1. 0 \in 0 .. MaxAllowance /\ 0 \in 0 .. WakeCap
        BY ParameterAssumption
      <3>2. wokenUp[t] \in Nat
        BY <1>3, ParameterAssumption
      <3>3. maxWakes' \in [Thread -> 0 .. WakeCap] /\ val' \in [Thread -> WakeArguments \cup {0}]
        BY <1>3, <2>9, <3>1 DEF MatchTimesOut, Cleared
      <3> QED
        BY <1>3, <2>9, <3>1, <3>2, <3>3, ParameterAssumption DEF MatchTimesOut
    <2>10. CASE Looks(t)
      <3>1. UNCHANGED <<counters, joinInfo, strayed>>
        BY <2>10 DEF Looks, SeeEnough, SeeTooFew, MatchIsGone
      <3> QED
        BY <1>3, <3>1 DEF counters, joinInfo
    <2> QED
      BY <2>1, <2>2, <2>3, <2>4, <2>5, <2>6, <2>7, <2>8, <2>9, <2>10 DEF StepOf
  <1> QED
    BY <1>2, <1>4, <1>5, ParameterAssumption DEF TypeOK

(* What a call announced is not changed while it lasts, and it wakes no more. *)
LEMMA CallStep ==
    ASSUME OrdinaryWakes, Inv, NEW t \in Thread, StepOf(t)
    PROVE  Called' /\ WokenWithinMax'
  <1>1. /\ pc \in [Thread -> Places] /\ val \in [Thread -> WakeArguments \cup {0}]
        /\ maxWakes \in [Thread -> 0 .. WakeCap] /\ wokenUp \in [Thread -> 0 .. WordSize - 1]
        /\ \A s \in Thread : pc[s] = "wakes" => val[s] \in WakeArguments /\ maxWakes[s] = Lesser(val[s], WakeCap)
        /\ \A s \in Thread : pc[s] = "woke" => wokenUp[s] <= maxWakes[s]
    BY DEF Inv, TypeOK, Called, WokenWithinMax, At
  <1> SUFFICES /\ \A s \in Thread : pc'[s] = "wakes" => val'[s] \in WakeArguments /\ maxWakes'[s] = Lesser(val'[s], WakeCap)
               /\ \A s \in Thread : pc'[s] = "woke" => wokenUp'[s] <= maxWakes'[s]
    BY DEF Called, WokenWithinMax, At
  <1>2. CASE WaitCall(t) \/ WaitFails(t) \/ ExternalWake(t)
    BY <1>1, <1>2 DEF WaitCall, WaitFails, ExternalWake, Goes, joinInfo
  <1>3. CASE notifyFutexWaitWoken(t)
    BY <1>1, <1>3 DEF notifyFutexWaitWoken, Goes
  <1>4. CASE futexWaitJoin(t)
    BY <1>1, <1>4 DEF futexWaitJoin, Goes, Cleared
  <1>5. CASE notifyFutexWakeStart(t)
    <2>1. PICK n \in WakeArguments :
            /\ val' = [val EXCEPT ![t] = n]
            /\ maxWakes' = [maxWakes EXCEPT ![t] = Lesser(Unsigned(n), WakeCap)]
      BY <1>5 DEF notifyFutexWakeStart
    <2>2. Unsigned(n) = n
      BY ParameterAssumption DEF OrdinaryWakes, Unsigned
    <2>3. /\ val'[t] = n /\ maxWakes'[t] = Lesser(n, WakeCap) /\ pc'[t] = "wakes"
          /\ \A s \in Thread \ {t} : val'[s] = val[s] /\ maxWakes'[s] = maxWakes[s] /\ pc'[s] = pc[s]
      BY <1>1, <1>5, <2>1, <2>2 DEF notifyFutexWakeStart, Goes
    <2>4. wokenUp' = wokenUp
      BY <1>5 DEF notifyFutexWakeStart
    <2> QED
      BY <1>1, <2>3, <2>4
  <1>6. CASE notifyFutexWakeEnd(t)
    <2>1. PICK S \in SUBSET Thread :
              /\ pc' = [w \in Thread |-> IF w \in S THEN "woken" ELSE IF w = t THEN "woke" ELSE pc[w]]
              /\ wokenUp' = [wokenUp EXCEPT ![t] = Cardinality(S)]
              /\ Cardinality(S) <= maxWakes[t]
      BY <1>6, OrdinaryWakeEnd
    <2>2. maxWakes' = maxWakes /\ val' = val
      BY <1>6 DEF notifyFutexWakeEnd
    <2>3. wokenUp'[t] = Cardinality(S) /\ \A s \in Thread \ {t} : wokenUp'[s] = wokenUp[s]
      BY <1>1, <2>1
    <2>4. pc'[t] # "wakes" /\ \A s \in Thread \ {t} : pc'[s] = pc[s] \/ pc'[s] = "woken"
      BY <2>1
    <2> QED
      BY <1>1, <2>1, <2>2, <2>3, <2>4
  <1>7. CASE WakeFails(t)
    BY <1>1, <1>7 DEF WakeFails, Goes, Cleared
  <1>8. CASE futexWakeJoin(t)
    BY <1>1, <1>8 DEF futexWakeJoin, Goes, joinInfo
  <1>9. CASE Match(t) \/ MatchTimesOut(t)
    BY <1>1, <1>9 DEF Match, MatchTimesOut, Goes, Cleared
  <1>10. CASE Looks(t)
    <2>1. UNCHANGED <<val, maxWakes, wokenUp>> /\ pc'[t] \in Matching /\ \A s \in Thread \ {t} : pc'[s] = pc[s]
      BY <1>1, <1>10, LooksFacts DEF joinInfo
    <2> QED
      BY <1>1, <2>1 DEF Matching
  <1> QED
    BY <1>2, <1>3, <1>4, <1>5, <1>6, <1>7, <1>8, <1>9, <1>10 DEF StepOf

(* The sum over the threads unmatched changes by one thread's term. *)
LEMMA UnmatchedChanges ==
    ASSUME Typed, Typed', NEW t \in Thread,
           \A s \in Thread \ {t} : Unmatched'[s] = Unmatched[s]
    PROVE  /\ Total(Unmatched)' = Total(Unmatched) - Unmatched[t] + Unmatched'[t]
           /\ Total(Unmatched) \in Nat /\ Unmatched[t] \in Nat /\ Unmatched'[t] \in Nat
  <1>1. NaturalTerms /\ NaturalTerms'
    BY TermsAreNatural, PTL
  <1>2. Unmatched \in [Thread -> Nat] /\ Unmatched' \in [Thread -> Nat]
    BY <1>1 DEF NaturalTerms
  <1>3. Total(Unmatched') = Total(Unmatched) - Unmatched[t] + Unmatched'[t] /\ Total(Unmatched) \in Nat
    <2> HIDE DEF Unmatched
    <2> QED
      BY <1>2, TermChanges
  <1>4. Total(Unmatched)' = Total(Unmatched')
    BY DEF Total, Units
  <1> QED
    BY <1>2, <1>3, <1>4

(* There are never more threads unmatched than the allowance covers. *)
LEMMA UnmatchedIsCovered ==
    ASSUME Inv
    PROVE  Total(Unmatched) <= maxAllowedFutexWakeups
  <1>1. NaturalTerms
    BY InvIsTyped, TermsAreNatural
  <1>2. \A t \in Thread : Unmatched[t] <= Claims[t]
    BY <1>1 DEF Inv, WokenWithinMax, At, NaturalTerms, Unmatched, Claims, Matching
  <1>3. Total(Unmatched) <= Total(Claims) /\ Total(Unmatched) \in Nat /\ Total(Claims) \in Nat
    BY <1>1, <1>2, TotalIsMonotonic, TotalIsNatural DEF NaturalTerms
  <1> QED
    BY <1>3 DEF Inv, AllowanceCovers, TypeOK

(* The threads woken and not joined are a finite set. *)
LEMMA WakingIsFinite ==
    IsFiniteSet(Waking) /\ Cardinality(Waking) \in Nat
  <1>1. Waking \subseteq Thread
    BY DEF Waking, At
  <1> QED
    BY <1>1, ParameterAssumption, FS_Subset, FS_CardinalityType

(* Most steps wake nobody, end no wait, and match nothing. *)
LEMMA NothingMatched ==
    ASSUME Inv, Typed', NEW t \in Thread, ~strayed,
           unmatchedFutexWakeups' = unmatchedFutexWakeups,
           Waking' = Waking, \A s \in Thread : Unmatched'[s] = Unmatched[s]
    PROVE  Exact'
  <1>1. Total(Unmatched)' = Total(Unmatched)
    BY InvIsTyped, UnmatchedChanges
  <1> QED
    BY <1>1 DEF Inv, Exact

(* The match goes on being exact. *)
LEMMA ExactStep ==
    ASSUME OrdinaryWakes, Inv, NEW t \in Thread, StepOf(t)
    PROVE  Exact'
  <1>1. Typed /\ Typed'
    BY InvIsTyped, TypedStep
  <1>2. pc \in [Thread -> Places] /\ unmatchedFutexWakeups \in Nat /\ maxAllowedFutexWakeups \in Nat
    BY ParameterAssumption DEF Inv, TypeOK
  <1>3. CASE strayed'
    BY <1>3 DEF Exact
  <1> SUFFICES ASSUME ~strayed' PROVE Exact'
    BY <1>3
  <1>4. ~strayed
    BY DEF StepOf, WaitCall, WaitFails, ExternalWake, notifyFutexWaitWoken, futexWaitJoin, notifyFutexWakeStart,
           notifyFutexWakeEnd, WakeFails, futexWakeJoin, Looks, SeeEnough, SeeTooFew, MatchIsGone, Match, MatchTimesOut
  <1>5. unmatchedFutexWakeups + Cardinality(Waking) = Total(Unmatched)
    BY <1>4 DEF Inv, Exact
  <1>6. \A w : w \in Waking <=> w \in Thread /\ pc[w] \in {"woken", "joins"}
    BY DEF Waking, At
  <1>7. \A w : w \in Waking' <=> w \in Thread /\ pc'[w] \in {"woken", "joins"}
    BY DEF Waking, At
  <1>8. \A s \in Thread : /\ Unmatched[s] = IF pc[s] \in {"woke"} \cup Matching THEN wokenUp[s] ELSE 0
                          /\ Unmatched'[s] = IF pc'[s] \in {"woke"} \cup Matching THEN wokenUp'[s] ELSE 0
    BY DEF Unmatched
  <1>9. wokenUp \in [Thread -> 0 .. WordSize - 1]
    BY DEF Inv, TypeOK
  <1>10. IsFiniteSet(Waking) /\ Cardinality(Waking) \in Nat
    BY WakingIsFinite
  <1>11. CASE WaitCall(t) \/ WaitFails(t) \/ notifyFutexWaitWoken(t) \/ notifyFutexWakeStart(t) \/ WakeFails(t) \/ futexWakeJoin(t)
    <2>1. /\ unmatchedFutexWakeups' = unmatchedFutexWakeups
          /\ \A s \in Thread \ {t} : pc'[s] = pc[s] /\ wokenUp'[s] = wokenUp[s]
          /\ \/ wokenUp' = wokenUp /\ <<pc[t], pc'[t]>> \in {<<"app", "waits">>, <<"waits", "app">>, <<"woken", "joins">>,
                                                           <<"app", "wakes">>, <<"woke", "matching">>}
             \/ pc[t] = "wakes" /\ pc'[t] = "app"
      BY <1>2, <1>9, <1>11 DEF WaitCall, WaitFails, notifyFutexWaitWoken, notifyFutexWakeStart, WakeFails, futexWakeJoin,
           Goes, Cleared, counters, joinInfo
    <2>2. Waking' = Waking
      BY <1>6, <1>7, <2>1
    <2>3. \A s \in Thread : Unmatched'[s] = Unmatched[s]
      BY <1>8, <2>1 DEF Matching
    <2> QED
      BY <1>1, <1>4, <2>1, <2>2, <2>3, NothingMatched
  <1>12. CASE ExternalWake(t) \/ MatchTimesOut(t)
    BY <1>12 DEF ExternalWake, MatchTimesOut
  <1>13. CASE futexWaitJoin(t)
    <2>1. /\ pc[t] = "joins" /\ pc'[t] = "app"
          /\ \A s \in Thread \ {t} : pc'[s] = pc[s] /\ wokenUp'[s] = wokenUp[s]
      BY <1>2, <1>9, <1>13 DEF futexWaitJoin, Goes, Cleared
    <2>2. t \in Waking /\ Waking' = Waking \ {t}
      BY <1>6, <1>7, <2>1
    <2>3. Cardinality(Waking') = Cardinality(Waking) - 1 /\ Cardinality(Waking') \in Nat
      BY <1>10, <2>2, FS_RemoveElement, FS_CardinalityType
    <2>4. Total(Unmatched)' = Total(Unmatched) /\ Total(Unmatched) \in Nat
      <3>1. \A s \in Thread : Unmatched'[s] = Unmatched[s]
        BY <1>8, <2>1 DEF Matching
      <3> QED
        BY <1>1, <3>1, UnmatchedChanges
    <2>5. Total(Unmatched) <= maxAllowedFutexWakeups
      BY UnmatchedIsCovered
    <2>6. unmatchedFutexWakeups < maxAllowedFutexWakeups
      BY <1>2, <1>5, <1>10, <2>3, <2>4, <2>5
    <2>7. unmatchedFutexWakeups' = unmatchedFutexWakeups + 1
      BY <1>2, <1>13, <2>6 DEF futexWaitJoin
    <2>8. unmatchedFutexWakeups' + Cardinality(Waking)' = Total(Unmatched)'
      <3>1. Cardinality(Waking)' = Cardinality(Waking')
        OBVIOUS
      <3> QED
        BY <1>2, <1>5, <1>10, <2>3, <2>4, <2>7, <3>1
    <2> QED
      BY <2>8 DEF Exact
  <1>14. CASE notifyFutexWakeEnd(t)
    <2>1. PICK S \in SUBSET Thread :
              /\ \A w \in S : pc[w] = "waits"
              /\ pc' = [w \in Thread |-> IF w \in S THEN "woken" ELSE IF w = t THEN "woke" ELSE pc[w]]
              /\ wokenUp' = [wokenUp EXCEPT ![t] = Cardinality(S)]
              /\ pc[t] = "wakes" /\ t \notin S
              /\ Cardinality(S) \in Nat
      BY <1>14, OrdinaryWakeEnd
    <2>2. Waking' = Waking \cup S /\ Waking \cap S = {}
      BY <1>6, <1>7, <2>1
    <2>3. Cardinality(Waking') = Cardinality(Waking) + Cardinality(S)
      <3>1. IsFiniteSet(S)
        BY ParameterAssumption, FS_Subset
      <3>2. Cardinality(Waking \cup S) = Cardinality(Waking) + Cardinality(S) - Cardinality(Waking \cap S)
        BY <1>10, <3>1, FS_Union
      <3>3. Cardinality(Waking \cap S) = 0
        BY <2>2, FS_EmptySet
      <3> QED
        BY <1>10, <2>1, <2>2, <3>2, <3>3
    <2>4. /\ \A s \in Thread \ {t} : Unmatched'[s] = Unmatched[s]
          /\ Unmatched[t] = 0 /\ Unmatched'[t] = Cardinality(S)
      <3>1. wokenUp'[t] = Cardinality(S) /\ \A s \in Thread \ {t} : wokenUp'[s] = wokenUp[s]
        BY <1>9, <2>1
      <3>2. pc'[t] = "woke"
        BY <2>1
      <3>3. ASSUME NEW s \in Thread \ {t} PROVE Unmatched'[s] = Unmatched[s]
        BY <1>8, <2>1, <3>1 DEF Matching
      <3> QED
        BY <1>8, <2>1, <3>1, <3>2, <3>3 DEF Matching
    <2>5. Total(Unmatched)' = Total(Unmatched) + Cardinality(S) /\ Total(Unmatched) \in Nat
      BY <1>1, <2>1, <2>4, UnmatchedChanges
    <2>6. unmatchedFutexWakeups' = unmatchedFutexWakeups
      BY <1>14 DEF notifyFutexWakeEnd, counters
    <2>7. unmatchedFutexWakeups' + Cardinality(Waking)' = Total(Unmatched)'
      <3>1. Cardinality(Waking)' = Cardinality(Waking')
        OBVIOUS
      <3> QED
        BY <1>2, <1>5, <1>10, <2>1, <2>3, <2>5, <2>6, <3>1
    <2> QED
      BY <2>7 DEF Exact
  <1>15. CASE Match(t)
    <2>1. /\ pc[t] = "seen" /\ pc'[t] = "app" /\ unmatchedFutexWakeups' = unmatchedFutexWakeups - wokenUp[t]
          /\ \A s \in Thread \ {t} : pc'[s] = pc[s] /\ wokenUp'[s] = wokenUp[s]
      BY <1>2, <1>9, <1>15 DEF Match, Goes, Cleared
    <2>2. Waking' = Waking
      BY <1>6, <1>7, <2>1
    <2>3. /\ \A s \in Thread \ {t} : Unmatched'[s] = Unmatched[s]
          /\ Unmatched[t] = wokenUp[t] /\ Unmatched'[t] = 0
      BY <1>8, <2>1 DEF Matching
    <2>4. Total(Unmatched)' = Total(Unmatched) - wokenUp[t] /\ Total(Unmatched) \in Nat /\ wokenUp[t] \in Nat
      BY <1>1, <2>3, UnmatchedChanges
    <2>5. unmatchedFutexWakeups' + Cardinality(Waking)' = Total(Unmatched)'
      <3>1. Cardinality(Waking)' = Cardinality(Waking)
        BY <2>2
      <3> QED
        BY <1>2, <1>5, <1>10, <2>1, <2>4, <3>1
    <2> QED
      BY <2>5 DEF Exact
  <1>16. CASE Looks(t)
    <2>1. /\ unmatchedFutexWakeups' = unmatchedFutexWakeups /\ wokenUp' = wokenUp
          /\ pc[t] \in Matching /\ pc'[t] \in Matching /\ \A s \in Thread \ {t} : pc'[s] = pc[s]
      BY <1>2, <1>16, LooksFacts DEF counters, joinInfo
    <2>2. Waking' = Waking
      BY <1>6, <1>7, <2>1 DEF Matching
    <2>3. \A s \in Thread : Unmatched'[s] = Unmatched[s]
      BY <1>8, <2>1
    <2> QED
      BY <1>1, <1>4, <2>1, <2>2, <2>3, NothingMatched
  <1> QED
    BY <1>11, <1>12, <1>13, <1>14, <1>15, <1>16 DEF StepOf

(***************************************************************************)
(* The invariant holds in every reachable state, if the wakes are ordinary. *)
(***************************************************************************)
THEOREM InvAlways ==
    ASSUME OrdinaryWakes
    PROVE  Spec => []Inv
  <1>1. Init => Inv
    <2> SUFFICES ASSUME Init PROVE Inv
      OBVIOUS
    <2>1. TypeOK
      <3>1. 0 \in 0 .. MaxAllowance /\ 0 \in 0 .. WakeCap /\ 0 \in 0 .. WordSize - 1
        BY ParameterAssumption
      <3> QED
        BY <3>1 DEF Init, TypeOK, Places
    <2>2. Waking = {}
      BY DEF Init, Waking, At
    <2>3. Cardinality(Waking) = 0
      BY <2>2, FS_EmptySet
    <2>4. AllowanceCovers /\ Exact
      BY <2>3, InitTotals DEF Init, AllowanceCovers, Exact
    <2>5. Called /\ WokenWithinMax
      BY DEF Init, Called, WokenWithinMax, At
    <2> QED
      BY <2>1, <2>4, <2>5 DEF Inv
  <1>2. Inv /\ [Next]_vars => Inv'
    <2> SUFFICES ASSUME Inv, [Next]_vars PROVE Inv'
      OBVIOUS
    <2>1. CASE UNCHANGED vars
      BY <2>1 DEF vars, counters, joinInfo, Inv, TypeOK, AllowanceCovers, Called, WokenWithinMax, Exact,
                  Waking, At, Claims, Unmatched, Total, Units
    <2>2. CASE Next
      <3>1. PICK t \in Thread : StepOf(t)
        BY <2>2 DEF Next, StepOf, Looks
      <3>2. AllowanceCovers'
        BY <3>1, InvIsTyped, AllowanceStep DEF Inv
      <3> QED
        BY <3>1, <3>2, TypeStep, CallStep, ExactStep DEF Inv
    <2> QED
      BY <2>1, <2>2
  <1> QED
    BY <1>1, <1>2, PTL DEF Spec

(***************************************************************************)
(* The wake-ups counted are exactly those of the wakers that still wait,   *)
(* and every counter keeps its type: futexWaitJoin() drops no wake-up, and *)
(* futexWakeJoin() takes away those of its own thread only.                *)
(***************************************************************************)
THEOREM MatchesAlwaysExact ==
    ASSUME OrdinaryWakes
    PROVE  Spec => []MatchesExact
  <1>1. Inv => MatchesExact
    BY DEF Inv, Exact, Waking, MatchesExact
  <1> QED
    BY <1>1, InvAlways, PTL

(***************************************************************************)
(* The assertion of futexWakeJoin() on the wake-ups that are still allowed *)
(* (scheduler.cpp:334) holds for ordinary wakes until a thread is woken    *)
(* from outside or a match is given up: the other wakers' claims pay for   *)
(* the wake-ups of theirs that are counted.                                *)
(***************************************************************************)
THEOREM UnmatchedAlwaysAllowed ==
    ASSUME OrdinaryWakes
    PROVE  Spec => []UnmatchedAllowed
  <1>1. Inv => UnmatchedAllowed
    <2> SUFFICES ASSUME Inv, ~strayed, NEW t \in Thread, pc[t] = "woke"
                 PROVE  unmatchedFutexWakeups <= maxAllowedFutexWakeups - (maxWakes[t] - wokenUp[t])
      BY DEF UnmatchedAllowed, At
    <2> DEFINE rest == [Claims EXCEPT ![t] = wokenUp[t]]
    <2>1. NaturalTerms
      BY InvIsTyped, TermsAreNatural
    <2>2. Claims \in [Thread -> Nat] /\ Unmatched \in [Thread -> Nat] /\ wokenUp[t] \in Nat /\ maxWakes[t] \in Nat
      BY <2>1 DEF NaturalTerms
    <2>3. Claims[t] = maxWakes[t]
      BY DEF Claims, Matching
    <2>4. rest \in [Thread -> Nat]
      BY <2>2
    <2>5. \A s \in Thread : Unmatched[s] <= rest[s]
      <3>1. ASSUME NEW s \in Thread \ {t} PROVE Unmatched[s] <= Claims[s]
        BY <2>1 DEF Inv, WokenWithinMax, At, NaturalTerms, Unmatched, Claims, Matching
      <3>2. Unmatched[t] = wokenUp[t]
        BY DEF Unmatched
      <3> QED
        BY <2>2, <3>1, <3>2
    <2>6. Total(rest) = Total(Claims) - maxWakes[t] + wokenUp[t]
      <3> HIDE DEF Claims
      <3> QED
        BY <2>2, <2>3, TotalChanges
    <2>7. Total(Unmatched) <= Total(rest)
      <3> HIDE DEF rest, Unmatched
      <3> QED
        BY <2>2, <2>4, <2>5, TotalIsMonotonic
    <2>8. Total(Claims) \in Nat /\ Total(Unmatched) \in Nat /\ Total(rest) \in Nat
      <3> HIDE DEF rest, Unmatched, Claims
      <3> QED
        BY <2>2, <2>4, TotalIsNatural
    <2>9. unmatchedFutexWakeups + Cardinality(Waking) = Total(Unmatched) /\ Cardinality(Waking) \in Nat
      BY WakingIsFinite DEF Inv, Exact
    <2>10. /\ maxAllowedFutexWakeups >= Total(Claims)
           /\ maxAllowedFutexWakeups \in Int /\ unmatchedFutexWakeups \in Int
      BY InvIsTyped DEF Inv, AllowanceCovers, Typed
    <2> HIDE DEF rest
    <2> QED
      BY <2>2, <2>6, <2>7, <2>8, <2>9, <2>10
  <1> QED
    BY <1>1, InvAlways, PTL
=============================================================================
