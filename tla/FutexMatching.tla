---------------------------- MODULE FutexMatching ----------------------------
(***************************************************************************)
(* How the scheduler matches futex wake-ups with the threads woken         *)
(* (scheduler.cpp, virt/timeout.cpp): a simulated thread that wakes others *)
(* does not go on before as many threads have come back from a wait.       *)
(*                                                                         *)
(* The kernel's queue of waiters is external.  Calls on every address are  *)
(* counted together, as in the code.  What a thread's FutexJoinInfo says   *)
(* is cleared when it is not read again.                                   *)
(***************************************************************************)
EXTENDS Integers, FiniteSets

CONSTANTS
    Thread,
    WakeArguments,  \* the values a wake call may be made with, as ints
    WakeCap,        \* the cap on maxWakes, 1 << 24 in the code
    WordSize,       \* the number of uint32_t values, 2^32 in the code
    MaxAllowance    \* bound on maxAllowedFutexWakeups

ASSUME ParameterAssumption ==
    /\ IsFiniteSet(Thread) /\ WakeArguments \subseteq Int
    /\ WakeCap \in Nat /\ WordSize \in Nat \ {0} /\ MaxAllowance \in Nat

VARIABLES
    maxAllowedFutexWakeups,
    unmatchedFutexWakeups,
    action,     \* thread -> its FutexJoinAction
    maxWakes,   \* thread -> the most it may wake
    wokenUp,    \* thread -> how many it woke
    val,        \* thread -> the argument of its wake call
    pc,         \* thread -> where it is
    strayed     \* a thread was woken from outside, or a match given up (history)

counters == <<maxAllowedFutexWakeups, unmatchedFutexWakeups>>
joinInfo == <<action, maxWakes, wokenUp, val>>
vars == <<counters, joinInfo, pc, strayed>>

Init ==
    /\ maxAllowedFutexWakeups = 0
    /\ unmatchedFutexWakeups = 0
    /\ action = [t \in Thread |-> "NONE"]
    /\ maxWakes = [t \in Thread |-> 0]
    /\ wokenUp = [t \in Thread |-> 0]
    /\ val = [t \in Thread |-> 0]
    /\ pc = [t \in Thread |-> "app"]
    /\ strayed = FALSE

Goes(t, from, to) == pc[t] = from /\ pc' = [pc EXCEPT ![t] = to]

Cleared(t) ==
    /\ action' = [action EXCEPT ![t] = "NONE"]
    /\ maxWakes' = [maxWakes EXCEPT ![t] = 0]
    /\ wokenUp' = [wokenUp EXCEPT ![t] = 0]
    /\ val' = [val EXCEPT ![t] = 0]

Unsigned(n) == n % WordSize

Lesser(m, n) == IF m <= n THEN m ELSE n

-----------------------------------------------------------------------------
(* Waits. *)

WaitCall(t) ==
    /\ Goes(t, "app", "waits")
    /\ UNCHANGED <<counters, joinInfo, strayed>>

(* A wait that ends with an error or a timeout is not reported.             *)
WaitFails(t) ==
    /\ Goes(t, "waits", "app")
    /\ UNCHANGED <<counters, joinInfo, strayed>>

ExternalWake(t) ==
    /\ Goes(t, "waits", "woken")
    /\ strayed' = TRUE
    /\ UNCHANGED <<counters, joinInfo>>

notifyFutexWaitWoken(t) ==
    /\ Goes(t, "woken", "joins")
    /\ action' = [action EXCEPT ![t] = "WAIT"]
    /\ UNCHANGED <<counters, maxWakes, wokenUp, val, strayed>>

futexWaitJoin(t) ==
    /\ Goes(t, "joins", "app") /\ action[t] = "WAIT"
    /\ Cleared(t)
    /\ unmatchedFutexWakeups' =
          IF unmatchedFutexWakeups >= maxAllowedFutexWakeups
          THEN unmatchedFutexWakeups ELSE unmatchedFutexWakeups + 1
    /\ UNCHANGED <<maxAllowedFutexWakeups, strayed>>

-----------------------------------------------------------------------------
(* Wakes. *)

notifyFutexWakeStart(t) ==
    /\ Goes(t, "app", "wakes")
    /\ \E n \in WakeArguments :
          /\ val' = [val EXCEPT ![t] = n]
          /\ maxWakes' = [maxWakes EXCEPT ![t] = Lesser(Unsigned(n), WakeCap)]
    /\ maxAllowedFutexWakeups' = maxAllowedFutexWakeups + maxWakes'[t]
    /\ maxAllowedFutexWakeups' <= MaxAllowance
    /\ UNCHANGED <<unmatchedFutexWakeups, action, wokenUp, strayed>>

(* The threads woken, of the result of a call with argument n.              *)
Counted(res, n) == Lesser(res, n)

(* The kernel wakes waiters, one if the argument is not positive.  A call   *)
(* that wakes as many as it may can go on and requeue others, which are     *)
(* part of its result.                                                      *)
notifyFutexWakeEnd(t) ==
    /\ pc[t] = "wakes"
    /\ \E S \in SUBSET {w \in Thread : pc[w] = "waits"} :
          /\ Cardinality(S) <= (IF val[t] > 0 THEN val[t] ELSE 1)
          /\ pc' = [w \in Thread |-> IF w \in S THEN "woken"
                                     ELSE IF w = t THEN "woke" ELSE pc[w]]
          /\ \E requeued \in IF Cardinality(S) = val[t] THEN 0 .. 1 ELSE {0} :
                wokenUp' = [wokenUp EXCEPT
                    ![t] = Unsigned(Counted(Cardinality(S) + requeued, val[t]))]
    /\ action' = [action EXCEPT ![t] = "WAKE"]
    /\ UNCHANGED <<counters, maxWakes, val, strayed>>

(* The call fails: its allowance is not taken back.                         *)
WakeFails(t) ==
    /\ Goes(t, "wakes", "app")
    /\ Cleared(t)
    /\ UNCHANGED <<counters, strayed>>

(* Faulty variant: the allowance is not adjusted to the threads woken.      *)
futexWakeJoinUnadjusted(t) ==
    /\ Goes(t, "woke", "matching") /\ action[t] = "WAKE"
    /\ maxAllowedFutexWakeups' = maxAllowedFutexWakeups - maxWakes[t]
    /\ UNCHANGED <<unmatchedFutexWakeups, joinInfo, strayed>>

(* futexWakeJoin() adjusts the allowance and waits for its match.  It looks *)
(* at the count without the lock, again and again, and takes the lock       *)
(* after it has found enough, or nothing for two seconds.                   *)
futexWakeJoin(t) ==
    /\ Goes(t, "woke", "matching") /\ action[t] = "WAKE"
    /\ maxAllowedFutexWakeups' = maxAllowedFutexWakeups - (maxWakes[t] - wokenUp[t])
    /\ UNCHANGED <<unmatchedFutexWakeups, joinInfo, strayed>>

SeeEnough(t) ==
    /\ Goes(t, "matching", "seen")
    /\ wokenUp[t] <= unmatchedFutexWakeups
    /\ UNCHANGED <<counters, joinInfo, strayed>>

SeeTooFew(t) ==
    /\ Goes(t, "matching", "expired")
    /\ wokenUp[t] > unmatchedFutexWakeups
    /\ UNCHANGED <<counters, joinInfo, strayed>>

(* Faulty variant: the wake-ups matched are left to the next waker.         *)
MatchAndKeep(t) ==
    /\ Goes(t, "seen", "app")
    /\ wokenUp[t] <= unmatchedFutexWakeups
    /\ maxAllowedFutexWakeups' = maxAllowedFutexWakeups - wokenUp[t]
    /\ Cleared(t)
    /\ UNCHANGED <<unmatchedFutexWakeups, strayed>>

(* With the lock it looks again: other wakers may have been matched.        *)
Match(t) ==
    /\ Goes(t, "seen", "app")
    /\ wokenUp[t] <= unmatchedFutexWakeups
    /\ unmatchedFutexWakeups' = unmatchedFutexWakeups - wokenUp[t]
    /\ maxAllowedFutexWakeups' = maxAllowedFutexWakeups - wokenUp[t]
    /\ Cleared(t)
    /\ UNCHANGED strayed

MatchIsGone(t) ==
    /\ Goes(t, "seen", "matching")
    /\ wokenUp[t] > unmatchedFutexWakeups
    /\ UNCHANGED <<counters, joinInfo, strayed>>

(* Faulty variant: the wait goes on after the timeout.                      *)
MatchStartsAgain(t) ==
    /\ Goes(t, "expired", "matching")
    /\ unmatchedFutexWakeups' = 0
    /\ strayed' = TRUE
    /\ UNCHANGED <<maxAllowedFutexWakeups, joinInfo>>

(* The match is given up.  Here nobody looks again: wake-ups that were      *)
(* counted since are dropped with the others.                               *)
MatchTimesOut(t) ==
    /\ Goes(t, "expired", "app")
    /\ unmatchedFutexWakeups' = 0
    /\ maxAllowedFutexWakeups' = maxAllowedFutexWakeups - wokenUp[t]
    /\ Cleared(t)
    /\ strayed' = TRUE

-----------------------------------------------------------------------------
Next == \E t \in Thread :
    \/ WaitCall(t) \/ WaitFails(t) \/ ExternalWake(t)
    \/ notifyFutexWaitWoken(t) \/ futexWaitJoin(t)
    \/ notifyFutexWakeStart(t) \/ notifyFutexWakeEnd(t) \/ WakeFails(t)
    \/ futexWakeJoin(t) \/ SeeEnough(t) \/ SeeTooFew(t)
    \/ Match(t) \/ MatchIsGone(t) \/ MatchTimesOut(t)

Spec == Init /\ [][Next]_vars

(* A thread that has come back from a call joins, sees enough or has waited *)
(* two seconds, and gets the lock; the calls themselves may last for ever,  *)
(* and nobody has to make one.                                              *)
Fairness == \A t \in Thread :
    /\ WF_vars(notifyFutexWaitWoken(t)) /\ WF_vars(futexWaitJoin(t))
    /\ WF_vars(futexWakeJoin(t)) /\ WF_vars(SeeEnough(t) \/ SeeTooFew(t))
    /\ WF_vars(Match(t) \/ MatchIsGone(t)) /\ WF_vars(MatchTimesOut(t))

FairSpec == Spec /\ Fairness

-----------------------------------------------------------------------------
(* Properties. *)

Matching == {"matching", "seen", "expired"}

Places == {"app", "waits", "woken", "joins", "wakes", "woke"} \cup Matching

TypeOK ==
    /\ maxAllowedFutexWakeups \in 0 .. MaxAllowance
    /\ unmatchedFutexWakeups \in 0 .. MaxAllowance
    /\ action \in [Thread -> {"NONE", "WAKE", "WAIT"}]
    /\ maxWakes \in [Thread -> 0 .. WakeCap]
    /\ wokenUp \in [Thread -> 0 .. WordSize - 1]
    /\ val \in [Thread -> WakeArguments \cup {0}]
    /\ pc \in [Thread -> Places]
    /\ strayed \in BOOLEAN

At(place) == {t \in Thread : pc[t] = place}

(* The sum of f over all threads: the number of its units. *)
Units(f) == UNION {{t} \X (1 .. f[t]) : t \in Thread}

Total(f) == Cardinality(Units(f))

(* What a wake under way may still take from the allowance. *)
Claims == [t \in Thread |-> CASE pc[t] \in {"wakes", "woke"} -> maxWakes[t]
                              [] pc[t] \in Matching -> wokenUp[t]
                              [] OTHER -> 0]

(* The threads woken by calls that are not matched yet. *)
Unmatched == [t \in Thread |-> IF pc[t] \in {"woke"} \cup Matching THEN wokenUp[t] ELSE 0]

(***************************************************************************)
(* The allowance covers every wake under way, whatever the order in which  *)
(* threads start to wake, adjust it, match and fail: none of the           *)
(* subtractions can wrap the counter around (scheduler.cpp:330).           *)
(***************************************************************************)
AllowanceCovers == maxAllowedFutexWakeups >= Total(Claims)

(***************************************************************************)
(* The wake-ups counted are those of wakers that still wait for a match:   *)
(* together with the threads that have been woken and not joined they are  *)
(* exactly the threads woken by calls not matched yet, as long as nobody   *)
(* was woken from outside and no match was given up.  (The variables keep  *)
(* their types besides: no counter wraps around.)                          *)
(***************************************************************************)
MatchesExact ==
    /\ TypeOK
    /\ ~strayed =>
          unmatchedFutexWakeups + Cardinality(At("woken") \cup At("joins")) = Total(Unmatched)

(***************************************************************************)
(* futexWakeJoin() asserts that a thread woke no more than it was allowed  *)
(* (scheduler.cpp:331).  That is so if its call was made with a positive   *)
(* argument; -1 is counted as WordSize - 1 threads woken.                  *)
(***************************************************************************)
WokenWithinMax == \A t \in At("woke") : wokenUp[t] <= maxWakes[t]

(***************************************************************************)
(* futexWakeJoin() asserts that, once it has given back the part of the    *)
(* allowance it did not use, the unmatched wake-ups are still allowed      *)
(* (scheduler.cpp:334).  Other wakers and waiters come and go meanwhile;   *)
(* it holds as long as nobody was woken from outside and no match was      *)
(* given up.                                                               *)
(***************************************************************************)
UnmatchedAllowed == ~strayed => \A t \in At("woke") :
    unmatchedFutexWakeups <= maxAllowedFutexWakeups - (maxWakes[t] - wokenUp[t])

(***************************************************************************)
(* A waker is kept from joining for ever only if other wakers take the     *)
(* wake-ups it has seen, again and again: the threads it woke, or as many  *)
(* others, come back, or it gives its match up, though several wakers      *)
(* compete and a waker that gives up drops what others wait for.           *)
(***************************************************************************)
EveryWakeMatched == \A t \in Thread :
    \/ pc[t] = "woke" ~> pc[t] = "app"
    \/ []<><<\E u \in Thread \ {t} : Match(u) \/ MatchTimesOut(u)>>_vars
=============================================================================
