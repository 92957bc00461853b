---------------------------- MODULE PhaseBarrier ----------------------------
(***************************************************************************)
(* The barrier of barrier.h, at which the threads of the simulator meet at *)
(* the end of every phase.                                                 *)
(*                                                                         *)
(* join(), leave() and sync() run under the lock of the scheduler, and     *)
(* join() and sync() release it before they read the state of their thread *)
(* and sleep on its futex word.  The steps under the lock are actions of   *)
(* their own (at is where its holder stands), because the threads outside  *)
(* the lock see them one by one.  A futex wait returns when the word is no *)
(* longer 1 or a wake finds the thread asleep.                             *)
(*                                                                         *)
(* The callback at the end of a phase does not touch the barrier and is    *)
(* modelled with the scheduler.                                            *)
(***************************************************************************)
EXTENDS Integers, FiniteSets

CONSTANTS
    Thread,           \* the tids
    Nobody,           \* no thread
    MAX_THREADS,      \* the room in runList
    parallelThreads,  \* how many threads may run together
    CleanupPeriod,    \* one phase end in CleanupPeriod drops the LEFT threads (32)
    EarlyReuse        \* a tid is used again before the thread killed on it is dropped

ASSUME ThreadAssumption ==
    /\ IsFiniteSet(Thread) /\ Nobody \notin Thread
    /\ MAX_THREADS \in Nat /\ Cardinality(Thread) <= MAX_THREADS

ASSUME ParameterAssumption ==
    /\ parallelThreads \in Nat \ {0}
    /\ CleanupPeriod \in Nat \ {0}
    /\ EarlyReuse \in BOOLEAN

Slot == 0 .. MAX_THREADS - 1

(* The constructor leaves lastIdx as it finds it in memory.                 *)
Unknown == -1

VARIABLES
    state,           \* thread -> OFFLINE, WAITING, RUNNING or LEFT
    futexWord,       \* thread -> 1 while it should sleep
    lastIdx,         \* thread -> where in runList it was last seen
    runList,         \* slot -> the thread in it
    runListSize,     \* how many slots are in use
    curThreadIdx,    \* the first slot whose thread was not yet considered
    runningThreads,  \* how many threads are RUNNING
    leftThreads,     \* how many threads are LEFT
    phaseCount,      \* phases ended, modulo CleanupPeriod
    pc,              \* thread -> what it is doing
    holder,          \* who holds the lock
    at,              \* which step the holder is at
    waking,          \* the thread whose futex word the holder clears next
    idx,             \* the loop variable of checkEndPhase()
    newSize          \* the list that remains during its cleanup pass

list == <<runList, runListSize, curThreadIdx>>
counters == <<runningThreads, leftThreads>>
lock == <<holder, at>>
loop == <<idx, newSize>>
vars == <<state, futexWord, lastIdx, list, counters, phaseCount, pc, lock,
          waking, loop>>

TypeOK ==
    /\ state \in [Thread -> {"OFFLINE", "WAITING", "RUNNING", "LEFT"}]
    /\ futexWord \in [Thread -> {0, 1}]
    /\ lastIdx \in [Thread -> Slot \cup {Unknown}]
    /\ runList \in [Slot -> Thread \cup {Nobody}]
    /\ runListSize \in 0 .. MAX_THREADS
    /\ curThreadIdx \in 0 .. runListSize
    /\ runningThreads \in Nat
    /\ leftThreads \in Nat
    /\ phaseCount \in 0 .. CleanupPeriod - 1
    /\ pc \in [Thread -> {"outside", "joining", "syncing", "leaving",
                          "testing", "waiting", "asleep", "woken", "running",
                          "killed"}]
    /\ holder \in Thread \cup {Nobody}
    /\ at \in {"free", "wake", "end", "clean", "shuffle", "rewake", "unlock"}
    /\ waking \in Thread \cup {Nobody}
    /\ idx \in 0 .. MAX_THREADS
    /\ newSize \in 0 .. MAX_THREADS

Init ==
    /\ state = [t \in Thread |-> "OFFLINE"]
    /\ futexWord = [t \in Thread |-> 0]
    /\ lastIdx = [t \in Thread |-> Unknown]
    /\ runList = [i \in Slot |-> Nobody]
    /\ runListSize = 0 /\ curThreadIdx = 0
    /\ runningThreads = 0 /\ leftThreads = 0
    /\ phaseCount = 0
    /\ pc = [t \in Thread |-> "outside"]
    /\ holder = Nobody /\ at = "free"
    /\ waking = Nobody
    /\ idx = 0 /\ newSize = 0

-----------------------------------------------------------------------------
(* The operations, up to their call of tryWakeNext(). *)

Locks(t, doing, step) ==
    /\ at = "free"
    /\ holder' = t
    /\ pc' = [pc EXCEPT ![t] = doing]
    /\ at' = step

(* A thread that was OFFLINE goes to the end of the list.                   *)
Enlist(t) ==
    /\ state[t] = "OFFLINE"
    /\ runList' = [runList EXCEPT ![runListSize] = t]
    /\ runListSize' = runListSize + 1
    /\ UNCHANGED <<curThreadIdx, lastIdx, leftThreads>>

LastIdxRead(t) == IF lastIdx[t] = Unknown THEN Slot ELSE {lastIdx[t]}

(* Faulty variant: the last thread considered is not rescheduled.           *)
ReschedulesButLast(i) == curThreadIdx > i + 1

(* The slot at which the thread left was already considered in this phase.  *)
Reschedules(i) == curThreadIdx > i

(* Faulty variant: the thread it changes places with is not told.           *)
ReenlistOneSided(t) ==
    /\ state[t] = "LEFT"
    /\ leftThreads' = leftThreads - 1
    /\ \E i \in LastIdxRead(t) :
          IF Reschedules(i)
          THEN LET other == runList[curThreadIdx - 1] IN
               /\ curThreadIdx' = curThreadIdx - 1
               /\ runList' = [runList EXCEPT ![i] = other,
                                             ![curThreadIdx - 1] = t]
               /\ lastIdx' = [lastIdx EXCEPT ![t] = curThreadIdx - 1]
          ELSE UNCHANGED <<runList, curThreadIdx, lastIdx>>
    /\ UNCHANGED runListSize

(* One that LEFT in this phase after its turn is considered again, next: it *)
(* changes places with the last thread considered.                          *)
Reenlist(t) ==
    /\ state[t] = "LEFT"
    /\ leftThreads' = leftThreads - 1
    /\ \E i \in LastIdxRead(t) :
          IF Reschedules(i)
          THEN LET other == runList[curThreadIdx - 1] IN
               /\ curThreadIdx' = curThreadIdx - 1
               /\ runList' = [runList EXCEPT ![i] = other,
                                             ![curThreadIdx - 1] = t]
               /\ lastIdx' = [lastIdx EXCEPT ![other] = i,
                                             ![t] = curThreadIdx - 1]
          ELSE UNCHANGED <<runList, curThreadIdx, lastIdx>>
    /\ UNCHANGED runListSize

Join(t) ==
    /\ pc[t] = "outside" \/ (pc[t] = "killed" /\ (state[t] = "OFFLINE" \/ EarlyReuse))
    /\ Locks(t, "joining", "wake")
    /\ Enlist(t) \/ Reenlist(t)
    /\ state' = [state EXCEPT ![t] = "WAITING"]
    /\ futexWord' = [futexWord EXCEPT ![t] = 1]
    /\ UNCHANGED <<runningThreads, phaseCount, waking, loop>>

(* Faulty variant: the last thread to leave wakes nobody.                   *)
LeaveQuietly(t) ==
    /\ state[t] = "RUNNING"
    /\ Locks(t, "leaving", "unlock")
    /\ runningThreads' = runningThreads - 1
    /\ state' = [state EXCEPT ![t] = "LEFT"]
    /\ leftThreads' = leftThreads + 1
    /\ UNCHANGED <<futexWord, lastIdx, list, phaseCount, waking, loop>>

(* A thread leaves before a system call, or the clean-up of its killed      *)
(* process leaves for it, wherever it is.                                   *)
LeaveRunning(t) ==
    /\ state[t] = "RUNNING"
    /\ Locks(t, "leaving", "wake")
    /\ runningThreads' = runningThreads - 1
    /\ state' = [state EXCEPT ![t] = "LEFT"]
    /\ leftThreads' = leftThreads + 1
    /\ UNCHANGED <<futexWord, lastIdx, list, phaseCount, waking, loop>>

(* Only the clean-up of a killed process leaves for a thread that waits.    *)
(* Nobody is woken when it goes.                                            *)
LeaveWaiting(t) ==
    /\ state[t] = "WAITING"
    /\ Locks(t, "killed", "unlock")
    /\ state' = [state EXCEPT ![t] = "LEFT"]
    /\ leftThreads' = leftThreads + 1
    /\ UNCHANGED <<futexWord, lastIdx, list, runningThreads, phaseCount, waking, loop>>

Sync(t) ==
    /\ pc[t] = "running"
    /\ Locks(t, "syncing", "wake")
    /\ futexWord' = [futexWord EXCEPT ![t] = 1]
    /\ state' = [state EXCEPT ![t] = "WAITING"]
    /\ runningThreads' = runningThreads - 1
    /\ UNCHANGED <<lastIdx, list, leftThreads, phaseCount, waking, loop>>

-----------------------------------------------------------------------------
(* checkRunList(), which tryWakeNext() calls before and after checkEndPhase() *)

InCheckRunList == at \in {"wake", "rewake"}

RoomForMore == runningThreads < parallelThreads /\ curThreadIdx < runListSize

(* Faulty variant: a thread that left is set running too.                   *)
ConsiderAll ==
    /\ InCheckRunList /\ waking = Nobody /\ RoomForMore
    /\ curThreadIdx' = curThreadIdx + 1
    /\ LET w == runList[curThreadIdx] IN
       /\ state' = [state EXCEPT ![w] = "RUNNING"]
       /\ lastIdx' = [lastIdx EXCEPT ![w] = curThreadIdx]
       /\ waking' = w
    /\ UNCHANGED <<futexWord, runList, runListSize, counters, phaseCount, pc, lock, loop>>

(* The next thread is considered; a waiting one becomes RUNNING before its  *)
(* futex word changes.                                                      *)
Consider ==
    /\ InCheckRunList /\ waking = Nobody /\ RoomForMore
    /\ curThreadIdx' = curThreadIdx + 1
    /\ LET w == runList[curThreadIdx] IN
       IF state[w] = "WAITING"
       THEN /\ state' = [state EXCEPT ![w] = "RUNNING"]
            /\ lastIdx' = [lastIdx EXCEPT ![w] = curThreadIdx]
            /\ waking' = w
       ELSE UNCHANGED <<state, lastIdx, waking>>
    /\ UNCHANGED <<futexWord, runList, runListSize, counters, phaseCount, pc, lock, loop>>

(* Its word is exchanged for 0 and, if it is asleep, it wakes up.  A word   *)
(* that is not 1 is a panic.                                                *)
Wake ==
    /\ waking # Nobody /\ futexWord[waking] = 1
    /\ futexWord' = [futexWord EXCEPT ![waking] = 0]
    /\ pc' = [pc EXCEPT ![waking] = IF @ = "asleep" THEN "woken" ELSE @]
    /\ runningThreads' = runningThreads + 1
    /\ waking' = Nobody
    /\ UNCHANGED <<state, lastIdx, list, leftThreads, phaseCount, lock, loop>>

RunListChecked ==
    /\ InCheckRunList /\ waking = Nobody /\ ~RoomForMore
    /\ at' = IF at = "wake" THEN "end" ELSE "unlock"
    /\ UNCHANGED <<state, futexWord, lastIdx, list, counters, phaseCount, pc,
                   holder, waking, loop>>

-----------------------------------------------------------------------------
(* checkEndPhase() *)

PhaseOver ==
    /\ curThreadIdx = runListSize
    /\ runningThreads = 0
    /\ leftThreads # runListSize

GoOn ==
    /\ at = "end" /\ ~PhaseOver
    /\ at' = "rewake"
    /\ UNCHANGED <<state, futexWord, lastIdx, list, counters, phaseCount, pc,
                   holder, waking, loop>>

(* The list is rewound, and now and then the threads that left are dropped. *)
EndPhase ==
    /\ at = "end" /\ PhaseOver
    /\ curThreadIdx' = 0
    /\ phaseCount' = (phaseCount + 1) % CleanupPeriod
    /\ IF phaseCount = 0
       THEN at' = "clean" /\ idx' = 0 /\ newSize' = runListSize
       ELSE at' = "shuffle" /\ idx' = runListSize - 1 /\ UNCHANGED newSize
    /\ UNCHANGED <<state, futexWord, lastIdx, runList, runListSize, counters, pc,
                   holder, waking>>

(* The last thread of the list takes the place of one that is dropped.      *)
CleanOne ==
    /\ at = "clean" /\ idx < newSize
    /\ IF state[runList[idx]] = "LEFT"
       THEN LET s == runList[newSize - 1] IN
            /\ state' = [state EXCEPT ![runList[idx]] = "OFFLINE"]
            /\ runList' = [runList EXCEPT ![idx] = s]
            /\ lastIdx' = [lastIdx EXCEPT ![s] = idx]
            /\ newSize' = newSize - 1 /\ UNCHANGED idx
       ELSE /\ idx' = idx + 1
            /\ UNCHANGED <<state, runList, lastIdx, newSize>>
    /\ UNCHANGED <<futexWord, runListSize, curThreadIdx, counters, phaseCount, pc,
                   lock, waking>>

(* Faulty variant: the threads that left are still counted.                 *)
CleanedStillCounted ==
    /\ at = "clean" /\ idx >= newSize
    /\ runListSize' = newSize
    /\ at' = "shuffle" /\ idx' = newSize - 1
    /\ UNCHANGED <<state, futexWord, lastIdx, runList, curThreadIdx, counters,
                   phaseCount, pc, holder, waking, newSize>>

Cleaned ==
    /\ at = "clean" /\ idx >= newSize
    /\ leftThreads' = 0
    /\ runListSize' = newSize
    /\ at' = "shuffle" /\ idx' = newSize - 1
    /\ UNCHANGED <<state, futexWord, lastIdx, runList, curThreadIdx, runningThreads,
                   phaseCount, pc, holder, waking, newSize>>

Shuffling == parallelThreads < runListSize /\ idx > 0

(* Faulty variant: the second half of the exchange is missing.              *)
ShuffleLosing ==
    /\ at = "shuffle" /\ Shuffling
    /\ \E j \in 0 .. idx :
          /\ runList' = [runList EXCEPT ![idx] = runList[j]]
          /\ lastIdx' = [lastIdx EXCEPT ![runList[idx]] = j, ![runList[j]] = idx]
    /\ idx' = idx - 1
    /\ UNCHANGED <<state, futexWord, runListSize, curThreadIdx, counters, phaseCount,
                   pc, lock, waking, newSize>>

(* The list is shuffled when not all its threads can run together.          *)
ShuffleOne ==
    /\ at = "shuffle" /\ Shuffling
    /\ \E j \in 0 .. idx :
          /\ runList' = [runList EXCEPT ![idx] = runList[j], ![j] = runList[idx]]
          /\ lastIdx' = [lastIdx EXCEPT ![runList[idx]] = j, ![runList[j]] = idx]
    /\ idx' = idx - 1
    /\ UNCHANGED <<state, futexWord, runListSize, curThreadIdx, counters, phaseCount,
                   pc, lock, waking, newSize>>

Shuffled ==
    /\ at = "shuffle" /\ ~Shuffling
    /\ at' = "rewake"
    /\ UNCHANGED <<state, futexWord, lastIdx, list, counters, phaseCount, pc,
                   holder, waking, loop>>

-----------------------------------------------------------------------------
(* After tryWakeNext(). *)

Unlock ==
    /\ at = "unlock"
    /\ holder' = Nobody /\ at' = "free"
    /\ pc' = [pc EXCEPT ![holder] = CASE @ \in {"joining", "syncing"} -> "testing"
                                      [] @ = "leaving" -> "outside"
                                      [] OTHER -> @]
    /\ UNCHANGED <<state, futexWord, lastIdx, list, counters, phaseCount, waking, loop>>

(* The state is read without the lock.                                      *)
Test(t) ==
    /\ pc[t] = "testing"
    /\ pc' = [pc EXCEPT ![t] = IF state[t] = "WAITING" THEN "waiting" ELSE "running"]
    /\ UNCHANGED <<state, futexWord, lastIdx, list, counters, phaseCount, lock,
                   waking, loop>>

(* Faulty variant: the kernel is asked to sleep whatever the word is.       *)
FutexWaitUnchecked(t) ==
    /\ pc[t] = "waiting"
    /\ pc' = [pc EXCEPT ![t] = "asleep"]
    /\ UNCHANGED <<state, futexWord, lastIdx, list, counters, phaseCount, lock,
                   waking, loop>>

FutexWait(t) ==
    /\ pc[t] = "waiting"
    /\ pc' = [pc EXCEPT ![t] = IF futexWord[t] = 1 THEN "asleep" ELSE "woken"]
    /\ UNCHANGED <<state, futexWord, lastIdx, list, counters, phaseCount, lock,
                   waking, loop>>

Resume(t) ==
    /\ pc[t] = "woken"
    /\ pc' = [pc EXCEPT ![t] = "running"]
    /\ UNCHANGED <<state, futexWord, lastIdx, list, counters, phaseCount, lock,
                   waking, loop>>

LockHolder ==
    \/ Consider \/ Wake \/ RunListChecked
    \/ GoOn \/ EndPhase \/ CleanOne \/ Cleaned \/ ShuffleOne \/ Shuffled
    \/ Unlock

Waiter(t) == Test(t) \/ FutexWait(t) \/ Resume(t)

Next ==
    \/ \E t \in Thread : \/ Join(t) \/ LeaveRunning(t) \/ LeaveWaiting(t) \/ Sync(t)
                         \/ Waiter(t)
    \/ LockHolder

Spec == Init /\ [][Next]_vars

(***************************************************************************)
(* The holder of the lock and the threads that wait make progress.  A      *)
(* thread that keeps running reaches the end of the phase and calls sync() *)
(* even if it leaves and joins on its way, because its cycles only         *)
(* advance.  Processes are not killed for ever, so a thread is not always  *)
(* killed before it comes back.  Nobody has to leave, and nobody has to    *)
(* join.                                                                   *)
(***************************************************************************)
Fairness ==
    /\ WF_vars(LockHolder)
    /\ \A t \in Thread : SF_vars(Waiter(t)) /\ SF_vars(Sync(t))

FairSpec == Spec /\ Fairness

-----------------------------------------------------------------------------
(* Properties. *)

Free == at = "free"

ThreadsIn(s) == {t \in Thread : state[t] = s}

(* The slots that count: the cleanup pass drops the others.                 *)
Listed == 0 .. (IF at = "clean" THEN newSize ELSE runListSize) - 1

(***************************************************************************)
(* The list names every thread that is not OFFLINE once, and no other,     *)
(* through joins, exchanges of places, cleanup passes and shuffles.  A     *)
(* thread named twice would run twice in a phase, one not named would      *)
(* never run again.                                                        *)
(***************************************************************************)
RunListExact ==
    /\ \A i, j \in Listed : runList[i] = runList[j] => i = j
    /\ \A t \in Thread : state[t] # "OFFLINE" <=> \E i \in Listed : runList[i] = t
    /\ \A i \in Listed : runList[i] # Nobody

(***************************************************************************)
(* The counters, which decide when a phase ends, agree with the states of  *)
(* the threads: runningThreads up to the thread being woken, leftThreads   *)
(* up to the threads the cleanup pass has dropped.                         *)
(***************************************************************************)
CountersExact ==
    /\ runningThreads + (IF waking = Nobody THEN 0 ELSE 1)
         = Cardinality(ThreadsIn("RUNNING"))
    /\ leftThreads = Cardinality(ThreadsIn("LEFT"))
                       + (IF at = "clean" THEN runListSize - newSize ELSE 0)

(***************************************************************************)
(* A thread that left while it was running finds itself at its lastIdx     *)
(* when it joins again, which join() asserts (barrier.h:137), though       *)
(* joins, the cleanup pass and the shuffle may have moved it.              *)
(***************************************************************************)
FoundWhereLeft ==
    \A t \in ThreadsIn("LEFT") :
        pc[t] # "killed" => lastIdx[t] \in Listed /\ runList[lastIdx[t]] = t

(***************************************************************************)
(* A thread may leave the barrier at any point in time and join it again   *)
(* (barrier.h:29-33): the assertion tid == runList[lastIdx] of join()      *)
(* (barrier.h:137) holds of every thread that has left.                    *)
(***************************************************************************)
RejoinFindsItself ==
    Free => \A t \in ThreadsIn("LEFT") : \A i \in LastIdxRead(t) :
                Reschedules(i) => runList[i] = t

(***************************************************************************)
(* No more than parallelThreads threads run together.                      *)
(***************************************************************************)
ParallelismBounded == Cardinality(ThreadsIn("RUNNING")) <= parallelThreads

(***************************************************************************)
(* A thread whose futex word is about to be exchanged still has 1 there:   *)
(* the panic "Wakeup race in barrier?" does not happen.                    *)
(***************************************************************************)
NoWakeupRace == waking # Nobody => futexWord[waking] = 1

(***************************************************************************)
(* A thread that has come back from join() or sync() is RUNNING, as they   *)
(* assert, and a thread asleep on its word is WAITING, or is about to be   *)
(* woken: the wake-up between the test of the state and the sleep is not   *)
(* lost.                                                                   *)
(***************************************************************************)
WakeupsExact ==
    \A t \in Thread :
        /\ pc[t] \in {"woken", "running"} => state[t] = "RUNNING"
        /\ pc[t] = "asleep" => state[t] = "WAITING" \/ waking = t

(***************************************************************************)
(* Whenever the lock is free and a thread waits, another runs: somebody is *)
(* left to call sync() or leave().  And nobody waits for a turn that could *)
(* be given.                                                               *)
(***************************************************************************)
NobodyForgotten ==
    Free /\ ThreadsIn("WAITING") # {} =>
        /\ runningThreads > 0
        /\ runningThreads = parallelThreads \/ curThreadIdx = runListSize

(***************************************************************************)
(* join() never ends a phase, as its comment says (barrier.h:151).         *)
(***************************************************************************)
JoinEndsNoPhase == [][EndPhase => pc[holder] # "joining"]_vars

(***************************************************************************)
(* A thread that waits gets its turn or leaves.                            *)
(***************************************************************************)
EveryWaiterRuns == \A t \in Thread : state[t] = "WAITING" ~> state[t] # "WAITING"

(***************************************************************************)
(* The barrier does what Phases promises.  A waiting thread has had its    *)
(* turn in this phase if its slot was already considered.                  *)
(***************************************************************************)
Considered(t) == \E i \in Listed : i < curThreadIdx /\ runList[i] = t

Place(t) ==
    CASE state[t] \in {"OFFLINE", "LEFT"} -> "out"
      [] state[t] = "RUNNING" -> "running"
      [] state[t] = "WAITING" -> IF Considered(t) THEN "done" ELSE "ready"

Where == [t \in Thread |-> Place(t)]

Promise == INSTANCE Phases WITH Limit <- parallelThreads, where <- Where

PhasesKept == Promise!Spec
=============================================================================
