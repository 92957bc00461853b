------------------------------ MODULE Scheduler ------------------------------
(***************************************************************************)
(* The scheduler of scheduler.h and scheduler.cpp, which shares the cores  *)
(* of the simulated machine (the contexts) out among the simulated         *)
(* threads, on top of the phase barrier.                                   *)
(*                                                                         *)
(* The barrier is seen by its contract, Phases: each context in use takes  *)
(* part in it, and the end of a phase calls callback().  Every section     *)
(* under schedLock is one action.  The wait for a woken thread to reach    *)
(* the lock (waitUntilQueued), the statistics, the matching of futex       *)
(* wake-ups (FutexMatching) and needsJoin, which no caller sets, are left  *)
(* out.  Wake-up times are kept relative to the current phase.             *)
(***************************************************************************)
EXTENDS Integers, FiniteSets, SequencesExt

CONSTANTS
    Thread,           \* the threads (gids)
    Core,             \* the contexts (cids): 0 .. numCores - 1
    None,             \* no thread, no context
    mask,             \* thread -> the cores it may run on
    parallelThreads,  \* the limit of the barrier
    schedQuantum,     \* phases between reassignments of the cores
    MaxSleep,         \* the longest sleep, in phases
    Killable,         \* at which points a thread may be killed
    PromptReturn,     \* a call may return while the watchdog gives up on it
    BackToBack        \* a call may follow another with no instruction between

ASSUME ParameterAssumption ==
    /\ None \notin Thread \cup Core /\ 0 \in Core
    /\ IsFiniteSet(Core) /\ Core \subseteq Nat
    /\ mask \in [Thread -> (SUBSET Core) \ {{}}]
    /\ schedQuantum \in Nat \ {0} /\ MaxSleep \in Nat
    /\ PromptReturn \in BOOLEAN /\ BackToBack \in BOOLEAN

VARIABLES
    state,        \* thread -> its ThreadState, NONE if it is not in gidMap
    cid,          \* thread -> the context it has or had last
    handoff,      \* thread -> the thread that shall have its context next
    futexWord,    \* thread -> 1 while it should wait
    marked,       \* thread -> it sleeps from its next leave()
    due,          \* thread -> the phases until its sleep is over
    curThread,    \* context -> its thread, None if it is IDLE
    freeList,     \* the IDLE contexts
    runQueue,     \* threads that wait for a context
    outQueue,     \* threads that left and keep their context until it is needed
    sleepQueue,   \* sleeping threads, by the end of their sleep
    fakeLeaves,   \* threads in a system call that have not left
    phase,        \* curPhase modulo schedQuantum
    bar,          \* context -> its part in the barrier
    pc,           \* thread -> what it is doing
    wd            \* the thread the watchdog calls leave() or finish() for

threads == <<state, cid, handoff, futexWord, marked, due>>
queues == <<freeList, runQueue, outQueue, sleepQueue, fakeLeaves>>
vars == <<threads, curThread, queues, phase, bar, pc, wd>>

Bar == INSTANCE Phases WITH Thread <- Core, Limit <- parallelThreads, where <- bar

Init ==
    /\ state = [t \in Thread |-> "NONE"]
    /\ cid = [t \in Thread |-> 0]
    /\ handoff = [t \in Thread |-> None]
    /\ futexWord = [t \in Thread |-> 0]
    /\ marked = [t \in Thread |-> FALSE]
    /\ due = [t \in Thread |-> 0]
    /\ curThread = [c \in Core |-> None]
    /\ freeList \in SetToSeqs(Core)
    /\ \A i, j \in DOMAIN freeList : i < j => freeList[i] < freeList[j]
    /\ runQueue = <<>> /\ outQueue = <<>> /\ sleepQueue = <<>> /\ fakeLeaves = <<>>
    /\ phase = 0
    /\ Bar!Init
    /\ pc = [t \in Thread |-> "none"]
    /\ wd = None

-----------------------------------------------------------------------------
(* Contexts and threads. *)

FirstAt(seq, places) == IF places = {} THEN None ELSE seq[Min(places)]

Goes(t, place) == pc' = [pc EXCEPT ![t] = place]

(* schedContext(): the first queued thread that may run on c.               *)
NextFor(c) == FirstAt(runQueue, {i \in DOMAIN runQueue : c \in mask[runQueue[i]]})

AnyFree(t) == FirstAt(freeList, {i \in DOMAIN freeList : freeList[i] \in mask[t]})

(* The free context schedThread() finds: the last one of the thread, or the *)
(* first of the list.                                                       *)
FreeFor(t) ==
    IF curThread[cid[t]] = None /\ cid[t] \in mask[t] THEN cid[t]
    ELSE AnyFree(t)

(* The thread it steals the context of otherwise.                           *)
VictimFor(t) == FirstAt(outQueue, {i \in DOMAIN outQueue : cid[outQueue[i]] \in mask[t]})

(* schedule() *)
Takes(t, c) ==
    /\ cid' = [cid EXCEPT ![t] = c]
    /\ curThread' = [curThread EXCEPT ![c] = t]

(* The place of a thread in the queue of sleepers.                          *)
SleepsBefore(t) ==
    Cardinality({i \in DOMAIN sleepQueue : due[sleepQueue[i]] <= due[t]})

(* Faulty variant: a new sleeper goes to the end.                           *)
SleepQueueAppended(t) == Append(sleepQueue, t)

SleepQueueWith(t) == InsertAt(sleepQueue, SleepsBefore(t) + 1, t)

FakeLeft(t) == Contains(fakeLeaves, t)

-----------------------------------------------------------------------------
(* start() and join() *)

Start(t) ==
    /\ pc[t] = "none"
    /\ state' = [state EXCEPT ![t] = "STARTED"]
    /\ cid' = [cid EXCEPT ![t] = 0]
    /\ handoff' = [handoff EXCEPT ![t] = None]
    /\ futexWord' = [futexWord EXCEPT ![t] = 0]
    /\ marked' = [marked EXCEPT ![t] = FALSE]
    /\ due' = [due EXCEPT ![t] = 0]
    /\ Goes(t, "out")
    /\ UNCHANGED <<curThread, queues, phase, bar, wd>>

CallsJoin(t) == pc[t] = "out" /\ (t = wd => PromptReturn)

(* The thread never left.                                                   *)
JoinFromFakeLeave(t) ==
    /\ CallsJoin(t) /\ FakeLeft(t)
    /\ fakeLeaves' = RemoveFirst(fakeLeaves, t)
    /\ Goes(t, "app")
    /\ UNCHANGED <<threads, curThread, freeList, runQueue, outQueue, sleepQueue,
                   phase, bar, wd>>

(* It still has its context.                                                *)
JoinAgain(t) ==
    /\ CallsJoin(t) /\ state[t] = "OUT"
    /\ state' = [state EXCEPT ![t] = "RUNNING"]
    /\ outQueue' = RemoveFirst(outQueue, t)
    /\ Bar!Enter(cid[t])
    /\ Goes(t, "joining")
    /\ UNCHANGED <<cid, handoff, futexWord, marked, due, curThread, freeList, runQueue,
                   sleepQueue, fakeLeaves, phase, wd>>

Unplaced(t) == CallsJoin(t) /\ state[t] \in {"STARTED", "BLOCKED", "SLEEPING"}

JoinOnFree(t) ==
    /\ Unplaced(t) /\ FreeFor(t) # None
    /\ Takes(t, FreeFor(t))
    /\ state' = [state EXCEPT ![t] = "RUNNING"]
    /\ freeList' = RemoveFirst(freeList, FreeFor(t))
    /\ sleepQueue' = RemoveFirst(sleepQueue, t)
    /\ due' = [due EXCEPT ![t] = 0]
    /\ Bar!Enter(FreeFor(t))
    /\ Goes(t, "joining")
    /\ UNCHANGED <<handoff, futexWord, marked, runQueue, outQueue, fakeLeaves, phase, wd>>

JoinOnStolen(t) ==
    /\ Unplaced(t) /\ FreeFor(t) = None /\ VictimFor(t) # None
    /\ LET o == VictimFor(t) IN
       /\ Takes(t, cid[o])
       /\ state' = [state EXCEPT ![t] = "RUNNING", ![o] = "BLOCKED"]
       /\ outQueue' = RemoveFirst(outQueue, o)
       /\ Bar!Enter(cid[o])
    /\ sleepQueue' = RemoveFirst(sleepQueue, t)
    /\ due' = [due EXCEPT ![t] = 0]
    /\ Goes(t, "joining")
    /\ UNCHANGED <<handoff, futexWord, marked, freeList, runQueue, fakeLeaves, phase, wd>>

(* Faulty variant: the thread is queued although a context could be taken.  *)
JoinQueueAtOnce(t) ==
    /\ Unplaced(t) /\ FreeFor(t) = None
    /\ state' = [state EXCEPT ![t] = "QUEUED"]
    /\ runQueue' = Append(runQueue, t)
    /\ futexWord' = [futexWord EXCEPT ![t] = 1]
    /\ sleepQueue' = RemoveFirst(sleepQueue, t)
    /\ due' = [due EXCEPT ![t] = 0]
    /\ Goes(t, "queued")
    /\ UNCHANGED <<cid, handoff, marked, curThread, freeList, outQueue, fakeLeaves,
                   phase, bar, wd>>

JoinQueue(t) ==
    /\ Unplaced(t) /\ FreeFor(t) = None /\ VictimFor(t) = None
    /\ state' = [state EXCEPT ![t] = "QUEUED"]
    /\ runQueue' = Append(runQueue, t)
    /\ futexWord' = [futexWord EXCEPT ![t] = 1]
    /\ sleepQueue' = RemoveFirst(sleepQueue, t)
    /\ due' = [due EXCEPT ![t] = 0]
    /\ Goes(t, "queued")
    /\ UNCHANGED <<cid, handoff, marked, curThread, freeList, outQueue, fakeLeaves,
                   phase, bar, wd>>

Join(t) ==
    \/ JoinFromFakeLeave(t) \/ JoinAgain(t)
    \/ JoinOnFree(t) \/ JoinOnStolen(t) \/ JoinQueue(t)

(* Faulty variant: join() does not wait for the turn of its context.        *)
JoinReturnsAtOnce(t) ==
    /\ \/ pc[t] = "joining"
       \/ pc[t] = "queued" /\ futexWord[t] = 0
    /\ Goes(t, "app")
    /\ UNCHANGED <<threads, curThread, queues, phase, bar, wd>>

(* bar.join() returns; the wait for a context ends.                         *)
JoinReturns(t) ==
    /\ \/ pc[t] = "joining" /\ bar[cid[t]] = "running"
       \/ pc[t] = "queued" /\ futexWord[t] = 0
    /\ Goes(t, "app")
    /\ UNCHANGED <<threads, curThread, queues, phase, bar, wd>>

-----------------------------------------------------------------------------
(* leave() *)

(* Faulty variant: a thread on its way to sleep is blocked as any other.    *)
LeftStateBlocked(t) == "BLOCKED"

LeftState(t) == IF marked[t] THEN "SLEEPING" ELSE "BLOCKED"

(* A queued thread goes on in the context, without leaving the barrier.     *)
LeaveToNext(t) ==
    LET c == cid[t]
        in == NextFor(c) IN
    /\ in # None
    /\ state' = [state EXCEPT ![t] = LeftState(t), ![in] = "RUNNING"]
    /\ Takes(in, c)
    /\ futexWord' = [futexWord EXCEPT ![in] = 0]
    /\ runQueue' = RemoveFirst(runQueue, in)
    /\ UNCHANGED <<bar, freeList, outQueue>>

(* Otherwise a thread that goes to sleep gives the context up and any other *)
(* keeps it for the time being.                                             *)
LeaveBarrier(t) ==
    LET c == cid[t] IN
    /\ NextFor(c) = None
    /\ Bar!Exit(c)
    /\ IF marked[t]
       THEN /\ state' = [state EXCEPT ![t] = "SLEEPING"]
            /\ curThread' = [curThread EXCEPT ![c] = None]
            /\ freeList' = Append(freeList, c) /\ UNCHANGED outQueue
       ELSE /\ state' = [state EXCEPT ![t] = "OUT"]
            /\ outQueue' = Append(outQueue, t)
            /\ UNCHANGED <<curThread, freeList>>
    /\ UNCHANGED <<cid, futexWord, runQueue>>

LeaveCall(t) ==
    /\ state[t] = "RUNNING"
    /\ LeaveToNext(t) \/ LeaveBarrier(t)
    /\ sleepQueue' = IF marked[t] THEN SleepQueueWith(t) ELSE sleepQueue
    /\ marked' = [marked EXCEPT ![t] = FALSE]
    /\ UNCHANGED <<handoff, due, phase>>

-----------------------------------------------------------------------------
(* System calls: markForSleep(), syscallLeave(), notifySleepEnd() *)

(* A sleep is turned into a wait on the futex word.  It is followed by a    *)
(* leave, unless the thread is in a system call already, as it may seem to  *)
(* the scheduler when two calls follow each other at once.                  *)
MarkForSleep(t) ==
    /\ ~marked[t]
    /\ \/ pc[t] = "app" /\ Goes(t, "marked")
       \/ BackToBack /\ pc[t] = "out" /\ state[t] # "STARTED" /\ Goes(t, "nap")
    /\ \E d \in 1 .. MaxSleep : due' = [due EXCEPT ![t] = d]
    /\ marked' = [marked EXCEPT ![t] = TRUE]
    /\ futexWord' = [futexWord EXCEPT ![t] = 1]
    /\ UNCHANGED <<state, cid, handoff, curThread, queues, phase, bar, wd>>

(* The call blocks, or has blocked before and was blacklisted.              *)
SyscallLeaves(t) ==
    /\ \/ pc[t] = "app" /\ Goes(t, "out")
       \/ pc[t] = "marked" /\ Goes(t, "nap")
    /\ LeaveCall(t)
    /\ UNCHANGED <<fakeLeaves, wd>>

(* Faulty variant: the leave is suppressed and not recorded.                *)
SyscallForgetsLeave(t) ==
    /\ pc[t] = "app" /\ Goes(t, "out")
    /\ UNCHANGED <<threads, curThread, queues, phase, bar, wd>>

SyscallFakesLeave(t) ==
    /\ pc[t] = "app" /\ Goes(t, "out")
    /\ fakeLeaves' = Append(fakeLeaves, t)
    /\ UNCHANGED <<threads, curThread, freeList, runQueue, outQueue, sleepQueue,
                   phase, bar, wd>>

(* The sleep is over, or a signal ends it: in the patched timeouts, not in  *)
(* nanosleep(), the scheduler is notified.                                  *)
NapEnds(t) ==
    /\ pc[t] = "nap" /\ (futexWord[t] = 0 \/ state[t] = "SLEEPING")
    /\ Goes(t, "out")
    /\ UNCHANGED <<threads, curThread, queues, phase, bar, wd>>

NotifySleepEnd(t) ==
    /\ pc[t] = "nap" /\ state[t] = "SLEEPING"
    /\ state' = [state EXCEPT ![t] = "BLOCKED"]
    /\ sleepQueue' = RemoveFirst(sleepQueue, t)
    /\ due' = [due EXCEPT ![t] = 0]
    /\ Goes(t, "out")
    /\ UNCHANGED <<cid, handoff, futexWord, marked, curThread, freeList, runQueue,
                   outQueue, fakeLeaves, phase, bar, wd>>

-----------------------------------------------------------------------------
(* sync() *)

SyncCall(t) ==
    /\ pc[t] = "app" /\ ~marked[t]
    /\ Bar!Finish(cid[t])
    /\ Goes(t, "syncing")
    /\ UNCHANGED <<threads, curThread, queues, phase, wd>>

(* handoffThread is read without the lock.                                  *)
SyncReturns(t) ==
    /\ pc[t] = "syncing" /\ bar[cid[t]] = "running"
    /\ Goes(t, IF handoff[t] = None THEN "app" ELSE "handoff")
    /\ UNCHANGED <<threads, curThread, queues, phase, bar, wd>>

(* The thread gives its context over, looks for another and is queued.      *)
Handoff(t) ==
    /\ pc[t] = "handoff"
    /\ LET c == cid[t]
           dst == handoff[t] IN
       /\ handoff' = [handoff EXCEPT ![t] = None]
       /\ futexWord' = [futexWord EXCEPT ![dst] = 0, ![t] = 1]
       /\ AnyFree(t) = None /\ VictimFor(t) = None
       /\ state' = [state EXCEPT ![dst] = "RUNNING", ![t] = "QUEUED"]
       /\ Takes(dst, c)
       /\ runQueue' = Append(runQueue, t)
       /\ Goes(t, "queued")
    /\ UNCHANGED <<marked, due, freeList, outQueue, sleepQueue, fakeLeaves, phase,
                   bar, wd>>

(* "Untested code path": it finds one.                                      *)
HandoffAndMove(t) ==
    /\ pc[t] = "handoff"
    /\ LET c == cid[t]
           dst == handoff[t]
           free == AnyFree(t)
           o == VictimFor(t)
           to == IF free # None THEN free ELSE IF o # None THEN cid[o] ELSE None IN
       /\ to # None
       /\ handoff' = [handoff EXCEPT ![t] = None]
       /\ futexWord' = [futexWord EXCEPT ![dst] = 0]
       /\ cid' = [cid EXCEPT ![dst] = c, ![t] = to]
       /\ curThread' = [curThread EXCEPT ![c] = dst, ![to] = t]
       /\ freeList' = RemoveFirst(freeList, to)
       /\ IF free = None
          THEN /\ state' = [state EXCEPT ![dst] = "RUNNING", ![o] = "BLOCKED"]
               /\ outQueue' = RemoveFirst(outQueue, o)
          ELSE /\ state' = [state EXCEPT ![dst] = "RUNNING"]
               /\ UNCHANGED outQueue
       /\ Bar!Enter(to)
       /\ Goes(t, "joining")
    /\ UNCHANGED <<marked, due, runQueue, sleepQueue, fakeLeaves, phase, wd>>

-----------------------------------------------------------------------------
(* callback() *)

(* The first n sleepers are those whose time has come.                      *)
WakesFirst(n) ==
    /\ \A i \in 1 .. n : due[sleepQueue[i]] <= 1
    /\ n < Len(sleepQueue) => due[sleepQueue[n + 1]] > 1

Sleeps(t) == marked[t] \/ state[t] = "SLEEPING"

(* The assignments schedTick() may come to, with the cores shuffled: every  *)
(* queued thread in turn gets a core that is left and in its mask.          *)
Assignments ==
    {m \in [DOMAIN runQueue -> Core \cup {None}] :
        \A i \in DOMAIN runQueue :
            LET left == mask[runQueue[i]] \ {m[j] : j \in 1 .. i - 1} IN
            IF left = {} THEN m[i] = None ELSE m[i] \in left}

(* The queue without the threads assigned, in the same order.               *)
StillQueued(m) ==
    {q \in SetToSeqs({runQueue[i] : i \in {k \in DOMAIN m : m[k] = None}}) :
        \A i, j \in DOMAIN q, k, l \in DOMAIN m :
            i < j /\ runQueue[k] = q[i] /\ runQueue[l] = q[j] => k < l}

(* Faulty variant: the threads assigned stay in the queue.                  *)
TickKeepingQueue ==
    \E m \in Assignments :
        /\ handoff' = [t \in Thread |->
                IF \E i \in DOMAIN m : m[i] # None /\ curThread[m[i]] = t
                THEN runQueue[CHOOSE i \in DOMAIN m : m[i] # None /\ curThread[m[i]] = t]
                ELSE handoff[t]]
        /\ UNCHANGED runQueue

Tick ==
    \E m \in Assignments :
        /\ handoff' = [t \in Thread |->
                IF \E i \in DOMAIN m : m[i] # None /\ curThread[m[i]] = t
                THEN runQueue[CHOOSE i \in DOMAIN m : m[i] # None /\ curThread[m[i]] = t]
                ELSE handoff[t]]
        /\ runQueue' \in StillQueued(m)

Callback ==
    /\ phase' = (phase + 1) % schedQuantum
    /\ \E n \in 0 .. Len(sleepQueue) :
          LET woken == {sleepQueue[i] : i \in 1 .. n} IN
          /\ WakesFirst(n)
          /\ state' = [t \in Thread |-> IF t \in woken THEN "BLOCKED" ELSE state[t]]
          /\ futexWord' = [t \in Thread |-> IF t \in woken THEN 0 ELSE futexWord[t]]
          /\ sleepQueue' = SubSeq(sleepQueue, n + 1, Len(sleepQueue))
          /\ due' = [t \in Thread |->
                IF Sleeps(t) /\ t \notin woken /\ due[t] >= 0 THEN due[t] - 1 ELSE 0]
    /\ IF runQueue # <<>> /\ phase' = 0 THEN Tick ELSE UNCHANGED <<handoff, runQueue>>
    /\ UNCHANGED <<cid, marked, curThread, freeList, outQueue, fakeLeaves, pc, wd>>

EndPhase == Bar!EndPhase /\ Callback

(* The barrier gives a context its turn.                                    *)
BarrierStarts(c) ==
    /\ Bar!Start(c)
    /\ UNCHANGED <<threads, curThread, queues, phase, pc, wd>>

-----------------------------------------------------------------------------
(* The watchdog *)

ScheduledThreads == Cardinality({c \in Core : curThread[c] # None})

(* Faulty variant: threads that are out count as scheduled.                 *)
DriveTimeWhenEmpty ==
    /\ ScheduledThreads = 0 /\ sleepQueue # <<>>
    /\ Callback
    /\ UNCHANGED bar

(* Nobody is in the barrier and somebody sleeps: time is driven forward.    *)
DriveTime ==
    /\ ScheduledThreads = Len(outQueue) /\ sleepQueue # <<>>
    /\ Callback
    /\ UNCHANGED bar

(* A phase that does not end is put down to the first of the fake leaves.   *)
GiveUpOnCall ==
    /\ wd = None /\ fakeLeaves # <<>>
    /\ wd' = Head(fakeLeaves)
    /\ fakeLeaves' = Tail(fakeLeaves)
    /\ UNCHANGED <<threads, curThread, freeList, runQueue, outQueue, sleepQueue,
                   phase, bar, pc>>

(* In between, the lock was free.                                           *)
WatchdogLeaves ==
    /\ wd # None /\ pc[wd] \notin {"ending", "ended"}
    /\ LeaveCall(wd)
    /\ wd' = None
    /\ UNCHANGED <<fakeLeaves, pc>>

-----------------------------------------------------------------------------
(* finish(), by the thread or, when it was killed, by the watchdog, which   *)
(* processCleanup() keeps busy until the thread is gone.                    *)

Kill(t) ==
    /\ pc[t] \in Killable
    /\ Goes(t, "dead")
    /\ UNCHANGED <<threads, curThread, queues, phase, bar, wd>>

(* A thread does not end while it sleeps (scheduler.h:253); a killed one is *)
(* taken out of the sleepers first.                                         *)
MayFinish(t) ==
    \/ pc[t] = "dead" /\ wd = None
    \/ CallsJoin(t) /\ state[t] # "SLEEPING"

(* A scheduled thread leaves first, and the lock is released meanwhile.     *)
Finish(t) ==
    /\ MayFinish(t) /\ state[t] = "RUNNING"
    /\ fakeLeaves' = RemoveFirst(fakeLeaves, t)
    /\ wd' = IF pc[t] = "dead" THEN t ELSE wd
    /\ Goes(t, "ending")
    /\ UNCHANGED <<threads, curThread, freeList, runQueue, outQueue, sleepQueue,
                   phase, bar>>

FinishLeaves(t) ==
    /\ pc[t] = "ending" /\ Goes(t, "ended")
    /\ LeaveCall(t)
    /\ UNCHANGED <<fakeLeaves, wd>>

Ended(t) ==
    /\ \/ pc[t] = "ended"
       \/ MayFinish(t) /\ state[t] # "RUNNING"
    /\ Goes(t, "none")
    /\ state' = [state EXCEPT ![t] = "NONE"]
    /\ runQueue' = RemoveFirst(runQueue, t)
    /\ outQueue' = RemoveFirst(outQueue, t)
    /\ sleepQueue' = RemoveFirst(sleepQueue, t)
    /\ due' = [due EXCEPT ![t] = 0]
    /\ wd' = IF wd = t THEN None ELSE wd
    /\ UNCHANGED <<cid, handoff, futexWord, marked, fakeLeaves, phase, bar>>

(* Faulty variant: the context of a thread that is out is forgotten.        *)
FinishedForgettingContext(t) ==
    /\ Ended(t)
    /\ curThread' = IF state[t] = "OUT" THEN [curThread EXCEPT ![cid[t]] = None]
                    ELSE curThread
    /\ UNCHANGED freeList

Finished(t) ==
    /\ Ended(t)
    /\ IF state[t] = "OUT"
       THEN /\ curThread' = [curThread EXCEPT ![cid[t]] = None]
            /\ freeList' = Append(freeList, cid[t])
       ELSE UNCHANGED <<curThread, freeList>>

-----------------------------------------------------------------------------
Works(t) == \/ Join(t) \/ JoinReturns(t) \/ SyncReturns(t)
            \/ Handoff(t) \/ HandoffAndMove(t)

Next ==
    \/ \E t \in Thread :
          \/ Start(t) \/ Works(t) \/ SyncCall(t)
          \/ MarkForSleep(t) \/ SyscallLeaves(t) \/ SyscallFakesLeave(t)
          \/ NapEnds(t) \/ NotifySleepEnd(t)
          \/ Kill(t) \/ Finish(t) \/ FinishLeaves(t) \/ Finished(t)
    \/ \E c \in Core : BarrierStarts(c)
    \/ EndPhase \/ DriveTime \/ GiveUpOnCall \/ WatchdogLeaves

Spec == Init /\ [][Next]_vars

(* Inside the scheduler every thread and the watchdog go on.  A thread may  *)
(* stay in a system call for ever, but not run for ever without syncing.    *)
Fairness ==
    /\ \A t \in Thread :
          /\ WF_vars(JoinReturns(t) \/ SyncReturns(t) \/ Handoff(t) \/ HandoffAndMove(t))
          /\ WF_vars(pc[t] = "marked" /\ SyscallLeaves(t))
          /\ WF_vars(FinishLeaves(t) \/ (pc[t] = "ended" /\ Finished(t)))
          /\ SF_vars(SyncCall(t))
    /\ \A c \in Core : WF_vars(BarrierStarts(c))
    /\ WF_vars(EndPhase) /\ WF_vars(DriveTime)
    /\ WF_vars(GiveUpOnCall) /\ WF_vars(WatchdogLeaves)

FairSpec == Spec /\ Fairness

-----------------------------------------------------------------------------
(* Properties. *)

ThreadState == {"NONE", "STARTED", "RUNNING", "OUT", "BLOCKED", "SLEEPING", "QUEUED"}

Distinct(seq) == \A i, j \in DOMAIN seq : seq[i] = seq[j] => i = j

TypeOK ==
    /\ state \in [Thread -> ThreadState]
    /\ cid \in [Thread -> Core]
    /\ handoff \in [Thread -> Thread \cup {None}]
    /\ futexWord \in [Thread -> {0, 1}]
    /\ marked \in [Thread -> BOOLEAN]
    /\ due \in [Thread -> -1 .. MaxSleep]
    /\ curThread \in [Core -> Thread \cup {None}]
    /\ ToSet(freeList) \subseteq Core /\ Distinct(freeList)
    /\ \A q \in {runQueue, outQueue, sleepQueue, fakeLeaves} :
          ToSet(q) \subseteq Thread /\ Distinct(q)
    /\ phase \in 0 .. schedQuantum - 1
    /\ bar \in [Core -> {"out", "ready", "running", "done"}]
    /\ pc \in [Thread -> {"none", "out", "joining", "queued", "app", "marked", "nap",
                          "syncing", "handoff", "dead", "ending", "ended"}]
    /\ wd \in Thread \cup {None}

ThreadsIn(s) == {t \in Thread : state[t] = s}

HasContext(t) == state[t] \in {"RUNNING", "OUT"}

(***************************************************************************)
(* Contexts and threads name each other: a thread that is RUNNING or OUT   *)
(* has the context cid to itself, the other contexts are in freeList, and  *)
(* a context takes part in the barrier exactly while its thread is         *)
(* RUNNING.  Leaves, steals, hand-offs and the ends of threads each update *)
(* these by hand.  (The variables keep their types besides.)               *)
(***************************************************************************)
ContextsExact ==
    /\ TypeOK
    /\ \A t \in Thread : HasContext(t) <=> \E c \in Core : curThread[c] = t
    /\ \A c \in Core : curThread[c] # None => cid[curThread[c]] = c
    /\ ToSet(freeList) = {c \in Core : curThread[c] = None}
    /\ \A c \in Core :
          bar[c] # "out" <=> curThread[c] # None /\ state[curThread[c]] = "RUNNING"

(***************************************************************************)
(* Nobody is lost: a QUEUED thread is in runQueue or is the hand-off of    *)
(* exactly one RUNNING thread, never both; OUT and SLEEPING threads are in *)
(* their queues.                                                           *)
(***************************************************************************)
NobodyLost ==
    /\ \A t \in ThreadsIn("QUEUED") :
          LET heirs == {v \in ThreadsIn("RUNNING") : handoff[v] = t} IN
          Cardinality(heirs) = IF Contains(runQueue, t) THEN 0 ELSE 1
    /\ \A t \in Thread : handoff[t] # None =>
          state[t] = "RUNNING" /\ state[handoff[t]] = "QUEUED"
    /\ ToSet(runQueue) \subseteq ThreadsIn("QUEUED")
    /\ ToSet(outQueue) = ThreadsIn("OUT")
    /\ ToSet(sleepQueue) = ThreadsIn("SLEEPING")

(***************************************************************************)
(* No thread waits in runQueue for a context that is free or whose thread  *)
(* is out: "schedContext and schedThread would have matched them out"      *)
(* (scheduler.h:723).  schedTick() relies on it when it asserts that every *)
(* context it assigns has a thread.                                        *)
(***************************************************************************)
NoIdleContextWanted ==
    \A t \in ToSet(runQueue) : \A c \in mask[t] :
        curThread[c] # None /\ state[curThread[c]] = "RUNNING"

(***************************************************************************)
(* A thread that executes simulated code, or is about to hand its context  *)
(* over, is scheduled, its context runs in the barrier, and no other       *)
(* thread executes on it: contexts change hands only while their thread    *)
(* waits or is in a call.                                                  *)
(***************************************************************************)
OnlyScheduledRun ==
    \A t \in Thread : pc[t] \in {"app", "marked", "handoff"} =>
        state[t] = "RUNNING" /\ curThread[cid[t]] = t /\ bar[cid[t]] = "running"

(***************************************************************************)
(* A thread is woken only while it waits: its word is 1 whenever wakeup()  *)
(* may be called for it, so "Wakeup race in barrier?" is no panic.         *)
(***************************************************************************)
NoWakeupRace ==
    \A t \in Thread :
        state[t] \in {"QUEUED", "SLEEPING"} => futexWord[t] = 1

(***************************************************************************)
(* Sleepers are in the order of their deadlines, and none has missed its   *)
(* own: callback() asserts that a sleeper it wakes is due in this phase    *)
(* (scheduler.h:450), whichever of the barrier and the watchdog calls it.  *)
(***************************************************************************)
SleepersOnTime ==
    /\ \A i, j \in DOMAIN sleepQueue :
          i < j => due[sleepQueue[i]] <= due[sleepQueue[j]]
    /\ \A t \in ThreadsIn("SLEEPING") : due[t] >= 1

(***************************************************************************)
(* While a thread is marked for sleep it is scheduled, so that a leave()   *)
(* puts it into sleepQueue: "it is our responsibility to wake this thread  *)
(* up when its deadline arrives" (scheduler.h:68).                         *)
(***************************************************************************)
SleepersHaveAlarm ==
    \A t \in Thread : pc[t] = "nap" /\ futexWord[t] = 1 =>
        state[t] = "SLEEPING" \/ (marked[t] /\ state[t] = "RUNNING")

(***************************************************************************)
(* join() finds the thread in one of the states it asserts                 *)
(* (scheduler.h:312), or in a fake leave.                                  *)
(***************************************************************************)
JoinExpectsState ==
    \A t \in Thread : CallsJoin(t) /\ ~FakeLeft(t) =>
        state[t] \in {"OUT", "SLEEPING", "BLOCKED", "STARTED"}

(***************************************************************************)
(* A thread that may call sync() has a context whose turn it is, as the    *)
(* barrier asserts (barrier.h:183).                                        *)
(***************************************************************************)
SyncFindsRunning ==
    \A t \in Thread : pc[t] = "app" => bar[cid[t]] = "running"

(***************************************************************************)
(* finish() finds a QUEUED thread in runQueue (scheduler.h:255).           *)
(***************************************************************************)
FinishFindsQueued ==
    \A t \in ThreadsIn("QUEUED") :
        MayFinish(t) \/ pc[t] = "ended" => Contains(runQueue, t)

(***************************************************************************)
(* Every thread that is queued gets a context, and every sleeper is woken, *)
(* though the others may block in system calls for ever: the quantum, the  *)
(* watchdog that gives up on calls and the watchdog that drives time on    *)
(* all have to do their part.                                              *)
(***************************************************************************)
EveryoneGetsOn ==
    \A t \in Thread : \A s \in {"QUEUED", "SLEEPING"} :
        state[t] = s ~> state[t] # s
=============================================================================
