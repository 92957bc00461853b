------------------------------ MODULE SimMemory ------------------------------
(***************************************************************************)
(* The memory controller of the simulator (nvmain_mem_ctrl.cpp) with the   *)
(* CLIMBER scheme in front of it.                                          *)
(*                                                                         *)
(* In the bound phase access(), under access_lock, asks the scheme and     *)
(* records one timing event for a plain access, or, for a swap, the events *)
(* that read and write two whole pages: one of them, the parent, is the    *)
(* event the core waits for, the others hang on it as children.            *)
(*                                                                         *)
(* In the weave phase the parent's event calls enqueue(), which issues the *)
(* parent and then all children to NVMain.  NVMain is cycled by tick() and *)
(* before every request issued, and calls RequestComplete() while it is.   *)
(* The controller's events are in one domain and run one after the other.  *)
(*                                                                         *)
(* NVMain itself is external: it refuses a request or takes it, and        *)
(* completes what it has taken in any order.                               *)
(***************************************************************************)
EXTENDS SimClimber, Sequences

CONSTANTS
    Slots,           \* bound: accesses recorded and not done yet
    lines,           \* cache lines of a page, 1 << (page_shift - lineBits)
    ParentMayBeLast, \* NVMain may complete the request issued first last
    None

EventRecord == [page : Page, line : 1 .. lines, isWrite : BOOLEAN]

Group == [events : Seq(EventRecord), linked : SUBSET Nat, isend : BOOLEAN]

ASSUME MemoryAssumption ==
    /\ None \notin Slots /\ None \notin Group
    /\ lines \in Nat \ {0}
    /\ ParentMayBeLast \in BOOLEAN

VARIABLES
    evlist,            \* for each slot None, or its parent and children
    inflightRequests,  \* the slots whose parent is issued, oldest first
    nextSchedEvent,    \* tick() is scheduled
    nextSchedRequest,  \* the slot tick() waits for
    return_lock,       \* held
    nvmain,            \* external: the requests taken and not completed
    pc,                \* "idle", or the call in progress: "tick", "enqueue"
    current,           \* enqueue()'s group
    p2                 \* enqueue()'s place in it: the last request issued

weaveVars == <<inflightRequests, nextSchedEvent, nextSchedRequest, return_lock,
               nvmain, pc, current, p2>>
vars      == <<schemeVars, evlist, weaveVars>>

Issued == {inflightRequests[i] : i \in DOMAIN inflightRequests}

Init ==
    /\ SchemeInit
    /\ evlist = [g \in Slots |-> None]
    /\ inflightRequests = <<>>
    /\ nextSchedEvent = FALSE
    /\ nextSchedRequest = None
    /\ return_lock = FALSE
    /\ nvmain = {}
    /\ pc = "idle"
    /\ current = None
    /\ p2 = 0

-----------------------------------------------------------------------------
(* Bound phase: access() and push_to_main_memory().                        *)

Event(page, line, isWrite) == [page |-> page, line |-> line, isWrite |-> isWrite]

pageread(page) == [i \in 1 .. lines |-> Event(page, i, FALSE)]

pagewrite(page) == [i \in 1 .. lines |-> Event(page, i, TRUE)]

(* Faulty variant: both writes go to the page the address left. *)
SwapEventsToOld(new, old) ==
    LET events == pageread(new) \o pageread(old) \o pagewrite(old) \o pagewrite(old)
        first  == 2 * lines + 1
    IN  [events EXCEPT ![1] = events[first], ![first] = events[1]]

(***************************************************************************)
(* The events of a swap.  The first one created becomes the parent, until  *)
(* the first one of the kind the core asked for, here the first write,     *)
(* takes its place and leaves its own to it.                               *)
(***************************************************************************)
SwapEvents(new, old) ==
    LET events == pageread(new) \o pageread(old) \o pagewrite(new) \o pagewrite(old)
        first  == 2 * lines + 1
    IN  [events EXCEPT ![1] = events[first], ![first] = events[1]]

Record(g, events) ==
    /\ pc = "idle" /\ ~return_lock
    /\ evlist[g] = None
    /\ evlist' = [evlist EXCEPT ![g] = [events |-> events,
                                        linked |-> 2 .. Len(events),
                                        isend  |-> FALSE]]
    /\ UNCHANGED weaveVars

(* A read (GETS, GETX) of some line of page l. *)
AccessRead(g, l) ==
    /\ Record(g, <<Event(l, 1, FALSE)>>)
    /\ UNCHANGED schemeVars

(* A write (PUTX) of page l.  Without a swap the event keeps the address   *)
(* of the request: the page of the answer is not used.                     *)
AccessWrite(g, l) ==
    \E page \in Page :
        /\ WriteTo(l, page)
        /\ Record(g, IF page = maplist[l] THEN <<Event(l, 1, TRUE)>>
                     ELSE SwapEvents(page, maplist[l]))

-----------------------------------------------------------------------------
(* Weave phase: enqueue() and enqueuechild().                              *)

(* The timing event of group g is simulated. *)
StartEnqueue(g) ==
    /\ pc = "idle" /\ ~return_lock
    /\ evlist[g] # None /\ g \notin Issued
    /\ pc' = "enqueue" /\ current' = g /\ p2' = 0
    /\ UNCHANGED <<schemeVars, evlist, inflightRequests, nextSchedEvent,
                   nextSchedRequest, return_lock, nvmain>>

(* NVMain cannot take the parent: the event is simulated again later. *)
Requeue ==
    /\ pc = "enqueue" /\ p2 = 0 /\ ~return_lock
    /\ pc' = "idle" /\ current' = None
    /\ UNCHANGED <<schemeVars, evlist, inflightRequests, nextSchedEvent,
                   nextSchedRequest, return_lock, nvmain, p2>>

(* Request i of the current group is issued; on to the next child. *)
Issue(i) ==
    /\ nvmain' = nvmain \cup {<<current, i>>}
    /\ IF \E j \in evlist[current].linked : j > i
       THEN p2' = i /\ UNCHANGED <<pc, current>>
       ELSE p2' = 0 /\ pc' = "idle" /\ current' = None

EnqueueParent ==
    /\ pc = "enqueue" /\ p2 = 0 /\ ~return_lock
    /\ Issue(1)
    /\ inflightRequests' = Append(inflightRequests, current)
    /\ IF nextSchedEvent
       THEN UNCHANGED <<nextSchedEvent, nextSchedRequest>>
       ELSE nextSchedEvent' = TRUE /\ nextSchedRequest' = current
    /\ UNCHANGED <<schemeVars, evlist, return_lock>>

enqueuechild ==
    /\ pc = "enqueue" /\ p2 # 0 /\ ~return_lock
    /\ \E i \in evlist[current].linked :
          /\ i > p2
          /\ \A j \in evlist[current].linked : j > p2 => i <= j
          /\ Issue(i)
    /\ UNCHANGED <<schemeVars, evlist, inflightRequests, nextSchedEvent,
                   nextSchedRequest, return_lock>>

-----------------------------------------------------------------------------
(* Weave phase: tick(), which cycles NVMain while anything is in flight.   *)

StartTick ==
    /\ pc = "idle" /\ nextSchedEvent /\ ~return_lock
    /\ pc' = "tick"
    /\ UNCHANGED <<schemeVars, evlist, inflightRequests, nextSchedEvent,
                   nextSchedRequest, return_lock, nvmain, current, p2>>

(* Faulty variant: ticking stops although other requests are in flight. *)
NextToWaitForDropped == nextSchedEvent' = FALSE /\ UNCHANGED nextSchedRequest

(* What tick() does once the request it waited for is complete. *)
NextToWaitFor ==
    IF inflightRequests = <<>>
    THEN nextSchedEvent' = FALSE /\ UNCHANGED nextSchedRequest
    ELSE nextSchedRequest' = Head(inflightRequests) /\ UNCHANGED nextSchedEvent

EndTick ==
    /\ pc = "tick" /\ ~return_lock
    /\ pc' = "idle"
    /\ IF nextSchedRequest = None THEN NextToWaitFor
       ELSE UNCHANGED <<nextSchedEvent, nextSchedRequest>>
    /\ UNCHANGED <<schemeVars, evlist, inflightRequests, return_lock, nvmain,
                   current, p2>>

-----------------------------------------------------------------------------
(* Weave phase: RequestComplete(), called by NVMain while it is cycled.    *)

(* NVMain is done with request i of group g.                               *)
Completes(g, i) ==
    /\ pc \in {"tick", "enqueue"} /\ ~return_lock
    /\ <<g, i>> \in nvmain
    /\ nvmain' = nvmain \ {<<g, i>>}
    /\ UNCHANGED <<schemeVars, nextSchedEvent, pc, current, p2>>

(* inflightlist::erase() *)
Erase(g) ==
    \E i \in DOMAIN inflightRequests :
        /\ inflightRequests[i] = g
        /\ inflightRequests' = SubSeq(inflightRequests, 1, i - 1)
                               \o SubSeq(inflightRequests, i + 1, Len(inflightRequests))

(* totalcomplete() and the end of RequestComplete(): group g is done. *)
Retire(g) ==
    /\ evlist' = [evlist EXCEPT ![g] = None]
    /\ Erase(g)
    /\ nextSchedRequest' = IF nextSchedRequest = g THEN None ELSE nextSchedRequest

(* Faulty variant: a completed parent waits for nobody. *)
ParentCompletesAlone(g) ==
    /\ Completes(g, 1)
    /\ Retire(g)
    /\ UNCHANGED return_lock

(* A completed parent waits for its children. *)
ParentCompletes(g) ==
    /\ Completes(g, 1)
    /\ IF evlist[g].linked # {}
       THEN /\ evlist' = [evlist EXCEPT ![g].isend = TRUE]
            /\ UNCHANGED <<inflightRequests, nextSchedRequest>>
       ELSE Retire(g)
    /\ UNCHANGED return_lock

(***************************************************************************)
(* A completed child is unlinked.  The last one retires the group of a     *)
(* completed parent.  If the parent is not complete, the code goes on as   *)
(* if the child were a parent, through a null pointer and with return_lock *)
(* held: nothing happens after that.                                       *)
(***************************************************************************)
ChildCompletes(g, i) ==
    /\ i # 1
    /\ Completes(g, i)
    /\ IF evlist[g].linked # {i}
       THEN /\ evlist' = [evlist EXCEPT ![g].linked = @ \ {i}]
            /\ UNCHANGED <<inflightRequests, nextSchedRequest, return_lock>>
       ELSE IF evlist[g].isend
       THEN Retire(g) /\ UNCHANGED return_lock
       ELSE /\ ParentMayBeLast
            /\ evlist' = [evlist EXCEPT ![g].linked = {}]
            /\ return_lock' = TRUE
            /\ UNCHANGED <<inflightRequests, nextSchedRequest>>

RequestComplete(g) ==
    \/ ParentCompletes(g)
    \/ \E r \in nvmain : r[1] = g /\ ChildCompletes(g, r[2])

Next ==
    \/ \E g \in Slots, l \in Requests : AccessRead(g, l) \/ AccessWrite(g, l)
    \/ \E g \in Slots : StartEnqueue(g) \/ RequestComplete(g)
    \/ Requeue \/ EnqueueParent \/ enqueuechild
    \/ StartTick \/ EndTick

Spec == Init /\ [][Next]_vars

(***************************************************************************)
(* The event queue simulates every event that is due, calls return, and    *)
(* NVMain goes on taking and completing requests while it is cycled.       *)
(***************************************************************************)
Fairness ==
    /\ \A g \in Slots :
          /\ SF_vars(StartEnqueue(g))
          /\ SF_vars(EnqueueParent /\ current = g)
          /\ SF_vars(RequestComplete(g))
    /\ WF_vars(enqueuechild)
    /\ SF_vars(StartTick)
    /\ WF_vars(EndTick)

FairSpec == Spec /\ Fairness

-----------------------------------------------------------------------------
Pages(events, isWrite) == {e.page : e \in {events[i] : i \in
                              {j \in DOMAIN events : events[j].isWrite = isWrite}}}

Moved == {maplist[l] : l \in {k \in Page : maplist'[k] # maplist[k]}}

(* Every line of exactly these pages is read once and written once.        *)
Copies(events, pages) ==
    /\ Pages(events, TRUE) = pages /\ Pages(events, FALSE) = pages
    /\ Len(events) = 4 * lines
    /\ \A i, j \in DOMAIN events : events[i] = events[j] => i = j

MovesCopied ==
    /\ Moved # {} => /\ \E g \in Slots : evlist[g] = None /\ evlist'[g] # None
                    /\ {p \in Page : lifelist'[p] # lifelist[p]} = Moved
    /\ \A g \in Slots : evlist[g] = None /\ evlist'[g] # None =>
          LET events == evlist'[g].events
          IN  IF Moved = {} THEN Len(events) = 1 ELSE Copies(events, Moved)

(***************************************************************************)
(* When the scheme moves addresses, the controller records that every line *)
(* of exactly the pages they move between is read once and written once,   *)
(* and exactly these pages are charged; an access that moves nothing       *)
(* records one event (the answer of climber.cpp, as climberif2.h and       *)
(* push_to_main_memory() pass it on).                                      *)
(***************************************************************************)
SwapsCopied == [][MovesCopied]_vars

(***************************************************************************)
(* The core is told that an access is done only when all its requests have *)
(* been issued and completed, however NVMain orders them and although some *)
(* complete while enqueue() still issues others.                           *)
(***************************************************************************)
DoneAfterAll == [][
    \A g \in Slots : evlist[g] # None /\ evlist'[g] = None =>
        /\ g \in Issued /\ g # current
        /\ \A r \in nvmain' : r[1] # g]_vars

(***************************************************************************)
(* While requests are in flight tick() is scheduled, so NVMain is cycled   *)
(* until they complete; it waits for one of them; and RequestComplete()    *)
(* releases return_lock (the assertions on inflightRequests.size() and     *)
(* nextSchedEvent).                                                        *)
(***************************************************************************)
Clocked ==
    /\ nextSchedEvent \/ inflightRequests = <<>>
    /\ nextSchedRequest # None => nextSchedRequest \in Issued
    /\ nvmain # {} \/ pc = "tick" => nextSchedEvent
    /\ ~return_lock

(* Every recorded access is done some time: nobody waits for ever for a    *)
(* request that is not issued or an event that is not scheduled again.     *)
EveryAccessDone == \A g \in Slots : evlist[g] # None ~> evlist[g] = None
=============================================================================
