----------------------------- MODULE TimerThread -----------------------------
(***************************************************************************)
(* libupnp/pthread/TimerThread.c: one persistent job of a thread pool that *)
(* sleeps until the next of the scheduled events is due and then hands its *)
(* job to the pool.  timer->mutex guards every field; an action is a       *)
(* critical section, except that the worker keeps the mutex from one turn  *)
(* of its loop to the next ("looping"), so each turn is an action and the  *)
(* other threads wait.  The worker and the thread in TimerThreadShutdown   *)
(* sleep on the same condition.                                            *)
(*                                                                         *)
(* The pool is its contract: it takes a job and runs it later, or refuses  *)
(* it when maxJobsTotal jobs are queued.  Left out: ABS_SEC and LONG_TERM  *)
(* events, which nothing schedules, and failing allocations.               *)
(***************************************************************************)
EXTENDS Integers, Sequences, FiniteSets, SequencesExt

CONSTANTS
    Events,        \* the events that can be scheduled or queued at a time
    Callers,       \* threads that schedule and remove events
    Delays,        \* the relative timeouts they ask for, in seconds
    PoolMayRefuse, \* whether ThreadPoolAdd may fail
    MaxTime,       \* bound: time stops there
    MaxEventId,    \* bound: no event is scheduled from there on
    NoEvent

Forever == MaxTime + 1
NoId    == -1

ASSUME TimerAssumption ==
    /\ NoEvent \notin Events
    /\ Callers # {} /\ IsFiniteSet(Callers)
    /\ Delays \subseteq Int
    /\ PoolMayRefuse \in BOOLEAN
    /\ MaxTime \in Nat /\ MaxEventId \in Nat

VARIABLES
    now,         \* time(NULL)
    eventQ,      \* the events in the order of the list
    eventTime,   \* eventTime of an event
    eventId,     \* id of an event
    scheduler,   \* the caller that scheduled an event
    pooled,      \* events whose job the pool has taken and not yet finished
    lastEventId,
    call,        \* event and time of a TimerThreadSchedule that waits for the mutex
    handle,      \* the id of a caller's last event
    worker, deadline,
    shutdown,
    stopper      \* the thread in TimerThreadShutdown

eventVars == <<eventTime, eventId, scheduler>>
callVars  == <<call, handle>>
waitVars  == <<worker, deadline>>
vars == <<now, eventQ, eventVars, pooled, lastEventId, callVars, waitVars, shutdown, stopper>>

Times == {x + d : x \in 0..MaxTime, d \in Delays} \cup {0}

TypeOK ==
    /\ now \in 0..MaxTime
    /\ eventQ \in Seq(Events)
    /\ eventTime \in [Events -> Times]
    /\ eventId \in [Events -> 0..MaxEventId]
    /\ scheduler \in [Events -> Callers]
    /\ pooled \subseteq Events
    /\ lastEventId \in 0..MaxEventId
    /\ call \in [Callers -> [event : Events \cup {NoEvent}, time : Times]]
    /\ handle \in [Callers -> -1..MaxEventId]
    /\ worker \in {"looping", "waiting", "woken", "gone"}
    /\ deadline \in Times \cup {Forever}
    /\ shutdown \in BOOLEAN
    /\ stopper \in {"none", "waiting", "woken", "done"}

-------------------------------------------------------------------------------
NoCall == [event |-> NoEvent, time |-> 0]
Queued(e) == \E i \in 1..Len(eventQ) : eventQ[i] = e
Free(e) == ~Queued(e) /\ e \notin pooled /\ \A t \in Callers : call[t].event # e

(* timer->mutex is free unless the worker is in its loop.                   *)
MutexFree == worker # "looping"

(* ithread_cond_signal(&timer->condition) wakes one of the two sleepers.    *)
Signal ==
    \/ worker = "waiting" /\ worker' = "woken" /\ UNCHANGED stopper
    \/ stopper = "waiting" /\ stopper' = "woken" /\ UNCHANGED worker
    \/ worker # "waiting" /\ stopper # "waiting" /\ UNCHANGED <<worker, stopper>>

-------------------------------------------------------------------------------
(* TimerThreadWorker                                                        *)

WorkerLocks ==
    /\ worker = "woken"
    /\ worker' = "looping"
    /\ UNCHANGED <<now, eventQ, eventVars, pooled, lastEventId, callVars, deadline, shutdown, stopper>>

WorkerStopsSilently ==
    /\ worker = "looping" /\ shutdown
    /\ shutdown' = FALSE
    /\ worker' = "gone"
    /\ UNCHANGED <<now, eventQ, eventVars, pooled, lastEventId, callVars, deadline, stopper>>

WorkerStops ==
    /\ worker = "looping" /\ shutdown
    /\ shutdown' = FALSE
    /\ worker' = "gone"
    /\ stopper' = IF stopper = "waiting" THEN "woken" ELSE stopper
    /\ UNCHANGED <<now, eventQ, eventVars, pooled, lastEventId, callVars, deadline>>

HeadIsDueAtDeadline == eventQ # <<>> /\ (now >= eventTime[Head(eventQ)] \/ now + 1 >= deadline)
HeadIsDue == eventQ # <<>> /\ now >= eventTime[Head(eventQ)]

(* Whatever ThreadPoolAdd returns, the event leaves the queue.              *)
WorkerSchedulesJob ==
    /\ worker = "looping" /\ ~shutdown /\ HeadIsDue
    /\ \/ pooled' = pooled \cup {Head(eventQ)}
       \/ PoolMayRefuse /\ UNCHANGED pooled
    /\ eventQ' = Tail(eventQ)
    /\ UNCHANGED <<now, eventVars, lastEventId, callVars, waitVars, shutdown, stopper>>

NextDeadline == IF eventQ = <<>> THEN Forever ELSE eventTime[Head(eventQ)]

WorkerWaits ==
    /\ worker = "looping" /\ ~shutdown /\ ~HeadIsDue
    /\ worker' = "waiting"
    /\ deadline' = NextDeadline
    /\ UNCHANGED <<now, eventQ, eventVars, pooled, lastEventId, callVars, shutdown, stopper>>

WorkerTimesOut ==
    /\ worker = "waiting" /\ now >= deadline
    /\ worker' = "woken"
    /\ UNCHANGED <<now, eventQ, eventVars, pooled, lastEventId, callVars, deadline, shutdown, stopper>>

(* The pool runs the job of an event.                                       *)
JobRuns(e) ==
    /\ e \in pooled
    /\ pooled' = pooled \ {e}
    /\ UNCHANGED <<now, eventQ, eventVars, lastEventId, callVars, waitVars, shutdown, stopper>>

-------------------------------------------------------------------------------
(* TimerThreadSchedule.  The time is computed before the mutex is taken.    *)

CalculateEventTime(t, e, d) ==
    /\ stopper = "none" /\ call[t] = NoCall /\ Free(e)
    /\ lastEventId + Cardinality({u \in Callers : call[u] # NoCall}) < MaxEventId
    /\ call' = [call EXCEPT ![t] = [event |-> e, time |-> now + d]]
    /\ UNCHANGED <<now, eventQ, eventVars, pooled, lastEventId, handle, waitVars, shutdown, stopper>>

InsertedAtTail(e, time) == eventQ' = Append(eventQ, e)

(* In front of the first event that is not earlier.                         *)
Inserted(e, time) ==
    \E i \in 1..(Len(eventQ) + 1) :
        /\ i <= Len(eventQ) => eventTime[eventQ[i]] >= time
        /\ \A k \in 1..(i - 1) : eventTime[eventQ[k]] < time
        /\ eventQ' = InsertAt(eventQ, i, e)

NextEventIdOfQueue == Len(eventQ)
NewEventId == lastEventId

SignalChange == Signal

TimerThreadSchedule(t) ==
    /\ MutexFree /\ call[t] # NoCall
    /\ LET e == call[t].event
       IN  /\ Inserted(e, call[t].time)
           /\ eventTime' = [eventTime EXCEPT ![e] = call[t].time]
           /\ eventId' = [eventId EXCEPT ![e] = NewEventId]
           /\ scheduler' = [scheduler EXCEPT ![e] = t]
    /\ SignalChange
    /\ handle' = [handle EXCEPT ![t] = NewEventId]
    /\ lastEventId' = lastEventId + 1
    /\ call' = [call EXCEPT ![t] = NoCall]
    /\ UNCHANGED <<now, pooled, deadline, shutdown>>

(* A removal that finds no event with the id changes nothing: the event has *)
(* been handed to the pool.                                                 *)
TimerThreadRemove(t) ==
    /\ MutexFree /\ stopper = "none" /\ call[t] = NoCall
    /\ \E i \in 1..Len(eventQ) :
         /\ eventId[eventQ[i]] = handle[t]
         /\ \A k \in 1..(i - 1) : eventId[eventQ[k]] # handle[t]
         /\ eventQ' = RemoveAt(eventQ, i)
    /\ UNCHANGED <<now, eventVars, pooled, lastEventId, callVars, waitVars, shutdown, stopper>>

-------------------------------------------------------------------------------
(* TimerThreadShutdown                                                      *)

BroadcastMissed == worker' = IF eventQ # <<>> /\ worker = "waiting" THEN "woken" ELSE worker
BroadcastToWorker == worker' = IF worker = "waiting" THEN "woken" ELSE worker

(* UpnpFinish has unregistered the client and the devices: no call is under *)
(* way.                                                                     *)
TimerThreadShutdown ==
    /\ MutexFree /\ stopper = "none"
    /\ \A t \in Callers : call[t] = NoCall
    /\ shutdown' = TRUE
    /\ eventQ' = <<>>
    /\ BroadcastToWorker
    /\ stopper' = "waiting"
    /\ UNCHANGED <<now, eventVars, pooled, lastEventId, callVars, deadline>>

ShutdownReturns ==
    /\ stopper = "woken" /\ MutexFree
    /\ stopper' = IF shutdown THEN "waiting" ELSE "done"
    /\ UNCHANGED <<now, eventQ, eventVars, pooled, lastEventId, callVars, waitVars, shutdown>>

-------------------------------------------------------------------------------
Tick ==
    /\ now < MaxTime
    /\ now' = now + 1
    /\ UNCHANGED <<eventQ, eventVars, pooled, lastEventId, callVars, waitVars, shutdown, stopper>>

(* TimerThreadInit has returned: a worker of the pool has picked the job up. *)
Init ==
    /\ now = 0
    /\ eventQ = <<>>
    /\ eventTime = [e \in Events |-> 0]
    /\ eventId = [e \in Events |-> 0]
    /\ scheduler \in [Events -> {CHOOSE t \in Callers : TRUE}]
    /\ pooled = {}
    /\ lastEventId = 0
    /\ call = [t \in Callers |-> NoCall]
    /\ handle = [t \in Callers |-> NoId]
    /\ worker = "woken" /\ deadline = Forever
    /\ shutdown = FALSE
    /\ stopper = "none"

Worker == WorkerLocks \/ WorkerStops \/ WorkerSchedulesJob \/ WorkerWaits \/ WorkerTimesOut

Next ==
    \/ Worker
    \/ \E e \in Events : JobRuns(e)
    \/ \E t \in Callers, e \in Events, d \in Delays : CalculateEventTime(t, e, d)
    \/ \E t \in Callers : TimerThreadSchedule(t) \/ TimerThreadRemove(t)
    \/ TimerThreadShutdown
    \/ ShutdownReturns
    \/ Tick
    \/ stopper = "done" /\ UNCHANGED vars

Spec == Init /\ [][Next]_vars

(* The worker and the thread in TimerThreadShutdown get the mutex in the    *)
(* end, and time goes on.                                                   *)
Fairness == WF_vars(Worker) /\ WF_vars(ShutdownReturns) /\ WF_vars(Tick)

LiveSpec == Spec /\ Fairness

-------------------------------------------------------------------------------
(* Safety                                                                   *)

(* The head of the queue is the next event to occur.                        *)
QueueOrdered ==
    \A i, k \in 1..Len(eventQ) : i < k => eventTime[eventQ[i]] <= eventTime[eventQ[k]]

(* The queue: its types and its order.                                      *)
QueueSound == TypeOK /\ QueueOrdered

(* The worker never sleeps past an event: an event scheduled before the one *)
(* it waits for has woken it up.                                            *)
NoOversleep ==
    worker = "waiting" => \A i \in 1..Len(eventQ) : deadline <= eventTime[eventQ[i]]

(* The condition has two kinds of sleepers and is signalled, not broadcast, *)
(* by TimerThreadSchedule and the worker: no shutdown is left unnoticed.    *)
ShutdownNoticed ==
    shutdown => worker \in {"looping", "woken"}

(* One signal wakes one sleeper, and it is the worker that needs it.        *)
WorkerIsWoken == NoOversleep /\ ShutdownNoticed

(* TimerThreadRemove takes back the caller's own event or none, although    *)
(* the caller may still hold the id of an event that has fired.             *)
RemovesOwnEvent ==
    [][\A t \in Callers : TimerThreadRemove(t) =>
         \A e \in Events : Queued(e) /\ ~Queued(e)' => scheduler[e] = t]_vars

AC == INSTANCE AlarmClock WITH
    Alarms <- Events,
    state <- [e \in Events |-> IF Queued(e) THEN "set"
                               ELSE IF e \in pooled THEN "rung" ELSE "idle"],
    time <- eventTime,
    on <- stopper = "none"

(* Events ring as the abstract AlarmClock has them ring: never early, never *)
(* out of order, once, and not after they were removed.  (An event whose    *)
(* job the pool refuses is one the clock sees cancelled.)                   *)
ImplementsAlarmClock == AC!AlarmClockSpec

-------------------------------------------------------------------------------
(* Liveness                                                                 *)

(* An event whose time comes is handed to the pool or removed.              *)
DueEventLeavesQueue ==
    \A e \in Events : Queued(e) /\ eventTime[e] <= MaxTime ~> ~Queued(e)

(* TimerThreadShutdown returns.                                             *)
TimerStops == stopper # "none" ~> stopper = "done"

(* The worker does its two duties: due events and the shutdown.             *)
TimerLives == DueEventLeavesQueue /\ TimerStops

===============================================================================
