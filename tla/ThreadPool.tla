------------------------------ MODULE ThreadPool ------------------------------
(***************************************************************************)
(* libupnp/pthread/ThreadPool.c: a pool of worker threads that serves      *)
(* three job queues and one slot for a persistent job.  tp->mutex guards   *)
(* every field, so an action is one critical section: from a lock, or the  *)
(* return of a condition wait, to the next wait or unlock.  The two        *)
(* condition variables are wait sets: the workers whose thread is          *)
(* "waiting" (tp->condition) and the callers in sleepers                   *)
(* (tp->start_and_shutdown).                                               *)
(*                                                                         *)
(* Left out: ThreadPoolSetAttr and ThreadPoolGetAttr (nothing calls them), *)
(* the statistics, thread priorities and the pool's free lists.  A job     *)
(* whose memory cannot be allocated is a call that does nothing.           *)
(***************************************************************************)
EXTENDS Integers, Sequences, FiniteSets

CONSTANTS
    Workers,         \* names for the pthreads that can exist at the same time
    Clients,         \* threads of the application and of the other pools
    Owner,           \* the client that calls ThreadPoolInit and ThreadPoolShutdown
    ShortJobs,       \* jobs given to ThreadPoolAdd
    LongJobs,        \* jobs given to ThreadPoolAddPersistent
    Priority,        \* the priority of each short job
    Submitters,      \* the callers that add short jobs
    LongSubmitters,  \* the clients that add persistent jobs
    Removers,        \* the clients that call ThreadPoolRemove
    MinThreads, MaxThreads, JobsPerThread, MaxJobsTotal,
    StarvationTime, MaxIdleTime,   \* in ticks of the clock
    IdSpace,         \* the number of values of the int lastJobId
    CreateMayFail,   \* whether ithread_create may fail
    NoJob            \* no job: the NULL pointer

INFINITE_THREADS == -1
Priorities == {"low", "med", "high"}
Jobs == ShortJobs \cup LongJobs
Callers == Clients \cup Workers

ASSUME ThreadPoolAssumption ==
    /\ Owner \in Clients
    /\ Clients \cap Workers = {}
    /\ ShortJobs \cap LongJobs = {}
    /\ NoJob \notin Jobs
    /\ IsFiniteSet(Workers)
    /\ Priority \in [ShortJobs -> Priorities]
    /\ Submitters \subseteq Callers
    /\ LongSubmitters \subseteq Clients
    /\ Removers \subseteq Clients
    /\ MinThreads \in Nat \ {0}
    /\ MaxThreads \in Nat \cup {INFINITE_THREADS}
    /\ JobsPerThread \in Nat /\ MaxJobsTotal \in Nat
    /\ StarvationTime \in Nat /\ MaxIdleTime \in Nat
    /\ IdSpace \in Nat \ {0}
    /\ CreateMayFail \in BOOLEAN

VARIABLES
    thread,             \* where each worker thread is
    job,                \* the job a worker holds (the local variable job)
    long,               \* workers running a persistent job (persistent = 1)
    call,               \* the API call each caller is in
    sleepers,           \* callers waiting on start_and_shutdown
    queue,              \* lowJobQ, medJobQ, highJobQ
    persistentJob,
    age,                \* ticks since a job's requestTime, while it is queued
    totalThreads, busyThreads, persistentThreads,
    pending,            \* pendingWorkerThreadStart
    phase,              \* life of the pool; "shutdown" and "gone": tp->shutdown = 1
    lastJobId,
    jobId,              \* the id in a job's record
    handed              \* the id returned to the job's submitter

threadVars == <<thread, job, long>>
countVars  == <<totalThreads, busyThreads, persistentThreads>>
queueVars  == <<queue, persistentJob, age>>
idVars     == <<lastJobId, jobId, handed>>
vars == <<threadVars, call, sleepers, queueVars, countVars, pending, phase, idVars>>

(* "waiting": in ithread_cond_timedwait; "timedout": back from it with      *)
(* ETIMEDOUT; "ready": about to look for work for any other reason.         *)
ThreadStates == {"none", "created", "ready", "waiting", "timedout", "running", "finished"}

(* A call that waits: at "create" and "start" in the two loops of           *)
(* CreateWorker, at "pickup" in ThreadPoolAddPersistent, at "drain" in      *)
(* ThreadPoolShutdown.  jobs and threads are AddWorker's locals; threads is *)
(* also ThreadPoolInit's loop counter.                                      *)
Call == [op : {"none", "init", "add", "addPersistent", "shutdown"},
         at : {"none", "create", "start", "pickup", "drain"},
         job : Jobs \cup {NoJob}, jobs : Nat, threads : Int]
NoCall == [op |-> "none", at |-> "none", job |-> NoJob, jobs |-> 0, threads |-> 0]

(* Ages are told apart up to one tick past both limits.                     *)
MaxAge == IF StarvationTime < MaxIdleTime THEN MaxIdleTime + 1 ELSE StarvationTime + 1

TypeOK ==
    /\ thread \in [Workers -> ThreadStates]
    /\ job \in [Workers -> Jobs \cup {NoJob}]
    /\ long \subseteq Workers
    /\ call \in [Callers -> Call]
    /\ sleepers \subseteq Callers
    /\ queue \in [Priorities -> Seq(Jobs)]
    /\ persistentJob \in Jobs \cup {NoJob}
    /\ age \in [Jobs -> 0..MaxAge]
    /\ totalThreads \in Int /\ busyThreads \in Int /\ persistentThreads \in Int
    /\ pending \in BOOLEAN
    /\ phase \in {"init", "up", "shutdown", "gone"}
    /\ lastJobId \in 0..(IdSpace - 1)
    /\ jobId \in [Jobs -> 0..(IdSpace - 1)]
    /\ handed \in [Jobs -> 0..(IdSpace - 1)]

-------------------------------------------------------------------------------
TotalJobs == Len(queue["high"]) + Len(queue["med"]) + Len(queue["low"])

Queued(j)  == \E p \in Priorities : \E i \in 1..Len(queue[p]) : queue[p][i] = j
Pending(j) == Queued(j) \/ persistentJob = j
RunBy(w)   == IF thread[w] \in {"running", "finished"} THEN job[w] ELSE NoJob
Running(j) == \E w \in Workers : RunBy(w) = j

(* ithread_cond_signal(&tp->condition): wakes one waiting worker, if any.   *)
Signal ==
    IF \E w \in Workers : thread[w] = "waiting"
    THEN \E w \in Workers : /\ thread[w] = "waiting"
                            /\ thread' = [thread EXCEPT ![w] = "ready"]
    ELSE UNCHANGED thread

Sleep(t, c) == /\ call' = [call EXCEPT ![t] = c]
               /\ sleepers' = sleepers \cup {t}

Return(t) == /\ call' = [call EXCEPT ![t] = NoCall]
             /\ UNCHANGED sleepers

NextId == (lastJobId + 1) % IdSpace

-------------------------------------------------------------------------------
(* BumpPriority                                                             *)

(* How many jobs at the head of q have waited for at least limit.           *)
AgedPrefix(q, limit) == Cardinality({i \in 1..Len(q) : \A k \in 1..i : age[q[k]] >= limit})
Front(q, n)   == SubSeq(q, 1, n)
Rest(q, n) == SubSeq(q, n + 1, Len(q))

Backwards(q) == [i \in 1..Len(q) |-> q[Len(q) + 1 - i]]
BumpedToHead ==
    LET m == AgedPrefix(queue["med"], StarvationTime)
        l == AgedPrefix(queue["low"], MaxIdleTime)
    IN  [high |-> Backwards(Front(queue["med"], m)) \o queue["high"],
         med  |-> Backwards(Front(queue["low"], l)) \o Rest(queue["med"], m),
         low  |-> Rest(queue["low"], l)]

BumpedMedOnly ==
    LET m == AgedPrefix(queue["med"], StarvationTime)
    IN  [high |-> queue["high"] \o Front(queue["med"], m),
         med  |-> Rest(queue["med"], m),
         low  |-> queue["low"]]

(* The loop empties the aged prefix of the medium queue into the high one,  *)
(* then moves aged low jobs to the medium queue; each of those goes on at   *)
(* once if nothing younger is in front of it.                               *)
Bumped ==
    LET m     == AgedPrefix(queue["med"], StarvationTime)
        l     == AgedPrefix(queue["low"], MaxIdleTime)
        med   == Rest(queue["med"], m)
        moved == Front(queue["low"], l)
        k     == IF med = <<>> THEN AgedPrefix(moved, StarvationTime) ELSE 0
    IN  [high |-> queue["high"] \o Front(queue["med"], m) \o Front(moved, k),
         med  |-> med \o Rest(moved, k),
         low  |-> Rest(queue["low"], l)]

-------------------------------------------------------------------------------
(* WorkerThread                                                             *)

WorkerStarts(w) ==
    /\ thread[w] = "created"
    /\ thread' = [thread EXCEPT ![w] = "ready"]
    /\ totalThreads' = totalThreads + 1
    /\ pending' = FALSE
    /\ sleepers' = {}
    /\ UNCHANGED <<job, long, call, queueVars, busyThreads, persistentThreads, phase, idVars>>

(* The top of the loop gives back the job just run.                         *)
BusyLeft == [w \in Workers |-> IF job[w] = NoJob THEN busyThreads ELSE busyThreads - 1]
PersistentLeftForgotten == [w \in Workers |-> persistentThreads]
PersistentLeft == [w \in Workers |-> IF w \in long THEN persistentThreads - 1 ELSE persistentThreads]

LooksForWork(w) == thread[w] \in {"ready", "timedout", "finished"}
NoWork == TotalJobs = 0 /\ persistentJob = NoJob /\ phase \notin {"shutdown", "gone"}

GivesUp(w) ==
    \/ thread[w] = "timedout" /\ totalThreads > MinThreads
    \/ MaxThreads # INFINITE_THREADS /\ totalThreads > MaxThreads

WorkerWaits(w) ==
    /\ LooksForWork(w) /\ NoWork /\ ~GivesUp(w)
    /\ thread' = [thread EXCEPT ![w] = "waiting"]
    /\ job' = [job EXCEPT ![w] = NoJob]
    /\ long' = long \ {w}
    /\ busyThreads' = BusyLeft[w]
    /\ persistentThreads' = PersistentLeft[w]
    /\ UNCHANGED <<call, sleepers, queueVars, totalThreads, pending, phase, idVars>>

WorkerTimesOut(w) ==
    /\ thread[w] = "waiting"
    /\ thread' = [thread EXCEPT ![w] = "timedout"]
    /\ UNCHANGED <<job, long, call, sleepers, queueVars, countVars, pending, phase, idVars>>

(* exit_function, reached when idle for too long or on shutdown.            *)
WorkerExits(w) ==
    /\ LooksForWork(w)
    /\ \/ NoWork /\ GivesUp(w) /\ UNCHANGED queue
       \/ phase = "shutdown" /\ queue' = Bumped
    /\ thread' = [thread EXCEPT ![w] = "none"]
    /\ job' = [job EXCEPT ![w] = NoJob]
    /\ long' = long \ {w}
    /\ busyThreads' = BusyLeft[w]
    /\ persistentThreads' = PersistentLeft[w]
    /\ totalThreads' = totalThreads - 1
    /\ sleepers' = {}
    /\ UNCHANGED <<call, persistentJob, age, pending, phase, idVars>>

Takes(w, j) ==
    /\ thread' = [thread EXCEPT ![w] = "running"]
    /\ job' = [job EXCEPT ![w] = j]
    /\ busyThreads' = BusyLeft[w] + 1
    /\ age' = [age EXCEPT ![j] = 0]
    /\ UNCHANGED <<call, totalThreads, pending, phase, idVars>>

WorkerTakesPersistentSilently(w) ==
    /\ LooksForWork(w) /\ phase \in {"init", "up"} /\ persistentJob # NoJob
    /\ Takes(w, persistentJob)
    /\ queue' = Bumped
    /\ persistentJob' = NoJob
    /\ long' = long \cup {w}
    /\ persistentThreads' = PersistentLeft[w] + 1
    /\ UNCHANGED sleepers

WorkerTakesPersistent(w) ==
    /\ LooksForWork(w) /\ phase \in {"init", "up"} /\ persistentJob # NoJob
    /\ Takes(w, persistentJob)
    /\ queue' = Bumped
    /\ persistentJob' = NoJob
    /\ long' = long \cup {w}
    /\ persistentThreads' = PersistentLeft[w] + 1
    /\ sleepers' = {}

HighestPriority(q) == IF q["high"] # <<>> THEN "high"
                      ELSE IF q["med"] # <<>> THEN "med" ELSE "low"

WorkerTakesJobUnlinked(w) ==
    /\ LooksForWork(w) /\ phase \in {"init", "up"} /\ persistentJob = NoJob
    /\ TotalJobs > 0
    /\ Takes(w, Head(Bumped[HighestPriority(Bumped)]))
    /\ queue' = Bumped
    /\ long' = long \ {w}
    /\ persistentThreads' = PersistentLeft[w]
    /\ UNCHANGED <<sleepers, persistentJob>>

WorkerTakesJob(w) ==
    /\ LooksForWork(w) /\ phase \in {"init", "up"} /\ persistentJob = NoJob
    /\ TotalJobs > 0
    /\ LET q == Bumped
           p == HighestPriority(q)
       IN  /\ Takes(w, Head(q[p]))
           /\ queue' = [q EXCEPT ![p] = Tail(@)]
    /\ long' = long \ {w}
    /\ persistentThreads' = PersistentLeft[w]
    /\ UNCHANGED <<sleepers, persistentJob>>

(* job->func returns; its thread has not locked the mutex again yet.        *)
JobReturns(w) ==
    /\ thread[w] = "running" /\ call[w] = NoCall
    /\ thread' = [thread EXCEPT ![w] = "finished"]
    /\ UNCHANGED <<job, long, call, sleepers, queueVars, countVars, pending, phase, idVars>>

-------------------------------------------------------------------------------
(* CreateWorker                                                             *)

AtMaxThreads == MaxThreads # INFINITE_THREADS /\ totalThreads + 1 > MaxThreads

StartsThread == \E w \in Workers : /\ thread[w] = "none"
                                   /\ thread' = [thread EXCEPT ![w] = "created"]

CreateWorkerWithoutWait(t, c) ==
    /\ ~AtMaxThreads
    /\ StartsThread
    /\ pending' = TRUE
    /\ Sleep(t, [c EXCEPT !.at = "start"])

(* The caller sleeps while another worker is starting, or until its own is. *)
CreateWorker(t, c) ==
    \/ /\ pending
       /\ Sleep(t, [c EXCEPT !.at = "create"])
       /\ UNCHANGED <<thread, pending>>
    \/ /\ ~pending /\ ~AtMaxThreads
       /\ StartsThread
       /\ pending' = TRUE
       /\ Sleep(t, [c EXCEPT !.at = "start"])

CreateFails == ~pending /\ (AtMaxThreads \/ CreateMayFail)

-------------------------------------------------------------------------------
(* The calls, from the point where CreateWorker is done with.               *)

Idle(j) == ~Pending(j) /\ ~Running(j) /\ \A t \in Callers : call[t].job # j

FinishAddUnsignalled(t, c) ==
    /\ UNCHANGED <<thread, pending>>
    /\ Return(t)
    /\ handed' = [handed EXCEPT ![c.job] = lastJobId]
    /\ lastJobId' = NextId

(* ThreadPoolAdd once AddWorker has returned.                               *)
FinishAdd(t, c) ==
    /\ Signal
    /\ Return(t)
    /\ handed' = [handed EXCEPT ![c.job] = lastJobId]
    /\ lastJobId' = NextId
    /\ UNCHANGED pending

NeedsWorker(c) ==
    \/ c.threads = 0
    \/ c.threads # 0 /\ c.jobs \div c.threads >= JobsPerThread
    \/ totalThreads = busyThreads

AddWorker(t, c) ==
    \/ NeedsWorker(c) /\ CreateWorker(t, c) /\ UNCHANGED <<lastJobId, handed>>
    \/ (NeedsWorker(c) => CreateFails) /\ FinishAdd(t, c)

(* ThreadPoolAddPersistent after its CreateWorker, whatever that returned.  *)
PlacePersistent(t, c) ==
    /\ persistentJob' = c.job
    /\ jobId' = [jobId EXCEPT ![c.job] = lastJobId]
    /\ age' = [age EXCEPT ![c.job] = 0]
    /\ Signal
    /\ Sleep(t, [c EXCEPT !.at = "pickup"])
    /\ UNCHANGED pending

(* ThreadPoolShutdown up to its wait; there is no worker left to wait for   *)
(* when ThreadPoolInit failed to create the first.                          *)
BeginShutdown(t) ==
    /\ queue' = [p \in Priorities |-> <<>>]
    /\ persistentJob' = NoJob
    /\ thread' = [w \in Workers |-> IF thread[w] = "waiting" THEN "ready" ELSE thread[w]]
    /\ IF totalThreads > 0
       THEN phase' = "shutdown" /\ Sleep(t, [NoCall EXCEPT !.op = "shutdown", !.at = "drain"])
       ELSE phase' = "gone" /\ Return(t)
    /\ age' = [j \in Jobs |-> 0]
    /\ UNCHANGED pending

(* The loop of ThreadPoolInit, c.threads workers after its start.           *)
InitWorkers(t, c) ==
    \/ /\ c.threads < MinThreads
       /\ CreateWorker(t, c)
       /\ UNCHANGED <<queueVars, phase>>
    \/ c.threads < MinThreads /\ CreateFails /\ BeginShutdown(t)
    \/ /\ c.threads >= MinThreads
       /\ Return(t)
       /\ phase' = "up"
       /\ UNCHANGED <<thread, queueVars, pending>>

-------------------------------------------------------------------------------
(* API entry points                                                         *)

(* Jobs call the pool they run on (genaNotifyThread queues itself again);   *)
(* the other threads must not call it once it is being shut down.           *)
MayCall(t) ==
    /\ call[t] = NoCall
    /\ \/ t \in Clients /\ phase = "up"
       \/ t \in Workers /\ thread[t] = "running"

ThreadPoolAdd(t, j) ==
    /\ MayCall(t) /\ Idle(j)
    /\ TotalJobs < MaxJobsTotal
    /\ queue' = [queue EXCEPT ![Priority[j]] = Append(@, j)]
    /\ age' = [age EXCEPT ![j] = 0]
    /\ jobId' = [jobId EXCEPT ![j] = lastJobId]
    /\ AddWorker(t, [op |-> "add", at |-> "none", job |-> j, jobs |-> TotalJobs + 1,
                     threads |-> totalThreads - persistentThreads])
    /\ UNCHANGED <<job, long, persistentJob, countVars, phase>>

ThreadPoolAddPersistent(t, j) ==
    /\ MayCall(t) /\ Idle(j)
    /\ LET c == [NoCall EXCEPT !.op = "addPersistent", !.job = j]
       IN  \/ /\ totalThreads < MaxThreads
              /\ CreateWorker(t, c)
              /\ UNCHANGED <<persistentJob, age, jobId>>
           \/ /\ totalThreads < MaxThreads => CreateFails
              /\ totalThreads < MaxThreads \/ totalThreads - persistentThreads - 1 # 0
              /\ PlacePersistent(t, c)
    /\ UNCHANGED <<job, long, queue, countVars, phase, lastJobId, handed>>

(* Removes the first job with this id: high, medium, low, then the slot.    *)
ThreadPoolRemove(t, id) ==
    /\ MayCall(t)
    /\ LET Has(p) == \E i \in 1..Len(queue[p]) : jobId[queue[p][i]] = id
           DelNode(p) ==
             /\ \E i \in 1..Len(queue[p]) :
                  /\ jobId[queue[p][i]] = id
                  /\ \A k \in 1..(i - 1) : jobId[queue[p][k]] # id
                  /\ queue' = [queue EXCEPT ![p] = Front(@, i - 1) \o Rest(@, i)]
             /\ UNCHANGED persistentJob
       IN  \/ DelNode("high")
           \/ ~Has("high") /\ DelNode("med")
           \/ ~Has("high") /\ ~Has("med") /\ DelNode("low")
           \/ /\ \A p \in Priorities : ~Has(p)
              /\ persistentJob # NoJob /\ jobId[persistentJob] = id
              /\ persistentJob' = NoJob
              /\ UNCHANGED queue
    /\ age' = [j \in Jobs |-> IF Pending(j)' THEN age[j] ELSE 0]
    /\ UNCHANGED <<threadVars, call, sleepers, countVars, pending, phase, idVars>>

ThreadPoolShutdown ==
    /\ MayCall(Owner)
    /\ \A t \in Clients : call[t] = NoCall
    /\ BeginShutdown(Owner)
    /\ UNCHANGED <<job, long, countVars, idVars>>

-------------------------------------------------------------------------------
(* Callers back from a wait on start_and_shutdown                           *)

Awake(t, at) == call[t].at = at /\ t \notin sleepers

(* threads++ in AddWorker.  Idle workers can time out as fast as they are    *)
(* created, so the count is stopped where it no longer changes the ratio:   *)
(* jobs / threads is 0 as soon as threads exceeds maxJobsTotal.             *)
CountThread(c) == IF c.threads > MaxJobsTotal THEN c ELSE [c EXCEPT !.threads = @ + 1]

(* CreateWorker returned 0 (ok) or an error: the rest of the call.          *)
Continue(t, c, ok) ==
    \/ /\ c.op = "init"
       /\ IF ok THEN InitWorkers(t, [c EXCEPT !.threads = @ + 1]) ELSE BeginShutdown(t)
       /\ UNCHANGED idVars
    \/ /\ c.op = "add"
       /\ IF ok THEN AddWorker(t, CountThread(c)) ELSE FinishAdd(t, c)
       /\ UNCHANGED <<queueVars, phase, jobId>>
    \/ /\ c.op = "addPersistent"
       /\ PlacePersistent(t, c)
       /\ UNCHANGED <<queue, phase, lastJobId, handed>>

ResumeCreate(t) ==
    /\ Awake(t, "create")
    /\ \/ CreateWorker(t, call[t]) /\ UNCHANGED <<queueVars, phase, idVars>>
       \/ CreateFails /\ Continue(t, call[t], FALSE)
    /\ UNCHANGED <<job, long, countVars>>

ResumeStart(t) ==
    /\ Awake(t, "start")
    /\ \/ pending /\ Sleep(t, call[t]) /\ UNCHANGED <<thread, pending, queueVars, phase, idVars>>
       \/ ~pending /\ Continue(t, call[t], TRUE)
    /\ UNCHANGED <<job, long, countVars>>

ResumePickup(t) ==
    /\ Awake(t, "pickup")
    /\ \/ persistentJob # NoJob /\ Sleep(t, call[t]) /\ UNCHANGED <<lastJobId, handed>>
       \/ /\ persistentJob = NoJob
          /\ Return(t)
          /\ handed' = [handed EXCEPT ![call[t].job] = lastJobId]
          /\ lastJobId' = NextId
    /\ UNCHANGED <<threadVars, queueVars, countVars, pending, phase, jobId>>

ResumeDrainWhenIdle(t) ==
    /\ Awake(t, "drain")
    /\ \/ busyThreads > 0 /\ Sleep(t, call[t]) /\ UNCHANGED phase
       \/ busyThreads <= 0 /\ Return(t) /\ phase' = "gone"
    /\ UNCHANGED <<threadVars, queueVars, countVars, pending, idVars>>

ResumeDrain(t) ==
    /\ Awake(t, "drain")
    /\ \/ totalThreads > 0 /\ Sleep(t, call[t]) /\ UNCHANGED phase
       \/ totalThreads <= 0 /\ Return(t) /\ phase' = "gone"
    /\ UNCHANGED <<threadVars, queueVars, countVars, pending, idVars>>

-------------------------------------------------------------------------------
(* Time passes for the jobs that wait.                                      *)
Tick ==
    /\ \E j \in Jobs : Queued(j) /\ age[j] < MaxAge
    /\ age' = [j \in Jobs |-> IF Queued(j) /\ age[j] < MaxAge THEN age[j] + 1 ELSE age[j]]
    /\ UNCHANGED <<threadVars, call, sleepers, queue, persistentJob, countVars, pending, phase, idVars>>

Init ==
    /\ thread = [w \in Workers |-> "none"]
    /\ job = [w \in Workers |-> NoJob]
    /\ long = {}
    /\ call = [t \in Callers |-> IF t = Owner
                 THEN [NoCall EXCEPT !.op = "init", !.at = "create"] ELSE NoCall]
    /\ sleepers = {}
    /\ queue = [p \in Priorities |-> <<>>]
    /\ persistentJob = NoJob
    /\ age = [j \in Jobs |-> 0]
    /\ totalThreads = 0 /\ busyThreads = 0 /\ persistentThreads = 0
    /\ pending = FALSE
    /\ phase = "init"
    /\ lastJobId = 0
    /\ jobId = [j \in Jobs |-> 0]
    /\ handed = [j \in Jobs |-> 0]

Worker(w) ==
    \/ WorkerStarts(w)
    \/ WorkerWaits(w)
    \/ WorkerExits(w)
    \/ WorkerTakesPersistent(w)
    \/ WorkerTakesJob(w)

Resume(t) ==
    \/ ResumeCreate(t)
    \/ ResumeStart(t)
    \/ ResumePickup(t)
    \/ ResumeDrain(t)

Next ==
    \/ \E w \in Workers : Worker(w) \/ WorkerTimesOut(w) \/ JobReturns(w)
    \/ \E t \in Callers : Resume(t)
    \/ \E t \in Submitters : \E j \in ShortJobs : ThreadPoolAdd(t, j)
    \/ \E t \in LongSubmitters : \E j \in LongJobs : ThreadPoolAddPersistent(t, j)
    \/ \E t \in Removers : \E id \in {handed[j] : j \in Jobs} : ThreadPoolRemove(t, id)
    \/ ThreadPoolShutdown
    \/ Tick
    \/ phase = "gone" /\ UNCHANGED vars

Spec == Init /\ [][Next]_vars

(* Every thread gets the mutex in the end and runs on; short jobs return;   *)
(* time passes.  A persistent job returns only once the pool is being shut  *)
(* down: UpnpFinish stops the timer thread and the mini server before.      *)
(* Nothing obliges anyone to call.                                          *)
Fairness ==
    /\ \A w \in Workers : /\ WF_vars(Worker(w))
                          /\ WF_vars((w \in long => phase = "shutdown") /\ JobReturns(w))
    /\ \A t \in Callers : WF_vars(Resume(t))
    /\ WF_vars(Tick)

(* maxIdleTime is 5 s (THREAD_IDLE_TIME), long enough for a worker thread to *)
(* start and for its creator to run on.  Without this AddWorker, which       *)
(* starts one more thread as long as all of them are busy, could go on       *)
(* forever against workers that time out as fast as it creates them.         *)
IdleOutlastsCreation ==
    (\E w \in Workers : thread[w] = "waiting" /\ thread'[w] = "timedout")
        => \A t \in Callers : call[t].at \notin {"create", "start"}

LiveSpec == Init /\ [][Next /\ IdleOutlastsCreation]_vars /\ Fairness

-------------------------------------------------------------------------------
(* Safety                                                                   *)

Exists(w)  == thread[w] # "none"
Started(w) == thread[w] \notin {"none", "created"}

(* The three counters, each incremented and decremented in different        *)
(* critical sections of different threads, agree with the threads there are. *)
CountersAgree ==
    /\ totalThreads = Cardinality({w \in Workers : Started(w)})
    /\ busyThreads = Cardinality({w \in Workers : job[w] # NoJob})
    /\ persistentThreads = Cardinality(long)

(* What the pool keeps about its threads is right, and all of its variables *)
(* keep their types.                                                        *)
ThreadAccounting == TypeOK /\ CountersAgree

(* The pool never has more than maxThreads threads, those that were created *)
(* and have not counted themselves yet included.                            *)
ThreadLimit ==
    MaxThreads # INFINITE_THREADS => Cardinality({w \in Workers : Exists(w)}) <= MaxThreads

(* While the pool is in service it keeps minThreads threads, however many   *)
(* idle ones time out together.                                             *)
MinimumKept == phase = "up" => totalThreads >= MinThreads

(* When ThreadPoolShutdown destroys the conditions and the mutex, no thread *)
(* is left that will use them and no caller is inside the pool.             *)
CleanDestroy ==
    phase = "gone" => /\ \A w \in Workers : ~Exists(w)
                      /\ \A t \in Callers : call[t] = NoCall
                      /\ sleepers = {}

(* The pool keeps the threads it needs as long as it is in service, and its *)
(* locks as long as it has threads.                                         *)
ThreadsKept == MinimumKept /\ CleanDestroy

(* Nobody sleeps on start_and_shutdown once what it waits for has happened: *)
(* every change that ends a wait is followed by a broadcast.                *)
NoLostWakeup ==
    \A t \in sleepers :
        /\ call[t].at \in {"create", "start"} => pending
        /\ call[t].at = "pickup" => persistentJob # NoJob
        /\ call[t].at = "drain" => totalThreads > 0

(* A queued job is never left to persistent jobs and sleeping workers: once *)
(* no adder is at work, some other worker is awake to take it.              *)
QueuedJobHasWorker ==
    phase = "up" /\ TotalJobs > 0 /\ (\A t \in Callers : call[t].op # "add")
        => \E w \in Workers \ long : thread[w] \notin {"none", "waiting"}

(* Jobs of one priority run in the order of their requests, whatever        *)
(* BumpPriority did to them on the way.                                     *)
FifoWithinPriority ==
    [][\A j, k \in ShortJobs :
         Pending(j) /\ Pending(k) /\ Priority[j] = Priority[k] /\ age[k] > age[j] /\ Running(j)'
             => ~Pending(k)']_vars

(* The id a submitter was given is the id of its job while the job waits,   *)
(* and of no other: what ThreadPoolRemove needs.                            *)
IdNamesJob ==
    \A j \in Jobs : Pending(j) /\ (\A t \in Callers : call[t].job # j) =>
        /\ handed[j] = jobId[j]
        /\ \A k \in Jobs : Pending(k) /\ jobId[k] = jobId[j] => k = j

(* The pool keeps the promise of JobPool: every job is in one place, is     *)
(* started once, and leaves a queue only by being run, removed or freed.    *)
JP == INSTANCE JobPool WITH
    Limit <- IF MaxThreads = INFINITE_THREADS THEN Cardinality(Workers) ELSE MaxThreads,
    state <- [j \in Jobs |-> IF Running(j) THEN "running"
                             ELSE IF Pending(j) THEN "waiting" ELSE "idle"],
    open  <- phase \in {"init", "up"}

ImplementsJobPool == JP!JobPoolSpec

-------------------------------------------------------------------------------
(* Liveness                                                                 *)

(* A job that waits is started, even a low priority one that faces an       *)
(* endless supply of high priority jobs.                                    *)
JobLeavesQueue == \A j \in Jobs : Pending(j) ~> ~Pending(j)

(* Every call returns: a creator sees its worker start, a persistent job is *)
(* picked up, a shutdown sees the last worker exit.                         *)
CallReturns == \A t \in Callers : call[t] # NoCall ~> call[t] = NoCall

===============================================================================
