--------------------------- MODULE ThreadPoolProofs ---------------------------
(***************************************************************************)
(* For every number of workers, clients and jobs and every value of the    *)
(* attributes: the pool keeps its types, its counters agree with its       *)
(* threads and it never exceeds maxThreads; it implements JobPool (every   *)
(* job is in one place, starts once and leaves the queues only by being    *)
(* run, removed or freed); and the jobs of one priority start in the order *)
(* of their requests.                                                      *)
(***************************************************************************)
EXTENDS ThreadPool, FiniteSetTheorems, SequenceTheorems, TLAPS

-------------------------------------------------------------------------------
(* The queues                                                               *)

(* The aged prefix of a queue lies within the queue.                        *)
LEMMA AgedPrefixBound ==
    ASSUME NEW q \in Seq(Jobs), NEW limit
    PROVE  AgedPrefix(q, limit) \in 0..Len(q)
<1> DEFINE S == {i \in 1..Len(q) : \A k \in 1..i : age[q[k]] >= limit}
<1> DEFINE n == Len(q)
<1>0. n \in Nat
  OBVIOUS
<1> HIDE DEF n
<1>1. IsFiniteSet(1..n) /\ Cardinality(1..n) = n
  BY <1>0, FS_Interval
<1> USE DEF n
<1>2. S \in SUBSET (1..Len(q))
  OBVIOUS
<1>3. IsFiniteSet(S) /\ Cardinality(S) <= Len(q)
  BY <1>1, <1>2, FS_Subset
<1>4. Cardinality(S) \in Nat
  BY <1>3, FS_CardinalityType
<1> QED
  BY <1>3, <1>4 DEF AgedPrefix

(* Splitting a queue keeps its jobs and their number.                       *)
LEMMA SplitQueue ==
    ASSUME NEW q \in Seq(Jobs), NEW n \in 0..Len(q)
    PROVE  /\ Front(q, n) \in Seq(Jobs) /\ Len(Front(q, n)) = n
           /\ Rest(q, n) \in Seq(Jobs) /\ Len(Rest(q, n)) = Len(q) - n
<1>1. \A i \in 1..Len(q) : q[i] \in Jobs
  OBVIOUS
<1>2. n \in Int /\ n + 1 \in Int /\ Len(q) \in Nat
  OBVIOUS
<1>3. Front(q, n) \in Seq(Jobs) /\ Len(Front(q, n)) = n
  BY <1>1, <1>2, SubSeqProperties DEF Front
<1>4. \A i \in (n + 1)..Len(q) : q[i] \in Jobs
  BY <1>1
<1>5. Rest(q, n) \in Seq(Jobs) /\ Len(Rest(q, n)) = IF n + 1 <= Len(q) THEN Len(q) - (n + 1) + 1 ELSE 0
  BY <1>2, <1>4, SubSeqProperties DEF Rest
<1> QED
  BY <1>3, <1>5

(* BumpPriority moves jobs between the queues and loses none.               *)
LEMMA BumpedQueues ==
    ASSUME queue \in [Priorities -> Seq(Jobs)]
    PROVE  /\ Bumped \in [Priorities -> Seq(Jobs)]
           /\ Len(Bumped["high"]) + Len(Bumped["med"]) + Len(Bumped["low"]) = TotalJobs
<1> DEFINE m     == AgedPrefix(queue["med"], StarvationTime)
           l     == AgedPrefix(queue["low"], MaxIdleTime)
           med   == Rest(queue["med"], m)
           moved == Front(queue["low"], l)
           k     == IF med = <<>> THEN AgedPrefix(moved, StarvationTime) ELSE 0
           high1 == queue["high"] \o Front(queue["med"], m)
<1>1. queue["high"] \in Seq(Jobs) /\ queue["med"] \in Seq(Jobs) /\ queue["low"] \in Seq(Jobs)
  BY DEF Priorities
<1>2. m \in 0..Len(queue["med"]) /\ l \in 0..Len(queue["low"])
  BY <1>1, AgedPrefixBound
<1>3. /\ Front(queue["med"], m) \in Seq(Jobs) /\ Len(Front(queue["med"], m)) = m
      /\ med \in Seq(Jobs) /\ Len(med) = Len(queue["med"]) - m
  BY <1>1, <1>2, SplitQueue
<1>4. /\ moved \in Seq(Jobs) /\ Len(moved) = l
      /\ Rest(queue["low"], l) \in Seq(Jobs) /\ Len(Rest(queue["low"], l)) = Len(queue["low"]) - l
  BY <1>1, <1>2, SplitQueue
<1>5. k \in 0..Len(moved)
  <2>1. AgedPrefix(moved, StarvationTime) \in 0..Len(moved)
    BY <1>4, AgedPrefixBound
  <2>2. 0 \in 0..Len(moved)
    BY <1>4
  <2> QED BY <2>1, <2>2
<1>6. /\ Front(moved, k) \in Seq(Jobs) /\ Len(Front(moved, k)) = k
      /\ Rest(moved, k) \in Seq(Jobs) /\ Len(Rest(moved, k)) = Len(moved) - k
  BY <1>4, <1>5, SplitQueue
<1> HIDE DEF m, l, med, moved, k
<1>7. high1 \in Seq(Jobs) /\ Len(high1) = Len(queue["high"]) + m
  <2>1. high1 \in Seq(Jobs) /\ Len(high1) = Len(queue["high"]) + Len(Front(queue["med"], m))
    BY <1>1, <1>3, ConcatProperties, Zenon
  <2> QED BY <2>1, <1>3
<1> HIDE DEF high1
<1>8. /\ high1 \o Front(moved, k) \in Seq(Jobs)
      /\ Len(high1 \o Front(moved, k)) = Len(queue["high"]) + m + k
  <2>1. /\ high1 \o Front(moved, k) \in Seq(Jobs)
        /\ Len(high1 \o Front(moved, k)) = Len(high1) + Len(Front(moved, k))
    BY <1>6, <1>7, ConcatProperties, Zenon
  <2> QED BY <2>1, <1>6, <1>7
<1>9. /\ med \o Rest(moved, k) \in Seq(Jobs)
      /\ Len(med \o Rest(moved, k)) = Len(queue["med"]) - m + (l - k)
  <2>1. /\ med \o Rest(moved, k) \in Seq(Jobs)
        /\ Len(med \o Rest(moved, k)) = Len(med) + Len(Rest(moved, k))
    BY <1>3, <1>6, ConcatProperties, Zenon
  <2> QED BY <2>1, <1>3, <1>4, <1>6
<1> USE DEF m, l, med, moved, k, high1
<1>10. Bumped = [high |-> high1 \o Front(moved, k), med |-> med \o Rest(moved, k),
                 low |-> Rest(queue["low"], l)]
  BY Zenon DEF Bumped
<1> HIDE DEF m, l, med, moved, k, high1
<1>11. Bumped \in [Priorities -> Seq(Jobs)]
  <2> DEFINE h == high1 \o Front(moved, k)
             d == med \o Rest(moved, k)
             r == Rest(queue["low"], l)
  <2>1. h \in Seq(Jobs) /\ d \in Seq(Jobs) /\ r \in Seq(Jobs) /\ Bumped = [high |-> h, med |-> d, low |-> r]
    BY <1>4, <1>8, <1>9, <1>10, Zenon
  <2> HIDE DEF h, d, r
  <2> QED BY <2>1 DEF Priorities
<1>12. /\ Len(Bumped["high"]) = Len(queue["high"]) + m + k
       /\ Len(Bumped["med"]) = Len(queue["med"]) - m + (l - k)
       /\ Len(Bumped["low"]) = Len(queue["low"]) - l
  <2> DEFINE h == high1 \o Front(moved, k)
             d == med \o Rest(moved, k)
             r == Rest(queue["low"], l)
  <2>1. /\ Bumped = [high |-> h, med |-> d, low |-> r]
        /\ Len(h) = Len(queue["high"]) + m + k
        /\ Len(d) = Len(queue["med"]) - m + (l - k)
        /\ Len(r) = Len(queue["low"]) - l
    BY <1>4, <1>8, <1>9, <1>10, Zenon
  <2> HIDE DEF h, d, r
  <2> QED BY <2>1
<1>13. /\ Len(queue["high"]) \in Nat /\ Len(queue["med"]) \in Nat /\ Len(queue["low"]) \in Nat
       /\ m \in Nat /\ l \in Nat /\ k \in Nat
  BY <1>1, <1>2, <1>5
<1>14. Len(Bumped["high"]) + Len(Bumped["med"]) + Len(Bumped["low"])
         = Len(queue["high"]) + Len(queue["med"]) + Len(queue["low"])
  <2> DEFINE h == Len(queue["high"])
             d == Len(queue["med"])
             r == Len(queue["low"])
             bh == Len(Bumped["high"])
             bd == Len(Bumped["med"])
             br == Len(Bumped["low"])
  <2>1. /\ bh = h + m + k /\ bd = d - m + (l - k) /\ br = r - l
        /\ h \in Nat /\ d \in Nat /\ r \in Nat /\ m \in Nat /\ l \in Nat /\ k \in Nat
    BY <1>12, <1>13, Zenon
  <2> HIDE DEF h, d, r, bh, bd, br
  <2>2. bh + bd + br = h + d + r
    BY <2>1
  <2> QED BY <2>2, Zenon DEF h, d, r, bh, bd, br
<1> QED
  BY <1>11, <1>14, Zenon DEF TotalJobs

(* A pool with a queued job has a job to take after BumpPriority.           *)
LEMMA HeadJob ==
    ASSUME queue \in [Priorities -> Seq(Jobs)], TotalJobs > 0
    PROVE  LET p == HighestPriority(Bumped)
           IN  /\ p \in Priorities
               /\ Head(Bumped[p]) \in Jobs
               /\ Tail(Bumped[p]) \in Seq(Jobs)
<1> DEFINE p == HighestPriority(Bumped)
<1>1. /\ Bumped \in [Priorities -> Seq(Jobs)]
      /\ Len(Bumped["high"]) + Len(Bumped["med"]) + Len(Bumped["low"]) > 0
  BY BumpedQueues
<1>2. p \in Priorities
  BY DEF HighestPriority, Priorities
<1>3. Bumped["high"] \in Seq(Jobs) /\ Bumped["med"] \in Seq(Jobs) /\ Bumped["low"] \in Seq(Jobs)
  BY <1>1 DEF Priorities
<1>4. Bumped[p] # <<>>
  <2>1. Len(<<>>) = 0
    OBVIOUS
  <2>2. ~(Bumped["high"] = <<>> /\ Bumped["med"] = <<>> /\ Bumped["low"] = <<>>)
    <3> SUFFICES ASSUME Bumped["high"] = <<>>, Bumped["med"] = <<>>, Bumped["low"] = <<>>
                 PROVE  FALSE
      OBVIOUS
    <3>1. Len(Bumped["high"]) = 0 /\ Len(Bumped["med"]) = 0 /\ Len(Bumped["low"]) = 0
      BY <2>1, Zenon
    <3> QED BY <1>1, <3>1
  <2> QED BY <2>2 DEF HighestPriority
<1>5. Bumped[p] \in Seq(Jobs)
  BY <1>1, <1>2
<1> QED
  BY <1>2, <1>4, <1>5, HeadTailProperties

-------------------------------------------------------------------------------
(* The inductive invariant                                                  *)

(* pendingWorkerThreadStart is set exactly while one created thread has not *)
(* counted itself yet.                                                      *)
StartInv ==
    /\ pending <=> \E w \in Workers : thread[w] = "created"
    /\ \A v, w \in Workers : thread[v] = "created" /\ thread[w] = "created" => v = w

(* CreateWorker compares totalThreads + 1 with maxThreads before it creates *)
(* a thread, and the thread adds itself to totalThreads only later.         *)
LimitInv ==
    MaxThreads # INFINITE_THREADS => totalThreads + (IF pending THEN 1 ELSE 0) <= MaxThreads

ThreadInv == TypeOK /\ CountersAgree /\ StartInv /\ LimitInv

(* What a caller's step may do to the threads: wake some, or create one.    *)
OnlyWakes ==
    /\ thread' \in [Workers -> ThreadStates]
    /\ \A w \in Workers : /\ Started(w)' <=> Started(w)
                          /\ thread'[w] = "created" <=> thread[w] = "created"
    /\ pending' = pending

NewThread ==
    /\ thread' \in [Workers -> ThreadStates]
    /\ ~pending /\ pending' = TRUE /\ ~AtMaxThreads
    /\ \E w \in Workers : /\ thread[w] = "none" /\ thread'[w] = "created"
                          /\ \A v \in Workers \ {w} : thread'[v] = thread[v]

CallsTyped == call' \in [Callers -> Call] /\ sleepers' \subseteq Callers

-------------------------------------------------------------------------------
(* Steps of callers                                                         *)

LEMMA MaxAgeNat == MaxAge \in Nat /\ 0 \in 0..MaxAge
  BY ThreadPoolAssumption DEF MaxAge

LEMMA NoCallType == NoCall \in Call
  BY DEF NoCall, Call

LEMMA SignalKeeps ==
    ASSUME TypeOK, Signal, pending' = pending
    PROVE  OnlyWakes
  BY DEF TypeOK, Signal, OnlyWakes, Started, ThreadStates

LEMMA SleepType ==
    ASSUME TypeOK, NEW t \in Callers, NEW c \in Call, Sleep(t, c)
    PROVE  CallsTyped
  BY DEF TypeOK, Sleep, CallsTyped

LEMMA ReturnType ==
    ASSUME TypeOK, NEW t \in Callers, Return(t)
    PROVE  CallsTyped
  BY NoCallType DEF TypeOK, Return, CallsTyped

LEMMA CallAt ==
    ASSUME NEW c \in Call
    PROVE  /\ [c EXCEPT !.at = "create"] \in Call
           /\ [c EXCEPT !.at = "start"] \in Call
           /\ [c EXCEPT !.at = "pickup"] \in Call
           /\ [c EXCEPT !.threads = @ + 1] \in Call
           /\ [c EXCEPT !.op = "shutdown", !.at = "drain"] \in Call
           /\ CountThread(c) \in Call
<1>1. [c EXCEPT !.at = "create"] \in Call /\ [c EXCEPT !.at = "start"] \in Call
  BY DEF Call
<1>2. [c EXCEPT !.at = "pickup"] \in Call
  BY DEF Call
<1>3. [c EXCEPT !.threads = @ + 1] \in Call
  BY DEF Call
<1>4. [c EXCEPT !.op = "shutdown", !.at = "drain"] \in Call
  <2> DEFINE d == [c EXCEPT !.op = "shutdown"]
  <2>1. d \in Call
    BY DEF Call
  <2> HIDE DEF d
  <2>2. [d EXCEPT !.at = "drain"] \in Call
    BY <2>1 DEF Call
  <2> QED BY <2>2 DEF d
<1> QED BY <1>1, <1>2, <1>3, <1>4 DEF CountThread

LEMMA CreateWorkerStep ==
    ASSUME TypeOK, NEW t \in Callers, NEW c \in Call, CreateWorker(t, c)
    PROVE  CallsTyped /\ (OnlyWakes \/ NewThread)
<1>1. CASE /\ pending
           /\ Sleep(t, [c EXCEPT !.at = "create"])
           /\ UNCHANGED <<thread, pending>>
  <2>1. CallsTyped
    BY <1>1, CallAt, SleepType
  <2>2. OnlyWakes
    BY <1>1 DEF TypeOK, OnlyWakes, Started
  <2> QED BY <2>1, <2>2
<1>2. CASE /\ ~pending /\ ~AtMaxThreads
           /\ StartsThread
           /\ pending' = TRUE
           /\ Sleep(t, [c EXCEPT !.at = "start"])
  <2>1. CallsTyped
    BY <1>2, CallAt, SleepType
  <2>2. NewThread
    BY <1>2 DEF TypeOK, NewThread, StartsThread, ThreadStates
  <2> QED BY <2>1, <2>2
<1> QED
  BY <1>1, <1>2 DEF CreateWorker

LEMMA NextIdType == NextId \in 0..(IdSpace - 1) \/ lastJobId \notin 0..(IdSpace - 1)
  BY ThreadPoolAssumption DEF NextId

LEMMA FinishAddStep ==
    ASSUME TypeOK, NEW t \in Callers, NEW c \in Call, FinishAdd(t, c)
    PROVE  /\ CallsTyped /\ OnlyWakes
           /\ lastJobId' \in 0..(IdSpace - 1)
           /\ handed' \in [Jobs -> 0..(IdSpace - 1)]
<1>1. CallsTyped
  BY ReturnType DEF FinishAdd
<1>2. OnlyWakes
  BY SignalKeeps DEF FinishAdd
<1>3. lastJobId' \in 0..(IdSpace - 1)
  BY NextIdType DEF FinishAdd, TypeOK
<1>4. handed' \in [Jobs -> 0..(IdSpace - 1)]
  BY DEF FinishAdd, TypeOK
<1> QED BY <1>1, <1>2, <1>3, <1>4

LEMMA AddWorkerStep ==
    ASSUME TypeOK, NEW t \in Callers, NEW c \in Call, AddWorker(t, c)
    PROVE  /\ CallsTyped /\ (OnlyWakes \/ NewThread)
           /\ lastJobId' \in 0..(IdSpace - 1)
           /\ handed' \in [Jobs -> 0..(IdSpace - 1)]
<1>1. CASE NeedsWorker(c) /\ CreateWorker(t, c) /\ UNCHANGED <<lastJobId, handed>>
  BY <1>1, CreateWorkerStep DEF TypeOK
<1>2. CASE FinishAdd(t, c)
  BY <1>2, FinishAddStep
<1> QED
  BY <1>1, <1>2 DEF AddWorker

LEMMA PlacePersistentStep ==
    ASSUME TypeOK, NEW t \in Callers, NEW c \in Call, PlacePersistent(t, c)
    PROVE  /\ CallsTyped /\ OnlyWakes
           /\ persistentJob' \in Jobs \cup {NoJob}
           /\ jobId' \in [Jobs -> 0..(IdSpace - 1)]
           /\ age' \in [Jobs -> 0..MaxAge]
<1>1. CallsTyped
  BY CallAt, SleepType DEF PlacePersistent
<1>2. OnlyWakes
  BY SignalKeeps DEF PlacePersistent
<1>3. persistentJob' \in Jobs \cup {NoJob}
  BY DEF PlacePersistent, Call
<1>4. jobId' \in [Jobs -> 0..(IdSpace - 1)]
  BY DEF PlacePersistent, TypeOK
<1>5. age' \in [Jobs -> 0..MaxAge]
  BY MaxAgeNat DEF PlacePersistent, TypeOK
<1> QED BY <1>1, <1>2, <1>3, <1>4, <1>5

LEMMA BeginShutdownStep ==
    ASSUME TypeOK, NEW t \in Callers, BeginShutdown(t)
    PROVE  /\ CallsTyped /\ OnlyWakes
           /\ queue' \in [Priorities -> Seq(Jobs)]
           /\ persistentJob' \in Jobs \cup {NoJob}
           /\ age' \in [Jobs -> 0..MaxAge]
           /\ phase' \in {"init", "up", "shutdown", "gone"}
<1>1. CallsTyped
  <2>1. [NoCall EXCEPT !.op = "shutdown", !.at = "drain"] \in Call
    BY NoCallType, CallAt
  <2> QED BY <2>1, SleepType, ReturnType DEF BeginShutdown
<1>2. OnlyWakes
  BY DEF BeginShutdown, OnlyWakes, TypeOK, ThreadStates, Started
<1>3. queue' \in [Priorities -> Seq(Jobs)] /\ persistentJob' \in Jobs \cup {NoJob}
  BY DEF BeginShutdown
<1>4. age' \in [Jobs -> 0..MaxAge]
  BY MaxAgeNat DEF BeginShutdown
<1>5. phase' \in {"init", "up", "shutdown", "gone"}
  BY DEF BeginShutdown
<1> QED BY <1>1, <1>2, <1>3, <1>4, <1>5

LEMMA InitWorkersStep ==
    ASSUME TypeOK, NEW t \in Callers, NEW c \in Call, InitWorkers(t, c)
    PROVE  /\ CallsTyped /\ (OnlyWakes \/ NewThread)
           /\ queue' \in [Priorities -> Seq(Jobs)]
           /\ persistentJob' \in Jobs \cup {NoJob}
           /\ age' \in [Jobs -> 0..MaxAge]
           /\ phase' \in {"init", "up", "shutdown", "gone"}
<1>1. CASE CreateWorker(t, c) /\ UNCHANGED <<queueVars, phase>>
  BY <1>1, CreateWorkerStep DEF TypeOK, queueVars
<1>2. CASE BeginShutdown(t)
  BY <1>2, BeginShutdownStep
<1>3. CASE /\ Return(t)
           /\ phase' = "up"
           /\ UNCHANGED <<thread, queueVars, pending>>
  <2>1. CallsTyped
    BY <1>3, ReturnType
  <2>2. OnlyWakes
    BY <1>3 DEF TypeOK, OnlyWakes, Started
  <2> QED BY <1>3, <2>1, <2>2 DEF TypeOK, queueVars
<1> QED
  BY <1>1, <1>2, <1>3 DEF InitWorkers

QueuesTyped ==
    /\ queue' \in [Priorities -> Seq(Jobs)]
    /\ persistentJob' \in Jobs \cup {NoJob}
    /\ age' \in [Jobs -> 0..MaxAge]
    /\ phase' \in {"init", "up", "shutdown", "gone"}

IdsTyped ==
    /\ lastJobId' \in 0..(IdSpace - 1)
    /\ jobId' \in [Jobs -> 0..(IdSpace - 1)]
    /\ handed' \in [Jobs -> 0..(IdSpace - 1)]

LEMMA UnchangedTypes ==
    ASSUME TypeOK
    PROVE  /\ UNCHANGED <<queueVars, phase>> => QueuesTyped
           /\ UNCHANGED idVars => IdsTyped
  BY DEF TypeOK, QueuesTyped, IdsTyped, queueVars, idVars

LEMMA ContinueStep ==
    ASSUME TypeOK, NEW t \in Callers, NEW c \in Call, NEW ok \in BOOLEAN, Continue(t, c, ok)
    PROVE  CallsTyped /\ (OnlyWakes \/ NewThread) /\ QueuesTyped /\ IdsTyped
<1> DEFINE d == [c EXCEPT !.threads = @ + 1]
<1>0. d \in Call /\ CountThread(c) \in Call
  BY CallAt
<1> HIDE DEF d
<1>1. CASE /\ IF ok THEN InitWorkers(t, d) ELSE BeginShutdown(t)
           /\ UNCHANGED idVars
  <2>1. CASE InitWorkers(t, d)
    BY <1>0, <1>1, <2>1, InitWorkersStep, UnchangedTypes DEF QueuesTyped
  <2>2. CASE BeginShutdown(t)
    BY <1>1, <2>2, BeginShutdownStep, UnchangedTypes DEF QueuesTyped
  <2> QED BY <1>1, <2>1, <2>2
<1>2. CASE /\ IF ok THEN AddWorker(t, CountThread(c)) ELSE FinishAdd(t, c)
           /\ UNCHANGED <<queueVars, phase, jobId>>
  <2>1. QueuesTyped /\ jobId' \in [Jobs -> 0..(IdSpace - 1)]
    BY <1>2, UnchangedTypes DEF TypeOK
  <2>2. CASE AddWorker(t, CountThread(c))
    BY <1>0, <2>1, <2>2, AddWorkerStep DEF IdsTyped
  <2>3. CASE FinishAdd(t, c)
    BY <2>1, <2>3, FinishAddStep DEF IdsTyped
  <2> QED BY <1>2, <2>2, <2>3
<1>3. CASE /\ PlacePersistent(t, c)
           /\ UNCHANGED <<queue, phase, lastJobId, handed>>
  BY <1>3, PlacePersistentStep DEF TypeOK, QueuesTyped, IdsTyped
<1> QED
  BY <1>1, <1>2, <1>3 DEF Continue, d

(* No step of a caller disturbs the counters or passes the limit.           *)
LEMMA CallerKeepsCounts ==
    ASSUME ThreadInv, OnlyWakes \/ NewThread, UNCHANGED <<job, long, countVars>>
    PROVE  CountersAgree' /\ StartInv' /\ LimitInv'
<1>1. \A w \in Workers : Started(w)' <=> Started(w)
  BY DEF OnlyWakes, NewThread, Started
<1>2. CountersAgree'
  <2>1. {w \in Workers : Started(w)'} = {w \in Workers : Started(w)}
    BY <1>1
  <2> QED BY <2>1 DEF ThreadInv, CountersAgree, countVars
<1>3. StartInv'
  BY DEF ThreadInv, OnlyWakes, NewThread, StartInv
<1>4. LimitInv'
  <2>1. CASE OnlyWakes
    BY <2>1 DEF ThreadInv, OnlyWakes, LimitInv, countVars
  <2>2. CASE NewThread
    <3>1. totalThreads' = totalThreads /\ totalThreads \in Int /\ MaxThreads \in Int
      BY ThreadPoolAssumption DEF ThreadInv, TypeOK, countVars, INFINITE_THREADS
    <3>2. MaxThreads # INFINITE_THREADS => totalThreads + 1 <= MaxThreads
      BY <2>2, <3>1 DEF NewThread, AtMaxThreads
    <3>3. (IF pending' THEN 1 ELSE 0) = 1
      BY <2>2 DEF NewThread
    <3> QED BY <3>1, <3>2, <3>3 DEF LimitInv
  <2> QED BY <2>1, <2>2
<1> QED BY <1>2, <1>3, <1>4

(* A step of a caller that types what it writes preserves the invariant.    *)
LEMMA CallerStep ==
    ASSUME ThreadInv, CallsTyped, OnlyWakes \/ NewThread, QueuesTyped, IdsTyped,
           UNCHANGED <<job, long, countVars>>
    PROVE  ThreadInv'
<1>1. TypeOK'
  BY DEF ThreadInv, TypeOK, CallsTyped, OnlyWakes, NewThread, QueuesTyped, IdsTyped, countVars
<1> QED
  BY <1>1, CallerKeepsCounts DEF ThreadInv

-------------------------------------------------------------------------------
(* Steps of workers                                                         *)

(* A worker that lets go of its job and takes j, or none, leaves            *)
(* busyThreads the number of workers that hold a job.                       *)
LEMMA HeldJob ==
    ASSUME TypeOK, CountersAgree, NEW w \in Workers, NEW j \in Jobs \cup {NoJob},
           job' = [job EXCEPT ![w] = j]
    PROVE  /\ job' \in [Workers -> Jobs \cup {NoJob}]
           /\ BusyLeft[w] \in Int
           /\ j = NoJob => Cardinality({v \in Workers : job'[v] # NoJob}) = BusyLeft[w]
           /\ j # NoJob => Cardinality({v \in Workers : job'[v] # NoJob}) = BusyLeft[w] + 1
<1> DEFINE Busy == {v \in Workers : job[v] # NoJob}
           Busy1 == {v \in Workers : job'[v] # NoJob}
<1>1. IsFiniteSet(Busy) /\ Cardinality(Busy) \in Nat
  <2>1. Busy \in SUBSET Workers
    OBVIOUS
  <2> QED BY <2>1, ThreadPoolAssumption, FS_Subset, FS_CardinalityType
<1>2. busyThreads = Cardinality(Busy)
  BY DEF CountersAgree
<1>3. BusyLeft[w] = IF w \in Busy THEN Cardinality(Busy) - 1 ELSE Cardinality(Busy)
  BY <1>2 DEF BusyLeft
<1>4. IsFiniteSet(Busy \ {w}) /\ Cardinality(Busy \ {w}) = BusyLeft[w]
  BY <1>1, <1>3, FS_RemoveElement
<1>5. CASE j = NoJob
  <2>1. Busy1 = Busy \ {w}
    BY <1>5 DEF TypeOK
  <2>2. job' \in [Workers -> Jobs \cup {NoJob}]
    BY DEF TypeOK
  <2>3. BusyLeft[w] \in Int
    BY <1>1, <1>3
  <2>4. Cardinality(Busy1) = BusyLeft[w]
    BY <1>4, <2>1
  <2> QED BY <1>5, <2>2, <2>3, <2>4
<1>6. CASE j # NoJob
  <2>1. Busy1 = (Busy \ {w}) \cup {w}
    BY <1>6 DEF TypeOK
  <2>2. Cardinality(Busy1) = Cardinality(Busy \ {w}) + 1
    BY <1>4, <2>1, FS_AddElement
  <2> QED BY <1>1, <1>3, <1>4, <1>6, <2>2 DEF TypeOK
<1> QED BY <1>5, <1>6

(* The same for persistentThreads and the workers with a persistent job.    *)
LEMMA LongWorkers ==
    ASSUME TypeOK, CountersAgree, NEW w \in Workers
    PROVE  /\ PersistentLeft[w] \in Int
           /\ Cardinality(long \ {w}) = PersistentLeft[w]
           /\ Cardinality(long \cup {w}) = PersistentLeft[w] + 1
<1>1. IsFiniteSet(long) /\ Cardinality(long) \in Nat
  BY ThreadPoolAssumption, FS_Subset, FS_CardinalityType DEF TypeOK
<1>2. persistentThreads = Cardinality(long)
  BY DEF CountersAgree
<1>3. PersistentLeft[w] = IF w \in long THEN Cardinality(long) - 1 ELSE Cardinality(long)
  BY <1>2 DEF PersistentLeft
<1>4. IsFiniteSet(long \ {w}) /\ Cardinality(long \ {w}) = PersistentLeft[w]
  BY <1>1, <1>3, FS_RemoveElement
<1>5. long \cup {w} = (long \ {w}) \cup {w}
  OBVIOUS
<1>6. Cardinality(long \cup {w}) = Cardinality(long \ {w}) + 1
  BY <1>4, <1>5, FS_AddElement
<1> QED BY <1>1, <1>3, <1>4, <1>6

(* The threads that count as started, when worker w enters state s.         *)
LEMMA StartedWorkers ==
    ASSUME TypeOK, NEW w \in Workers, NEW s \in ThreadStates, thread' = [thread EXCEPT ![w] = s]
    PROVE  /\ thread' \in [Workers -> ThreadStates]
           /\ {v \in Workers : Started(v)'}
                = IF s \in {"none", "created"} THEN {v \in Workers : Started(v)} \ {w}
                  ELSE {v \in Workers : Started(v)} \cup {w}
           /\ IsFiniteSet({v \in Workers : Started(v)})
           /\ Cardinality({v \in Workers : Started(v)}) \in Nat
<1>1. thread' \in [Workers -> ThreadStates]
  BY DEF TypeOK
<1>2. {v \in Workers : Started(v)'}
        = IF s \in {"none", "created"} THEN {v \in Workers : Started(v)} \ {w}
          ELSE {v \in Workers : Started(v)} \cup {w}
  BY DEF TypeOK, Started
<1>3. {v \in Workers : Started(v)} \in SUBSET Workers
  OBVIOUS
<1>4. /\ IsFiniteSet({v \in Workers : Started(v)})
      /\ Cardinality({v \in Workers : Started(v)}) \in Nat
  BY <1>3, ThreadPoolAssumption, FS_Subset, FS_CardinalityType
<1> QED BY <1>1, <1>2, <1>4

(* A started worker that stays started, or exits, leaves the pending start  *)
(* alone and cannot pass the limit.                                         *)
LEMMA WorkerKeepsStart ==
    ASSUME ThreadInv, NEW w \in Workers, Started(w), NEW s \in ThreadStates \ {"created"},
           thread' = [thread EXCEPT ![w] = s], pending' = pending,
           totalThreads' = IF s = "none" THEN totalThreads - 1 ELSE totalThreads
    PROVE  /\ thread' \in [Workers -> ThreadStates]
           /\ totalThreads' \in Int
           /\ totalThreads' = Cardinality({v \in Workers : Started(v)'})
           /\ StartInv' /\ LimitInv'
<1> DEFINE T == {v \in Workers : Started(v)}
<1>0. TypeOK
  BY DEF ThreadInv
<1>1. /\ thread' \in [Workers -> ThreadStates]
      /\ {v \in Workers : Started(v)'} = IF s = "none" THEN T \ {w} ELSE T \cup {w}
      /\ IsFiniteSet(T) /\ Cardinality(T) \in Nat
  BY <1>0, StartedWorkers, Zenon
<1>2. w \in T /\ totalThreads = Cardinality(T)
  BY DEF ThreadInv, CountersAgree
<1>3. totalThreads' = Cardinality({v \in Workers : Started(v)'})
  <2>1. CASE s = "none"
    BY <1>1, <1>2, <2>1, FS_RemoveElement, ZenonT(30)
  <2>2. CASE s # "none"
    <3>1. T \cup {w} = T
      BY <1>2
    <3> QED BY <1>1, <1>2, <2>2, <3>1
  <2> QED BY <2>1, <2>2
<1>4. StartInv'
  BY DEF ThreadInv, StartInv, TypeOK, Started
<1>5. totalThreads \in Int /\ totalThreads' \in Int /\ totalThreads' <= totalThreads
  BY <1>1, <1>2
<1>6. LimitInv'
  <2>1. MaxThreads \in Int
    BY ThreadPoolAssumption DEF INFINITE_THREADS
  <2>2. (IF pending THEN 1 ELSE 0) \in Int /\ (IF pending' THEN 1 ELSE 0) = (IF pending THEN 1 ELSE 0)
    OBVIOUS
  <2> DEFINE n == IF pending THEN 1 ELSE 0
             m == IF pending' THEN 1 ELSE 0
  <2>3. MaxThreads # INFINITE_THREADS => totalThreads + n <= MaxThreads
    BY DEF ThreadInv, LimitInv
  <2>4. n \in Int /\ m = n
    BY <2>2
  <2> HIDE DEF n, m
  <2>5. MaxThreads # INFINITE_THREADS => totalThreads' + m <= MaxThreads
    BY <1>5, <2>1, <2>3, <2>4
  <2> QED BY <2>5 DEF LimitInv, m
<1> QED BY <1>1, <1>3, <1>4, <1>5, <1>6

LEMMA WorkerStartsInv ==
    ASSUME ThreadInv, NEW w \in Workers, WorkerStarts(w)
    PROVE  ThreadInv'
<1> DEFINE T == {v \in Workers : Started(v)}
<1>0. TypeOK /\ "ready" \in ThreadStates
  BY DEF ThreadInv, ThreadStates
<1>1. /\ thread' \in [Workers -> ThreadStates]
      /\ {v \in Workers : Started(v)'} = T \cup {w}
      /\ IsFiniteSet(T) /\ Cardinality(T) \in Nat
  BY <1>0, StartedWorkers DEF WorkerStarts
<1>2. w \notin T /\ totalThreads = Cardinality(T) /\ pending
  BY DEF ThreadInv, CountersAgree, StartInv, WorkerStarts, Started
<1>3. totalThreads' = totalThreads + 1 /\ pending' = FALSE
  BY DEF WorkerStarts
<1>4. totalThreads' = Cardinality({v \in Workers : Started(v)'}) /\ totalThreads' \in Int
  BY <1>1, <1>2, <1>3, FS_AddElement
<1>5. UNCHANGED <<job, long, call, queueVars, busyThreads, persistentThreads, phase, idVars>>
  BY DEF WorkerStarts
<1>6. TypeOK'
  <2>1. sleepers' \subseteq Callers
    BY DEF WorkerStarts
  <2> QED BY <1>0, <1>1, <1>3, <1>4, <1>5, <2>1 DEF TypeOK, queueVars, idVars
<1>7. CountersAgree'
  BY <1>4, <1>5 DEF ThreadInv, CountersAgree
<1>8. StartInv'
  BY <1>0, <1>3 DEF ThreadInv, StartInv, TypeOK, WorkerStarts
<1>9. LimitInv'
  <2>1. (IF pending THEN 1 ELSE 0) = 1 /\ (IF pending' THEN 1 ELSE 0) = 0
    BY <1>2, <1>3
  <2>2. MaxThreads # INFINITE_THREADS => totalThreads + 1 <= MaxThreads
    BY <2>1 DEF ThreadInv, LimitInv
  <2>3. totalThreads \in Int /\ MaxThreads \in Int
    BY <1>0, ThreadPoolAssumption DEF TypeOK, INFINITE_THREADS
  <2> QED BY <1>3, <2>1, <2>2, <2>3 DEF LimitInv
<1> QED BY <1>6, <1>7, <1>8, <1>9 DEF ThreadInv

LEMMA WorkerWaitsInv ==
    ASSUME ThreadInv, NEW w \in Workers, WorkerWaits(w)
    PROVE  ThreadInv'
<1>1. /\ TypeOK /\ CountersAgree /\ Started(w)
      /\ "waiting" \in ThreadStates \ {"created"} /\ NoJob \in Jobs \cup {NoJob}
  BY DEF ThreadInv, WorkerWaits, LooksForWork, Started, ThreadStates
<1>2. /\ thread' = [thread EXCEPT ![w] = "waiting"] /\ job' = [job EXCEPT ![w] = NoJob]
      /\ long' = long \ {w}
      /\ busyThreads' = BusyLeft[w] /\ persistentThreads' = PersistentLeft[w]
      /\ UNCHANGED <<call, sleepers, queueVars, totalThreads, pending, phase, idVars>>
  BY DEF WorkerWaits
<1>3. /\ thread' \in [Workers -> ThreadStates]
      /\ totalThreads' \in Int
      /\ totalThreads' = Cardinality({v \in Workers : Started(v)'})
      /\ StartInv' /\ LimitInv'
  BY <1>1, <1>2, WorkerKeepsStart
<1>4. /\ job' \in [Workers -> Jobs \cup {NoJob}]
      /\ busyThreads' \in Int
      /\ busyThreads' = Cardinality({v \in Workers : job'[v] # NoJob})
  BY <1>1, <1>2, HeldJob
<1>5. /\ long' \subseteq Workers
      /\ persistentThreads' \in Int
      /\ persistentThreads' = Cardinality(long')
  BY <1>1, <1>2, LongWorkers DEF TypeOK
<1>6. TypeOK'
  BY <1>1, <1>2, <1>3, <1>4, <1>5 DEF TypeOK, queueVars, idVars
<1> QED BY <1>3, <1>4, <1>5, <1>6 DEF ThreadInv, CountersAgree

LEMMA WorkerExitsInv ==
    ASSUME ThreadInv, NEW w \in Workers, WorkerExits(w)
    PROVE  ThreadInv'
<1>1. /\ TypeOK /\ CountersAgree /\ Started(w)
      /\ "none" \in ThreadStates \ {"created"} /\ NoJob \in Jobs \cup {NoJob}
  BY DEF ThreadInv, WorkerExits, LooksForWork, Started, ThreadStates
<1>2. /\ thread' = [thread EXCEPT ![w] = "none"] /\ job' = [job EXCEPT ![w] = NoJob]
      /\ long' = long \ {w} /\ sleepers' = {}
      /\ busyThreads' = BusyLeft[w] /\ persistentThreads' = PersistentLeft[w]
      /\ totalThreads' = totalThreads - 1
      /\ UNCHANGED <<call, persistentJob, age, pending, phase, idVars>>
  BY DEF WorkerExits
<1>3. /\ thread' \in [Workers -> ThreadStates]
      /\ totalThreads' \in Int
      /\ totalThreads' = Cardinality({v \in Workers : Started(v)'})
      /\ StartInv' /\ LimitInv'
  BY <1>1, <1>2, WorkerKeepsStart
<1>4. /\ job' \in [Workers -> Jobs \cup {NoJob}]
      /\ busyThreads' \in Int
      /\ busyThreads' = Cardinality({v \in Workers : job'[v] # NoJob})
  BY <1>1, <1>2, HeldJob
<1>5. /\ long' \subseteq Workers
      /\ persistentThreads' \in Int
      /\ persistentThreads' = Cardinality(long')
  BY <1>1, <1>2, LongWorkers DEF TypeOK
<1>6. queue' \in [Priorities -> Seq(Jobs)]
  BY <1>1, BumpedQueues DEF TypeOK, WorkerExits
<1>7. TypeOK'
  BY <1>1, <1>2, <1>3, <1>4, <1>5, <1>6 DEF TypeOK, idVars
<1> QED BY <1>3, <1>4, <1>5, <1>7 DEF ThreadInv, CountersAgree

(* What the two ways to take a job have in common.                          *)
LEMMA TakesStep ==
    ASSUME ThreadInv, NEW w \in Workers, LooksForWork(w), NEW j \in Jobs, Takes(w, j)
    PROVE  /\ thread' \in [Workers -> ThreadStates]
           /\ totalThreads' \in Int
           /\ totalThreads' = Cardinality({v \in Workers : Started(v)'})
           /\ StartInv' /\ LimitInv'
           /\ job' \in [Workers -> Jobs \cup {NoJob}]
           /\ busyThreads' \in Int
           /\ busyThreads' = Cardinality({v \in Workers : job'[v] # NoJob})
           /\ age' \in [Jobs -> 0..MaxAge]
           /\ UNCHANGED <<call, pending, phase, idVars>>
<1>1. /\ TypeOK /\ CountersAgree /\ Started(w)
      /\ "running" \in ThreadStates \ {"created"}
      /\ j # NoJob /\ j \in Jobs \cup {NoJob}
  BY ThreadPoolAssumption DEF ThreadInv, LooksForWork, Started, ThreadStates
<1>2. /\ thread' = [thread EXCEPT ![w] = "running"] /\ job' = [job EXCEPT ![w] = j]
      /\ busyThreads' = BusyLeft[w] + 1 /\ age' = [age EXCEPT ![j] = 0]
      /\ UNCHANGED <<call, totalThreads, pending, phase, idVars>>
  BY DEF Takes
<1>3. /\ thread' \in [Workers -> ThreadStates]
      /\ totalThreads' \in Int
      /\ totalThreads' = Cardinality({v \in Workers : Started(v)'})
      /\ StartInv' /\ LimitInv'
  BY <1>1, <1>2, WorkerKeepsStart
<1>4. /\ job' \in [Workers -> Jobs \cup {NoJob}]
      /\ BusyLeft[w] \in Int
      /\ busyThreads' = Cardinality({v \in Workers : job'[v] # NoJob})
  BY <1>1, <1>2, HeldJob
<1>5. busyThreads' \in Int
  BY <1>2, <1>4
<1>6. age' \in [Jobs -> 0..MaxAge]
  BY <1>1, <1>2, MaxAgeNat DEF TypeOK
<1> QED BY <1>2, <1>3, <1>4, <1>5, <1>6

LEMMA WorkerTakesPersistentInv ==
    ASSUME ThreadInv, NEW w \in Workers, WorkerTakesPersistent(w)
    PROVE  ThreadInv'
<1>1. /\ TypeOK /\ CountersAgree
      /\ LooksForWork(w) /\ persistentJob \in Jobs /\ Takes(w, persistentJob)
  BY DEF ThreadInv, TypeOK, WorkerTakesPersistent
<1>2. /\ queue' \in [Priorities -> Seq(Jobs)]
      /\ persistentJob' \in Jobs \cup {NoJob} /\ sleepers' \subseteq Callers
  BY <1>1, BumpedQueues DEF TypeOK, WorkerTakesPersistent
<1>3. /\ long' \subseteq Workers
      /\ persistentThreads' \in Int
      /\ persistentThreads' = Cardinality(long')
  <2>1. long' = long \cup {w} /\ persistentThreads' = PersistentLeft[w] + 1
    BY DEF WorkerTakesPersistent
  <2>2. PersistentLeft[w] \in Int /\ Cardinality(long \cup {w}) = PersistentLeft[w] + 1
    BY <1>1, LongWorkers
  <2> QED BY <1>1, <2>1, <2>2 DEF TypeOK
<1>4. TypeOK'
  BY <1>1, <1>2, <1>3, TakesStep DEF TypeOK, idVars
<1> QED BY <1>1, <1>3, <1>4, TakesStep DEF ThreadInv, CountersAgree

LEMMA WorkerTakesJobInv ==
    ASSUME ThreadInv, NEW w \in Workers, WorkerTakesJob(w)
    PROVE  ThreadInv'
<1> DEFINE p == HighestPriority(Bumped)
           j == Head(Bumped[p])
<1>1. /\ TypeOK /\ CountersAgree
      /\ LooksForWork(w) /\ TotalJobs > 0 /\ Takes(w, j)
      /\ queue' = [Bumped EXCEPT ![p] = Tail(@)]
      /\ long' = long \ {w} /\ persistentThreads' = PersistentLeft[w]
      /\ UNCHANGED <<sleepers, persistentJob>>
  BY DEF ThreadInv, WorkerTakesJob
<1>2. /\ Bumped \in [Priorities -> Seq(Jobs)]
      /\ p \in Priorities /\ j \in Jobs /\ Tail(Bumped[p]) \in Seq(Jobs)
  BY <1>1, BumpedQueues, HeadJob DEF TypeOK
<1> HIDE DEF p, j
<1>3. queue' \in [Priorities -> Seq(Jobs)]
  BY <1>1, <1>2
<1>4. /\ long' \subseteq Workers
      /\ persistentThreads' \in Int
      /\ persistentThreads' = Cardinality(long')
  BY <1>1, LongWorkers DEF TypeOK
<1>5. TypeOK'
  BY <1>1, <1>2, <1>3, <1>4, TakesStep DEF TypeOK, idVars
<1> QED BY <1>1, <1>2, <1>4, <1>5, TakesStep DEF ThreadInv, CountersAgree

(* A timeout or the return of a job changes one thread's place only.        *)
LEMMA WorkerMovesInv ==
    ASSUME ThreadInv, NEW w \in Workers, WorkerTimesOut(w) \/ JobReturns(w)
    PROVE  ThreadInv'
<1>1. PICK s \in {"timedout", "finished"} :
        /\ Started(w) /\ thread' = [thread EXCEPT ![w] = s]
        /\ UNCHANGED <<job, long, call, sleepers, queueVars, countVars, pending, phase, idVars>>
  BY DEF WorkerTimesOut, JobReturns, Started
<1>2. s \in ThreadStates \ {"created"} /\ s # "none"
  BY DEF ThreadStates
<1>3. totalThreads' = totalThreads /\ pending' = pending
  BY <1>1 DEF countVars
<1>4. /\ thread' \in [Workers -> ThreadStates]
      /\ totalThreads' = Cardinality({v \in Workers : Started(v)'})
      /\ StartInv' /\ LimitInv'
  BY <1>1, <1>2, <1>3, WorkerKeepsStart
<1>5. TypeOK'
  BY <1>1, <1>4 DEF ThreadInv, TypeOK, queueVars, countVars, idVars
<1> QED BY <1>1, <1>4, <1>5 DEF ThreadInv, CountersAgree, countVars

-------------------------------------------------------------------------------
(* Steps of the API                                                         *)

(* The calls as ThreadPoolAdd and ThreadPoolAddPersistent begin them.       *)
LEMMA AddCallType ==
    ASSUME TypeOK, NEW j \in ShortJobs
    PROVE  [op |-> "add", at |-> "none", job |-> j, jobs |-> TotalJobs + 1,
            threads |-> totalThreads - persistentThreads] \in Call
<1> DEFINE h == Len(queue["high"])
           m == Len(queue["med"])
           l == Len(queue["low"])
<1>1. queue["high"] \in Seq(Jobs) /\ queue["med"] \in Seq(Jobs) /\ queue["low"] \in Seq(Jobs)
  BY DEF TypeOK, Priorities
<1>2. h \in Nat /\ m \in Nat /\ l \in Nat
  BY <1>1
<1> HIDE DEF h, m, l
<1>3. (h + m + l) + 1 \in Nat
  BY <1>2
<1>4. TotalJobs + 1 \in Nat
  BY <1>3, Zenon DEF TotalJobs, h, m, l
<1>5. totalThreads - persistentThreads \in Int /\ j \in Jobs
  BY DEF TypeOK, Jobs
<1> QED
  BY <1>4, <1>5 DEF Call

LEMMA AddPersistentCallType ==
    ASSUME NEW j \in LongJobs
    PROVE  /\ [NoCall EXCEPT !.op = "addPersistent", !.job = j] \in Call
           /\ [NoCall EXCEPT !.op = "addPersistent", !.job = j].job = j
<1>1. PICK e : e = [NoCall EXCEPT !.op = "addPersistent"]
  OBVIOUS
<1>2. e \in Call /\ j \in Jobs
  BY <1>1, NoCallType DEF Call, Jobs
<1>3. [e EXCEPT !.job = j] \in Call /\ [e EXCEPT !.job = j].job = j
  BY <1>2 DEF Call
<1> QED
  BY <1>1, <1>3

LEMMA ThreadPoolAddInv ==
    ASSUME ThreadInv, NEW t \in Callers, NEW j \in ShortJobs, ThreadPoolAdd(t, j)
    PROVE  ThreadInv'
<1> DEFINE c == [op |-> "add", at |-> "none", job |-> j, jobs |-> TotalJobs + 1,
                 threads |-> totalThreads - persistentThreads]
<1>0. TypeOK /\ j \in Jobs /\ Priority[j] \in Priorities
  BY ThreadPoolAssumption DEF ThreadInv, Jobs
<1>1. c \in Call
  BY <1>0, AddCallType
<1> HIDE DEF c
<1>2. /\ queue' = [queue EXCEPT ![Priority[j]] = Append(@, j)]
      /\ age' = [age EXCEPT ![j] = 0]
      /\ jobId' = [jobId EXCEPT ![j] = lastJobId]
      /\ AddWorker(t, c)
      /\ UNCHANGED <<job, long, persistentJob, countVars, phase>>
  BY DEF ThreadPoolAdd, c
<1>3. CallsTyped /\ (OnlyWakes \/ NewThread)
  BY <1>0, <1>1, <1>2, AddWorkerStep
<1>4. QueuesTyped
  <2>1. queue[Priority[j]] \in Seq(Jobs)
    BY <1>0 DEF TypeOK
  <2>2. Append(queue[Priority[j]], j) \in Seq(Jobs)
    BY <1>0, <2>1, AppendProperties
  <2>3. queue' \in [Priorities -> Seq(Jobs)]
    BY <1>0, <1>2, <2>2 DEF TypeOK
  <2>4. age' \in [Jobs -> 0..MaxAge]
    BY <1>0, <1>2, MaxAgeNat DEF TypeOK
  <2> QED BY <1>0, <1>2, <2>3, <2>4 DEF TypeOK, QueuesTyped
<1>5. IdsTyped
  <2>1. jobId' \in [Jobs -> 0..(IdSpace - 1)]
    BY <1>0, <1>2 DEF TypeOK
  <2> QED BY <1>0, <1>1, <1>2, <2>1, AddWorkerStep DEF IdsTyped
<1> QED BY <1>2, <1>3, <1>4, <1>5, CallerStep

LEMMA ThreadPoolAddPersistentInv ==
    ASSUME ThreadInv, NEW t \in Callers, NEW j \in LongJobs, ThreadPoolAddPersistent(t, j)
    PROVE  ThreadInv'
<1> DEFINE c == [NoCall EXCEPT !.op = "addPersistent", !.job = j]
<1>0. TypeOK /\ j \in Jobs
  BY DEF ThreadInv, Jobs
<1>1. c \in Call
  BY AddPersistentCallType
<1> HIDE DEF c
<1>2. /\ \/ CreateWorker(t, c) /\ UNCHANGED <<persistentJob, age, jobId>>
         \/ PlacePersistent(t, c)
      /\ UNCHANGED <<job, long, queue, countVars, phase, lastJobId, handed>>
  BY DEF ThreadPoolAddPersistent, c
<1>3. CASE CreateWorker(t, c) /\ UNCHANGED <<persistentJob, age, jobId>>
  <2>1. CallsTyped /\ (OnlyWakes \/ NewThread)
    BY <1>0, <1>1, <1>3, CreateWorkerStep
  <2>2. QueuesTyped /\ IdsTyped
    BY <1>0, <1>2, <1>3 DEF TypeOK, QueuesTyped, IdsTyped
  <2> QED BY <1>2, <2>1, <2>2, CallerStep
<1>4. CASE PlacePersistent(t, c)
  <2>1. CallsTyped /\ OnlyWakes
    BY <1>0, <1>1, <1>4, PlacePersistentStep
  <2>2. QueuesTyped /\ IdsTyped
    BY <1>0, <1>1, <1>2, <1>4, PlacePersistentStep DEF TypeOK, QueuesTyped, IdsTyped
  <2> QED BY <1>2, <2>1, <2>2, CallerStep
<1> QED BY <1>2, <1>3, <1>4

LEMMA ThreadPoolRemoveInv ==
    ASSUME ThreadInv, NEW t \in Callers, NEW id, ThreadPoolRemove(t, id)
    PROVE  ThreadInv'
<1>0. TypeOK /\ Priorities = {"low", "med", "high"}
  BY DEF ThreadInv, Priorities
<1>1. /\ age' = [j \in Jobs |-> IF Pending(j)' THEN age[j] ELSE 0]
      /\ UNCHANGED <<threadVars, call, sleepers, countVars, pending, phase, idVars>>
  BY DEF ThreadPoolRemove
<1>2. \/ UNCHANGED queue
      \/ \E p \in Priorities : \E i \in 1..Len(queue[p]) :
           queue' = [queue EXCEPT ![p] = Front(@, i - 1) \o Rest(@, i)]
  BY <1>0 DEF ThreadPoolRemove
<1>3. queue' \in [Priorities -> Seq(Jobs)]
  <2>1. CASE UNCHANGED queue
    BY <1>0, <2>1 DEF TypeOK
  <2>2. ASSUME NEW p \in Priorities, NEW i \in 1..Len(queue[p]),
               queue' = [queue EXCEPT ![p] = Front(@, i - 1) \o Rest(@, i)]
        PROVE  queue' \in [Priorities -> Seq(Jobs)]
    <3> DEFINE q == queue[p]
    <3>1. q \in Seq(Jobs)
      BY <1>0 DEF TypeOK
    <3>2. Len(q) \in Nat /\ i - 1 \in 0..Len(q) /\ i \in 0..Len(q)
      BY <3>1
    <3>3. Front(q, i - 1) \in Seq(Jobs) /\ Rest(q, i) \in Seq(Jobs)
      BY <3>1, <3>2, SplitQueue
    <3>4. Front(q, i - 1) \o Rest(q, i) \in Seq(Jobs)
      BY <3>3, ConcatProperties, Zenon
    <3> DEFINE r == Front(q, i - 1) \o Rest(q, i)
    <3>5. queue' = [queue EXCEPT ![p] = r]
      BY <2>2
    <3> HIDE DEF r
    <3>6. r \in Seq(Jobs)
      BY <3>4 DEF r
    <3> QED BY <1>0, <3>5, <3>6 DEF TypeOK
  <2> QED BY <1>2, <2>1, <2>2
<1>4. persistentJob' \in Jobs \cup {NoJob}
  BY <1>0 DEF TypeOK, ThreadPoolRemove
<1>5. age' \in [Jobs -> 0..MaxAge]
  BY <1>0, <1>1, MaxAgeNat DEF TypeOK
<1>6. QueuesTyped /\ IdsTyped
  BY <1>0, <1>1, <1>3, <1>4, <1>5 DEF TypeOK, QueuesTyped, IdsTyped, idVars
<1>7. CallsTyped /\ OnlyWakes
  BY <1>0, <1>1 DEF TypeOK, CallsTyped, OnlyWakes, Started, threadVars
<1> QED BY <1>1, <1>6, <1>7, CallerStep DEF threadVars

LEMMA ThreadPoolShutdownInv ==
    ASSUME ThreadInv, ThreadPoolShutdown
    PROVE  ThreadInv'
<1>1. /\ TypeOK /\ Owner \in Callers
      /\ BeginShutdown(Owner) /\ UNCHANGED <<job, long, countVars, idVars>>
  BY ThreadPoolAssumption DEF ThreadInv, ThreadPoolShutdown, Callers
<1>2. CallsTyped /\ OnlyWakes /\ QueuesTyped /\ IdsTyped
  BY <1>1, BeginShutdownStep, UnchangedTypes DEF QueuesTyped
<1> QED BY <1>1, <1>2, CallerStep

LEMMA ResumeInv ==
    ASSUME ThreadInv, NEW t \in Callers, Resume(t)
    PROVE  ThreadInv'
<1> DEFINE c == call[t]
<1>0. TypeOK /\ c \in Call
  BY DEF ThreadInv, TypeOK
<1> HIDE DEF c
<1>1. ASSUME OnlyWakes \/ NewThread, CallsTyped, QueuesTyped, IdsTyped, UNCHANGED <<job, long, countVars>>
      PROVE  ThreadInv'
  BY <1>1, CallerStep
<1>2. CASE ResumeCreate(t)
  <2>1. CASE CreateWorker(t, c) /\ UNCHANGED <<queueVars, phase, idVars>>
    BY <1>0, <1>1, <1>2, <2>1, CreateWorkerStep, UnchangedTypes DEF ResumeCreate
  <2>2. CASE Continue(t, c, FALSE)
    BY <1>0, <1>1, <1>2, <2>2, ContinueStep DEF ResumeCreate
  <2> QED BY <1>2, <2>1, <2>2 DEF ResumeCreate, c
<1>3. CASE ResumeStart(t)
  <2>1. CASE Sleep(t, c) /\ UNCHANGED <<thread, pending, queueVars, phase, idVars>>
    <3>1. OnlyWakes
      BY <1>0, <2>1 DEF TypeOK, OnlyWakes, Started
    <3>2. CallsTyped /\ QueuesTyped /\ IdsTyped
      BY <1>0, <2>1, SleepType, UnchangedTypes
    <3> QED BY <1>1, <1>3, <3>1, <3>2 DEF ResumeStart
  <2>2. CASE Continue(t, c, TRUE)
    BY <1>0, <1>1, <1>3, <2>2, ContinueStep DEF ResumeStart
  <2> QED BY <1>3, <2>1, <2>2 DEF ResumeStart, c
<1>4. CASE ResumePickup(t)
  <2>1. /\ UNCHANGED <<threadVars, queueVars, countVars, pending, phase, jobId>>
        /\ \/ Sleep(t, c) /\ UNCHANGED <<lastJobId, handed>>
           \/ /\ Return(t) /\ lastJobId' = NextId
              /\ handed' = [handed EXCEPT ![c.job] = lastJobId]
    BY <1>4 DEF ResumePickup, c
  <2>2. OnlyWakes /\ QueuesTyped
    BY <1>0, <2>1, UnchangedTypes DEF TypeOK, OnlyWakes, Started, threadVars
  <2>3. CallsTyped
    BY <1>0, <2>1, SleepType, ReturnType
  <2>4. IdsTyped
    BY <1>0, <2>1, NextIdType DEF TypeOK, IdsTyped
  <2> QED BY <1>1, <2>1, <2>2, <2>3, <2>4 DEF threadVars
<1>5. CASE ResumeDrain(t)
  <2>1. /\ UNCHANGED <<threadVars, queueVars, countVars, pending, idVars>>
        /\ \/ Sleep(t, c) /\ UNCHANGED phase
           \/ Return(t) /\ phase' = "gone"
    BY <1>5 DEF ResumeDrain, c
  <2>2. OnlyWakes /\ QueuesTyped /\ IdsTyped
    BY <1>0, <2>1, UnchangedTypes
      DEF TypeOK, OnlyWakes, Started, threadVars, QueuesTyped, queueVars
  <2>3. CallsTyped
    BY <1>0, <2>1, SleepType, ReturnType
  <2> QED BY <1>1, <2>1, <2>2, <2>3 DEF threadVars
<1> QED BY <1>2, <1>3, <1>4, <1>5 DEF Resume

LEMMA TickInv ==
    ASSUME ThreadInv, Tick
    PROVE  ThreadInv'
<1>1. age' \in [Jobs -> 0..MaxAge]
  BY MaxAgeNat, SMTT(30) DEF ThreadInv, TypeOK, Tick
<1>2. UNCHANGED <<threadVars, call, sleepers, queue, persistentJob, countVars, pending, phase, idVars>>
  BY DEF Tick
<1>3. QueuesTyped /\ IdsTyped /\ CallsTyped /\ OnlyWakes
  BY <1>1, <1>2 DEF ThreadInv, TypeOK, QueuesTyped, IdsTyped, CallsTyped, OnlyWakes, Started,
                    idVars, threadVars
<1> QED BY <1>2, <1>3, CallerStep DEF threadVars

-------------------------------------------------------------------------------
(* The theorems                                                             *)

(* ThreadPoolInit starts from an empty pool.                                *)
LEMMA InitThreadInv == Init => ThreadInv
<1> SUFFICES ASSUME Init PROVE ThreadInv
  OBVIOUS
<1>1. call \in [Callers -> Call]
  <2>1. [NoCall EXCEPT !.op = "init", !.at = "create"] \in Call
    <3> DEFINE d == [NoCall EXCEPT !.op = "init"]
    <3>1. d \in Call
      BY NoCallType DEF Call
    <3> HIDE DEF d
    <3>2. [d EXCEPT !.at = "create"] \in Call
      BY <3>1 DEF Call
    <3> QED BY <3>2 DEF d
  <2> QED BY <2>1, NoCallType DEF Init
<1>2. TypeOK
  <2>1. 0 \in 0..(IdSpace - 1)
    BY ThreadPoolAssumption
  <2>2. queue \in [Priorities -> Seq(Jobs)]
    BY DEF Init
  <2>3. /\ age \in [Jobs -> 0..MaxAge]
        /\ lastJobId \in 0..(IdSpace - 1)
        /\ jobId \in [Jobs -> 0..(IdSpace - 1)] /\ handed \in [Jobs -> 0..(IdSpace - 1)]
    BY <2>1, MaxAgeNat DEF Init
  <2>4. thread \in [Workers -> ThreadStates] /\ job \in [Workers -> Jobs \cup {NoJob}]
    BY DEF Init, ThreadStates
  <2>5. long \subseteq Workers /\ sleepers \subseteq Callers /\ persistentJob \in Jobs \cup {NoJob}
    BY DEF Init
  <2>6. totalThreads \in Int /\ busyThreads \in Int /\ persistentThreads \in Int
    BY DEF Init
  <2>7. pending \in BOOLEAN /\ phase \in {"init", "up", "shutdown", "gone"}
    BY DEF Init
  <2> QED BY <1>1, <2>2, <2>3, <2>4, <2>5, <2>6, <2>7 DEF TypeOK
<1>3. CountersAgree
  <2>1. /\ {w \in Workers : Started(w)} = {} /\ {w \in Workers : job[w] # NoJob} = {}
        /\ long = {}
    BY DEF Init, Started
  <2>2. totalThreads = 0 /\ busyThreads = 0 /\ persistentThreads = 0
    BY DEF Init
  <2> QED BY <2>1, <2>2, FS_EmptySet DEF CountersAgree
<1>4. StartInv
  BY DEF Init, StartInv
<1>5. LimitInv
  <2>1. totalThreads = 0 /\ (IF pending THEN 1 ELSE 0) = 0
    BY DEF Init
  <2>2. MaxThreads # INFINITE_THREADS => 0 <= MaxThreads
    BY ThreadPoolAssumption
  <2> QED BY <2>1, <2>2 DEF LimitInv
<1> QED BY <1>2, <1>3, <1>4, <1>5 DEF ThreadInv

LEMMA StutterThreadInv ==
    ASSUME ThreadInv, UNCHANGED vars
    PROVE  ThreadInv'
<1>1. UNCHANGED <<thread, job, long, call, sleepers, queue, persistentJob, age, totalThreads,
                  busyThreads, persistentThreads, pending, phase, lastJobId, jobId, handed>>
  BY DEF vars, threadVars, queueVars, countVars, idVars
<1>2. TypeOK' /\ CountersAgree'
  BY <1>1 DEF ThreadInv, TypeOK, CountersAgree, Started
<1>3. StartInv' /\ LimitInv'
  BY <1>1 DEF ThreadInv, StartInv, LimitInv
<1> QED BY <1>2, <1>3 DEF ThreadInv

LEMMA NextThreadInv == ThreadInv /\ [Next]_vars => ThreadInv'
<1> SUFFICES ASSUME ThreadInv, [Next]_vars PROVE ThreadInv'
  OBVIOUS
<1>0. Submitters \subseteq Callers /\ LongSubmitters \subseteq Callers /\ Removers \subseteq Callers
  BY ThreadPoolAssumption DEF Callers
<1>1. ASSUME NEW w \in Workers, Worker(w) PROVE ThreadInv'
  BY <1>1, WorkerStartsInv, WorkerWaitsInv, WorkerExitsInv, WorkerTakesPersistentInv,
     WorkerTakesJobInv DEF Worker
<1>2. ASSUME NEW w \in Workers, WorkerTimesOut(w) \/ JobReturns(w) PROVE ThreadInv'
  BY <1>2, WorkerMovesInv
<1>3. ASSUME NEW t \in Callers, Resume(t) PROVE ThreadInv'
  BY <1>3, ResumeInv
<1>4. ASSUME NEW t \in Submitters, NEW j \in ShortJobs, ThreadPoolAdd(t, j) PROVE ThreadInv'
  BY <1>0, <1>4, ThreadPoolAddInv
<1>5. ASSUME NEW t \in LongSubmitters, NEW j \in LongJobs, ThreadPoolAddPersistent(t, j)
      PROVE  ThreadInv'
  BY <1>0, <1>5, ThreadPoolAddPersistentInv
<1>6. ASSUME NEW t \in Removers, NEW id, ThreadPoolRemove(t, id) PROVE ThreadInv'
  BY <1>0, <1>6, ThreadPoolRemoveInv
<1>7. CASE ThreadPoolShutdown
  BY <1>7, ThreadPoolShutdownInv
<1>8. CASE Tick
  BY <1>8, TickInv
<1>9. CASE UNCHANGED vars
  BY <1>9, StutterThreadInv
<1> QED BY <1>1, <1>2, <1>3, <1>4, <1>5, <1>6, <1>7, <1>8, <1>9 DEF Next

(* The strengthened invariant holds in every reachable state.               *)
THEOREM SpecThreadInv == Spec => []ThreadInv
  BY InitThreadInv, NextThreadInv, PTL DEF Spec

(* Every variable keeps its type; the ids stay in the range of an int.      *)
THEOREM SpecTypeOK == Spec => []TypeOK
<1>1. ThreadInv => TypeOK
  BY DEF ThreadInv
<1> QED BY <1>1, SpecThreadInv, PTL

(* totalThreads, busyThreads and persistentThreads agree with the threads.  *)
THEOREM SpecThreadAccounting == Spec => []ThreadAccounting
<1>1. ThreadInv => ThreadAccounting
  BY DEF ThreadInv, ThreadAccounting
<1> QED BY <1>1, SpecThreadInv, PTL

(* The pool never has more than maxThreads threads.                         *)
THEOREM SpecThreadLimit == Spec => []ThreadLimit
<1>1. ASSUME ThreadInv PROVE ThreadLimit
  <2> DEFINE T == {w \in Workers : Started(w)}
             E == {w \in Workers : Exists(w)}
  <2>1. IsFiniteSet(T) /\ Cardinality(T) \in Nat /\ totalThreads = Cardinality(T)
    <3>1. T \in SUBSET Workers
      OBVIOUS
    <3> QED BY <1>1, <3>1, ThreadPoolAssumption, FS_Subset, FS_CardinalityType
              DEF ThreadInv, CountersAgree
  <2>2. CASE pending
    <3>1. PICK w \in Workers : thread[w] = "created"
      BY <1>1, <2>2 DEF ThreadInv, StartInv
    <3>2. E = T \cup {w} /\ w \notin T
      BY <1>1, <3>1 DEF ThreadInv, StartInv, Exists, Started
    <3>3. Cardinality(E) = totalThreads + 1
      BY <2>1, <3>2, FS_AddElement
    <3>4. MaxThreads # INFINITE_THREADS => totalThreads + 1 <= MaxThreads
      <4>1. (IF pending THEN 1 ELSE 0) = 1
        BY <2>2
      <4> QED BY <1>1, <4>1 DEF ThreadInv, LimitInv
    <3> QED BY <3>3, <3>4 DEF ThreadLimit
  <2>3. CASE ~pending
    <3>1. E = T
      BY <1>1, <2>3 DEF ThreadInv, StartInv, Exists, Started
    <3>2. MaxThreads # INFINITE_THREADS => totalThreads <= MaxThreads
      <4>1. (IF pending THEN 1 ELSE 0) = 0
        BY <2>3
      <4>2. MaxThreads # INFINITE_THREADS => totalThreads + 0 <= MaxThreads
        BY <1>1, <4>1 DEF ThreadInv, LimitInv
      <4>3. totalThreads + 0 = totalThreads
        BY <2>1
      <4> QED BY <4>2, <4>3
    <3> QED BY <2>1, <3>1, <3>2 DEF ThreadLimit
  <2> QED BY <2>2, <2>3
<1>2. ThreadInv => ThreadLimit
  BY <1>1
<1> QED BY <1>2, SpecThreadInv, PTL

-------------------------------------------------------------------------------
(* The life of the pool                                                     *)

(* Where a call can be: the owner's two calls belong to two phases; a       *)
(* worker is in a call only while it runs a job; sleepers are in calls.     *)
CallPlace(t, c) ==
    /\ c.op = "init" => t = Owner /\ phase = "init"
    /\ c.at = "drain" => t = Owner /\ phase = "shutdown"
    /\ c.op = "addPersistent" => t \in Clients /\ c.job \in LongJobs
    /\ c.at = "pickup" => t \in Clients
    /\ t \in Workers /\ c # NoCall => thread[t] = "running"
    /\ c = NoCall => t \notin sleepers

CallsPlaced == \A t \in Callers : CallPlace(t, call[t])

(* A starting thread has a creator that waits for it.                       *)
StarterInv == pending => \E t \in Callers : call[t].at = "start"

(* ThreadPoolInit counts the workers it has seen start.                     *)
StartupInv ==
    phase = "init" =>
        /\ call[Owner].op = "init"
        /\ \A t \in Callers \ {Owner} : call[t] = NoCall
        /\ TotalJobs = 0 /\ persistentJob = NoJob
        /\ \A w \in Workers : thread[w] \notin {"running", "finished"}
        /\ call[Owner].threads \in 0..(MinThreads - 1)
        /\ \/ call[Owner].at = "create" /\ ~pending /\ totalThreads = call[Owner].threads
           \/ /\ call[Owner].at = "start"
              /\ totalThreads + (IF pending THEN 1 ELSE 0) = call[Owner].threads + 1

(* Only jobs that still run call the pool while it is shut down.            *)
DrainInv ==
    phase = "shutdown" =>
        /\ call[Owner].at = "drain"
        /\ \A t \in Clients \ {Owner} : call[t] = NoCall

LifeInv == CallsPlaced /\ StarterInv /\ StartupInv /\ MinimumKept /\ DrainInv /\ CleanDestroy

LEMMA NoCallParts == NoCall.op = "none" /\ NoCall.at = "none"
  BY DEF NoCall

(* A step of worker w outside a call.                                       *)
LEMMA WorkerLife ==
    ASSUME ThreadInv, LifeInv, NEW w \in Workers, NEW s,
           thread[w] \notin {"none", s}, call[w] = NoCall,
           thread' = [thread EXCEPT ![w] = s], call' = call, phase' = phase,
           sleepers' \subseteq sleepers, pending' => pending
    PROVE  CallsPlaced' /\ StarterInv' /\ DrainInv' /\ CleanDestroy'
<1>1. \A v \in Workers \ {w} : thread'[v] = thread[v]
  BY DEF ThreadInv, TypeOK
<1>2. CallsPlaced'
  <2>1. ASSUME NEW u \in Callers PROVE CallPlace(u, call[u])'
    <3>1. CallPlace(u, call[u]) /\ call'[u] = call[u]
      BY DEF LifeInv, CallsPlaced
    <3>2. u \in Workers /\ call[u] # NoCall => thread'[u] = "running"
      BY <1>1, <3>1 DEF CallPlace
    <3> QED
      BY <3>1, <3>2 DEF CallPlace
  <2> QED
    BY <2>1 DEF CallsPlaced
<1>3. StarterInv' /\ DrainInv'
  BY DEF LifeInv, StarterInv, DrainInv
<1>4. CleanDestroy'
  BY DEF LifeInv, CleanDestroy, Exists
<1> QED
  BY <1>2, <1>3, <1>4

LEMMA WorkerLifeInv ==
    ASSUME ThreadInv, LifeInv, NEW w \in Workers, Worker(w) \/ WorkerTimesOut(w) \/ JobReturns(w)
    PROVE  LifeInv'
<1>0. /\ TypeOK /\ w \in Callers /\ CallPlace(w, call[w]) /\ MinThreads \in Nat \ {0}
      /\ totalThreads \in Int /\ MaxThreads \in Int
  BY ThreadPoolAssumption DEF ThreadInv, TypeOK, LifeInv, CallsPlaced, Callers, INFINITE_THREADS
<1>1. ASSUME thread[w] # "running" PROVE call[w] = NoCall
  BY <1>0, <1>1 DEF CallPlace
<1>2. Owner \in Callers
  BY ThreadPoolAssumption DEF Callers
<1>3. CASE WorkerStarts(w)
  <2>1. /\ thread[w] = "created" /\ thread' = [thread EXCEPT ![w] = "ready"]
        /\ totalThreads' = totalThreads + 1 /\ pending' = FALSE /\ sleepers' = {}
        /\ call' = call /\ phase' = phase /\ UNCHANGED <<queue, persistentJob>>
    BY <1>3 DEF WorkerStarts, queueVars
  <2>2. pending
    BY <2>1 DEF ThreadInv, StartInv
  <2>3. CallsPlaced' /\ StarterInv' /\ DrainInv' /\ CleanDestroy'
    BY <1>1, <2>1, WorkerLife
  <2>4. MinimumKept'
    BY <1>0, <2>1 DEF LifeInv, MinimumKept
  <2>5. StartupInv'
    <3>1. TotalJobs' = TotalJobs
      BY <2>1 DEF TotalJobs
    <3>2. ASSUME phase = "init"
          PROVE  \A v \in Workers : thread'[v] \notin {"running", "finished"}
      BY <1>0, <2>1, <3>2 DEF LifeInv, StartupInv, TypeOK
    <3>3. ASSUME phase = "init"
          PROVE  call[Owner].at = "start" /\ totalThreads + 1 = call[Owner].threads + 1
      BY <2>2, <3>3 DEF LifeInv, StartupInv
    <3> QED
      BY <1>0, <2>1, <3>1, <3>2, <3>3 DEF LifeInv, StartupInv
  <2> QED
    BY <2>3, <2>4, <2>5 DEF LifeInv
<1>4. ASSUME NEW s \in {"waiting", "timedout", "finished"}, thread[w] # s, thread[w] # "none",
             thread' = [thread EXCEPT ![w] = s], call[w] = NoCall,
             s = "finished" => thread[w] = "running",
             UNCHANGED <<call, sleepers, queue, persistentJob, totalThreads, pending, phase>>
      PROVE  LifeInv'
  <2>1. CallsPlaced' /\ StarterInv' /\ DrainInv' /\ CleanDestroy'
    BY <1>4, WorkerLife
  <2>2. MinimumKept'
    BY <1>4 DEF LifeInv, MinimumKept
  <2>3. StartupInv'
    <3>1. TotalJobs' = TotalJobs
      BY <1>4 DEF TotalJobs
    <3>2. ASSUME phase = "init"
          PROVE  \A v \in Workers : thread'[v] \notin {"running", "finished"}
      BY <1>0, <1>4, <3>2 DEF LifeInv, StartupInv, TypeOK
    <3> QED
      BY <1>4, <3>1, <3>2 DEF LifeInv, StartupInv
  <2> QED
    BY <2>1, <2>2, <2>3 DEF LifeInv
<1>5. CASE WorkerWaits(w)
  <2>1. thread[w] \in {"ready", "timedout", "finished"}
    BY <1>5 DEF WorkerWaits, LooksForWork
  <2> QED
    BY <1>1, <1>4, <1>5, <2>1 DEF WorkerWaits, queueVars
<1>6. CASE WorkerTimesOut(w)
  BY <1>1, <1>4, <1>6 DEF WorkerTimesOut, queueVars, countVars
<1>7. CASE JobReturns(w)
  BY <1>4, <1>7 DEF JobReturns, queueVars, countVars
<1>8. CASE WorkerTakesPersistent(w) \/ WorkerTakesJob(w)
  <2>1. /\ thread[w] \in {"ready", "timedout", "finished"}
        /\ phase \in {"init", "up"} /\ (persistentJob # NoJob \/ TotalJobs > 0)
        /\ thread' = [thread EXCEPT ![w] = "running"]
        /\ sleepers' \subseteq sleepers /\ UNCHANGED <<call, totalThreads, pending, phase>>
    BY <1>8 DEF WorkerTakesPersistent, WorkerTakesJob, Takes, LooksForWork
  <2>2. phase = "up"
    BY <2>1 DEF LifeInv, StartupInv
  <2>3. CallsPlaced' /\ StarterInv' /\ DrainInv' /\ CleanDestroy'
    BY <1>1, <2>1, WorkerLife
  <2> QED
    BY <2>1, <2>2, <2>3 DEF LifeInv, StartupInv, MinimumKept
<1>9. CASE WorkerExits(w)
  <2>1. /\ thread[w] \in {"ready", "timedout", "finished"}
        /\ (NoWork /\ GivesUp(w) /\ UNCHANGED queue) \/ phase = "shutdown"
        /\ thread' = [thread EXCEPT ![w] = "none"]
        /\ totalThreads' = totalThreads - 1 /\ sleepers' = {}
        /\ UNCHANGED <<call, persistentJob, pending, phase>>
    BY <1>9 DEF WorkerExits, LooksForWork
  <2>2. CallsPlaced' /\ StarterInv' /\ DrainInv' /\ CleanDestroy'
    BY <1>1, <2>1, WorkerLife
  <2>3. phase # "shutdown" => totalThreads > MinThreads
    <3>1. MaxThreads # INFINITE_THREADS => totalThreads <= MaxThreads
      BY <1>0 DEF ThreadInv, LimitInv
    <3> QED
      BY <1>0, <2>1, <3>1 DEF GivesUp
  <2>4. phase # "init"
    <3>1. ASSUME phase = "init" PROVE totalThreads <= MinThreads
      BY <1>0, <3>1 DEF LifeInv, StartupInv
    <3> QED
      BY <1>0, <2>3, <3>1
  <2>5. MinimumKept'
    BY <1>0, <2>1, <2>3 DEF MinimumKept
  <2> QED
    BY <2>1, <2>2, <2>4, <2>5 DEF LifeInv, StartupInv
<1> QED
  BY <1>3, <1>5, <1>6, <1>7, <1>8, <1>9 DEF Worker

(* What the step of a caller does to its call, which becomes d.             *)
CallStep(t, d) ==
    /\ call' = [call EXCEPT ![t] = d]
    /\ sleepers' \subseteq sleepers \cup {t}
    /\ t \in sleepers' => d.at # "none"
    /\ \A w \in Workers : thread'[w] = "running" <=> thread[w] = "running"
    /\ pending' => pending \/ d.at = "start"

LEMMA CreateWorkerCall ==
    ASSUME TypeOK, NEW t, NEW c \in Call, CreateWorker(t, c)
    PROVE  \E d : /\ CallStep(t, d) /\ d.op = c.op /\ d.job = c.job /\ d.threads = c.threads
                  /\ \/ pending /\ pending' = pending /\ d.at = "create"
                     \/ ~pending /\ pending' = TRUE /\ d.at = "start"
<1>1. CASE /\ pending
           /\ Sleep(t, [c EXCEPT !.at = "create"])
           /\ UNCHANGED <<thread, pending>>
  <2>1. PICK d : d = [c EXCEPT !.at = "create"]
    OBVIOUS
  <2>2. d.op = c.op /\ d.job = c.job /\ d.threads = c.threads /\ d.at = "create"
    BY <2>1 DEF Call
  <2>3. CallStep(t, d)
    BY <1>1, <2>1, <2>2 DEF Sleep, CallStep
  <2> QED
    BY <1>1, <2>2, <2>3
<1>2. CASE /\ ~pending
           /\ StartsThread
           /\ pending' = TRUE
           /\ Sleep(t, [c EXCEPT !.at = "start"])
  <2>1. PICK d : d = [c EXCEPT !.at = "start"]
    OBVIOUS
  <2>2. d.op = c.op /\ d.job = c.job /\ d.threads = c.threads /\ d.at = "start"
    BY <2>1 DEF Call
  <2>3. \A w \in Workers : thread'[w] = "running" <=> thread[w] = "running"
    BY <1>2 DEF StartsThread, TypeOK
  <2>4. CallStep(t, d)
    BY <1>2, <2>1, <2>2, <2>3 DEF Sleep, CallStep
  <2> QED
    BY <1>2, <2>2, <2>4
<1> QED
  BY <1>1, <1>2 DEF CreateWorker

LEMMA ReturnCall ==
    ASSUME NEW t, t \notin sleepers, Return(t), pending' = pending,
           \A w \in Workers : thread'[w] = "running" <=> thread[w] = "running"
    PROVE  CallStep(t, NoCall)
  BY DEF Return, CallStep

LEMMA SignalRuns ==
    ASSUME TypeOK, Signal
    PROVE  \A w \in Workers : thread'[w] = "running" <=> thread[w] = "running"
  BY DEF TypeOK, Signal

LEMMA AddWorkerCall ==
    ASSUME TypeOK, NEW t, t \notin sleepers, NEW c \in Call, c.op = "add",
           AddWorker(t, c) \/ FinishAdd(t, c)
    PROVE  \E d : CallStep(t, d) /\ (d = NoCall \/ (d.op = "add" /\ d.at \in {"create", "start"}))
<1>1. CASE CreateWorker(t, c)
  <2>1. PICK d : CallStep(t, d) /\ d.op = c.op /\ d.at \in {"create", "start"}
    BY <1>1, CreateWorkerCall
  <2> QED
    BY <2>1
<1>2. CASE FinishAdd(t, c)
  BY <1>2, ReturnCall, SignalRuns DEF FinishAdd
<1> QED
  BY <1>1, <1>2 DEF AddWorker

LEMMA PlacePersistentCall ==
    ASSUME TypeOK, NEW t, NEW c \in Call, PlacePersistent(t, c)
    PROVE  \E d : CallStep(t, d) /\ d.op = c.op /\ d.job = c.job /\ d.at = "pickup"
<1>1. PICK d : d = [c EXCEPT !.at = "pickup"]
  OBVIOUS
<1>2. d.op = c.op /\ d.job = c.job /\ d.at = "pickup"
  BY <1>1 DEF Call
<1>3. CallStep(t, d)
  BY <1>1, <1>2, SignalRuns DEF PlacePersistent, Sleep, CallStep
<1> QED
  BY <1>2, <1>3

(* The calls stay where they may be.                                        *)
LEMMA CallsKept ==
    ASSUME TypeOK, CallsPlaced, StarterInv, NEW t \in Callers, NEW d, CallStep(t, d),
           CallPlace(t, d)', phase' = phase \/ t = Owner,
           call[t].at = "start" => ~pending \/ d.at = "start"
    PROVE  CallsPlaced' /\ StarterInv'
<1>1. call'[t] = d /\ \A u \in Callers \ {t} : call'[u] = call[u]
  BY DEF TypeOK, CallStep
<1>2. ASSUME NEW u \in Callers \ {t} PROVE CallPlace(u, call[u])'
  <2>1. CallPlace(u, call[u]) /\ call'[u] = call[u]
    BY <1>1 DEF CallsPlaced
  <2>2. u \in sleepers' => u \in sleepers
    BY DEF CallStep
  <2>3. u \in Workers => (thread'[u] = "running" <=> thread[u] = "running")
    BY DEF CallStep
  <2> QED
    BY <2>1, <2>2, <2>3 DEF CallPlace
<1>3. CallPlace(t, call[t])'
  BY <1>1 DEF CallPlace
<1>4. CallsPlaced'
  BY <1>2, <1>3 DEF CallsPlaced
<1>5. StarterInv'
  <2>1. CASE d.at = "start"
    BY <1>1, <2>1 DEF StarterInv
  <2>2. CASE d.at # "start" /\ pending'
    <3>1. pending
      BY <2>2 DEF CallStep
    <3>2. PICK u \in Callers : call[u].at = "start"
      BY <3>1 DEF StarterInv
    <3>3. u # t
      BY <2>2, <3>1, <3>2
    <3> QED
      BY <1>1, <3>2, <3>3 DEF StarterInv
  <2> QED
    BY <2>1, <2>2 DEF StarterInv
<1> QED
  BY <1>4, <1>5

(* A call while the pool is in service, or a job's call at any time.        *)
LEMMA ServiceCall ==
    ASSUME ThreadInv, LifeInv, NEW t \in Callers, NEW d, CallStep(t, d), CallPlace(t, d)',
           phase \in {"up", "shutdown"}, UNCHANGED <<phase, totalThreads>>,
           t \in Clients => phase = "up" \/ (t = Owner /\ d.at = "drain"),
           call[t].at = "start" => ~pending \/ d.at = "start"
    PROVE  LifeInv'
<1>1. CallsPlaced' /\ StarterInv'
  BY CallsKept DEF LifeInv, ThreadInv
<1>2. call'[t] = d /\ \A u \in Callers \ {t} : call'[u] = call[u]
  BY DEF ThreadInv, TypeOK, CallStep
<1>3. Owner \in Callers /\ Clients \subseteq Callers /\ Owner \in Clients
  BY ThreadPoolAssumption DEF Callers
<1>4. DrainInv'
  BY <1>2, <1>3 DEF LifeInv, DrainInv
<1> QED
  BY <1>1, <1>4 DEF LifeInv, StartupInv, MinimumKept, CleanDestroy

(* Who may act in which phase.                                              *)
LEMMA MayCallPhase ==
    ASSUME TypeOK, LifeInv, NEW t \in Callers, MayCall(t)
    PROVE  /\ phase \in {"up", "shutdown"} /\ t \notin sleepers
           /\ t \in Clients => phase = "up"
           /\ t \in Workers => thread[t] = "running"
<1>1. t \notin sleepers
  BY DEF MayCall, LifeInv, CallsPlaced, CallPlace
<1>2. CASE t \in Clients /\ phase = "up"
  BY <1>1, <1>2, ThreadPoolAssumption
<1>3. CASE t \in Workers /\ thread[t] = "running"
  BY <1>1, <1>3, ThreadPoolAssumption DEF TypeOK, LifeInv, StartupInv, CleanDestroy, Exists
<1> QED
  BY <1>2, <1>3 DEF MayCall

LEMMA AwakePhase ==
    ASSUME LifeInv, NEW t \in Callers, call[t].at # "none"
    PROVE  /\ phase # "gone"
           /\ t \in Workers => thread[t] = "running"
           /\ phase = "init" => t = Owner /\ call[t].op = "init"
           /\ phase = "shutdown" => t \in Workers \/ t = Owner
           /\ phase = "shutdown" /\ t = Owner => call[t].at = "drain"
<1>1. call[t] # NoCall
  BY NoCallParts
<1>2. CallPlace(t, call[t])
  BY DEF LifeInv, CallsPlaced
<1> QED
  BY <1>1, <1>2 DEF LifeInv, CallPlace, StartupInv, DrainInv, CleanDestroy, Callers

LEMMA NoneStarted ==
    ASSUME ThreadInv, totalThreads <= 0
    PROVE  /\ \A w \in Workers : ~Started(w)
           /\ ~pending => \A w \in Workers : ~Exists(w)
<1> DEFINE S == {w \in Workers : Started(w)}
<1>1. IsFiniteSet(S) /\ totalThreads = Cardinality(S) /\ Cardinality(S) \in Nat
  <2>1. S \in SUBSET Workers
    OBVIOUS
  <2> QED
    BY <2>1, ThreadPoolAssumption, FS_Subset, FS_CardinalityType DEF ThreadInv, CountersAgree
<1>2. S = {}
  BY <1>1, FS_EmptySet
<1> QED
  BY <1>2 DEF ThreadInv, StartInv, Exists, Started

(* ThreadPoolShutdown, called by the owner or on the way by ThreadPoolInit. *)
LEMMA ShutdownLife ==
    ASSUME ThreadInv, LifeInv, BeginShutdown(Owner), Owner \notin sleepers,
           totalThreads' = totalThreads, \A t \in Clients \ {Owner} : call[t] = NoCall,
           (phase = "init" /\ ~pending) \/ (phase = "up" /\ call[Owner] = NoCall)
    PROVE  LifeInv'
<1>1. /\ Owner \in Callers /\ Owner \notin Workers /\ totalThreads \in Int /\ MinThreads \in Nat \ {0}
      /\ Owner \in Clients /\ Clients \subseteq Callers
  BY ThreadPoolAssumption DEF Callers, ThreadInv, TypeOK
<1>2. /\ \A w \in Workers : thread'[w] = IF thread[w] = "waiting" THEN "ready" ELSE thread[w]
      /\ pending' = pending
  BY DEF BeginShutdown
<1>3. call[Owner].at = "start" => ~pending
  BY NoCallParts
<1>4. CASE totalThreads > 0
  <2>1. PICK d : d = [NoCall EXCEPT !.op = "shutdown", !.at = "drain"]
    OBVIOUS
  <2>2. d.op = "shutdown" /\ d.at = "drain"
    <3>1. [NoCall EXCEPT !.op = "shutdown", !.at = "drain"].op = "shutdown"
      BY DEF NoCall
    <3>2. [NoCall EXCEPT !.op = "shutdown", !.at = "drain"].at = "drain"
      BY DEF NoCall
    <3> QED
      BY <2>1, <3>1, <3>2
  <2>3. phase' = "shutdown" /\ CallStep(Owner, d)
    BY <1>2, <1>4, <2>1, <2>2 DEF BeginShutdown, Sleep, CallStep
  <2>4. CallPlace(Owner, d)'
    <3>1. d # NoCall
      BY <2>2, NoCallParts
    <3> QED
      BY <1>1, <2>2, <2>3, <3>1 DEF CallPlace
  <2>5. CallsPlaced' /\ StarterInv'
    BY <1>1, <1>3, <2>3, <2>4, CallsKept DEF LifeInv, ThreadInv
  <2>6. call'[Owner] = d /\ \A u \in Clients \ {Owner} : call'[u] = call[u]
    BY <1>1, <2>3 DEF ThreadInv, TypeOK, CallStep
  <2>7. DrainInv'
    BY <2>2, <2>6 DEF DrainInv
  <2> QED
    BY <2>3, <2>5, <2>7 DEF LifeInv, StartupInv, MinimumKept, CleanDestroy
<1>5. CASE ~(totalThreads > 0)
  <2>1. totalThreads <= 0
    BY <1>1, <1>5
  <2>2. phase = "init" /\ ~pending
    BY <1>1, <2>1 DEF LifeInv, MinimumKept
  <2>3. phase' = "gone" /\ Return(Owner)
    BY <1>5 DEF BeginShutdown
  <2>4. \A w \in Workers : thread'[w] = "none"
    BY <1>2, <2>1, <2>2, NoneStarted DEF Exists
  <2>5. \A t \in Callers : call'[t] = NoCall
    BY <2>2, <2>3 DEF LifeInv, StartupInv, Return, ThreadInv, TypeOK
  <2>6. sleepers' = {}
    <3>1. \A t \in Callers \ {Owner} : t \notin sleepers
      BY <2>2 DEF LifeInv, StartupInv, CallsPlaced, CallPlace
    <3> QED
      BY <2>3, <3>1 DEF Return, ThreadInv, TypeOK
  <2>7. CleanDestroy'
    BY <2>4, <2>5, <2>6 DEF CleanDestroy, Exists
  <2>8. CallsPlaced'
    BY <2>5, <2>6, NoCallParts DEF CallsPlaced, CallPlace
  <2>9. StarterInv'
    BY <1>2, <2>2 DEF StarterInv
  <2> QED
    BY <2>3, <2>7, <2>8, <2>9 DEF LifeInv, StartupInv, MinimumKept, DrainInv
<1> QED
  BY <1>4, <1>5

(* ThreadPoolInit creates its next worker, or is done.                      *)
LEMMA InitWorkersLife ==
    ASSUME ThreadInv, LifeInv, phase = "init", Owner \notin sleepers, ~pending,
           NEW c \in Call, c.op = "init", c.threads = totalThreads, c.threads \in 0..MinThreads,
           UNCHANGED <<totalThreads, job>>,
           \/ InitWorkers(Owner, c)
           \/ CreateWorker(Owner, c) /\ c.threads < MinThreads /\ UNCHANGED <<queueVars, phase>>
    PROVE  LifeInv'
<1>1. /\ Owner \in Callers /\ Owner \notin Workers /\ totalThreads \in Int /\ MinThreads \in Nat \ {0}
      /\ Owner \in Clients /\ Clients \subseteq Callers
  BY ThreadPoolAssumption DEF Callers, ThreadInv, TypeOK
<1>2. \A t \in Callers \ {Owner} : call[t] = NoCall
  BY DEF LifeInv, StartupInv
<1>3. CASE BeginShutdown(Owner)
  BY <1>1, <1>2, <1>3, ShutdownLife
<1>4. CASE CreateWorker(Owner, c) /\ c.threads < MinThreads /\ UNCHANGED <<queueVars, phase>>
  <2>1. TypeOK
    BY DEF ThreadInv
  <2>0. PICK d : /\ CallStep(Owner, d) /\ d.op = c.op /\ d.job = c.job /\ d.threads = c.threads
                 /\ \/ pending /\ pending' = pending /\ d.at = "create"
                    \/ ~pending /\ pending' = TRUE /\ d.at = "start"
    BY <1>4, <2>1, CreateWorkerCall
  <2>2. /\ CallStep(Owner, d) /\ d.op = "init" /\ d.threads = c.threads
        /\ ~pending /\ pending' = TRUE /\ d.at = "start"
    BY <2>0
  <2>3. CallPlace(Owner, d)'
    BY <1>1, <1>4, <2>2, NoCallParts DEF CallPlace
  <2>4. CallsPlaced' /\ StarterInv'
    BY <1>1, <1>4, <2>1, <2>2, <2>3, CallsKept DEF LifeInv
  <2>5. call'[Owner] = d /\ \A u \in Callers \ {Owner} : call'[u] = call[u]
    BY <1>1, <2>1, <2>2 DEF TypeOK, CallStep
  <2>6. TotalJobs' = TotalJobs /\ persistentJob' = persistentJob
    BY <1>4 DEF TotalJobs, queueVars
  <2>7. \A w \in Workers : thread'[w] \notin {"running", "finished"}
    BY <1>4, <2>1 DEF CreateWorker, StartsThread, TypeOK, LifeInv, StartupInv
  <2>8. c.threads \in 0..(MinThreads - 1)
    BY <1>1, <1>4
  <2>9. totalThreads' + (IF pending' THEN 1 ELSE 0) = c.threads + 1
    BY <2>2
  <2>10. StartupInv'
    BY <1>1, <1>2, <2>2, <2>5, <2>6, <2>7, <2>8, <2>9 DEF LifeInv, StartupInv
  <2> QED
    BY <1>4, <2>4, <2>10 DEF LifeInv, MinimumKept, DrainInv, CleanDestroy
<1>5. CASE /\ c.threads >= MinThreads
           /\ Return(Owner)
           /\ phase' = "up"
           /\ UNCHANGED <<thread, queueVars, pending>>
  <2>1. CallStep(Owner, NoCall)
    BY <1>5, ReturnCall
  <2>2. CallPlace(Owner, NoCall)'
    BY <1>1, <1>5, NoCallParts DEF CallPlace, Return
  <2>3. CallsPlaced' /\ StarterInv'
    BY <1>1, <2>1, <2>2, CallsKept DEF LifeInv, ThreadInv
  <2>4. MinimumKept'
    BY <1>1, <1>5 DEF MinimumKept
  <2> QED
    BY <1>5, <2>3, <2>4 DEF LifeInv, StartupInv, DrainInv, CleanDestroy
<1> QED
  BY <1>3, <1>4, <1>5 DEF InitWorkers

LEMMA ContinueLife ==
    ASSUME ThreadInv, LifeInv, NEW t \in Callers, NEW ok \in BOOLEAN, t \notin sleepers,
           call[t].at \in {"create", "start"}, call[t].at = "start" <=> ok, ~pending,
           Continue(t, call[t], ok), UNCHANGED <<job, long, countVars>>
    PROVE  LifeInv'
<1>1. PICK c : c = call[t]
  OBVIOUS
<1>2. /\ TypeOK /\ c \in Call /\ CallPlace(t, c) /\ t \notin sleepers
      /\ totalThreads' = totalThreads /\ MinThreads \in Nat \ {0} /\ totalThreads \in Int
  BY <1>1, ThreadPoolAssumption DEF ThreadInv, TypeOK, LifeInv, CallsPlaced, countVars
<1>3. /\ phase # "gone"
      /\ t \in Workers => thread[t] = "running"
      /\ phase = "init" => t = Owner /\ c.op = "init"
      /\ phase = "shutdown" => t \in Workers
  <2>1. c.at # "none" /\ c.at # "drain"
    BY <1>1
  <2> QED
    BY <1>1, <2>1, AwakePhase
<1>4. CASE /\ c.op = "init"
           /\ IF ok THEN InitWorkers(t, [c EXCEPT !.threads = @ + 1]) ELSE BeginShutdown(t)
  <2>1. t = Owner /\ phase = "init"
    BY <1>2, <1>4 DEF CallPlace
  <2>2. CASE ~ok
    <3>1. \A u \in Clients \ {Owner} : call[u] = NoCall
      BY <2>1 DEF LifeInv, StartupInv, Callers
    <3> QED
      BY <1>2, <1>4, <2>1, <2>2, <3>1, ShutdownLife
  <2>3. CASE ok
    <3>1. PICK d : d = [c EXCEPT !.threads = @ + 1]
      OBVIOUS
    <3>2. d \in Call /\ d.op = "init" /\ d.threads = c.threads + 1
      BY <1>2, <1>4, <3>1 DEF Call
    <3>3. c.threads \in 0..(MinThreads - 1) /\ totalThreads = c.threads + 1
      <4>1. c.at = "start"
        BY <1>1, <2>3
      <4>2. c.threads \in 0..(MinThreads - 1) /\ totalThreads + 0 = c.threads + 1
        BY <1>1, <2>1, <4>1 DEF LifeInv, StartupInv
      <4> QED
        BY <1>2, <4>2
    <3>4. d.threads = totalThreads /\ d.threads \in 0..MinThreads
      BY <1>2, <3>2, <3>3
    <3> QED
      BY <1>2, <1>4, <2>1, <2>3, <3>1, <3>2, <3>4, InitWorkersLife
  <2> QED
    BY <2>2, <2>3
<1>5. CASE /\ c.op = "add"
           /\ IF ok THEN AddWorker(t, CountThread(c)) ELSE FinishAdd(t, c)
           /\ UNCHANGED <<queueVars, phase, jobId>>
  <2>1. PICK e : e \in Call /\ e.op = "add" /\ (AddWorker(t, e) \/ FinishAdd(t, e))
    <3>1. CountThread(c) \in Call /\ CountThread(c).op = "add"
      <4>1. CountThread(c) \in Call
        BY <1>2, CallAt
      <4>2. CountThread(c).op = c.op
        BY <1>2 DEF CountThread, Call
      <4> QED
        BY <1>5, <4>1, <4>2
    <3> QED
      BY <1>2, <1>5, <3>1
  <2>2. PICK d : CallStep(t, d) /\ (d = NoCall \/ (d.op = "add" /\ d.at \in {"create", "start"}))
    BY <1>2, <2>1, AddWorkerCall
  <2>3. CallPlace(t, d)'
    <3>1. d = NoCall => t \notin sleepers'
      BY <2>2, NoCallParts DEF CallStep
    <3>2. t \in Workers => thread'[t] = "running"
      BY <1>3, <2>2 DEF CallStep
    <3> QED
      BY <2>2, <3>1, <3>2, NoCallParts DEF CallPlace
  <2>4. phase \in {"up", "shutdown"} /\ (t \in Clients => phase = "up")
    <3>1. phase # "init"
      BY <1>3, <1>5
    <3> QED
      BY <1>2, <1>3, <3>1, ThreadPoolAssumption DEF TypeOK
  <2> QED
    BY <1>2, <1>5, <2>2, <2>3, <2>4, ServiceCall
<1>6. CASE /\ c.op = "addPersistent"
           /\ PlacePersistent(t, c)
           /\ UNCHANGED <<queue, phase, lastJobId, handed>>
  <2>1. PICK d : CallStep(t, d) /\ d.op = "addPersistent" /\ d.job = c.job /\ d.at = "pickup"
    BY <1>2, <1>6, PlacePersistentCall
  <2>2. t \in Clients /\ c.job \in LongJobs /\ t \notin Workers /\ d # NoCall
    BY <1>2, <1>6, <2>1, ThreadPoolAssumption, NoCallParts DEF CallPlace
  <2>3. CallPlace(t, d)'
    BY <2>1, <2>2 DEF CallPlace
  <2>4. phase = "up"
    BY <1>2, <1>3, <1>6, <2>2 DEF TypeOK
  <2> QED
    BY <1>2, <1>6, <2>1, <2>3, <2>4, ServiceCall
<1> QED
  BY <1>1, <1>4, <1>5, <1>6 DEF Continue

(* A caller finds that it has to go on waiting.                             *)
LEMMA SleepAgainLife ==
    ASSUME ThreadInv, LifeInv, NEW t \in Callers, call[t].at # "none", Sleep(t, call[t]),
           UNCHANGED <<thread, queue, persistentJob, totalThreads, pending, phase>>
    PROVE  LifeInv'
<1>1. call' = call /\ sleepers' = sleepers \cup {t}
  BY DEF Sleep, ThreadInv, TypeOK
<1>2. call[t] # NoCall /\ phase # "gone"
  BY NoCallParts, AwakePhase
<1>3. TotalJobs' = TotalJobs
  BY DEF TotalJobs
<1>4. CallsPlaced'
  <2>1. ASSUME NEW u \in Callers PROVE CallPlace(u, call[u])'
    <3>1. CallPlace(u, call[u])
      BY DEF LifeInv, CallsPlaced
    <3> QED
      BY <1>1, <1>2, <3>1 DEF CallPlace
  <2> QED
    BY <2>1 DEF CallsPlaced
<1>5. StarterInv' /\ StartupInv' /\ MinimumKept' /\ DrainInv'
  BY <1>1, <1>3 DEF LifeInv, StarterInv, StartupInv, MinimumKept, DrainInv
<1> QED
  BY <1>2, <1>4, <1>5 DEF LifeInv, CleanDestroy

LEMMA ResumeLife ==
    ASSUME ThreadInv, LifeInv, NEW t \in Callers, Resume(t)
    PROVE  LifeInv'
<1>1. PICK c : c = call[t]
  OBVIOUS
<1>2. TypeOK /\ c \in Call /\ CallPlace(t, c)
  BY <1>1 DEF ThreadInv, TypeOK, LifeInv, CallsPlaced
<1>3. ASSUME c.at # "none"
      PROVE  /\ phase # "gone"
             /\ t \in Workers => thread[t] = "running"
             /\ phase = "init" => t = Owner /\ c.op = "init"
             /\ phase = "shutdown" => t \in Workers \/ t = Owner
             /\ phase = "shutdown" /\ t = Owner => c.at = "drain"
  BY <1>1, <1>3, AwakePhase
<1>4. CASE ResumeCreate(t)
  <2>1. /\ c.at = "create" /\ t \notin sleepers /\ UNCHANGED <<job, long, countVars>>
        /\ totalThreads' = totalThreads
    BY <1>1, <1>4 DEF ResumeCreate, Awake, countVars
  <2>2. CASE CreateWorker(t, c) /\ UNCHANGED <<queueVars, phase, idVars>>
    <3>1. CASE phase = "init"
      <4>1. /\ t = Owner /\ c.op = "init" /\ ~pending /\ c.threads = totalThreads
            /\ c.threads \in 0..(MinThreads - 1)
        BY <1>1, <1>3, <2>1, <3>1 DEF LifeInv, StartupInv
      <4>2. c.threads \in 0..MinThreads /\ c.threads < MinThreads
        BY <4>1, ThreadPoolAssumption
      <4> QED
        BY <1>2, <2>1, <2>2, <3>1, <4>1, <4>2, InitWorkersLife
    <3>2. CASE phase # "init"
      <4>1. PICK d : CallStep(t, d) /\ d.op = c.op /\ d.job = c.job /\ d.at \in {"create", "start"}
        BY <1>2, <2>2, CreateWorkerCall
      <4>2. t \in Workers => thread'[t] = "running"
        BY <1>3, <2>1, <4>1 DEF CallStep
      <4>3. CallPlace(t, d)'
        BY <1>2, <2>2, <3>2, <4>1, <4>2, NoCallParts DEF CallPlace
      <4>4. phase \in {"up", "shutdown"} /\ (t \in Clients => phase = "up")
        BY <1>2, <1>3, <2>1, <3>2, ThreadPoolAssumption DEF TypeOK
      <4> QED
        BY <1>1, <2>1, <2>2, <4>1, <4>3, <4>4, ServiceCall
    <3> QED
      BY <3>1, <3>2
  <2>3. CASE CreateFails /\ Continue(t, c, FALSE)
    BY <1>1, <2>1, <2>3, ContinueLife DEF CreateFails
  <2> QED
    BY <1>1, <1>4, <2>2, <2>3 DEF ResumeCreate
<1>5. CASE ResumeStart(t)
  <2>1. c.at = "start" /\ t \notin sleepers /\ UNCHANGED <<job, long, countVars>>
    BY <1>1, <1>5 DEF ResumeStart, Awake
  <2>2. CASE Sleep(t, c) /\ UNCHANGED <<thread, pending, queueVars, phase, idVars>>
    BY <1>1, <2>1, <2>2, SleepAgainLife DEF queueVars, countVars
  <2>3. CASE ~pending /\ Continue(t, c, TRUE)
    BY <1>1, <2>1, <2>3, ContinueLife
  <2> QED
    BY <1>1, <1>5, <2>2, <2>3 DEF ResumeStart
<1>6. CASE ResumePickup(t)
  <2>1. /\ c.at = "pickup" /\ t \notin sleepers
        /\ UNCHANGED <<thread, queue, persistentJob, totalThreads, pending, phase>>
        /\ Sleep(t, c) \/ Return(t)
    BY <1>1, <1>6 DEF ResumePickup, Awake, threadVars, queueVars, countVars
  <2>2. CASE Sleep(t, c)
    BY <1>1, <2>1, <2>2, SleepAgainLife
  <2>3. CASE Return(t)
    <3>1. CallStep(t, NoCall)
      BY <2>1, <2>3, ReturnCall
    <3>2. t \in Clients /\ t \notin Workers
      BY <1>2, <2>1, ThreadPoolAssumption DEF CallPlace
    <3>3. phase # "init"
      BY <1>1, <1>3, <2>1 DEF LifeInv, StartupInv
    <3>4. phase = "up"
      BY <1>2, <1>3, <2>1, <3>2, <3>3 DEF TypeOK
    <3>5. CallPlace(t, NoCall)'
      BY <2>1, <2>3, <3>2, NoCallParts DEF CallPlace, Return
    <3> QED
      BY <1>1, <2>1, <3>1, <3>4, <3>5, ServiceCall
  <2> QED
    BY <2>1, <2>2, <2>3
<1>7. CASE ResumeDrain(t)
  <2>1. c.at = "drain" /\ t \notin sleepers /\ UNCHANGED <<threadVars, queueVars, countVars, pending>>
    BY <1>1, <1>7 DEF ResumeDrain, Awake
  <2>2. UNCHANGED <<thread, queue, persistentJob, totalThreads, pending>>
    BY <2>1 DEF threadVars, queueVars, countVars
  <2>3. t = Owner /\ phase = "shutdown"
    BY <1>2, <2>1 DEF CallPlace
  <2>4. CASE Sleep(t, c) /\ UNCHANGED phase
    BY <1>1, <2>1, <2>2, <2>4, SleepAgainLife
  <2>5. CASE totalThreads <= 0 /\ Return(t) /\ phase' = "gone"
    <3>1. \A w \in Workers : ~Started(w)
      BY <2>5, NoneStarted
    <3>2. \A u \in Callers \ {t} : call[u] = NoCall
      <4>1. \A u \in Workers : call[u] = NoCall
        BY <3>1 DEF LifeInv, CallsPlaced, CallPlace, Started, Callers
      <4> QED
        BY <2>3, <4>1 DEF LifeInv, DrainInv, Callers
    <3>3. ~pending
      <4>1. \A u \in Callers : call[u].at # "start"
        BY <1>1, <2>1, <3>2, NoCallParts
      <4> QED
        BY <4>1 DEF LifeInv, StarterInv
    <3>4. \A w \in Workers : ~Exists(w)
      BY <2>5, <3>3, NoneStarted
    <3>5. \A u \in Callers : call'[u] = NoCall
      BY <1>2, <2>5, <3>2 DEF Return, TypeOK
    <3>6. sleepers' = {}
      <4>1. \A u \in Callers \ {t} : u \notin sleepers
        BY <3>2 DEF LifeInv, CallsPlaced, CallPlace
      <4> QED
        BY <1>2, <2>1, <2>5, <4>1 DEF Return, TypeOK
    <3>7. CleanDestroy'
      BY <2>2, <3>4, <3>5, <3>6 DEF CleanDestroy, Exists
    <3>8. CallsPlaced'
      BY <3>5, <3>6, NoCallParts DEF CallsPlaced, CallPlace
    <3>9. StarterInv'
      BY <2>2, <3>3 DEF StarterInv
    <3> QED
      BY <2>5, <3>7, <3>8, <3>9 DEF LifeInv, StartupInv, MinimumKept, DrainInv
  <2> QED
    BY <1>1, <1>7, <2>4, <2>5 DEF ResumeDrain
<1> QED
  BY <1>4, <1>5, <1>6, <1>7 DEF Resume

LEMMA ApiLife ==
    ASSUME ThreadInv, LifeInv, NEW t \in Callers,
           \/ \E j \in ShortJobs : ThreadPoolAdd(t, j)
           \/ t \in Clients /\ \E j \in LongJobs : ThreadPoolAddPersistent(t, j)
    PROVE  LifeInv'
<1>1. TypeOK /\ MayCall(t)
  BY DEF ThreadInv, ThreadPoolAdd, ThreadPoolAddPersistent
<1>2. /\ phase \in {"up", "shutdown"} /\ t \notin sleepers
      /\ t \in Clients => phase = "up"
      /\ t \in Workers => thread[t] = "running"
  BY <1>1, MayCallPhase
<1>3. call[t].at # "start"
  BY <1>1, NoCallParts DEF MayCall
<1>4. ASSUME NEW d, CallStep(t, d), UNCHANGED <<phase, countVars>>,
             \/ d = NoCall
             \/ d.op = "add" /\ d.at \in {"create", "start"}
             \/ /\ t \in Clients /\ d.op = "addPersistent" /\ d.job \in LongJobs
                /\ d.at \in {"create", "start", "pickup"}
      PROVE  LifeInv'
  <2>1. d = NoCall => t \notin sleepers'
    BY <1>4, NoCallParts DEF CallStep
  <2>2. t \in Workers => thread'[t] = "running"
    BY <1>2, <1>4 DEF CallStep
  <2>3. CallPlace(t, d)'
    BY <1>4, <2>1, <2>2, NoCallParts DEF CallPlace
  <2>4. totalThreads' = totalThreads
    BY <1>4 DEF countVars
  <2> QED
    BY <1>2, <1>3, <1>4, <2>3, <2>4, ServiceCall
<1>5. ASSUME NEW j \in ShortJobs, ThreadPoolAdd(t, j) PROVE LifeInv'
  <2>1. PICK c : /\ c = [op |-> "add", at |-> "none", job |-> j, jobs |-> TotalJobs + 1,
                         threads |-> totalThreads - persistentThreads]
                 /\ AddWorker(t, c) /\ UNCHANGED <<countVars, phase>>
    BY <1>5 DEF ThreadPoolAdd
  <2>2. c \in Call
    BY <1>1, <2>1, AddCallType
  <2>3. c.op = "add"
    BY <2>1
  <2>4. PICK d : CallStep(t, d) /\ (d = NoCall \/ (d.op = "add" /\ d.at \in {"create", "start"}))
    BY <1>1, <1>2, <2>1, <2>2, <2>3, AddWorkerCall
  <2> QED
    BY <1>4, <2>1, <2>4
<1>6. ASSUME t \in Clients, NEW j \in LongJobs, ThreadPoolAddPersistent(t, j) PROVE LifeInv'
  <2>1. PICK c : /\ c = [NoCall EXCEPT !.op = "addPersistent", !.job = j]
                 /\ CreateWorker(t, c) \/ PlacePersistent(t, c)
                 /\ UNCHANGED <<countVars, phase>>
    BY <1>6 DEF ThreadPoolAddPersistent
  <2>2. c.op = "addPersistent" /\ c.job = j /\ c \in Call
    <3>1. [NoCall EXCEPT !.op = "addPersistent", !.job = j].op = "addPersistent"
      BY DEF NoCall
    <3>2. [NoCall EXCEPT !.op = "addPersistent", !.job = j].job = j
      BY DEF NoCall
    <3>3. [NoCall EXCEPT !.op = "addPersistent", !.job = j] \in Call
      BY AddPersistentCallType
    <3> QED
      BY <2>1, <3>1, <3>2, <3>3
  <2>3. CASE CreateWorker(t, c)
    <3>1. PICK d : CallStep(t, d) /\ d.op = c.op /\ d.job = c.job /\ d.at \in {"create", "start"}
      BY <1>1, <2>2, <2>3, CreateWorkerCall
    <3> QED
      BY <1>4, <1>6, <2>1, <2>2, <3>1
  <2>4. CASE PlacePersistent(t, c)
    <3>1. PICK d : CallStep(t, d) /\ d.op = c.op /\ d.job = c.job /\ d.at = "pickup"
      BY <1>1, <2>2, <2>4, PlacePersistentCall
    <3> QED
      BY <1>4, <1>6, <2>1, <2>2, <3>1
  <2> QED
    BY <2>1, <2>3, <2>4
<1> QED
  BY <1>5, <1>6

LEMMA InitLifeInv == Init => LifeInv
<1> SUFFICES ASSUME Init PROVE LifeInv
  OBVIOUS
<1>1. Owner \in Clients /\ Owner \notin Workers /\ Owner \in Callers /\ MinThreads \in Nat \ {0}
  BY ThreadPoolAssumption DEF Callers
<1>2. PICK d : d = [NoCall EXCEPT !.op = "init", !.at = "create"]
  OBVIOUS
<1>3. d.op = "init" /\ d.at = "create" /\ d.threads = 0
  <2>1. [NoCall EXCEPT !.op = "init", !.at = "create"].op = "init"
    BY DEF NoCall
  <2>2. [NoCall EXCEPT !.op = "init", !.at = "create"].at = "create"
    BY DEF NoCall
  <2>3. [NoCall EXCEPT !.op = "init", !.at = "create"].threads = 0
    BY DEF NoCall
  <2> QED
    BY <1>2, <2>1, <2>2, <2>3
<1>4. call[Owner] = d /\ \A t \in Callers \ {Owner} : call[t] = NoCall
  BY <1>1, <1>2 DEF Init
<1>5. d # NoCall
  BY <1>3, NoCallParts
<1>6. CallsPlaced
  <2>1. CallPlace(Owner, d)
    BY <1>1, <1>3, <1>5 DEF Init, CallPlace
  <2>2. \A t : CallPlace(t, NoCall)
    BY NoCallParts DEF Init, CallPlace
  <2> QED
    BY <1>4, <2>1, <2>2 DEF CallsPlaced
<1>7. StartupInv
  <2>1. TotalJobs = 0
    <3>1. Len(<<>>) = 0
      OBVIOUS
    <3>2. Len(queue["high"]) = 0 /\ Len(queue["med"]) = 0 /\ Len(queue["low"]) = 0
      BY <3>1 DEF Init, Priorities
    <3> QED
      BY <3>2 DEF TotalJobs
  <2>2. 0 \in 0..(MinThreads - 1)
    BY <1>1
  <2> QED
    BY <1>3, <1>4, <2>1, <2>2 DEF Init, StartupInv
<1> QED
  BY <1>6, <1>7 DEF Init, LifeInv, StarterInv, MinimumKept, DrainInv, CleanDestroy

LEMMA NextLifeInv == ThreadInv /\ LifeInv /\ [Next]_vars => LifeInv'
<1> SUFFICES ASSUME ThreadInv, LifeInv, [Next]_vars PROVE LifeInv'
  OBVIOUS
<1>0. /\ Submitters \subseteq Callers /\ LongSubmitters \subseteq Callers /\ Removers \subseteq Callers
      /\ LongSubmitters \subseteq Clients /\ Owner \in Callers
  BY ThreadPoolAssumption DEF Callers
<1>1. CASE UNCHANGED <<threadVars, call, sleepers, queue, persistentJob, countVars, pending, phase>>
  <2>1. UNCHANGED <<thread, call, sleepers, queue, persistentJob, totalThreads, pending, phase>>
    BY <1>1 DEF threadVars, countVars
  <2>2. TotalJobs' = TotalJobs
    BY <2>1 DEF TotalJobs
  <2>3. CallsPlaced'
    BY <2>1 DEF LifeInv, CallsPlaced, CallPlace
  <2> QED
    BY <2>1, <2>2, <2>3 DEF LifeInv, StarterInv, StartupInv, MinimumKept, DrainInv, CleanDestroy, Exists
<1>2. Tick \/ UNCHANGED vars =>
        UNCHANGED <<threadVars, call, sleepers, queue, persistentJob, countVars, pending, phase>>
  BY DEF Tick, vars, queueVars
<1>3. ASSUME NEW t \in Removers, NEW id, ThreadPoolRemove(t, id) PROVE LifeInv'
  <2>1. MayCall(t) /\ UNCHANGED <<threadVars, call, sleepers, countVars, pending, phase>>
    BY <1>3 DEF ThreadPoolRemove
  <2>2. phase # "init"
    BY <1>0, <2>1, MayCallPhase DEF ThreadInv
  <2>3. UNCHANGED <<thread, call, sleepers, totalThreads, pending, phase>>
    BY <2>1 DEF threadVars, countVars
  <2>4. CallsPlaced'
    BY <2>3 DEF LifeInv, CallsPlaced, CallPlace
  <2> QED
    BY <2>2, <2>3, <2>4 DEF LifeInv, StarterInv, StartupInv, MinimumKept, DrainInv, CleanDestroy, Exists
<1>4. CASE ThreadPoolShutdown
  <2>1. /\ MayCall(Owner) /\ \A t \in Clients : call[t] = NoCall
        /\ BeginShutdown(Owner) /\ totalThreads' = totalThreads
    BY <1>4 DEF ThreadPoolShutdown, countVars
  <2>2. phase = "up" /\ Owner \notin sleepers /\ call[Owner] = NoCall
    BY <1>0, <2>1, ThreadPoolAssumption, MayCallPhase DEF ThreadInv
  <2> QED
    BY <2>1, <2>2, ShutdownLife
<1>5. ASSUME NEW w \in Workers, Worker(w) \/ WorkerTimesOut(w) \/ JobReturns(w) PROVE LifeInv'
  BY <1>5, WorkerLifeInv
<1>6. ASSUME NEW t \in Callers, Resume(t) PROVE LifeInv'
  BY <1>6, ResumeLife
<1>7. ASSUME NEW t \in Submitters, NEW j \in ShortJobs, ThreadPoolAdd(t, j) PROVE LifeInv'
  BY <1>0, <1>7, ApiLife
<1>8. ASSUME NEW t \in LongSubmitters, NEW j \in LongJobs, ThreadPoolAddPersistent(t, j) PROVE LifeInv'
  BY <1>0, <1>8, ApiLife
<1> QED
  BY <1>1, <1>2, <1>3, <1>4, <1>5, <1>6, <1>7, <1>8 DEF Next

(* While the pool is in service it keeps minThreads threads, and            *)
(* ThreadPoolShutdown destroys its locks only when no thread is left and    *)
(* nobody is in a call.                                                     *)
THEOREM SpecThreadsKept == Spec => []ThreadsKept
<1>1. LifeInv => ThreadsKept
  BY DEF LifeInv, ThreadsKept
<1> QED
  BY <1>1, InitLifeInv, NextLifeInv, SpecThreadInv, PTL DEF Spec

-------------------------------------------------------------------------------
(* Nobody sleeps for what has happened                                      *)

(* What a caller that sleeps in call c still waits for.                     *)
Waits(c) ==
    /\ c.at \in {"create", "start"} => pending
    /\ c.at = "pickup" => persistentJob # NoJob
    /\ c.at = "drain" => totalThreads > 0

LEMMA CallerWaits ==
    ASSUME ThreadInv, LifeInv, NoLostWakeup, NEW t \in Callers, NEW d,
           call' = [call EXCEPT ![t] = d], sleepers' \subseteq sleepers \cup {t},
           pending => pending', totalThreads' = totalThreads,
           \/ persistentJob' # NoJob \/ persistentJob' = persistentJob
           \/ \A u \in Clients \ {t} : call[u] = NoCall,
           t \in sleepers' => Waits(d)'
    PROVE  NoLostWakeup'
<1>1. call'[t] = d /\ \A u \in Callers \ {t} : call'[u] = call[u]
  BY DEF ThreadInv, TypeOK
<1>2. sleepers' \subseteq Callers
  BY DEF ThreadInv, TypeOK
<1>3. ASSUME NEW u \in sleepers', u # t
      PROVE  Waits(call[u])'
  <2>1. u \in sleepers /\ u \in Callers /\ call'[u] = call[u] /\ Waits(call[u])
    BY <1>1, <1>2, <1>3 DEF NoLostWakeup, Waits
  <2>2. call[u].at = "pickup" => u \in Clients /\ call[u] # NoCall
    BY <2>1, NoCallParts DEF LifeInv, CallsPlaced, CallPlace
  <2> QED
    BY <1>3, <2>1, <2>2 DEF Waits
<1>4. t \in sleepers' => Waits(call[t])'
  BY <1>1 DEF Waits
<1>5. \A u \in sleepers' : Waits(call[u])'
  BY <1>3, <1>4
<1> QED
  BY <1>5 DEF NoLostWakeup, Waits

LEMMA WorkerWakes ==
    ASSUME NoLostWakeup, NEW w \in Workers, Worker(w) \/ WorkerTimesOut(w) \/ JobReturns(w)
    PROVE  NoLostWakeup'
<1>1. CASE sleepers' = {}
  BY <1>1 DEF NoLostWakeup
<1>2. CASE UNCHANGED <<sleepers, call, pending, persistentJob, totalThreads>>
  BY <1>2 DEF NoLostWakeup
<1>3. CASE WorkerStarts(w) \/ WorkerExits(w) \/ WorkerTakesPersistent(w)
  BY <1>1, <1>3 DEF WorkerStarts, WorkerExits, WorkerTakesPersistent
<1>4. CASE WorkerWaits(w)
  BY <1>2, <1>4 DEF WorkerWaits, queueVars
<1>5. CASE WorkerTakesJob(w)
  BY <1>2, <1>5 DEF WorkerTakesJob, Takes
<1>6. CASE WorkerTimesOut(w) \/ JobReturns(w)
  BY <1>2, <1>6 DEF WorkerTimesOut, JobReturns, queueVars, countVars
<1> QED
  BY <1>3, <1>4, <1>5, <1>6 DEF Worker

(* The parts of the calls that end in a wait or a return.                   *)
LEMMA CreateWorkerWaits ==
    ASSUME ThreadInv, LifeInv, NoLostWakeup, NEW t \in Callers, NEW c \in Call, CreateWorker(t, c),
           UNCHANGED <<persistentJob, totalThreads>>
    PROVE  NoLostWakeup'
<1>1. PICK d : /\ CallStep(t, d)
               /\ \/ pending /\ pending' = pending /\ d.at = "create"
                  \/ ~pending /\ pending' = TRUE /\ d.at = "start"
  BY CreateWorkerCall DEF ThreadInv
<1>2. Waits(d)'
  BY <1>1 DEF Waits
<1> QED
  BY <1>1, <1>2, CallerWaits DEF CallStep

LEMMA ReturnWaits ==
    ASSUME ThreadInv, LifeInv, NoLostWakeup, NEW t \in Callers, t \notin sleepers, Return(t),
           UNCHANGED <<persistentJob, totalThreads, pending>>
    PROVE  NoLostWakeup'
  BY CallerWaits DEF Return

LEMMA PlacePersistentWaits ==
    ASSUME ThreadInv, LifeInv, NoLostWakeup, NEW t \in Callers, NEW c \in Call, c.job \in LongJobs,
           PlacePersistent(t, c), UNCHANGED totalThreads
    PROVE  NoLostWakeup'
<1>1. persistentJob' # NoJob /\ pending' = pending
  BY ThreadPoolAssumption DEF PlacePersistent, Jobs
<1>2. PICK d : CallStep(t, d) /\ d.at = "pickup"
  BY PlacePersistentCall DEF ThreadInv
<1>3. Waits(d)'
  BY <1>1, <1>2 DEF Waits
<1> QED
  BY <1>1, <1>2, <1>3, CallerWaits DEF CallStep

LEMMA ShutdownWaits ==
    ASSUME ThreadInv, LifeInv, NoLostWakeup, BeginShutdown(Owner), Owner \notin sleepers,
           UNCHANGED totalThreads, \A t \in Clients \ {Owner} : call[t] = NoCall
    PROVE  NoLostWakeup'
<1>1. Owner \in Callers /\ pending' = pending
  BY ThreadPoolAssumption DEF Callers, BeginShutdown
<1>2. CASE totalThreads > 0
  <2>1. PICK d : d = [NoCall EXCEPT !.op = "shutdown", !.at = "drain"]
    OBVIOUS
  <2>2. d.at = "drain"
    <3>1. [NoCall EXCEPT !.op = "shutdown", !.at = "drain"].at = "drain"
      BY DEF NoCall
    <3> QED
      BY <2>1, <3>1
  <2>3. Sleep(Owner, d)
    BY <1>2, <2>1 DEF BeginShutdown
  <2>4. Waits(d)'
    BY <1>2, <2>2 DEF Waits
  <2> QED
    BY <1>1, <2>3, <2>4, CallerWaits DEF Sleep
<1>3. CASE ~(totalThreads > 0)
  <2>1. Return(Owner)
    BY <1>3 DEF BeginShutdown
  <2> QED
    BY <1>1, <2>1, CallerWaits DEF Return
<1> QED
  BY <1>2, <1>3

LEMMA ResumeWaits ==
    ASSUME ThreadInv, LifeInv, NoLostWakeup, NEW t \in Callers, Resume(t)
    PROVE  NoLostWakeup'
<1>1. PICK c : c = call[t]
  OBVIOUS
<1>2. TypeOK /\ c \in Call /\ CallPlace(t, c) /\ t \notin sleepers
  BY <1>1 DEF ThreadInv, TypeOK, LifeInv, CallsPlaced, Resume, ResumeCreate, ResumeStart,
              ResumePickup, ResumeDrain, Awake
<1>3. ASSUME NEW d, d = c, Sleep(t, d), Waits(c)', UNCHANGED <<persistentJob, totalThreads, pending>>
      PROVE  NoLostWakeup'
  BY <1>3, CallerWaits DEF Sleep
<1>4. ASSUME NEW ok \in BOOLEAN, Continue(t, c, ok), UNCHANGED countVars, ~pending
      PROVE  NoLostWakeup'
  <2>1. totalThreads' = totalThreads
    BY <1>4 DEF countVars
  <2>2. CASE /\ c.op = "init"
             /\ IF ok THEN InitWorkers(t, [c EXCEPT !.threads = @ + 1]) ELSE BeginShutdown(t)
    <3>1. t = Owner /\ phase = "init"
      BY <1>2, <2>2 DEF CallPlace
    <3>2. \A u \in Clients \ {Owner} : call[u] = NoCall
      BY <3>1 DEF LifeInv, StartupInv, Callers
    <3>3. CASE BeginShutdown(t)
      BY <1>2, <2>1, <3>1, <3>2, <3>3, ShutdownWaits
    <3>4. PICK d : d = [c EXCEPT !.threads = @ + 1]
      OBVIOUS
    <3>5. d \in Call
      BY <1>2, <3>4, CallAt
    <3>6. CASE CreateWorker(t, d) /\ UNCHANGED queueVars
      BY <2>1, <3>5, <3>6, CreateWorkerWaits DEF queueVars
    <3>7. CASE Return(t) /\ UNCHANGED <<thread, queueVars, pending>>
      BY <1>2, <2>1, <3>7, ReturnWaits DEF queueVars
    <3> QED
      BY <2>2, <3>3, <3>4, <3>6, <3>7 DEF InitWorkers
  <2>3. CASE /\ c.op = "add"
             /\ IF ok THEN AddWorker(t, CountThread(c)) ELSE FinishAdd(t, c)
             /\ UNCHANGED <<queueVars, phase, jobId>>
    <3>1. PICK e : e \in Call /\ (CreateWorker(t, e) \/ FinishAdd(t, e))
      <4>1. CountThread(c) \in Call
        BY <1>2, CallAt
      <4> QED
        BY <1>2, <2>3, <4>1 DEF AddWorker
    <3>2. persistentJob' = persistentJob
      BY <2>3 DEF queueVars
    <3> QED
      BY <1>2, <2>1, <3>1, <3>2, CreateWorkerWaits, ReturnWaits DEF FinishAdd
  <2>4. CASE c.op = "addPersistent" /\ PlacePersistent(t, c)
    BY <1>2, <2>1, <2>4, PlacePersistentWaits DEF CallPlace
  <2> QED
    BY <1>4, <2>2, <2>3, <2>4 DEF Continue
<1>5. CASE ResumeCreate(t)
  <2>1. CASE CreateWorker(t, c) /\ UNCHANGED <<queueVars, phase, idVars>>
    BY <1>2, <1>5, <2>1, CreateWorkerWaits DEF ResumeCreate, queueVars, countVars
  <2>2. CASE CreateFails /\ Continue(t, c, FALSE)
    BY <1>4, <1>5, <2>2 DEF ResumeCreate, CreateFails
  <2> QED
    BY <1>1, <1>5, <2>1, <2>2 DEF ResumeCreate
<1>6. CASE ResumeStart(t)
  <2>1. c.at = "start" /\ UNCHANGED countVars
    BY <1>1, <1>6 DEF ResumeStart, Awake
  <2>2. CASE pending /\ Sleep(t, c) /\ UNCHANGED <<thread, pending, queueVars, phase, idVars>>
    <3>1. Waits(c)'
      BY <2>1, <2>2 DEF Waits
    <3> QED
      BY <1>3, <2>1, <2>2, <3>1 DEF queueVars, countVars
  <2>3. CASE ~pending /\ Continue(t, c, TRUE)
    BY <1>4, <2>1, <2>3
  <2> QED
    BY <1>1, <1>6, <2>2, <2>3 DEF ResumeStart
<1>7. CASE ResumePickup(t)
  <2>1. /\ c.at = "pickup" /\ UNCHANGED <<persistentJob, totalThreads, pending>>
        /\ (persistentJob # NoJob /\ Sleep(t, c)) \/ Return(t)
    BY <1>1, <1>7 DEF ResumePickup, Awake, queueVars, countVars
  <2>2. CASE persistentJob # NoJob /\ Sleep(t, c)
    <3>1. Waits(c)'
      BY <2>1, <2>2 DEF Waits
    <3> QED
      BY <1>3, <2>1, <2>2, <3>1
  <2> QED
    BY <1>2, <2>1, <2>2, ReturnWaits
<1>8. CASE ResumeDrain(t)
  <2>1. /\ c.at = "drain" /\ UNCHANGED <<queueVars, countVars, pending>>
        /\ (totalThreads > 0 /\ Sleep(t, c)) \/ Return(t)
    BY <1>1, <1>8 DEF ResumeDrain, Awake
  <2>2. UNCHANGED <<persistentJob, totalThreads, pending>>
    BY <2>1 DEF queueVars, countVars
  <2>3. CASE totalThreads > 0 /\ Sleep(t, c)
    <3>1. Waits(c)'
      BY <2>1, <2>2, <2>3 DEF Waits
    <3> QED
      BY <1>3, <2>2, <2>3, <3>1
  <2> QED
    BY <1>2, <2>1, <2>2, <2>3, ReturnWaits
<1> QED
  BY <1>5, <1>6, <1>7, <1>8 DEF Resume

LEMMA ApiWaits ==
    ASSUME ThreadInv, LifeInv, NoLostWakeup, NEW t \in Callers,
           \/ \E j \in ShortJobs : ThreadPoolAdd(t, j)
           \/ \E j \in LongJobs : ThreadPoolAddPersistent(t, j)
    PROVE  NoLostWakeup'
<1>1. TypeOK /\ t \notin sleepers
  BY MayCallPhase DEF ThreadInv, ThreadPoolAdd, ThreadPoolAddPersistent
<1>2. ASSUME NEW j \in ShortJobs, ThreadPoolAdd(t, j) PROVE NoLostWakeup'
  <2>1. PICK c : /\ c = [op |-> "add", at |-> "none", job |-> j, jobs |-> TotalJobs + 1,
                         threads |-> totalThreads - persistentThreads]
                 /\ CreateWorker(t, c) \/ FinishAdd(t, c)
                 /\ UNCHANGED <<persistentJob, countVars>>
    BY <1>2 DEF ThreadPoolAdd, AddWorker
  <2>2. totalThreads' = totalThreads
    BY <2>1 DEF countVars
  <2>3. c \in Call
    BY <1>1, <2>1, AddCallType
  <2> QED
    BY <1>1, <2>1, <2>2, <2>3, CreateWorkerWaits, ReturnWaits DEF FinishAdd
<1>3. ASSUME NEW j \in LongJobs, ThreadPoolAddPersistent(t, j) PROVE NoLostWakeup'
  <2>1. PICK c : /\ c = [NoCall EXCEPT !.op = "addPersistent", !.job = j]
                 /\ (CreateWorker(t, c) /\ UNCHANGED persistentJob) \/ PlacePersistent(t, c)
                 /\ UNCHANGED countVars
    BY <1>3 DEF ThreadPoolAddPersistent
  <2>2. c \in Call /\ c.job = j /\ totalThreads' = totalThreads
    BY <2>1, AddPersistentCallType DEF countVars
  <2> QED
    BY <2>1, <2>2, CreateWorkerWaits, PlacePersistentWaits
<1> QED
  BY <1>2, <1>3

(* Each change that ends a wait on start_and_shutdown is followed by a      *)
(* broadcast.  ThreadPoolRemove is left out, as libupnp leaves it out: it   *)
(* can empty the slot and wakes nobody.                                     *)
THEOREM SpecNoLostWakeup == Removers = {} => (Spec => []NoLostWakeup)
<1> SUFFICES ASSUME Removers = {} PROVE Spec => []NoLostWakeup
  OBVIOUS
<1>1. Init => NoLostWakeup
  BY DEF Init, NoLostWakeup
<1>2. ASSUME ThreadInv, LifeInv, NoLostWakeup, [Next]_vars PROVE NoLostWakeup'
  <2>0. Submitters \subseteq Callers /\ LongSubmitters \subseteq Callers /\ Owner \in Callers
    BY ThreadPoolAssumption DEF Callers
  <2>1. CASE UNCHANGED <<sleepers, call, pending, persistentJob, totalThreads>>
    BY <1>2, <2>1 DEF NoLostWakeup
  <2>2. Tick \/ UNCHANGED vars => UNCHANGED <<sleepers, call, pending, persistentJob, totalThreads>>
    BY DEF Tick, vars, queueVars, countVars
  <2>3. CASE ThreadPoolShutdown
    <3>1. /\ MayCall(Owner) /\ \A t \in Clients : call[t] = NoCall
          /\ BeginShutdown(Owner) /\ totalThreads' = totalThreads
      BY <2>3 DEF ThreadPoolShutdown, countVars
    <3>2. Owner \notin sleepers
      BY <1>2, <2>0, <3>1, MayCallPhase DEF ThreadInv
    <3> QED
      BY <1>2, <3>1, <3>2, ShutdownWaits
  <2> QED
    BY <1>2, <2>0, <2>1, <2>2, <2>3, WorkerWakes, ResumeWaits, ApiWaits DEF Next
<1> QED
  BY <1>1, <1>2, InitLifeInv, NextLifeInv, SpecThreadInv, PTL DEF Spec

-------------------------------------------------------------------------------
(* The jobs in a queue                                                      *)

Elements(s)  == {s[i] : i \in 1..Len(s)}
NoRepeats(s) == \A i, k \in 1..Len(s) : s[i] = s[k] => i = k

(* Splitting a queue shares out its jobs.                                   *)
LEMMA SplitElements ==
    ASSUME NEW q \in Seq(Jobs), NEW n \in 0..Len(q)
    PROVE  /\ Elements(q) = Elements(Front(q, n)) \cup Elements(Rest(q, n))
           /\ NoRepeats(q) => /\ NoRepeats(Front(q, n)) /\ NoRepeats(Rest(q, n))
                              /\ Elements(Front(q, n)) \cap Elements(Rest(q, n)) = {}
<1> DEFINE f == Front(q, n)
           r == Rest(q, n)
<1>1. n \in Int /\ n + 1 \in Int /\ Len(q) \in Nat /\ n <= Len(q) /\ 0 <= n
  OBVIOUS
<1>2. Len(f) = n /\ Len(r) = Len(q) - n
  BY SplitQueue
<1>3. \A i \in 1..n : f[i] = q[i]
  <2>1. \A i \in 1..n : q[i] \in Jobs
    BY <1>1
  <2>2. \A i \in 1..(n - 1 + 1) : f[i] = q[1 + i - 1]
    BY <1>1, <2>1, SubSeqProperties DEF Front
  <2> QED
    BY <1>1, <2>2
<1>4. \A i \in 1..(Len(q) - n) : r[i] = q[n + i]
  <2>1. \A i \in (n + 1)..Len(q) : q[i] \in Jobs
    BY <1>1
  <2>2. \A i \in 1..(Len(q) - (n + 1) + 1) : r[i] = q[n + 1 + i - 1]
    BY <1>1, <2>1, SubSeqProperties DEF Rest
  <2> QED
    BY <1>1, <2>2
<1> HIDE DEF f, r
<1>5. \A i \in 1..Len(q) : i \in 1..n \/ (i - n \in 1..(Len(q) - n) /\ q[i] = r[i - n])
  BY <1>1, <1>4
<1>6. Elements(q) = Elements(f) \cup Elements(r)
  <2>1. Elements(f) = {f[i] : i \in 1..n} /\ Elements(r) = {r[i] : i \in 1..(Len(q) - n)}
    BY <1>2 DEF Elements
  <2>2. ASSUME NEW x \in Elements(q) PROVE x \in Elements(f) \cup Elements(r)
    BY <1>3, <1>5, <2>1 DEF Elements
  <2>3. ASSUME NEW i \in 1..n PROVE f[i] \in Elements(q)
    BY <1>1, <1>3 DEF Elements
  <2>4. ASSUME NEW i \in 1..(Len(q) - n) PROVE r[i] \in Elements(q)
    <3>1. n + i \in 1..Len(q)
      BY <1>1
    <3> QED
      BY <1>4, <3>1 DEF Elements
  <2> QED
    BY <2>1, <2>2, <2>3, <2>4
<1>7. ASSUME NoRepeats(q)
      PROVE  NoRepeats(f) /\ NoRepeats(r) /\ Elements(f) \cap Elements(r) = {}
  <2>1. NoRepeats(f)
    BY <1>1, <1>2, <1>3, <1>7 DEF NoRepeats
  <2>2. NoRepeats(r)
    BY <1>1, <1>2, <1>4, <1>7 DEF NoRepeats
  <2>3. ASSUME NEW i \in 1..n, NEW k \in 1..(Len(q) - n) PROVE f[i] # r[k]
    <3>1. i \in 1..Len(q) /\ n + k \in 1..Len(q) /\ i # n + k
      BY <1>1
    <3> QED
      BY <1>3, <1>4, <1>7, <3>1 DEF NoRepeats
  <2> QED
    BY <1>2, <2>1, <2>2, <2>3 DEF Elements
<1> QED
  BY <1>6, <1>7 DEF f, r

(* Joining two queues joins their jobs.                                     *)
LEMMA JoinElements ==
    ASSUME NEW s \in Seq(Jobs), NEW t \in Seq(Jobs)
    PROVE  /\ Elements(s \o t) = Elements(s) \cup Elements(t)
           /\ NoRepeats(s) /\ NoRepeats(t) /\ Elements(s) \cap Elements(t) = {} => NoRepeats(s \o t)
<1> DEFINE u == s \o t
           a == Len(s)
           b == Len(t)
<1>1. a \in Nat /\ b \in Nat
  OBVIOUS
<1>2. Len(u) = a + b /\ \A i \in 1..(a + b) : u[i] = IF i <= a THEN s[i] ELSE t[i - a]
  BY ConcatProperties
<1> HIDE DEF u
<1>3. \A i \in 1..a : i \in 1..(a + b) /\ u[i] = s[i]
  BY <1>1, <1>2
<1>4. \A i \in 1..b : a + i \in 1..(a + b) /\ u[a + i] = t[i]
  <2>1. ASSUME NEW i \in 1..b PROVE a + i \in 1..(a + b) /\ ~(a + i <= a) /\ a + i - a = i
    BY <1>1
  <2> QED
    BY <1>2, <2>1
<1>5. \A i \in 1..(a + b) : i \in 1..a \/ (i - a \in 1..b /\ u[i] = t[i - a])
  BY <1>1, <1>2
<1> HIDE DEF a, b
<1>6. \A x : x \in Elements(u) <=> x \in Elements(s) \cup Elements(t)
  <2>1. /\ Elements(u) = {u[i] : i \in 1..(a + b)}
        /\ Elements(s) = {s[i] : i \in 1..a}
        /\ Elements(t) = {t[i] : i \in 1..b}
    BY <1>2 DEF Elements, a, b
  <2>2. \A x : x \in Elements(u) => x \in Elements(s) \cup Elements(t)
    BY <1>3, <1>5, <2>1
  <2>3. \A x : x \in Elements(s) \cup Elements(t) => x \in Elements(u)
    BY <1>3, <1>4, <2>1
  <2> QED
    BY <2>2, <2>3
<1>7. ASSUME NoRepeats(s), NoRepeats(t), Elements(s) \cap Elements(t) = {}
      PROVE  NoRepeats(u)
  <2>1. \A i \in 1..a, k \in 1..b : s[i] # t[k]
    BY <1>7 DEF Elements, a, b
  <2>2. ASSUME NEW i \in 1..(a + b), NEW k \in 1..(a + b), u[i] = u[k] PROVE i = k
    <3>1. CASE i \in 1..a /\ k \in 1..a
      BY <1>3, <1>7, <2>2, <3>1 DEF NoRepeats, a
    <3>2. CASE i \notin 1..a /\ k \notin 1..a
      <4>1. i - a = k - a
        BY <1>5, <1>7, <2>2, <3>2 DEF NoRepeats, b
      <4> QED
        BY <1>1, <4>1
    <3>3. CASE i \in 1..a /\ k \notin 1..a
      BY <1>3, <1>5, <2>1, <2>2, <3>3
    <3>4. CASE i \notin 1..a /\ k \in 1..a
      BY <1>3, <1>5, <2>1, <2>2, <3>4
    <3> QED
      BY <3>1, <3>2, <3>3, <3>4
  <2> QED
    BY <1>2, <2>2 DEF NoRepeats
<1> QED
  BY <1>6, <1>7 DEF u

(* What ListAddTail, the removal of the head and ListDelNode do to the jobs *)
(* of a queue.                                                              *)
LEMMA AppendElements ==
    ASSUME NEW q \in Seq(Jobs), NEW j \in Jobs
    PROVE  /\ Elements(Append(q, j)) = Elements(q) \cup {j}
           /\ NoRepeats(q) /\ j \notin Elements(q) => NoRepeats(Append(q, j))
<1>1. <<j>> \in Seq(Jobs) /\ Elements(<<j>>) = {j} /\ NoRepeats(<<j>>)
  <2>1. <<j>> \in Seq(Jobs) /\ Len(<<j>>) = 1 /\ <<j>>[1] = j
    OBVIOUS
  <2>2. 1..1 = {1}
    OBVIOUS
  <2> QED
    BY <2>1, <2>2 DEF Elements, NoRepeats
<1>2. Append(q, j) = q \o <<j>>
  BY AppendIsConcat
<1>3. /\ Elements(q \o <<j>>) = Elements(q) \cup Elements(<<j>>)
      /\ NoRepeats(q) /\ NoRepeats(<<j>>) /\ Elements(q) \cap Elements(<<j>>) = {}
           => NoRepeats(q \o <<j>>)
  BY <1>1, JoinElements, Zenon
<1>4. j \notin Elements(q) => Elements(q) \cap {j} = {}
  OBVIOUS
<1> QED
  BY <1>1, <1>2, <1>3, <1>4, Zenon

LEMMA CutElements ==
    ASSUME NEW q \in Seq(Jobs), NEW i \in 1..Len(q), NoRepeats(q)
    PROVE  /\ Front(q, i - 1) \o Rest(q, i) \in Seq(Jobs)
           /\ Elements(Front(q, i - 1) \o Rest(q, i)) = Elements(q) \ {q[i]}
           /\ NoRepeats(Front(q, i - 1) \o Rest(q, i))
           /\ q[i] \in Elements(q)
<1> DEFINE f == Front(q, i - 1)
           r == Rest(q, i)
<1>1. i - 1 \in 0..Len(q) /\ i \in 0..Len(q) /\ Len(q) \in Nat
  OBVIOUS
<1>2. f \in Seq(Jobs) /\ r \in Seq(Jobs) /\ Len(f) = i - 1 /\ Len(r) = Len(q) - i
  BY <1>1, SplitQueue
<1>3. \A k \in 1..(i - 1) : f[k] = q[k]
  <2>1. \A k \in 1..(i - 1) : q[k] \in Jobs
    BY <1>1
  <2>2. \A k \in 1..(i - 1 - 1 + 1) : f[k] = q[1 + k - 1]
    BY <1>1, <2>1, SubSeqProperties DEF Front
  <2> QED
    BY <1>1, <2>2
<1>4. \A k \in 1..(Len(q) - i) : r[k] = q[i + k]
  <2>1. \A k \in (i + 1)..Len(q) : q[k] \in Jobs
    BY <1>1
  <2>2. \A k \in 1..(Len(q) - (i + 1) + 1) : r[k] = q[i + 1 + k - 1]
    BY <1>1, <2>1, SubSeqProperties DEF Rest
  <2> QED
    BY <1>1, <2>2
<1> HIDE DEF f, r
<1>5. \A k \in 1..Len(q) : k \in 1..(i - 1) \/ k = i \/ (k - i \in 1..(Len(q) - i) /\ q[k] = r[k - i])
  BY <1>1, <1>4
<1>6. \A k \in 1..(i - 1) : k \in 1..Len(q) /\ k # i
  BY <1>1
<1>7. \A k \in 1..(Len(q) - i) : i + k \in 1..Len(q) /\ i + k # i
  BY <1>1
<1>8. Elements(f) \cup Elements(r) = Elements(q) \ {q[i]}
  <2>1. Elements(f) = {f[k] : k \in 1..(i - 1)} /\ Elements(r) = {r[k] : k \in 1..(Len(q) - i)}
    BY <1>2 DEF Elements
  <2>2. ASSUME NEW x \in Elements(q), x # q[i] PROVE x \in Elements(f) \cup Elements(r)
    BY <1>3, <1>5, <2>1, <2>2 DEF Elements
  <2>3. ASSUME NEW k \in 1..(i - 1) PROVE f[k] \in Elements(q) /\ f[k] # q[i]
    BY <1>3, <1>6 DEF Elements, NoRepeats
  <2>4. ASSUME NEW k \in 1..(Len(q) - i) PROVE r[k] \in Elements(q) /\ r[k] # q[i]
    BY <1>4, <1>7 DEF Elements, NoRepeats
  <2> QED
    BY <2>1, <2>2, <2>3, <2>4
<1>9. NoRepeats(f)
  BY <1>2, <1>3, <1>6 DEF NoRepeats
<1>10. NoRepeats(r)
  BY <1>1, <1>2, <1>4, SMTT(30) DEF NoRepeats
<1>11. Elements(f) \cap Elements(r) = {}
  <2>1. ASSUME NEW k \in 1..(i - 1), NEW m \in 1..(Len(q) - i) PROVE f[k] # r[m]
    <3>1. k \in 1..Len(q) /\ i + m \in 1..Len(q) /\ k # i + m
      BY <1>1
    <3> QED
      BY <1>3, <1>4, <3>1 DEF NoRepeats
  <2> QED
    BY <1>2, <2>1 DEF Elements
<1>12. f \o r \in Seq(Jobs)
  BY <1>2, ConcatProperties, Zenon
<1>13. Elements(f \o r) = Elements(f) \cup Elements(r) /\ NoRepeats(f \o r)
  BY <1>2, <1>9, <1>10, <1>11, JoinElements
<1>14. q[i] \in Elements(q)
  BY DEF Elements
<1> QED
  BY <1>8, <1>12, <1>13, <1>14 DEF f, r

LEMMA HeadElements ==
    ASSUME NEW q \in Seq(Jobs), q # <<>>, NoRepeats(q)
    PROVE  /\ Head(q) \in Elements(q)
           /\ Elements(Tail(q)) = Elements(q) \ {Head(q)}
           /\ NoRepeats(Tail(q))
<1> DEFINE t == Tail(q)
           n == Len(q)
<1>1. n \in Nat \ {0} /\ 1 \in 1..n
  BY EmptySeq
<1>2. Len(t) = n - 1 /\ Head(q) = q[1] /\ \A k \in 1..(n - 1) : t[k] = q[k + 1]
  BY <1>1, HeadTailProperties
<1> HIDE DEF t
<1>3. \A k \in 1..n : k = 1 \/ (k - 1 \in 1..(n - 1) /\ q[k] = t[k - 1])
  BY <1>1, <1>2
<1>4. \A k \in 1..(n - 1) : k + 1 \in 1..n /\ k + 1 # 1
  BY <1>1
<1>5. NoRepeats(t)
  BY <1>1, <1>2 DEF NoRepeats
<1>6. Elements(t) = Elements(q) \ {q[1]}
  BY <1>1, <1>2, <1>3, <1>4 DEF Elements, NoRepeats
<1>7. q[1] \in Elements(q)
  BY <1>1 DEF Elements
<1> QED
  BY <1>2, <1>5, <1>6, <1>7 DEF t

-------------------------------------------------------------------------------
(* The jobs in the three queues                                             *)

InQueues(q) == UNION {Elements(q[p]) : p \in Priorities}

EachOnce(q) ==
    /\ \A p \in Priorities : NoRepeats(q[p])
    /\ \A p, r \in Priorities : p # r => Elements(q[p]) \cap Elements(q[r]) = {}

LEMMA QueuedElements ==
    \A j : Queued(j) <=> j \in InQueues(queue)
  BY DEF Queued, InQueues, Elements

(* A job more, or a job less, in one queue.                                 *)
LEMMA QueueGrows ==
    ASSUME NEW q \in [Priorities -> Seq(Jobs)], EachOnce(q),
           NEW p \in Priorities, NEW s, NEW j,
           j \notin InQueues(q), NoRepeats(s), Elements(s) = Elements(q[p]) \cup {j}
    PROVE  EachOnce([q EXCEPT ![p] = s]) /\ InQueues([q EXCEPT ![p] = s]) = InQueues(q) \cup {j}
<1> DEFINE d == [q EXCEPT ![p] = s]
<1>1. d[p] = s /\ \A r \in Priorities \ {p} : d[r] = q[r]
  OBVIOUS
<1> HIDE DEF d
<1>2. \A r \in Priorities : j \notin Elements(q[r])
  BY DEF InQueues
<1>3. EachOnce(d)
  <2>1. \A r \in Priorities : NoRepeats(d[r])
    BY <1>1 DEF EachOnce
  <2>2. \A r \in Priorities \ {p} : Elements(d[r]) \cap Elements(d[p]) = {}
    BY <1>1, <1>2 DEF EachOnce
  <2>3. \A r, o \in Priorities \ {p} : r # o => Elements(d[r]) \cap Elements(d[o]) = {}
    BY <1>1 DEF EachOnce
  <2>4. ASSUME NEW r \in Priorities, NEW o \in Priorities, r # o
        PROVE  Elements(d[r]) \cap Elements(d[o]) = {}
    <3>1. CASE r = p
      BY <2>2, <2>4, <3>1
    <3>2. CASE o = p
      BY <2>2, <2>4, <3>2
    <3> QED
      BY <2>3, <2>4, <3>1, <3>2
  <2> QED
    BY <2>1, <2>4 DEF EachOnce
<1>4. InQueues(d) = InQueues(q) \cup {j}
  <2>1. \A x : x \in InQueues(d) => x \in InQueues(q) \cup {j}
    BY <1>1 DEF InQueues
  <2>2. \A x : x \in InQueues(q) \cup {j} => x \in InQueues(d)
    BY <1>1 DEF InQueues
  <2> QED
    BY <2>1, <2>2
<1> QED
  BY <1>3, <1>4 DEF d

LEMMA QueueShrinks ==
    ASSUME NEW q \in [Priorities -> Seq(Jobs)], EachOnce(q),
           NEW p \in Priorities, NEW s, NEW j \in Elements(q[p]),
           NoRepeats(s), Elements(s) = Elements(q[p]) \ {j}
    PROVE  /\ EachOnce([q EXCEPT ![p] = s])
           /\ InQueues([q EXCEPT ![p] = s]) = InQueues(q) \ {j}
           /\ j \in InQueues(q)
<1> DEFINE d == [q EXCEPT ![p] = s]
<1>1. d[p] = s /\ \A r \in Priorities \ {p} : d[r] = q[r]
  OBVIOUS
<1> HIDE DEF d
<1>2. \A r \in Priorities \ {p} : j \notin Elements(q[r])
  BY DEF EachOnce
<1>3. EachOnce(d)
  <2>1. \A r \in Priorities : NoRepeats(d[r])
    BY <1>1 DEF EachOnce
  <2>2. \A r \in Priorities \ {p} : Elements(d[r]) \cap Elements(d[p]) = {}
    BY <1>1 DEF EachOnce
  <2>3. \A r, o \in Priorities \ {p} : r # o => Elements(d[r]) \cap Elements(d[o]) = {}
    BY <1>1 DEF EachOnce
  <2>4. ASSUME NEW r \in Priorities, NEW o \in Priorities, r # o
        PROVE  Elements(d[r]) \cap Elements(d[o]) = {}
    <3>1. CASE r = p
      BY <2>2, <2>4, <3>1
    <3>2. CASE o = p
      BY <2>2, <2>4, <3>2
    <3> QED
      BY <2>3, <2>4, <3>1, <3>2
  <2> QED
    BY <2>1, <2>4 DEF EachOnce
<1>4. InQueues(d) = InQueues(q) \ {j}
  <2>1. \A x : x \in InQueues(d) => x \in InQueues(q) \ {j}
    BY <1>1, <1>2 DEF InQueues
  <2>2. \A x : x \in InQueues(q) \ {j} => x \in InQueues(d)
    BY <1>1 DEF InQueues
  <2> QED
    BY <2>1, <2>2
<1>5. j \in InQueues(q)
  BY DEF InQueues
<1> QED
  BY <1>3, <1>4, <1>5 DEF d

(* BumpPriority moves jobs between the queues, loses and repeats none.      *)
LEMMA BumpedElements ==
    ASSUME queue \in [Priorities -> Seq(Jobs)], EachOnce(queue)
    PROVE  EachOnce(Bumped) /\ InQueues(Bumped) = InQueues(queue)
<1> DEFINE m     == AgedPrefix(queue["med"], StarvationTime)
           l     == AgedPrefix(queue["low"], MaxIdleTime)
           first == Front(queue["med"], m)
           med   == Rest(queue["med"], m)
           moved == Front(queue["low"], l)
           low   == Rest(queue["low"], l)
           k     == IF med = <<>> THEN AgedPrefix(moved, StarvationTime) ELSE 0
           on    == Front(moved, k)
           stay  == Rest(moved, k)
           high1 == queue["high"] \o first
           H == Elements(queue["high"])
           M == Elements(queue["med"])
           L == Elements(queue["low"])
<1>1. queue["high"] \in Seq(Jobs) /\ queue["med"] \in Seq(Jobs) /\ queue["low"] \in Seq(Jobs)
  BY DEF Priorities
<1>2. m \in 0..Len(queue["med"]) /\ l \in 0..Len(queue["low"])
  BY <1>1, AgedPrefixBound
<1>3. first \in Seq(Jobs) /\ med \in Seq(Jobs) /\ moved \in Seq(Jobs) /\ low \in Seq(Jobs)
  BY <1>1, <1>2, SplitQueue
<1>4. k \in 0..Len(moved)
  <2>1. AgedPrefix(moved, StarvationTime) \in 0..Len(moved) /\ 0 \in 0..Len(moved)
    BY <1>3, AgedPrefixBound
  <2> QED
    BY <2>1
<1>5. on \in Seq(Jobs) /\ stay \in Seq(Jobs)
  BY <1>3, <1>4, SplitQueue
<1>6. Bumped = [high |-> high1 \o on, med |-> med \o stay, low |-> low]
  BY Zenon DEF Bumped
<1>7. /\ NoRepeats(queue["high"]) /\ NoRepeats(queue["med"]) /\ NoRepeats(queue["low"])
      /\ H \cap M = {} /\ H \cap L = {} /\ M \cap L = {}
  BY DEF EachOnce, Priorities
<1>8. /\ M = Elements(first) \cup Elements(med) /\ NoRepeats(first) /\ NoRepeats(med)
      /\ Elements(first) \cap Elements(med) = {}
  BY <1>1, <1>2, <1>7, SplitElements
<1>9. /\ L = Elements(moved) \cup Elements(low) /\ NoRepeats(moved) /\ NoRepeats(low)
      /\ Elements(moved) \cap Elements(low) = {}
  BY <1>1, <1>2, <1>7, SplitElements
<1>10. /\ Elements(moved) = Elements(on) \cup Elements(stay) /\ NoRepeats(on) /\ NoRepeats(stay)
       /\ Elements(on) \cap Elements(stay) = {}
  BY <1>3, <1>4, <1>9, SplitElements
<1> HIDE DEF m, l, first, med, moved, low, k, on, stay, H, M, L
<1>11. high1 \in Seq(Jobs) /\ Elements(high1) = H \cup Elements(first) /\ NoRepeats(high1)
  <2>1. high1 \in Seq(Jobs)
    BY <1>1, <1>3, ConcatProperties, Zenon
  <2>2. H \cap Elements(first) = {}
    BY <1>7, <1>8
  <2> QED
    BY <1>1, <1>3, <1>7, <1>8, <2>1, <2>2, JoinElements, Zenon DEF H
<1> HIDE DEF high1
<1>12. Elements(high1 \o on) = Elements(high1) \cup Elements(on) /\ NoRepeats(high1 \o on)
  <2>1. Elements(high1) \cap Elements(on) = {}
    BY <1>7, <1>8, <1>9, <1>10, <1>11
  <2> QED
    BY <1>5, <1>10, <1>11, <2>1, JoinElements, Zenon
<1>13. Elements(med \o stay) = Elements(med) \cup Elements(stay) /\ NoRepeats(med \o stay)
  <2>1. Elements(med) \cap Elements(stay) = {}
    BY <1>7, <1>8, <1>9, <1>10
  <2> QED
    BY <1>3, <1>5, <1>8, <1>10, <2>1, JoinElements, Zenon
<1>14. /\ Bumped["high"] = high1 \o on /\ Bumped["med"] = med \o stay /\ Bumped["low"] = low
  BY <1>6
<1>15. EachOnce(Bumped)
  <2>1. \A p \in Priorities : NoRepeats(Bumped[p])
    BY <1>9, <1>12, <1>13, <1>14 DEF Priorities
  <2>2. /\ Elements(Bumped["high"]) \cap Elements(Bumped["med"]) = {}
        /\ Elements(Bumped["high"]) \cap Elements(Bumped["low"]) = {}
        /\ Elements(Bumped["med"]) \cap Elements(Bumped["low"]) = {}
    BY <1>7, <1>8, <1>9, <1>10, <1>11, <1>12, <1>13, <1>14
  <2> QED
    BY <2>1, <2>2 DEF EachOnce, Priorities
<1>16. InQueues(Bumped) = InQueues(queue)
  <2>1. \A q : InQueues(q) = Elements(q["high"]) \cup Elements(q["med"]) \cup Elements(q["low"])
    BY DEF InQueues, Priorities
  <2>2. Elements(Bumped["high"]) \cup Elements(Bumped["med"]) \cup Elements(Bumped["low"]) = H \cup M \cup L
    BY <1>8, <1>9, <1>10, <1>11, <1>12, <1>13, <1>14
  <2> QED
    BY <2>1, <2>2 DEF H, M, L
<1> QED
  BY <1>15, <1>16

(* The job that WorkerThread dequeues after BumpPriority.                   *)
LEMMA DequeuedElements ==
    ASSUME queue \in [Priorities -> Seq(Jobs)], EachOnce(queue), TotalJobs > 0,
           NEW p, p = HighestPriority(Bumped)
    PROVE  LET d == [Bumped EXCEPT ![p] = Tail(@)]
           IN  /\ Head(Bumped[p]) \in InQueues(queue)
               /\ EachOnce(d) /\ InQueues(d) = InQueues(queue) \ {Head(Bumped[p])}
<1>1. /\ Bumped \in [Priorities -> Seq(Jobs)] /\ EachOnce(Bumped) /\ InQueues(Bumped) = InQueues(queue)
      /\ Len(Bumped["high"]) + Len(Bumped["med"]) + Len(Bumped["low"]) > 0
  BY BumpedQueues, BumpedElements
<1>2. p \in Priorities
  BY DEF HighestPriority, Priorities
<1>3. Bumped[p] \in Seq(Jobs) /\ NoRepeats(Bumped[p])
  BY <1>1, <1>2 DEF EachOnce
<1>4. Bumped[p] # <<>>
  <2>1. Len(<<>>) = 0
    OBVIOUS
  <2>2. ~(Bumped["high"] = <<>> /\ Bumped["med"] = <<>> /\ Bumped["low"] = <<>>)
    <3> SUFFICES ASSUME Bumped["high"] = <<>>, Bumped["med"] = <<>>, Bumped["low"] = <<>>
                 PROVE  FALSE
      OBVIOUS
    <3>1. Len(Bumped["high"]) = 0 /\ Len(Bumped["med"]) = 0 /\ Len(Bumped["low"]) = 0
      BY <2>1, Zenon
    <3> QED BY <1>1, <3>1
  <2> QED BY <2>2 DEF HighestPriority
<1>5. /\ Head(Bumped[p]) \in Elements(Bumped[p])
      /\ Elements(Tail(Bumped[p])) = Elements(Bumped[p]) \ {Head(Bumped[p])}
      /\ NoRepeats(Tail(Bumped[p]))
  BY <1>3, <1>4, HeadElements, Zenon
<1> DEFINE d == [Bumped EXCEPT ![p] = Tail(Bumped[p])]
<1>6. EachOnce(d) /\ InQueues(d) = InQueues(Bumped) \ {Head(Bumped[p])} /\ Head(Bumped[p]) \in InQueues(Bumped)
  BY <1>1, <1>2, <1>5, QueueShrinks, ZenonT(60)
<1> QED
  BY <1>1, <1>6

-------------------------------------------------------------------------------
(* The inductive invariant                                                  *)

HeldJobs    == {job[w] : w \in Workers} \ {NoJob}
PendingJobs == InQueues(queue) \cup ({persistentJob} \ {NoJob})

(* A worker holds a job exactly while it runs it or has just run it, and no *)
(* two hold the same.                                                       *)
HoldInv == /\ \A w \in Workers : job[w] # NoJob <=> thread[w] \in {"running", "finished"}
           /\ \A v, w \in Workers : job[v] = job[w] /\ job[v] # NoJob => v = w

QueueInv == EachOnce(queue) /\ InQueues(queue) \subseteq ShortJobs

(* ThreadPoolAddPersistent does not return while its job is in the slot.    *)
SlotInv ==
    /\ persistentJob \in LongJobs \cup {NoJob}
    /\ persistentJob # NoJob =>
         \E t \in LongSubmitters : call[t].op = "addPersistent" /\ call[t].at = "pickup"

ApartInv == HeldJobs \cap PendingJobs = {}

(* Only the owner starts and stops the pool; the job of a call of           *)
(* ThreadPoolAddPersistent is nowhere yet while the call creates a worker.  *)
CallOK(t, c) ==
    /\ c.op = "init" => t = Owner /\ phase = "init"
    /\ c.at = "drain" => t = Owner /\ phase = "shutdown"
    /\ c.op = "addPersistent" =>
         /\ t \in LongSubmitters /\ c.job \in LongJobs
         /\ c.at \in {"create", "start"} => c.job \notin HeldJobs \cup PendingJobs

CallInv == \A t \in Callers : CallOK(t, call[t])

JobInv == HoldInv /\ QueueInv /\ SlotInv /\ ApartInv /\ CallInv

(* ThreadPoolAddPersistent overwrites the slot, so its callers must not     *)
(* overlap: in UpnpInit one thread starts the persistent jobs in turn.      *)
OneSubmitter == \A s, t \in LongSubmitters : s = t

-------------------------------------------------------------------------------
(* The abstract state                                                       *)

JobState == [j \in Jobs |-> IF Running(j) THEN "running"
                            ELSE IF Pending(j) THEN "waiting" ELSE "idle"]
Open == phase \in {"init", "up"}
PoolLimit == IF MaxThreads = INFINITE_THREADS THEN Cardinality(Workers) ELSE MaxThreads

(* Where the jobs are before and after a step.                              *)
LEMMA JobPlaces ==
    ASSUME HoldInv
    PROVE  \A j \in Jobs : (Running(j) <=> j \in HeldJobs) /\ (Pending(j) <=> j \in PendingJobs)
<1>1. \A j \in Jobs : j # NoJob
  BY ThreadPoolAssumption
<1>2. \A j \in Jobs : Running(j) <=> j \in HeldJobs
  BY <1>1 DEF Running, RunBy, HeldJobs, HoldInv
<1>3. \A j \in Jobs : Pending(j) <=> j \in PendingJobs
  BY <1>1, QueuedElements DEF Pending, PendingJobs
<1> QED
  BY <1>2, <1>3

LEMMA JobPlacesNext ==
    ASSUME HoldInv'
    PROVE  \A j \in Jobs : (Running(j)' <=> j \in HeldJobs') /\ (Pending(j)' <=> j \in PendingJobs')
<1>1. \A j \in Jobs : j # NoJob
  BY ThreadPoolAssumption
<1>2. \A j \in Jobs : Running(j)' <=> j \in HeldJobs'
  BY <1>1 DEF Running, RunBy, HeldJobs, HoldInv
<1>3. \A j \in Jobs : Queued(j)' <=> j \in InQueues(queue')
  BY DEF Queued, InQueues, Elements
<1>4. \A j \in Jobs : Pending(j)' <=> j \in PendingJobs'
  BY <1>1, <1>3 DEF Pending, PendingJobs
<1> QED
  BY <1>2, <1>4

LEMMA SameStep ==
    ASSUME HoldInv, HoldInv', HeldJobs' = HeldJobs, PendingJobs' = PendingJobs, Open' = Open
    PROVE  UNCHANGED <<JobState, Open>>
<1>1. \A j \in Jobs : (Running(j)' <=> Running(j)) /\ (Pending(j)' <=> Pending(j))
  BY JobPlaces, JobPlacesNext
<1> QED
  BY <1>1 DEF JobState

LEMMA SubmitStep ==
    ASSUME HoldInv, HoldInv', Open' = Open, NEW j \in Jobs, j \notin HeldJobs \cup PendingJobs,
           HeldJobs' = HeldJobs, PendingJobs' = PendingJobs \cup {j}
    PROVE  JP!Submit(j)
<1>1. /\ ~Running(j) /\ ~Pending(j) /\ ~Running(j)' /\ Pending(j)'
      /\ \A k \in Jobs \ {j} : (Running(k)' <=> Running(k)) /\ (Pending(k)' <=> Pending(k))
  BY JobPlaces, JobPlacesNext
<1>2. JobState[j] = "idle" /\ JobState' = [JobState EXCEPT ![j] = "waiting"]
  BY <1>1 DEF JobState
<1> QED
  BY <1>2 DEF JP!Submit, JobState, Open

LEMMA CancelStep ==
    ASSUME HoldInv, HoldInv', ApartInv, Open' = Open, NEW j \in Jobs, j \in PendingJobs,
           HeldJobs' = HeldJobs, PendingJobs' = PendingJobs \ {j}
    PROVE  JP!Cancel(j)
<1>1. /\ ~Running(j) /\ Pending(j) /\ ~Running(j)' /\ ~Pending(j)'
      /\ \A k \in Jobs \ {j} : (Running(k)' <=> Running(k)) /\ (Pending(k)' <=> Pending(k))
  BY JobPlaces, JobPlacesNext DEF ApartInv
<1>2. JobState[j] = "waiting" /\ JobState' = [JobState EXCEPT ![j] = "idle"]
  BY <1>1 DEF JobState
<1> QED
  BY <1>2 DEF JP!Cancel, JobState, Open

LEMMA FinishStep ==
    ASSUME HoldInv, HoldInv', ApartInv, Open' = Open, NEW j \in Jobs, j \in HeldJobs,
           HeldJobs' = HeldJobs \ {j}, PendingJobs' = PendingJobs
    PROVE  JP!Finish(j)
<1>1. /\ Running(j) /\ ~Running(j)' /\ ~Pending(j)'
      /\ \A k \in Jobs \ {j} : (Running(k)' <=> Running(k)) /\ (Pending(k)' <=> Pending(k))
  BY JobPlaces, JobPlacesNext DEF ApartInv
<1>2. JobState[j] = "running" /\ JobState' = [JobState EXCEPT ![j] = "idle"]
  BY <1>1 DEF JobState
<1> QED
  BY <1>2 DEF JP!Finish, JobState, Open

LEMMA FinishStartStep ==
    ASSUME HoldInv, HoldInv', ApartInv, Open, Open',
           NEW i \in Jobs, i \in HeldJobs, NEW j \in Jobs, j \in PendingJobs,
           HeldJobs' = (HeldJobs \ {i}) \cup {j}, PendingJobs' = PendingJobs \ {j}
    PROVE  JP!Finish(i)
<1>1. /\ i # j /\ Running(i) /\ ~Running(i)' /\ ~Pending(i)'
      /\ ~Running(j) /\ Pending(j) /\ Running(j)'
      /\ \A k \in Jobs \ {i, j} : (Running(k)' <=> Running(k)) /\ (Pending(k)' <=> Pending(k))
  BY JobPlaces, JobPlacesNext DEF ApartInv
<1>2. /\ JobState[i] = "running" /\ JobState[j] = "waiting"
      /\ JobState' = [JobState EXCEPT ![i] = "idle", ![j] = "running"]
  BY <1>1 DEF JobState
<1>3. j \in JP!InState("waiting")
  BY <1>2 DEF JP!InState, JobState
<1> QED
  BY <1>2, <1>3 DEF JP!Finish, JobState, Open

LEMMA SameCardinality == \A S : JP!Cardinality(S) = Cardinality(S)
  BY DEF JP!Cardinality, Cardinality

LEMMA StartStep ==
    ASSUME HoldInv, HoldInv', ApartInv, Open, Open',
           NEW j \in Jobs, j \in PendingJobs, HeldJobs \subseteq Jobs,
           Cardinality(HeldJobs) < PoolLimit,
           HeldJobs' = HeldJobs \cup {j}, PendingJobs' = PendingJobs \ {j}
    PROVE  JP!Start(j)
<1>1. /\ ~Running(j) /\ Pending(j) /\ Running(j)'
      /\ \A k \in Jobs \ {j} : (Running(k)' <=> Running(k)) /\ (Pending(k)' <=> Pending(k))
  BY JobPlaces, JobPlacesNext DEF ApartInv
<1>2. JobState[j] = "waiting" /\ JobState' = [JobState EXCEPT ![j] = "running"]
  BY <1>1 DEF JobState
<1>3. \A k \in Jobs : JobState[k] = "running" <=> k \in HeldJobs
  BY JobPlaces DEF JobState
<1>4. JP!InState("running") = HeldJobs
  BY <1>3 DEF JP!InState, JobState
<1> QED
  BY <1>2, <1>4, SameCardinality DEF JP!Start, JobState, Open, PoolLimit

LEMMA CloseStep ==
    ASSUME HoldInv, HoldInv', ApartInv, Open, ~Open', HeldJobs' = HeldJobs, PendingJobs' = {}
    PROVE  JP!Close
<1>1. \A j \in Jobs : (Running(j)' <=> Running(j)) /\ ~Pending(j)'
  BY JobPlaces, JobPlacesNext
<1>2. JobState' = [j \in Jobs |-> IF JobState[j] = "waiting" THEN "idle" ELSE JobState[j]]
  BY <1>1 DEF JobState
<1> QED
  BY <1>2 DEF JP!Close, JobState, Open

-------------------------------------------------------------------------------
(* Steps of workers                                                         *)

LEMMA HeldAreJobs == TypeOK => HeldJobs \subseteq Jobs
  BY DEF TypeOK, HeldJobs

(* A worker puts its job down and perhaps picks another up.                 *)
LEMMA WorkerHolds ==
    ASSUME TypeOK, HoldInv, NEW w \in Workers, NEW s, NEW x,
           x \notin HeldJobs, s \in {"running", "finished"} <=> x # NoJob,
           thread' = [thread EXCEPT ![w] = s], job' = [job EXCEPT ![w] = x]
    PROVE  HoldInv' /\ HeldJobs' = (HeldJobs \ {job[w]}) \cup ({x} \ {NoJob})
<1>1. /\ job'[w] = x /\ thread'[w] = s
      /\ \A v \in Workers \ {w} : job'[v] = job[v] /\ thread'[v] = thread[v]
  BY DEF TypeOK
<1>2. \A v \in Workers : job[v] # NoJob => job[v] # x
  BY DEF HeldJobs
<1>3. \A v \in Workers : job'[v] # NoJob <=> thread'[v] \in {"running", "finished"}
  BY <1>1 DEF HoldInv
<1>4. \A u, v \in Workers : job'[u] = job'[v] /\ job'[u] # NoJob => u = v
  BY <1>1, <1>2 DEF HoldInv
<1>5. HoldInv'
  BY <1>3, <1>4 DEF HoldInv
<1>6. ASSUME NEW j, j # NoJob
      PROVE  j \in HeldJobs' <=> j \in (HeldJobs \ {job[w]}) \cup ({x} \ {NoJob})
  <2>1. CASE j = x
    BY <1>1, <1>6, <2>1 DEF HeldJobs
  <2>2. CASE j = job[w] /\ j # x
    <3>1. \A v \in Workers \ {w} : job'[v] # j
      BY <1>1, <1>6, <2>2 DEF HoldInv
    <3> QED
      BY <1>1, <1>6, <2>2, <3>1 DEF HeldJobs
  <2>3. CASE j # job[w] /\ j # x
    BY <1>1, <1>6, <2>3 DEF HeldJobs
  <2> QED
    BY <2>1, <2>2, <2>3
<1>7. NoJob \notin HeldJobs /\ NoJob \notin HeldJobs'
  BY DEF HeldJobs
<1> QED
  BY <1>5, <1>6, <1>7

(* Calls in progress do not mind jobs that go from place to place.          *)
LEMMA CallsUndisturbed ==
    ASSUME CallInv, call' = call, phase' = phase,
           HeldJobs' \cup PendingJobs' \subseteq HeldJobs \cup PendingJobs
    PROVE  CallInv'
  BY DEF CallInv, CallOK

LEMMA SlotUndisturbed ==
    ASSUME SlotInv, call' = call, persistentJob' \in {persistentJob, NoJob}
    PROVE  SlotInv'
  BY DEF SlotInv

(* A worker puts its job down: the abstract job ends.                       *)
LEMMA PutsDown ==
    ASSUME ThreadInv, JobInv, NEW w \in Workers, LooksForWork(w),
           NEW s \in {"waiting", "none"},
           thread' = [thread EXCEPT ![w] = s], job' = [job EXCEPT ![w] = NoJob],
           QueueInv', InQueues(queue') = InQueues(queue),
           UNCHANGED <<call, phase, persistentJob>>
    PROVE  JobInv' /\ (JP!JobPoolNext \/ UNCHANGED <<JobState, Open>>)
<1>1. TypeOK /\ HoldInv /\ SlotInv /\ ApartInv /\ CallInv
  BY DEF ThreadInv, JobInv
<1>2. HoldInv' /\ HeldJobs' = HeldJobs \ {job[w]}
  <2>1. NoJob \notin HeldJobs
    BY DEF HeldJobs
  <2>2. HoldInv' /\ HeldJobs' = (HeldJobs \ {job[w]}) \cup ({NoJob} \ {NoJob})
    BY <1>1, <2>1, WorkerHolds
  <2> QED
    BY <2>2
<1>3. PendingJobs' = PendingJobs
  BY DEF PendingJobs
<1>4. ApartInv' /\ CallInv' /\ SlotInv'
  BY <1>1, <1>2, <1>3, CallsUndisturbed, SlotUndisturbed DEF ApartInv
<1>5. JobInv'
  BY <1>2, <1>4 DEF JobInv
<1>6. Open' = Open
  BY DEF Open
<1>7. CASE job[w] = NoJob
  <2>1. HeldJobs' = HeldJobs
    BY <1>2, <1>7 DEF HeldJobs
  <2> QED
    BY <1>1, <1>2, <1>3, <1>5, <1>6, <2>1, SameStep
<1>8. CASE job[w] # NoJob
  <2>1. job[w] \in Jobs /\ job[w] \in HeldJobs
    BY <1>1, <1>8 DEF TypeOK, HeldJobs
  <2>2. JP!Finish(job[w])
    BY <1>1, <1>2, <1>3, <1>6, <2>1, FinishStep
  <2> QED
    BY <1>5, <2>1, <2>2 DEF JP!JobPoolNext
<1> QED
  BY <1>7, <1>8

(* An idle worker that has counted itself leaves room for its job.          *)
LEMMA RoomForJob ==
    ASSUME ThreadInv, HoldInv, NEW w \in Workers, LooksForWork(w), job[w] = NoJob
    PROVE  Cardinality(HeldJobs) < PoolLimit
<1> DEFINE B == {v \in Workers : job[v] # NoJob}
           T == {v \in Workers : Started(v)}
           f == [v \in B |-> job[v]]
<1>1. IsFiniteSet(Workers) /\ B \in SUBSET Workers /\ T \in SUBSET Workers
  BY ThreadPoolAssumption
<1>2. /\ IsFiniteSet(B) /\ Cardinality(B) \in Nat
      /\ IsFiniteSet(T) /\ Cardinality(T) \in Nat /\ Cardinality(T) <= Cardinality(Workers)
      /\ Cardinality(Workers) \in Nat
  BY <1>1, FS_Subset, FS_CardinalityType
<1>3. B \cup {w} \subseteq T /\ w \notin B
  BY DEF HoldInv, LooksForWork, Started
<1>4. Cardinality(B) + 1 <= Cardinality(T)
  <2>1. Cardinality(B \cup {w}) = Cardinality(B) + 1
    BY <1>2, <1>3, FS_AddElement
  <2>2. Cardinality(B \cup {w}) <= Cardinality(T)
    BY <1>2, <1>3, FS_Subset
  <2> QED
    BY <2>1, <2>2
<1>5. Cardinality(HeldJobs) <= Cardinality(B) /\ Cardinality(HeldJobs) \in Nat
  <2>1. f \in Surjection(B, HeldJobs)
    BY DEF Surjection, HeldJobs
  <2> HIDE DEF f
  <2>2. IsFiniteSet(HeldJobs) /\ Cardinality(HeldJobs) <= Cardinality(B)
    BY <1>2, <2>1, FS_Surjection
  <2> QED
    BY <2>2, FS_CardinalityType
<1>6. totalThreads = Cardinality(T)
  BY DEF ThreadInv, CountersAgree
<1>7. MaxThreads # INFINITE_THREADS => totalThreads <= MaxThreads
  <2>1. MaxThreads # INFINITE_THREADS =>
          \/ pending /\ totalThreads + 1 <= MaxThreads
          \/ ~pending /\ totalThreads + 0 <= MaxThreads
    BY DEF ThreadInv, LimitInv
  <2> QED
    BY <1>2, <1>6, <2>1, ThreadPoolAssumption
<1> HIDE DEF B, T
<1>8. CASE MaxThreads = INFINITE_THREADS
  <2>1. PoolLimit = Cardinality(Workers)
    BY <1>8 DEF PoolLimit
  <2> QED
    BY <1>2, <1>4, <1>5, <2>1
<1>9. CASE MaxThreads # INFINITE_THREADS
  <2>1. PoolLimit = MaxThreads /\ MaxThreads \in Nat
    BY <1>9, ThreadPoolAssumption DEF PoolLimit
  <2> QED
    BY <1>2, <1>4, <1>5, <1>6, <1>7, <1>9, <2>1
<1> QED
  BY <1>8, <1>9

(* A worker takes a waiting job: the abstract job starts, straight after    *)
(* the one the worker has run, if any.                                      *)
LEMMA PicksUp ==
    ASSUME ThreadInv, JobInv, NEW w \in Workers, LooksForWork(w), phase \in {"init", "up"},
           NEW j \in Jobs, j \in PendingJobs,
           thread' = [thread EXCEPT ![w] = "running"], job' = [job EXCEPT ![w] = j],
           QueueInv', PendingJobs' = PendingJobs \ {j}, persistentJob' \in {persistentJob, NoJob},
           UNCHANGED <<call, phase>>
    PROVE  JobInv' /\ JP!JobPoolNext
<1>1. TypeOK /\ HoldInv /\ SlotInv /\ ApartInv /\ CallInv
  BY DEF ThreadInv, JobInv
<1>2. j # NoJob /\ j \notin HeldJobs /\ HeldJobs \subseteq Jobs
  BY <1>1, ThreadPoolAssumption, HeldAreJobs DEF ApartInv
<1>3. HoldInv' /\ HeldJobs' = (HeldJobs \ {job[w]}) \cup {j}
  <2>1. HoldInv' /\ HeldJobs' = (HeldJobs \ {job[w]}) \cup ({j} \ {NoJob})
    BY <1>1, <1>2, WorkerHolds
  <2> QED
    BY <1>2, <2>1
<1>4. ApartInv' /\ CallInv' /\ SlotInv'
  <2>1. HeldJobs' \cup PendingJobs' \subseteq HeldJobs \cup PendingJobs
    BY <1>3
  <2> QED
    BY <1>1, <1>3, <2>1, CallsUndisturbed, SlotUndisturbed DEF ApartInv
<1>5. JobInv'
  BY <1>3, <1>4 DEF JobInv
<1>6. Open /\ Open'
  BY DEF Open
<1>7. CASE job[w] = NoJob
  <2>1. HeldJobs' = HeldJobs \cup {j}
    BY <1>3, <1>7 DEF HeldJobs
  <2>2. Cardinality(HeldJobs) < PoolLimit
    BY <1>1, <1>7, RoomForJob
  <2>3. JP!Start(j)
    BY <1>1, <1>2, <1>3, <1>6, <2>1, <2>2, StartStep
  <2> QED
    BY <1>5, <2>3 DEF JP!JobPoolNext
<1>8. CASE job[w] # NoJob
  <2>1. job[w] \in Jobs /\ job[w] \in HeldJobs
    BY <1>1, <1>8 DEF TypeOK, HeldJobs
  <2>2. JP!Finish(job[w])
    BY <1>1, <1>3, <1>6, <2>1, FinishStartStep
  <2> QED
    BY <1>5, <2>1, <2>2 DEF JP!JobPoolNext
<1> QED
  BY <1>7, <1>8

LEMMA WorkerPutsDown ==
    ASSUME ThreadInv, JobInv, NEW w \in Workers, WorkerWaits(w) \/ WorkerExits(w)
    PROVE  JobInv' /\ (JP!JobPoolNext \/ UNCHANGED <<JobState, Open>>)
<1>1. /\ LooksForWork(w) /\ job' = [job EXCEPT ![w] = NoJob]
      /\ \E s \in {"waiting", "none"} : thread' = [thread EXCEPT ![w] = s]
      /\ queue' = queue \/ queue' = Bumped
      /\ UNCHANGED <<call, phase, persistentJob>>
  BY DEF WorkerWaits, WorkerExits, queueVars
<1>2. queue \in [Priorities -> Seq(Jobs)] /\ QueueInv
  BY DEF ThreadInv, TypeOK, JobInv
<1>3. EachOnce(Bumped) /\ InQueues(Bumped) = InQueues(queue)
  BY <1>2, BumpedElements DEF QueueInv
<1>4. InQueues(queue') = InQueues(queue) /\ QueueInv'
  BY <1>1, <1>2, <1>3 DEF QueueInv
<1> QED
  BY <1>1, <1>4, PutsDown

LEMMA WorkerPicksPersistent ==
    ASSUME ThreadInv, JobInv, NEW w \in Workers, WorkerTakesPersistent(w)
    PROVE  JobInv' /\ JP!JobPoolNext
<1>1. /\ LooksForWork(w) /\ phase \in {"init", "up"} /\ persistentJob # NoJob
      /\ thread' = [thread EXCEPT ![w] = "running"] /\ job' = [job EXCEPT ![w] = persistentJob]
      /\ queue' = Bumped /\ persistentJob' = NoJob
      /\ UNCHANGED <<call, phase>>
  BY DEF WorkerTakesPersistent, Takes
<1>2. queue \in [Priorities -> Seq(Jobs)] /\ QueueInv /\ SlotInv
  BY DEF ThreadInv, TypeOK, JobInv
<1>3. EachOnce(Bumped) /\ InQueues(Bumped) = InQueues(queue)
  BY <1>2, BumpedElements DEF QueueInv
<1>4. QueueInv'
  BY <1>1, <1>2, <1>3 DEF QueueInv
<1>5. persistentJob \in Jobs /\ persistentJob \in PendingJobs /\ persistentJob \notin InQueues(queue)
  BY <1>1, <1>2, ThreadPoolAssumption DEF SlotInv, QueueInv, PendingJobs, Jobs
<1>6. PendingJobs' = PendingJobs \ {persistentJob}
  BY <1>1, <1>3, <1>5 DEF PendingJobs
<1> QED
  BY <1>1, <1>4, <1>5, <1>6, PicksUp

LEMMA WorkerPicksJob ==
    ASSUME ThreadInv, JobInv, NEW w \in Workers, WorkerTakesJob(w)
    PROVE  JobInv' /\ JP!JobPoolNext
<1>1. PICK p : p = HighestPriority(Bumped)
  OBVIOUS
<1>2. PICK j : j = Head(Bumped[p])
  OBVIOUS
<1>3. /\ LooksForWork(w) /\ phase \in {"init", "up"} /\ persistentJob = NoJob /\ TotalJobs > 0
      /\ thread' = [thread EXCEPT ![w] = "running"] /\ job' = [job EXCEPT ![w] = j]
      /\ queue' = [Bumped EXCEPT ![p] = Tail(@)]
      /\ UNCHANGED <<call, phase, persistentJob>>
  BY <1>1, <1>2 DEF WorkerTakesJob, Takes
<1>4. queue \in [Priorities -> Seq(Jobs)] /\ QueueInv
  BY DEF ThreadInv, TypeOK, JobInv
<1>5. j \in InQueues(queue) /\ EachOnce(queue') /\ InQueues(queue') = InQueues(queue) \ {j}
  BY <1>1, <1>2, <1>3, <1>4, DequeuedElements DEF QueueInv
<1>6. QueueInv'
  BY <1>4, <1>5 DEF QueueInv
<1>7. j \in Jobs /\ j \in PendingJobs /\ PendingJobs' = PendingJobs \ {j}
  BY <1>3, <1>4, <1>5 DEF QueueInv, PendingJobs, Jobs
<1> QED
  BY <1>3, <1>6, <1>7, PicksUp

-------------------------------------------------------------------------------
(* Steps that leave every job where it is                                   *)

(* No worker takes or drops a job.                                          *)
KeepsHolding ==
    /\ job' = job
    /\ \A w \in Workers : thread'[w] \in {"running", "finished"} <=> thread[w] \in {"running", "finished"}

LEMMA HoldingKept ==
    ASSUME HoldInv, KeepsHolding
    PROVE  HoldInv' /\ HeldJobs' = HeldJobs
  BY DEF HoldInv, KeepsHolding, HeldJobs

LEMMA QuietStep ==
    ASSUME JobInv, KeepsHolding, UNCHANGED <<call, queue, persistentJob, phase>>
    PROVE  JobInv' /\ UNCHANGED <<JobState, Open>>
<1>1. HoldInv /\ HoldInv' /\ HeldJobs' = HeldJobs
  BY HoldingKept DEF JobInv
<1>2. PendingJobs' = PendingJobs /\ Open' = Open /\ QueueInv'
  BY DEF PendingJobs, Open, JobInv, QueueInv
<1>3. SlotInv' /\ ApartInv' /\ CallInv'
  BY <1>1, <1>2, CallsUndisturbed, SlotUndisturbed DEF JobInv, ApartInv
<1> QED
  BY <1>1, <1>2, <1>3, SameStep DEF JobInv

LEMMA WorkerQuiet ==
    ASSUME ThreadInv, JobInv, NEW w \in Workers, WorkerStarts(w) \/ WorkerTimesOut(w) \/ JobReturns(w)
    PROVE  JobInv' /\ UNCHANGED <<JobState, Open>>
<1>1. /\ job' = job /\ UNCHANGED <<call, queue, persistentJob, phase>>
      /\ \/ thread[w] = "created" /\ thread' = [thread EXCEPT ![w] = "ready"]
         \/ thread[w] = "waiting" /\ thread' = [thread EXCEPT ![w] = "timedout"]
         \/ thread[w] = "running" /\ thread' = [thread EXCEPT ![w] = "finished"]
  BY DEF WorkerStarts, WorkerTimesOut, JobReturns, queueVars
<1>2. KeepsHolding
  BY <1>1 DEF KeepsHolding, ThreadInv, TypeOK
<1> QED
  BY <1>1, <1>2, QuietStep

(* A caller goes on, or waits, or returns, without touching a job.          *)
LEMMA CallerQuiet ==
    ASSUME ThreadInv, JobInv, NEW t \in Callers, NEW c, KeepsHolding,
           call' = [call EXCEPT ![t] = c], UNCHANGED <<queue, persistentJob>>,
           Open' = Open, phase' = phase \/ t = Owner, CallOK(t, c)',
           call[t].at = "pickup" => c = call[t] \/ persistentJob = NoJob
    PROVE  JobInv' /\ UNCHANGED <<JobState, Open>>
<1>1. HoldInv /\ HoldInv' /\ HeldJobs' = HeldJobs
  BY HoldingKept DEF JobInv
<1>2. PendingJobs' = PendingJobs /\ QueueInv'
  BY DEF PendingJobs, JobInv, QueueInv
<1>3. call'[t] = c /\ \A u \in Callers \ {t} : call'[u] = call[u]
  BY DEF ThreadInv, TypeOK
<1>4. CallInv'
  <2>1. ASSUME NEW u \in Callers \ {t} PROVE CallOK(u, call[u])'
    <3>1. CallOK(u, call[u]) /\ call'[u] = call[u]
      BY <1>3 DEF JobInv, CallInv
    <3> QED
      BY <1>1, <1>2, <3>1 DEF CallOK
  <2>2. CallOK(t, call[t])'
    BY <1>3 DEF CallOK
  <2> QED
    BY <2>1, <2>2 DEF CallInv
<1>5. SlotInv'
  <2>1. LongSubmitters \subseteq Callers
    BY ThreadPoolAssumption DEF Callers
  <2>2. ASSUME persistentJob # NoJob
        PROVE  \E u \in LongSubmitters : call'[u].op = "addPersistent" /\ call'[u].at = "pickup"
    <3>1. PICK u \in LongSubmitters : call[u].op = "addPersistent" /\ call[u].at = "pickup"
      BY <2>2 DEF JobInv, SlotInv
    <3>2. call'[u] = call[u]
      BY <1>3, <2>1, <2>2, <3>1
    <3> QED
      BY <3>1, <3>2
  <2> QED
    BY <2>2 DEF JobInv, SlotInv
<1>6. ApartInv'
  BY <1>1, <1>2 DEF JobInv, ApartInv
<1> QED
  BY <1>1, <1>2, <1>4, <1>5, <1>6, SameStep DEF JobInv

-------------------------------------------------------------------------------
(* Parts of the calls                                                       *)

LEMMA SignalHolds ==
    ASSUME TypeOK, Signal, job' = job
    PROVE  KeepsHolding
  BY DEF TypeOK, Signal, KeepsHolding

LEMMA CreateWorkerHolds ==
    ASSUME TypeOK, NEW t, NEW c, CreateWorker(t, c), job' = job
    PROVE  /\ KeepsHolding
           /\ \E a \in {"create", "start"} : call' = [call EXCEPT ![t] = [c EXCEPT !.at = a]]
<1>1. KeepsHolding
  BY DEF TypeOK, CreateWorker, StartsThread, KeepsHolding
<1>2. \E a \in {"create", "start"} : call' = [call EXCEPT ![t] = [c EXCEPT !.at = a]]
  BY DEF CreateWorker, Sleep
<1> QED
  BY <1>1, <1>2

(* What a call of ThreadPoolAdd may become.                                 *)
Adding(c) == c = NoCall \/ (c.op = "add" /\ c.at \in {"create", "start"})

LEMMA AddWorkerHolds ==
    ASSUME TypeOK, NEW t, NEW c \in Call, c.op = "add", job' = job,
           AddWorker(t, c) \/ FinishAdd(t, c)
    PROVE  KeepsHolding /\ \E d : Adding(d) /\ call' = [call EXCEPT ![t] = d]
<1>1. CASE CreateWorker(t, c)
  <2>1. PICK a \in {"create", "start"} : call' = [call EXCEPT ![t] = [c EXCEPT !.at = a]]
    BY <1>1, CreateWorkerHolds
  <2>2. Adding([c EXCEPT !.at = a])
    BY DEF Adding, Call
  <2> QED
    BY <1>1, <2>1, <2>2, CreateWorkerHolds
<1>2. CASE FinishAdd(t, c)
  <2>1. call' = [call EXCEPT ![t] = NoCall] /\ Signal
    BY <1>2 DEF FinishAdd, Return
  <2> QED
    BY <2>1, SignalHolds DEF Adding
<1> QED
  BY <1>1, <1>2 DEF AddWorker

LEMMA AddingOK ==
    ASSUME NEW t, NEW c, Adding(c)
    PROVE  CallOK(t, c)'
<1>1. /\ NoCall.op = "none" /\ NoCall.at = "none"
  BY DEF NoCall
<1>2. c.op \notin {"init", "addPersistent"} /\ c.at # "drain"
  BY <1>1 DEF Adding
<1> QED
  BY <1>2 DEF CallOK

(* ThreadPoolShutdown empties the queues and the slot.                      *)
LEMMA PoolCloses ==
    ASSUME ThreadInv, JobInv, Open, BeginShutdown(Owner), job' = job
    PROVE  JobInv' /\ JP!Close
<1>1. KeepsHolding
  BY DEF BeginShutdown, KeepsHolding, ThreadInv, TypeOK
<1>2. HoldInv /\ HoldInv' /\ HeldJobs' = HeldJobs /\ ApartInv
  BY <1>1, HoldingKept DEF JobInv
<1>3. queue' = [p \in Priorities |-> <<>>] /\ persistentJob' = NoJob
  BY DEF BeginShutdown
<1>4. EachOnce(queue') /\ InQueues(queue') = {}
  <2>1. Elements(<<>>) = {} /\ NoRepeats(<<>>)
    BY DEF Elements, NoRepeats
  <2> QED
    BY <1>3, <2>1 DEF EachOnce, InQueues
<1>5. PendingJobs' = {} /\ QueueInv' /\ SlotInv' /\ ApartInv'
  BY <1>3, <1>4 DEF PendingJobs, QueueInv, SlotInv, ApartInv
<1>6. PICK d : /\ call' = [call EXCEPT ![Owner] = d]
               /\ \/ phase' = "gone" /\ d = NoCall
                  \/ phase' = "shutdown" /\ d = [NoCall EXCEPT !.op = "shutdown", !.at = "drain"]
  BY DEF BeginShutdown, Sleep, Return
<1>7. CallInv'
  <2>1. d.op \notin {"init", "addPersistent"} /\ (d.at = "drain" => phase' = "shutdown")
    <3>1. [NoCall EXCEPT !.op = "shutdown", !.at = "drain"].op = "shutdown"
      BY DEF NoCall
    <3>2. NoCall.op = "none" /\ NoCall.at = "none"
      BY DEF NoCall
    <3> QED
      BY <1>6, <3>1, <3>2
  <2>2. CallOK(Owner, d)'
    BY <2>1 DEF CallOK
  <2>3. ASSUME NEW u \in Callers PROVE CallOK(u, call[u])'
    <3>1. CASE u = Owner
      <4>1. call'[u] = d
        BY <1>6, <3>1 DEF ThreadInv, TypeOK
      <4> QED
        BY <2>2, <3>1, <4>1 DEF CallOK
    <3>2. CASE u # Owner
      <4>1. call'[u] = call[u] /\ CallOK(u, call[u])
        BY <1>6, <3>2 DEF ThreadInv, TypeOK, JobInv, CallInv
      <4> QED
        BY <1>2, <1>5, <3>2, <4>1 DEF CallOK
    <3> QED
      BY <3>1, <3>2
  <2> QED
    BY <2>3 DEF CallInv
<1>8. ~Open'
  BY <1>6 DEF Open
<1> QED
  BY <1>2, <1>5, <1>7, <1>8, CloseStep DEF JobInv

(* ThreadPoolAddPersistent puts its job into the slot, which is free.       *)
LEMMA PersistentPlaced ==
    ASSUME ThreadInv, JobInv, OneSubmitter, NEW t \in LongSubmitters, NEW c \in Call,
           c.op = "addPersistent", c.job \in LongJobs, c.job \notin HeldJobs \cup PendingJobs,
           call[t].at # "pickup", PlacePersistent(t, c), UNCHANGED <<job, queue, phase>>
    PROVE  JobInv' /\ JP!Submit(c.job)
<1>1. KeepsHolding
  BY SignalHolds DEF PlacePersistent, ThreadInv
<1>2. HoldInv /\ HoldInv' /\ HeldJobs' = HeldJobs
  BY <1>1, HoldingKept DEF JobInv
<1>3. persistentJob = NoJob
  BY DEF OneSubmitter, JobInv, SlotInv
<1>4. /\ persistentJob' = c.job /\ call' = [call EXCEPT ![t] = [c EXCEPT !.at = "pickup"]]
      /\ c.job \in Jobs /\ c.job # NoJob /\ t \in Callers
  BY ThreadPoolAssumption DEF PlacePersistent, Sleep, Jobs, Callers
<1>5. PendingJobs' = PendingJobs \cup {c.job} /\ QueueInv'
  BY <1>3, <1>4 DEF PendingJobs, JobInv, QueueInv
<1>6. ApartInv'
  BY <1>2, <1>5 DEF JobInv, ApartInv
<1>7. call'[t] = [c EXCEPT !.at = "pickup"] /\ \A u \in Callers \ {t} : call'[u] = call[u]
  BY <1>4 DEF ThreadInv, TypeOK
<1>8. call'[t].op = "addPersistent" /\ call'[t].at = "pickup" /\ call'[t].job = c.job
  BY <1>7 DEF Call
<1>9. SlotInv'
  BY <1>4, <1>8 DEF SlotInv
<1>10. CallInv'
  <2>1. CallOK(t, call[t])'
    BY <1>8 DEF CallOK
  <2>2. ASSUME NEW u \in Callers \ {t} PROVE CallOK(u, call[u])'
    <3>1. CallOK(u, call[u]) /\ call'[u] = call[u]
      BY <1>7 DEF JobInv, CallInv
    <3>2. call[u].op # "addPersistent"
      BY <3>1 DEF CallOK, OneSubmitter
    <3> QED
      BY <3>1, <3>2 DEF CallOK
  <2> QED
    BY <2>1, <2>2 DEF CallInv
<1>11. Open' = Open
  BY DEF Open
<1> QED
  BY <1>2, <1>4, <1>5, <1>6, <1>9, <1>10, <1>11, SubmitStep DEF JobInv

-------------------------------------------------------------------------------
(* The calls                                                                *)

(* What every step has to be.                                               *)
PoolStep == JobInv' /\ (JP!JobPoolNext \/ UNCHANGED <<JobState, Open>>)

LEMMA ThreadPoolAddPlaces ==
    ASSUME ThreadInv, JobInv, NEW t \in Callers, NEW j \in ShortJobs, ThreadPoolAdd(t, j)
    PROVE  PoolStep
<1> DEFINE c == [op |-> "add", at |-> "none", job |-> j, jobs |-> TotalJobs + 1,
                 threads |-> totalThreads - persistentThreads]
           p == Priority[j]
<1>1. /\ Idle(j) /\ call[t] = NoCall
      /\ queue' = [queue EXCEPT ![p] = Append(queue[p], j)]
      /\ AddWorker(t, c)
      /\ UNCHANGED <<job, persistentJob, phase>>
  BY DEF ThreadPoolAdd, MayCall
<1>2. TypeOK /\ HoldInv /\ QueueInv /\ j \in Jobs /\ p \in Priorities /\ j # NoJob
  BY ThreadPoolAssumption DEF ThreadInv, Jobs, JobInv
<1>3. c \in Call /\ c.op = "add"
  <2>1. TotalJobs \in Nat
    <3>1. queue["high"] \in Seq(Jobs) /\ queue["med"] \in Seq(Jobs) /\ queue["low"] \in Seq(Jobs)
      BY <1>2 DEF TypeOK, Priorities
    <3> DEFINE h == Len(queue["high"])
               m == Len(queue["med"])
               l == Len(queue["low"])
    <3>2. h \in Nat /\ m \in Nat /\ l \in Nat
      BY <3>1
    <3> HIDE DEF h, m, l
    <3>3. h + m + l \in Nat
      BY <3>2
    <3> QED
      BY <3>3, Zenon DEF TotalJobs, h, m, l
  <2>2. TotalJobs + 1 \in Nat
    BY <2>1
  <2>3. totalThreads - persistentThreads \in Int
    BY <1>2 DEF TypeOK
  <2> QED
    BY <1>2, <2>2, <2>3 DEF Call
<1> HIDE DEF c
<1>4. KeepsHolding /\ \E d : Adding(d) /\ call' = [call EXCEPT ![t] = d]
  BY <1>1, <1>2, <1>3, AddWorkerHolds
<1>5. PICK d : Adding(d) /\ call' = [call EXCEPT ![t] = d]
  BY <1>4
<1>6. HoldInv' /\ HeldJobs' = HeldJobs
  BY <1>2, <1>4, HoldingKept
<1>7. j \notin HeldJobs \cup PendingJobs
  BY <1>1, <1>2, JobPlaces DEF Idle
<1>8. EachOnce(queue') /\ InQueues(queue') = InQueues(queue) \cup {j}
  <2>1. queue \in [Priorities -> Seq(Jobs)] /\ queue[p] \in Seq(Jobs) /\ EachOnce(queue)
    BY <1>2 DEF TypeOK, QueueInv
  <2>2. j \notin InQueues(queue) /\ j \notin Elements(queue[p]) /\ NoRepeats(queue[p])
    BY <1>2, <1>7, <2>1 DEF PendingJobs, InQueues, EachOnce
  <2>3. NoRepeats(Append(queue[p], j)) /\ Elements(Append(queue[p], j)) = Elements(queue[p]) \cup {j}
    BY <1>2, <2>1, <2>2, AppendElements
  <2> DEFINE s == Append(queue[p], j)
  <2>4. queue' = [queue EXCEPT ![p] = s]
    BY <1>1
  <2> HIDE DEF p, s
  <2>5. EachOnce([queue EXCEPT ![p] = s]) /\ InQueues([queue EXCEPT ![p] = s]) = InQueues(queue) \cup {j}
    <3>1. NoRepeats(s) /\ Elements(s) = Elements(queue[p]) \cup {j}
      BY <2>3 DEF s
    <3> QED
      BY <1>2, <2>1, <2>2, <3>1, QueueGrows, Zenon
  <2> QED
    BY <2>4, <2>5
<1>9. PendingJobs' = PendingJobs \cup {j} /\ QueueInv'
  BY <1>1, <1>2, <1>8 DEF PendingJobs, QueueInv
<1>10. ApartInv'
  BY <1>6, <1>7, <1>9 DEF JobInv, ApartInv
<1>11. call'[t] = d /\ \A u \in Callers \ {t} : call'[u] = call[u]
  BY <1>2, <1>5 DEF TypeOK
<1>12. SlotInv'
  <2>1. LongSubmitters \subseteq Callers /\ call[t].op = "none"
    BY <1>1, ThreadPoolAssumption DEF Callers, NoCall
  <2>2. ASSUME persistentJob # NoJob
        PROVE  \E u \in LongSubmitters : call'[u].op = "addPersistent" /\ call'[u].at = "pickup"
    <3>1. PICK u \in LongSubmitters : call[u].op = "addPersistent" /\ call[u].at = "pickup"
      BY <2>2 DEF JobInv, SlotInv
    <3>2. call'[u] = call[u]
      BY <1>11, <2>1, <3>1
    <3> QED
      BY <3>1, <3>2
  <2> QED
    BY <1>1, <2>2 DEF JobInv, SlotInv
<1>13. CallInv'
  <2>1. CallOK(t, d)'
    BY <1>5, AddingOK
  <2>2. CallOK(t, call[t])'
    BY <1>11, <2>1 DEF CallOK
  <2>3. ASSUME NEW u \in Callers \ {t} PROVE CallOK(u, call[u])'
    <3>1. CallOK(u, call[u]) /\ call'[u] = call[u]
      BY <1>11 DEF JobInv, CallInv
    <3>2. j \notin LongJobs
      BY ThreadPoolAssumption
    <3> QED
      BY <1>1, <1>6, <1>9, <3>1, <3>2 DEF CallOK
  <2> QED
    BY <2>2, <2>3 DEF CallInv
<1>14. JP!Submit(j)
  <2>1. Open' = Open
    BY <1>1 DEF Open
  <2> QED
    BY <1>2, <1>6, <1>7, <1>9, <2>1, SubmitStep
<1> QED
  BY <1>2, <1>6, <1>9, <1>10, <1>12, <1>13, <1>14 DEF PoolStep, JobInv, JP!JobPoolNext

LEMMA ThreadPoolAddPersistentPlaces ==
    ASSUME ThreadInv, JobInv, OneSubmitter, NEW t \in LongSubmitters, NEW j \in LongJobs,
           ThreadPoolAddPersistent(t, j)
    PROVE  PoolStep
<1> DEFINE c == [NoCall EXCEPT !.op = "addPersistent", !.job = j]
<1>1. /\ Idle(j) /\ call[t] = NoCall
      /\ \/ CreateWorker(t, c) /\ UNCHANGED persistentJob
         \/ PlacePersistent(t, c)
      /\ UNCHANGED <<job, queue, phase>>
  BY DEF ThreadPoolAddPersistent, MayCall
<1>2. TypeOK /\ HoldInv /\ j \in Jobs /\ t \in Callers
  BY ThreadPoolAssumption DEF ThreadInv, Jobs, JobInv, Callers
<1>3. c \in Call /\ c.op = "addPersistent" /\ c.job = j
  <2> DEFINE d == [NoCall EXCEPT !.op = "addPersistent"]
  <2>1. d \in Call /\ d.op = "addPersistent"
    BY NoCallType DEF Call, NoCall
  <2> HIDE DEF d
  <2>2. [d EXCEPT !.job = j] \in Call /\ [d EXCEPT !.job = j].op = "addPersistent"
        /\ [d EXCEPT !.job = j].job = j
    BY <1>2, <2>1 DEF Call
  <2> QED
    BY <2>2 DEF d
<1> HIDE DEF c
<1>4. j \notin HeldJobs \cup PendingJobs
  BY <1>1, <1>2, JobPlaces DEF Idle
<1>5. call[t].at = "none"
  BY <1>1 DEF NoCall
<1>6. CASE CreateWorker(t, c) /\ UNCHANGED persistentJob
  <2>1. KeepsHolding /\ \E a \in {"create", "start"} : call' = [call EXCEPT ![t] = [c EXCEPT !.at = a]]
    BY <1>1, <1>2, <1>6, CreateWorkerHolds
  <2>2. PICK a \in {"create", "start"} : call' = [call EXCEPT ![t] = [c EXCEPT !.at = a]]
    BY <2>1
  <2>3. PICK d : d = [c EXCEPT !.at = a]
    OBVIOUS
  <2>4. d.op = "addPersistent" /\ d.job = j /\ d.at = a
    BY <1>3, <2>3 DEF Call
  <2>5. HeldJobs' = HeldJobs /\ PendingJobs' = PendingJobs
    BY <1>1, <1>2, <1>6, <2>1, HoldingKept DEF PendingJobs
  <2>6. CallOK(t, d)'
    BY <1>4, <2>4, <2>5 DEF CallOK
  <2>7. Open' = Open
    BY <1>1 DEF Open
  <2> QED
    BY <1>1, <1>2, <1>5, <1>6, <2>1, <2>2, <2>3, <2>6, <2>7, CallerQuiet DEF PoolStep
<1>7. CASE PlacePersistent(t, c)
  <2>1. JobInv' /\ JP!Submit(c.job)
    BY <1>1, <1>3, <1>4, <1>5, <1>7, PersistentPlaced
  <2> QED
    BY <1>2, <1>3, <2>1 DEF PoolStep, JP!JobPoolNext
<1> QED
  BY <1>1, <1>6, <1>7

LEMMA ThreadPoolRemovePlaces ==
    ASSUME ThreadInv, JobInv, NEW t, NEW id, ThreadPoolRemove(t, id)
    PROVE  PoolStep
<1>1. /\ UNCHANGED <<thread, job, call, phase>>
      /\ \/ persistentJob # NoJob /\ persistentJob' = NoJob /\ UNCHANGED queue
         \/ /\ UNCHANGED persistentJob
            /\ \E p \in Priorities : \E i \in 1..Len(queue[p]) :
                 queue' = [queue EXCEPT ![p] = Front(@, i - 1) \o Rest(@, i)]
  BY DEF ThreadPoolRemove, Priorities, threadVars
<1>2. /\ queue \in [Priorities -> Seq(Jobs)] /\ EachOnce(queue) /\ InQueues(queue) \subseteq ShortJobs
      /\ persistentJob \in LongJobs \cup {NoJob} /\ HoldInv /\ ApartInv
  BY DEF ThreadInv, TypeOK, JobInv, QueueInv, SlotInv
<1>3. KeepsHolding /\ HoldInv' /\ HeldJobs' = HeldJobs
  <2>1. KeepsHolding
    BY <1>1 DEF KeepsHolding
  <2> QED
    BY <1>2, <2>1, HoldingKept
<1>4. \E j \in Jobs : j \in PendingJobs /\ PendingJobs' = PendingJobs \ {j} /\ QueueInv'
  <2>1. CASE persistentJob # NoJob /\ persistentJob' = NoJob /\ UNCHANGED queue
    <3>1. persistentJob \in Jobs /\ persistentJob \notin InQueues(queue)
      BY <1>2, <2>1, ThreadPoolAssumption DEF Jobs
    <3>2. persistentJob \in PendingJobs /\ PendingJobs' = PendingJobs \ {persistentJob}
      BY <2>1, <3>1 DEF PendingJobs
    <3> QED
      BY <1>2, <2>1, <3>1, <3>2 DEF QueueInv
  <2>2. ASSUME UNCHANGED persistentJob, NEW p \in Priorities, NEW i \in 1..Len(queue[p]),
               queue' = [queue EXCEPT ![p] = Front(@, i - 1) \o Rest(@, i)]
        PROVE  \E j \in Jobs : j \in PendingJobs /\ PendingJobs' = PendingJobs \ {j} /\ QueueInv'
    <3>1. PICK s : s = Front(queue[p], i - 1) \o Rest(queue[p], i)
      OBVIOUS
    <3>2. PICK j : j = queue[p][i]
      OBVIOUS
    <3>3. queue' = [queue EXCEPT ![p] = s] /\ queue[p] \in Seq(Jobs) /\ NoRepeats(queue[p])
      BY <1>2, <2>2, <3>1 DEF EachOnce
    <3>4. Elements(s) = Elements(queue[p]) \ {j} /\ NoRepeats(s) /\ j \in Elements(queue[p])
      BY <3>1, <3>2, <3>3, CutElements
    <3>5. EachOnce(queue') /\ InQueues(queue') = InQueues(queue) \ {j} /\ j \in InQueues(queue)
      BY <1>2, <3>3, <3>4, QueueShrinks
    <3>6. j \in Jobs /\ j # persistentJob
      BY <1>2, <3>5, ThreadPoolAssumption DEF Jobs
    <3>7. j \in PendingJobs /\ PendingJobs' = PendingJobs \ {j}
      BY <2>2, <3>5, <3>6 DEF PendingJobs
    <3> QED
      BY <1>2, <3>5, <3>6, <3>7 DEF QueueInv
  <2> QED
    BY <1>1, <2>1, <2>2
<1>5. PICK j \in Jobs : j \in PendingJobs /\ PendingJobs' = PendingJobs \ {j} /\ QueueInv'
  BY <1>4
<1>6. SlotInv' /\ CallInv' /\ ApartInv'
  BY <1>1, <1>2, <1>3, <1>5, CallsUndisturbed, SlotUndisturbed DEF JobInv, ApartInv
<1>7. JP!Cancel(j)
  <2>1. Open' = Open
    BY <1>1 DEF Open
  <2> QED
    BY <1>2, <1>3, <1>5, <2>1, CancelStep
<1> QED
  BY <1>3, <1>5, <1>6, <1>7 DEF PoolStep, JobInv, JP!JobPoolNext

LEMMA ThreadPoolShutdownPlaces ==
    ASSUME ThreadInv, JobInv, ThreadPoolShutdown
    PROVE  PoolStep
<1>1. BeginShutdown(Owner) /\ job' = job /\ MayCall(Owner)
  BY DEF ThreadPoolShutdown
<1>2. Open
  BY <1>1, ThreadPoolAssumption DEF MayCall, Open
<1> QED
  BY <1>1, <1>2, PoolCloses DEF PoolStep, JP!JobPoolNext

(* The rest of a call once CreateWorker has returned.                       *)
LEMMA ContinuePlaces ==
    ASSUME ThreadInv, JobInv, OneSubmitter, NEW t \in Callers, NEW ok \in BOOLEAN,
           call[t].at \in {"create", "start"}, job' = job, Continue(t, call[t], ok)
    PROVE  PoolStep
<1>1. PICK c : c = call[t]
  OBVIOUS
<1>2. TypeOK /\ c \in Call /\ c.at \in {"create", "start"} /\ CallOK(t, c)
  BY <1>1 DEF ThreadInv, TypeOK, JobInv, CallInv
<1>3. CASE /\ c.op = "init"
           /\ IF ok THEN InitWorkers(t, [c EXCEPT !.threads = @ + 1]) ELSE BeginShutdown(t)
  <2>1. t = Owner /\ phase = "init" /\ Open
    BY <1>2, <1>3 DEF CallOK, Open
  <2>2. PICK d : d = [c EXCEPT !.threads = @ + 1]
    OBVIOUS
  <2>3. d \in Call /\ d.op = "init"
    BY <1>2, <1>3, <2>2 DEF Call
  <2>4. CASE BeginShutdown(t)
    BY <2>1, <2>4, PoolCloses DEF PoolStep, JP!JobPoolNext
  <2>5. CASE CreateWorker(t, d) /\ UNCHANGED <<queueVars, phase>>
    <3>1. KeepsHolding /\ \E a \in {"create", "start"} : call' = [call EXCEPT ![t] = [d EXCEPT !.at = a]]
      BY <1>2, <2>5, CreateWorkerHolds
    <3>2. PICK a \in {"create", "start"} : call' = [call EXCEPT ![t] = [d EXCEPT !.at = a]]
      BY <3>1
    <3>3. PICK e : e = [d EXCEPT !.at = a]
      OBVIOUS
    <3>4. e.op = "init" /\ e.at = a
      BY <2>3, <3>3 DEF Call
    <3>5. CallOK(t, e)'
      BY <2>1, <2>5, <3>4 DEF CallOK
    <3>6. Open' = Open /\ UNCHANGED <<queue, persistentJob>>
      BY <2>5 DEF Open, queueVars
    <3> QED
      BY <1>1, <1>2, <2>5, <3>1, <3>2, <3>3, <3>5, <3>6, CallerQuiet DEF PoolStep
  <2>6. CASE Return(t) /\ phase' = "up" /\ UNCHANGED <<thread, queueVars, pending>>
    <3>1. call' = [call EXCEPT ![t] = NoCall] /\ KeepsHolding
      BY <2>6 DEF Return, KeepsHolding
    <3>2. Open' = Open /\ UNCHANGED <<queue, persistentJob>>
      BY <2>1, <2>6 DEF Open, queueVars
    <3>3. CallOK(t, NoCall)'
      BY AddingOK DEF Adding
    <3> QED
      BY <1>1, <1>2, <2>1, <3>1, <3>2, <3>3, CallerQuiet DEF PoolStep
  <2> QED
    BY <1>3, <2>2, <2>4, <2>5, <2>6 DEF InitWorkers
<1>4. CASE /\ c.op = "add"
           /\ IF ok THEN AddWorker(t, CountThread(c)) ELSE FinishAdd(t, c)
           /\ UNCHANGED <<queueVars, phase, jobId>>
  <2>1. PICK d : d = CountThread(c)
    OBVIOUS
  <2>2. d \in Call /\ d.op = "add"
    BY <1>2, <1>4, <2>1, CallAt DEF CountThread, Call
  <2>3. KeepsHolding /\ \E e : Adding(e) /\ call' = [call EXCEPT ![t] = e]
    BY <1>2, <1>4, <2>1, <2>2, AddWorkerHolds
  <2>4. PICK e : Adding(e) /\ call' = [call EXCEPT ![t] = e]
    BY <2>3
  <2>5. CallOK(t, e)'
    BY <2>4, AddingOK
  <2>6. Open' = Open /\ UNCHANGED <<queue, persistentJob>>
    BY <1>4 DEF Open, queueVars
  <2> QED
    BY <1>1, <1>2, <1>4, <2>3, <2>4, <2>5, <2>6, CallerQuiet DEF PoolStep
<1>5. CASE /\ c.op = "addPersistent"
           /\ PlacePersistent(t, c)
           /\ UNCHANGED <<queue, phase, lastJobId, handed>>
  <2>1. t \in LongSubmitters /\ c.job \in LongJobs /\ c.job \notin HeldJobs \cup PendingJobs
    BY <1>2, <1>5 DEF CallOK
  <2>2. JobInv' /\ JP!Submit(c.job)
    BY <1>1, <1>2, <1>5, <2>1, PersistentPlaced
  <2> QED
    BY <2>1, <2>2 DEF PoolStep, JP!JobPoolNext, Jobs
<1> QED
  BY <1>1, <1>3, <1>4, <1>5 DEF Continue

LEMMA ResumePlaces ==
    ASSUME ThreadInv, JobInv, OneSubmitter, NEW t \in Callers, Resume(t)
    PROVE  PoolStep
<1>1. PICK c : c = call[t]
  OBVIOUS
<1>2. TypeOK /\ c \in Call /\ CallOK(t, c)
  BY <1>1 DEF ThreadInv, TypeOK, JobInv, CallInv
<1>3. ASSUME NEW d, d = c \/ d = NoCall, KeepsHolding, call' = [call EXCEPT ![t] = d],
             UNCHANGED <<queue, persistentJob, phase>>,
             call[t].at = "pickup" => d = call[t] \/ persistentJob = NoJob
      PROVE  PoolStep
  <2>1. HeldJobs' = HeldJobs /\ PendingJobs' = PendingJobs
    BY <1>3, HoldingKept DEF JobInv, PendingJobs
  <2>2. CallOK(t, c)'
    BY <1>2, <1>3, <2>1 DEF CallOK
  <2>3. CallOK(t, NoCall)'
    BY AddingOK DEF Adding
  <2>4. CallOK(t, d)'
    BY <1>3, <2>2, <2>3
  <2>5. Open' = Open
    BY <1>3 DEF Open
  <2> QED
    BY <1>3, <2>4, <2>5, CallerQuiet DEF PoolStep
<1>4. CASE ResumeCreate(t)
  <2>1. c.at = "create" /\ job' = job
    BY <1>1, <1>4 DEF ResumeCreate, Awake
  <2>2. CASE CreateWorker(t, c) /\ UNCHANGED <<queueVars, phase, idVars>>
    <3>1. KeepsHolding /\ \E a \in {"create", "start"} : call' = [call EXCEPT ![t] = [c EXCEPT !.at = a]]
      BY <1>2, <2>1, <2>2, CreateWorkerHolds
    <3>2. PICK a \in {"create", "start"} : call' = [call EXCEPT ![t] = [c EXCEPT !.at = a]]
      BY <3>1
    <3>3. PICK e : e = [c EXCEPT !.at = a]
      OBVIOUS
    <3>4. e.op = c.op /\ e.job = c.job /\ e.at = a
      BY <1>2, <3>3 DEF Call
    <3>5. UNCHANGED <<queue, persistentJob, phase>> /\ Open' = Open
      BY <2>2 DEF Open, queueVars
    <3>6. HeldJobs' = HeldJobs /\ PendingJobs' = PendingJobs
      BY <3>1, <3>5, HoldingKept DEF JobInv, PendingJobs
    <3>7. CallOK(t, e)'
      BY <1>2, <2>1, <3>4, <3>5, <3>6 DEF CallOK
    <3> QED
      BY <1>1, <2>1, <3>1, <3>2, <3>3, <3>5, <3>7, CallerQuiet DEF PoolStep
  <2>3. CASE Continue(t, c, FALSE)
    BY <1>1, <2>1, <2>3, ContinuePlaces
  <2> QED
    BY <1>1, <1>4, <2>2, <2>3 DEF ResumeCreate
<1>5. CASE ResumeStart(t)
  <2>1. c.at = "start" /\ job' = job
    BY <1>1, <1>5 DEF ResumeStart, Awake
  <2>2. CASE Sleep(t, c) /\ UNCHANGED <<thread, pending, queueVars, phase, idVars>>
    BY <1>1, <1>3, <2>1, <2>2 DEF Sleep, KeepsHolding, queueVars
  <2>3. CASE Continue(t, c, TRUE)
    BY <1>1, <2>1, <2>3, ContinuePlaces
  <2> QED
    BY <1>1, <1>5, <2>2, <2>3 DEF ResumeStart
<1>6. CASE ResumePickup(t)
  <2>1. /\ UNCHANGED <<thread, job, queue, persistentJob, phase>>
        /\ Sleep(t, c) \/ (persistentJob = NoJob /\ Return(t))
    BY <1>1, <1>6 DEF ResumePickup, threadVars, queueVars
  <2> QED
    BY <1>1, <1>3, <2>1 DEF Sleep, Return, KeepsHolding
<1>7. CASE ResumeDrain(t)
  <2>1. /\ UNCHANGED <<thread, job, queue, persistentJob>> /\ c.at = "drain"
        /\ \/ Sleep(t, c) /\ UNCHANGED phase
           \/ Return(t) /\ phase' = "gone"
    <3>1. c.at = "drain" /\ UNCHANGED <<threadVars, queueVars>>
      BY <1>1, <1>7 DEF ResumeDrain, Awake
    <3>2. (Sleep(t, c) /\ UNCHANGED phase) \/ (Return(t) /\ phase' = "gone")
      BY <1>1, <1>7 DEF ResumeDrain
    <3> QED
      BY <3>1, <3>2 DEF threadVars, queueVars
  <2>2. CASE Sleep(t, c) /\ UNCHANGED phase
    BY <1>1, <1>3, <2>1, <2>2 DEF Sleep, KeepsHolding
  <2>3. CASE Return(t) /\ phase' = "gone"
    <3>1. t = Owner /\ phase = "shutdown"
      BY <1>2, <2>1 DEF CallOK
    <3>2. Open' = Open /\ KeepsHolding
      BY <2>1, <2>3, <3>1 DEF Open, KeepsHolding
    <3>3. CallOK(t, NoCall)'
      BY AddingOK DEF Adding
    <3> QED
      BY <1>1, <2>1, <2>3, <3>1, <3>2, <3>3, CallerQuiet DEF PoolStep, Return
  <2> QED
    BY <2>1, <2>2, <2>3
<1> QED
  BY <1>4, <1>5, <1>6, <1>7 DEF Resume

-------------------------------------------------------------------------------
(* The theorem                                                              *)

LEMMA InitJobInv == Init => JobInv /\ JP!JobPoolInit
<1> SUFFICES ASSUME Init PROVE JobInv /\ JP!JobPoolInit
  OBVIOUS
<1>1. HoldInv /\ HeldJobs = {}
  BY DEF Init, HoldInv, HeldJobs
<1>2. EachOnce(queue) /\ InQueues(queue) = {}
  <2>1. Elements(<<>>) = {} /\ NoRepeats(<<>>)
    BY DEF Elements, NoRepeats
  <2> QED
    BY <2>1 DEF Init, EachOnce, InQueues
<1>3. PendingJobs = {} /\ QueueInv /\ SlotInv /\ ApartInv
  BY <1>1, <1>2 DEF Init, PendingJobs, QueueInv, SlotInv, ApartInv
<1>4. CallInv
  <2>1. PICK d : d = [NoCall EXCEPT !.op = "init", !.at = "create"]
    OBVIOUS
  <2>2. d.op = "init" /\ d.at = "create" /\ NoCall.op = "none" /\ NoCall.at = "none"
    <3>1. [NoCall EXCEPT !.op = "init", !.at = "create"].op = "init"
      BY DEF NoCall
    <3>2. [NoCall EXCEPT !.op = "init", !.at = "create"].at = "create"
      BY DEF NoCall
    <3> QED
      BY <2>1, <3>1, <3>2 DEF NoCall
  <2>3. \A t \in Callers : call[t] = IF t = Owner THEN d ELSE NoCall
    BY <2>1 DEF Init
  <2>4. phase = "init"
    BY DEF Init
  <2> QED
    BY <2>2, <2>3, <2>4 DEF CallInv, CallOK
<1>5. JP!JobPoolInit
  <2>1. \A j \in Jobs : ~Running(j) /\ ~Pending(j)
    BY <1>1, <1>3, JobPlaces
  <2> QED
    BY <2>1 DEF Init, JP!JobPoolInit
<1> QED
  BY <1>1, <1>3, <1>4, <1>5 DEF JobInv

LEMMA NextPoolStep == ThreadInv /\ JobInv /\ OneSubmitter /\ [Next]_vars => PoolStep
<1> SUFFICES ASSUME ThreadInv, JobInv, OneSubmitter, [Next]_vars PROVE PoolStep
  OBVIOUS
<1>0. Submitters \subseteq Callers
  BY ThreadPoolAssumption
<1>1. ASSUME NEW w \in Workers, Worker(w) \/ WorkerTimesOut(w) \/ JobReturns(w) PROVE PoolStep
  BY <1>1, WorkerQuiet, WorkerPutsDown, WorkerPicksPersistent, WorkerPicksJob DEF Worker, PoolStep
<1>2. ASSUME NEW t \in Callers, Resume(t) PROVE PoolStep
  BY <1>2, ResumePlaces
<1>3. ASSUME NEW t \in Submitters, NEW j \in ShortJobs, ThreadPoolAdd(t, j) PROVE PoolStep
  BY <1>0, <1>3, ThreadPoolAddPlaces
<1>4. ASSUME NEW t \in LongSubmitters, NEW j \in LongJobs, ThreadPoolAddPersistent(t, j)
      PROVE  PoolStep
  BY <1>4, ThreadPoolAddPersistentPlaces
<1>5. ASSUME NEW t \in Removers, NEW id, ThreadPoolRemove(t, id) PROVE PoolStep
  BY <1>5, ThreadPoolRemovePlaces
<1>6. CASE ThreadPoolShutdown
  BY <1>6, ThreadPoolShutdownPlaces
<1>7. CASE UNCHANGED <<threadVars, call, sleepers, queue, persistentJob, countVars, pending, phase, idVars>>
  <2>1. KeepsHolding /\ UNCHANGED <<call, queue, persistentJob, phase>>
    BY <1>7 DEF threadVars, KeepsHolding
  <2> QED
    BY <2>1, QuietStep DEF PoolStep
<1>8. Tick \/ UNCHANGED vars =>
        UNCHANGED <<threadVars, call, sleepers, queue, persistentJob, countVars, pending, phase, idVars>>
  BY DEF Tick, vars, queueVars
<1> QED
  BY <1>1, <1>2, <1>3, <1>4, <1>5, <1>6, <1>7, <1>8 DEF Next

(* A job that was handed to ThreadPool.c waits in one place until a worker  *)
(* starts it, once, or it is removed, or the pool is shut down; at most     *)
(* maxThreads run.  The callers of ThreadPoolAddPersistent must not overlap: *)
(* the call writes the slot without looking whether it is free.             *)
THEOREM SpecImplementsJobPool == OneSubmitter => (Spec => ImplementsJobPool)
<1> SUFFICES ASSUME OneSubmitter PROVE Spec => ImplementsJobPool
  OBVIOUS
<1>1. ThreadInv /\ JobInv /\ [Next]_vars => JobInv'
  BY NextPoolStep DEF PoolStep
<1>2. ThreadInv /\ JobInv /\ [Next]_vars =>
        [JP!JobPoolNext]_<<[j \in Jobs |-> IF Running(j) THEN "running"
                                           ELSE IF Pending(j) THEN "waiting" ELSE "idle"],
                           phase \in {"init", "up"}>>
  BY NextPoolStep DEF PoolStep, JobState, Open
<1> QED
  BY <1>1, <1>2, InitJobInv, SpecThreadInv, PTL DEF Spec, ImplementsJobPool, JP!JobPoolSpec

-------------------------------------------------------------------------------
(* The order of requests                                                    *)

(* In a queue, and from one queue to the next, a job is not younger than    *)
(* the jobs of its priority behind it.                                      *)
InOrder(s, a) ==
    \A i, k \in 1..Len(s) : i < k /\ Priority[s[i]] = Priority[s[k]] => a[s[i]] >= a[s[k]]

NotYounger(A, B, a) == \A x \in A, y \in B : Priority[x] = Priority[y] => a[x] >= a[y]

QueuesInOrder(q, a) ==
    /\ \A p \in Priorities : InOrder(q[p], a)
    /\ NotYounger(Elements(q["high"]), Elements(q["med"]), a)
    /\ NotYounger(Elements(q["high"]), Elements(q["low"]), a)
    /\ NotYounger(Elements(q["med"]), Elements(q["low"]), a)

(* BumpPriority moves jobs up, never down.                                  *)
NoneBelow(q) ==
    /\ \A j \in Elements(q["med"]) : Priority[j] # "high"
    /\ \A j \in Elements(q["low"]) : Priority[j] = "low"

OrderInv == QueuesInOrder(queue, age) /\ NoneBelow(queue)

(* Splitting and joining queues in order.                                   *)
LEMMA SplitOrder ==
    ASSUME NEW q \in Seq(Jobs), NEW n \in 0..Len(q), NEW a, InOrder(q, a)
    PROVE  /\ InOrder(Front(q, n), a) /\ InOrder(Rest(q, n), a)
           /\ NotYounger(Elements(Front(q, n)), Elements(Rest(q, n)), a)
<1> DEFINE f == Front(q, n)
           r == Rest(q, n)
<1>1. n \in Int /\ n + 1 \in Int /\ Len(q) \in Nat /\ n <= Len(q) /\ 0 <= n
  OBVIOUS
<1>2. Len(f) = n /\ Len(r) = Len(q) - n
  BY SplitQueue
<1>3. \A i \in 1..n : f[i] = q[i]
  <2>1. \A i \in 1..n : q[i] \in Jobs
    BY <1>1
  <2>2. \A i \in 1..(n - 1 + 1) : f[i] = q[1 + i - 1]
    BY <1>1, <2>1, SubSeqProperties DEF Front
  <2> QED
    BY <1>1, <2>2
<1>4. \A i \in 1..(Len(q) - n) : r[i] = q[n + i]
  <2>1. \A i \in (n + 1)..Len(q) : q[i] \in Jobs
    BY <1>1
  <2>2. \A i \in 1..(Len(q) - (n + 1) + 1) : r[i] = q[n + 1 + i - 1]
    BY <1>1, <2>1, SubSeqProperties DEF Rest
  <2> QED
    BY <1>1, <2>2
<1> HIDE DEF f, r
<1>5. InOrder(f, a)
  BY <1>1, <1>2, <1>3 DEF InOrder
<1>6. InOrder(r, a)
  <2>1. ASSUME NEW i \in 1..(Len(q) - n), NEW k \in 1..(Len(q) - n), i < k
        PROVE  n + i \in 1..Len(q) /\ n + k \in 1..Len(q) /\ n + i < n + k
    BY <1>1, <2>1
  <2> QED
    BY <1>2, <1>4, <2>1 DEF InOrder
<1>7. NotYounger(Elements(f), Elements(r), a)
  <2>1. ASSUME NEW i \in 1..n, NEW k \in 1..(Len(q) - n), Priority[f[i]] = Priority[r[k]]
        PROVE  a[f[i]] >= a[r[k]]
    <3>1. i \in 1..Len(q) /\ n + k \in 1..Len(q) /\ i < n + k
      BY <1>1
    <3> QED
      BY <1>3, <1>4, <2>1, <3>1 DEF InOrder
  <2> QED
    BY <1>2, <2>1 DEF Elements, NotYounger
<1> QED
  BY <1>5, <1>6, <1>7 DEF f, r

LEMMA JoinOrder ==
    ASSUME NEW s \in Seq(Jobs), NEW t \in Seq(Jobs), NEW a, InOrder(s, a), InOrder(t, a),
           NotYounger(Elements(s), Elements(t), a)
    PROVE  InOrder(s \o t, a)
<1> DEFINE u == s \o t
           m == Len(s)
           n == Len(t)
<1>1. m \in Nat /\ n \in Nat
  OBVIOUS
<1>2. Len(u) = m + n /\ \A i \in 1..(m + n) : u[i] = IF i <= m THEN s[i] ELSE t[i - m]
  BY ConcatProperties
<1> HIDE DEF u
<1>3. \A i \in 1..(m + n) :
        \/ i \in 1..m /\ u[i] = s[i]
        \/ i > m /\ i - m \in 1..n /\ u[i] = t[i - m]
  BY <1>1, <1>2
<1>4. \A i \in 1..m, k \in 1..n : Priority[s[i]] = Priority[t[k]] => a[s[i]] >= a[t[k]]
  BY DEF NotYounger, Elements
<1>5. (\A i, k \in 1..m : i < k /\ Priority[s[i]] = Priority[s[k]] => a[s[i]] >= a[s[k]])
      /\ (\A i, k \in 1..n : i < k /\ Priority[t[i]] = Priority[t[k]] => a[t[i]] >= a[t[k]])
  BY DEF InOrder
<1> HIDE DEF m, n
<1>6. ASSUME NEW i \in 1..(m + n), NEW k \in 1..(m + n), i < k, Priority[u[i]] = Priority[u[k]]
      PROVE  a[u[i]] >= a[u[k]]
  <2>1. CASE i \in 1..m /\ u[i] = s[i]
    <3>1. CASE k \in 1..m /\ u[k] = s[k]
      BY <1>5, <1>6, <2>1, <3>1
    <3>2. CASE k - m \in 1..n /\ u[k] = t[k - m]
      BY <1>4, <1>6, <2>1, <3>2
    <3> QED
      BY <1>3, <3>1, <3>2
  <2>2. CASE i > m /\ i - m \in 1..n /\ u[i] = t[i - m]
    <3>1. k - m \in 1..n /\ u[k] = t[k - m] /\ i - m < k - m
      BY <1>1, <1>3, <1>6, <2>2
    <3> QED
      BY <1>5, <1>6, <2>2, <3>1
  <2> QED
    BY <1>3, <2>1, <2>2
<1> QED
  BY <1>2, <1>6 DEF InOrder, u

LEMMA AppendOrder ==
    ASSUME NEW q \in Seq(Jobs), NEW j \in Jobs, NEW a, InOrder(q, a), NotYounger(Elements(q), {j}, a)
    PROVE  InOrder(Append(q, j), a)
<1>1. <<j>> \in Seq(Jobs) /\ Elements(<<j>>) = {j} /\ InOrder(<<j>>, a)
  <2>1. <<j>> \in Seq(Jobs) /\ Len(<<j>>) = 1 /\ <<j>>[1] = j
    OBVIOUS
  <2>2. 1..1 = {1}
    OBVIOUS
  <2> QED
    BY <2>1, <2>2 DEF Elements, InOrder
<1>2. Append(q, j) = q \o <<j>>
  BY AppendIsConcat
<1> QED
  BY <1>1, <1>2, JoinOrder

LEMMA CutOrder ==
    ASSUME NEW q \in Seq(Jobs), NEW i \in 1..Len(q), NEW a, InOrder(q, a)
    PROVE  InOrder(Front(q, i - 1) \o Rest(q, i), a)
<1> DEFINE f == Front(q, i - 1)
           r == Rest(q, i)
<1>1. i - 1 \in 0..Len(q) /\ i \in 0..Len(q) /\ Len(q) \in Nat
  OBVIOUS
<1>2. f \in Seq(Jobs) /\ r \in Seq(Jobs) /\ Len(r) = Len(q) - i
  BY <1>1, SplitQueue
<1>3. InOrder(f, a) /\ InOrder(r, a) /\ NotYounger(Elements(f), Elements(Rest(q, i - 1)), a)
  BY <1>1, SplitOrder
<1>4. Elements(r) \subseteq Elements(Rest(q, i - 1))
  <2>1. Len(Rest(q, i - 1)) = Len(q) - (i - 1)
    BY <1>1, SplitQueue
  <2>2. \A k \in 1..(Len(q) - i) : r[k] = q[i + k]
    <3>1. \A k \in (i + 1)..Len(q) : q[k] \in Jobs
      BY <1>1
    <3>2. \A k \in 1..(Len(q) - (i + 1) + 1) : r[k] = q[i + 1 + k - 1]
      BY <1>1, <3>1, SubSeqProperties DEF Rest
    <3> QED
      BY <1>1, <3>2
  <2>3. \A k \in 1..(Len(q) - i + 1) : Rest(q, i - 1)[k] = q[i - 1 + k]
    <3>1. \A k \in i..Len(q) : q[k] \in Jobs
      BY <1>1
    <3>2. i - 1 + 1 = i
      BY <1>1
    <3>3. \A k \in 1..(Len(q) - i + 1) : SubSeq(q, i, Len(q))[k] = q[i + k - 1]
      BY <1>1, <3>1, SubSeqProperties
    <3> QED
      BY <1>1, <3>2, <3>3 DEF Rest
  <2> HIDE DEF r
  <2>4. ASSUME NEW k \in 1..(Len(q) - i) PROVE r[k] \in Elements(Rest(q, i - 1))
    <3>1. k + 1 \in 1..(Len(q) - i + 1) /\ i - 1 + (k + 1) = i + k
      BY <1>1
    <3>2. r[k] = Rest(q, i - 1)[k + 1]
      BY <2>2, <2>3, <3>1
    <3>3. k + 1 \in 1..Len(Rest(q, i - 1))
      BY <1>1, <2>1, <3>1
    <3> QED
      BY <3>2, <3>3 DEF Elements
  <2> QED
    BY <1>2, <2>4 DEF Elements
<1>5. NotYounger(Elements(f), Elements(r), a)
  BY <1>3, <1>4 DEF NotYounger
<1> QED
  BY <1>2, <1>3, <1>5, JoinOrder

LEMMA HeadOrder ==
    ASSUME NEW q \in Seq(Jobs), q # <<>>, NEW a, InOrder(q, a)
    PROVE  InOrder(Tail(q), a) /\ NotYounger({Head(q)}, Elements(Tail(q)), a)
<1> DEFINE t == Tail(q)
           n == Len(q)
<1>1. n \in Nat \ {0} /\ 1 \in 1..n
  BY EmptySeq
<1>2. Len(t) = n - 1 /\ Head(q) = q[1] /\ \A k \in 1..(n - 1) : t[k] = q[k + 1]
  BY <1>1, HeadTailProperties
<1> HIDE DEF t
<1>3. \A k \in 1..(n - 1) : k + 1 \in 1..n /\ 1 < k + 1
  BY <1>1
<1>4. InOrder(t, a)
  <2>1. \A i, k \in 1..(n - 1) : i < k => i + 1 < k + 1
    BY <1>1
  <2> QED
    BY <1>2, <1>3, <2>1, SMTT(30) DEF InOrder
<1>5. NotYounger({q[1]}, Elements(t), a)
  BY <1>1, <1>2, <1>3, SMTT(30) DEF NotYounger, Elements, InOrder
<1> QED
  BY <1>2, <1>4, <1>5 DEF t

(* BumpPriority keeps the order of requests, and takes no job down.         *)
LEMMA BumpedOrder ==
    ASSUME queue \in [Priorities -> Seq(Jobs)], NEW a, QueuesInOrder(queue, a), NoneBelow(queue)
    PROVE  QueuesInOrder(Bumped, a) /\ NoneBelow(Bumped)
<1> DEFINE m     == AgedPrefix(queue["med"], StarvationTime)
           l     == AgedPrefix(queue["low"], MaxIdleTime)
           first == Front(queue["med"], m)
           med   == Rest(queue["med"], m)
           moved == Front(queue["low"], l)
           low   == Rest(queue["low"], l)
           k     == IF med = <<>> THEN AgedPrefix(moved, StarvationTime) ELSE 0
           on    == Front(moved, k)
           stay  == Rest(moved, k)
           high1 == queue["high"] \o first
           H == Elements(queue["high"])
           M == Elements(queue["med"])
           L == Elements(queue["low"])
<1>1. queue["high"] \in Seq(Jobs) /\ queue["med"] \in Seq(Jobs) /\ queue["low"] \in Seq(Jobs)
  BY DEF Priorities
<1>2. m \in 0..Len(queue["med"]) /\ l \in 0..Len(queue["low"])
  BY <1>1, AgedPrefixBound
<1>3. first \in Seq(Jobs) /\ med \in Seq(Jobs) /\ moved \in Seq(Jobs) /\ low \in Seq(Jobs)
  BY <1>1, <1>2, SplitQueue
<1>4. k \in 0..Len(moved)
  <2>1. AgedPrefix(moved, StarvationTime) \in 0..Len(moved) /\ 0 \in 0..Len(moved)
    BY <1>3, AgedPrefixBound
  <2> QED
    BY <2>1
<1>5. on \in Seq(Jobs) /\ stay \in Seq(Jobs) /\ Len(on) = k
  BY <1>3, <1>4, SplitQueue
<1>6. Bumped = [high |-> high1 \o on, med |-> med \o stay, low |-> low]
  BY Zenon DEF Bumped
<1>7. /\ InOrder(queue["high"], a) /\ InOrder(queue["med"], a) /\ InOrder(queue["low"], a)
      /\ NotYounger(H, M, a) /\ NotYounger(H, L, a) /\ NotYounger(M, L, a)
  BY DEF QueuesInOrder, Priorities
<1>8. /\ M = Elements(first) \cup Elements(med) /\ InOrder(first, a) /\ InOrder(med, a)
      /\ NotYounger(Elements(first), Elements(med), a)
  BY <1>1, <1>2, <1>7, SplitElements, SplitOrder
<1>9. /\ L = Elements(moved) \cup Elements(low) /\ InOrder(moved, a) /\ InOrder(low, a)
      /\ NotYounger(Elements(moved), Elements(low), a)
  BY <1>1, <1>2, <1>7, SplitElements, SplitOrder
<1>10. /\ Elements(moved) = Elements(on) \cup Elements(stay) /\ InOrder(on, a) /\ InOrder(stay, a)
       /\ NotYounger(Elements(on), Elements(stay), a)
  BY <1>3, <1>4, <1>9, SplitElements, SplitOrder
<1>11. Elements(on) = {} \/ Elements(med) = {}
  <2>1. ASSUME NEW s, Len(s) = 0 PROVE Elements(s) = {}
    BY <2>1 DEF Elements
  <2>2. Len(<<>>) = 0
    OBVIOUS
  <2>3. CASE med = <<>>
    BY <2>1, <2>2, <2>3, Zenon
  <2>4. CASE med # <<>>
    <3>1. k = 0
      BY <2>4
    <3> QED
      BY <1>5, <2>1, <3>1
  <2> QED
    BY <2>3, <2>4
<1> HIDE DEF m, l, first, med, moved, low, k, on, stay, H, M, L
<1>12. high1 \in Seq(Jobs) /\ Elements(high1) = H \cup Elements(first) /\ InOrder(high1, a)
  <2>1. high1 \in Seq(Jobs)
    BY <1>1, <1>3, ConcatProperties, Zenon
  <2>2. NotYounger(H, Elements(first), a)
    BY <1>7, <1>8 DEF NotYounger
  <2> QED
    BY <1>1, <1>3, <1>7, <1>8, <2>1, <2>2, JoinElements, JoinOrder, Zenon DEF H
<1> HIDE DEF high1
<1>13. Elements(high1 \o on) = Elements(high1) \cup Elements(on) /\ InOrder(high1 \o on, a)
  <2>1. NotYounger(Elements(high1), Elements(on), a)
    BY <1>7, <1>8, <1>9, <1>10, <1>12 DEF NotYounger
  <2> QED
    BY <1>5, <1>10, <1>12, <2>1, JoinElements, JoinOrder, Zenon
<1>14. Elements(med \o stay) = Elements(med) \cup Elements(stay) /\ InOrder(med \o stay, a)
  <2>1. NotYounger(Elements(med), Elements(stay), a)
    BY <1>7, <1>8, <1>9, <1>10 DEF NotYounger
  <2> QED
    BY <1>3, <1>5, <1>8, <1>10, <2>1, JoinElements, JoinOrder, Zenon
<1>15. /\ Bumped["high"] = high1 \o on /\ Bumped["med"] = med \o stay /\ Bumped["low"] = low
  BY <1>6
<1>16. NotYounger(Elements(Bumped["high"]), Elements(Bumped["med"]), a)
  BY <1>7, <1>8, <1>9, <1>10, <1>11, <1>12, <1>13, <1>14, <1>15 DEF NotYounger
<1>17. NotYounger(Elements(Bumped["high"]), Elements(Bumped["low"]), a)
  BY <1>7, <1>8, <1>9, <1>10, <1>12, <1>13, <1>15 DEF NotYounger
<1>18. NotYounger(Elements(Bumped["med"]), Elements(Bumped["low"]), a)
  BY <1>7, <1>8, <1>9, <1>10, <1>14, <1>15 DEF NotYounger
<1>19. \A p \in Priorities : InOrder(Bumped[p], a)
  BY <1>9, <1>13, <1>14, <1>15 DEF Priorities
<1>20. Elements(Bumped["med"]) \subseteq M \cup L /\ Elements(Bumped["low"]) \subseteq L
  BY <1>8, <1>9, <1>10, <1>14, <1>15
<1>21. NoneBelow(Bumped)
  BY <1>20 DEF NoneBelow, M, L
<1> QED
  BY <1>16, <1>17, <1>18, <1>19, <1>21 DEF QueuesInOrder

(* A queue that only loses jobs, and ages that change together.             *)
LEMMA ShorterOrder ==
    ASSUME NEW q \in [Priorities -> Seq(Jobs)], NEW a, QueuesInOrder(q, a), NoneBelow(q),
           NEW p \in Priorities, NEW s, InOrder(s, a), Elements(s) \subseteq Elements(q[p])
    PROVE  QueuesInOrder([q EXCEPT ![p] = s], a) /\ NoneBelow([q EXCEPT ![p] = s])
<1> DEFINE d == [q EXCEPT ![p] = s]
<1>1. /\ \A r \in Priorities : Elements(d[r]) \subseteq Elements(q[r])
      /\ \A r \in Priorities : InOrder(d[r], a)
  BY DEF QueuesInOrder
<1> HIDE DEF d
<1>2. /\ Elements(d["high"]) \subseteq Elements(q["high"])
      /\ Elements(d["med"]) \subseteq Elements(q["med"])
      /\ Elements(d["low"]) \subseteq Elements(q["low"])
  BY <1>1 DEF Priorities
<1>3. QueuesInOrder(d, a) /\ NoneBelow(d)
  BY <1>1, <1>2 DEF QueuesInOrder, NotYounger, NoneBelow
<1> QED
  BY <1>3 DEF d

LEMMA AgesOrder ==
    ASSUME NEW q, NEW a, NEW b, QueuesInOrder(q, a),
           \A j, k \in InQueues(q) : a[j] >= a[k] => b[j] >= b[k]
    PROVE  QueuesInOrder(q, b)
<1>1. \A p \in Priorities : \A i \in 1..Len(q[p]) : q[p][i] \in InQueues(q)
  BY DEF InQueues, Elements
<1>2. \A p \in Priorities : InOrder(q[p], b)
  BY <1>1 DEF QueuesInOrder, InOrder
<1>3. /\ Elements(q["high"]) \subseteq InQueues(q) /\ Elements(q["med"]) \subseteq InQueues(q)
      /\ Elements(q["low"]) \subseteq InQueues(q)
  BY DEF InQueues, Priorities
<1> QED
  BY <1>2, <1>3 DEF QueuesInOrder, NotYounger

(* The job WorkerThread dequeues is not younger than those of its priority  *)
(* that stay.                                                               *)
LEMMA DequeuedOrder ==
    ASSUME queue \in [Priorities -> Seq(Jobs)], EachOnce(queue), TotalJobs > 0,
           NEW a, QueuesInOrder(queue, a), NoneBelow(queue),
           NEW p, p = HighestPriority(Bumped)
    PROVE  LET d == [Bumped EXCEPT ![p] = Tail(@)]
           IN  /\ QueuesInOrder(d, a) /\ NoneBelow(d)
               /\ NotYounger({Head(Bumped[p])}, InQueues(d), a)
<1>1. /\ Bumped \in [Priorities -> Seq(Jobs)] /\ EachOnce(Bumped)
      /\ Len(Bumped["high"]) + Len(Bumped["med"]) + Len(Bumped["low"]) > 0
      /\ QueuesInOrder(Bumped, a) /\ NoneBelow(Bumped)
  BY BumpedQueues, BumpedElements, BumpedOrder
<1>2. p \in Priorities
  BY DEF HighestPriority, Priorities
<1>3. Bumped[p] \in Seq(Jobs) /\ NoRepeats(Bumped[p]) /\ InOrder(Bumped[p], a)
  BY <1>1, <1>2 DEF EachOnce, QueuesInOrder
<1>4. Elements(<<>>) = {}
  BY DEF Elements
<1>5. Bumped[p] # <<>>
  <2>1. Len(<<>>) = 0
    OBVIOUS
  <2>2. ~(Bumped["high"] = <<>> /\ Bumped["med"] = <<>> /\ Bumped["low"] = <<>>)
    <3> SUFFICES ASSUME Bumped["high"] = <<>>, Bumped["med"] = <<>>, Bumped["low"] = <<>>
                 PROVE  FALSE
      OBVIOUS
    <3>1. Len(Bumped["high"]) = 0 /\ Len(Bumped["med"]) = 0 /\ Len(Bumped["low"]) = 0
      BY <2>1, Zenon
    <3> QED BY <1>1, <3>1
  <2> QED BY <2>2 DEF HighestPriority
<1>6. /\ Head(Bumped[p]) \in Elements(Bumped[p])
      /\ Elements(Tail(Bumped[p])) = Elements(Bumped[p]) \ {Head(Bumped[p])}
  BY <1>3, <1>5, HeadElements, Zenon
<1>7. /\ InOrder(Tail(Bumped[p]), a)
      /\ NotYounger({Head(Bumped[p])}, Elements(Tail(Bumped[p])), a)
  BY <1>3, <1>5, HeadOrder, Zenon
<1> DEFINE d == [Bumped EXCEPT ![p] = Tail(Bumped[p])]
<1>8. QueuesInOrder(d, a) /\ NoneBelow(d)
  <2>1. Elements(Tail(Bumped[p])) \subseteq Elements(Bumped[p])
    BY <1>6
  <2> QED
    BY <1>1, <1>2, <1>7, <2>1, ShorterOrder, Zenon
<1>9. d[p] = Tail(Bumped[p]) /\ \A r \in Priorities \ {p} : d[r] = Bumped[r]
  BY <1>1, <1>2
<1> HIDE DEF d
<1>10. PICK h : h = Head(Bumped[p])
  OBVIOUS
<1>11. \A r \in Priorities : NotYounger({h}, Elements(d[r]), a)
  <2>1. NotYounger({h}, Elements(d[p]), a)
    BY <1>7, <1>9, <1>10
  <2>2. CASE p = "high"
    BY <1>1, <1>6, <1>9, <1>10, <2>1, <2>2, ZenonT(30) DEF Priorities, QueuesInOrder, NotYounger
  <2>3. CASE p = "med"
    <3>1. Bumped["high"] = <<>>
      BY <2>3 DEF HighestPriority
    <3>2. Elements(d["high"]) = {}
      BY <1>4, <1>9, <2>3, <3>1, Zenon DEF Priorities
    <3>3. NotYounger({h}, Elements(d["low"]), a)
      BY <1>1, <1>6, <1>9, <1>10, <2>3 DEF Priorities, QueuesInOrder, NotYounger
    <3> QED
      BY <2>1, <2>3, <3>2, <3>3 DEF Priorities, NotYounger
  <2>4. CASE p = "low"
    <3>1. Bumped["high"] = <<>> /\ Bumped["med"] = <<>>
      BY <2>4 DEF HighestPriority
    <3>2. Elements(d["high"]) = {} /\ Elements(d["med"]) = {}
      BY <1>4, <1>9, <2>4, <3>1, Zenon DEF Priorities
    <3> QED
      BY <2>1, <2>4, <3>2 DEF Priorities, NotYounger
  <2> QED
    BY <1>2, <2>2, <2>3, <2>4 DEF Priorities
<1>12. NotYounger({h}, InQueues(d), a)
  BY <1>11 DEF NotYounger, InQueues
<1> QED
  BY <1>8, <1>10, <1>12 DEF d

LEMMA AgeReset ==
    ASSUME NEW q, NEW a \in [Jobs -> 0..MaxAge], QueuesInOrder(q, a), InQueues(q) \subseteq Jobs,
           NEW x, x \notin InQueues(q)
    PROVE  QueuesInOrder(q, [a EXCEPT ![x] = 0])
<1> DEFINE b == [a EXCEPT ![x] = 0]
<1>1. \A j \in InQueues(q) : b[j] = a[j]
  OBVIOUS
<1> HIDE DEF b
<1>2. QueuesInOrder(q, b)
  BY <1>1, AgesOrder
<1> QED
  BY <1>2 DEF b

(* ThreadPoolShutdown leaves nothing to be in order.                        *)
LEMMA EmptyOrder ==
    ASSUME NEW q, q = [p \in Priorities |-> <<>>], NEW a
    PROVE  QueuesInOrder(q, a) /\ NoneBelow(q)
<1>1. Elements(<<>>) = {} /\ InOrder(<<>>, a)
  BY DEF Elements, InOrder
<1>2. \A p \in Priorities : Elements(q[p]) = {} /\ InOrder(q[p], a)
  BY <1>1
<1> QED
  BY <1>2 DEF Priorities, QueuesInOrder, NoneBelow, NotYounger

(* Each kind of step keeps the order.                                       *)
LEMMA WorkerOrder ==
    ASSUME ThreadInv, JobInv, OrderInv, NEW w \in Workers,
           Worker(w) \/ WorkerTimesOut(w) \/ JobReturns(w)
    PROVE  OrderInv'
<1>1. /\ queue \in [Priorities -> Seq(Jobs)] /\ age \in [Jobs -> 0..MaxAge]
      /\ EachOnce(queue) /\ InQueues(queue) \subseteq ShortJobs
      /\ QueuesInOrder(queue, age) /\ NoneBelow(queue)
  BY DEF ThreadInv, TypeOK, JobInv, QueueInv, OrderInv
<1>2. CASE UNCHANGED <<queue, age>>
  BY <1>2 DEF OrderInv
<1>3. CASE queue' = Bumped /\ UNCHANGED age
  BY <1>1, <1>3, BumpedOrder DEF OrderInv
<1>4. CASE WorkerTakesPersistent(w)
  <2>1. /\ queue' = Bumped /\ age' = [age EXCEPT ![persistentJob] = 0] /\ persistentJob # NoJob
    BY <1>4 DEF WorkerTakesPersistent, Takes
  <2>2. QueuesInOrder(queue', age) /\ NoneBelow(queue') /\ InQueues(queue') \subseteq ShortJobs
    BY <1>1, <2>1, BumpedOrder, BumpedElements
  <2>3. InQueues(queue') \subseteq Jobs /\ persistentJob \notin InQueues(queue')
    BY <2>1, <2>2, ThreadPoolAssumption DEF JobInv, SlotInv, Jobs
  <2>4. QueuesInOrder(queue', age')
    BY <1>1, <2>1, <2>2, <2>3, AgeReset
  <2> QED
    BY <2>2, <2>4 DEF OrderInv
<1>5. CASE WorkerTakesJob(w)
  <2>1. PICK p : p = HighestPriority(Bumped)
    OBVIOUS
  <2>2. PICK j : j = Head(Bumped[p])
    OBVIOUS
  <2>3. /\ TotalJobs > 0 /\ age' = [age EXCEPT ![j] = 0]
        /\ queue' = [Bumped EXCEPT ![p] = Tail(@)]
    BY <1>5, <2>1, <2>2 DEF WorkerTakesJob, Takes
  <2>4. InQueues(queue') = InQueues(queue) \ {j}
    BY <1>1, <2>1, <2>2, <2>3, DequeuedElements
  <2>5. QueuesInOrder(queue', age) /\ NoneBelow(queue')
    BY <1>1, <2>1, <2>2, <2>3, DequeuedOrder
  <2>6. InQueues(queue') \subseteq Jobs /\ j \notin InQueues(queue')
    BY <1>1, <2>4 DEF Jobs
  <2>7. QueuesInOrder(queue', age')
    BY <1>1, <2>3, <2>5, <2>6, AgeReset
  <2> QED
    BY <2>5, <2>7 DEF OrderInv
<1>6. CASE WorkerExits(w)
  BY <1>2, <1>3, <1>6 DEF WorkerExits
<1>7. CASE WorkerStarts(w) \/ WorkerWaits(w) \/ WorkerTimesOut(w) \/ JobReturns(w)
  BY <1>2, <1>7 DEF WorkerStarts, WorkerWaits, WorkerTimesOut, JobReturns, queueVars
<1> QED
  BY <1>4, <1>5, <1>6, <1>7 DEF Worker

(* A job joins the queue of its priority, where nothing below is of its     *)
(* priority, as the youngest.                                               *)
LEMMA ThreadPoolAddOrder ==
    ASSUME ThreadInv, JobInv, OrderInv, NEW t \in Submitters, NEW j \in ShortJobs, ThreadPoolAdd(t, j)
    PROVE  OrderInv'
<1>1. /\ queue \in [Priorities -> Seq(Jobs)] /\ age \in [Jobs -> 0..MaxAge]
      /\ InQueues(queue) \subseteq ShortJobs /\ j \in Jobs
      /\ QueuesInOrder(queue, age) /\ NoneBelow(queue)
  BY DEF ThreadInv, TypeOK, JobInv, QueueInv, OrderInv, Jobs
<1>2. PICK p : p = Priority[j]
  OBVIOUS
<1>3. p \in Priorities /\ queue[p] \in Seq(Jobs)
  BY <1>1, <1>2, ThreadPoolAssumption
<1>4. /\ Idle(j) /\ queue' = [queue EXCEPT ![p] = Append(queue[p], j)] /\ age' = [age EXCEPT ![j] = 0]
  BY <1>2 DEF ThreadPoolAdd
<1>5. j \notin InQueues(queue)
  BY <1>4, QueuedElements DEF Idle, Pending
<1>6. QueuesInOrder(queue, age')
  BY <1>1, <1>4, <1>5, AgeReset DEF Jobs
<1>7. age'[j] = 0 /\ \A k \in InQueues(queue) : age'[k] \in Nat
  BY <1>1, <1>4, MaxAgeNat DEF Jobs
<1> DEFINE s == Append(queue[p], j)
<1>8. Elements(s) = Elements(queue[p]) \cup {j}
  BY <1>1, <1>3, AppendElements
<1>9. InOrder(s, age')
  <2>1. InOrder(queue[p], age')
    BY <1>3, <1>6 DEF QueuesInOrder
  <2>2. NotYounger(Elements(queue[p]), {j}, age')
    BY <1>3, <1>7 DEF NotYounger, InQueues
  <2> QED
    BY <1>1, <1>3, <2>1, <2>2, AppendOrder
<1>10. queue'[p] = s /\ \A r \in Priorities \ {p} : queue'[r] = queue[r]
  BY <1>1, <1>3, <1>4
<1> HIDE DEF s
<1>11. \A r \in Priorities : InOrder(queue'[r], age')
  BY <1>6, <1>9, <1>10 DEF QueuesInOrder
<1>12. \A r \in Priorities : Elements(queue'[r]) =
                               IF r = p THEN Elements(queue[r]) \cup {j} ELSE Elements(queue[r])
  BY <1>8, <1>10
<1>13. \A r \in Priorities : \A x \in Elements(queue[r]) : age'[x] >= age'[j]
  BY <1>7 DEF InQueues
<1>14. NotYounger(Elements(queue'["high"]), Elements(queue'["med"]), age')
  BY <1>2, <1>6, <1>12, <1>13, <1>1 DEF Priorities, QueuesInOrder, NotYounger, NoneBelow
<1>15. NotYounger(Elements(queue'["high"]), Elements(queue'["low"]), age')
  BY <1>2, <1>6, <1>12, <1>13, <1>1 DEF Priorities, QueuesInOrder, NotYounger, NoneBelow
<1>16. NotYounger(Elements(queue'["med"]), Elements(queue'["low"]), age')
  BY <1>2, <1>6, <1>12, <1>13, <1>1 DEF Priorities, QueuesInOrder, NotYounger, NoneBelow
<1>17. NoneBelow(queue')
  BY <1>1, <1>2, <1>12 DEF Priorities, NoneBelow
<1> QED
  BY <1>11, <1>14, <1>15, <1>16, <1>17 DEF OrderInv, QueuesInOrder

LEMMA ThreadPoolRemoveOrder ==
    ASSUME ThreadInv, JobInv, OrderInv, NEW t \in Removers, NEW id, ThreadPoolRemove(t, id)
    PROVE  OrderInv'
<1>1. /\ queue \in [Priorities -> Seq(Jobs)] /\ age \in [Jobs -> 0..MaxAge]
      /\ EachOnce(queue) /\ InQueues(queue) \subseteq ShortJobs
      /\ QueuesInOrder(queue, age) /\ NoneBelow(queue)
  BY DEF ThreadInv, TypeOK, JobInv, QueueInv, OrderInv
<1>2. age' = [j \in Jobs |-> IF Pending(j)' THEN age[j] ELSE 0]
  BY DEF ThreadPoolRemove
<1>3. QueuesInOrder(queue', age) /\ NoneBelow(queue') /\ InQueues(queue') \subseteq ShortJobs
  <2>1. CASE UNCHANGED queue
    BY <1>1, <2>1
  <2>2. ASSUME NEW p \in Priorities, NEW i \in 1..Len(queue[p]),
               queue' = [queue EXCEPT ![p] = Front(@, i - 1) \o Rest(@, i)]
        PROVE  QueuesInOrder(queue', age) /\ NoneBelow(queue') /\ InQueues(queue') \subseteq ShortJobs
    <3> DEFINE s == Front(queue[p], i - 1) \o Rest(queue[p], i)
    <3>1. queue[p] \in Seq(Jobs) /\ NoRepeats(queue[p]) /\ InOrder(queue[p], age)
      BY <1>1 DEF EachOnce, QueuesInOrder
    <3>2. Elements(s) \subseteq Elements(queue[p])
      BY <3>1, CutElements
    <3>3. InOrder(s, age)
      BY <3>1, CutOrder
    <3>4. queue' = [queue EXCEPT ![p] = s]
      BY <2>2
    <3> HIDE DEF s
    <3>5. QueuesInOrder(queue', age) /\ NoneBelow(queue')
      BY <1>1, <3>2, <3>3, <3>4, ShorterOrder
    <3>6. \A r \in Priorities : Elements(queue'[r]) \subseteq Elements(queue[r])
      BY <1>1, <3>2, <3>4
    <3>7. InQueues(queue') \subseteq InQueues(queue)
      BY <3>6 DEF InQueues
    <3> QED
      BY <1>1, <3>5, <3>7
  <2>3. \/ UNCHANGED queue
        \/ \E p \in Priorities : \E i \in 1..Len(queue[p]) :
             queue' = [queue EXCEPT ![p] = Front(@, i - 1) \o Rest(@, i)]
    BY DEF ThreadPoolRemove, Priorities
  <2> QED
    BY <2>1, <2>2, <2>3
<1>4. \A j \in InQueues(queue') : age'[j] = age[j]
  <2>1. \A j \in InQueues(queue') : Pending(j)'
    BY DEF Pending, Queued, InQueues, Elements
  <2> QED
    BY <1>2, <1>3, <2>1 DEF Jobs
<1>5. QueuesInOrder(queue', age')
  BY <1>3, <1>4, AgesOrder
<1> QED
  BY <1>3, <1>5 DEF OrderInv

LEMMA CallerOrder ==
    ASSUME ThreadInv, JobInv, OrderInv, NEW t \in Callers, Resume(t)
    PROVE  OrderInv'
<1>1. /\ queue \in [Priorities -> Seq(Jobs)] /\ age \in [Jobs -> 0..MaxAge]
      /\ InQueues(queue) \subseteq ShortJobs
      /\ QueuesInOrder(queue, age) /\ NoneBelow(queue) /\ CallOK(t, call[t])
  BY DEF ThreadInv, TypeOK, JobInv, QueueInv, CallInv, OrderInv
<1>2. CASE UNCHANGED <<queue, age>>
  BY <1>2 DEF OrderInv
<1>3. CASE BeginShutdown(t)
  <2>1. queue' = [p \in Priorities |-> <<>>]
    BY <1>3 DEF BeginShutdown
  <2> QED
    BY <2>1, EmptyOrder DEF OrderInv
<1>4. CASE /\ call[t].op = "addPersistent"
           /\ PlacePersistent(t, call[t]) /\ UNCHANGED queue
  <2>1. age' = [age EXCEPT ![call[t].job] = 0] /\ queue' = queue
    BY <1>4 DEF PlacePersistent
  <2>2. call[t].job \notin InQueues(queue) /\ InQueues(queue) \subseteq Jobs
    BY <1>1, <1>4, ThreadPoolAssumption DEF CallOK, Jobs
  <2>3. QueuesInOrder(queue, age')
    BY <1>1, <2>1, <2>2, AgeReset
  <2> QED
    BY <1>1, <2>1, <2>3 DEF OrderInv
<1>5. ASSUME NEW ok \in BOOLEAN, Continue(t, call[t], ok) PROVE OrderInv'
  BY <1>2, <1>3, <1>4, <1>5 DEF Continue, InitWorkers, queueVars
<1> QED
  BY <1>2, <1>5 DEF Resume, ResumeCreate, ResumeStart, ResumePickup, ResumeDrain, queueVars

LEMMA ThreadPoolAddPersistentOrder ==
    ASSUME ThreadInv, JobInv, OrderInv, NEW t \in LongSubmitters, NEW j \in LongJobs,
           ThreadPoolAddPersistent(t, j)
    PROVE  OrderInv'
<1>1. /\ queue \in [Priorities -> Seq(Jobs)] /\ age \in [Jobs -> 0..MaxAge]
      /\ InQueues(queue) \subseteq ShortJobs
      /\ QueuesInOrder(queue, age) /\ NoneBelow(queue)
  BY DEF ThreadInv, TypeOK, JobInv, QueueInv, OrderInv
<1>2. [NoCall EXCEPT !.op = "addPersistent", !.job = j].job = j
  BY DEF NoCall
<1>3. queue' = queue /\ (age' = age \/ age' = [age EXCEPT ![j] = 0])
  BY <1>2 DEF ThreadPoolAddPersistent, PlacePersistent
<1>4. j \notin InQueues(queue) /\ InQueues(queue) \subseteq Jobs
  BY <1>1, ThreadPoolAssumption DEF Jobs
<1>5. QueuesInOrder(queue, age')
  BY <1>1, <1>3, <1>4, AgeReset
<1> QED
  BY <1>1, <1>3, <1>5 DEF OrderInv

LEMMA TickOrder ==
    ASSUME ThreadInv, JobInv, OrderInv, Tick
    PROVE  OrderInv'
<1>1. /\ age \in [Jobs -> 0..MaxAge] /\ InQueues(queue) \subseteq Jobs
      /\ QueuesInOrder(queue, age) /\ NoneBelow(queue) /\ queue' = queue
  BY DEF ThreadInv, TypeOK, JobInv, QueueInv, OrderInv, Jobs, Tick
<1>2. \A j \in InQueues(queue) : age'[j] = IF age[j] < MaxAge THEN age[j] + 1 ELSE age[j]
  BY <1>1, QueuedElements DEF Tick
<1>3. \A j \in InQueues(queue) : age[j] \in 0..MaxAge
  BY <1>1
<1>4. \A j, k \in InQueues(queue) : age[j] >= age[k] => age'[j] >= age'[k]
  BY <1>2, <1>3, MaxAgeNat
<1>5. QueuesInOrder(queue, age')
  BY <1>1, <1>4, AgesOrder
<1> QED
  BY <1>1, <1>5 DEF OrderInv

LEMMA NextOrderInv == ThreadInv /\ JobInv /\ OrderInv /\ [Next]_vars => OrderInv'
<1> SUFFICES ASSUME ThreadInv, JobInv, OrderInv, [Next]_vars PROVE OrderInv'
  OBVIOUS
<1>1. CASE ThreadPoolShutdown
  <2>1. queue' = [p \in Priorities |-> <<>>]
    BY <1>1 DEF ThreadPoolShutdown, BeginShutdown
  <2> QED
    BY <2>1, EmptyOrder DEF OrderInv
<1>2. CASE UNCHANGED vars
  BY <1>2 DEF OrderInv, vars, queueVars
<1> QED
  BY <1>1, <1>2, WorkerOrder, CallerOrder, ThreadPoolAddOrder, ThreadPoolAddPersistentOrder,
     ThreadPoolRemoveOrder, TickOrder DEF Next

LEMMA InitOrderInv == Init => OrderInv
  BY EmptyOrder DEF Init, OrderInv

(* Only WorkerThread's dequeuing starts a job of the queues.                *)
LEMMA OneJobStarts ==
    ASSUME ThreadInv, JobInv, [Next]_vars
    PROVE  \/ \E w \in Workers : WorkerTakesJob(w)
           \/ HeldJobs' \subseteq HeldJobs \cup LongJobs
<1>1. ASSUME NEW w \in Workers, NEW j \in LongJobs \cup {NoJob}, job' = [job EXCEPT ![w] = j]
      PROVE  HeldJobs' \subseteq HeldJobs \cup LongJobs
  <2>1. \A v \in Workers : job'[v] = IF v = w THEN j ELSE job[v]
    BY <1>1 DEF ThreadInv, TypeOK
  <2> QED
    BY <2>1 DEF HeldJobs
<1>2. job' = job => HeldJobs' \subseteq HeldJobs \cup LongJobs
  BY DEF HeldJobs
<1>3. ASSUME NEW w \in Workers, Worker(w) \/ WorkerTimesOut(w) \/ JobReturns(w)
      PROVE  WorkerTakesJob(w) \/ HeldJobs' \subseteq HeldJobs \cup LongJobs
  <2>1. CASE WorkerTakesPersistent(w)
    <3>1. /\ job' = [job EXCEPT ![w] = persistentJob] /\ persistentJob \in LongJobs \cup {NoJob}
      BY <2>1 DEF WorkerTakesPersistent, Takes, JobInv, SlotInv
    <3> QED
      BY <1>1, <3>1
  <2>2. CASE WorkerWaits(w) \/ WorkerExits(w)
    BY <1>1, <2>2 DEF WorkerWaits, WorkerExits
  <2>3. CASE WorkerStarts(w) \/ WorkerTimesOut(w) \/ JobReturns(w)
    BY <1>2, <2>3 DEF WorkerStarts, WorkerTimesOut, JobReturns
  <2> QED
    BY <1>3, <2>1, <2>2, <2>3 DEF Worker
<1>4. ASSUME NEW t \in Callers, Resume(t) PROVE job' = job
  BY <1>4 DEF Resume, ResumeCreate, ResumeStart, ResumePickup, ResumeDrain, threadVars
<1>5. (\E t \in Submitters : \E j \in ShortJobs : ThreadPoolAdd(t, j))
      \/ (\E t \in LongSubmitters : \E j \in LongJobs : ThreadPoolAddPersistent(t, j))
      \/ (\E t \in Removers, id \in {handed[j] : j \in Jobs} : ThreadPoolRemove(t, id))
      \/ ThreadPoolShutdown \/ Tick \/ UNCHANGED vars => job' = job
  BY DEF ThreadPoolAdd, ThreadPoolAddPersistent, ThreadPoolRemove, ThreadPoolShutdown, Tick, vars, threadVars
<1> QED
  BY <1>2, <1>3, <1>4, <1>5 DEF Next

(* Of two jobs of one priority that wait, the later request does not start  *)
(* while the earlier one goes on waiting.                                   *)
LEMMA EarlierFirst ==
    ASSUME ThreadInv, JobInv, OrderInv, OneSubmitter, [Next]_vars,
           NEW j \in ShortJobs, NEW k \in ShortJobs, Pending(j), Pending(k),
           Priority[j] = Priority[k], age[k] > age[j], Running(j)'
    PROVE  ~Pending(k)'
<1>1. HoldInv /\ HoldInv' /\ JobInv' /\ j \in Jobs /\ k \in Jobs
  BY NextPoolStep DEF PoolStep, JobInv, Jobs
<1>2. j \in PendingJobs /\ j \notin HeldJobs /\ j \in HeldJobs'
  BY <1>1, JobPlaces, JobPlacesNext DEF JobInv, ApartInv
<1>3. j \notin LongJobs /\ k \notin LongJobs
  BY ThreadPoolAssumption
<1>4. PICK w \in Workers : WorkerTakesJob(w)
  BY <1>2, <1>3, OneJobStarts
<1>5. PICK p : p = HighestPriority(Bumped)
  OBVIOUS
<1>6. PICK h : h = Head(Bumped[p])
  OBVIOUS
<1>7. /\ TotalJobs > 0 /\ job' = [job EXCEPT ![w] = h] /\ persistentJob' = persistentJob
      /\ persistentJob = NoJob /\ queue' = [Bumped EXCEPT ![p] = Tail(@)]
  BY <1>4, <1>5, <1>6 DEF WorkerTakesJob, Takes
<1>8. j = h
  <2>1. \A v \in Workers : job'[v] = IF v = w THEN h ELSE job[v]
    BY <1>7 DEF ThreadInv, TypeOK
  <2> QED
    BY <1>2, <2>1 DEF HeldJobs
<1>9. NotYounger({h}, InQueues(queue'), age)
  BY <1>5, <1>6, <1>7, DequeuedOrder DEF ThreadInv, TypeOK, JobInv, QueueInv, OrderInv
<1>10. age[j] \in Int /\ age[k] \in Int
  BY <1>1, MaxAgeNat DEF ThreadInv, TypeOK
<1>11. k \notin InQueues(queue')
  BY <1>8, <1>9, <1>10 DEF NotYounger
<1>12. k \notin PendingJobs'
  BY <1>7, <1>11 DEF PendingJobs
<1> QED
  BY <1>1, <1>12, JobPlacesNext

(* However BumpPriority and time move the jobs of the queues, jobs of one   *)
(* priority start in the order of their requests.                           *)
THEOREM SpecFifoWithinPriority == OneSubmitter => (Spec => FifoWithinPriority)
<1> SUFFICES ASSUME OneSubmitter PROVE Spec => FifoWithinPriority
  OBVIOUS
<1>1. ThreadInv /\ JobInv /\ [Next]_vars => JobInv'
  BY NextPoolStep DEF PoolStep
<1>2. ThreadInv /\ JobInv /\ OrderInv /\ [Next]_vars =>
        [\A j, k \in ShortJobs :
           Pending(j) /\ Pending(k) /\ Priority[j] = Priority[k] /\ age[k] > age[j] /\ Running(j)'
             => ~Pending(k)']_vars
  BY EarlierFirst
<1>3. Init => JobInv
  BY InitJobInv
<1> QED
  BY <1>1, <1>2, <1>3, InitOrderInv, NextOrderInv, SpecThreadInv, PTL DEF Spec, FifoWithinPriority

-------------------------------------------------------------------------------
(* A queued job is not left to sleeping workers                             *)

(* A worker that runs no persistent job and will look for work by itself.   *)
OnDuty(w) == w \notin long /\ thread[w] \notin {"none", "waiting"}
SomeWait  == \E w \in Workers : thread[w] = "waiting"
NoAdder   == \A t \in Callers : call[t].op # "add"

LongHeld     == \A w \in long : job[w] \in LongJobs
AddersCreate == \A t \in Callers : call[t].op = "add" => call[t].at \in {"create", "start"}

(* As long as a worker could be woken, one is on duty for the job in the    *)
(* slot and another for the queues: the first one is lost to them when it   *)
(* takes the persistent job.                                                *)
NoticedInv ==
    phase = "up" /\ SomeWait =>
        /\ persistentJob # NoJob => \E w \in Workers : OnDuty(w)
        /\ TotalJobs > 0 /\ NoAdder =>
             \E v \in Workers :
                /\ OnDuty(v)
                /\ persistentJob # NoJob => \E w \in Workers \ {v} : OnDuty(w)

DutyInv == LongHeld /\ AddersCreate /\ NoticedInv

(* The persistent jobs leave a worker: UpnpInit submits one to a pool that  *)
(* keeps MIN_THREADS = 2 threads (config.h).                                *)
WorkerToSpare == IsFiniteSet(LongJobs) /\ Cardinality(LongJobs) < MinThreads

LEMMA LongRuns ==
    ASSUME ThreadInv, JobInv, LongHeld, NEW w \in Workers, w \in long
    PROVE  thread[w] \in {"running", "finished"}
  BY ThreadPoolAssumption DEF JobInv, HoldInv, LongHeld, Jobs

LEMMA SpareWorker ==
    ASSUME ThreadInv, JobInv, LongHeld, WorkerToSpare, totalThreads >= MinThreads
    PROVE  \E w \in Workers \ long : Started(w)
<1> DEFINE S == {w \in Workers : Started(w)}
<1>1. long \subseteq Workers /\ IsFiniteSet(long) /\ Cardinality(long) \in Nat
  BY ThreadPoolAssumption, FS_Subset, FS_CardinalityType DEF ThreadInv, TypeOK
<1>2. Cardinality(S) = totalThreads
  BY DEF ThreadInv, CountersAgree
<1>3. Cardinality(long) <= Cardinality(LongJobs)
  <2> DEFINE f == [w \in long |-> job[w]]
  <2>1. f \in Injection(long, LongJobs)
    <3>1. f \in [long -> LongJobs]
      BY DEF LongHeld
    <3>2. ASSUME NEW v \in long, NEW w \in long, f[v] = f[w] PROVE v = w
      <4>1. job[v] = job[w] /\ job[v] # NoJob
        BY <3>2, ThreadPoolAssumption DEF LongHeld, Jobs
      <4> QED
        BY <1>1, <4>1 DEF JobInv, HoldInv
    <3> QED
      BY <3>1, <3>2 DEF Injection, IsInjective
  <2> HIDE DEF f
  <2> QED
    BY <2>1, FS_Injection DEF WorkerToSpare
<1>4. Cardinality(LongJobs) \in Nat
  BY FS_CardinalityType DEF WorkerToSpare
<1>5. ASSUME S \subseteq long PROVE FALSE
  <2>1. Cardinality(S) <= Cardinality(long)
    BY <1>1, <1>5, FS_Subset
  <2> QED
    BY <1>1, <1>2, <1>3, <1>4, <2>1, ThreadPoolAssumption DEF WorkerToSpare, ThreadInv, TypeOK
<1> QED
  BY <1>5

(* What the property asks follows: where nobody waits, the worker to spare  *)
(* is on duty.                                                              *)
LEMMA DutyNoticed ==
    ASSUME ThreadInv, JobInv, DutyInv, MinimumKept, WorkerToSpare
    PROVE  QueuedJobHasWorker
<1> SUFFICES ASSUME phase = "up", TotalJobs > 0, NoAdder PROVE \E w \in Workers : OnDuty(w)
  BY DEF QueuedJobHasWorker, NoAdder, OnDuty
<1>1. CASE SomeWait
  BY <1>1 DEF DutyInv, NoticedInv
<1>2. CASE ~SomeWait
  <2>1. PICK w \in Workers \ long : Started(w)
    BY SpareWorker DEF DutyInv, MinimumKept
  <2> QED
    BY <1>2, <2>1 DEF SomeWait, OnDuty, Started
<1> QED
  BY <1>1, <1>2

(* A step that takes nobody off duty and puts nobody to sleep.              *)
LEMMA DutyKept ==
    ASSUME NoticedInv, phase' = "up" => phase = "up", SomeWait' => SomeWait,
           \A w \in Workers : OnDuty(w) => OnDuty(w)',
           persistentJob' = persistentJob \/ persistentJob' = NoJob,
           TotalJobs' > 0 /\ NoAdder' => TotalJobs > 0 /\ NoAdder
    PROVE  NoticedInv'
<1> SUFFICES ASSUME phase' = "up", SomeWait' PROVE
        /\ persistentJob' # NoJob => \E w \in Workers : OnDuty(w)'
        /\ TotalJobs' > 0 /\ NoAdder' =>
             \E v \in Workers :
                /\ OnDuty(v)'
                /\ persistentJob' # NoJob => \E w \in Workers \ {v} : OnDuty(w)'
  BY DEF NoticedInv
<1>1. phase = "up" /\ SomeWait
  OBVIOUS
<1>2. ASSUME persistentJob' # NoJob PROVE \E w \in Workers : OnDuty(w)'
  BY <1>1, <1>2 DEF NoticedInv
<1>3. ASSUME TotalJobs' > 0, NoAdder'
      PROVE  \E v \in Workers :
                /\ OnDuty(v)'
                /\ persistentJob' # NoJob => \E w \in Workers \ {v} : OnDuty(w)'
  <2>1. PICK v \in Workers : /\ OnDuty(v)
                             /\ persistentJob # NoJob => \E w \in Workers \ {v} : OnDuty(w)
    BY <1>1, <1>3 DEF NoticedInv
  <2> QED
    BY <2>1
<1> QED
  BY <1>2, <1>3

(* ithread_cond_signal puts another worker on duty, if one waits.           *)
LEMMA SignalDuty ==
    ASSUME ThreadInv, JobInv, LongHeld, Signal, long' = long
    PROVE  /\ \A w \in Workers : OnDuty(w) => OnDuty(w)'
           /\ SomeWait' => SomeWait /\ \E w \in Workers : OnDuty(w)' /\ ~OnDuty(w)
<1>1. TypeOK
  BY DEF ThreadInv
<1>2. CASE SomeWait
  <2>1. PICK w \in Workers : thread[w] = "waiting" /\ thread' = [thread EXCEPT ![w] = "ready"]
    BY <1>2 DEF Signal, SomeWait
  <2>2. w \notin long
    BY <2>1, LongRuns
  <2>3. thread'[w] = "ready" /\ \A v \in Workers \ {w} : thread'[v] = thread[v]
    BY <1>1, <2>1 DEF TypeOK
  <2> QED
    BY <1>2, <2>1, <2>2, <2>3 DEF OnDuty
<1>3. CASE ~SomeWait
  BY <1>3 DEF Signal, SomeWait, OnDuty
<1> QED
  BY <1>2, <1>3

LEMMA CreateDuty ==
    ASSUME ThreadInv, NEW t, NEW c, CreateWorker(t, c), long' = long
    PROVE  (\A w \in Workers : OnDuty(w) => OnDuty(w)') /\ (SomeWait' => SomeWait)
  BY DEF ThreadInv, TypeOK, CreateWorker, StartsThread, OnDuty, SomeWait

(* A signal after a job was queued, or put into the slot.                   *)
LEMMA SignalNotices ==
    ASSUME ThreadInv, JobInv, LongHeld, NoticedInv, Signal, long' = long, phase' = phase,
           \/ persistentJob' = persistentJob
           \/ TotalJobs' > 0 /\ NoAdder' => TotalJobs > 0 /\ NoAdder
    PROVE  NoticedInv'
<1> SUFFICES ASSUME phase' = "up", SomeWait' PROVE
        /\ persistentJob' # NoJob => \E w \in Workers : OnDuty(w)'
        /\ TotalJobs' > 0 /\ NoAdder' =>
             \E v \in Workers :
                /\ OnDuty(v)'
                /\ persistentJob' # NoJob => \E w \in Workers \ {v} : OnDuty(w)'
  BY DEF NoticedInv
<1>1. /\ \A w \in Workers : OnDuty(w) => OnDuty(w)'
      /\ phase = "up" /\ SomeWait
  BY SignalDuty
<1>2. PICK u \in Workers : OnDuty(u)' /\ ~OnDuty(u)
  BY SignalDuty
<1>3. ASSUME TotalJobs' > 0, NoAdder', persistentJob' # NoJob
      PROVE  \E w \in Workers \ {u} : OnDuty(w)'
  <2>1. CASE persistentJob' = persistentJob
    <3>1. PICK w \in Workers : OnDuty(w)
      BY <1>1, <1>3, <2>1 DEF NoticedInv
    <3> QED
      BY <1>1, <1>2, <3>1
  <2>2. CASE TotalJobs > 0 /\ NoAdder
    <3>1. PICK w \in Workers : OnDuty(w)
      BY <1>1, <2>2 DEF NoticedInv
    <3> QED
      BY <1>1, <1>2, <3>1
  <2> QED
    BY <1>3, <2>1, <2>2
<1> QED
  BY <1>2, <1>3

LEMMA WorkerDuty ==
    ASSUME ThreadInv, JobInv, DutyInv, NEW w \in Workers, Worker(w) \/ WorkerTimesOut(w) \/ JobReturns(w)
    PROVE  DutyInv'
<1>0. TypeOK /\ LongHeld /\ NoticedInv
  BY DEF ThreadInv, DutyInv
<1>1. AddersCreate' /\ (NoAdder' <=> NoAdder)
  <2>1. call' = call
    BY DEF Worker, WorkerStarts, WorkerWaits, WorkerExits, WorkerTakesPersistent, WorkerTakesJob, Takes,
           WorkerTimesOut, JobReturns
  <2> QED
    BY <2>1 DEF DutyInv, AddersCreate, NoAdder
<1>2. CASE WorkerStarts(w) \/ WorkerTimesOut(w) \/ JobReturns(w)
  <2>1. /\ UNCHANGED <<job, long, queueVars, phase>>
        /\ \/ thread[w] = "created" /\ thread' = [thread EXCEPT ![w] = "ready"]
           \/ thread[w] = "waiting" /\ thread' = [thread EXCEPT ![w] = "timedout"]
           \/ thread[w] = "running" /\ thread' = [thread EXCEPT ![w] = "finished"]
    BY <1>2 DEF WorkerStarts, WorkerTimesOut, JobReturns
  <2>2. UNCHANGED <<queue, persistentJob, long, phase, job>> /\ TotalJobs' = TotalJobs
    BY <2>1 DEF queueVars, TotalJobs
  <2>3. (SomeWait' => SomeWait) /\ \A v \in Workers : OnDuty(v) => OnDuty(v)'
    BY <1>0, <2>1, <2>2 DEF TypeOK, SomeWait, OnDuty
  <2>4. LongHeld'
    BY <1>0, <2>2 DEF LongHeld
  <2>5. NoticedInv'
    BY <1>0, <1>1, <2>2, <2>3, DutyKept
  <2> QED
    BY <1>1, <2>4, <2>5 DEF DutyInv
<1>3. CASE WorkerWaits(w) \/ WorkerExits(w)
  <2>1. /\ job' = [job EXCEPT ![w] = NoJob] /\ long' = long \ {w} /\ UNCHANGED <<phase, persistentJob>>
        /\ (NoWork /\ UNCHANGED queue) \/ phase = "shutdown"
    BY <1>3 DEF WorkerWaits, WorkerExits, queueVars
  <2>2. LongHeld'
    BY <1>0, <2>1 DEF LongHeld, TypeOK
  <2>3. phase' # "up" \/ (TotalJobs' = 0 /\ persistentJob' = NoJob)
    BY <2>1 DEF NoWork, TotalJobs
  <2>4. NoticedInv'
    BY <2>3 DEF NoticedInv
  <2> QED
    BY <1>1, <2>2, <2>4 DEF DutyInv
<1>4. CASE WorkerTakesPersistent(w)
  <2>1. /\ thread' = [thread EXCEPT ![w] = "running"] /\ job' = [job EXCEPT ![w] = persistentJob]
        /\ long' = long \cup {w} /\ queue' = Bumped
        /\ persistentJob # NoJob /\ persistentJob' = NoJob /\ phase' = phase
    BY <1>4 DEF WorkerTakesPersistent, Takes
  <2>2. LongHeld'
    BY <1>0, <2>1 DEF LongHeld, TypeOK, JobInv, SlotInv
  <2>3. TotalJobs' = TotalJobs
    BY <1>0, <2>1, BumpedQueues DEF TypeOK, TotalJobs
  <2>4. SomeWait' => SomeWait
    BY <1>0, <2>1 DEF TypeOK, SomeWait
  <2>5. \A v \in Workers \ {w} : OnDuty(v) => OnDuty(v)'
    BY <1>0, <2>1 DEF TypeOK, OnDuty
  <2>6. ASSUME phase' = "up", SomeWait', TotalJobs' > 0, NoAdder'
        PROVE  \E v \in Workers : OnDuty(v)'
    <3>1. PICK v \in Workers : OnDuty(v) /\ \E u \in Workers \ {v} : OnDuty(u)
      BY <1>0, <1>1, <2>1, <2>3, <2>4, <2>6 DEF NoticedInv
    <3> QED
      BY <2>5, <3>1
  <2>7. NoticedInv'
    BY <2>1, <2>6 DEF NoticedInv
  <2> QED
    BY <1>1, <2>2, <2>7 DEF DutyInv
<1>5. CASE WorkerTakesJob(w)
  <2>1. PICK j : /\ thread' = [thread EXCEPT ![w] = "running"] /\ job' = [job EXCEPT ![w] = j]
                 /\ long' = long \ {w} /\ persistentJob = NoJob /\ persistentJob' = NoJob
    BY <1>5 DEF WorkerTakesJob, Takes
  <2>2. LongHeld'
    BY <1>0, <2>1 DEF LongHeld, TypeOK
  <2>3. OnDuty(w)'
    BY <1>0, <2>1 DEF TypeOK, OnDuty
  <2>4. NoticedInv'
    BY <2>1, <2>3 DEF NoticedInv
  <2> QED
    BY <1>1, <2>2, <2>4 DEF DutyInv
<1> QED
  BY <1>2, <1>3, <1>4, <1>5 DEF Worker

(* What a caller's step leaves of AddersCreate and NoAdder.                 *)
LEMMA CallerDuty ==
    ASSUME TypeOK, AddersCreate, NEW t \in Callers, NEW d, call' = [call EXCEPT ![t] = d],
           d.op = "add" => d.at \in {"create", "start"}
    PROVE  /\ AddersCreate'
           /\ d.op = "add" \/ call[t].op # "add" => (NoAdder' => NoAdder)
<1>1. call'[t] = d /\ \A u \in Callers \ {t} : call'[u] = call[u]
  BY DEF TypeOK
<1> QED
  BY <1>1 DEF AddersCreate, NoAdder

LEMMA CreateWorkerDuty ==
    ASSUME ThreadInv, JobInv, DutyInv, NEW t \in Callers, NEW c \in Call, CreateWorker(t, c),
           UNCHANGED <<job, long, persistentJob, phase>>,
           \/ c.op = "add"
           \/ UNCHANGED queue /\ call[t].op # "add"
    PROVE  DutyInv'
<1>1. PICK d : CallStep(t, d) /\ d.op = c.op /\ d.at \in {"create", "start"}
  BY CreateWorkerCall, ZenonT(30) DEF ThreadInv
<1>2. AddersCreate' /\ (d.op = "add" \/ call[t].op # "add" => (NoAdder' => NoAdder))
  BY <1>1, CallerDuty DEF CallStep, ThreadInv, DutyInv
<1>3. c.op = "add" => ~NoAdder'
  BY <1>1 DEF CallStep, ThreadInv, TypeOK, NoAdder
<1>4. TotalJobs' > 0 /\ NoAdder' => TotalJobs > 0 /\ NoAdder
  BY <1>1, <1>2, <1>3 DEF TotalJobs
<1>5. NoticedInv'
  BY <1>4, CreateDuty, DutyKept DEF DutyInv
<1>6. LongHeld'
  BY DEF DutyInv, LongHeld
<1> QED
  BY <1>2, <1>5, <1>6 DEF DutyInv

LEMMA FinishAddDuty ==
    ASSUME ThreadInv, JobInv, DutyInv, NEW t \in Callers, NEW c, FinishAdd(t, c),
           UNCHANGED <<job, long, persistentJob, phase>>
    PROVE  DutyInv'
<1>1. call' = [call EXCEPT ![t] = NoCall] /\ Signal
  BY DEF FinishAdd, Return
<1>2. AddersCreate'
  BY <1>1, CallerDuty, NoCallParts DEF ThreadInv, DutyInv
<1>3. NoticedInv'
  BY <1>1, SignalNotices DEF DutyInv
<1>4. LongHeld'
  BY DEF DutyInv, LongHeld
<1> QED
  BY <1>2, <1>3, <1>4 DEF DutyInv

LEMMA PlacePersistentDuty ==
    ASSUME ThreadInv, JobInv, DutyInv, NEW t \in Callers, NEW c \in Call, PlacePersistent(t, c),
           c.op = "addPersistent", call[t].op # "add", UNCHANGED <<job, long, queue, phase>>
    PROVE  DutyInv'
<1>1. PICK d : CallStep(t, d) /\ d.op = c.op
  BY PlacePersistentCall DEF ThreadInv
<1>2. AddersCreate' /\ (NoAdder' => NoAdder)
  BY <1>1, CallerDuty DEF CallStep, ThreadInv, DutyInv
<1>3. Signal /\ TotalJobs' = TotalJobs
  BY DEF PlacePersistent, TotalJobs
<1>4. NoticedInv'
  BY <1>2, <1>3, SignalNotices DEF DutyInv
<1>5. LongHeld'
  BY DEF DutyInv, LongHeld
<1> QED
  BY <1>2, <1>4, <1>5 DEF DutyInv

(* ThreadPoolInit hands over an empty pool, ThreadPoolShutdown leaves one.  *)
LEMMA OutOfService ==
    ASSUME TypeOK, DutyInv, NEW t \in Callers, NEW d, call' = [call EXCEPT ![t] = d], d.op # "add",
           UNCHANGED <<job, long>>,
           \/ phase' # "up"
           \/ TotalJobs' = 0 /\ persistentJob' = NoJob
    PROVE  DutyInv'
<1>1. AddersCreate'
  BY CallerDuty DEF DutyInv
<1>2. LongHeld'
  BY DEF DutyInv, LongHeld
<1>3. NoticedInv'
  BY DEF NoticedInv
<1> QED
  BY <1>1, <1>2, <1>3 DEF DutyInv

LEMMA ShutdownDuty ==
    ASSUME ThreadInv, DutyInv, NEW t \in Callers, BeginShutdown(t), UNCHANGED <<job, long>>
    PROVE  DutyInv'
<1>1. PICK d : d = [NoCall EXCEPT !.op = "shutdown", !.at = "drain"]
  OBVIOUS
<1>2. d.op = "shutdown"
  <2>1. [NoCall EXCEPT !.op = "shutdown", !.at = "drain"].op = "shutdown"
    BY DEF NoCall
  <2> QED
    BY <1>1, <2>1
<1>3. phase' # "up" /\ (call' = [call EXCEPT ![t] = d] \/ call' = [call EXCEPT ![t] = NoCall])
  BY <1>1 DEF BeginShutdown, Sleep, Return
<1> QED
  BY <1>2, <1>3, OutOfService, NoCallParts DEF ThreadInv

LEMMA ContinueDuty ==
    ASSUME ThreadInv, JobInv, LifeInv, DutyInv, NEW t \in Callers, NEW ok \in BOOLEAN, Continue(t, call[t], ok),
           UNCHANGED <<job, long>>
    PROVE  DutyInv'
<1>1. PICK c : c = call[t]
  OBVIOUS
<1>2. TypeOK /\ c \in Call /\ CallPlace(t, c)
  BY <1>1 DEF ThreadInv, TypeOK, LifeInv, CallsPlaced
<1>3. CASE /\ c.op = "init"
           /\ IF ok THEN InitWorkers(t, [c EXCEPT !.threads = @ + 1]) ELSE BeginShutdown(t)
  <2>1. phase = "init" /\ TotalJobs = 0 /\ persistentJob = NoJob
    BY <1>2, <1>3 DEF CallPlace, LifeInv, StartupInv
  <2>2. CASE BeginShutdown(t)
    BY <2>2, ShutdownDuty
  <2>3. PICK d : d = [c EXCEPT !.threads = @ + 1]
    OBVIOUS
  <2>4. d \in Call
    BY <1>2, <2>3, CallAt
  <2>5. CASE CreateWorker(t, d) /\ UNCHANGED <<queueVars, phase>>
    BY <1>1, <1>3, <2>4, <2>5, CreateWorkerDuty DEF queueVars
  <2>6. CASE Return(t) /\ UNCHANGED queueVars
    <3>1. TotalJobs' = 0 /\ persistentJob' = NoJob
      BY <2>1, <2>6 DEF queueVars, TotalJobs
    <3> QED
      BY <1>2, <2>6, <3>1, OutOfService, NoCallParts DEF Return
  <2> QED
    BY <1>3, <2>2, <2>3, <2>5, <2>6 DEF InitWorkers, queueVars
<1>4. CASE /\ c.op = "add"
           /\ IF ok THEN AddWorker(t, CountThread(c)) ELSE FinishAdd(t, c)
           /\ UNCHANGED <<queueVars, phase, jobId>>
  <2>1. PICK e : e \in Call /\ e.op = "add" /\ (CreateWorker(t, e) \/ FinishAdd(t, e))
    <3>1. PICK e : e = CountThread(c)
      OBVIOUS
    <3>2. e \in Call /\ e.op = "add"
      BY <1>2, <1>4, <3>1, CallAt DEF CountThread, Call
    <3> QED
      BY <1>2, <1>4, <3>1, <3>2 DEF AddWorker
  <2>2. UNCHANGED <<persistentJob, phase>>
    BY <1>4 DEF queueVars
  <2> QED
    BY <2>1, <2>2, CreateWorkerDuty, FinishAddDuty
<1>5. CASE /\ c.op = "addPersistent"
           /\ PlacePersistent(t, c)
           /\ UNCHANGED <<queue, phase, lastJobId, handed>>
  BY <1>1, <1>2, <1>5, PlacePersistentDuty
<1> QED
  BY <1>1, <1>3, <1>4, <1>5 DEF Continue

LEMMA ResumeDuty ==
    ASSUME ThreadInv, JobInv, LifeInv, DutyInv, NEW t \in Callers, Resume(t)
    PROVE  DutyInv'
<1>1. PICK c : c = call[t]
  OBVIOUS
<1>2. TypeOK /\ c \in Call /\ CallPlace(t, c) /\ (c.op = "add" => c.at \in {"create", "start"})
  BY <1>1 DEF ThreadInv, TypeOK, LifeInv, CallsPlaced, DutyInv, AddersCreate
<1>3. UNCHANGED <<job, long>>
  BY DEF Resume, ResumeCreate, ResumeStart, ResumePickup, ResumeDrain, threadVars
<1>4. ASSUME NEW d, call' = [call EXCEPT ![t] = d], d = c \/ (d = NoCall /\ c.op # "add"),
             UNCHANGED <<thread, queue, persistentJob, phase>>
      PROVE  DutyInv'
  <2>1. AddersCreate' /\ (NoAdder' => NoAdder)
    BY <1>1, <1>2, <1>4, CallerDuty, NoCallParts DEF DutyInv
  <2>2. LongHeld' /\ TotalJobs' = TotalJobs
    BY <1>3, <1>4 DEF DutyInv, LongHeld, TotalJobs
  <2>3. (SomeWait' => SomeWait) /\ \A w \in Workers : OnDuty(w) => OnDuty(w)'
    BY <1>3, <1>4 DEF SomeWait, OnDuty
  <2>4. NoticedInv'
    BY <1>4, <2>1, <2>2, <2>3, DutyKept DEF DutyInv
  <2> QED
    BY <2>1, <2>2, <2>4 DEF DutyInv
<1>5. CASE ResumeCreate(t)
  <2>1. CASE CreateWorker(t, c) /\ UNCHANGED <<queueVars, phase, idVars>>
    BY <1>1, <1>2, <1>3, <2>1, CreateWorkerDuty DEF queueVars
  <2>2. CASE Continue(t, c, FALSE)
    BY <1>1, <1>3, <2>2, ContinueDuty
  <2> QED
    BY <1>1, <1>5, <2>1, <2>2 DEF ResumeCreate
<1>6. CASE ResumeStart(t)
  <2>1. CASE Sleep(t, c) /\ UNCHANGED <<thread, pending, queueVars, phase, idVars>>
    BY <1>4, <2>1 DEF Sleep, queueVars
  <2>2. CASE Continue(t, c, TRUE)
    BY <1>1, <1>3, <2>2, ContinueDuty
  <2> QED
    BY <1>1, <1>6, <2>1, <2>2 DEF ResumeStart
<1>7. CASE ResumePickup(t)
  <2>1. c.at = "pickup" /\ UNCHANGED <<thread, queue, persistentJob, phase>> /\ (Sleep(t, c) \/ Return(t))
    BY <1>1, <1>7 DEF ResumePickup, Awake, threadVars, queueVars
  <2> QED
    BY <1>2, <1>4, <2>1 DEF Sleep, Return
<1>8. CASE ResumeDrain(t)
  <2>1. c.at = "drain" /\ phase' # "up" /\ (Sleep(t, c) \/ Return(t))
    BY <1>1, <1>2, <1>8 DEF ResumeDrain, Awake, CallPlace
  <2> QED
    BY <1>2, <1>3, <2>1, OutOfService, NoCallParts DEF Sleep, Return
<1> QED
  BY <1>5, <1>6, <1>7, <1>8 DEF Resume

LEMMA ApiDuty ==
    ASSUME ThreadInv, JobInv, LifeInv, DutyInv, NEW t \in Callers,
           \/ \E j \in ShortJobs : ThreadPoolAdd(t, j)
           \/ \E j \in LongJobs : ThreadPoolAddPersistent(t, j)
           \/ \E id : ThreadPoolRemove(t, id)
    PROVE  DutyInv'
<1>1. TypeOK /\ call[t] = NoCall /\ call[t].op # "add"
  BY NoCallParts DEF ThreadInv, ThreadPoolAdd, ThreadPoolAddPersistent, ThreadPoolRemove, MayCall
<1>2. ASSUME NEW j \in ShortJobs, ThreadPoolAdd(t, j) PROVE DutyInv'
  <2>1. PICK c : /\ c = [op |-> "add", at |-> "none", job |-> j, jobs |-> TotalJobs + 1,
                         threads |-> totalThreads - persistentThreads]
                 /\ CreateWorker(t, c) \/ FinishAdd(t, c)
                 /\ UNCHANGED <<job, long, persistentJob, phase>>
    BY <1>2 DEF ThreadPoolAdd, AddWorker
  <2>2. c \in Call /\ c.op = "add"
    BY <1>1, <2>1, AddCallType
  <2> QED
    BY <2>1, <2>2, CreateWorkerDuty, FinishAddDuty
<1>3. ASSUME NEW j \in LongJobs, ThreadPoolAddPersistent(t, j) PROVE DutyInv'
  <2>1. PICK c : /\ c = [NoCall EXCEPT !.op = "addPersistent", !.job = j]
                 /\ (CreateWorker(t, c) /\ UNCHANGED persistentJob) \/ PlacePersistent(t, c)
                 /\ UNCHANGED <<job, long, queue, phase>>
    BY <1>3 DEF ThreadPoolAddPersistent
  <2>2. c \in Call /\ c.op = "addPersistent"
    <3>1. [NoCall EXCEPT !.op = "addPersistent", !.job = j].op = "addPersistent"
      BY DEF NoCall
    <3> QED
      BY <2>1, <3>1, AddPersistentCallType
  <2> QED
    BY <1>1, <2>1, <2>2, CreateWorkerDuty, PlacePersistentDuty
<1>4. ASSUME NEW id, ThreadPoolRemove(t, id) PROVE DutyInv'
  <2>1. /\ UNCHANGED <<threadVars, call, phase>>
        /\ persistentJob' = persistentJob \/ persistentJob' = NoJob
    BY <1>4 DEF ThreadPoolRemove
  <2>2. TotalJobs' > 0 => TotalJobs > 0
    <3>0. UNCHANGED queue \/ \E p \in {"low", "med", "high"} : 1..Len(queue[p]) # {}
      BY <1>4 DEF ThreadPoolRemove
    <3>1. \A p \in {"low", "med", "high"} : Len(queue[p]) \in Nat
      BY <1>1 DEF TypeOK, Priorities
    <3>2. CASE UNCHANGED queue
      BY <3>2 DEF TotalJobs
    <3>3. CASE \E p \in {"low", "med", "high"} : 1..Len(queue[p]) # {}
      <4>1. Len(queue["low"]) > 0 \/ Len(queue["med"]) > 0 \/ Len(queue["high"]) > 0
        BY <3>1, <3>3
      <4>2. PICK l, m, h : l = Len(queue["low"]) /\ m = Len(queue["med"]) /\ h = Len(queue["high"])
        OBVIOUS
      <4>3. l \in Nat /\ m \in Nat /\ h \in Nat /\ (l > 0 \/ m > 0 \/ h > 0)
        BY <3>1, <4>1, <4>2
      <4>4. h + m + l > 0
        BY <4>3
      <4> QED
        BY <4>2, <4>4 DEF TotalJobs
    <3> QED
      BY <3>0, <3>2, <3>3
  <2>3. /\ LongHeld' /\ AddersCreate' /\ (NoAdder' => NoAdder)
        /\ (SomeWait' => SomeWait) /\ \A w \in Workers : OnDuty(w) => OnDuty(w)'
    BY <2>1 DEF DutyInv, LongHeld, AddersCreate, NoAdder, SomeWait, OnDuty, threadVars
  <2>4. NoticedInv'
    BY <2>1, <2>2, <2>3, DutyKept DEF DutyInv
  <2> QED
    BY <2>3, <2>4 DEF DutyInv
<1> QED
  BY <1>2, <1>3, <1>4

LEMMA InitDutyInv == Init => DutyInv
<1> SUFFICES ASSUME Init PROVE DutyInv
  OBVIOUS
<1>1. AddersCreate
  <2>1. [NoCall EXCEPT !.op = "init", !.at = "create"].op = "init"
    BY DEF NoCall
  <2> QED
    BY <2>1, NoCallParts DEF Init, AddersCreate
<1> QED
  BY <1>1 DEF Init, DutyInv, LongHeld, NoticedInv

LEMMA NextDutyInv == ThreadInv /\ JobInv /\ LifeInv /\ DutyInv /\ [Next]_vars => DutyInv'
<1> SUFFICES ASSUME ThreadInv, JobInv, LifeInv, DutyInv, [Next]_vars PROVE DutyInv'
  OBVIOUS
<1>1. /\ Submitters \subseteq Callers /\ LongSubmitters \subseteq Callers /\ Removers \subseteq Callers
      /\ Owner \in Callers
  BY ThreadPoolAssumption DEF Callers
<1>2. CASE ThreadPoolShutdown
  BY <1>1, <1>2, ShutdownDuty DEF ThreadPoolShutdown
<1>3. CASE Tick \/ UNCHANGED vars
  <2>1. UNCHANGED <<threadVars, call, queue, persistentJob, phase>>
    BY <1>3 DEF Tick, vars, queueVars
  <2>2. UNCHANGED <<thread, job, long, call, queue, persistentJob, phase>>
    BY <2>1 DEF threadVars
  <2> QED
    BY <2>2 DEF DutyInv, LongHeld, AddersCreate, NoticedInv, NoAdder, SomeWait, OnDuty, TotalJobs
<1> QED
  BY <1>1, <1>2, <1>3, WorkerDuty, ResumeDuty, ApiDuty DEF Next

(* Each signal reaches a worker for the job that was queued or put into the *)
(* slot, and the persistent job takes only one of them: a job that waits is *)
(* not left to sleeping workers, whenever they time out, threads cannot be  *)
(* created or jobs are removed.                                             *)
THEOREM SpecQueuedJobHasWorker == OneSubmitter /\ WorkerToSpare => (Spec => []QueuedJobHasWorker)
<1> SUFFICES ASSUME OneSubmitter, WorkerToSpare PROVE Spec => []QueuedJobHasWorker
  OBVIOUS
<1>1. ThreadInv /\ JobInv /\ [Next]_vars => JobInv'
  BY NextPoolStep DEF PoolStep
<1>2. Init => JobInv
  BY InitJobInv
<1>3. ThreadInv /\ JobInv /\ DutyInv /\ LifeInv => QueuedJobHasWorker
  BY DutyNoticed DEF LifeInv
<1> QED
  BY <1>1, <1>2, <1>3, InitDutyInv, NextDutyInv, InitLifeInv, NextLifeInv, SpecThreadInv, PTL DEF Spec
===============================================================================
