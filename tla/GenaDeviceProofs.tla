--------------------------- MODULE GenaDeviceProofs ---------------------------
(***************************************************************************)
(* The eventing of a device for any number of subscriptions, jobs and      *)
(* events under way, and any range of event keys larger than that: the     *)
(* list and its count, the turn of every event across the overflow of the  *)
(* keys, and the memory that the jobs of one event share.                  *)
(***************************************************************************)
EXTENDS GenaDevice, FiniteSetTheorems, TLAPS

-------------------------------------------------------------------------------
(* The inductive invariant                                                  *)

(* A subscription that has not been accepted has no keys yet.               *)
IdleInv == \A s \in Sids \ active : eventKey[s] = 0 /\ toSendEventKey[s] = 0

ListInv ==
    /\ registered \in BOOLEAN
    /\ maxSubscriptions \in Limits \cup {UPNP_INFINITE}
    /\ subs \subseteq Sids /\ active \subseteq subs /\ expired \subseteq subs
    /\ ~registered => subs = {}
    /\ eventKey \in [Sids -> Keys] /\ toSendEventKey \in [Sids -> Keys]
    /\ CountMatchesList
    /\ IdleInv

(* An event has one job for a subscription, and as many references as jobs. *)
OneJob == \A j, k \in jobs : j.sid = k.sid /\ j.batch = k.batch => j = k

Receivers(b) == {s \in Sids : \E j \in jobs : j.sid = s /\ j.batch = b}

BatchInv ==
    \A b \in Batches :
        /\ Cardinality(Receivers(b)) <= referenceCount[b]
        /\ b \notin refused => /\ Cardinality(Receivers(b)) = referenceCount[b]
                               /\ b \in allocated <=> Receivers(b) # {}

JobInv ==
    /\ jobs \subseteq Job
    /\ referenceCount \in [Batches -> Nat]
    /\ allocated \subseteq Batches
    /\ OneJob /\ BatchInv /\ InitialEventIsFirst

(* The keys from t to the one before e, across the overflow.                *)
KeysBetween(t, e) == IF t <= e THEN t..(e - 1) ELSE (t..MaxKey) \cup (1..(e - 1))

(* The keys that were given out and not yet sent are with one job each; the *)
(* one that is being sent is the next.                                      *)
Turn(s) ==
    /\ {j.key : j \in JobsOf(s)} = Outstanding(s)
    /\ \A j, k \in JobsOf(s) : j.key = k.key => j = k
    /\ \A j \in JobsOf(s) : j.at = "sending" => j.key = toSendEventKey[s]
    /\ eventKey[s] = 0 => toSendEventKey[s] = 0

LinkInv ==
    /\ refused \subseteq subs \cup Batches
    /\ \A j \in jobs : j.sid \in subs => j.sid \in active
    /\ \A s \in subs \ refused : Turn(s)

DeviceInv == ListInv /\ JobInv /\ LinkInv

LEMMA SidsFinite ==
    ASSUME NEW S \in SUBSET Sids
    PROVE  IsFiniteSet(S) /\ Cardinality(S) \in Nat
  BY GenaDeviceAssumption, FS_Subset, FS_CardinalityType

LEMMA MaxKeyPositive == MaxKey \in Nat \ {0} /\ Cardinality(Batches) \in Nat /\ Cardinality(Batches) < MaxKey
<1>1. Cardinality(Batches) \in Nat
  BY GenaDeviceAssumption, FS_CardinalityType
<1> QED
  BY <1>1, GenaDeviceAssumption

-------------------------------------------------------------------------------
(* Keys                                                                     *)

LEMMA NextKeyType ==
    ASSUME NEW k \in Keys
    PROVE  NextKey(k) \in Keys \ {0}
  BY MaxKeyPositive DEF NextKey, Keys

LEMMA HowManyBetween ==
    ASSUME NEW t \in Keys, NEW e \in Keys, e = 0 => t = 0
    PROVE  Cardinality(KeysBetween(t, e)) = IF t <= e THEN e - t ELSE MaxKey - t + e
<1>1. MaxKey \in Nat /\ t \in 0..MaxKey /\ e \in 0..MaxKey
  BY MaxKeyPositive DEF Keys
<1>2. CASE t <= e
  <2>1. Cardinality(t..(e - 1)) = IF t > e - 1 THEN 0 ELSE (e - 1) - t + 1
    BY <1>1, FS_Interval
  <2>2. (IF t > e - 1 THEN 0 ELSE (e - 1) - t + 1) = e - t
    BY <1>1, <1>2
  <2>3. KeysBetween(t, e) = t..(e - 1)
    BY <1>2 DEF KeysBetween
  <2> QED
    BY <1>2, <2>1, <2>2, <2>3
<1>3. CASE t > e
  <2>1. IsFiniteSet(t..MaxKey) /\ Cardinality(t..MaxKey) = IF t > MaxKey THEN 0 ELSE MaxKey - t + 1
    BY <1>1, FS_Interval
  <2>2. IsFiniteSet(1..(e - 1)) /\ Cardinality(1..(e - 1)) = IF 1 > e - 1 THEN 0 ELSE (e - 1) - 1 + 1
    BY <1>1, FS_Interval
  <2>3. Cardinality(t..MaxKey) = MaxKey - t + 1 /\ Cardinality(1..(e - 1)) = e - 1
    BY <1>1, <1>3, <2>1, <2>2
  <2>4. (t..MaxKey) \cap (1..(e - 1)) = {}
    BY <1>1, <1>3
  <2>5. Cardinality((t..MaxKey) \cup (1..(e - 1))) = Cardinality(t..MaxKey) + Cardinality(1..(e - 1)) - Cardinality({})
    <3>1. PICK A, B : A = t..MaxKey /\ B = 1..(e - 1)
      OBVIOUS
    <3>2. Cardinality(A \cup B) = Cardinality(A) + Cardinality(B) - Cardinality(A \cap B)
      BY <2>1, <2>2, <3>1, FS_Union
    <3> QED
      BY <2>4, <3>1, <3>2
  <2>6. Cardinality({}) = 0
    BY FS_EmptySet
  <2>7. KeysBetween(t, e) = (t..MaxKey) \cup (1..(e - 1)) /\ ~(t <= e)
    BY <1>1, <1>3 DEF KeysBetween
  <2>8. (MaxKey - t + 1) + (e - 1) - 0 = MaxKey - t + e
    BY <1>1
  <2> QED
    BY <2>3, <2>5, <2>6, <2>7, <2>8
<1> QED
  BY <1>1, <1>2, <1>3

(* A key is given out, with room for it and one more.                       *)
LEMMA KeyGiven ==
    ASSUME NEW t \in Keys, NEW e \in Keys, e = 0 => t = 0,
           Cardinality(KeysBetween(t, e)) + 2 <= MaxKey
    PROVE  KeysBetween(t, NextKey(e)) = KeysBetween(t, e) \cup {e} /\ e \notin KeysBetween(t, e)
<1>1. MaxKey \in Nat /\ t \in 0..MaxKey /\ e \in 0..MaxKey
  BY MaxKeyPositive DEF Keys
<1>2. (IF t <= e THEN e - t ELSE MaxKey - t + e) + 2 <= MaxKey
  BY HowManyBetween
<1>3. CASE t <= e /\ e < MaxKey
  BY <1>1, <1>3 DEF KeysBetween, NextKey
<1>4. CASE t <= e /\ e = MaxKey
  <2>1. t >= 2
    BY <1>1, <1>2, <1>4
  <2>2. KeysBetween(t, NextKey(e)) = (t..MaxKey) \cup (1..0)
    BY <1>1, <1>4, <2>1 DEF KeysBetween, NextKey
  <2>3. KeysBetween(t, e) = t..(MaxKey - 1)
    BY <1>4 DEF KeysBetween
  <2> QED
    BY <1>1, <1>4, <2>1, <2>2, <2>3
<1>5. CASE t > e
  <2>1. e + 2 <= t /\ e < MaxKey /\ e >= 1
    BY <1>1, <1>2, <1>5
  <2>2. KeysBetween(t, NextKey(e)) = (t..MaxKey) \cup (1..e)
    BY <1>1, <2>1 DEF KeysBetween, NextKey
  <2>3. KeysBetween(t, e) = (t..MaxKey) \cup (1..(e - 1))
    BY <1>1, <1>5 DEF KeysBetween
  <2> QED
    BY <1>1, <2>1, <2>2, <2>3
<1> QED
  BY <1>1, <1>3, <1>4, <1>5

LEMMA KeySent ==
    ASSUME NEW t \in Keys, NEW e \in Keys, e = 0 => t = 0, t \in KeysBetween(t, e)
    PROVE  KeysBetween(NextKey(t), e) = KeysBetween(t, e) \ {t} /\ e # 0
<1>1. MaxKey \in Nat /\ t \in 0..MaxKey /\ e \in 0..MaxKey
  BY MaxKeyPositive DEF Keys
<1>2. CASE t <= e
  BY <1>1, <1>2 DEF KeysBetween, NextKey
<1>3. CASE t > e /\ t < MaxKey
  <2>1. KeysBetween(NextKey(t), e) = ((t + 1)..MaxKey) \cup (1..(e - 1))
    BY <1>1, <1>3 DEF KeysBetween, NextKey
  <2>2. KeysBetween(t, e) = (t..MaxKey) \cup (1..(e - 1))
    BY <1>1, <1>3 DEF KeysBetween
  <2> QED
    BY <1>1, <1>3, <2>1, <2>2
<1>4. CASE t > e /\ t = MaxKey
  <2>1. e >= 1
    BY <1>1, <1>4
  <2>2. KeysBetween(NextKey(t), e) = 1..(e - 1)
    BY <1>1, <1>4, <2>1 DEF KeysBetween, NextKey
  <2>3. KeysBetween(t, e) = (t..MaxKey) \cup (1..(e - 1))
    BY <1>1, <1>4 DEF KeysBetween
  <2> QED
    BY <1>1, <1>4, <2>1, <2>2, <2>3
<1> QED
  BY <1>1, <1>2, <1>3, <1>4

-------------------------------------------------------------------------------
(* The turn of a subscription's events                                      *)

LEMMA OutstandingKeys ==
    ASSUME NEW s \in Sids
    PROVE  Outstanding(s) = KeysBetween(toSendEventKey[s], eventKey[s])
  BY DEF Outstanding, KeysBetween

(* Jobs of one subscription are of different events, which are fewer than   *)
(* the keys: with a new event there is still one key to spare.              *)
LEMMA KeysToSpare ==
    ASSUME JobInv, NEW s \in Sids, Turn(s), NEW b \in Batches, FreshBatch(b)
    PROVE  Cardinality(Outstanding(s)) + 2 <= MaxKey
<1> DEFINE J == JobsOf(s)
           B == Batches \ {b}
<1>1. IsFiniteSet(Batches) /\ IsFiniteSet(B) /\ Cardinality(B) = Cardinality(Batches) - 1
  BY GenaDeviceAssumption, FS_RemoveElement
<1>2. [j \in J |-> j.batch] \in Injection(J, B)
  <2>1. \A j \in J : j.batch \in B
    BY DEF JobInv, JobsOf, Job, FreshBatch
  <2>2. \A j, k \in J : j.batch = k.batch => j = k
    BY DEF JobInv, OneJob, JobsOf
  <2> HIDE DEF J, B
  <2>3. PICK f : f = [j \in J |-> j.batch]
    OBVIOUS
  <2>4. f \in [J -> B] /\ \A j, k \in J : f[j] = f[k] => j = k
    BY <2>1, <2>2, <2>3
  <2> QED
    BY <2>3, <2>4 DEF Injection, IsInjective
<1>3. IsFiniteSet(J) /\ Cardinality(J) <= Cardinality(B)
  BY <1>1, <1>2, FS_Injection
<1>4. [j \in J |-> j.key] \in Surjection(J, Outstanding(s))
  BY DEF Turn, Surjection
<1>5. IsFiniteSet(Outstanding(s)) /\ Cardinality(Outstanding(s)) <= Cardinality(J)
  BY <1>3, <1>4, FS_Surjection
<1>6. Cardinality(Outstanding(s)) \in Nat /\ Cardinality(J) \in Nat
  BY <1>3, <1>5, FS_CardinalityType
<1> QED
  BY <1>1, <1>3, <1>5, <1>6, MaxKeyPositive

LEMMA TurnKept ==
    ASSUME NEW s \in Sids, Turn(s), JobsOf(s)' = JobsOf(s),
           eventKey'[s] = eventKey[s], toSendEventKey'[s] = toSendEventKey[s]
    PROVE  Turn(s)'
  BY DEF Turn, Outstanding

(* The next key goes to a new job.                                          *)
LEMMA TurnGiven ==
    ASSUME ListInv, JobInv, NEW s \in Sids, Turn(s), NEW b \in Batches, FreshBatch(b),
           NEW initial \in BOOLEAN, JobsOf(s)' = JobsOf(s) \cup {NewJob(s, b, initial)},
           eventKey'[s] = NextKey(eventKey[s]), toSendEventKey'[s] = toSendEventKey[s]
    PROVE  Turn(s)'
<1>1. PICK t \in Keys, e \in Keys : t = toSendEventKey[s] /\ e = eventKey[s]
  BY DEF ListInv
<1>2. PICK k : k = NewJob(s, b, initial)
  OBVIOUS
<1>3. k.key = e /\ k.at = "queued"
  BY <1>1, <1>2 DEF NewJob
<1>4. Outstanding(s) = KeysBetween(t, e) /\ (e = 0 => t = 0)
  BY <1>1, OutstandingKeys DEF Turn
<1>5. Cardinality(KeysBetween(t, e)) + 2 <= MaxKey
  BY <1>4, KeysToSpare
<1>6. KeysBetween(t, NextKey(e)) = KeysBetween(t, e) \cup {e} /\ e \notin KeysBetween(t, e)
  BY <1>4, <1>5, KeyGiven
<1>7. Outstanding(s)' = KeysBetween(t, NextKey(e))
  BY <1>1 DEF Outstanding, KeysBetween
<1>8. JobsOf(s)' = JobsOf(s) \cup {k}
  BY <1>2
<1>9. \A j \in JobsOf(s) : j.key # e
  BY <1>4, <1>6 DEF Turn
<1>10. {j.key : j \in JobsOf(s)'} = Outstanding(s)'
  BY <1>3, <1>4, <1>6, <1>7, <1>8 DEF Turn
<1>11. \A i, j \in JobsOf(s)' : i.key = j.key => i = j
  BY <1>3, <1>8, <1>9 DEF Turn
<1>12. \A j \in JobsOf(s)' : j.at = "sending" => j.key = toSendEventKey'[s]
  BY <1>3, <1>8 DEF Turn
<1>13. eventKey'[s] # 0
  BY <1>1, NextKeyType
<1> QED
  BY <1>10, <1>11, <1>12, <1>13 DEF Turn

(* The next event goes out.                                                 *)
LEMMA TurnStarts ==
    ASSUME NEW s \in Sids, Turn(s), NEW j \in JobsOf(s), j \in Job, j.at = "queued", j.key = toSendEventKey[s],
           JobsOf(s)' = (JobsOf(s) \ {j}) \cup {[j EXCEPT !.at = "sending"]},
           eventKey'[s] = eventKey[s], toSendEventKey'[s] = toSendEventKey[s]
    PROVE  Turn(s)'
<1>1. PICK k : k = [j EXCEPT !.at = "sending"]
  OBVIOUS
<1>2. k.key = j.key /\ k.at = "sending"
  BY <1>1 DEF Job
<1>3. JobsOf(s)' = (JobsOf(s) \ {j}) \cup {k}
  BY <1>1
<1>4. {i.key : i \in JobsOf(s)'} = {i.key : i \in JobsOf(s)}
  BY <1>2, <1>3
<1>5. \A h, i \in JobsOf(s)' : h.key = i.key => h = i
  BY <1>2, <1>3 DEF Turn
<1>6. \A i \in JobsOf(s)' : i.at = "sending" => i.key = toSendEventKey'[s]
  BY <1>2, <1>3 DEF Turn
<1>7. Outstanding(s)' = Outstanding(s)
  BY DEF Outstanding
<1> QED
  BY <1>4, <1>5, <1>6, <1>7 DEF Turn

(* An event was sent: it is the turn of the next.                           *)
LEMMA TurnPasses ==
    ASSUME ListInv, NEW s \in Sids, Turn(s), NEW j \in JobsOf(s), j.key = toSendEventKey[s],
           JobsOf(s)' = JobsOf(s) \ {j},
           eventKey'[s] = eventKey[s], toSendEventKey'[s] = NextKey(toSendEventKey[s])
    PROVE  Turn(s)'
<1>1. PICK t \in Keys, e \in Keys : t = toSendEventKey[s] /\ e = eventKey[s]
  BY DEF ListInv
<1>2. Outstanding(s) = KeysBetween(t, e) /\ (e = 0 => t = 0)
  BY <1>1, OutstandingKeys DEF Turn
<1>3. t \in KeysBetween(t, e)
  BY <1>1, <1>2 DEF Turn
<1>4. KeysBetween(NextKey(t), e) = KeysBetween(t, e) \ {t} /\ e # 0
  BY <1>2, <1>3, KeySent
<1>5. Outstanding(s)' = KeysBetween(NextKey(t), e)
  BY <1>1 DEF Outstanding, KeysBetween
<1>6. \A i \in JobsOf(s) : i.key = t => i = j
  BY <1>1 DEF Turn
<1>7. {i.key : i \in JobsOf(s)'} = {i.key : i \in JobsOf(s)} \ {t}
  BY <1>1, <1>6
<1>8. \A i \in JobsOf(s)' : i.at # "sending"
  BY <1>1, <1>6 DEF Turn
<1> QED
  BY <1>1, <1>2, <1>4, <1>5, <1>7, <1>8 DEF Turn

-------------------------------------------------------------------------------
(* The three parts of the invariant                                         *)

(* The list keeps its count, whatever leaves it.                            *)
LEMMA ListShrinks ==
    ASSUME ListInv, NEW R \in SUBSET subs, RemoveSubscriptions(R), UNCHANGED deviceVars,
           eventKey' \in [Sids -> Keys], \A s \in Sids \ active' : eventKey'[s] = 0
    PROVE  ListInv'
<1>1. subs' = subs \ R /\ active' = active \ R /\ expired' = expired \ R
      /\ totalSubscriptions' = totalSubscriptions - Cardinality(R)
      /\ toSendEventKey' = [s \in Sids |-> IF s \in R THEN 0 ELSE toSendEventKey[s]]
  BY DEF RemoveSubscriptions
<1>2. 0 \in Keys
  BY MaxKeyPositive DEF Keys
<1>3. toSendEventKey' \in [Sids -> Keys] /\ \A s \in Sids \ active' : toSendEventKey'[s] = 0
  BY <1>1, <1>2 DEF ListInv, IdleInv
<1>4. CountMatchesList'
  <2>1. IsFiniteSet(subs) /\ IsFiniteSet(R) /\ Cardinality(subs) \in Nat /\ Cardinality(R) \in Nat
        /\ IsFiniteSet(subs \ R) /\ Cardinality(subs \ R) \in Nat
    BY SidsFinite DEF ListInv
  <2>2. Cardinality((subs \ R) \cup R) = Cardinality(subs \ R) + Cardinality(R) - Cardinality((subs \ R) \cap R)
    BY <2>1, FS_Union
  <2>3. (subs \ R) \cup R = subs /\ (subs \ R) \cap R = {} /\ Cardinality({}) = 0
    BY FS_EmptySet
  <2>4. Cardinality(subs) = Cardinality(subs \ R) + Cardinality(R) - 0
    BY <2>2, <2>3
  <2> QED
    BY <1>1, <2>1, <2>4 DEF ListInv, CountMatchesList
<1> QED
  BY <1>1, <1>3, <1>4 DEF ListInv, IdleInv, deviceVars

(* The shared data and its jobs are untouched.                              *)
LEMMA JobsUntouched ==
    ASSUME JobInv, UNCHANGED batchVars, \A b \in Batches : b \in refused => b \in refused'
    PROVE  JobInv'
<1>1. \A b \in Batches : Receivers(b)' = Receivers(b)
  BY DEF Receivers, batchVars
<1> QED
  BY <1>1 DEF JobInv, OneJob, BatchInv, InitialEventIsFirst, batchVars

(* A job gives its reference to the shared data back.                       *)
LEMMA JobReleased ==
    ASSUME JobInv, NEW j \in jobs, Release(j), \A b \in Batches : b \in refused => b \in refused'
    PROVE  JobInv'
<1>1. PICK r : r = j.batch
  OBVIOUS
<1>2. /\ jobs' = jobs \ {j} /\ referenceCount' = [referenceCount EXCEPT ![r] = @ - 1]
      /\ allocated' = IF referenceCount[r] = 1 THEN allocated \ {r} ELSE allocated
  BY <1>1 DEF Release
<1>3. r \in Batches /\ j.sid \in Sids
  BY <1>1 DEF JobInv, Job
<1>4. Receivers(r)' = Receivers(r) \ {j.sid} /\ j.sid \in Receivers(r)
  BY <1>1, <1>2, <1>3 DEF JobInv, OneJob, Receivers
<1>5. \A b \in Batches \ {r} : Receivers(b)' = Receivers(b)
  BY <1>1, <1>2 DEF Receivers
<1>6. /\ IsFiniteSet(Receivers(r)) /\ Cardinality(Receivers(r)) \in Nat
      /\ Cardinality(Receivers(r)') = Cardinality(Receivers(r)) - 1 /\ Cardinality(Receivers(r)') \in Nat
      /\ Cardinality(Receivers(r)') = 0 <=> Receivers(r)' = {}
  <2>1. PICK S \in SUBSET Sids : S = Receivers(r)
    BY DEF Receivers
  <2>2. IsFiniteSet(S) /\ Cardinality(S) \in Nat /\ IsFiniteSet(S \ {j.sid}) /\ Cardinality(S \ {j.sid}) \in Nat
    BY <2>1, SidsFinite
  <2>3. Cardinality(S \ {j.sid}) = Cardinality(S) - 1
    BY <1>4, <2>1, <2>2, FS_RemoveElement
  <2>4. Cardinality(S \ {j.sid}) = 0 <=> S \ {j.sid} = {}
    BY <2>2, FS_EmptySet
  <2> QED
    BY <1>4, <2>1, <2>2, <2>3, <2>4
<1>7. referenceCount[r] \in Nat /\ referenceCount[r] >= 1
  BY <1>3, <1>6 DEF JobInv, BatchInv
<1>8. referenceCount' \in [Batches -> Nat] /\ referenceCount'[r] = referenceCount[r] - 1
      /\ \A b \in Batches \ {r} : referenceCount'[b] = referenceCount[b]
  BY <1>2, <1>3, <1>7 DEF JobInv
<1>9. BatchInv'
  <2> SUFFICES ASSUME NEW b \in Batches
               PROVE  /\ Cardinality(Receivers(b)') <= referenceCount'[b]
                      /\ b \notin refused' => /\ Cardinality(Receivers(b)') = referenceCount'[b]
                                              /\ b \in allocated' <=> Receivers(b)' # {}
    BY DEF BatchInv
  <2>1. CASE b = r
    <3>1. /\ Cardinality(Receivers(r)) <= referenceCount[r]
          /\ r \notin refused => Cardinality(Receivers(r)) = referenceCount[r] /\ r \in allocated
      BY <1>3, <1>4 DEF JobInv, BatchInv
    <3>2. r \notin refused => (r \in allocated' <=> referenceCount[r] # 1)
      BY <1>2, <3>1
    <3> QED
      BY <1>6, <1>7, <1>8, <2>1, <3>1, <3>2
  <2>2. CASE b # r
    BY <1>2, <1>5, <1>8, <2>2 DEF JobInv, BatchInv
  <2> QED
    BY <2>1, <2>2
<1> QED
  BY <1>2, <1>8, <1>9 DEF JobInv, OneJob, InitialEventIsFirst

(* New jobs for one event, and data for them to share unless one was refused. *)
LEMMA JobsQueued ==
    ASSUME JobInv, ListInv, NEW b \in Batches, FreshBatch(b), NEW S \in SUBSET Sids, NEW initial \in BOOLEAN,
           initial => \A s \in S : eventKey[s] = 0,
           jobs' = jobs \cup {NewJob(s, b, initial) : s \in S},
           NEW n \in Nat, referenceCount' = [referenceCount EXCEPT ![b] = n],
           \/ n = Cardinality(S) /\ b \notin refused' /\ allocated' = (IF S = {} THEN allocated ELSE allocated \cup {b})
           \/ n = Cardinality(S) + 1 /\ b \in refused' /\ allocated' = allocated,
           \A a \in Batches \ {b} : a \in refused => a \in refused'
    PROVE  JobInv'
<1>1. \A s \in S : /\ NewJob(s, b, initial) \in Job /\ NewJob(s, b, initial).sid = s
                   /\ NewJob(s, b, initial).batch = b /\ NewJob(s, b, initial).key = eventKey[s]
                   /\ NewJob(s, b, initial).initial = initial
  BY DEF NewJob, Job, ListInv
<1>2. b \notin allocated /\ \A j \in jobs : j.batch # b
  BY DEF FreshBatch
<1>3. jobs' \subseteq Job
  BY <1>1 DEF JobInv
<1>4. Receivers(b)' = S
  BY <1>1, <1>2 DEF Receivers
<1>5. \A a \in Batches \ {b} : Receivers(a)' = Receivers(a)
  BY <1>1 DEF Receivers
<1>6. OneJob'
  <2> SUFFICES ASSUME NEW j \in jobs', NEW k \in jobs', j.sid = k.sid, j.batch = k.batch
               PROVE  j = k
    BY DEF OneJob
  <2>1. CASE j.batch = b
    <3>1. j = NewJob(j.sid, b, initial)
      BY <1>1, <1>2, <2>1
    <3>2. k.batch = b
      BY <2>1
    <3>3. k = NewJob(k.sid, b, initial)
      BY <1>1, <1>2, <3>2
    <3> QED
      BY <3>1, <3>3
  <2>2. CASE j.batch # b
    BY <1>1, <2>2 DEF JobInv, OneJob
  <2> QED
    BY <2>1, <2>2
<1>7. referenceCount' \in [Batches -> Nat] /\ referenceCount'[b] = n
      /\ \A a \in Batches \ {b} : referenceCount'[a] = referenceCount[a]
  BY DEF JobInv
<1>8. allocated' \subseteq Batches /\ \A a \in Batches \ {b} : a \in allocated' <=> a \in allocated
  BY DEF JobInv
<1>9. Cardinality(S) \in Nat
  BY SidsFinite
<1>10. BatchInv'
  <2> SUFFICES ASSUME NEW a \in Batches
               PROVE  /\ Cardinality(Receivers(a)') <= referenceCount'[a]
                      /\ a \notin refused' => /\ Cardinality(Receivers(a)') = referenceCount'[a]
                                              /\ a \in allocated' <=> Receivers(a)' # {}
    BY DEF BatchInv
  <2>1. CASE a = b
    BY <1>2, <1>4, <1>7, <1>9, <2>1
  <2>2. CASE a # b
    BY <1>5, <1>7, <1>8, <2>2 DEF JobInv, BatchInv
  <2> QED
    BY <2>1, <2>2
<1>11. InitialEventIsFirst'
  BY <1>1 DEF JobInv, InitialEventIsFirst
<1> QED
  BY <1>3, <1>6, <1>7, <1>8, <1>10, <1>11 DEF JobInv

(* The pool takes no more of a job, and nobody gives its reference back.    *)
LEMMA JobDropped ==
    ASSUME JobInv, NEW j \in jobs, jobs' = jobs \ {j}, UNCHANGED <<referenceCount, allocated>>,
           j.batch \in refused', \A b \in Batches : b \in refused => b \in refused'
    PROVE  JobInv'
<1>1. PICK r : r = j.batch
  OBVIOUS
<1>2. \A b \in Batches \ {r} : Receivers(b)' = Receivers(b)
  BY <1>1 DEF Receivers
<1>3. r \in Batches /\ Receivers(r)' \subseteq Receivers(r)
  BY <1>1 DEF JobInv, Job, Receivers
<1>4. Cardinality(Receivers(r)') <= Cardinality(Receivers(r))
      /\ Cardinality(Receivers(r)) \in Nat /\ Cardinality(Receivers(r)') \in Nat
  <2>1. PICK S \in SUBSET Sids, T \in SUBSET Sids : S = Receivers(r) /\ T = Receivers(r)'
    BY DEF Receivers
  <2>2. IsFiniteSet(S) /\ T \subseteq S /\ Cardinality(S) \in Nat /\ Cardinality(T) \in Nat
    BY <1>3, <2>1, SidsFinite
  <2> QED
    BY <2>1, <2>2, FS_Subset
<1>5. BatchInv'
  <2> SUFFICES ASSUME NEW b \in Batches
               PROVE  /\ Cardinality(Receivers(b)') <= referenceCount[b]
                      /\ b \notin refused' => /\ Cardinality(Receivers(b)') = referenceCount[b]
                                              /\ b \in allocated <=> Receivers(b)' # {}
    BY DEF BatchInv
  <2>1. CASE b = r
    <3>1. Cardinality(Receivers(r)) <= referenceCount[r] /\ referenceCount[r] \in Nat
      BY <1>3 DEF JobInv, BatchInv
    <3> QED
      BY <1>1, <1>4, <2>1, <3>1
  <2>2. CASE b # r
    BY <1>2, <2>2 DEF JobInv, BatchInv
  <2> QED
    BY <2>1, <2>2
<1> QED
  BY <1>5 DEF JobInv, OneJob, InitialEventIsFirst

(* Sending an event leaves its job where it is.                             *)
LEMMA JobMarked ==
    ASSUME JobInv, NEW j \in jobs, jobs' = (jobs \ {j}) \cup {[j EXCEPT !.at = "sending"]},
           UNCHANGED <<referenceCount, allocated, refused>>
    PROVE  JobInv'
<1>1. PICK k : k = [j EXCEPT !.at = "sending"]
  OBVIOUS
<1>2. k \in Job /\ k.sid = j.sid /\ k.batch = j.batch /\ k.key = j.key /\ k.initial = j.initial
  BY <1>1 DEF JobInv, Job
<1>3. jobs' = (jobs \ {j}) \cup {k}
  BY <1>1
<1>4. \A b \in Batches : Receivers(b)' = Receivers(b)
  BY <1>2, <1>3 DEF Receivers
<1>5. jobs' \subseteq Job /\ OneJob' /\ InitialEventIsFirst'
  BY <1>2, <1>3 DEF JobInv, OneJob, InitialEventIsFirst
<1> QED
  BY <1>4, <1>5 DEF JobInv, BatchInv

(* The subscriptions that stay are untouched.                               *)
LEMMA LinkKept ==
    ASSUME LinkInv, NEW R \in SUBSET subs, subs' = subs \ R, active' = active \ R, jobs' \subseteq jobs,
           refused' \subseteq subs' \cup Batches,
           \A s \in subs' \ refused' : /\ s \in Sids \ refused
                                       /\ JobsOf(s)' = JobsOf(s)
                                       /\ eventKey'[s] = eventKey[s]
                                       /\ toSendEventKey'[s] = toSendEventKey[s]
    PROVE  LinkInv'
<1>1. \A s \in subs' \ refused' : Turn(s)'
  BY TurnKept DEF LinkInv
<1> QED
  BY <1>1 DEF LinkInv

-------------------------------------------------------------------------------
(* Every step preserves the invariant                                       *)

(* The step ends one subscription and at most its jobs.                     *)
LEMMA SubscriptionGoes ==
    ASSUME ListInv, LinkInv, NEW s \in subs, RemoveSubscription(s), UNCHANGED deviceVars,
           jobs' \subseteq jobs, \A j \in jobs : j.sid # s => j \in jobs'
    PROVE  ListInv' /\ LinkInv' /\ \A b \in Batches : b \in refused => b \in refused'
<1>1. RemoveSubscriptions({s}) /\ eventKey' = [eventKey EXCEPT ![s] = 0] /\ refused' = refused \ {s}
  BY DEF RemoveSubscription
<1>2. subs' = subs \ {s} /\ active' = active \ {s}
      /\ toSendEventKey' = [x \in Sids |-> IF x \in {s} THEN 0 ELSE toSendEventKey[x]]
  BY <1>1 DEF RemoveSubscriptions
<1>3. s \in Sids /\ eventKey \in [Sids -> Keys] /\ subs \subseteq Sids
  BY DEF ListInv
<1>4. 0 \in Keys
  BY MaxKeyPositive DEF Keys
<1>5. eventKey' \in [Sids -> Keys] /\ \A x \in Sids \ active' : eventKey'[x] = 0
  BY <1>1, <1>2, <1>3, <1>4 DEF ListInv, IdleInv
<1>6. ListInv'
  BY <1>1, <1>5, ListShrinks
<1>7. refused' \subseteq subs' \cup Batches
  BY <1>1, <1>2 DEF LinkInv
<1>8. \A x \in subs' \ refused' : x \in Sids \ refused /\ x # s
  BY <1>1, <1>2, <1>3
<1>9. \A x \in subs' \ refused' : /\ x \in Sids \ refused
                                  /\ JobsOf(x)' = JobsOf(x)
                                  /\ eventKey'[x] = eventKey[x]
                                  /\ toSendEventKey'[x] = toSendEventKey[x]
  BY <1>1, <1>2, <1>3, <1>8 DEF JobsOf
<1>10. LinkInv'
  BY <1>2, <1>7, <1>9, LinkKept
<1>11. s \notin Batches
  BY <1>3, GenaDeviceAssumption
<1> QED
  BY <1>1, <1>6, <1>10, <1>11

(* The list, the keys and the jobs stay as they are.                        *)
LEMMA QuietStep ==
    ASSUME DeviceInv, UNCHANGED <<subs, totalSubscriptions, active, toSendEventKey, eventKey, batchVars, refused>>,
           registered' \in BOOLEAN, registered => registered',
           maxSubscriptions' \in Limits \cup {UPNP_INFINITE}, expired' \subseteq subs
    PROVE  DeviceInv'
<1>1. ListInv'
  BY DEF DeviceInv, ListInv, IdleInv, CountMatchesList
<1>2. JobInv'
  BY JobsUntouched DEF DeviceInv
<1>3. LinkInv'
  BY DEF DeviceInv, LinkInv, Turn, JobsOf, Outstanding, batchVars
<1> QED
  BY <1>1, <1>2, <1>3 DEF DeviceInv

LEMMA UnregisterKeepsInv ==
    ASSUME DeviceInv, Unregister
    PROVE  DeviceInv'
<1>1. /\ registered' = FALSE /\ subs' = {} /\ active' = {} /\ expired' = {} /\ totalSubscriptions' = 0
      /\ eventKey' = [s \in Sids |-> 0] /\ toSendEventKey' = [s \in Sids |-> 0] /\ refused' = refused \ Sids
      /\ maxSubscriptions' = maxSubscriptions /\ UNCHANGED batchVars
  BY DEF Unregister
<1>2. 0 \in Keys /\ Cardinality({}) = 0
  BY MaxKeyPositive, FS_EmptySet DEF Keys
<1>3. ListInv'
  BY <1>1, <1>2 DEF DeviceInv, ListInv, IdleInv, CountMatchesList
<1>4. JobInv'
  BY <1>1, JobsUntouched, GenaDeviceAssumption DEF DeviceInv
<1>5. LinkInv'
  BY <1>1 DEF DeviceInv, LinkInv, ListInv
<1> QED
  BY <1>3, <1>4, <1>5 DEF DeviceInv

LEMMA SubscribeKeepsInv ==
    ASSUME DeviceInv, NEW s \in Sids, Subscribe(s)
    PROVE  DeviceInv'
<1>1. /\ registered /\ s \notin subs /\ \A j \in jobs : j.sid # s
      /\ subs' = subs \cup {s} /\ totalSubscriptions' = totalSubscriptions + 1
      /\ UNCHANGED <<registered, maxSubscriptions, active, expired, toSendEventKey, eventKey, refused>>
      /\ UNCHANGED batchVars /\ jobs' = jobs
  BY DEF Subscribe, FreshSid, deviceVars, batchVars
<1>2. CountMatchesList'
  <2>1. IsFiniteSet(subs)
    BY SidsFinite DEF DeviceInv, ListInv
  <2>2. Cardinality(subs \cup {s}) = Cardinality(subs) + 1
    BY <1>1, <2>1, FS_AddElement
  <2> QED
    BY <1>1, <2>2 DEF DeviceInv, ListInv, CountMatchesList
<1>3. ListInv'
  BY <1>1, <1>2 DEF DeviceInv, ListInv, IdleInv
<1>4. JobInv'
  BY <1>1, JobsUntouched DEF DeviceInv
<1>5. \A x \in subs' \ refused' : Turn(x)'
  <2> SUFFICES ASSUME NEW x \in subs' \ refused'
               PROVE  Turn(x)'
    OBVIOUS
  <2>1. CASE x = s
    <3>1. eventKey'[s] = 0 /\ toSendEventKey'[s] = 0
      BY <1>1 DEF DeviceInv, ListInv, IdleInv
    <3>2. JobsOf(s)' = {}
      BY <1>1 DEF JobsOf
    <3>3. Outstanding(s)' = {}
      BY <3>1 DEF Outstanding
    <3> QED
      BY <2>1, <3>1, <3>2, <3>3 DEF Turn
  <2>2. CASE x # s
    <3>1. x \in Sids /\ Turn(x)
      BY <1>1, <2>2 DEF DeviceInv, LinkInv, ListInv
    <3>2. JobsOf(x)' = JobsOf(x)
      BY <1>1 DEF JobsOf
    <3> QED
      BY <1>1, <3>1, <3>2, TurnKept
  <2> QED
    BY <2>1, <2>2
<1>6. LinkInv'
  BY <1>1, <1>5 DEF DeviceInv, LinkInv
<1> QED
  BY <1>3, <1>4, <1>6 DEF DeviceInv

LEMMA AcceptSubscriptionKeepsInv ==
    ASSUME DeviceInv, NEW s \in Sids, NEW b \in Batches, AcceptSubscription(s, b)
    PROVE  DeviceInv'
<1>1. /\ s \in subs /\ s \notin active /\ active' = active \cup {s}
      /\ UNCHANGED <<registered, maxSubscriptions, subs, totalSubscriptions, expired, toSendEventKey>>
  BY DEF AcceptSubscription, Found, deviceVars
<1>2. eventKey[s] = 0 /\ toSendEventKey[s] = 0
  BY <1>1 DEF DeviceInv, ListInv, IdleInv
<1>3. NextKey(eventKey[s]) = 1 /\ 1 \in Keys
  BY <1>2, MaxKeyPositive DEF NextKey, Keys
<1>4. ASSUME eventKey' \in [Sids -> Keys], \A x \in Sids \ {s} : eventKey'[x] = eventKey[x]
      PROVE  ListInv'
  BY <1>1, <1>4 DEF DeviceInv, ListInv, IdleInv, CountMatchesList
<1>5. ASSUME UNCHANGED <<eventKey, batchVars, refused>>
      PROVE  DeviceInv'
  <2>1. ListInv'
    BY <1>4, <1>5 DEF DeviceInv, ListInv
  <2>2. JobInv'
    BY <1>5, JobsUntouched DEF DeviceInv
  <2>3. LinkInv'
    BY <1>1, <1>5 DEF DeviceInv, LinkInv, Turn, JobsOf, Outstanding, batchVars
  <2> QED
    BY <2>1, <2>2, <2>3 DEF DeviceInv
<1>6. ASSUME FreshBatch(b), eventKey' = [eventKey EXCEPT ![s] = @ + 1], jobs' = jobs \cup {NewJob(s, b, TRUE)},
             referenceCount' = [referenceCount EXCEPT ![b] = 1], allocated' = allocated \cup {b},
             refused' = refused \ {b}
      PROVE  DeviceInv'
  <2>1. eventKey' \in [Sids -> Keys] /\ eventKey'[s] = NextKey(eventKey[s])
        /\ \A x \in Sids \ {s} : eventKey'[x] = eventKey[x]
    BY <1>2, <1>3, <1>6 DEF DeviceInv, ListInv
  <2>2. ListInv'
    BY <1>4, <2>1
  <2>3. JobInv'
    <3>1. PICK S \in SUBSET Sids : S = {s}
      OBVIOUS
    <3>2. Cardinality(S) = 1 /\ S # {} /\ \A x \in S : eventKey[x] = 0
      BY <1>2, <3>1, FS_Singleton
    <3>3. jobs' = jobs \cup {NewJob(x, b, TRUE) : x \in S}
      BY <1>6, <3>1
    <3>4. b \notin refused' /\ (\A a \in Batches \ {b} : a \in refused => a \in refused') /\ 1 \in Nat
      BY <1>6
    <3>5. allocated' = IF S = {} THEN allocated ELSE allocated \cup {b}
      BY <1>6, <3>2
    <3> QED
      BY <1>6, <3>2, <3>3, <3>4, <3>5, JobsQueued DEF DeviceInv
  <2>4. NewJob(s, b, TRUE).sid = s
    BY DEF NewJob
  <2>5. \A x \in subs' \ refused' : Turn(x)'
    <3> SUFFICES ASSUME NEW x \in subs' \ refused'
                 PROVE  Turn(x)'
      OBVIOUS
    <3>1. x \in Sids /\ Turn(x)
      BY <1>1, <1>6, GenaDeviceAssumption DEF DeviceInv, LinkInv, ListInv
    <3>2. CASE x = s
      <4>1. JobsOf(s)' = JobsOf(s) \cup {NewJob(s, b, TRUE)}
        BY <1>6, <2>4 DEF JobsOf
      <4>2. toSendEventKey'[s] = toSendEventKey[s] /\ Turn(s)
        BY <1>1, <3>1, <3>2
      <4> QED
        BY <1>6, <2>1, <3>2, <4>1, <4>2, TurnGiven DEF DeviceInv
    <3>3. CASE x # s
      <4>1. JobsOf(x)' = JobsOf(x)
        BY <1>6, <2>4, <3>3 DEF JobsOf
      <4> QED
        BY <1>1, <2>1, <3>1, <3>3, <4>1, TurnKept
    <3> QED
      BY <3>2, <3>3
  <2>6. LinkInv'
    BY <1>1, <1>6, <2>4, <2>5 DEF DeviceInv, LinkInv
  <2> QED
    BY <2>2, <2>3, <2>6 DEF DeviceInv
<1>7. ASSUME eventKey' = [eventKey EXCEPT ![s] = @ + 1], refused' = refused \cup {s}, UNCHANGED batchVars
      PROVE  DeviceInv'
  <2>1. eventKey' \in [Sids -> Keys] /\ \A x \in Sids \ {s} : eventKey'[x] = eventKey[x]
    BY <1>2, <1>3, <1>7 DEF DeviceInv, ListInv
  <2>2. ListInv'
    BY <1>4, <2>1
  <2>3. JobInv'
    BY <1>7, JobsUntouched DEF DeviceInv
  <2>4. jobs' = jobs /\ \A x \in Sids : JobsOf(x)' = JobsOf(x)
    BY <1>7 DEF batchVars, JobsOf
  <2>5. \A x \in subs' \ refused' : x \in Sids \ {s} /\ Turn(x)
    BY <1>1, <1>7 DEF DeviceInv, LinkInv, ListInv
  <2>6. \A x \in subs' \ refused' : Turn(x)'
    BY <1>1, <2>1, <2>4, <2>5, TurnKept
  <2>7. LinkInv'
    BY <1>1, <1>7, <2>4, <2>6 DEF DeviceInv, LinkInv
  <2> QED
    BY <2>2, <2>3, <2>7 DEF DeviceInv
<1> QED
  BY <1>5, <1>6, <1>7 DEF AcceptSubscription

(* The walk of genaNotifyAll, to its end or to where the pool refuses: R is *)
(* removed, D gets a job, the keys of A are used up.                        *)
LEMMA WalkKeepsInv ==
    ASSUME DeviceInv, NEW b \in Batches, FreshBatch(b), UNCHANGED deviceVars,
           NEW R \in SUBSET expired, NEW A \in SUBSET Targets, NEW D \in SUBSET A, Advance(R, A),
           jobs' = jobs \cup {NewJob(s, b, FALSE) : s \in D},
           NEW n \in Nat, referenceCount' = [referenceCount EXCEPT ![b] = n],
           \/ n = Cardinality(D) /\ b \notin refused' /\ allocated' = (IF D = {} THEN allocated ELSE allocated \cup {b})
           \/ n = Cardinality(D) + 1 /\ b \in refused' /\ allocated' = allocated,
           \A a \in Batches \ {b} : a \in refused => a \in refused',
           refused' \subseteq subs' \cup Batches,
           \A s \in subs' \ refused' : s \notin refused /\ s \notin A \ D
    PROVE  DeviceInv'
<1>1. RemoveSubscriptions(R) /\ subs' = subs \ R /\ active' = active \ R
      /\ toSendEventKey' = [s \in Sids |-> IF s \in R THEN 0 ELSE toSendEventKey[s]]
  BY DEF Advance, RemoveSubscriptions
<1>2. eventKey' = [s \in Sids |-> IF s \in R THEN 0 ELSE IF s \in A THEN NextKey(eventKey[s]) ELSE eventKey[s]]
  BY DEF Advance
<1>3. R \subseteq subs /\ subs \subseteq Sids /\ A \subseteq active /\ A \subseteq Sids /\ A \cap R = {}
      /\ active \subseteq Sids /\ active \subseteq subs
  BY DEF DeviceInv, ListInv, Targets
<1>4. eventKey \in [Sids -> Keys] /\ \A s \in Sids \ active : eventKey[s] = 0
  BY DEF DeviceInv, ListInv, IdleInv
<1>5. 0 \in Keys /\ \A s \in Sids : NextKey(eventKey[s]) \in Keys
  BY <1>4, MaxKeyPositive, NextKeyType DEF Keys
<1>6. eventKey' \in [Sids -> Keys] /\ \A s \in Sids \ active' : eventKey'[s] = 0
  <2>1. eventKey' \in [Sids -> Keys]
    BY <1>2, <1>4, <1>5
  <2>2. \A s \in Sids \ active' : s \in R \/ s \in (Sids \ active) \ A
    BY <1>1, <1>3
  <2> QED
    BY <1>2, <1>4, <2>1, <2>2
<1>7. ListInv'
  BY <1>1, <1>3, <1>6, ListShrinks DEF DeviceInv
<1>8. JobInv'
  <2>1. D \in SUBSET Sids /\ FALSE \in BOOLEAN
    BY <1>3
  <2> QED
    BY <2>1, JobsQueued DEF DeviceInv
<1>9. \A s \in D : NewJob(s, b, FALSE).sid = s
  BY DEF NewJob
<1>10. \A s \in subs' \ refused' : Turn(s)'
  <2> SUFFICES ASSUME NEW s \in subs' \ refused'
               PROVE  Turn(s)'
    OBVIOUS
  <2>1. s \in Sids /\ s \notin R /\ Turn(s) /\ (s \in A => s \in D)
    BY <1>1, <1>3 DEF DeviceInv, LinkInv
  <2>2. toSendEventKey'[s] = toSendEventKey[s]
    BY <1>1, <2>1
  <2>3. CASE s \in D
    <3>1. JobsOf(s)' = JobsOf(s) \cup {NewJob(s, b, FALSE)}
      <4>1. \A x \in D : NewJob(x, b, FALSE).sid = s <=> x = s
        BY <1>9
      <4>2. {j \in {NewJob(x, b, FALSE) : x \in D} : j.sid = s} = {NewJob(s, b, FALSE)}
        <5>1. PICK N : N = [x \in D |-> NewJob(x, b, FALSE)]
          OBVIOUS
        <5>2. {NewJob(x, b, FALSE) : x \in D} = {N[x] : x \in D} /\ N[s] = NewJob(s, b, FALSE)
          BY <2>3, <5>1
        <5>3. \A x \in D : N[x].sid = s <=> x = s
          BY <4>1, <5>1
        <5>4. {j \in {N[x] : x \in D} : j.sid = s} = {N[s]}
          BY <2>3, <5>3
        <5> QED
          BY <5>2, <5>4
      <4>3. JobsOf(s)' = JobsOf(s) \cup {j \in {NewJob(x, b, FALSE) : x \in D} : j.sid = s}
        BY DEF JobsOf
      <4> QED
        BY <4>2, <4>3
    <3>2. eventKey'[s] = NextKey(eventKey[s])
      BY <1>2, <2>1, <2>3
    <3> QED
      BY <2>1, <2>2, <3>1, <3>2, TurnGiven DEF DeviceInv
  <2>4. CASE s \notin D
    <3>1. JobsOf(s)' = JobsOf(s)
      BY <1>9, <2>4, ZenonT(30) DEF JobsOf
    <3>2. eventKey'[s] = eventKey[s]
      BY <1>2, <2>1, <2>4
    <3> QED
      BY <2>1, <2>2, <3>1, <3>2, TurnKept
  <2> QED
    BY <2>3, <2>4
<1>11. \A j \in jobs' : j.sid \in subs' => j.sid \in active'
  <2>1. \A j \in jobs : j.sid \in subs' => j.sid \in active'
    BY <1>1 DEF DeviceInv, LinkInv
  <2>2. \A s \in D : s \in active'
    BY <1>1, <1>3
  <2> QED
    BY <1>9, <2>1, <2>2
<1>12. LinkInv'
  BY <1>10, <1>11 DEF LinkInv
<1> QED
  BY <1>7, <1>8, <1>12 DEF DeviceInv

LEMMA NotifyAllKeepsInv ==
    ASSUME DeviceInv, NEW b \in Batches, NotifyAll(b)
    PROVE  DeviceInv'
<1>1. /\ FreshBatch(b) /\ UNCHANGED deviceVars /\ Advance(expired, Targets)
      /\ jobs' = jobs \cup {NewJob(s, b, FALSE) : s \in Targets}
      /\ referenceCount' = [referenceCount EXCEPT ![b] = Cardinality(Targets)]
      /\ allocated' = (IF Targets = {} THEN allocated ELSE allocated \cup {b})
      /\ refused' = refused \ (expired \cup {b})
  BY DEF NotifyAll
<1>2. subs' = subs \ expired
  BY <1>1 DEF Advance, RemoveSubscriptions
<1>3. Targets \subseteq Sids /\ subs \subseteq Sids /\ expired \subseteq Sids /\ refused \subseteq subs \cup Batches
  BY DEF DeviceInv, ListInv, LinkInv, Targets
<1>4. Cardinality(Targets) \in Nat
  BY <1>3, SidsFinite
<1>5. refused' \subseteq subs' \cup Batches /\ b \notin refused'
  BY <1>1, <1>2, <1>3
<1>6. \A a \in Batches \ {b} : a \in refused => a \in refused'
  BY <1>1, <1>3, GenaDeviceAssumption
<1>7. \A s \in subs' \ refused' : s \notin refused
  BY <1>1, <1>2, <1>3, GenaDeviceAssumption
<1>8. PICK R \in SUBSET expired, A \in SUBSET Targets : R = expired /\ A = Targets
  OBVIOUS
<1>9. PICK D \in SUBSET A, n \in Nat : D = A /\ n = Cardinality(D)
  BY <1>4, <1>8
<1>10. /\ FreshBatch(b) /\ UNCHANGED deviceVars
       /\ Advance(R, A) /\ jobs' = jobs \cup {NewJob(s, b, FALSE) : s \in D}
       /\ referenceCount' = [referenceCount EXCEPT ![b] = n]
       /\ n = Cardinality(D) /\ b \notin refused' /\ allocated' = (IF D = {} THEN allocated ELSE allocated \cup {b})
  BY <1>1, <1>5, <1>8, <1>9
<1>11. \A s \in subs' \ refused' : s \notin refused /\ s \notin A \ D
  BY <1>7, <1>9
<1> QED
  BY <1>5, <1>6, <1>8, <1>9, <1>10, <1>11, WalkKeepsInv, ZenonT(30)

LEMMA NotifyAllFailsKeepsInv ==
    ASSUME DeviceInv, NEW b \in Batches, NotifyAllFails(b)
    PROVE  DeviceInv'
<1>1. FreshBatch(b) /\ UNCHANGED deviceVars /\ allocated' = allocated /\ refused = {}
  BY DEF NotifyAllFails, MayRefuse
<1>2. PICK last \in Targets, done \in SUBSET Targets, swept \in SUBSET expired :
         /\ last \notin done
         /\ jobs' = jobs \cup {NewJob(s, b, FALSE) : s \in done}
         /\ referenceCount' = [referenceCount EXCEPT ![b] = Cardinality(done) + 1]
         /\ Advance(swept, done \cup {last})
         /\ refused' = (refused \ swept) \cup {b, last}
  BY DEF NotifyAllFails
<1>3. Targets \subseteq Sids /\ subs \subseteq Sids /\ last \in subs /\ last \notin expired
  BY <1>2 DEF DeviceInv, ListInv, Targets
<1>4. Cardinality(done) + 1 \in Nat
  <2>1. Cardinality(done) \in Nat
    BY <1>2, <1>3, SidsFinite
  <2> QED
    BY <2>1
<1>5. subs' = subs \ swept /\ refused' = {b, last}
  BY <1>1, <1>2 DEF Advance, RemoveSubscriptions
<1>6. refused' \subseteq subs' \cup Batches
  BY <1>2, <1>3, <1>5
<1>7. \A s \in subs' \ refused' : s \notin refused /\ s \notin (done \cup {last}) \ done
  BY <1>1, <1>5
<1>8. PICK A \in SUBSET Targets : A = done \cup {last} /\ done \subseteq A
  BY <1>2
<1> QED
  BY <1>1, <1>2, <1>4, <1>5, <1>6, <1>7, <1>8, WalkKeepsInv

LEMMA JobGoneKeepsInv ==
    ASSUME DeviceInv, NEW j \in jobs, JobEnds(j) \/ JobRejected(j)
    PROVE  DeviceInv'
<1>1. PICK s \in Sids : s = j.sid
  BY DEF DeviceInv, JobInv, Job
<1>2. Release(j) /\ UNCHANGED deviceVars /\ jobs' \subseteq jobs /\ \A i \in jobs : i.sid # s => i \in jobs'
  BY <1>1 DEF JobEnds, JobRejected, Release
<1>3. expired \subseteq subs
  BY DEF DeviceInv, ListInv
<1>4. CASE s \in subs
  <2>1. RemoveSubscription(s)
    BY <1>1, <1>3, <1>4 DEF JobEnds, JobRejected, RemoveIfExpired, Found, DeviceInv, ListInv
  <2>2. ListInv' /\ LinkInv' /\ \A b \in Batches : b \in refused => b \in refused'
    BY <1>2, <1>4, <2>1, SubscriptionGoes DEF DeviceInv
  <2> QED
    BY <1>2, <2>2, JobReleased DEF DeviceInv
<1>5. CASE s \notin subs
  <2>1. UNCHANGED <<listVars, eventKey, refused>>
    BY <1>1, <1>3, <1>5 DEF JobEnds, JobRejected, RemoveIfExpired, Found
  <2>2. UNCHANGED <<registered, maxSubscriptions, subs, totalSubscriptions, active, expired, toSendEventKey, eventKey, refused>>
    BY <1>2, <2>1 DEF deviceVars, listVars
  <2>3. ListInv'
    BY <2>2 DEF DeviceInv, ListInv, IdleInv, CountMatchesList
  <2>4. JobInv'
    BY <1>2, <2>2, JobReleased DEF DeviceInv
  <2>5. \A x \in subs' \ refused' : Turn(x)'
    <3> SUFFICES ASSUME NEW x \in subs' \ refused'
                 PROVE  Turn(x)'
      OBVIOUS
    <3>1. x \in Sids /\ x # s /\ Turn(x)
      BY <1>5, <2>2 DEF DeviceInv, ListInv, LinkInv
    <3>2. JobsOf(x)' = JobsOf(x)
      BY <1>2, <3>1 DEF JobsOf
    <3> QED
      BY <2>2, <3>1, <3>2, TurnKept
  <2>6. LinkInv'
    BY <1>2, <2>2, <2>5 DEF DeviceInv, LinkInv
  <2> QED
    BY <2>3, <2>4, <2>6 DEF DeviceInv
<1> QED
  BY <1>4, <1>5

LEMMA JobStartsKeepsInv ==
    ASSUME DeviceInv, NEW j \in jobs, JobStarts(j)
    PROVE  DeviceInv'
<1>1. /\ j.at = "queued" /\ j.sid \in subs /\ j.key = toSendEventKey[j.sid]
      /\ jobs' = (jobs \ {j}) \cup {[j EXCEPT !.at = "sending"]}
      /\ UNCHANGED <<deviceVars, listVars, eventKey, referenceCount, allocated, refused>>
  BY DEF JobStarts, Found, IsTurn
<1>2. UNCHANGED <<registered, maxSubscriptions, subs, totalSubscriptions, active, expired, toSendEventKey, eventKey, refused>>
  BY <1>1 DEF deviceVars, listVars
<1>3. ListInv'
  BY <1>2 DEF DeviceInv, ListInv, IdleInv, CountMatchesList
<1>4. JobInv'
  BY <1>1, JobMarked DEF DeviceInv
<1>5. PICK k : k = [j EXCEPT !.at = "sending"]
  OBVIOUS
<1>6. jobs' = (jobs \ {j}) \cup {k} /\ k.sid = j.sid /\ j \in Job
  BY <1>1, <1>5 DEF DeviceInv, JobInv, Job
<1>7. \A x \in subs' \ refused' : Turn(x)'
  <2> SUFFICES ASSUME NEW x \in subs' \ refused'
               PROVE  Turn(x)'
    OBVIOUS
  <2>1. x \in Sids /\ Turn(x)
    BY <1>2 DEF DeviceInv, ListInv, LinkInv
  <2>2. CASE x = j.sid
    <3>1. j \in JobsOf(x) /\ JobsOf(x)' = (JobsOf(x) \ {j}) \cup {k}
      BY <1>6, <2>2 DEF JobsOf
    <3> QED
      BY <1>1, <1>2, <1>5, <1>6, <2>1, <2>2, <3>1, TurnStarts
  <2>3. CASE x # j.sid
    <3>1. JobsOf(x)' = JobsOf(x)
      BY <1>6, <2>3 DEF JobsOf
    <3> QED
      BY <1>2, <2>1, <3>1, TurnKept
  <2> QED
    BY <2>2, <2>3
<1>8. LinkInv'
  BY <1>2, <1>6, <1>7 DEF DeviceInv, LinkInv
<1> QED
  BY <1>3, <1>4, <1>8 DEF DeviceInv

LEMMA RequeueFailsKeepsInv ==
    ASSUME DeviceInv, NEW j \in jobs, RequeueFails(j)
    PROVE  DeviceInv'
<1>1. /\ jobs' = jobs \ {j} /\ j.sid \in subs /\ refused' = refused \cup {j.sid, j.batch}
      /\ UNCHANGED <<deviceVars, listVars, eventKey, referenceCount, allocated>>
  BY DEF RequeueFails, Found
<1>2. UNCHANGED <<registered, maxSubscriptions, subs, totalSubscriptions, active, expired, toSendEventKey, eventKey>>
  BY <1>1 DEF deviceVars, listVars
<1>3. ListInv'
  BY <1>2 DEF DeviceInv, ListInv, IdleInv, CountMatchesList
<1>4. JobInv'
  BY <1>1, JobDropped DEF DeviceInv
<1>5. \A x \in subs' \ refused' : x \in Sids \ refused /\ JobsOf(x)' = JobsOf(x)
  BY <1>1, <1>2 DEF DeviceInv, ListInv, JobsOf
<1>6. \A x \in subs' \ refused' : Turn(x)'
  BY <1>2, <1>5, TurnKept DEF DeviceInv, LinkInv
<1>7. j.batch \in Batches
  BY DEF DeviceInv, JobInv, Job
<1>8. LinkInv'
  BY <1>1, <1>2, <1>6, <1>7 DEF DeviceInv, LinkInv
<1> QED
  BY <1>3, <1>4, <1>8 DEF DeviceInv

LEMMA JobSentKeepsInv ==
    ASSUME DeviceInv, NEW j \in jobs, JobSent(j)
    PROVE  DeviceInv'
<1>1. /\ j.at = "sending" /\ j.sid \in subs /\ Release(j) /\ jobs' = jobs \ {j}
      /\ toSendEventKey' = [toSendEventKey EXCEPT ![j.sid] = NextKey(@)]
      /\ UNCHANGED <<registered, maxSubscriptions, subs, totalSubscriptions, active, expired, eventKey, refused>>
  BY DEF JobSent, Found, Release, deviceVars
<1>2. PICK s \in Sids : s = j.sid
  BY DEF DeviceInv, JobInv, Job
<1>3. toSendEventKey' \in [Sids -> Keys] /\ toSendEventKey'[s] = NextKey(toSendEventKey[s])
      /\ \A x \in Sids \ {s} : toSendEventKey'[x] = toSendEventKey[x]
  BY <1>1, <1>2, NextKeyType DEF DeviceInv, ListInv
<1>4. s \in active
  BY <1>1, <1>2 DEF DeviceInv, LinkInv
<1>5. ListInv'
  BY <1>1, <1>3, <1>4 DEF DeviceInv, ListInv, IdleInv, CountMatchesList
<1>6. JobInv'
  BY <1>1, JobReleased DEF DeviceInv
<1>7. \A x \in subs' \ refused' : Turn(x)'
  <2> SUFFICES ASSUME NEW x \in subs' \ refused'
               PROVE  Turn(x)'
    OBVIOUS
  <2>1. x \in Sids /\ Turn(x) /\ eventKey'[x] = eventKey[x]
    BY <1>1 DEF DeviceInv, ListInv, LinkInv
  <2>2. CASE x = s
    <3>1. j \in JobsOf(s) /\ JobsOf(s)' = JobsOf(s) \ {j} /\ Turn(s)
      BY <1>1, <1>2, <2>1, <2>2 DEF JobsOf
    <3>2. j.key = toSendEventKey[s]
      BY <1>1, <3>1 DEF Turn
    <3> QED
      BY <1>3, <2>1, <2>2, <3>1, <3>2, TurnPasses DEF DeviceInv
  <2>3. CASE x # s
    <3>1. JobsOf(x)' = JobsOf(x)
      BY <1>1, <1>2, <2>3 DEF JobsOf
    <3> QED
      BY <1>3, <2>1, <2>3, <3>1, TurnKept
  <2> QED
    BY <2>2, <2>3
<1>8. LinkInv'
  BY <1>1, <1>7 DEF DeviceInv, LinkInv
<1> QED
  BY <1>5, <1>6, <1>8 DEF DeviceInv

LEMMA InitDeviceInv ==
    ASSUME Init
    PROVE  DeviceInv
<1>1. 0 \in Keys /\ Cardinality({}) = 0 /\ UPNP_INFINITE \in Limits \cup {UPNP_INFINITE}
  BY MaxKeyPositive, FS_EmptySet DEF Keys
<1>2. ListInv
  BY <1>1 DEF Init, ListInv, IdleInv, CountMatchesList
<1>3. \A b \in Batches : Receivers(b) = {}
  BY DEF Init, Receivers
<1>4. JobInv
  BY <1>1, <1>3 DEF Init, JobInv, OneJob, BatchInv, InitialEventIsFirst
<1>5. LinkInv
  BY DEF Init, LinkInv
<1> QED
  BY <1>2, <1>4, <1>5 DEF DeviceInv

LEMMA NextDeviceInv ==
    ASSUME DeviceInv, [Next]_vars
    PROVE  DeviceInv'
<1>1. CASE Register
  <2>1. UNCHANGED <<subs, totalSubscriptions, active, toSendEventKey, eventKey, batchVars, refused>>
        /\ registered' = TRUE /\ maxSubscriptions' = UPNP_INFINITE /\ expired' = expired
    BY <1>1 DEF Register, listVars
  <2>2. expired \subseteq subs
    BY DEF DeviceInv, ListInv
  <2> QED
    BY <2>1, <2>2, QuietStep
<1>2. CASE \E max \in Limits : SetMaxSubscriptions(max)
  <2>1. UNCHANGED <<subs, totalSubscriptions, active, toSendEventKey, eventKey, batchVars, refused>>
        /\ registered' = registered /\ maxSubscriptions' \in Limits /\ expired' = expired
    BY <1>2 DEF SetMaxSubscriptions, listVars
  <2>2. expired \subseteq subs /\ registered \in BOOLEAN
    BY DEF DeviceInv, ListInv
  <2> QED
    BY <2>1, <2>2, QuietStep
<1>3. ASSUME NEW s \in Sids, RenewalEnds(s) \/ Unsubscribe(s) \/ AcceptTooLate(s)
      PROVE  DeviceInv'
  <2>1. RemoveSubscription(s) /\ UNCHANGED deviceVars /\ UNCHANGED batchVars /\ s \in subs /\ jobs' = jobs
    BY <1>3 DEF RenewalEnds, Unsubscribe, AcceptTooLate, batchVars, DeviceInv, ListInv
  <2>2. ListInv' /\ LinkInv' /\ \A b \in Batches : b \in refused => b \in refused'
    BY <2>1, SubscriptionGoes DEF DeviceInv
  <2> QED
    BY <2>1, <2>2, JobsUntouched DEF DeviceInv
<1>4. ASSUME NEW s \in Sids, Expires(s)
      PROVE  DeviceInv'
  <2>1. UNCHANGED <<subs, totalSubscriptions, active, toSendEventKey, eventKey, batchVars, refused>>
        /\ registered' = registered /\ maxSubscriptions' = maxSubscriptions
        /\ expired' = expired \cup {s} /\ s \in subs
    BY <1>4 DEF Expires, deviceVars
  <2>2. expired \subseteq subs /\ registered \in BOOLEAN /\ maxSubscriptions \in Limits \cup {UPNP_INFINITE}
    BY DEF DeviceInv, ListInv
  <2> QED
    BY <2>1, <2>2, QuietStep
<1>5. ASSUME NEW j \in jobs, JobStep(j)
      PROVE  DeviceInv'
  BY <1>5, JobGoneKeepsInv, JobStartsKeepsInv, RequeueFailsKeepsInv, JobSentKeepsInv DEF JobStep
<1>6. CASE UNCHANGED vars
  <2>1. UNCHANGED <<subs, totalSubscriptions, active, toSendEventKey, eventKey, batchVars, refused>>
        /\ registered' = registered /\ maxSubscriptions' = maxSubscriptions /\ expired' = expired
    BY <1>6 DEF vars, listVars, deviceVars
  <2>2. expired \subseteq subs /\ registered \in BOOLEAN /\ maxSubscriptions \in Limits \cup {UPNP_INFINITE}
    BY DEF DeviceInv, ListInv
  <2> QED
    BY <2>1, <2>2, QuietStep
<1> QED
  BY <1>1, <1>2, <1>3, <1>4, <1>5, <1>6, UnregisterKeepsInv, SubscribeKeepsInv, AcceptSubscriptionKeepsInv,
     NotifyAllKeepsInv, NotifyAllFailsKeepsInv DEF Next

(* The strengthened invariant of the specification.                         *)
THEOREM SpecDeviceInv == Spec => []DeviceInv
  BY InitDeviceInv, NextDeviceInv, PTL DEF Spec

-------------------------------------------------------------------------------
(* What follows from it                                                     *)

LEMMA JobsAreKeys ==
    ASSUME DeviceInv, NEW s \in subs \ refused
    PROVE  /\ IsFiniteSet(JobsOf(s))
           /\ {j.key : j \in JobsOf(s)} = Outstanding(s)
           /\ Cardinality(JobsOf(s)) = Cardinality(Outstanding(s))
<1> DEFINE J == JobsOf(s)
           K == Outstanding(s)
<1>1. Turn(s) /\ s \in Sids
  BY DEF DeviceInv, LinkInv, ListInv
<1>2. {j.key : j \in J} = K /\ \A i, j \in J : i.key = j.key => i = j
  BY <1>1 DEF Turn
<1>3. K \subseteq Keys /\ IsFiniteSet(Keys)
  <2>1. MaxKey \in Nat /\ 0 \in Int /\ MaxKey \in Int
    BY MaxKeyPositive
  <2>2. IsFiniteSet(Keys)
    BY <2>1, FS_Interval DEF Keys
  <2>3. J \subseteq Job
    BY DEF DeviceInv, JobInv, JobsOf
  <2>4. \A j \in J : j.key \in Keys
    BY <2>3 DEF Job
  <2> QED
    BY <1>2, <2>2, <2>4
<1>4. IsFiniteSet(K)
  BY <1>3, FS_Subset
<1> HIDE DEF J, K
<1>5. PICK f : f = [j \in J |-> j.key]
  OBVIOUS
<1>6. f \in [J -> K] /\ (\A i, j \in J : f[i] = f[j] => i = j) /\ \A k \in K : \E j \in J : f[j] = k
  BY <1>2, <1>5
<1>7. f \in Injection(J, K) /\ f \in Surjection(J, K)
  BY <1>6 DEF Injection, IsInjective, Surjection
<1>8. IsFiniteSet(J)
  BY <1>4, <1>7, FS_Injection
<1>9. Cardinality(J) = Cardinality(K)
  BY <1>4, <1>7, FS_Injection
<1> QED
  BY <1>2, <1>8, <1>9 DEF J, K

LEMMA OneIsSending ==
    ASSUME DeviceInv, NEW s \in subs \ refused
    PROVE  Cardinality({j \in JobsOf(s) : j.at = "sending"}) <= 1
<1>1. Turn(s)
  BY DEF DeviceInv, LinkInv
<1>2. PICK S : S = {j \in JobsOf(s) : j.at = "sending"}
  OBVIOUS
<1>3. \A i, j \in S : i = j
  BY <1>1, <1>2 DEF Turn
<1>4. CASE S = {}
  <2>1. Cardinality(S) = 0
    BY <1>4, FS_EmptySet
  <2> QED
    BY <1>2, <2>1
<1>5. CASE S # {}
  <2>1. PICK j \in S : S = {j}
    BY <1>3, <1>5
  <2>2. Cardinality(S) = 1
    BY <2>1, FS_Singleton
  <2> QED
    BY <1>2, <2>2
<1> QED
  BY <1>4, <1>5

(* The subscriptions are counted, whichever way they leave the list, and    *)
(* every variable keeps its type (service_table.c, gena_device.c).          *)
THEOREM SpecListSound == Spec => []ListSound
<1>1. DeviceInv => ListSound
  <2> SUFFICES ASSUME DeviceInv
               PROVE  ListSound
    OBVIOUS
  <2>1. totalSubscriptions \in Nat
    BY SidsFinite DEF DeviceInv, ListInv, CountMatchesList
  <2> QED
    BY <2>1 DEF DeviceInv, ListInv, JobInv, LinkInv, TypeOK, ListSound
<1> QED
  BY <1>1, SpecDeviceInv, PTL

(* The events of a subscription are sent each in its turn, one at a time    *)
(* and none is lost, also across the overflow of eventKey                   *)
(* (genaNotifyThread, GetNextKey).                                          *)
THEOREM SpecEventsInTurn == Spec => []EventsInTurn
<1>1. DeviceInv => EventsInTurn
  <2> SUFFICES ASSUME DeviceInv
               PROVE  EventsInTurn
    OBVIOUS
  <2>1. JobsCoverKeys
    BY JobsAreKeys DEF JobsCoverKeys
  <2>2. OneSenderPerSubscription
    BY OneIsSending DEF OneSenderPerSubscription
  <2> QED
    BY <2>1, <2>2 DEF DeviceInv, JobInv, EventsInTurn
<1> QED
  BY <1>1, SpecDeviceInv, PTL

(* The headers and the property set that the jobs of an event share are     *)
(* freed by the last of them and by no other (free_notify_struct).          *)
THEOREM SpecSharedDataFreedByLast == Spec => []SharedDataFreedByLast
<1>1. DeviceInv => SharedDataFreedByLast
  BY DEF DeviceInv, JobInv, Job, BatchInv, Receivers, SharedDataFreedByLast
<1> QED
  BY <1>1, SpecDeviceInv, PTL
===============================================================================
