------------------------------ MODULE GenaDevice ------------------------------
(***************************************************************************)
(* libupnp/gena/gena_device.c with genlib/service_table/service_table.c:   *)
(* one service of a device, its subscriptions and the jobs of the send     *)
(* pool that notify the subscribers.  HandleLock is held for the whole of  *)
(* every handler and call, and by a job except while it sends, so an       *)
(* action is one critical section.                                         *)
(*                                                                         *)
(* The pool is its contract (see ThreadPool): it refuses a job or runs it  *)
(* in the end, in no particular order and several at a time.  An event     *)
(* sent to all subscribers has one set of headers and one property set,    *)
(* its batch, which the jobs share and the last of them frees.             *)
(*                                                                         *)
(* The subscription list is a set: only a notification that fails half way *)
(* depends on its order, and may take any.  A SID, a UUID in the code, is  *)
(* used again when nothing refers to it any more, and so is a batch.       *)
(***************************************************************************)
EXTENDS Integers, FiniteSets

CONSTANTS
    Sids,
    Batches,   \* bound: events whose headers are in memory at the same time
    MaxKey,    \* the largest value of the int eventKey
    Limits,    \* the arguments of UpnpSetMaxSubscriptions
    Failures   \* what may fail: "answer", "initial", "requeue", "all"

UPNP_INFINITE == -1

ASSUME GenaDeviceAssumption ==
    /\ IsFiniteSet(Sids) /\ IsFiniteSet(Batches) /\ Sids \cap Batches = {}
    /\ MaxKey \in Nat /\ Cardinality(Batches) < MaxKey
    /\ Limits \subseteq Nat \cup {UPNP_INFINITE}
    /\ Failures \subseteq {"answer", "initial", "requeue", "all"}

VARIABLES
    registered,         \* GetHandleInfo(device_handle) = HND_DEVICE
    maxSubscriptions,   \* handle_info->MaxSubscriptions
    subs,               \* service->subscriptionList
    totalSubscriptions, \* service->TotalSubscriptions
    active, eventKey, toSendEventKey,   \* the fields of a subscription
    expired,            \* subscriptions whose expireTime has passed
    jobs,               \* genaNotifyThread jobs in the pool
    referenceCount,     \* of a batch
    allocated,          \* batches in memory
    refused             \* auxiliary: subscriptions and batches a job of which the pool
                        \* has refused

deviceVars == <<registered, maxSubscriptions>>
listVars   == <<subs, totalSubscriptions, active, expired, toSendEventKey>>
batchVars  == <<jobs, referenceCount, allocated>>
vars == <<deviceVars, listVars, eventKey, batchVars, refused>>

Keys == 0..MaxKey
Job == [sid : Sids, key : Keys, batch : Batches, initial : BOOLEAN, at : {"queued", "sending"}]

TypeOK ==
    /\ registered \in BOOLEAN
    /\ maxSubscriptions \in Limits \cup {UPNP_INFINITE}
    /\ subs \subseteq Sids /\ active \subseteq subs /\ expired \subseteq subs
    /\ totalSubscriptions \in Nat
    /\ eventKey \in [Sids -> Keys] /\ toSendEventKey \in [Sids -> Keys]
    /\ jobs \subseteq Job
    /\ referenceCount \in [Batches -> Nat]
    /\ allocated \subseteq Batches
    /\ refused \subseteq subs \cup Batches

-------------------------------------------------------------------------------
(* service_table.c                                                          *)

RemoveSubscriptionsUncounted(R) ==
    /\ subs' = subs \ R
    /\ totalSubscriptions' = totalSubscriptions - Cardinality(R \ expired)
    /\ active' = active \ R
    /\ expired' = expired \ R
    /\ toSendEventKey' = [s \in Sids |-> IF s \in R THEN 0 ELSE toSendEventKey[s]]

(* RemoveSubscriptionSID and the removal of expired subscriptions in        *)
(* GetSubscriptionSID and GetNextSubscription.                              *)
RemoveSubscriptions(R) ==
    /\ subs' = subs \ R
    /\ totalSubscriptions' = totalSubscriptions - Cardinality(R)
    /\ active' = active \ R
    /\ expired' = expired \ R
    /\ toSendEventKey' = [s \in Sids |-> IF s \in R THEN 0 ELSE toSendEventKey[s]]

RemoveSubscription(s) ==
    /\ RemoveSubscriptions({s})
    /\ eventKey' = [eventKey EXCEPT ![s] = 0]
    /\ refused' = refused \ {s}

(* GetSubscriptionSID finds a subscription unless it has expired, and then  *)
(* removes it.                                                              *)
Found(s) == registered /\ s \in subs \ expired
RemoveIfExpired(s) ==
    IF s \in expired THEN RemoveSubscription(s) ELSE UNCHANGED <<listVars, eventKey, refused>>

(* The subscriptions GetFirstSubscription and GetNextSubscription walk.     *)
Targets == active \ expired

(* Overflow wraps to 1: 0 is the key of the initial event.                  *)
NextKey(k) == IF k = MaxKey THEN 1 ELSE k + 1

FreshSid(s)   == s \notin subs /\ \A j \in jobs : j.sid # s
FreshBatch(b) == b \notin allocated /\ \A j \in jobs : j.batch # b

NewJob(s, b, initial) ==
    [sid |-> s, key |-> eventKey[s], batch |-> b, initial |-> initial, at |-> "queued"]

(* Bound: the pool refuses a job again only when the effects of the last    *)
(* refusal have gone.                                                       *)
MayRefuse(what) == what \in Failures /\ refused = {}

ReleaseWithFirst(j) ==
    /\ jobs' = jobs \ {j}
    /\ referenceCount' = [referenceCount EXCEPT ![j.batch] = @ - 1]
    /\ allocated' = allocated \ {j.batch}

(* free_notify_struct                                                       *)
Release(j) ==
    /\ jobs' = jobs \ {j}
    /\ referenceCount' = [referenceCount EXCEPT ![j.batch] = @ - 1]
    /\ allocated' = IF referenceCount[j.batch] = 1 THEN allocated \ {j.batch} ELSE allocated

-------------------------------------------------------------------------------
(* The device: UpnpRegisterRootDevice, genaUnregisterDevice (which frees    *)
(* the service table) and UpnpSetMaxSubscriptions.                          *)

Register ==
    /\ ~registered
    /\ registered' = TRUE
    /\ maxSubscriptions' = UPNP_INFINITE
    /\ UNCHANGED <<listVars, eventKey, batchVars, refused>>

Unregister ==
    /\ registered
    /\ registered' = FALSE
    /\ subs' = {} /\ active' = {} /\ expired' = {}
    /\ totalSubscriptions' = 0
    /\ eventKey' = [s \in Sids |-> 0]
    /\ toSendEventKey' = [s \in Sids |-> 0]
    /\ refused' = refused \ Sids
    /\ UNCHANGED <<maxSubscriptions, batchVars>>

SetMaxSubscriptions(max) ==
    /\ registered
    /\ maxSubscriptions' = max
    /\ UNCHANGED <<registered, listVars, eventKey, batchVars, refused>>

-------------------------------------------------------------------------------
(* Requests of control points                                               *)

(* gena_process_subscription_request: expired entries count until a walk    *)
(* over the list removes them.  A request that is refused, or whose answer  *)
(* cannot be sent, leaves no trace.                                         *)
Subscribe(s) ==
    /\ registered /\ FreshSid(s)
    /\ maxSubscriptions # UPNP_INFINITE => totalSubscriptions < maxSubscriptions
    /\ subs' = subs \cup {s}
    /\ totalSubscriptions' = totalSubscriptions + 1
    /\ UNCHANGED <<deviceVars, active, expired, toSendEventKey, eventKey, batchVars, refused>>

(* gena_process_subscription_renewal_request, where it ends a subscription; *)
(* otherwise it only puts off the expiry.                                   *)
RenewalEnds(s) ==
    /\ registered /\ s \in subs
    /\ \/ s \in expired
       \/ maxSubscriptions # UPNP_INFINITE /\ totalSubscriptions > maxSubscriptions
       \/ "answer" \in Failures
    /\ RemoveSubscription(s)
    /\ UNCHANGED <<deviceVars, batchVars>>

(* gena_process_unsubscribe_request                                         *)
Unsubscribe(s) ==
    /\ registered /\ s \in subs
    /\ RemoveSubscription(s)
    /\ UNCHANGED <<deviceVars, batchVars>>

Expires(s) ==
    /\ s \in subs \ expired
    /\ expired' = expired \cup {s}
    /\ UNCHANGED <<deviceVars, subs, totalSubscriptions, active, toSendEventKey, eventKey, batchVars, refused>>

-------------------------------------------------------------------------------
(* Calls of the application                                                 *)

(* genaInitNotify.  The key is used up before the pool is asked.            *)
AcceptSubscription(s, b) ==
    /\ Found(s) /\ s \notin active
    /\ active' = active \cup {s}
    /\ \/ UNCHANGED <<eventKey, batchVars, refused>>   \* no variables to send
       \/ /\ FreshBatch(b)
          /\ eventKey' = [eventKey EXCEPT ![s] = @ + 1]
          /\ jobs' = jobs \cup {NewJob(s, b, TRUE)}
          /\ referenceCount' = [referenceCount EXCEPT ![b] = 1]
          /\ allocated' = allocated \cup {b}
          /\ refused' = refused \ {b}
       \/ /\ MayRefuse("initial")
          /\ eventKey' = [eventKey EXCEPT ![s] = @ + 1]
          /\ refused' = refused \cup {s}
          /\ UNCHANGED batchVars
    /\ UNCHANGED <<deviceVars, subs, totalSubscriptions, expired, toSendEventKey>>

(* UpnpAcceptSubscription for a subscription that has expired.              *)
AcceptTooLate(s) ==
    /\ registered /\ s \in expired
    /\ RemoveSubscription(s)
    /\ UNCHANGED <<deviceVars, batchVars>>

Advance(R, A) ==
    /\ RemoveSubscriptions(R)
    /\ eventKey' = [s \in Sids |-> IF s \in R THEN 0
                                   ELSE IF s \in A THEN NextKey(eventKey[s]) ELSE eventKey[s]]

(* genaNotifyAll: the walk removes what has expired and queues a job for    *)
(* every active subscription.                                               *)
NotifyAll(b) ==
    /\ registered /\ FreshBatch(b)
    /\ jobs' = jobs \cup {NewJob(s, b, FALSE) : s \in Targets}
    /\ referenceCount' = [referenceCount EXCEPT ![b] = Cardinality(Targets)]
    /\ allocated' = IF Targets = {} THEN allocated ELSE allocated \cup {b}
    /\ Advance(expired, Targets)
    /\ refused' = refused \ (expired \cup {b})
    /\ UNCHANGED deviceVars

(* The pool refuses the job of subscription last: the walk ends there, and  *)
(* the batch is freed whatever has been queued.                             *)
NotifyAllFails(b) ==
    /\ MayRefuse("all")
    /\ registered /\ FreshBatch(b)
    /\ \E last \in Targets : \E done \in SUBSET (Targets \ {last}) : \E swept \in SUBSET expired :
         /\ jobs' = jobs \cup {NewJob(s, b, FALSE) : s \in done}
         /\ referenceCount' = [referenceCount EXCEPT ![b] = Cardinality(done) + 1]
         /\ Advance(swept, done \cup {last})
         /\ refused' = (refused \ swept) \cup {b, last}
    /\ UNCHANGED <<deviceVars, allocated>>

-------------------------------------------------------------------------------
(* genaNotifyThread, up to the request and after it                         *)

IsTurnOnceStarted(j) ==
    \/ j.key = toSendEventKey[j.sid]
    \/ \E k \in jobs : k.sid = j.sid /\ k.at = "sending" /\ j.key = NextKey(k.key)
IsTurn(j) == j.key = toSendEventKey[j.sid]

JobEndsOnceSent(j) ==
    /\ j.at = "sending" /\ ~Found(j.sid)
    /\ RemoveIfExpired(j.sid)
    /\ Release(j)
    /\ UNCHANGED deviceVars

JobEnds(j) ==
    /\ ~Found(j.sid)
    /\ RemoveIfExpired(j.sid)
    /\ Release(j)
    /\ UNCHANGED deviceVars

JobStarts(j) ==
    /\ j.at = "queued" /\ Found(j.sid) /\ IsTurn(j)
    /\ jobs' = (jobs \ {j}) \cup {[j EXCEPT !.at = "sending"]}
    /\ UNCHANGED <<deviceVars, listVars, eventKey, referenceCount, allocated, refused>>

(* An event that comes too early is queued again, which changes nothing     *)
(* here; a refusal is not looked at.                                        *)
RequeueFails(j) ==
    /\ MayRefuse("requeue")
    /\ j.at = "queued" /\ Found(j.sid) /\ ~IsTurn(j)
    /\ jobs' = jobs \ {j}
    /\ refused' = refused \cup {j.sid, j.batch}
    /\ UNCHANGED <<deviceVars, listVars, eventKey, referenceCount, allocated>>

(* The event was sent, successfully or not.                                 *)
JobSent(j) ==
    /\ j.at = "sending" /\ Found(j.sid)
    /\ toSendEventKey' = [toSendEventKey EXCEPT ![j.sid] = NextKey(@)]
    /\ Release(j)
    /\ UNCHANGED <<deviceVars, subs, totalSubscriptions, active, expired, eventKey, refused>>

(* The subscriber answered "412 Precondition Failed": it does not know the  *)
(* subscription.                                                            *)
JobRejected(j) ==
    /\ j.at = "sending" /\ Found(j.sid)
    /\ RemoveSubscription(j.sid)
    /\ Release(j)
    /\ UNCHANGED deviceVars

JobStep(j) == JobEnds(j) \/ JobStarts(j) \/ RequeueFails(j) \/ JobSent(j) \/ JobRejected(j)

-------------------------------------------------------------------------------
Init ==
    /\ registered = FALSE /\ maxSubscriptions = UPNP_INFINITE
    /\ subs = {} /\ active = {} /\ expired = {}
    /\ totalSubscriptions = 0
    /\ eventKey = [s \in Sids |-> 0] /\ toSendEventKey = [s \in Sids |-> 0]
    /\ jobs = {} /\ allocated = {} /\ refused = {}
    /\ referenceCount = [b \in Batches |-> 0]

Next ==
    \/ Register \/ Unregister
    \/ \E max \in Limits : SetMaxSubscriptions(max)
    \/ \E s \in Sids : Subscribe(s) \/ RenewalEnds(s) \/ Unsubscribe(s) \/ Expires(s) \/ AcceptTooLate(s)
    \/ \E s \in Sids, b \in Batches : AcceptSubscription(s, b)
    \/ \E b \in Batches : NotifyAll(b) \/ NotifyAllFails(b)
    \/ \E j \in jobs : JobStep(j)

Spec == Init /\ [][Next]_vars

(* The pool starts every job it has taken (JobLeavesQueue of ThreadPool)    *)
(* and a request ends, by the timeouts of notify_send_and_recv.             *)
NotificationOf(s, b) == {j \in jobs : j.sid = s /\ j.batch = b}
Fairness ==
    \A s \in Sids, b \in Batches : WF_vars(\E j \in NotificationOf(s, b) : JobStep(j))

LiveSpec == Spec /\ Fairness

-------------------------------------------------------------------------------
(* Safety                                                                   *)

(* TotalSubscriptions, which decides about admission, counts the list,      *)
(* whichever of the four ways out of it a subscription has taken.           *)
CountMatchesList == totalSubscriptions = Cardinality(subs)

(* The list of subscriptions: its types and its count.                      *)
ListSound == TypeOK /\ CountMatchesList

JobsOf(s) == {j \in jobs : j.sid = s}
Outstanding(s) ==
    IF toSendEventKey[s] <= eventKey[s]
    THEN toSendEventKey[s]..(eventKey[s] - 1)
    ELSE (toSendEventKey[s]..MaxKey) \cup (1..(eventKey[s] - 1))

(* Every event key that was given out and not yet sent is with exactly one  *)
(* job, also across the overflow: no event is lost and none blocks others,  *)
(* but for a subscription one of whose jobs the pool has refused.           *)
JobsCoverKeys ==
    \A s \in subs \ refused :
        /\ {j.key : j \in JobsOf(s)} = Outstanding(s)
        /\ Cardinality(JobsOf(s)) = Cardinality(Outstanding(s))

(* Events reach a subscriber one at a time (while its keys go on; the small *)
(* range of the model lets a lost key come round again).                    *)
OneSenderPerSubscription ==
    \A s \in subs \ refused : Cardinality({j \in JobsOf(s) : j.at = "sending"}) <= 1

(* No other event is sent to a control point before the initial one.        *)
InitialEventIsFirst == \A j \in jobs : j.initial => j.key = 0

(* Every event of a subscription is sent in its turn: none lost, none twice *)
(* at a time, none before the initial one.                                  *)
EventsInTurn == JobsCoverKeys /\ OneSenderPerSubscription /\ InitialEventIsFirst

(* The headers and the property set are in memory as long as a job refers   *)
(* to them (the comment of free_notify_struct).                             *)
SharedDataHeld == \A j \in jobs : j.batch \in allocated

(* They are in memory exactly as long as that, unless the pool has refused  *)
(* one of their jobs: then they are freed too early, or never.              *)
SharedDataFreedByLast ==
    \A b \in Batches \ refused : b \in allocated <=> \E j \in jobs : j.batch = b

-------------------------------------------------------------------------------
(* Liveness                                                                 *)

(* Every notification job comes to its end, none is put back into the queue *)
(* for ever, unless the pool has refused a job of its subscription.         *)
NotificationEnds ==
    \A s \in Sids, b \in Batches :
        NotificationOf(s, b) # {} ~> NotificationOf(s, b) = {} \/ s \in refused

===============================================================================
