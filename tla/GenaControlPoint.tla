--------------------------- MODULE GenaControlPoint ---------------------------
(***************************************************************************)
(* libupnp/gena/gena_ctrlpt.c with genlib/client_table/client_table.c: the *)
(* subscriptions of a control point.  Threads of the application           *)
(* subscribe, renew, unsubscribe and unregister, jobs of the timer renew   *)
(* subscriptions, and threads of the mini server receive events.           *)
(*                                                                         *)
(* Every thread takes HandleLock for each look at the handle and its list  *)
(* and drops it for each request, so an action is one critical section.    *)
(* The SubscribeLock is held across the request of genaSubscribe, and a    *)
(* variable.  The publisher is what its answers and events show of it.     *)
(*                                                                         *)
(* The timer is its contract (see TimerThread): an event that is set fires *)
(* once, or is removed; its job is run.  SIDs and timer events are drawn   *)
(* from small sets and used again when nothing refers to them any more.    *)
(***************************************************************************)
EXTENDS Naturals, FiniteSets

CONSTANTS
    Apps,          \* threads of the application
    Notifiers,     \* threads of the mini server
    Events,        \* timer events, and the pool threads that run their jobs
    Sids,          \* the SIDs the control point makes up
    ActualSids,    \* the SIDs the publishers hand out
    AppsRenew,        \* whether the application renews subscriptions itself
    AppsUnregisterBusy,  \* whether it unregisters while its calls are under way
    NetworkMayFail,   \* whether requests and answers get lost and publishers forget
    ScheduleMayFail,  \* whether TimerThreadSchedule may run out of memory
    NoSid, NoActualSid, NoEvent, NoOne

Actors == Apps \cup Notifiers \cup Events

ASSUME GenaControlPointAssumption ==
    /\ Apps \cap Events = {} /\ Apps \cap Notifiers = {} /\ Notifiers \cap Events = {}
    /\ NoSid \notin Sids /\ NoActualSid \notin ActualSids
    /\ NoEvent \notin Events /\ NoOne \notin Actors
    /\ {AppsRenew, AppsUnregisterBusy, NetworkMayFail, ScheduleMayFail} \subseteq BOOLEAN

VARIABLES
    registered,     \* GetHandleInfo(client_handle) = HND_CLIENT
    subs,           \* ClientSubList: the SIDs of the subscriptions in it
    actualSID, renewEventId,   \* the fields of a subscription
    deleted,        \* subscriptions whose memory has been given back
    endless,        \* subscriptions that never expire (the list does not say)
    timer,          \* the SID a timer event is set for
    subscribeLock,  \* the thread that holds GlobalClientSubscribeMutex
    call,           \* what each thread is doing
    active,         \* the subscriptions the publishers know
    greeted         \* those whose initial event has been sent

subVars == <<subs, actualSID, renewEventId, deleted, endless, timer>>
publisherVars == <<active, greeted>>
vars == <<registered, subVars, subscribeLock, call, publisherVars>>

Operations == {"none", "subscribe", "renew", "unsubscribe", "unregister", "notify"}
Places == {"idle", "start", "lock", "request", "answer", "finish", "freeing", "report", "callback"}
NoCall == [op |-> "none", at |-> "idle", sid |-> NoSid, actual |-> NoActualSid,
           ok |-> FALSE, timed |-> FALSE, seq |-> 0]

TypeOK ==
    /\ registered \in BOOLEAN
    /\ subs \subseteq Sids
    /\ actualSID \in [Sids -> ActualSids \cup {NoActualSid}]
    /\ \A s \in subs : actualSID[s] # NoActualSid
    /\ renewEventId \in [Sids -> Events \cup {NoEvent}]
    /\ deleted \subseteq Sids /\ endless \subseteq Sids
    /\ timer \in [Events -> Sids \cup {NoSid}]
    /\ subscribeLock \in Apps \cup {NoOne}
    /\ call \in [Actors -> [op : Operations, at : Places, sid : Sids \cup {NoSid},
                            actual : ActualSids \cup {NoActualSid}, ok : BOOLEAN,
                            timed : BOOLEAN, seq : 0..1]]
    /\ active \subseteq ActualSids /\ greeted \subseteq ActualSids

-------------------------------------------------------------------------------
Is(t, op, at) == call[t].op = op /\ call[t].at = at
Idle(t) == call[t] = NoCall
Set(t, c) == call' = [call EXCEPT ![t] = c]
Ends(t) == Set(t, NoCall)
Moves(t, at) == Set(t, [call[t] EXCEPT !.at = at])
Unregistering == \E t \in Apps : call[t].op = "unregister"
AppMayCall(t) == t \in Apps /\ Idle(t) /\ (AppsUnregisterBusy \/ ~Unregistering)

FreshSid(s) ==
    /\ s \notin subs \cup deleted
    /\ \A t \in Actors : call[t].sid # s
    /\ \A e \in Events : timer[e] # s
FreshActualSid(a) ==
    /\ a \notin active
    /\ \A t \in Actors : call[t].actual # a
    /\ \A s \in subs : actualSID[s] # a
FreeEvent(e) ==
    timer[e] = NoSid /\ Idle(e) /\ \A s \in Sids : renewEventId[s] # e

(* Bound: a call that will need a timer event starts only when it leaves    *)
(* one free for the jobs, which give theirs back.                           *)
EventToSpare ==
    Cardinality({e \in Events : FreeEvent(e)})
        > 1 + Cardinality({t \in Apps : call[t].op \in {"subscribe", "renew"}})

TimerKept(s) == timer
(* TimerThreadRemove(renewEventId): an event that has fired is not found.   *)
WithoutTimer(s) == [e \in Events |-> IF e = renewEventId[s] THEN NoSid ELSE timer[e]]

(* RemoveClientSubClientSID and free_client_subscription.                   *)
RemoveClientSub(s) ==
    /\ subs' = subs \ {s}
    /\ actualSID' = [actualSID EXCEPT ![s] = NoActualSid]
    /\ renewEventId' = [renewEventId EXCEPT ![s] = NoEvent]
    /\ endless' = endless \ {s}
    /\ timer' = WithoutTimer(s)
    /\ UNCHANGED deleted

ScheduleOnlyNew(s, a, timed) ==
    /\ subs' = subs \cup {s}
    /\ actualSID' = [actualSID EXCEPT ![s] = a]
    /\ endless' = IF timed THEN endless \ {s} ELSE endless \cup {s}
    /\ \/ (~timed \/ s \in subs) /\ UNCHANGED <<renewEventId, timer>>
       \/ timed /\ s \notin subs /\ \E e \in Events :
            /\ FreeEvent(e)
            /\ timer' = [timer EXCEPT ![e] = s]
            /\ renewEventId' = [renewEventId EXCEPT ![s] = e]
    /\ UNCHANGED deleted

(* ScheduleGenaAutoRenew for a subscription with the actual SID a.          *)
ScheduleGenaAutoRenew(s, a, timed) ==
    /\ subs' = subs \cup {s}
    /\ actualSID' = [actualSID EXCEPT ![s] = a]
    /\ endless' = IF timed THEN endless \ {s} ELSE endless \cup {s}
    /\ \/ ~timed /\ UNCHANGED <<renewEventId, timer>>
       \/ timed /\ \E e \in Events :
            /\ FreeEvent(e)
            /\ timer' = [timer EXCEPT ![e] = s]
            /\ renewEventId' = [renewEventId EXCEPT ![s] = e]
    /\ UNCHANGED deleted

-------------------------------------------------------------------------------
(* UpnpRegisterClient.                                                      *)
Register ==
    /\ ~registered
    /\ registered' = TRUE
    /\ UNCHANGED <<subVars, subscribeLock, call, publisherVars>>

-------------------------------------------------------------------------------
(* genaSubscribe: the handle is looked at, then the lock is taken for the   *)
(* request and the new entry of the list.                                   *)

SubscribeBegins(t) ==
    /\ AppMayCall(t) /\ registered /\ EventToSpare
    /\ Set(t, [NoCall EXCEPT !.op = "subscribe", !.at = "lock"])
    /\ UNCHANGED <<registered, subVars, subscribeLock, publisherVars>>

SubscribeLocks(t) ==
    /\ Is(t, "subscribe", "lock") /\ subscribeLock = NoOne
    /\ subscribeLock' = t
    /\ Moves(t, "request")
    /\ UNCHANGED <<registered, subVars, publisherVars>>

(* A failure of ScheduleGenaAutoRenew deletes the subscription that is      *)
(* already linked into the list.                                            *)
DeletedWhileListed(s, a) ==
    /\ ScheduleMayFail
    /\ subs' = subs \cup {s}
    /\ actualSID' = [actualSID EXCEPT ![s] = a]
    /\ deleted' = deleted \cup {s}
    /\ UNCHANGED <<renewEventId, endless, timer>>

SubscribeFinishes(t) ==
    /\ Is(t, "subscribe", "finish")
    /\ \/ (~call[t].ok \/ ~registered) /\ UNCHANGED subVars
       \/ /\ call[t].ok /\ registered
          /\ \E s \in Sids :
               /\ FreshSid(s)
               /\ \/ ScheduleGenaAutoRenew(s, call[t].actual, call[t].timed)
                  \/ call[t].timed /\ DeletedWhileListed(s, call[t].actual)
    /\ subscribeLock' = NoOne
    /\ Ends(t)
    /\ UNCHANGED <<registered, publisherVars>>

-------------------------------------------------------------------------------
(* GenaAutoRenewSubscription and genaRenewSubscription                      *)

TimerFires(e) ==
    /\ timer[e] # NoSid
    /\ timer' = [timer EXCEPT ![e] = NoSid]
    /\ Set(e, [NoCall EXCEPT !.op = "renew", !.at = "start", !.sid = timer[e]])
    /\ UNCHANGED <<registered, subs, actualSID, renewEventId, deleted, endless, subscribeLock, publisherVars>>

(* The old timer event goes, the entry stays in the list.                   *)
RenewRequest(t, s) ==
    /\ timer' = WithoutTimer(s)
    /\ renewEventId' = [renewEventId EXCEPT ![s] = NoEvent]
    /\ Set(t, [NoCall EXCEPT !.op = "renew", !.at = "request", !.sid = s, !.actual = actualSID[s]])
    /\ UNCHANGED <<registered, subs, actualSID, deleted, endless, subscribeLock, publisherVars>>

AppRenews(t, s) ==
    /\ AppsRenew /\ EventToSpare /\ AppMayCall(t) /\ registered /\ s \in subs
    /\ RenewRequest(t, s)

JobRenews(e) ==
    /\ Is(e, "renew", "start")
    /\ \/ registered /\ call[e].sid \in subs /\ RenewRequest(e, call[e].sid)
       \/ /\ ~registered \/ call[e].sid \notin subs
          /\ Ends(e)
          /\ UNCHANGED <<registered, subVars, subscribeLock, publisherVars>>

(* A renewal of the application returns the error; the job of the timer     *)
(* reports it.                                                              *)
FailureIsTold(t) == IF t \in Events THEN Moves(t, "report") ELSE Ends(t)

RenewFailsRearmed(t) ==
    /\ \/ call[t].sid \in subs /\ ScheduleGenaAutoRenew(call[t].sid, call[t].actual, TRUE)
       \/ call[t].sid \notin subs /\ UNCHANGED subVars
    /\ FailureIsTold(t)
RenewFails(t) == RemoveClientSub(call[t].sid) /\ FailureIsTold(t)

RenewFinishes(t) ==
    /\ Is(t, "renew", "finish")
    /\ LET s == call[t].sid
       IN  \/ ~registered /\ Ends(t) /\ UNCHANGED subVars
           \/ registered /\ ~call[t].ok /\ RenewFails(t)
           \/ registered /\ call[t].ok /\ s \notin subs /\ Ends(t) /\ UNCHANGED subVars
           \/ /\ registered /\ call[t].ok /\ s \in subs
              /\ \/ ScheduleGenaAutoRenew(s, call[t].actual, call[t].timed) /\ Ends(t)
                 \/ ScheduleMayFail /\ call[t].timed /\ RenewFails(t)
    /\ UNCHANGED <<registered, subscribeLock, publisherVars>>

(* The handle is looked at again before UPNP_EVENT_AUTORENEWAL_FAILED.      *)
JobReports(e) ==
    /\ Is(e, "renew", "report")
    /\ IF registered THEN Moves(e, "callback") ELSE Ends(e)
    /\ UNCHANGED <<registered, subVars, subscribeLock, publisherVars>>

-------------------------------------------------------------------------------
(* genaUnSubscribe                                                          *)

UnsubscribeBegins(t, s) ==
    /\ AppMayCall(t) /\ registered /\ s \in subs
    /\ Set(t, [NoCall EXCEPT !.op = "unsubscribe", !.at = "request", !.sid = s, !.actual = actualSID[s]])
    /\ UNCHANGED <<registered, subVars, subscribeLock, publisherVars>>

UnsubscribeFinishes(t) ==
    /\ Is(t, "unsubscribe", "finish")
    /\ IF registered THEN RemoveClientSub(call[t].sid) ELSE UNCHANGED subVars
    /\ Ends(t)
    /\ UNCHANGED <<registered, subscribeLock, publisherVars>>

-------------------------------------------------------------------------------
(* UpnpUnRegisterClient                                                     *)

UnregisterBegins(t) ==
    /\ AppMayCall(t) /\ registered
    /\ AppsUnregisterBusy \/ \A u \in Apps : Idle(u)
    /\ Set(t, [NoCall EXCEPT !.op = "unregister", !.at = "start"])
    /\ UNCHANGED <<registered, subVars, subscribeLock, publisherVars>>

UnregisterTakesCopy(t) ==
    /\ Is(t, "unregister", "start") \/ Is(t, "unregister", "finish")
    /\ \/ ~registered /\ Ends(t)
       \/ registered /\ subs = {} /\ Moves(t, "freeing")
       \/ /\ registered
          /\ \E s \in subs :
               Set(t, [NoCall EXCEPT !.op = "unregister", !.at = "request", !.actual = actualSID[s]])
    /\ UNCHANGED <<registered, subVars, subscribeLock, publisherVars>>

(* One turn of the loop in genaUnregisterClient: the entry leaves the list  *)
(* before the publisher is told.                                            *)
UnregisterTakes(t) ==
    /\ Is(t, "unregister", "start") \/ Is(t, "unregister", "finish")
    /\ \/ ~registered /\ Ends(t) /\ UNCHANGED subVars
       \/ registered /\ subs = {} /\ Moves(t, "freeing") /\ UNCHANGED subVars
       \/ /\ registered
          /\ \E s \in subs :
               /\ RemoveClientSub(s)
               /\ Set(t, [NoCall EXCEPT !.op = "unregister", !.at = "request", !.actual = actualSID[s]])
    /\ UNCHANGED <<registered, subscribeLock, publisherVars>>

(* FreeHandle, under a new HandleLock.  What is in the list now is leaked,  *)
(* its timer events stay set.                                               *)
UnregisterFrees(t) ==
    /\ Is(t, "unregister", "freeing")
    /\ registered' = FALSE
    /\ subs' = {}
    /\ actualSID' = [s \in Sids |-> NoActualSid]
    /\ renewEventId' = [s \in Sids |-> NoEvent]
    /\ endless' = {} /\ deleted' = {}
    /\ Ends(t)
    /\ UNCHANGED <<timer, subscribeLock, publisherVars>>

-------------------------------------------------------------------------------
(* The network and the publishers: a request is acted upon, then answered;  *)
(* either can go wrong.                                                     *)

(* (Bound: none accepts a subscription when all of Sids are in use.)        *)
PublisherSubscribes(t) ==
    /\ Is(t, "subscribe", "request")
    /\ \E s \in Sids : FreshSid(s)
    /\ \E a \in ActualSids, timed \in BOOLEAN :
         /\ FreshActualSid(a)
         /\ active' = active \cup {a}
         /\ greeted' = greeted \ {a}
         /\ Set(t, [call[t] EXCEPT !.at = "answer", !.actual = a, !.timed = timed])
    /\ UNCHANGED <<registered, subVars, subscribeLock>>

PublisherRenews(t) ==
    /\ Is(t, "renew", "request") /\ call[t].actual \in active
    /\ \E timed \in BOOLEAN : Set(t, [call[t] EXCEPT !.at = "answer", !.timed = timed])
    /\ UNCHANGED <<registered, subVars, subscribeLock, publisherVars>>

PublisherUnsubscribes(t) ==
    /\ Is(t, "unsubscribe", "request") \/ Is(t, "unregister", "request")
    /\ active' = active \ {call[t].actual}
    /\ Moves(t, "answer")
    /\ UNCHANGED <<registered, subVars, subscribeLock, greeted>>

AnswerArrives(t) ==
    /\ call[t].at = "answer"
    /\ Set(t, [call[t] EXCEPT !.at = "finish", !.ok = TRUE])
    /\ UNCHANGED <<registered, subVars, subscribeLock, publisherVars>>

(* A publisher refuses to renew what it does not know, or, as any server,   *)
(* a new subscription.                                                      *)
RequestFails(t) ==
    /\ \/ NetworkMayFail /\ call[t].at \in {"request", "answer"}
       \/ Is(t, "renew", "request") /\ call[t].actual \notin active
       \/ Is(t, "subscribe", "request")
    /\ Set(t, [call[t] EXCEPT !.at = "finish", !.ok = FALSE])
    /\ UNCHANGED <<registered, subVars, subscribeLock, publisherVars>>

PublisherForgets(a) ==
    /\ NetworkMayFail /\ a \in active
    /\ active' = active \ {a}
    /\ UNCHANGED <<registered, subVars, subscribeLock, call, greeted>>

(* The events of a subscription are sent one at a time, the first with      *)
(* SEQ 0.                                                                   *)
PublisherNotifies(n, a) ==
    /\ Idle(n) /\ a \in active
    /\ \A m \in Notifiers : call[m].actual # a
    /\ greeted' = greeted \cup {a}
    /\ Set(n, [NoCall EXCEPT !.op = "notify", !.at = "start", !.actual = a,
                             !.seq = IF a \in greeted THEN 1 ELSE 0])
    /\ UNCHANGED <<registered, subVars, subscribeLock, active>>

-------------------------------------------------------------------------------
(* gena_process_notification_event                                          *)

Subscriptions(a) == {s \in subs : actualSID[s] = a}

Accepts(n) ==
    /\ registered
    /\ \E s \in Subscriptions(call[n].actual) :
         Set(n, [call[n] EXCEPT !.at = "callback", !.sid = s])
    /\ UNCHANGED active

(* HTTP_PRECONDITION_FAILED makes the publisher end the subscription.       *)
Rejects(n) ==
    /\ ~registered \/ Subscriptions(call[n].actual) = {}
    /\ active' = active \ {call[n].actual}
    /\ Ends(n)

WaitsForSubscribe(n) ==
    /\ registered /\ Subscriptions(call[n].actual) = {} /\ call[n].seq = 0
    /\ Moves(n, "lock")
    /\ UNCHANGED active

NotifyLooksUpOnce(n) ==
    /\ Is(n, "notify", "start")
    /\ Accepts(n) \/ Rejects(n)
    /\ UNCHANGED <<registered, subVars, subscribeLock, greeted>>

NotifyLooksUp(n) ==
    /\ Is(n, "notify", "start")
    /\ \/ Accepts(n)
       \/ WaitsForSubscribe(n)
       \/ (~registered \/ call[n].seq # 0) /\ Rejects(n)
    /\ UNCHANGED <<registered, subVars, subscribeLock, greeted>>

(* The SubscribeLock is taken and given back around the second look.        *)
NotifyLooksAgain(n) ==
    /\ Is(n, "notify", "lock") /\ subscribeLock = NoOne
    /\ Accepts(n) \/ Rejects(n)
    /\ UNCHANGED <<registered, subVars, subscribeLock, greeted>>

(* The callback of the application, with no lock held.                      *)
CallbackIsMade(t) ==
    /\ call[t].at = "callback"
    /\ Ends(t)
    /\ UNCHANGED <<registered, subVars, subscribeLock, publisherVars>>

-------------------------------------------------------------------------------
Init ==
    /\ registered = FALSE
    /\ subs = {} /\ deleted = {} /\ endless = {}
    /\ actualSID = [s \in Sids |-> NoActualSid]
    /\ renewEventId = [s \in Sids |-> NoEvent]
    /\ timer = [e \in Events |-> NoSid]
    /\ subscribeLock = NoOne
    /\ call = [t \in Actors |-> NoCall]
    /\ active = {} /\ greeted = {}

Network(t) ==
    \/ PublisherSubscribes(t) \/ PublisherRenews(t) \/ PublisherUnsubscribes(t)
    \/ AnswerArrives(t) \/ RequestFails(t)

Finishes(t) ==
    \/ SubscribeFinishes(t) \/ RenewFinishes(t) \/ UnsubscribeFinishes(t)
    \/ UnregisterTakes(t) \/ UnregisterFrees(t)
    \/ CallbackIsMade(t)

Locks(t) == SubscribeLocks(t) \/ NotifyLooksAgain(t)

Continues(t) == Network(t) \/ Finishes(t) \/ JobRenews(t) \/ JobReports(t) \/ NotifyLooksUp(t)

Next ==
    \/ Register
    \/ \E t \in Apps : SubscribeBegins(t) \/ UnregisterBegins(t)
    \/ \E t \in Apps, s \in Sids : AppRenews(t, s) \/ UnsubscribeBegins(t, s)
    \/ \E e \in Events : TimerFires(e)
    \/ \E n \in Notifiers, a \in ActualSids : PublisherNotifies(n, a)
    \/ \E a \in ActualSids : PublisherForgets(a)
    \/ \E t \in Actors : Continues(t) \/ Locks(t)

Spec == Init /\ [][Next]_vars

(* Threads run, requests time out (HTTP_DEFAULT_TIMEOUT), and a thread that *)
(* waits for the SubscribeLock gets it if it is released again and again.   *)
Fairness == \A t \in Actors : WF_vars(Continues(t)) /\ SF_vars(Locks(t))

LiveSpec == Spec /\ Fairness

-------------------------------------------------------------------------------
(* Safety                                                                   *)

Renewing(t, s) ==
    call[t].op = "renew" /\ call[t].sid = s /\ call[t].at \in {"start", "request", "answer", "finish"}

(* A subscription that can expire is never forgotten: until it leaves the   *)
(* list, a timer event is set for it or a thread is about to renew it,      *)
(* whoever else renews it or fails to.  (What SubscribeFinishes deletes but  *)
(* leaves in the list, see ListedMeansAllocated, is no subscription.)       *)
RenewalArmed ==
    \A s \in subs \ (endless \cup deleted) :
        \/ \E e \in Events : timer[e] = s
        \/ \E t \in Apps \cup Events : Renewing(t, s)

(* The list of subscriptions: its types and its timers.                     *)
RenewalSound == TypeOK /\ RenewalArmed

(* Whatever way a subscription leaves the list, its timer event goes too,   *)
(* and no timer event is replaced without being removed (the application    *)
(* leaves renewals to the library).                                         *)
TimerNamesSubscription ==
    \A e \in Events :
        timer[e] # NoSid => timer[e] \in subs /\ renewEventId[timer[e]] = e

Rejected(n) == call[n].op = "notify" /\ call[n].at \in {"start", "lock"} /\ call'[n] = NoCall

(* The first event is not mistakenly rejected when it arrives before the    *)
(* subscription response (comment in gena_process_notification_event).      *)
FirstEventAccepted ==
    [][\A n \in Notifiers : Rejected(n) /\ call[n].seq = 0 /\ registered =>
         \A t \in Apps : call[t].op = "subscribe" => call[t].actual # call[n].actual]_vars

(* When the application is told that the auto-renewal has failed, the       *)
(* subscription is no longer valid.                                         *)
ReportedMeansGone ==
    \A e \in Events : Is(e, "renew", "callback") => call[e].sid \notin subs

(* With a network that loses nothing, the control point and the publishers  *)
(* agree on the subscriptions whenever no call or event is under way.       *)
NoStraySubscription ==
    (\A t \in Actors : Idle(t)) => active = {actualSID[s] : s \in subs}

(* UpnpUnRegisterClient unsubscribes all active subscriptions.              *)
UnregisterUnsubscribesAll ==
    [][registered /\ ~registered' => subs = {}]_vars

(* The list holds no subscription whose memory has been freed.              *)
ListedMeansAllocated == subs \cap deleted = {}

(* The list, the publishers, the timers and the memory agree on what is     *)
(* subscribed, as long as no renewal fails to be scheduled.                 *)
ListSound == NoStraySubscription /\ TimerNamesSubscription /\ ListedMeansAllocated

-------------------------------------------------------------------------------
(* Liveness                                                                 *)

(* Every call, renewal and event handler comes to its end, although they    *)
(* wait for each other's SubscribeLock.                                     *)
CallReturns == \A t \in Actors : ~Idle(t) ~> Idle(t)

===============================================================================
