--------------------------------- MODULE Ssdp ---------------------------------
(***************************************************************************)
(* Discovery between a device and a control point:                         *)
(* UpnpSendAdvertisement, AutoAdvertise, UpnpUnRegisterRootDevice and      *)
(* UpnpSearchAsync of api/upnpapi.c, and the handlers of ssdp/*.c, over a  *)
(* network that loses, repeats and reorders messages.                      *)
(*                                                                         *)
(* The device works in an application thread and in jobs the timer hands   *)
(* to the send pool; the control point in an application thread and in     *)
(* jobs of the receive pool (the threads in Receivers, and one job for     *)
(* each search result and each search that expires).  The read lock of     *)
(* AdvertiseAndReply is held over all copies of a burst: what takes        *)
(* HandleLock waits for the bursts to end.                                 *)
(***************************************************************************)
EXTENDS SsdpMessages, FiniteSets

CONSTANTS
    Descriptions,   \* what devices may be registered with
    Targets,        \* what the control point searches for
    Foreign,        \* messages of other machines; one may be under way at the start
    Heard,          \* the targets whose messages the network may deliver
    Receivers,      \* threads of the receive pool
    NUM_SSDP_COPY,
    MaxRegistrations, MaxAdverts, MaxSearches, MaxInFlight, \* bounds
    ScheduleMayFail \* whether the timer or the pool may refuse

ASSUME SsdpAssumption ==
    /\ NUM_SSDP_COPY \in Nat \ {0}
    /\ {MaxRegistrations, MaxAdverts, MaxSearches, MaxInFlight} \subseteq Nat
    /\ ScheduleMayFail \in BOOLEAN
    /\ Descriptions \subseteq Seq(Devices) /\ None \notin Descriptions

(* None is a value of its own.                                              *)
ASSUME NoneAssumption ==
    /\ None \notin Targets /\ None \notin {"DescURL", "LowerDescURL"}
    /\ \A d \in Descriptions : \A m \in AliveMessages(d) : m.nt # None /\ m.usn # None

(* What can be searched for, and the messages there are.                    *)
Asked == Targets \cup {m.nt : m \in {f \in Foreign : f.method = "M-SEARCH"}}
Messages ==
    Foreign \cup {Search(st) : st \in Targets}
      \cup (UNION {AliveMessages(d) \cup ByebyeMessages(d) : d \in Descriptions})
      \cup (UNION {ReplyMessages(d, st) : d \in Descriptions, st \in Asked})

VARIABLES
    desc,          \* the description of the registered device, or None
    pc, copies,    \* the threads that advertise: the application and the job
    events,        \* AutoAdvertise events of the timer
    autoJobs,      \* AutoAdvertise jobs that wait for the job thread
    replyEvents,   \* targets a reply is scheduled for
    registrations, adverts, \* counted for the bounds
    promised,      \* UpnpSendAdvertisement has succeeded for this registration
    net,           \* messages under way
    client,        \* the control point is registered
    receiver,      \* what a receiving thread is doing
    search,        \* SsdpSearchList, and the searches that were on it
    expiry,        \* the timeout of a search: "none", "event", "job" or "calling"
    result,        \* the search result job: "none", "queued" or "calling"
    sending        \* the search SearchByTarget has yet to send

deviceVars == <<desc, pc, copies, events, autoJobs, replyEvents, registrations, adverts,
                promised>>
ctrlptVars == <<client, receiver, search, expiry, result, sending>>
vars == <<deviceVars, net, ctrlptVars>>

Threads == {"app", "job"}
Ids == 1..MaxSearches
Idle == [m |-> None, at |-> "idle"]

TypeOK ==
    /\ desc \in Descriptions \cup {None}
    /\ pc \in [Threads -> {"idle", "enter", "alive", "rearm", "byebye", "free"}]
    /\ copies \in [Threads -> 0..NUM_SSDP_COPY]
    /\ events \in Nat /\ autoJobs \in Nat
    /\ events + autoJobs + (IF pc["job"] = "idle" THEN 0 ELSE 1) <= adverts
    /\ replyEvents \subseteq Asked
    /\ registrations \in 0..MaxRegistrations /\ adverts \in 0..MaxAdverts
    /\ promised \in BOOLEAN
    /\ net \subseteq Messages
    /\ client \in BOOLEAN
    /\ receiver \in [Receivers -> [m : Messages \cup {None}, at : {"idle", "start", "copied", "calling"}]]
    /\ search \in [Ids -> [st : Targets \cup {None}, at : {"none", "listed", "expired", "dropped"}]]
    /\ expiry \in [Ids -> {"none", "event", "job", "calling"}]
    /\ result \in [Ids -> {"none", "queued", "calling"}]
    /\ sending \in Ids \cup {0}

-------------------------------------------------------------------------------
(* The network: UDP.                                                        *)

CanBeSent(messages) == {m \in messages : m.nt = None \/ m.nt \in Heard}
Send(messages) ==
    \E lost \in SUBSET CanBeSent(messages) :
        /\ net' = net \cup (CanBeSent(messages) \ lost)
        /\ Cardinality(net') <= MaxInFlight

(* A message that has been delivered may come again.                        *)
Delivered(m) == net' = net \ {m} \/ net' = net

Lose(m) ==
    /\ m \in net /\ net' = net \ {m}
    /\ UNCHANGED <<deviceVars, ctrlptVars>>

-------------------------------------------------------------------------------
(* The device.                                                              *)

NoBurst == \A t \in Threads : pc[t] \notin {"alive", "byebye"}
HandleLock == NoBurst \* what must hold to take the lock for writing

Goto(t, where) == pc' = [pc EXCEPT ![t] = where]

UpnpRegisterRootDevice(d) ==
    /\ pc["app"] = "idle" /\ desc = None /\ registrations < MaxRegistrations /\ HandleLock
    /\ desc' = d /\ registrations' = registrations + 1
    /\ UNCHANGED <<pc, copies, events, autoJobs, replyEvents, adverts, promised,
                   net, ctrlptVars>>

(* UpnpSendAdvertisement, called by the application and by AutoAdvertise:   *)
(* MaxAge is set in a critical section of its own.                          *)
AppSendsAdvertisement ==
    /\ pc["app"] = "idle" /\ desc # None /\ adverts < MaxAdverts
    /\ adverts' = adverts + 1
    /\ Goto("app", "enter")
    /\ UNCHANGED <<desc, copies, events, autoJobs, replyEvents, registrations, promised, net, ctrlptVars>>

AutoAdvertise ==
    /\ pc["job"] = "idle" /\ autoJobs > 0
    /\ autoJobs' = autoJobs - 1
    /\ Goto("job", "enter")
    /\ UNCHANGED <<desc, copies, events, replyEvents, registrations, adverts, promised, net, ctrlptVars>>

BurstBegins(t, kind) ==
    IF desc = None THEN Goto(t, "idle") /\ UNCHANGED copies
    ELSE Goto(t, kind) /\ copies' = [copies EXCEPT ![t] = NUM_SSDP_COPY]

SendAdvertisementEnters(t) ==
    /\ pc[t] = "enter" /\ HandleLock
    /\ BurstBegins(t, "alive")
    /\ UNCHANGED <<desc, events, autoJobs, replyEvents, registrations, adverts, promised, net, ctrlptVars>>

(* AdvertiseAndReply under its read lock, one copy at a time, and the same  *)
(* with a lock for each copy only.                                          *)
AfterBurst(kind) == IF kind = "alive" THEN "rearm" ELSE "free"
BurstOf(kind) == IF kind = "alive" THEN AliveMessages(desc) ELSE ByebyeMessages(desc)
CopySent(t) ==
    /\ copies' = [copies EXCEPT ![t] = @ - 1]
    /\ Goto(t, IF copies[t] = 1 THEN AfterBurst(pc[t]) ELSE pc[t])
AdvertiseAndReply(t) ==
    /\ pc[t] \in {"alive", "byebye"}
    /\ Send(BurstOf(pc[t]))
    /\ CopySent(t)
    /\ UNCHANGED <<desc, events, autoJobs, replyEvents, registrations, adverts, promised,
                   ctrlptVars>>

(* The end of UpnpSendAdvertisement: the next one, if the handle is still   *)
(* there and the timer takes the event.                                     *)
RearmOnce(t) ==
    /\ desc # None
    /\ IF t = "app" THEN events' = events + 1 ELSE UNCHANGED events
    /\ promised' = (promised \/ t = "app")
Rearm(t) ==
    /\ desc # None
    /\ \/ events' = events + 1 /\ promised' = (promised \/ t = "app")
       \/ ScheduleMayFail /\ UNCHANGED <<events, promised>>
SendAdvertisementEnds(t) ==
    /\ pc[t] = "rearm" /\ HandleLock
    /\ Rearm(t) \/ (desc = None /\ UNCHANGED <<events, promised>>)
    /\ Goto(t, "idle")
    /\ UNCHANGED <<desc, copies, autoJobs, replyEvents, registrations, adverts,
                   net, ctrlptVars>>

(* The timer hands the job to the send pool, which may refuse it.           *)
AdvertEventDue ==
    /\ events > 0
    /\ events' = events - 1
    /\ \/ autoJobs' = autoJobs + 1
       \/ ScheduleMayFail /\ UNCHANGED autoJobs
    /\ UNCHANGED <<desc, pc, copies, replyEvents, registrations, adverts, promised,
                   net, ctrlptVars>>

(* UpnpUnRegisterRootDevice: the check, the byebye with a lock of its own,  *)
(* and the critical section that frees the handle.                          *)
UnRegisterBegins ==
    /\ pc["app"] = "idle" /\ desc # None /\ HandleLock
    /\ BurstBegins("app", "byebye")
    /\ UNCHANGED <<desc, events, autoJobs, replyEvents, registrations, adverts, promised, net, ctrlptVars>>

MayFree == HandleLock
UnRegisterEnds ==
    /\ pc["app"] = "free" /\ MayFree
    /\ desc' = None /\ promised' = FALSE
    /\ Goto("app", "idle")
    /\ UNCHANGED <<copies, events, autoJobs, replyEvents, registrations, adverts,
                   net, ctrlptVars>>

(* ssdp_handle_device_request: the reply waits a random part of MX.         *)
ssdp_handle_device_request(m) ==
    /\ m \in net /\ m.method = "M-SEARCH" /\ HandleLock
    /\ Delivered(m)
    /\ \/ desc # None /\ replyEvents' = replyEvents \cup {m.nt}
       \/ (desc = None \/ ScheduleMayFail) /\ UNCHANGED replyEvents
    /\ UNCHANGED <<desc, pc, copies, events, autoJobs, registrations, adverts, promised, ctrlptVars>>

advertiseAndReplyThread(st) ==
    /\ st \in replyEvents
    /\ replyEvents' = replyEvents \ {st}
    /\ IF desc = None THEN UNCHANGED net ELSE Send(ReplyMessages(desc, st))
    /\ UNCHANGED <<desc, pc, copies, events, autoJobs, registrations, adverts, promised, ctrlptVars>>

-------------------------------------------------------------------------------
(* The control point.                                                       *)

UpnpRegisterClient ==
    /\ ~client /\ sending = 0
    /\ client' = TRUE
    /\ UNCHANGED <<deviceVars, net, receiver, search, expiry, result, sending>>

(* The handle goes, and SsdpSearchList with it; the timer events stay.      *)
UpnpUnRegisterClient ==
    /\ client /\ sending = 0 /\ HandleLock
    /\ client' = FALSE
    /\ search' = [i \in Ids |-> IF search[i].at = "listed" THEN [search[i] EXCEPT !.at = "dropped"]
                                ELSE search[i]]
    /\ UNCHANGED <<deviceVars, net, receiver, expiry, result, sending>>

(* UpnpSearchAsync and SearchByTarget: the critical section that lists the  *)
(* search with its timeout, and then the two copies of the request.         *)
SearchByTarget(st) ==
    /\ client /\ sending = 0 /\ HandleLock
    /\ \E i \in Ids :
        /\ search[i].at = "none" /\ \A k \in 1..(i - 1) : search[k].at # "none"
        /\ search' = [search EXCEPT ![i] = [st |-> st, at |-> "listed"]]
        /\ \/ expiry' = [expiry EXCEPT ![i] = "event"]
           \/ ScheduleMayFail /\ UNCHANGED expiry
        /\ sending' = i
    /\ UNCHANGED <<deviceVars, net, client, receiver, result>>

(* A failing select sends nothing, and the search stays listed.             *)
SearchIsSent ==
    /\ sending # 0
    /\ Send({Search(search[sending].st)})
    /\ sending' = 0
    /\ UNCHANGED <<deviceVars, client, receiver, search, expiry, result>>

(* readFromSSDPSocket and ssdp_event_handler_thread: a job of its own for   *)
(* each datagram.                                                           *)
Receive(r, m) ==
    /\ m \in net /\ m.method # "M-SEARCH"
    /\ receiver[r].at = "idle"
    /\ receiver' = [receiver EXCEPT ![r] = [m |-> m, at |-> "start"]]
    /\ Delivered(m)
    /\ UNCHANGED <<deviceVars, client, search, expiry, result, sending>>

(* ssdp_handle_ctrlpt_msg: the callback is copied under the read lock and   *)
(* called without it.                                                       *)
Proceed(r, where) == receiver' = [receiver EXCEPT ![r] = IF where = "idle" THEN Idle
                                                          ELSE [@ EXCEPT !.at = where]]
CtrlptMsgCopies(r) ==
    /\ receiver[r].at = "start"
    /\ Proceed(r, IF client THEN "copied" ELSE "idle")
    /\ UNCHANGED <<deviceVars, net, client, search, expiry, result, sending>>

AdvertIsReported(r) ==
    /\ receiver[r].at = "copied" /\ receiver[r].m.method = "NOTIFY"
    /\ Proceed(r, IF ValidAdvert(receiver[r].m) THEN "calling" ELSE "idle")
    /\ UNCHANGED <<deviceVars, net, client, search, expiry, result, sending>>

(* A result job for each listed search the reply matches; the pool may      *)
(* refuse it.                                                               *)
MatchedBy(m) ==
    {i \in Ids : search[i].at = "listed" /\ ReplyMatches(search[i].st, m.nt)}
ReplyIsMatched(r) ==
    /\ receiver[r].at = "copied" /\ receiver[r].m.method = "reply" /\ HandleLock
    /\ LET m == receiver[r].m
           matched == IF client /\ ValidReply(m) THEN MatchedBy(m) ELSE {}
       IN  \E refused \in SUBSET matched :
             /\ ScheduleMayFail \/ refused = {}
             /\ result' = [i \in Ids |-> IF i \in matched \ refused /\ result[i] = "none"
                                         THEN "queued" ELSE result[i]]
    /\ Proceed(r, "idle")
    /\ UNCHANGED <<deviceVars, net, client, search, expiry, sending>>

CallbackReturns(r) ==
    /\ receiver[r].at = "calling"
    /\ Proceed(r, "idle")
    /\ UNCHANGED <<deviceVars, net, client, search, expiry, result, sending>>

send_search_result(i) ==
    /\ result[i] # "none"
    /\ result' = [result EXCEPT ![i] = IF @ = "queued" THEN "calling" ELSE "none"]
    /\ UNCHANGED <<deviceVars, net, client, receiver, search, expiry, sending>>

(* A refused job of a search that expires leaves the search listed.         *)
SearchEventDue(i) ==
    /\ expiry[i] = "event"
    /\ \/ expiry' = [expiry EXCEPT ![i] = "job"]
       \/ ScheduleMayFail /\ expiry' = [expiry EXCEPT ![i] = "none"]
    /\ UNCHANGED <<deviceVars, net, client, receiver, search, result, sending>>

(* searchExpired: the search leaves the list under the lock, the callback   *)
(* comes after it.                                                          *)
ExpireKeepsListed(i) ==
    /\ UNCHANGED search
    /\ expiry' = [expiry EXCEPT ![i] = IF client /\ search[i].at = "listed" THEN "calling"
                                       ELSE "none"]
Expire(i) ==
    IF client /\ search[i].at = "listed"
    THEN /\ search' = [search EXCEPT ![i].at = "expired"]
         /\ expiry' = [expiry EXCEPT ![i] = "calling"]
    ELSE expiry' = [expiry EXCEPT ![i] = "none"] /\ UNCHANGED search
searchExpired(i) ==
    /\ expiry[i] = "job" /\ HandleLock
    /\ Expire(i)
    /\ UNCHANGED <<deviceVars, net, client, receiver, result, sending>>

TimeoutReturns(i) ==
    /\ expiry[i] = "calling"
    /\ expiry' = [expiry EXCEPT ![i] = "none"]
    /\ UNCHANGED <<deviceVars, net, client, receiver, search, result, sending>>

-------------------------------------------------------------------------------
Init ==
    /\ desc = None /\ pc = [t \in Threads |-> "idle"] /\ copies = [t \in Threads |-> 0]
    /\ events = 0 /\ autoJobs = 0 /\ replyEvents = {}
    /\ registrations = 0 /\ adverts = 0 /\ promised = FALSE
    /\ client = FALSE /\ \E m \in Foreign \cup {None} : net = {m} \ {None}
    /\ receiver = [r \in Receivers |-> Idle]
    /\ search = [i \in Ids |-> [st |-> None, at |-> "none"]]
    /\ expiry = [i \in Ids |-> "none"] /\ result = [i \in Ids |-> "none"]
    /\ sending = 0

AdvertStep(t) ==
    SendAdvertisementEnters(t) \/ AdvertiseAndReply(t) \/ SendAdvertisementEnds(t)
DeviceStep ==
    \/ \E d \in Descriptions : UpnpRegisterRootDevice(d)
    \/ AppSendsAdvertisement \/ UnRegisterBegins
    \/ \E m \in net : ssdp_handle_device_request(m)
    \/ \E st \in replyEvents : advertiseAndReplyThread(st)

ReceiverStep(r) ==
    CtrlptMsgCopies(r) \/ AdvertIsReported(r) \/ ReplyIsMatched(r) \/ CallbackReturns(r)
SearchStep(i) == send_search_result(i) \/ SearchEventDue(i) \/ searchExpired(i) \/ TimeoutReturns(i)
ClientStep ==
    \/ UpnpRegisterClient \/ UpnpUnRegisterClient
    \/ \E st \in Targets : SearchByTarget(st)

Next ==
    \/ DeviceStep \/ ClientStep
    \/ \E t \in Threads : AdvertStep(t)
    \/ AutoAdvertise \/ AdvertEventDue \/ UnRegisterEnds \/ SearchIsSent
    \/ \E r \in Receivers : ReceiverStep(r) \/ \E m \in net : Receive(r, m)
    \/ \E i \in Ids : SearchStep(i)
    \/ \E m \in net : Lose(m)

Spec == Init /\ [][Next]_vars

(* Threads are scheduled, timer events fall due, callbacks return.  What    *)
(* takes HandleLock finds it free again and again, and the lock is fair to  *)
(* it: strong fairness for each thread that advertises and for the timeout  *)
(* of each search.  Nothing is assumed of the network.                      *)
Fairness ==
    /\ SF_vars(AdvertStep("app") \/ UnRegisterEnds) /\ SF_vars(AdvertStep("job"))
    /\ WF_vars(AutoAdvertise) /\ WF_vars(AdvertEventDue)
    /\ \A i \in Ids : SF_vars(SearchEventDue(i) \/ searchExpired(i))
LiveSpec == Spec /\ Fairness

-------------------------------------------------------------------------------
(* Properties                                                               *)

(* No announcement leaves for a device that is not registered: once         *)
(* UpnpUnRegisterRootDevice has returned, what AutoAdvertise events of it   *)
(* are left find no device.                                                 *)
AnnouncedIsRegistered == ~NoBurst => desc # None

(* An advertised device stays advertised: until it is unregistered, there   *)
(* is an AutoAdvertise event, or a job that will make the next one.         *)
AdvertArmed == promised => events + autoJobs > 0 \/ pc["job"] # "idle"

(* Every search on the list has a timeout that will take it off, and a      *)
(* search is given its timeout callback only when it has left the list: no  *)
(* reply is matched with it from then on.                                   *)
SearchHasTimeout ==
    \A i \in Ids : /\ search[i].at = "listed" => expiry[i] \in {"event", "job"}
                   /\ expiry[i] = "calling" => search[i].at # "listed"

(* What the handles, the list of searches and the timer's events say of     *)
(* each other.                                                              *)
SchedulesKept == TypeOK /\ AnnouncedIsRegistered /\ AdvertArmed /\ SearchHasTimeout

(* What a device announces, a control point can search for: the reply to a  *)
(* search for the target is put together with the search, and names the     *)
(* device and the type of the announcement.                                 *)
AnnouncedIsFound ==
    desc # None =>
        \A m \in AliveMessages(desc) :
            \E r \in ReplyMessages(desc, m.nt) :
                /\ ValidReply(r) /\ ReplyMatches(m.nt, r.nt)
                /\ Discovery(r) = Discovery(m)

(* A byebye takes back every announcement, with the same NT and USN.        *)
ByebyeTakesAllBack ==
    desc # None =>
        {<<m.nt, m.usn>> : m \in AliveMessages(desc)} = {<<m.nt, m.usn>> : m \in ByebyeMessages(desc)}

(* A search for an older version of a type of the device finds it, and the  *)
(* reply names the version that was asked for.                              *)
OlderIsServed ==
    desc # None =>
        \A i \in {j \in DOMAIN desc : Complete(desc[j])} :
            \A own \in {desc[i].type} \cup ToSet(desc[i].services) :
                \A v \in 1..own.version :
                    LET st == [own EXCEPT !.version = v]
                    IN  \E r \in ReplyMessages(desc, st) : r.nt = st /\ r.usn = Usn(desc[i].udn, st)

(* The three kinds of messages a device sends name the same things.         *)
MessagesAgree == AnnouncedIsFound /\ ByebyeTakesAllBack /\ OlderIsServed

(* A search that was put on the list leaves it: it expires, or the client   *)
(* unregisters.                                                             *)
SearchEnds == \A i \in Ids : search[i].at = "listed" ~> search[i].at # "listed"

(* An advertised device sends its announcement again and again until it is  *)
(* unregistered.                                                            *)
AdvertRepeats == promised ~> (pc["job"] = "alive" \/ ~promised)

(* The timer's events do their work.                                        *)
TimersAct == SearchEnds /\ AdvertRepeats

(* "The UPnP Library generates no more callbacks" after                     *)
(* UpnpUnRegisterClient (upnp.h): none begins.                              *)
NoCallbackAfterUnregister ==
    [][\A r \in Receivers, i \in Ids :
          ~client => /\ receiver[r].at # "calling" => receiver'[r].at # "calling"
                     /\ result[i] # "calling" => result'[i] # "calling"]_vars
===============================================================================
