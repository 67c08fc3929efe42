------------------------------ MODULE SsdpProofs ------------------------------
(***************************************************************************)
(* Discovery for any descriptions, searches and messages of other          *)
(* machines: what the handles say, what is listed and what the timer will  *)
(* do agree, and the messages of a device name the same things.            *)
(*                                                                         *)
(* SsdpInv counts the announcements that the application has asked for and *)
(* not yet handed to the timer, and says whose handle a promise and a      *)
(* listed search belong to.  With it AdvertArmed and SearchHasTimeout are  *)
(* inductive as long as the timer and the pool refuse nothing.             *)
(* MessagesAgree speaks of the description alone: it holds of each one     *)
(* whose versions have one digit.                                          *)
(***************************************************************************)
EXTENDS Ssdp, TLAPS

-------------------------------------------------------------------------------
(* The inductive invariant                                                  *)

(* A call that will set the event of the next announcement.                 *)
Announcing == pc["app"] \in {"enter", "alive", "rearm"}
Busy == pc["job"] # "idle"

(* The device: the announcements that are made, scheduled or yet to be      *)
(* scheduled are those that the application asked for; a burst has a device *)
(* and a copy to send; a promise is of the device that is registered.       *)
DeviceInv ==
    /\ desc \in Descriptions \cup {None}
    /\ pc \in [Threads -> {"idle", "enter", "alive", "rearm", "byebye", "free"}]
    /\ copies \in [Threads -> 0..NUM_SSDP_COPY]
    /\ events \in Nat /\ autoJobs \in Nat
    /\ events + autoJobs + (IF Busy THEN 1 ELSE 0) + (IF Announcing THEN 1 ELSE 0) <= adverts
    /\ replyEvents \subseteq Asked
    /\ registrations \in 0..MaxRegistrations /\ adverts \in 0..MaxAdverts
    /\ promised \in BOOLEAN
    /\ \A t \in Threads : pc[t] \in {"alive", "byebye"} => copies[t] > 0
    /\ AnnouncedIsRegistered
    /\ promised => desc # None

NetInv == net \subseteq Messages

(* The control point: a search that is listed is the client's.              *)
ClientInv ==
    /\ client \in BOOLEAN
    /\ receiver \in [Receivers -> [m : Messages \cup {None}, at : {"idle", "start", "copied", "calling"}]]
    /\ search \in [Ids -> [st : Targets \cup {None}, at : {"none", "listed", "expired", "dropped"}]]
    /\ expiry \in [Ids -> {"none", "event", "job", "calling"}]
    /\ result \in [Ids -> {"none", "queued", "calling"}]
    /\ sending \in Ids \cup {0}
    /\ \A i \in Ids : search[i].at = "listed" => client
    /\ sending # 0 => search[sending].st \in Targets

SsdpInv == DeviceInv /\ NetInv /\ ClientInv

-------------------------------------------------------------------------------
(* The messages                                                             *)

LEMMA MessageMethods ==
    /\ \A d \in Descriptions : \A m \in AliveMessages(d) \cup ByebyeMessages(d) : m.method = "NOTIFY"
    /\ \A d \in Descriptions, st \in Asked : \A m \in ReplyMessages(d, st) : m.method = "reply"
<1>1. ASSUME NEW d \in Descriptions, NEW m \in AliveMessages(d) \cup ByebyeMessages(d)
      PROVE  m.method = "NOTIFY"
  BY DEF AliveMessages, ByebyeMessages, DeviceAdvertisement, ServiceAdvertisement, DeviceShutdown,
     ServiceShutdown, Advert
<1>2. ASSUME NEW d \in Descriptions, NEW st \in Asked, NEW m \in ReplyMessages(d, st)
      PROVE  m.method = "reply"
  <2>1. PICK i \in Advertised(d) : m \in DeviceReplies(st, d[i], i = 1) \cup ServiceReplies(st, d[i])
    BY DEF ReplyMessages
  <2>2. CASE m \in DeviceReplies(st, d[i], i = 1)
    BY <2>2 DEF DeviceReplies, DeviceReply, TypeReply, SendReply, Reply
  <2>3. CASE m \in ServiceReplies(st, d[i])
    BY <2>3 DEF ServiceReplies, ServiceReply, TypeReply, SendReply, Reply
  <2> QED
    BY <2>1, <2>2, <2>3
<1> QED
  BY <1>1, <1>2

LEMMA MessageSources ==
    ASSUME NEW m
    PROVE  m \in Messages <=>
              \/ m \in Foreign
              \/ \E st \in Targets : m = Search(st)
              \/ \E d \in Descriptions : m \in AliveMessages(d) \cup ByebyeMessages(d)
              \/ \E d \in Descriptions, st \in Asked : m \in ReplyMessages(d, st)
<1> DEFINE X == {Search(st) : st \in Targets}
           Y == UNION {AliveMessages(d) \cup ByebyeMessages(d) : d \in Descriptions}
           Z == UNION {ReplyMessages(d, st) : d \in Descriptions, st \in Asked}
<1>1. m \in X <=> \E st \in Targets : m = Search(st)
  OBVIOUS
<1>2. m \in Y <=> \E d \in Descriptions : m \in AliveMessages(d) \cup ByebyeMessages(d)
  OBVIOUS
<1>3. m \in Z <=> \E d \in Descriptions, st \in Asked : m \in ReplyMessages(d, st)
  OBVIOUS
<1>4. Messages = Foreign \cup X \cup Y \cup Z
  BY DEF Messages
<1> HIDE DEF X, Y, Z
<1> QED
  BY <1>1, <1>2, <1>3, <1>4

(* A search that is received asks for something that is searched for.       *)
LEMMA SearchedFor ==
    ASSUME NEW m \in Messages, m.method = "M-SEARCH"
    PROVE  m.nt \in Asked
<1>1. CASE m \in Foreign
  BY <1>1 DEF Asked
<1>2. CASE \E st \in Targets : m = Search(st)
  BY <1>2 DEF Asked, Search
<1> QED
  BY <1>1, <1>2, MessageMethods, MessageSources

LEMMA SentIsMessage ==
    /\ \A d \in Descriptions : AliveMessages(d) \cup ByebyeMessages(d) \subseteq Messages
    /\ \A d \in Descriptions, st \in Asked : ReplyMessages(d, st) \subseteq Messages
    /\ \A st \in Targets : Search(st) \in Messages
  BY MessageSources

LEMMA NetGrows ==
    ASSUME net \subseteq Messages, NEW M, M \subseteq Messages, Send(M)
    PROVE  net' \subseteq Messages
  BY DEF Send, CanBeSent

LEMMA NetShrinks ==
    ASSUME net \subseteq Messages, NEW m, Delivered(m)
    PROVE  net' \subseteq Messages
  BY DEF Delivered

-------------------------------------------------------------------------------
(* Steps of the device                                                      *)

LEMMA RegisterKeepsInv ==
    ASSUME DeviceInv, NEW d \in Descriptions, UpnpRegisterRootDevice(d)
    PROVE  DeviceInv'
  BY SsdpAssumption DEF DeviceInv, UpnpRegisterRootDevice, Announcing, Busy, AnnouncedIsRegistered, NoBurst, HandleLock,
     Threads

LEMMA AppSendsKeepsInv ==
    ASSUME DeviceInv, AppSendsAdvertisement
    PROVE  DeviceInv'
<1>1. pc' = [pc EXCEPT !["app"] = "enter"] /\ pc["app"] = "idle" /\ adverts' = adverts + 1 /\ adverts < MaxAdverts
      /\ UNCHANGED <<desc, copies, events, autoJobs, replyEvents, registrations, promised>>
  BY DEF AppSendsAdvertisement, Goto
<1>2. pc' \in [Threads -> {"idle", "enter", "alive", "rearm", "byebye", "free"}] /\ pc'["app"] = "enter" /\ pc'["job"] = pc["job"]
  BY <1>1 DEF DeviceInv, Threads
<1>3. Announcing' /\ ~Announcing /\ Busy' = Busy
  BY <1>1, <1>2 DEF Announcing, Busy
<1>4. adverts' \in 0..MaxAdverts
  BY <1>1, SsdpAssumption DEF DeviceInv
<1>5. events' + autoJobs' + (IF Busy' THEN 1 ELSE 0) + (IF Announcing' THEN 1 ELSE 0) <= adverts'
  BY <1>1, <1>3, <1>4 DEF DeviceInv
<1>6. AnnouncedIsRegistered' /\ \A t \in Threads : pc'[t] \in {"alive", "byebye"} => copies'[t] > 0
  BY <1>1, <1>2 DEF DeviceInv, AnnouncedIsRegistered, NoBurst, Threads
<1> QED
  BY <1>1, <1>2, <1>4, <1>5, <1>6 DEF DeviceInv

LEMMA AutoAdvertiseKeepsInv ==
    ASSUME DeviceInv, AutoAdvertise
    PROVE  DeviceInv'
<1>1. pc' = [pc EXCEPT !["job"] = "enter"] /\ pc["job"] = "idle" /\ autoJobs' = autoJobs - 1 /\ autoJobs > 0
      /\ UNCHANGED <<desc, copies, events, replyEvents, registrations, adverts, promised>>
  BY DEF AutoAdvertise, Goto
<1>2. pc' \in [Threads -> {"idle", "enter", "alive", "rearm", "byebye", "free"}] /\ pc'["job"] = "enter" /\ pc'["app"] = pc["app"]
  BY <1>1 DEF DeviceInv, Threads
<1>3. Announcing' = Announcing /\ Busy' /\ ~Busy
  BY <1>1, <1>2 DEF Announcing, Busy
<1>4. autoJobs' \in Nat
  BY <1>1 DEF DeviceInv
<1>5. events' + autoJobs' + (IF Busy' THEN 1 ELSE 0) + (IF Announcing' THEN 1 ELSE 0) <= adverts'
  BY <1>1, <1>3, <1>4 DEF DeviceInv
<1>6. AnnouncedIsRegistered' /\ \A t \in Threads : pc'[t] \in {"alive", "byebye"} => copies'[t] > 0
  BY <1>1, <1>2 DEF DeviceInv, AnnouncedIsRegistered, NoBurst, Threads
<1> QED
  BY <1>1, <1>2, <1>4, <1>5, <1>6 DEF DeviceInv

(* A thread goes from one place of an announcement to another.              *)
LEMMA ThreadGoes ==
    ASSUME DeviceInv, NEW t \in Threads, NEW place \in {"idle", "enter", "alive", "rearm", "byebye", "free"},
           Goto(t, place), copies' \in [Threads -> 0..NUM_SSDP_COPY],
           \A u \in Threads \ {t} : copies'[u] = copies[u],
           place \in {"alive", "byebye"} => copies'[t] > 0 /\ desc # None,
           t = "job" => pc[t] # "idle",
           t = "app" /\ place \in {"enter", "alive", "rearm"} => Announcing,
           UNCHANGED <<desc, events, autoJobs, replyEvents, registrations, adverts, promised>>
    PROVE  DeviceInv'
<1>1. pc' = [pc EXCEPT ![t] = place]
  BY DEF Goto
<1>2. /\ pc' \in [Threads -> {"idle", "enter", "alive", "rearm", "byebye", "free"}]
      /\ pc'[t] = place /\ \A u \in Threads \ {t} : pc'[u] = pc[u]
  BY <1>1 DEF DeviceInv
<1>3. (Announcing' => Announcing) /\ (Busy' => Busy)
  BY <1>2 DEF Announcing, Busy, Threads
<1>4. events' + autoJobs' + (IF Busy' THEN 1 ELSE 0) + (IF Announcing' THEN 1 ELSE 0) <= adverts'
  BY <1>3 DEF DeviceInv
<1>5. \A u \in Threads : pc'[u] \in {"alive", "byebye"} => copies'[u] > 0
  BY <1>2 DEF DeviceInv
<1>6. AnnouncedIsRegistered'
  BY <1>2 DEF DeviceInv, AnnouncedIsRegistered, NoBurst
<1> QED
  BY <1>2, <1>4, <1>5, <1>6 DEF DeviceInv

LEMMA BurstBeginsKeepsInv ==
    ASSUME DeviceInv, NEW t \in Threads, NEW kind \in {"alive", "byebye"}, BurstBegins(t, kind),
           t = "job" => pc[t] # "idle", t = "app" /\ kind = "alive" => Announcing,
           UNCHANGED <<desc, events, autoJobs, replyEvents, registrations, adverts, promised>>
    PROVE  DeviceInv'
<1>1. CASE desc = None
  <2>1. Goto(t, "idle") /\ copies' = copies
    BY <1>1 DEF BurstBegins
  <2>2. copies' \in [Threads -> 0..NUM_SSDP_COPY]
    BY <2>1 DEF DeviceInv
  <2> QED
    BY <2>1, <2>2, ThreadGoes
<1>2. CASE desc # None
  <2>1. Goto(t, kind) /\ copies' = [copies EXCEPT ![t] = NUM_SSDP_COPY]
    BY <1>2 DEF BurstBegins
  <2>2. copies' \in [Threads -> 0..NUM_SSDP_COPY] /\ copies'[t] > 0 /\ \A u \in Threads \ {t} : copies'[u] = copies[u]
    BY <2>1, SsdpAssumption DEF DeviceInv
  <2> QED
    BY <1>2, <2>1, <2>2, ThreadGoes
<1> QED
  BY <1>1, <1>2

LEMMA AdvertiseAndReplyKeepsInv ==
    ASSUME DeviceInv, NetInv, NEW t \in Threads, AdvertiseAndReply(t)
    PROVE  DeviceInv' /\ NetInv'
<1>1. /\ pc[t] \in {"alive", "byebye"} /\ copies[t] > 0 /\ desc \in Descriptions
      /\ UNCHANGED <<desc, events, autoJobs, replyEvents, registrations, adverts, promised>>
  BY DEF AdvertiseAndReply, DeviceInv, AnnouncedIsRegistered, NoBurst
<1>2. NetInv'
  BY <1>1, SentIsMessage, NetGrows DEF NetInv, AdvertiseAndReply, BurstOf
<1>3. copies' = [copies EXCEPT ![t] = @ - 1] /\ copies[t] \in 0..NUM_SSDP_COPY
  BY DEF AdvertiseAndReply, CopySent, DeviceInv
<1>4. /\ copies' \in [Threads -> 0..NUM_SSDP_COPY] /\ copies'[t] = copies[t] - 1
      /\ \A u \in Threads \ {t} : copies'[u] = copies[u]
  <2>1. copies \in [Threads -> 0..NUM_SSDP_COPY] /\ NUM_SSDP_COPY \in Nat
    BY SsdpAssumption DEF DeviceInv
  <2>2. copies[t] > 0
    BY <1>1
  <2>3. copies[t] - 1 \in 0..NUM_SSDP_COPY
    BY <1>3, <2>1, <2>2
  <2> QED
    BY <1>3, <2>1, <2>3
<1>5. CASE copies[t] = 1
  <2>1. PICK place : place = AfterBurst(pc[t])
    OBVIOUS
  <2>2. Goto(t, place) /\ place \in {"rearm", "free"} /\ (place = "rearm" => pc[t] = "alive")
    BY <1>1, <1>5, <2>1 DEF AdvertiseAndReply, CopySent, AfterBurst
  <2>3. DeviceInv'
    BY <1>1, <1>4, <2>2, ThreadGoes DEF Announcing
  <2> QED
    BY <1>2, <2>3
<1>6. CASE copies[t] # 1
  <2>1. PICK place : place = pc[t]
    OBVIOUS
  <2>2. Goto(t, place) /\ place \in {"alive", "byebye"} /\ copies'[t] > 0 /\ desc # None
    BY <1>1, <1>3, <1>4, <1>6, <2>1, SsdpAssumption DEF AdvertiseAndReply, CopySent
  <2>3. DeviceInv'
    BY <1>1, <1>4, <2>1, <2>2, ThreadGoes DEF Announcing
  <2> QED
    BY <1>2, <2>3
<1> QED
  BY <1>5, <1>6

LEMMA AdvertisementEndsKeepsInv ==
    ASSUME DeviceInv, NEW t \in Threads, SendAdvertisementEnds(t)
    PROVE  DeviceInv'
<1>1. pc' = [pc EXCEPT ![t] = "idle"] /\ pc[t] = "rearm"
      /\ UNCHANGED <<desc, copies, autoJobs, replyEvents, registrations, adverts>>
  BY DEF SendAdvertisementEnds, Goto
<1>2. /\ pc' \in [Threads -> {"idle", "enter", "alive", "rearm", "byebye", "free"}]
      /\ pc'[t] = "idle" /\ \A u \in Threads \ {t} : pc'[u] = pc[u]
  BY <1>1 DEF DeviceInv
<1>3. (Announcing' => Announcing) /\ (Busy' => Busy) /\ (t = "app" => Announcing /\ ~Announcing') /\ (t = "job" => Busy /\ ~Busy')
  BY <1>1, <1>2 DEF Announcing, Busy, Threads
<1>4. /\ events' \in {events, events + 1} /\ promised' \in BOOLEAN /\ (promised' => desc # None)
  <2>1. CASE Rearm(t)
    <3>1. desc # None /\ events' \in {events, events + 1} /\ (promised' = (promised \/ t = "app") \/ promised' = promised)
      BY <2>1 DEF Rearm
    <3>2. promised' \in BOOLEAN
      <4>1. CASE promised' = (promised \/ t = "app")
        BY <4>1, Zenon
      <4>2. CASE promised' = promised
        BY <4>2, Zenon DEF DeviceInv
      <4> QED
        BY <3>1, <4>1, <4>2, Zenon
    <3> QED
      BY <3>1, <3>2, Zenon
  <2>2. CASE desc = None /\ UNCHANGED <<events, promised>>
    <3>1. promised' \in BOOLEAN /\ (promised' => desc # None)
      BY <2>2, Zenon DEF DeviceInv
    <3> QED
      BY <2>2, <3>1, Zenon
  <2> QED
    BY <2>1, <2>2 DEF SendAdvertisementEnds
<1>5. events' + autoJobs' + (IF Busy' THEN 1 ELSE 0) + (IF Announcing' THEN 1 ELSE 0) <= adverts' /\ events' \in Nat
  <2>1. events \in Nat /\ autoJobs \in Nat /\ adverts \in Nat
        /\ events + autoJobs + (IF Busy THEN 1 ELSE 0) + (IF Announcing THEN 1 ELSE 0) <= adverts
    BY SsdpAssumption DEF DeviceInv
  <2>2. PICK b \in {0, 1}, a \in {0, 1}, b2 \in {0, 1}, a2 \in {0, 1} :
            /\ b = (IF Busy THEN 1 ELSE 0) /\ a = (IF Announcing THEN 1 ELSE 0)
            /\ b2 = (IF Busy' THEN 1 ELSE 0) /\ a2 = (IF Announcing' THEN 1 ELSE 0)
    OBVIOUS
  <2>3. b2 + a2 < b + a
    <3>1. CASE t = "app"
      BY <1>3, <2>2, <3>1
    <3>2. CASE t = "job"
      BY <1>3, <2>2, <3>2
    <3> QED
      BY <3>1, <3>2 DEF Threads
  <2>4. events' + autoJobs + b2 + a2 <= adverts /\ events' \in Nat
    <3>1. events + autoJobs + b + a <= adverts
      BY <2>1, <2>2
    <3>2. CASE events' = events
      BY <2>1, <2>2, <2>3, <3>1, <3>2
    <3>3. CASE events' = events + 1
      BY <2>1, <2>2, <2>3, <3>1, <3>3
    <3> QED
      BY <1>4, <3>2, <3>3
  <2> QED
    BY <1>1, <2>2, <2>4
<1>6. AnnouncedIsRegistered' /\ \A u \in Threads : pc'[u] \in {"alive", "byebye"} => copies'[u] > 0
  BY <1>1, <1>2 DEF DeviceInv, AnnouncedIsRegistered, NoBurst
<1> QED
  BY <1>1, <1>2, <1>4, <1>5, <1>6 DEF DeviceInv

LEMMA AdvertEventKeepsInv ==
    ASSUME DeviceInv, AdvertEventDue
    PROVE  DeviceInv'
<1>1. /\ events' = events - 1 /\ events > 0 /\ autoJobs' \in {autoJobs, autoJobs + 1}
      /\ UNCHANGED <<desc, pc, copies, replyEvents, registrations, adverts, promised>>
  BY DEF AdvertEventDue
<1>2. (Busy' <=> Busy) /\ (Announcing' <=> Announcing) /\ AnnouncedIsRegistered'
  BY <1>1 DEF DeviceInv, Busy, Announcing, AnnouncedIsRegistered, NoBurst
<1>3. events' \in Nat /\ autoJobs' \in Nat
      /\ events' + autoJobs' + (IF Busy' THEN 1 ELSE 0) + (IF Announcing' THEN 1 ELSE 0) <= adverts'
  <2>1. events \in Nat /\ autoJobs \in Nat /\ adverts \in Nat
        /\ events + autoJobs + (IF Busy THEN 1 ELSE 0) + (IF Announcing THEN 1 ELSE 0) <= adverts
    BY SsdpAssumption DEF DeviceInv
  <2>2. PICK b \in {0, 1}, a \in {0, 1} :
            /\ b = (IF Busy THEN 1 ELSE 0) /\ a = (IF Announcing THEN 1 ELSE 0)
            /\ b = (IF Busy' THEN 1 ELSE 0) /\ a = (IF Announcing' THEN 1 ELSE 0)
    BY <1>2
  <2>3. events + autoJobs + b + a <= adverts
    BY <2>1, <2>2
  <2>4. events' + autoJobs' + b + a <= adverts /\ events' \in Nat /\ autoJobs' \in Nat
    <3>1. CASE autoJobs' = autoJobs
      BY <1>1, <2>1, <2>2, <2>3, <3>1
    <3>2. CASE autoJobs' = autoJobs + 1
      BY <1>1, <2>1, <2>2, <2>3, <3>2
    <3> QED
      BY <1>1, <3>1, <3>2
  <2>5. adverts' = adverts
    BY <1>1
  <2> QED
    BY <2>2, <2>4, <2>5
<1> QED
  BY <1>1, <1>2, <1>3 DEF DeviceInv

LEMMA UnRegisterEndsKeepsInv ==
    ASSUME DeviceInv, UnRegisterEnds
    PROVE  DeviceInv'
<1>1. /\ pc' = [pc EXCEPT !["app"] = "idle"] /\ pc["app"] = "free" /\ NoBurst /\ desc' = None /\ promised' = FALSE
      /\ UNCHANGED <<copies, events, autoJobs, replyEvents, registrations, adverts>>
  BY DEF UnRegisterEnds, Goto, MayFree, HandleLock
<1>2. /\ pc' \in [Threads -> {"idle", "enter", "alive", "rearm", "byebye", "free"}]
      /\ pc'["app"] = "idle" /\ pc'["job"] = pc["job"]
  BY <1>1 DEF DeviceInv, Threads
<1>3. Busy' = Busy /\ ~Announcing' /\ ~Announcing
  BY <1>1, <1>2 DEF Busy, Announcing
<1>4. events' + autoJobs' + (IF Busy' THEN 1 ELSE 0) + (IF Announcing' THEN 1 ELSE 0) <= adverts'
  BY <1>1, <1>3 DEF DeviceInv
<1>5. AnnouncedIsRegistered' /\ \A u \in Threads : pc'[u] \in {"alive", "byebye"} => copies'[u] > 0
  BY <1>1, <1>2 DEF AnnouncedIsRegistered, NoBurst, Threads
<1> QED
  BY <1>1, <1>2, <1>4, <1>5 DEF DeviceInv

LEMMA DeviceStepKeepsInv ==
    ASSUME DeviceInv, NetInv, DeviceStep
    PROVE  DeviceInv' /\ NetInv'
<1>1. ASSUME NEW d \in Descriptions, UpnpRegisterRootDevice(d)
      PROVE  DeviceInv' /\ NetInv'
  BY <1>1, RegisterKeepsInv DEF UpnpRegisterRootDevice, NetInv
<1>2. CASE AppSendsAdvertisement
  BY <1>2, AppSendsKeepsInv DEF AppSendsAdvertisement, NetInv
<1>3. CASE UnRegisterBegins
  <2>1. DeviceInv'
    BY <1>3, BurstBeginsKeepsInv DEF UnRegisterBegins, Threads
  <2> QED
    BY <1>3, <2>1 DEF UnRegisterBegins, NetInv
<1>4. ASSUME NEW m \in net, ssdp_handle_device_request(m)
      PROVE  DeviceInv' /\ NetInv'
  <2>1. replyEvents' \subseteq Asked
    BY <1>4, SearchedFor DEF ssdp_handle_device_request, NetInv, DeviceInv
  <2>2. NetInv'
    BY <1>4, NetShrinks DEF ssdp_handle_device_request, NetInv
  <2>3. UNCHANGED <<desc, pc, copies, events, autoJobs, registrations, adverts, promised>>
    BY <1>4 DEF ssdp_handle_device_request
  <2> QED
    BY <2>1, <2>2, <2>3 DEF DeviceInv, Busy, Announcing, AnnouncedIsRegistered, NoBurst
<1>5. ASSUME NEW st \in replyEvents, advertiseAndReplyThread(st)
      PROVE  DeviceInv' /\ NetInv'
  <2>1. replyEvents' \subseteq Asked /\ st \in Asked
        /\ UNCHANGED <<desc, pc, copies, events, autoJobs, registrations, adverts, promised>>
    BY <1>5 DEF advertiseAndReplyThread, DeviceInv
  <2>2. NetInv'
    <3>1. CASE desc = None
      BY <1>5, <3>1 DEF advertiseAndReplyThread, NetInv
    <3>2. CASE desc # None
      <4>1. Send(ReplyMessages(desc, st)) /\ desc \in Descriptions
        BY <1>5, <3>2 DEF advertiseAndReplyThread, DeviceInv
      <4> QED
        BY <2>1, <4>1, SentIsMessage, NetGrows DEF NetInv
    <3> QED
      BY <3>1, <3>2
  <2> QED
    BY <2>1, <2>2 DEF DeviceInv, Busy, Announcing, AnnouncedIsRegistered, NoBurst
<1> QED
  BY <1>1, <1>2, <1>3, <1>4, <1>5 DEF DeviceStep

LEMMA AdvertStepKeepsInv ==
    ASSUME DeviceInv, NetInv, NEW t \in Threads, AdvertStep(t)
    PROVE  DeviceInv' /\ NetInv'
<1>1. CASE SendAdvertisementEnters(t)
  <2>1. t = "job" => pc[t] # "idle"
    BY <1>1 DEF SendAdvertisementEnters
  <2>2. t = "app" => Announcing
    BY <1>1 DEF SendAdvertisementEnters, Announcing
  <2>3. DeviceInv'
    BY <1>1, <2>1, <2>2, BurstBeginsKeepsInv DEF SendAdvertisementEnters
  <2> QED
    BY <1>1, <2>3 DEF SendAdvertisementEnters, NetInv
<1>2. CASE AdvertiseAndReply(t)
  BY <1>2, AdvertiseAndReplyKeepsInv
<1>3. CASE SendAdvertisementEnds(t)
  BY <1>3, AdvertisementEndsKeepsInv DEF SendAdvertisementEnds, NetInv
<1> QED
  BY <1>1, <1>2, <1>3 DEF AdvertStep

-------------------------------------------------------------------------------
(* Steps of the control point                                               *)

LEMMA ClientGoesKeepsInv ==
    ASSUME ClientInv, UpnpRegisterClient \/ UpnpUnRegisterClient
    PROVE  ClientInv'
<1>1. CASE UpnpRegisterClient
  BY <1>1 DEF UpnpRegisterClient, ClientInv
<1>2. CASE UpnpUnRegisterClient
  <2>1. search' = [i \in Ids |-> IF search[i].at = "listed" THEN [search[i] EXCEPT !.at = "dropped"] ELSE search[i]]
        /\ sending = 0 /\ UNCHANGED <<receiver, expiry, result, sending>> /\ client' = FALSE
    BY <1>2 DEF UpnpUnRegisterClient
  <2>2. ASSUME NEW i \in Ids
        PROVE  search'[i] \in [st : Targets \cup {None}, at : {"none", "listed", "expired", "dropped"}]
               /\ search'[i].at # "listed"
    <3>1. search[i] \in [st : Targets \cup {None}, at : {"none", "listed", "expired", "dropped"}]
      BY DEF ClientInv
    <3>2. search'[i] = IF search[i].at = "listed" THEN [search[i] EXCEPT !.at = "dropped"] ELSE search[i]
      BY <2>1
    <3> QED
      BY <3>1, <3>2
  <2>3. search' \in [Ids -> [st : Targets \cup {None}, at : {"none", "listed", "expired", "dropped"}]]
    BY <2>1, <2>2
  <2> QED
    BY <2>1, <2>2, <2>3 DEF ClientInv
<1> QED
  BY <1>1, <1>2

LEMMA SearchByTargetKeepsInv ==
    ASSUME ClientInv, NEW st \in Targets, SearchByTarget(st)
    PROVE  ClientInv'
<1>1. PICK i \in Ids : /\ search' = [search EXCEPT ![i] = [st |-> st, at |-> "listed"]]
                       /\ expiry' = [expiry EXCEPT ![i] = "event"] \/ UNCHANGED expiry
                       /\ sending' = i
  BY DEF SearchByTarget
<1>2. client /\ UNCHANGED <<client, receiver, result>>
  BY DEF SearchByTarget
<1>3. /\ search' \in [Ids -> [st : Targets \cup {None}, at : {"none", "listed", "expired", "dropped"}]]
      /\ search'[i].st = st
  BY <1>1 DEF ClientInv
<1>4. expiry' \in [Ids -> {"none", "event", "job", "calling"}]
  BY <1>1 DEF ClientInv
<1> QED
  BY <1>1, <1>2, <1>3, <1>4 DEF ClientInv

LEMMA SearchIsSentKeepsInv ==
    ASSUME NetInv, ClientInv, SearchIsSent
    PROVE  NetInv' /\ ClientInv'
<1>1. search[sending].st \in Targets /\ Send({Search(search[sending].st)})
      /\ sending' = 0 /\ UNCHANGED <<client, receiver, search, expiry, result>>
  BY DEF SearchIsSent, ClientInv
<1>2. NetInv'
  BY <1>1, SentIsMessage, NetGrows DEF NetInv
<1> QED
  BY <1>1, <1>2 DEF ClientInv

LEMMA ReceiveKeepsInv ==
    ASSUME NetInv, ClientInv, NEW r \in Receivers, NEW m \in net, Receive(r, m)
    PROVE  NetInv' /\ ClientInv'
<1>1. /\ receiver' = [receiver EXCEPT ![r] = [m |-> m, at |-> "start"]] /\ Delivered(m)
      /\ UNCHANGED <<client, search, expiry, result, sending>>
  BY DEF Receive
<1>2. m \in Messages
  BY DEF NetInv
<1>3. receiver' \in [Receivers -> [m : Messages \cup {None}, at : {"idle", "start", "copied", "calling"}]]
  BY <1>1, <1>2 DEF ClientInv
<1>4. NetInv'
  BY <1>1, NetShrinks DEF NetInv
<1> QED
  BY <1>1, <1>3, <1>4 DEF ClientInv

LEMMA ReceiverProceeds ==
    ASSUME ClientInv, NEW r \in Receivers, NEW where \in {"idle", "copied", "calling"}, Proceed(r, where)
    PROVE  receiver' \in [Receivers -> [m : Messages \cup {None}, at : {"idle", "start", "copied", "calling"}]]
<1>1. receiver[r] \in [m : Messages \cup {None}, at : {"idle", "start", "copied", "calling"}]
  BY DEF ClientInv
<1>2. PICK c : c = [receiver[r] EXCEPT !.at = where]
  OBVIOUS
<1>3. c \in [m : Messages \cup {None}, at : {"idle", "start", "copied", "calling"}]
  BY <1>1, <1>2
<1>4. Idle \in [m : Messages \cup {None}, at : {"idle", "start", "copied", "calling"}]
  BY DEF Idle
<1>5. receiver' = [receiver EXCEPT ![r] = IF where = "idle" THEN Idle ELSE c]
  BY <1>2 DEF Proceed
<1> QED
  BY <1>3, <1>4, <1>5 DEF ClientInv

LEMMA ReceiverStepKeepsInv ==
    ASSUME ClientInv, NEW r \in Receivers, ReceiverStep(r)
    PROVE  ClientInv'
<1>1. UNCHANGED <<client, search, expiry, sending>>
  BY DEF ReceiverStep, CtrlptMsgCopies, AdvertIsReported, ReplyIsMatched, CallbackReturns
<1>2. \E where \in {"idle", "copied", "calling"} : Proceed(r, where)
  <2>1. CASE CtrlptMsgCopies(r)
    BY <2>1 DEF CtrlptMsgCopies
  <2>2. CASE AdvertIsReported(r)
    BY <2>2 DEF AdvertIsReported
  <2>3. CASE ReplyIsMatched(r)
    BY <2>3 DEF ReplyIsMatched
  <2>4. CASE CallbackReturns(r)
    BY <2>4 DEF CallbackReturns
  <2> QED
    BY <2>1, <2>2, <2>3, <2>4 DEF ReceiverStep
<1>3. receiver' \in [Receivers -> [m : Messages \cup {None}, at : {"idle", "start", "copied", "calling"}]]
  BY <1>2, ReceiverProceeds
<1>4. result' \in [Ids -> {"none", "queued", "calling"}]
  <2>1. CASE UNCHANGED result
    BY <2>1 DEF ClientInv
  <2>2. CASE ReplyIsMatched(r)
    <3>1. PICK chosen : result' = [i \in Ids |-> IF i \in chosen /\ result[i] = "none" THEN "queued" ELSE result[i]]
      BY <2>2 DEF ReplyIsMatched
    <3> QED
      BY <3>1 DEF ClientInv
  <2> QED
    BY <2>1, <2>2 DEF ReceiverStep, CtrlptMsgCopies, AdvertIsReported, CallbackReturns
<1> QED
  BY <1>1, <1>3, <1>4 DEF ClientInv

LEMMA SearchStepKeepsInv ==
    ASSUME ClientInv, NEW i \in Ids, SearchStep(i)
    PROVE  ClientInv'
<1>1. UNCHANGED <<client, receiver, sending>>
  BY DEF SearchStep, send_search_result, SearchEventDue, searchExpired, TimeoutReturns
<1>2. result' \in [Ids -> {"none", "queued", "calling"}]
  BY DEF SearchStep, send_search_result, SearchEventDue, searchExpired, TimeoutReturns, ClientInv
<1>3. expiry' \in [Ids -> {"none", "event", "job", "calling"}]
  BY DEF SearchStep, send_search_result, SearchEventDue, searchExpired, Expire, TimeoutReturns, ClientInv
<1>4. \/ UNCHANGED search
      \/ search' = [search EXCEPT ![i].at = "expired"]
  BY DEF SearchStep, send_search_result, SearchEventDue, searchExpired, Expire, TimeoutReturns
<1>5. /\ search' \in [Ids -> [st : Targets \cup {None}, at : {"none", "listed", "expired", "dropped"}]]
      /\ \A k \in Ids : search'[k].st = search[k].st /\ (search'[k].at = "listed" => search[k].at = "listed")
  <2>1. CASE UNCHANGED search
    BY <2>1 DEF ClientInv
  <2>2. CASE search' = [search EXCEPT ![i].at = "expired"]
    <3>1. search[i] \in [st : Targets \cup {None}, at : {"none", "listed", "expired", "dropped"}]
      BY DEF ClientInv
    <3>2. PICK c : c = [search[i] EXCEPT !.at = "expired"]
      OBVIOUS
    <3>3. c \in [st : Targets \cup {None}, at : {"none", "listed", "expired", "dropped"}]
          /\ c.st = search[i].st /\ c.at = "expired"
      BY <3>1, <3>2
    <3>4. search' = [search EXCEPT ![i] = c]
      BY <2>2, <3>2
    <3> QED
      BY <3>3, <3>4 DEF ClientInv
  <2> QED
    BY <1>4, <2>1, <2>2
<1> QED
  BY <1>1, <1>2, <1>3, <1>5 DEF ClientInv
-------------------------------------------------------------------------------
(* The invariant                                                            *)

LEMMA InitEstablishesInv == Init => SsdpInv
<1> SUFFICES ASSUME Init PROVE SsdpInv
  OBVIOUS
<1>1. DeviceInv
  <2>1. pc = [t \in Threads |-> "idle"] /\ copies = [t \in Threads |-> 0] /\ events = 0 /\ autoJobs = 0
        /\ adverts = 0 /\ registrations = 0 /\ promised = FALSE /\ desc = None /\ replyEvents = {}
    BY DEF Init
  <2>2. pc \in [Threads -> {"idle", "enter", "alive", "rearm", "byebye", "free"}] /\ \A t \in Threads : pc[t] = "idle"
    BY <2>1
  <2>3. copies \in [Threads -> 0..NUM_SSDP_COPY]
    BY <2>1, SsdpAssumption
  <2>4. ~Busy /\ ~Announcing /\ NoBurst
    BY <2>2 DEF Busy, Announcing, NoBurst, Threads
  <2>5. registrations \in 0..MaxRegistrations /\ adverts \in 0..MaxAdverts
    BY <2>1, SsdpAssumption
  <2>6. events + autoJobs + (IF Busy THEN 1 ELSE 0) + (IF Announcing THEN 1 ELSE 0) <= adverts
    BY <2>1, <2>4
  <2> QED
    BY <2>1, <2>2, <2>3, <2>4, <2>5, <2>6 DEF DeviceInv, AnnouncedIsRegistered
<1>2. NetInv
  BY MessageSources DEF Init, NetInv
<1>3. ClientInv
  BY DEF Init, ClientInv, Idle
<1> QED
  BY <1>1, <1>2, <1>3 DEF SsdpInv

LEMMA DeviceUnchanged ==
    ASSUME DeviceInv, UNCHANGED deviceVars
    PROVE  DeviceInv'
<1>1. UNCHANGED <<desc, pc, copies, events, autoJobs, replyEvents, registrations, adverts, promised>>
  BY DEF deviceVars
<1> QED
  BY <1>1 DEF DeviceInv, Busy, Announcing, AnnouncedIsRegistered, NoBurst

LEMMA ClientUnchanged ==
    ASSUME ClientInv, UNCHANGED ctrlptVars
    PROVE  ClientInv'
  BY DEF ClientInv, ctrlptVars

LEMMA NextKeepsInv == SsdpInv /\ [Next]_vars => SsdpInv'
<1> SUFFICES ASSUME SsdpInv, [Next]_vars PROVE SsdpInv'
  OBVIOUS
<1> USE DEF SsdpInv
<1>1. CASE DeviceStep
  <2>1. UNCHANGED ctrlptVars
    BY <1>1 DEF DeviceStep, UpnpRegisterRootDevice, AppSendsAdvertisement, UnRegisterBegins,
       ssdp_handle_device_request, advertiseAndReplyThread
  <2> QED
    BY <1>1, <2>1, DeviceStepKeepsInv, ClientUnchanged
<1>2. CASE ClientStep
  <2>1. UNCHANGED deviceVars /\ NetInv'
    BY <1>2 DEF ClientStep, UpnpRegisterClient, UpnpUnRegisterClient, SearchByTarget, NetInv
  <2>2. ClientInv'
    BY <1>2, ClientGoesKeepsInv, SearchByTargetKeepsInv DEF ClientStep
  <2> QED
    BY <2>1, <2>2, DeviceUnchanged
<1>3. ASSUME NEW t \in Threads, AdvertStep(t)
      PROVE  SsdpInv'
  <2>1. UNCHANGED ctrlptVars
    BY <1>3 DEF AdvertStep, SendAdvertisementEnters, AdvertiseAndReply, SendAdvertisementEnds
  <2> QED
    BY <1>3, <2>1, AdvertStepKeepsInv, ClientUnchanged
<1>4. CASE AutoAdvertise
  <2>1. NetInv' /\ UNCHANGED ctrlptVars
    BY <1>4 DEF AutoAdvertise, NetInv
  <2> QED
    BY <1>4, <2>1, AutoAdvertiseKeepsInv, ClientUnchanged
<1>5. CASE AdvertEventDue
  <2>1. NetInv' /\ UNCHANGED ctrlptVars
    BY <1>5 DEF AdvertEventDue, NetInv
  <2> QED
    BY <1>5, <2>1, AdvertEventKeepsInv, ClientUnchanged
<1>6. CASE UnRegisterEnds
  <2>1. NetInv' /\ UNCHANGED ctrlptVars
    BY <1>6 DEF UnRegisterEnds, NetInv
  <2> QED
    BY <1>6, <2>1, UnRegisterEndsKeepsInv, ClientUnchanged
<1>7. CASE SearchIsSent
  BY <1>7, SearchIsSentKeepsInv, DeviceUnchanged DEF SearchIsSent
<1>8. ASSUME NEW r \in Receivers, ReceiverStep(r)
      PROVE  SsdpInv'
  <2>1. NetInv' /\ UNCHANGED deviceVars
    BY <1>8 DEF ReceiverStep, CtrlptMsgCopies, AdvertIsReported, ReplyIsMatched, CallbackReturns, NetInv
  <2> QED
    BY <1>8, <2>1, ReceiverStepKeepsInv, DeviceUnchanged
<1>9. ASSUME NEW r \in Receivers, NEW m \in net, Receive(r, m)
      PROVE  SsdpInv'
  BY <1>9, ReceiveKeepsInv, DeviceUnchanged DEF Receive
<1>10. ASSUME NEW i \in Ids, SearchStep(i)
       PROVE  SsdpInv'
  <2>1. NetInv' /\ UNCHANGED deviceVars
    BY <1>10 DEF SearchStep, send_search_result, SearchEventDue, searchExpired, TimeoutReturns, NetInv
  <2> QED
    BY <1>10, <2>1, SearchStepKeepsInv, DeviceUnchanged
<1>11. ASSUME NEW m \in net, Lose(m)
       PROVE  SsdpInv'
  <2>1. NetInv' /\ UNCHANGED <<deviceVars, ctrlptVars>>
    BY <1>11 DEF Lose, NetInv
  <2> QED
    BY <2>1, DeviceUnchanged, ClientUnchanged
<1>12. CASE UNCHANGED vars
  <2>1. NetInv' /\ UNCHANGED deviceVars /\ UNCHANGED ctrlptVars
    BY <1>12 DEF vars, NetInv
  <2> QED
    BY <2>1, DeviceUnchanged, ClientUnchanged
<1> QED
  BY <1>1, <1>2, <1>3, <1>4, <1>5, <1>6, <1>7, <1>8, <1>9, <1>10, <1>11, <1>12 DEF Next

LEMMA InvIsTypeOK == SsdpInv => TypeOK
<1> SUFFICES ASSUME SsdpInv PROVE TypeOK
  OBVIOUS
<1>1. events + autoJobs + (IF pc["job"] = "idle" THEN 0 ELSE 1) <= adverts
  BY DEF SsdpInv, DeviceInv, Busy
<1> QED
  BY <1>1 DEF SsdpInv, DeviceInv, NetInv, ClientInv, TypeOK

-------------------------------------------------------------------------------
(* What is promised and listed is scheduled                                 *)

LEMMA NextKeepsArmed ==
    ASSUME SsdpInv, AdvertArmed, ~ScheduleMayFail, [Next]_vars
    PROVE  AdvertArmed'
<1>1. /\ pc \in [Threads -> {"idle", "enter", "alive", "rearm", "byebye", "free"}]
      /\ events \in Nat /\ autoJobs \in Nat /\ (promised => desc # None)
  BY DEF SsdpInv, DeviceInv
<1>2. CASE UNCHANGED <<pc, events, autoJobs, promised>>
  BY <1>2 DEF AdvertArmed
<1>3. CASE AppSendsAdvertisement \/ UnRegisterBegins
  <2>1. pc'["job"] = pc["job"] /\ UNCHANGED <<events, autoJobs, promised>>
    BY <1>1, <1>3 DEF AppSendsAdvertisement, UnRegisterBegins, BurstBegins, Goto, Threads
  <2> QED
    BY <2>1 DEF AdvertArmed
<1>4. CASE AutoAdvertise
  <2>1. pc'["job"] = "enter"
    BY <1>1, <1>4 DEF AutoAdvertise, Goto, Threads
  <2> QED
    BY <2>1 DEF AdvertArmed
<1>5. CASE AdvertEventDue
  <2>1. events' = events - 1 /\ autoJobs' = autoJobs + 1 /\ events > 0
    BY <1>5 DEF AdvertEventDue
  <2>2. events' + autoJobs' > 0
    BY <1>1, <2>1
  <2> QED
    BY <2>2 DEF AdvertArmed
<1>6. CASE UnRegisterEnds
  BY <1>6 DEF UnRegisterEnds, AdvertArmed
<1>7. ASSUME NEW t \in Threads, SendAdvertisementEnters(t)
      PROVE  AdvertArmed'
  <2>1. UNCHANGED <<events, autoJobs, promised>>
    BY <1>7 DEF SendAdvertisementEnters
  <2>2. CASE desc = None
    BY <1>1, <2>1, <2>2 DEF AdvertArmed
  <2>3. CASE desc # None
    <3>1. pc' = [pc EXCEPT ![t] = "alive"]
      BY <1>7, <2>3 DEF SendAdvertisementEnters, BurstBegins, Goto
    <3>2. pc["job"] # "idle" => pc'["job"] # "idle"
      BY <1>1, <3>1 DEF Threads
    <3> QED
      BY <2>1, <3>2 DEF AdvertArmed
  <2> QED
    BY <2>2, <2>3
<1>8. ASSUME NEW t \in Threads, AdvertiseAndReply(t)
      PROVE  AdvertArmed'
  <2>1. UNCHANGED <<events, autoJobs, promised>>
    BY <1>8 DEF AdvertiseAndReply
  <2>2. pc["job"] # "idle" => pc'["job"] # "idle"
    <3>1. PICK place : place = IF copies[t] = 1 THEN AfterBurst(pc[t]) ELSE pc[t]
      OBVIOUS
    <3>2. pc' = [pc EXCEPT ![t] = place] /\ place # "idle"
      BY <1>8, <3>1 DEF AdvertiseAndReply, CopySent, Goto, AfterBurst
    <3> QED
      BY <1>1, <3>2 DEF Threads
  <2> QED
    BY <2>1, <2>2 DEF AdvertArmed
<1>9. ASSUME NEW t \in Threads, SendAdvertisementEnds(t)
      PROVE  AdvertArmed'
  <2>1. autoJobs' = autoJobs
    BY <1>9 DEF SendAdvertisementEnds
  <2>2. CASE desc = None
    <3>1. promised' = promised
      BY <1>9, <2>2 DEF SendAdvertisementEnds, Rearm
    <3> QED
      BY <1>1, <2>2, <3>1 DEF AdvertArmed
  <2>3. CASE desc # None
    <3>1. events' = events + 1
      BY <1>9, <2>3 DEF SendAdvertisementEnds, Rearm
    <3>2. events' + autoJobs' > 0
      BY <1>1, <2>1, <3>1
    <3> QED
      BY <3>2 DEF AdvertArmed
  <2> QED
    BY <2>2, <2>3
<1>10. CASE ~ \/ AppSendsAdvertisement \/ UnRegisterBegins \/ AutoAdvertise \/ AdvertEventDue \/ UnRegisterEnds
              \/ \E t \in Threads : AdvertStep(t)
  <2>1. CASE DeviceStep
    BY <1>2, <1>10, <2>1 DEF DeviceStep, UpnpRegisterRootDevice, ssdp_handle_device_request, advertiseAndReplyThread
  <2>2. CASE ~DeviceStep
    <3>1. UNCHANGED deviceVars
      BY <1>10, <2>2 DEF Next, vars, ClientStep, UpnpRegisterClient, UpnpUnRegisterClient, SearchByTarget, SearchIsSent,
         ReceiverStep, CtrlptMsgCopies, AdvertIsReported, ReplyIsMatched, CallbackReturns, Receive, SearchStep,
         send_search_result, SearchEventDue, searchExpired, TimeoutReturns, Lose
    <3> QED
      BY <1>2, <3>1 DEF deviceVars
  <2> QED
    BY <2>1, <2>2
<1> QED
  BY <1>3, <1>4, <1>5, <1>6, <1>7, <1>8, <1>9, <1>10 DEF AdvertStep

LEMMA NextKeepsTimeouts ==
    ASSUME SsdpInv, SearchHasTimeout, ~ScheduleMayFail, [Next]_vars
    PROVE  SearchHasTimeout'
<1>1. /\ search \in [Ids -> [st : Targets \cup {None}, at : {"none", "listed", "expired", "dropped"}]]
      /\ expiry \in [Ids -> {"none", "event", "job", "calling"}]
      /\ \A i \in Ids : search[i].at = "listed" => client
  BY DEF SsdpInv, ClientInv
<1>2. CASE UNCHANGED <<search, expiry>>
  BY <1>2 DEF SearchHasTimeout
<1>3. CASE UpnpUnRegisterClient
  <2>1. UNCHANGED expiry /\ \A i \in Ids : search'[i].at # "listed"
    <3>1. search' = [i \in Ids |-> IF search[i].at = "listed" THEN [search[i] EXCEPT !.at = "dropped"] ELSE search[i]]
      BY <1>3 DEF UpnpUnRegisterClient
    <3>2. ASSUME NEW i \in Ids
          PROVE  search'[i].at # "listed"
      <4>1. search[i] \in [st : Targets \cup {None}, at : {"none", "listed", "expired", "dropped"}]
        BY <1>1
      <4>2. search'[i] = IF search[i].at = "listed" THEN [search[i] EXCEPT !.at = "dropped"] ELSE search[i]
        BY <3>1
      <4> QED
        BY <4>1, <4>2
    <3> QED
      BY <1>3, <3>2 DEF UpnpUnRegisterClient
  <2> QED
    BY <2>1 DEF SearchHasTimeout
<1>4. ASSUME NEW st \in Targets, SearchByTarget(st)
      PROVE  SearchHasTimeout'
  <2>1. PICK i \in Ids : /\ search' = [search EXCEPT ![i] = [st |-> st, at |-> "listed"]]
                         /\ expiry' = [expiry EXCEPT ![i] = "event"]
    BY <1>4 DEF SearchByTarget
  <2> QED
    BY <1>1, <2>1 DEF SearchHasTimeout
<1>5. ASSUME NEW i \in Ids, SearchEventDue(i)
      PROVE  SearchHasTimeout'
  <2>1. expiry' = [expiry EXCEPT ![i] = "job"] /\ UNCHANGED search
    BY <1>5 DEF SearchEventDue
  <2> QED
    BY <1>1, <2>1 DEF SearchHasTimeout
<1>6. ASSUME NEW i \in Ids, TimeoutReturns(i)
      PROVE  SearchHasTimeout'
  <2>1. expiry' = [expiry EXCEPT ![i] = "none"] /\ UNCHANGED search /\ expiry[i] = "calling"
    BY <1>6 DEF TimeoutReturns
  <2> QED
    BY <1>1, <2>1 DEF SearchHasTimeout
<1>7. ASSUME NEW i \in Ids, searchExpired(i)
      PROVE  SearchHasTimeout'
  <2>1. CASE search[i].at = "listed"
    <3>1. search' = [search EXCEPT ![i].at = "expired"] /\ expiry' = [expiry EXCEPT ![i] = "calling"]
      BY <1>1, <1>7, <2>1 DEF searchExpired, Expire
    <3>2. PICK c : c = [search[i] EXCEPT !.at = "expired"]
      OBVIOUS
    <3>3. search[i] \in [st : Targets \cup {None}, at : {"none", "listed", "expired", "dropped"}]
      BY <1>1
    <3>4. c.at = "expired" /\ search' = [search EXCEPT ![i] = c]
      BY <3>1, <3>2, <3>3
    <3> QED
      BY <1>1, <3>1, <3>4 DEF SearchHasTimeout
  <2>2. CASE search[i].at # "listed"
    <3>1. UNCHANGED search /\ expiry' = [expiry EXCEPT ![i] = "none"]
      BY <1>7, <2>2 DEF searchExpired, Expire
    <3> QED
      BY <1>1, <2>2, <3>1 DEF SearchHasTimeout
  <2> QED
    BY <2>1, <2>2
<1>8. CASE ~ \/ UpnpUnRegisterClient \/ (\E st \in Targets : SearchByTarget(st))
             \/ \E i \in Ids : SearchEventDue(i) \/ TimeoutReturns(i) \/ searchExpired(i)
  <2>1. CASE DeviceStep \/ (\E t \in Threads : AdvertStep(t)) \/ AutoAdvertise \/ AdvertEventDue \/ UnRegisterEnds
    <3>1. UNCHANGED ctrlptVars
      BY <2>1 DEF DeviceStep, UpnpRegisterRootDevice, AppSendsAdvertisement, UnRegisterBegins, ssdp_handle_device_request,
         advertiseAndReplyThread, AdvertStep, SendAdvertisementEnters, AdvertiseAndReply, SendAdvertisementEnds,
         AutoAdvertise, AdvertEventDue, UnRegisterEnds
    <3> QED
      BY <1>2, <3>1 DEF ctrlptVars
  <2>2. CASE ~ (DeviceStep \/ (\E t \in Threads : AdvertStep(t)) \/ AutoAdvertise \/ AdvertEventDue \/ UnRegisterEnds)
    <3>1. UNCHANGED <<search, expiry>>
      BY <1>8, <2>2 DEF Next, vars, ctrlptVars, ClientStep, UpnpRegisterClient, SearchIsSent, ReceiverStep,
         CtrlptMsgCopies, AdvertIsReported, ReplyIsMatched, CallbackReturns, Receive, SearchStep, send_search_result, Lose
    <3> QED
      BY <1>2, <3>1
  <2> QED
    BY <2>1, <2>2
<1> QED
  BY <1>3, <1>4, <1>5, <1>6, <1>7, <1>8

(* Whatever the timer and the pool refuse, and whatever the network does:    *)
(* an announcement leaves only under the handle of a registered device.     *)
THEOREM SpecAnnouncedIsRegistered == Spec => [](TypeOK /\ AnnouncedIsRegistered)
<1>1. SsdpInv => TypeOK /\ AnnouncedIsRegistered
  BY InvIsTypeOK DEF SsdpInv, DeviceInv
<1> QED
  BY <1>1, InitEstablishesInv, NextKeepsInv, PTL DEF Spec

(* While the timer and the pool take what they are given, a device that was *)
(* advertised has its next announcement scheduled or under way until it is  *)
(* unregistered, none leaves for a device that is not registered, and every *)
(* listed search has a timeout to take it off the list.                     *)
THEOREM SpecSchedulesKept == ~ScheduleMayFail => (Spec => []SchedulesKept)
<1> SUFFICES ASSUME ~ScheduleMayFail PROVE Spec => []SchedulesKept
  OBVIOUS
<1> DEFINE Inv == SsdpInv /\ AdvertArmed /\ SearchHasTimeout
<1>1. Init => Inv
  BY InitEstablishesInv DEF Init, AdvertArmed, SearchHasTimeout
<1>2. Inv /\ [Next]_vars => Inv'
  BY NextKeepsInv, NextKeepsArmed, NextKeepsTimeouts
<1>3. Inv => SchedulesKept
  BY InvIsTypeOK DEF SsdpInv, DeviceInv, SchedulesKept
<1> QED
  BY <1>1, <1>2, <1>3, PTL DEF Spec

-------------------------------------------------------------------------------
(* What the messages name                                                   *)

(* The versions of types have one digit: AdvertiseAndReply reads only the   *)
(* last one.                                                                *)
OneDigitVersions ==
    \A d \in Descriptions : \A i \in DOMAIN d :
        /\ d[i].type # None => d[i].type.version < 10
        /\ \A s \in ToSet(d[i].services) : s.version < 10

LEMMA DeviceParts ==
    ASSUME OneDigitVersions, NEW description \in Descriptions, NEW i \in DOMAIN description, Complete(description[i])
    PROVE  /\ description[i].type \in TypesOf("device") /\ description[i].type.version < 10
           /\ \A s \in ToSet(description[i].services) : s \in TypesOf("service") /\ s.version < 10
<1>1. description \in Seq(Devices)
  BY SsdpAssumption
<1>2. description[i] \in Devices
  BY <1>1
<1>3. description[i].type \in TypesOf("device") \cup {None} /\ description[i].services \in Seq(TypesOf("service"))
  BY <1>2 DEF Devices
<1>4. \A s \in ToSet(description[i].services) : s \in TypesOf("service")
  BY <1>3 DEF ToSet
<1> QED
  BY <1>3, <1>4 DEF OneDigitVersions, Complete

(* A type is found under its own version and under an older one.            *)
LEMMA TypeIsAnswered ==
    ASSUME NEW form \in {"device", "service"}, NEW own \in TypesOf(form), own.version < 10,
           NEW asked \in TypesOf(form), asked.base = own.base, asked.version <= own.version, NEW d
    PROVE  \E location \in {"DescURL", "LowerDescURL"} :
              Reply(asked, Usn(d.udn, asked), location) \in TypeReply(asked, own, d)
<1>1. own.version \in Nat /\ asked.version \in Nat /\ own.base \in Seq(STRING) /\ asked.form = form
  BY DEF TypesOf
<1>2. OwnVersion(own) = own.version
  BY <1>1 DEF OwnVersion
<1>3. SameType(asked, own)
  BY <1>1 DEF SameType, IsPrefix
<1>4. \A location : SendReply(asked, d, location) = Reply(asked, Usn(d.udn, asked), location)
  BY <1>1 DEF SendReply, ssdp_request_type1
<1>5. CASE asked.version = own.version
  BY <1>1, <1>2, <1>3, <1>4, <1>5 DEF TypeReply
<1>6. CASE asked.version < own.version
  BY <1>1, <1>2, <1>3, <1>4, <1>6 DEF TypeReply
<1> QED
  BY <1>1, <1>5, <1>6

(* A device and its services answer for their types.                        *)
LEMMA PartIsAnswered ==
    ASSUME OneDigitVersions, NEW description \in Descriptions, NEW i \in Advertised(description),
           NEW own \in {description[i].type} \cup ToSet(description[i].services),
           NEW v \in 0..own.version
    PROVE  LET asked == [own EXCEPT !.version = v]
           IN  \E location \in {"DescURL", "LowerDescURL"} :
                  Reply(asked, Usn(description[i].udn, asked), location) \in ReplyMessages(description, asked)
<1> DEFINE d == description[i]
<1>1. i \in DOMAIN description /\ Complete(d)
  BY DEF Advertised
<1>2. PICK asked : asked = [own EXCEPT !.version = v]
  OBVIOUS
<1>3. CASE own = d.type
  <2>1. own \in TypesOf("device") /\ own.version < 10
    BY <1>1, <1>3, DeviceParts
  <2>2. asked \in TypesOf("device") /\ asked.base = own.base /\ asked.version <= own.version /\ asked.form = "device"
    BY <1>2, <2>1 DEF TypesOf
  <2>3. PICK location \in {"DescURL", "LowerDescURL"} :
            Reply(asked, Usn(d.udn, asked), location) \in TypeReply(asked, own, d)
    BY <2>1, <2>2, TypeIsAnswered
  <2>4. DeviceReplies(asked, d, i = 1) = TypeReply(asked, own, d)
    BY <1>3, <2>2 DEF DeviceReplies
  <2>5. DeviceReplies(asked, d, i = 1) \subseteq ReplyMessages(description, asked)
    BY DEF ReplyMessages
  <2> QED
    BY <1>2, <2>3, <2>4, <2>5
<1>4. CASE own \in ToSet(d.services)
  <2>1. own \in TypesOf("service") /\ own.version < 10
    BY <1>1, <1>4, DeviceParts
  <2>2. asked \in TypesOf("service") /\ asked.base = own.base /\ asked.version <= own.version /\ asked.form = "service"
    BY <1>2, <2>1 DEF TypesOf
  <2>3. PICK location \in {"DescURL", "LowerDescURL"} :
            Reply(asked, Usn(d.udn, asked), location) \in TypeReply(asked, own, d)
    BY <2>1, <2>2, TypeIsAnswered
  <2>4. TypeReply(asked, own, d) \subseteq ServiceReplies(asked, d)
    BY <1>4, <2>2 DEF ServiceReplies
  <2>5. ServiceReplies(asked, d) \subseteq ReplyMessages(description, asked)
    BY DEF ReplyMessages
  <2> QED
    BY <1>2, <2>3, <2>4, <2>5
<1> QED
  BY <1>3, <1>4

(* The announcements of a device: its UDN, the root device and its types.   *)
LEMMA Announcements ==
    ASSUME NEW description \in Descriptions, NEW m \in AliveMessages(description)
    PROVE  \E i \in Advertised(description) :
              LET d == description[i]
              IN  \/ m = Advert("ssdp:alive", Uuid(d.udn), Usn(d.udn, None), "DescURL")
                  \/ i = 1 /\ m = Advert("ssdp:alive", RootDevice, Usn(d.udn, RootDevice), "DescURL")
                  \/ \E own \in {d.type} \cup ToSet(d.services) :
                        m = Advert("ssdp:alive", own, Usn(d.udn, own), "DescURL")
<1>1. PICK i \in Advertised(description) :
          m \in DeviceAdvertisement("ssdp:alive", description[i], i = 1) \cup ServiceAdvertisement("ssdp:alive", description[i])
  BY DEF AliveMessages
<1>2. CASE m \in DeviceAdvertisement("ssdp:alive", description[i], i = 1)
  BY <1>2 DEF DeviceAdvertisement
<1>3. CASE m \in ServiceAdvertisement("ssdp:alive", description[i])
  BY <1>3 DEF ServiceAdvertisement
<1> QED
  BY <1>1, <1>2, <1>3

(* A search for the target of an announcement is answered with it.          *)
LEMMA AnnouncementIsAnswered ==
    ASSUME OneDigitVersions, NEW description \in Descriptions, NEW m \in AliveMessages(description)
    PROVE  \E location \in {"DescURL", "LowerDescURL"} :
              /\ Reply(m.nt, m.usn, location) \in ReplyMessages(description, m.nt)
              /\ ReplyMatches(m.nt, m.nt)
<1>1. PICK i \in Advertised(description) :
              LET d == description[i]
              IN  \/ m = Advert("ssdp:alive", Uuid(d.udn), Usn(d.udn, None), "DescURL")
                  \/ i = 1 /\ m = Advert("ssdp:alive", RootDevice, Usn(d.udn, RootDevice), "DescURL")
                  \/ \E own \in {d.type} \cup ToSet(d.services) :
                        m = Advert("ssdp:alive", own, Usn(d.udn, own), "DescURL")
  BY Announcements
<1> DEFINE d == description[i]
<1>2. i \in DOMAIN description /\ Complete(d)
  BY DEF Advertised
<1>3. \A st : DeviceReplies(st, d, i = 1) \subseteq ReplyMessages(description, st)
  BY DEF ReplyMessages
<1>4. CASE m = Advert("ssdp:alive", Uuid(d.udn), Usn(d.udn, None), "DescURL")
  <2>1. m.nt = Uuid(d.udn) /\ m.usn = Usn(d.udn, None)
    BY <1>4 DEF Advert
  <2>2. m.nt.form = "uuid" /\ m.nt.udn = d.udn
    BY <2>1 DEF Uuid
  <2>3. SendReply(m.nt, d, "DescURL") = Reply(m.nt, m.usn, "DescURL")
    <3>1. m.nt # None
      BY NoneAssumption
    <3> QED
      BY <2>1, <2>2, <3>1 DEF SendReply, ssdp_request_type1
  <2>4. Reply(m.nt, m.usn, "DescURL") \in DeviceReplies(m.nt, d, i = 1)
    BY <2>2, <2>3 DEF DeviceReplies
  <2>5. ReplyMatches(m.nt, m.nt)
    BY <2>2 DEF ReplyMatches
  <2> QED
    BY <1>3, <2>4, <2>5
<1>5. CASE i = 1 /\ m = Advert("ssdp:alive", RootDevice, Usn(d.udn, RootDevice), "DescURL")
  <2>1. m.nt = RootDevice /\ m.usn = Usn(d.udn, RootDevice) /\ m.nt.form = "rootdevice" /\ RootDevice.form = "rootdevice"
    BY <1>5 DEF Advert, RootDevice
  <2>2. SendReply(RootDevice, d, "DescURL") = Reply(m.nt, m.usn, "DescURL")
    BY <2>1 DEF SendReply, ssdp_request_type1
  <2>3. Reply(m.nt, m.usn, "DescURL") \in DeviceReplies(m.nt, d, i = 1)
    BY <1>5, <2>1, <2>2 DEF DeviceReplies
  <2>4. ReplyMatches(m.nt, m.nt)
    BY <2>1 DEF ReplyMatches
  <2> QED
    BY <1>3, <2>3, <2>4
<1>6. ASSUME NEW own \in {d.type} \cup ToSet(d.services), m = Advert("ssdp:alive", own, Usn(d.udn, own), "DescURL")
      PROVE  \E location \in {"DescURL", "LowerDescURL"} :
                /\ Reply(m.nt, m.usn, location) \in ReplyMessages(description, m.nt)
                /\ ReplyMatches(m.nt, m.nt)
  <2>1. m.nt = own /\ m.usn = Usn(d.udn, own)
    BY <1>6 DEF Advert
  <2>2. own \in TypesOf("device") \cup TypesOf("service")
    BY <1>2, DeviceParts
  <2>3. own.version \in Nat /\ [own EXCEPT !.version = own.version] = own /\ own.form \in {"device", "service"}
    BY <2>2 DEF TypesOf
  <2>4. \E location \in {"DescURL", "LowerDescURL"} : Reply(own, Usn(d.udn, own), location) \in ReplyMessages(description, own)
    <3>1. PICK v \in 0..own.version : v = own.version
      BY <2>3
    <3>2. PICK asked : asked = [own EXCEPT !.version = v]
      OBVIOUS
    <3>3. \E location \in {"DescURL", "LowerDescURL"} :
             Reply(asked, Usn(d.udn, asked), location) \in ReplyMessages(description, asked)
      BY <3>2, PartIsAnswered
    <3> QED
      BY <2>3, <3>1, <3>2, <3>3
  <2>5. ReplyMatches(own, own)
    BY <2>3 DEF ReplyMatches, BeginAlike
  <2> QED
    BY <2>1, <2>4, <2>5
<1> QED
  BY <1>1, <1>4, <1>5, <1>6

LEMMA Found == SsdpInv /\ OneDigitVersions => AnnouncedIsFound
<1> SUFFICES ASSUME SsdpInv, OneDigitVersions, desc # None, NEW m \in AliveMessages(desc)
             PROVE  \E r \in ReplyMessages(desc, m.nt) :
                       ValidReply(r) /\ ReplyMatches(m.nt, r.nt) /\ Discovery(r) = Discovery(m)
  BY DEF AnnouncedIsFound
<1>1. desc \in Descriptions
  BY DEF SsdpInv, DeviceInv
<1>2. PICK location \in {"DescURL", "LowerDescURL"} :
          Reply(m.nt, m.usn, location) \in ReplyMessages(desc, m.nt) /\ ReplyMatches(m.nt, m.nt)
  BY <1>1, AnnouncementIsAnswered
<1>3. PICK r : r = Reply(m.nt, m.usn, location)
  OBVIOUS
<1>4. r.nt = m.nt /\ r.usn = m.usn /\ r.location = location
  BY <1>3 DEF Reply
<1>5. m.nt # None /\ m.usn # None /\ location # None
  BY <1>1, NoneAssumption
<1> QED
  BY <1>2, <1>3, <1>4, <1>5 DEF ValidReply, Discovery

(* Each packet of a byebye is that of an announcement.                      *)
LEMMA SameNames ==
    ASSUME NEW d, NEW isRoot \in BOOLEAN
    PROVE  /\ \A m \in DeviceAdvertisement("ssdp:alive", d, isRoot) \cup ServiceAdvertisement("ssdp:alive", d) :
                  \E n \in DeviceShutdown(d, isRoot) \cup ServiceShutdown(d) : n.nt = m.nt /\ n.usn = m.usn
           /\ \A n \in DeviceShutdown(d, isRoot) \cup ServiceShutdown(d) :
                  \E m \in DeviceAdvertisement("ssdp:alive", d, isRoot) \cup ServiceAdvertisement("ssdp:alive", d) :
                      n.nt = m.nt /\ n.usn = m.usn
<1>1. \A nts, nt, usn, location : Advert(nts, nt, usn, location).nt = nt /\ Advert(nts, nt, usn, location).usn = usn
  BY DEF Advert
<1> QED
  BY <1>1 DEF DeviceAdvertisement, ServiceAdvertisement, DeviceShutdown, ServiceShutdown

LEMMA TakenBack == ByebyeTakesAllBack
<1> DEFINE Alive == AliveMessages(desc)
           Byebye == ByebyeMessages(desc)
<1>1. ASSUME NEW m \in Alive
      PROVE  \E n \in Byebye : n.nt = m.nt /\ n.usn = m.usn
  <2>1. PICK i \in Advertised(desc) :
            m \in DeviceAdvertisement("ssdp:alive", desc[i], i = 1) \cup ServiceAdvertisement("ssdp:alive", desc[i])
    BY DEF AliveMessages
  <2>2. \E n \in DeviceShutdown(desc[i], i = 1) \cup ServiceShutdown(desc[i]) : n.nt = m.nt /\ n.usn = m.usn
    BY <2>1, SameNames
  <2> QED
    BY <2>2 DEF ByebyeMessages
<1>2. ASSUME NEW n \in Byebye
      PROVE  \E m \in Alive : n.nt = m.nt /\ n.usn = m.usn
  <2>1. PICK i \in Advertised(desc) : n \in DeviceShutdown(desc[i], i = 1) \cup ServiceShutdown(desc[i])
    BY DEF ByebyeMessages
  <2>2. \E m \in DeviceAdvertisement("ssdp:alive", desc[i], i = 1) \cup ServiceAdvertisement("ssdp:alive", desc[i]) :
            n.nt = m.nt /\ n.usn = m.usn
    <3>1. PICK isRoot \in BOOLEAN : isRoot = (i = 1)
      OBVIOUS
    <3>2. n \in DeviceShutdown(desc[i], isRoot) \cup ServiceShutdown(desc[i])
      BY <2>1, <3>1, Zenon
    <3>3. PICK m \in DeviceAdvertisement("ssdp:alive", desc[i], isRoot) \cup ServiceAdvertisement("ssdp:alive", desc[i]) :
              n.nt = m.nt /\ n.usn = m.usn
      BY <3>2, SameNames
    <3> QED
      BY <3>1, <3>3, Zenon
  <2> QED
    BY <2>2 DEF AliveMessages
<1> HIDE DEF Alive, Byebye
<1>3. {<<m.nt, m.usn>> : m \in Alive} = {<<m.nt, m.usn>> : m \in Byebye}
  BY <1>1, <1>2
<1> QED
  BY <1>3 DEF ByebyeTakesAllBack, Alive, Byebye

LEMMA OldFound == SsdpInv /\ OneDigitVersions => OlderIsServed
<1> SUFFICES ASSUME SsdpInv, OneDigitVersions, desc # None, NEW i \in {j \in DOMAIN desc : Complete(desc[j])},
                    NEW own \in {desc[i].type} \cup ToSet(desc[i].services), NEW v \in 1..own.version
             PROVE  \E r \in ReplyMessages(desc, [own EXCEPT !.version = v]) :
                       /\ r.nt = [own EXCEPT !.version = v]
                       /\ r.usn = Usn(desc[i].udn, [own EXCEPT !.version = v])
  BY DEF OlderIsServed
<1>1. desc \in Descriptions /\ i \in Advertised(desc)
  BY DEF SsdpInv, DeviceInv, Advertised
<1>2. v \in 0..own.version
  OBVIOUS
<1>3. PICK asked : asked = [own EXCEPT !.version = v]
  OBVIOUS
<1>4. PICK location \in {"DescURL", "LowerDescURL"} :
          Reply(asked, Usn(desc[i].udn, asked), location) \in ReplyMessages(desc, asked)
  BY <1>1, <1>2, <1>3, PartIsAnswered
<1> QED
  BY <1>3, <1>4 DEF Reply

(* Whatever a registered device announces, a search for it finds: also one  *)
(* for an older version, and a byebye takes all of it back.  Versions have  *)
(* one digit.                                                               *)
THEOREM SpecMessagesAgree == OneDigitVersions => (Spec => []MessagesAgree)
<1> SUFFICES ASSUME OneDigitVersions PROVE Spec => []MessagesAgree
  OBVIOUS
<1>1. SsdpInv => MessagesAgree
  BY Found, TakenBack, OldFound DEF MessagesAgree
<1> QED
  BY <1>1, InitEstablishesInv, NextKeepsInv, PTL DEF Spec
=============================================================================
