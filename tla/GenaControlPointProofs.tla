------------------------ MODULE GenaControlPointProofs ------------------------
(***************************************************************************)
(* The subscriptions of a control point for any number of threads, timer   *)
(* events, subscriptions and publishers, whatever fails: a subscription    *)
(* that can expire has somebody who will renew it, a failure that was      *)
(* reported is one, and the first event is not turned away while the       *)
(* answer to its subscription is under way.                                *)
(*                                                                         *)
(* With a reliable network and timer, the list, the publishers and the     *)
(* timers agree (SpecListSound), by ListInv: the two sides differ only in  *)
(* what a call under way is about to settle.                               *)
(***************************************************************************)
EXTENDS GenaControlPoint, TLAPS

-------------------------------------------------------------------------------
(* The inductive invariant                                                  *)

Call == [op : Operations, at : Places, sid : Sids \cup {NoSid},
         actual : ActualSids \cup {NoActualSid}, ok : BOOLEAN, timed : BOOLEAN, seq : 0..1]

(* What thread t can be doing.                                              *)
Fits(t, c) ==
    /\ c.op = "none" => c = NoCall
    /\ c.op \in {"subscribe", "unsubscribe", "unregister"} => t \in Apps
    /\ c.op = "renew" => t \in Apps \cup Events
    /\ c.op = "notify" => t \in Notifiers /\ c.actual \in ActualSids
    /\ c.op \in {"renew", "unsubscribe"} => c.sid \in Sids
    /\ c.op = "renew" => c.at \in {"start", "request", "answer", "finish", "report", "callback"}
    /\ c.op = "renew" /\ c.at \in {"request", "answer", "finish"} => c.actual \in ActualSids
    /\ c.op = "subscribe" => c.at \in {"lock", "request", "answer", "finish"}
    /\ c.op = "subscribe" /\ c.at \in {"lock", "request"} => c.actual = NoActualSid
    /\ c.op = "subscribe" /\ c.at = "answer" => c.actual \in ActualSids
    /\ c.op = "subscribe" /\ c.at = "finish" /\ c.ok => c.actual \in ActualSids

(* The call is inside the SubscribeLock.                                    *)
Inside(c) == c.op = "subscribe" /\ c.at \in {"request", "answer", "finish"}

ThreadInv ==
    /\ call \in [Actors -> Call]
    /\ \A t \in Actors : Fits(t, call[t])
    /\ subscribeLock \in Apps \cup {NoOne}
    /\ \A t \in Apps : Inside(call[t]) => subscribeLock = t
    /\ active \subseteq ActualSids /\ greeted \subseteq ActualSids

EntryInv ==
    /\ registered \in BOOLEAN
    /\ subs \subseteq Sids
    /\ ~registered => subs = {}
    /\ actualSID \in [Sids -> ActualSids \cup {NoActualSid}]
    /\ \A s \in subs : actualSID[s] \in ActualSids
    /\ renewEventId \in [Sids -> Events \cup {NoEvent}]
    /\ deleted \subseteq Sids /\ endless \subseteq Sids
    /\ timer \in [Events -> Sids \cup {NoSid}]

(* A timer event that is set has no job yet, and is removed by no other     *)
(* subscription.                                                            *)
EventInv ==
    /\ \A e \in Events : timer[e] # NoSid => Idle(e)
    /\ \A e \in Events, s \in Sids : renewEventId[s] = e /\ timer[e] # NoSid => timer[e] = s

(* The failure of a renewal is reported of a subscription that is gone.     *)
GoneInv ==
    \A e \in Events : call[e].op = "renew" /\ call[e].at \in {"report", "callback"} => call[e].sid \notin subs

ControlPointInv == ThreadInv /\ EntryInv /\ EventInv /\ RenewalArmed /\ GoneInv

-------------------------------------------------------------------------------
(* Steps of one thread                                                      *)

RenewingCall(c, s) == c.op = "renew" /\ c.sid = s /\ c.at \in {"start", "request", "answer", "finish"}

(* Thread t goes on to c, which keeps the SubscribeLock in order.           *)
GoesOn(t, c) ==
    /\ c \in Call /\ Fits(t, c) /\ Set(t, c)
    /\ subscribeLock' \in Apps \cup {NoOne}
    /\ \A u \in Apps : Inside(call'[u]) => subscribeLock' = u
    /\ active' \subseteq ActualSids /\ greeted' \subseteq ActualSids

LEMMA CallChanged ==
    ASSUME ThreadInv, NEW t \in Actors, NEW c, GoesOn(t, c)
    PROVE  /\ call'[t] = c
           /\ \A u \in Actors \ {t} : call'[u] = call[u]
           /\ ThreadInv'
<1>1. call' = [call EXCEPT ![t] = c] /\ c \in Call /\ Fits(t, c)
  BY DEF GoesOn, Set
<1>2. call'[t] = c /\ \A u \in Actors \ {t} : call'[u] = call[u]
  BY <1>1 DEF ThreadInv
<1>3. call' \in [Actors -> Call]
  BY <1>1 DEF ThreadInv
<1>4. \A u \in Actors : Fits(u, call'[u])
  BY <1>1, <1>2 DEF ThreadInv
<1>5. \A u \in Actors : Fits(u, call[u])'
  BY <1>4 DEF Fits, NoCall
<1>6. \A u \in Apps : Inside(call[u])' => subscribeLock' = u
  BY DEF GoesOn, Inside
<1> QED
  BY <1>2, <1>3, <1>5, <1>6 DEF ThreadInv, GoesOn

(* Nothing but the thread moves, and it goes on renewing what it renews.    *)
LEMMA ThreadMoves ==
    ASSUME ControlPointInv, NEW t \in Actors, NEW c, GoesOn(t, c), UNCHANGED <<registered, subVars>>,
           t \in Events => ~Idle(t),
           \A s \in subs : RenewingCall(call[t], s) => RenewingCall(c, s),
           t \in Events /\ c.op = "renew" /\ c.at \in {"report", "callback"} => c.sid \notin subs
    PROVE  ControlPointInv'
<1>1. call'[t] = c /\ (\A u \in Actors \ {t} : call'[u] = call[u]) /\ ThreadInv'
  BY CallChanged DEF ControlPointInv
<1>2. EntryInv'
  BY DEF ControlPointInv, EntryInv, subVars
<1>3. EventInv'
  BY <1>1 DEF ControlPointInv, EventInv, Idle, subVars, Actors, NoCall
<1>4. \A u \in Apps \cup Events, s \in subs : Renewing(u, s) => Renewing(u, s)'
  BY <1>1 DEF Renewing, RenewingCall, Actors
<1>5. RenewalArmed'
  BY <1>4 DEF ControlPointInv, RenewalArmed, subVars
<1>6. GoneInv'
  BY <1>1 DEF ControlPointInv, GoneInv, subVars, Actors
<1> QED
  BY <1>1, <1>2, <1>3, <1>5, <1>6 DEF ControlPointInv

(* Removing the timer event of one subscription leaves those of the others. *)
LEMMA TimersLeft ==
    ASSUME EntryInv, EventInv, NEW s \in Sids
    PROVE  /\ WithoutTimer(s) \in [Events -> Sids \cup {NoSid}]
           /\ \A e \in Events : WithoutTimer(s)[e] # NoSid => WithoutTimer(s)[e] = timer[e]
           /\ \A e \in Events, x \in Sids \ {s} : timer[e] = x => WithoutTimer(s)[e] = x
  BY GenaControlPointAssumption DEF WithoutTimer, EntryInv, EventInv

(* A subscription leaves the list.                                          *)
LEMMA EntryRemoved ==
    ASSUME ControlPointInv, NEW t \in Actors, NEW c, GoesOn(t, c), registered' = registered,
           NEW s \in Sids, RemoveClientSub(s),
           t \in Events => ~Idle(t),
           \A x \in subs \ {s} : RenewingCall(call[t], x) => RenewingCall(c, x),
           t \in Events /\ c.op = "renew" /\ c.at \in {"report", "callback"} => c.sid \notin subs \ {s}
    PROVE  ControlPointInv'
<1>1. call'[t] = c /\ (\A u \in Actors \ {t} : call'[u] = call[u]) /\ ThreadInv'
  BY CallChanged DEF ControlPointInv
<1>2. /\ subs' = subs \ {s} /\ actualSID' = [actualSID EXCEPT ![s] = NoActualSid]
      /\ renewEventId' = [renewEventId EXCEPT ![s] = NoEvent] /\ endless' = endless \ {s}
      /\ timer' = WithoutTimer(s) /\ deleted' = deleted
  BY DEF RemoveClientSub
<1>3. /\ timer' \in [Events -> Sids \cup {NoSid}]
      /\ \A e \in Events : timer'[e] # NoSid => timer'[e] = timer[e]
      /\ \A e \in Events, x \in Sids \ {s} : timer[e] = x => timer'[e] = x
  BY <1>2, TimersLeft DEF ControlPointInv
<1>4. EntryInv'
  BY <1>2, <1>3 DEF ControlPointInv, EntryInv
<1>5. EventInv'
  <2>1. \A e \in Events : timer'[e] # NoSid => Idle(e)'
    BY <1>1, <1>3 DEF ControlPointInv, EventInv, Idle, Actors, NoCall
  <2>2. \A e \in Events, x \in Sids : renewEventId'[x] = e => renewEventId[x] = e
    BY <1>2, GenaControlPointAssumption DEF ControlPointInv, EntryInv
  <2>3. \A e \in Events, x \in Sids : renewEventId'[x] = e /\ timer'[e] # NoSid => timer'[e] = x
    BY <1>3, <2>2 DEF ControlPointInv, EventInv
  <2> QED
    BY <2>1, <2>3 DEF EventInv
<1>6. RenewalArmed'
  <2> SUFFICES ASSUME NEW x \in subs' \ (endless' \cup deleted')
               PROVE  \/ \E e \in Events : timer'[e] = x
                      \/ \E u \in Apps \cup Events : Renewing(u, x)'
    BY DEF RenewalArmed
  <2>1. x \in subs \ (endless \cup deleted) /\ x # s /\ x \in Sids
    BY <1>2 DEF ControlPointInv, EntryInv
  <2>2. CASE \E e \in Events : timer[e] = x
    BY <1>3, <2>1, <2>2
  <2>3. CASE \E u \in Apps \cup Events : Renewing(u, x)
    BY <1>1, <2>1, <2>3 DEF Renewing, RenewingCall, Actors
  <2> QED
    BY <2>1, <2>2, <2>3 DEF ControlPointInv, RenewalArmed
<1>7. GoneInv'
  BY <1>1, <1>2 DEF ControlPointInv, GoneInv, Actors
<1> QED
  BY <1>1, <1>4, <1>5, <1>6, <1>7 DEF ControlPointInv

(* A subscription enters the list or stays in it, with a new expiry.        *)
LEMMA EntryScheduled ==
    ASSUME ControlPointInv, NEW t \in Actors, NEW c, GoesOn(t, c), registered, registered' = registered,
           NEW s \in Sids, NEW a \in ActualSids, NEW timed \in BOOLEAN, ScheduleGenaAutoRenew(s, a, timed),
           t \in Events => ~Idle(t),
           \A x \in subs \ {s} : RenewingCall(call[t], x) => RenewingCall(c, x),
           c.op = "none",
           \A e \in Events : call[e].op = "renew" /\ call[e].at \in {"report", "callback"} => call[e].sid # s
    PROVE  ControlPointInv'
<1>1. call'[t] = c /\ (\A u \in Actors \ {t} : call'[u] = call[u]) /\ ThreadInv'
  BY CallChanged DEF ControlPointInv
<1>2. /\ subs' = subs \cup {s} /\ actualSID' = [actualSID EXCEPT ![s] = a] /\ deleted' = deleted
      /\ endless' = IF timed THEN endless \ {s} ELSE endless \cup {s}
  BY DEF ScheduleGenaAutoRenew
<1>3. \/ ~timed /\ UNCHANGED <<renewEventId, timer>>
      \/ timed /\ \E e \in Events :
            /\ FreeEvent(e)
            /\ timer' = [timer EXCEPT ![e] = s]
            /\ renewEventId' = [renewEventId EXCEPT ![s] = e]
  BY DEF ScheduleGenaAutoRenew
<1>4. EntryInv'
  BY <1>2, <1>3 DEF ControlPointInv, EntryInv
<1>5. EventInv' /\ \A e \in Events, x \in Sids : timer[e] = x => timer'[e] = x
  <2>1. CASE UNCHANGED <<renewEventId, timer>>
    BY <1>1, <2>1 DEF ControlPointInv, EventInv, Idle, Actors, NoCall
  <2>2. ASSUME NEW e \in Events, FreeEvent(e), timer' = [timer EXCEPT ![e] = s],
               renewEventId' = [renewEventId EXCEPT ![s] = e]
        PROVE  EventInv' /\ \A f \in Events, x \in Sids : timer[f] = x => timer'[f] = x
    <3>1. timer[e] = NoSid /\ Idle(e) /\ (\A x \in Sids : renewEventId[x] # e) /\ e # t
      BY <2>2 DEF FreeEvent
    <3>2. timer'[e] = s /\ \A f \in Events \ {e} : timer'[f] = timer[f]
      BY <2>2 DEF ControlPointInv, EntryInv
    <3>3. renewEventId'[s] = e /\ \A x \in Sids \ {s} : renewEventId'[x] = renewEventId[x]
      BY <2>2 DEF ControlPointInv, EntryInv
    <3>4. \A f \in Events : timer'[f] # NoSid => Idle(f)'
      BY <1>1, <3>1, <3>2 DEF ControlPointInv, EventInv, Idle, Actors, NoCall
    <3>5. \A f \in Events, x \in Sids : renewEventId'[x] = f /\ timer'[f] # NoSid => timer'[f] = x
      BY <3>1, <3>2, <3>3 DEF ControlPointInv, EventInv
    <3>6. \A f \in Events, x \in Sids : timer[f] = x => timer'[f] = x
      BY <3>1, <3>2, GenaControlPointAssumption
    <3> QED
      BY <3>4, <3>5, <3>6 DEF EventInv
  <2> QED
    BY <1>3, <2>1, <2>2
<1>6. RenewalArmed'
  <2> SUFFICES ASSUME NEW x \in subs' \ (endless' \cup deleted')
               PROVE  \/ \E e \in Events : timer'[e] = x
                      \/ \E u \in Apps \cup Events : Renewing(u, x)'
    BY DEF RenewalArmed
  <2>1. CASE x = s
    <3>1. timed
      BY <1>2, <2>1
    <3>2. \E e \in Events : timer'[e] = s
      BY <1>3, <3>1 DEF ControlPointInv, EntryInv
    <3> QED
      BY <2>1, <3>2
  <2>2. CASE x # s
    <3>1. x \in subs \ (endless \cup deleted) /\ x \in Sids
      BY <1>2, <2>2 DEF ControlPointInv, EntryInv
    <3>2. CASE \E e \in Events : timer[e] = x
      BY <1>5, <3>1, <3>2
    <3>3. CASE \E u \in Apps \cup Events : Renewing(u, x)
      BY <1>1, <2>2, <3>1, <3>3 DEF Renewing, RenewingCall, Actors
    <3> QED
      BY <3>1, <3>2, <3>3 DEF ControlPointInv, RenewalArmed
  <2> QED
    BY <2>1, <2>2
<1>7. GoneInv'
  BY <1>1, <1>2 DEF ControlPointInv, GoneInv, Actors
<1> QED
  BY <1>1, <1>4, <1>5, <1>6, <1>7 DEF ControlPointInv

(* A thread starts to renew a subscription, whose timer event goes.         *)
LEMMA RenewalStarts ==
    ASSUME ControlPointInv, NEW t \in Apps \cup Events, NEW s \in subs, RenewRequest(t, s),
           Idle(t) \/ (call[t].op = "renew" /\ call[t].sid = s), t \in Events => ~Idle(t)
    PROVE  ControlPointInv'
<1>1. PICK c : c = [NoCall EXCEPT !.op = "renew", !.at = "request", !.sid = s, !.actual = actualSID[s]]
  OBVIOUS
<1>2. /\ timer' = WithoutTimer(s) /\ renewEventId' = [renewEventId EXCEPT ![s] = NoEvent]
      /\ Set(t, c) /\ UNCHANGED <<registered, subs, actualSID, deleted, endless, subscribeLock, active, greeted>>
  BY <1>1 DEF RenewRequest, publisherVars
<1>3. s \in Sids /\ actualSID[s] \in ActualSids /\ t \in Actors
  BY DEF ControlPointInv, EntryInv, Actors
<1>4. c.op = "renew" /\ c.at = "request" /\ c.sid = s /\ c.actual = actualSID[s] /\ c \in Call
  <2>1. c = [op |-> "renew", at |-> "request", sid |-> s, actual |-> actualSID[s],
             ok |-> FALSE, timed |-> FALSE, seq |-> 0]
    BY <1>1 DEF NoCall
  <2>2. c \in Call
    BY <1>3, <2>1 DEF Call, Operations, Places
  <2> QED
    BY <2>1, <2>2
<1>5. call' = [call EXCEPT ![t] = c]
  BY <1>2 DEF Set
<1>6. GoesOn(t, c)
  <2>1. Fits(t, c)
    BY <1>3, <1>4 DEF Fits
  <2>2. \A u \in Apps : Inside(call'[u]) => subscribeLock' = u
    BY <1>2, <1>4, <1>5 DEF Inside, ControlPointInv, ThreadInv, Actors
  <2> QED
    BY <1>2, <1>4, <2>1, <2>2 DEF GoesOn, ControlPointInv, ThreadInv
<1>7. call'[t] = c /\ (\A u \in Actors \ {t} : call'[u] = call[u]) /\ ThreadInv'
  BY <1>3, <1>6, CallChanged DEF ControlPointInv
<1>8. /\ timer' \in [Events -> Sids \cup {NoSid}]
      /\ \A e \in Events : timer'[e] # NoSid => timer'[e] = timer[e]
      /\ \A e \in Events, x \in Sids \ {s} : timer[e] = x => timer'[e] = x
  BY <1>2, <1>3, TimersLeft DEF ControlPointInv
<1>9. EntryInv'
  BY <1>2, <1>8 DEF ControlPointInv, EntryInv
<1>10. EventInv'
  <2>1. \A e \in Events : timer'[e] # NoSid => Idle(e)'
    BY <1>7, <1>8 DEF ControlPointInv, EventInv, Idle, Actors, NoCall
  <2>2. \A e \in Events, x \in Sids : renewEventId'[x] = e => renewEventId[x] = e
    BY <1>2, GenaControlPointAssumption DEF ControlPointInv, EntryInv
  <2>3. \A e \in Events, x \in Sids : renewEventId'[x] = e /\ timer'[e] # NoSid => timer'[e] = x
    BY <1>8, <2>2 DEF ControlPointInv, EventInv
  <2> QED
    BY <2>1, <2>3 DEF EventInv
<1>11. RenewalArmed'
  <2> SUFFICES ASSUME NEW x \in subs' \ (endless' \cup deleted')
               PROVE  \/ \E e \in Events : timer'[e] = x
                      \/ \E u \in Apps \cup Events : Renewing(u, x)'
    BY DEF RenewalArmed
  <2>1. x \in subs \ (endless \cup deleted) /\ x \in Sids
    BY <1>2 DEF ControlPointInv, EntryInv
  <2>2. CASE x = s
    BY <1>4, <1>7, <2>2 DEF Renewing
  <2>3. CASE x # s /\ \E e \in Events : timer[e] = x
    BY <1>8, <2>1, <2>3
  <2>4. CASE x # s /\ \E u \in Apps \cup Events : Renewing(u, x)
    BY <1>7, <2>1, <2>4 DEF Renewing, Actors, Idle, NoCall
  <2> QED
    BY <2>1, <2>2, <2>3, <2>4 DEF ControlPointInv, RenewalArmed
<1>12. GoneInv'
  BY <1>2, <1>4, <1>7 DEF ControlPointInv, GoneInv, Actors
<1> QED
  BY <1>7, <1>9, <1>10, <1>11, <1>12 DEF ControlPointInv

LEMMA GoesOnOutside ==
    ASSUME ThreadInv, NEW t \in Actors, NEW c \in Call, Fits(t, c), Set(t, c), subscribeLock' = subscribeLock,
           Inside(c) => Inside(call[t]), active' \subseteq ActualSids, greeted' \subseteq ActualSids
    PROVE  GoesOn(t, c)
<1>1. call' = [call EXCEPT ![t] = c]
  BY DEF Set
<1>2. \A u \in Actors : Inside(call'[u]) => Inside(call[u])
  BY <1>1 DEF ThreadInv
<1>3. \A u \in Apps : Inside(call'[u]) => subscribeLock' = u
  BY <1>2 DEF ThreadInv, Actors
<1> QED
  BY <1>3 DEF GoesOn, ThreadInv

(* As ThreadMoves, with the SubscribeLock left alone.                       *)
LEMMA ThreadMovesOutside ==
    ASSUME ControlPointInv, NEW t \in Actors, NEW c \in Call, Fits(t, c), Set(t, c),
           UNCHANGED <<registered, subVars, subscribeLock>>, active' \subseteq ActualSids, greeted' \subseteq ActualSids,
           Inside(c) => Inside(call[t]), t \in Events => ~Idle(t),
           \A s \in subs : RenewingCall(call[t], s) => RenewingCall(c, s),
           t \in Events /\ c.op = "renew" /\ c.at \in {"report", "callback"} => c.sid \notin subs
    PROVE  ControlPointInv'
<1>1. GoesOn(t, c)
  BY GoesOnOutside DEF ControlPointInv
<1> QED
  BY <1>1, ThreadMoves

LEMMA NoCallFits ==
    ASSUME NEW t \in Actors
    PROVE  NoCall \in Call /\ Fits(t, NoCall) /\ ~Inside(NoCall) /\ NoCall.op = "none" /\ NoCall.at = "idle"
           /\ \A s : ~RenewingCall(NoCall, s)
  BY DEF NoCall, Call, Operations, Places, Fits, Inside, RenewingCall

(* A call ends without having changed the list.                             *)
LEMMA CallEnds ==
    ASSUME ControlPointInv, NEW t \in Actors, Ends(t), UNCHANGED <<registered, subVars, subscribeLock>>,
           active' \subseteq ActualSids, greeted' \subseteq ActualSids, ~Idle(t),
           \A s \in subs : ~RenewingCall(call[t], s)
    PROVE  ControlPointInv'
<1>1. PICK c : c = NoCall
  OBVIOUS
<1>2. c \in Call /\ Fits(t, c) /\ ~Inside(c) /\ c.op = "none" /\ Set(t, c)
  BY <1>1, NoCallFits DEF Ends
<1> QED
  BY <1>2, ThreadMovesOutside

-------------------------------------------------------------------------------
(* Every step preserves the invariant                                       *)

LEMMA NetworkKeepsInv ==
    ASSUME ControlPointInv, NEW t \in Actors, Network(t)
    PROVE  ControlPointInv'
<1>1. call[t] \in Call /\ Fits(t, call[t]) /\ active \subseteq ActualSids /\ greeted \subseteq ActualSids
  BY DEF ControlPointInv, ThreadInv
<1>2. UNCHANGED <<registered, subVars, subscribeLock>> /\ active' \subseteq ActualSids /\ greeted' \subseteq ActualSids
  BY <1>1 DEF Network, PublisherSubscribes, PublisherRenews, PublisherUnsubscribes, AnswerArrives, RequestFails,
     publisherVars
<1>3. \E c \in Call : /\ Set(t, c) /\ c.op = call[t].op /\ c.sid = call[t].sid /\ c.at \in {"answer", "finish"}
                      /\ Fits(t, c)
  <2>1. CASE PublisherSubscribes(t)
    <3>1. PICK a \in ActualSids, timed \in BOOLEAN :
             Set(t, [call[t] EXCEPT !.at = "answer", !.actual = a, !.timed = timed])
      BY <2>1 DEF PublisherSubscribes
    <3>2. PICK c : c = [call[t] EXCEPT !.at = "answer", !.actual = a, !.timed = timed]
      OBVIOUS
    <3>3. c \in Call /\ c.op = call[t].op /\ c.sid = call[t].sid /\ c.at = "answer" /\ c.actual = a
      BY <1>1, <3>2 DEF Call, Places
    <3>4. Fits(t, c)
      BY <1>1, <2>1, <3>3 DEF Fits, PublisherSubscribes, Is
    <3> QED
      BY <3>1, <3>2, <3>3, <3>4
  <2>2. CASE PublisherRenews(t)
    <3>1. PICK timed \in BOOLEAN : Set(t, [call[t] EXCEPT !.at = "answer", !.timed = timed])
      BY <2>2 DEF PublisherRenews
    <3>2. PICK c : c = [call[t] EXCEPT !.at = "answer", !.timed = timed]
      OBVIOUS
    <3>3. c \in Call /\ c.op = call[t].op /\ c.sid = call[t].sid /\ c.at = "answer" /\ c.actual = call[t].actual
      BY <1>1, <3>2 DEF Call, Places
    <3>4. Fits(t, c)
      BY <1>1, <2>2, <3>3 DEF Fits, PublisherRenews, Is
    <3> QED
      BY <3>1, <3>2, <3>3, <3>4
  <2>3. CASE PublisherUnsubscribes(t)
    <3>1. PICK c : c = [call[t] EXCEPT !.at = "answer"]
      OBVIOUS
    <3>2. c \in Call /\ c.op = call[t].op /\ c.sid = call[t].sid /\ c.at = "answer" /\ c.actual = call[t].actual
      BY <1>1, <3>1 DEF Call, Places
    <3>3. Fits(t, c)
      BY <1>1, <2>3, <3>2 DEF Fits, PublisherUnsubscribes, Is
    <3> QED
      BY <2>3, <3>1, <3>2, <3>3 DEF PublisherUnsubscribes, Moves
  <2>4. CASE AnswerArrives(t)
    <3>1. PICK c : c = [call[t] EXCEPT !.at = "finish", !.ok = TRUE]
      OBVIOUS
    <3>2. c \in Call /\ c.op = call[t].op /\ c.sid = call[t].sid /\ c.at = "finish" /\ c.actual = call[t].actual
      BY <1>1, <3>1 DEF Call, Places
    <3>3. call[t].op # "none"
      BY <1>1, <2>4 DEF Fits, AnswerArrives, NoCall
    <3>4. Fits(t, c)
      BY <1>1, <2>4, <3>2, <3>3 DEF Fits, AnswerArrives
    <3> QED
      BY <2>4, <3>1, <3>2, <3>4 DEF AnswerArrives
  <2>5. CASE RequestFails(t)
    <3>1. PICK c : c = [call[t] EXCEPT !.at = "finish", !.ok = FALSE]
      OBVIOUS
    <3>2. c \in Call /\ c.op = call[t].op /\ c.sid = call[t].sid /\ c.at = "finish" /\ c.actual = call[t].actual /\ ~c.ok
      BY <1>1, <3>1 DEF Call, Places
    <3>3. call[t].at \in {"request", "answer"} /\ call[t].op # "none"
      BY <1>1, <2>5 DEF Fits, RequestFails, NoCall, Is
    <3>4. Fits(t, c)
      BY <1>1, <3>2, <3>3 DEF Fits
    <3> QED
      BY <2>5, <3>1, <3>2, <3>4 DEF RequestFails
  <2> QED
    BY <2>1, <2>2, <2>3, <2>4, <2>5 DEF Network
<1>4. PICK c \in Call : /\ Set(t, c) /\ c.op = call[t].op /\ c.sid = call[t].sid /\ c.at \in {"answer", "finish"}
                        /\ Fits(t, c)
  BY <1>3
<1>5. call[t].at \in {"request", "answer"}
  BY DEF Network, PublisherSubscribes, PublisherRenews, PublisherUnsubscribes, AnswerArrives, RequestFails, Is
<1>6. Inside(c) => Inside(call[t])
  BY <1>4, <1>5 DEF Inside
<1>7. ~Idle(t)
  BY <1>5 DEF Idle, NoCall
<1>8. \A s \in subs : RenewingCall(call[t], s) => RenewingCall(c, s)
  BY <1>4 DEF RenewingCall
<1>9. c.at \notin {"report", "callback"}
  BY <1>4
<1> QED
  BY <1>2, <1>4, <1>6, <1>7, <1>8, <1>9, ThreadMovesOutside

(* A thread of the application, or of the mini server, starts a call.       *)
LEMMA CallBegins ==
    ASSUME ControlPointInv, NEW t \in Apps \cup Notifiers, NEW c \in Call, Fits(t, c), Set(t, c), Idle(t),
           UNCHANGED <<registered, subVars, subscribeLock>>, active' \subseteq ActualSids, greeted' \subseteq ActualSids,
           ~Inside(c), c.op # "renew"
    PROVE  ControlPointInv'
<1>1. t \in Actors /\ t \notin Events
  BY GenaControlPointAssumption DEF Actors
<1>2. \A s \in subs : ~RenewingCall(call[t], s)
  BY DEF Idle, NoCall, RenewingCall
<1> QED
  BY <1>1, <1>2, ThreadMovesOutside

LEMMA BeginsKeepInv ==
    ASSUME ControlPointInv, NEW t \in Apps, SubscribeBegins(t) \/ UnregisterBegins(t)
    PROVE  ControlPointInv'
<1>1. UNCHANGED <<registered, subVars, subscribeLock, active, greeted>> /\ Idle(t)
  BY DEF SubscribeBegins, UnregisterBegins, AppMayCall, publisherVars
<1>2. active' \subseteq ActualSids /\ greeted' \subseteq ActualSids
  BY <1>1 DEF ControlPointInv, ThreadInv
<1>3. CASE SubscribeBegins(t)
  <2>1. PICK c : c = [NoCall EXCEPT !.op = "subscribe", !.at = "lock"]
    OBVIOUS
  <2>2. c = [op |-> "subscribe", at |-> "lock", sid |-> NoSid, actual |-> NoActualSid,
             ok |-> FALSE, timed |-> FALSE, seq |-> 0]
    BY <2>1 DEF NoCall
  <2>3. Set(t, c)
    BY <1>3, <2>1 DEF SubscribeBegins
  <2>4. c \in Call /\ Fits(t, c) /\ ~Inside(c) /\ c.op # "renew"
    BY <2>2 DEF Call, Operations, Places, Fits, Inside
  <2> QED
    BY <1>1, <1>2, <2>3, <2>4, CallBegins
<1>4. CASE UnregisterBegins(t)
  <2>1. PICK c : c = [NoCall EXCEPT !.op = "unregister", !.at = "start"]
    OBVIOUS
  <2>2. c = [op |-> "unregister", at |-> "start", sid |-> NoSid, actual |-> NoActualSid,
             ok |-> FALSE, timed |-> FALSE, seq |-> 0]
    BY <2>1 DEF NoCall
  <2>3. Set(t, c)
    BY <1>4, <2>1 DEF UnregisterBegins
  <2>4. c \in Call /\ Fits(t, c) /\ ~Inside(c) /\ c.op # "renew"
    BY <2>2 DEF Call, Operations, Places, Fits, Inside
  <2> QED
    BY <1>1, <1>2, <2>3, <2>4, CallBegins
<1> QED
  BY <1>3, <1>4

LEMMA UnsubscribeBeginsKeepsInv ==
    ASSUME ControlPointInv, NEW t \in Apps, NEW s \in Sids, UnsubscribeBegins(t, s)
    PROVE  ControlPointInv'
<1>1. UNCHANGED <<registered, subVars, subscribeLock, active, greeted>> /\ Idle(t)
  BY DEF UnsubscribeBegins, AppMayCall, publisherVars
<1>2. active' \subseteq ActualSids /\ greeted' \subseteq ActualSids /\ actualSID[s] \in ActualSids
  BY <1>1 DEF ControlPointInv, ThreadInv, EntryInv, UnsubscribeBegins
<1>3. PICK c : c = [NoCall EXCEPT !.op = "unsubscribe", !.at = "request", !.sid = s, !.actual = actualSID[s]]
  OBVIOUS
<1>4. c = [op |-> "unsubscribe", at |-> "request", sid |-> s, actual |-> actualSID[s],
           ok |-> FALSE, timed |-> FALSE, seq |-> 0]
  BY <1>3 DEF NoCall
<1>5. Set(t, c)
  BY <1>3 DEF UnsubscribeBegins
<1>6. c \in Call /\ Fits(t, c) /\ ~Inside(c) /\ c.op # "renew"
  BY <1>2, <1>4 DEF Call, Operations, Places, Fits, Inside
<1> QED
  BY <1>1, <1>2, <1>5, <1>6, CallBegins

LEMMA PublisherNotifiesKeepsInv ==
    ASSUME ControlPointInv, NEW n \in Notifiers, NEW a \in ActualSids, PublisherNotifies(n, a)
    PROVE  ControlPointInv'
<1>1. UNCHANGED <<registered, subVars, subscribeLock, active>> /\ Idle(n) /\ greeted' = greeted \cup {a}
  BY DEF PublisherNotifies
<1>2. active' \subseteq ActualSids /\ greeted' \subseteq ActualSids
  BY <1>1 DEF ControlPointInv, ThreadInv
<1>3. PICK q \in 0..1 : q = IF a \in greeted THEN 1 ELSE 0
  OBVIOUS
<1>4. PICK c : c = [NoCall EXCEPT !.op = "notify", !.at = "start", !.actual = a, !.seq = q]
  OBVIOUS
<1>5. c = [op |-> "notify", at |-> "start", sid |-> NoSid, actual |-> a,
           ok |-> FALSE, timed |-> FALSE, seq |-> q]
  BY <1>4 DEF NoCall
<1>6. Set(n, c)
  BY <1>3, <1>4 DEF PublisherNotifies
<1>7. c \in Call /\ Fits(n, c) /\ ~Inside(c) /\ c.op # "renew"
  BY <1>5 DEF Call, Operations, Places, Fits, Inside
<1> QED
  BY <1>1, <1>2, <1>6, <1>7, CallBegins

LEMMA SubscribeLocksKeepsInv ==
    ASSUME ControlPointInv, NEW t \in Actors, SubscribeLocks(t)
    PROVE  ControlPointInv'
<1>1. call[t].op = "subscribe" /\ call[t].at = "lock" /\ subscribeLock = NoOne /\ subscribeLock' = t
      /\ UNCHANGED <<registered, subVars, active, greeted>>
  BY DEF SubscribeLocks, Is, publisherVars
<1>2. call[t] \in Call /\ Fits(t, call[t])
  BY DEF ControlPointInv, ThreadInv
<1>3. PICK c : c = [call[t] EXCEPT !.at = "request"]
  OBVIOUS
<1>4. c \in Call /\ c.op = "subscribe" /\ c.at = "request" /\ c.actual = call[t].actual /\ Set(t, c)
  BY <1>1, <1>2, <1>3 DEF Call, Places, SubscribeLocks, Moves
<1>5. Fits(t, c) /\ t \in Apps
  BY <1>1, <1>2, <1>4 DEF Fits
<1>6. \A u \in Apps : Inside(call'[u]) => subscribeLock' = u
  <2>1. \A u \in Apps : ~Inside(call[u])
    BY <1>1, GenaControlPointAssumption DEF ControlPointInv, ThreadInv, Actors
  <2> QED
    BY <1>1, <1>4, <2>1 DEF Set, ControlPointInv, ThreadInv, Actors
<1>7. GoesOn(t, c)
  BY <1>1, <1>4, <1>5, <1>6 DEF GoesOn, ControlPointInv, ThreadInv
<1>8. t \notin Events /\ \A s \in subs : ~RenewingCall(call[t], s)
  BY <1>1, <1>5, GenaControlPointAssumption DEF RenewingCall
<1> QED
  BY <1>1, <1>4, <1>7, <1>8, ThreadMoves

LEMMA NotifyKeepsInv ==
    ASSUME ControlPointInv, NEW n \in Actors, NotifyLooksUp(n) \/ NotifyLooksAgain(n)
    PROVE  ControlPointInv'
<1>1. call[n].op = "notify" /\ UNCHANGED <<registered, subVars, subscribeLock, greeted>>
  BY DEF NotifyLooksUp, NotifyLooksAgain, Is
<1>2. call[n] \in Call /\ Fits(n, call[n]) /\ n \in Notifiers
  BY <1>1 DEF ControlPointInv, ThreadInv, Fits
<1>3. active' \subseteq ActualSids /\ greeted' \subseteq ActualSids
  BY <1>1 DEF ControlPointInv, ThreadInv, NotifyLooksUp, NotifyLooksAgain, Accepts, Rejects, WaitsForSubscribe
<1>4. ~Idle(n) /\ \A s \in subs : ~RenewingCall(call[n], s)
  BY <1>1 DEF Idle, NoCall, RenewingCall
<1>5. CASE Rejects(n)
  BY <1>1, <1>3, <1>4, <1>5, CallEnds DEF Rejects
<1>6. ASSUME NEW c \in Call, Set(n, c), c.op = "notify", c.actual = call[n].actual
      PROVE  ControlPointInv'
  <2>1. Fits(n, c) /\ ~Inside(c)
    BY <1>1, <1>2, <1>6 DEF Fits, Inside
  <2> QED
    BY <1>1, <1>3, <1>4, <1>6, <2>1, ThreadMovesOutside
<1>7. CASE Accepts(n)
  <2>1. PICK s \in Subscriptions(call[n].actual) : Set(n, [call[n] EXCEPT !.at = "callback", !.sid = s])
    BY <1>7 DEF Accepts
  <2>2. s \in Sids
    BY DEF Subscriptions, ControlPointInv, EntryInv
  <2>3. PICK c : c = [call[n] EXCEPT !.at = "callback", !.sid = s]
    OBVIOUS
  <2>4. c \in Call /\ c.op = "notify" /\ c.actual = call[n].actual
    BY <1>1, <1>2, <2>2, <2>3 DEF Call, Places
  <2> QED
    BY <1>6, <2>1, <2>3, <2>4
<1>8. CASE WaitsForSubscribe(n)
  <2>1. PICK c : c = [call[n] EXCEPT !.at = "lock"]
    OBVIOUS
  <2>2. c \in Call /\ c.op = "notify" /\ c.actual = call[n].actual
    BY <1>1, <1>2, <2>1 DEF Call, Places
  <2> QED
    BY <1>6, <1>8, <2>1, <2>2 DEF WaitsForSubscribe, Moves
<1> QED
  BY <1>5, <1>7, <1>8 DEF NotifyLooksUp, NotifyLooksAgain

LEMMA CallbackKeepsInv ==
    ASSUME ControlPointInv, NEW t \in Actors, CallbackIsMade(t)
    PROVE  ControlPointInv'
<1>1. UNCHANGED <<registered, subVars, subscribeLock, active, greeted>> /\ call[t].at = "callback" /\ Ends(t)
  BY DEF CallbackIsMade, publisherVars
<1>2. active' \subseteq ActualSids /\ greeted' \subseteq ActualSids
  BY <1>1 DEF ControlPointInv, ThreadInv
<1>3. ~Idle(t) /\ \A s \in subs : ~RenewingCall(call[t], s)
  BY <1>1 DEF Idle, NoCall, RenewingCall
<1> QED
  BY <1>1, <1>2, <1>3, CallEnds

LEMMA JobReportsKeepsInv ==
    ASSUME ControlPointInv, NEW e \in Actors, JobReports(e)
    PROVE  ControlPointInv'
<1>1. UNCHANGED <<registered, subVars, subscribeLock, active, greeted>> /\ call[e].op = "renew" /\ call[e].at = "report"
  BY DEF JobReports, Is, publisherVars
<1>2. active' \subseteq ActualSids /\ greeted' \subseteq ActualSids /\ call[e] \in Call /\ Fits(e, call[e])
  BY <1>1 DEF ControlPointInv, ThreadInv
<1>3. ~Idle(e) /\ \A s \in subs : ~RenewingCall(call[e], s)
  BY <1>1 DEF Idle, NoCall, RenewingCall
<1>4. CASE ~registered
  BY <1>1, <1>2, <1>3, <1>4, CallEnds DEF JobReports
<1>5. CASE registered
  <2>1. PICK c : c = [call[e] EXCEPT !.at = "callback"]
    OBVIOUS
  <2>2. c \in Call /\ c.op = "renew" /\ c.at = "callback" /\ c.sid = call[e].sid /\ c.actual = call[e].actual
    BY <1>1, <1>2, <2>1 DEF Call, Places
  <2>3. Fits(e, c) /\ ~Inside(c) /\ Set(e, c)
    BY <1>1, <1>2, <1>5, <2>1, <2>2 DEF Fits, Inside, JobReports, Moves
  <2>4. e \in Events => c.sid \notin subs
    BY <1>1, <2>2 DEF ControlPointInv, GoneInv
  <2> QED
    BY <1>1, <1>2, <1>3, <2>2, <2>3, <2>4, ThreadMovesOutside
<1> QED
  BY <1>4, <1>5

(* No thread moves and no entry changes.                                    *)
LEMMA NobodyMoves ==
    ASSUME ControlPointInv, UNCHANGED <<subVars, subscribeLock, call>>, registered' \in BOOLEAN,
           registered => registered', active' \subseteq ActualSids, greeted' \subseteq ActualSids
    PROVE  ControlPointInv'
<1>1. UNCHANGED <<subs, actualSID, renewEventId, deleted, endless, timer, subscribeLock, call>>
  BY DEF subVars
<1>2. ThreadInv'
  BY <1>1 DEF ControlPointInv, ThreadInv, Fits, Inside, NoCall
<1>3. EntryInv'
  BY <1>1 DEF ControlPointInv, EntryInv
<1>4. EventInv'
  BY <1>1 DEF ControlPointInv, EventInv, Idle, NoCall
<1>5. RenewalArmed'
  BY <1>1 DEF ControlPointInv, RenewalArmed, Renewing
<1>6. GoneInv'
  BY <1>1 DEF ControlPointInv, GoneInv
<1> QED
  BY <1>2, <1>3, <1>4, <1>5, <1>6 DEF ControlPointInv

LEMMA TimerFiresKeepsInv ==
    ASSUME ControlPointInv, NEW e \in Events, TimerFires(e)
    PROVE  ControlPointInv'
<1>1. PICK s : s = timer[e]
  OBVIOUS
<1>2. PICK c : c = [NoCall EXCEPT !.op = "renew", !.at = "start", !.sid = s]
  OBVIOUS
<1>3. /\ s # NoSid /\ timer' = [timer EXCEPT ![e] = NoSid] /\ Set(e, c)
      /\ UNCHANGED <<registered, subs, actualSID, renewEventId, deleted, endless, subscribeLock, active, greeted>>
  BY <1>1, <1>2 DEF TimerFires, publisherVars
<1>4. s \in Sids /\ e \in Actors /\ Idle(e)
  BY <1>1, <1>3 DEF ControlPointInv, EntryInv, EventInv, Actors
<1>5. c = [op |-> "renew", at |-> "start", sid |-> s, actual |-> NoActualSid,
           ok |-> FALSE, timed |-> FALSE, seq |-> 0]
  BY <1>2 DEF NoCall
<1>6. c \in Call /\ c.op = "renew" /\ c.at = "start" /\ c.sid = s /\ Fits(e, c) /\ ~Inside(c)
  BY <1>4, <1>5 DEF Call, Operations, Places, Fits, Inside
<1>7. GoesOn(e, c)
  BY <1>3, <1>4, <1>6, GoesOnOutside DEF ControlPointInv, ThreadInv
<1>8. call'[e] = c /\ (\A u \in Actors \ {e} : call'[u] = call[u]) /\ ThreadInv'
  BY <1>4, <1>7, CallChanged DEF ControlPointInv
<1>9. timer'[e] = NoSid /\ (\A f \in Events \ {e} : timer'[f] = timer[f]) /\ timer' \in [Events -> Sids \cup {NoSid}]
  BY <1>3 DEF ControlPointInv, EntryInv
<1>10. EntryInv'
  BY <1>3, <1>9 DEF ControlPointInv, EntryInv
<1>11. EventInv'
  BY <1>3, <1>8, <1>9 DEF ControlPointInv, EventInv, Idle, Actors, NoCall
<1>12. RenewalArmed'
  <2> SUFFICES ASSUME NEW x \in subs' \ (endless' \cup deleted')
               PROVE  \/ \E f \in Events : timer'[f] = x
                      \/ \E u \in Apps \cup Events : Renewing(u, x)'
    BY DEF RenewalArmed
  <2>1. x \in subs \ (endless \cup deleted) /\ x \in Sids
    BY <1>3 DEF ControlPointInv, EntryInv
  <2>2. CASE x = s
    BY <1>6, <1>8, <2>2 DEF Renewing
  <2>3. CASE x # s /\ \E f \in Events : timer[f] = x
    BY <1>1, <1>9, <2>3
  <2>4. CASE \E u \in Apps \cup Events : Renewing(u, x)
    BY <1>4, <1>8, <2>4 DEF Renewing, Actors, Idle, NoCall
  <2> QED
    BY <2>1, <2>2, <2>3, <2>4 DEF ControlPointInv, RenewalArmed
<1>13. GoneInv'
  BY <1>3, <1>6, <1>8 DEF ControlPointInv, GoneInv, Actors
<1> QED
  BY <1>8, <1>10, <1>11, <1>12, <1>13 DEF ControlPointInv

LEMMA AppRenewsKeepsInv ==
    ASSUME ControlPointInv, NEW t \in Apps, NEW s \in Sids, AppRenews(t, s)
    PROVE  ControlPointInv'
<1>1. RenewRequest(t, s) /\ Idle(t) /\ s \in subs
  BY DEF AppRenews, AppMayCall
<1>2. t \notin Events
  BY GenaControlPointAssumption
<1>3. PICK u \in Apps \cup Events, x \in subs : u = t /\ x = s
  BY <1>1
<1>4. RenewRequest(u, x)
  BY <1>1, <1>3
<1>5. Idle(u) \/ (call[u].op = "renew" /\ call[u].sid = x)
  BY <1>1, <1>3
<1>6. u \in Events => ~Idle(u)
  BY <1>2, <1>3
<1> QED
  BY <1>4, <1>5, <1>6, RenewalStarts

LEMMA JobRenewsKeepsInv ==
    ASSUME ControlPointInv, NEW e \in Actors, JobRenews(e)
    PROVE  ControlPointInv'
<1>1. call[e].op = "renew" /\ ~Idle(e) /\ call[e].sid = call[e].sid
  BY DEF JobRenews, Is, Idle, NoCall
<1>2. e \in Apps \cup Events
  BY <1>1 DEF ControlPointInv, ThreadInv, Fits
<1>3. CASE registered /\ call[e].sid \in subs /\ RenewRequest(e, call[e].sid)
  <2>1. PICK s \in subs : s = call[e].sid
    BY <1>3
  <2> QED
    BY <1>1, <1>2, <1>3, <2>1, RenewalStarts
<1>4. CASE /\ ~registered \/ call[e].sid \notin subs
           /\ Ends(e)
           /\ UNCHANGED <<registered, subVars, subscribeLock, publisherVars>>
  <2>1. \A s \in subs : ~RenewingCall(call[e], s)
    BY <1>4 DEF RenewingCall, ControlPointInv, EntryInv
  <2>2. active' \subseteq ActualSids /\ greeted' \subseteq ActualSids
    BY <1>4 DEF publisherVars, ControlPointInv, ThreadInv
  <2> QED
    BY <1>1, <1>4, <2>1, <2>2, CallEnds
<1> QED
  BY <1>3, <1>4 DEF JobRenews

LEMMA SubscribeFinishesKeepsInv ==
    ASSUME ControlPointInv, NEW t \in Actors, SubscribeFinishes(t)
    PROVE  ControlPointInv'
<1>1. /\ call[t].op = "subscribe" /\ call[t].at = "finish" /\ subscribeLock' = NoOne
      /\ call' = [call EXCEPT ![t] = NoCall] /\ UNCHANGED <<registered, active, greeted>>
  BY DEF SubscribeFinishes, Is, Ends, Set, publisherVars
<1>2. call[t] \in Call /\ Fits(t, call[t])
  BY DEF ControlPointInv, ThreadInv
<1>3. t \in Apps /\ t \notin Events /\ (call[t].ok => call[t].actual \in ActualSids)
  BY <1>1, <1>2, GenaControlPointAssumption DEF Fits
<1>4. PICK c : c = NoCall
  OBVIOUS
<1>5. c \in Call /\ Fits(t, c) /\ ~Inside(c) /\ c.op = "none" /\ Set(t, c)
  BY <1>1, <1>4, NoCallFits DEF Set
<1>6. \A u \in Apps : ~Inside(call'[u])
  <2>1. subscribeLock = t
    BY <1>1, <1>3 DEF ControlPointInv, ThreadInv, Inside
  <2>2. \A u \in Apps \ {t} : ~Inside(call[u])
    BY <2>1 DEF ControlPointInv, ThreadInv
  <2> QED
    BY <1>1, <1>4, <1>5, <2>2 DEF ControlPointInv, ThreadInv, Actors
<1>7. GoesOn(t, c)
  BY <1>1, <1>5, <1>6 DEF GoesOn, ControlPointInv, ThreadInv
<1>8. \A s \in subs : ~RenewingCall(call[t], s)
  BY <1>1 DEF RenewingCall
<1>9. CASE UNCHANGED subVars
  BY <1>1, <1>3, <1>5, <1>7, <1>8, <1>9, ThreadMoves
<1>10. ASSUME NEW s \in Sids, FreshSid(s), ScheduleGenaAutoRenew(s, call[t].actual, call[t].timed),
              call[t].ok, registered
       PROVE  ControlPointInv'
  <2>1. PICK a \in ActualSids, timed \in BOOLEAN : a = call[t].actual /\ timed = call[t].timed
    BY <1>2, <1>3, <1>10 DEF Call
  <2>2. \A e \in Events : call[e].sid # s
    BY <1>10 DEF FreshSid, Actors
  <2> QED
    BY <1>1, <1>3, <1>5, <1>7, <1>8, <1>10, <2>1, <2>2, EntryScheduled
<1>11. ASSUME NEW s \in Sids, FreshSid(s), DeletedWhileListed(s, call[t].actual), call[t].ok, registered
       PROVE  ControlPointInv'
  <2>1. call'[t] = c /\ (\A u \in Actors \ {t} : call'[u] = call[u]) /\ ThreadInv'
    BY <1>7, CallChanged DEF ControlPointInv
  <2>2. /\ subs' = subs \cup {s} /\ actualSID' = [actualSID EXCEPT ![s] = call[t].actual]
        /\ deleted' = deleted \cup {s} /\ UNCHANGED <<renewEventId, endless, timer>>
    BY <1>11 DEF DeletedWhileListed
  <2>3. EntryInv'
    BY <1>1, <1>3, <1>11, <2>2 DEF ControlPointInv, EntryInv
  <2>4. EventInv'
    BY <1>3, <2>1, <2>2 DEF ControlPointInv, EventInv, Idle, Actors, NoCall
  <2>5. \A u \in Apps \cup Events, x \in subs : Renewing(u, x) => Renewing(u, x)'
    BY <1>8, <2>1 DEF Renewing, RenewingCall, Actors
  <2>6. RenewalArmed'
    BY <2>2, <2>5 DEF ControlPointInv, RenewalArmed
  <2>7. GoneInv'
    BY <1>3, <1>11, <2>1, <2>2 DEF ControlPointInv, GoneInv, FreshSid, Actors
  <2> QED
    BY <2>1, <2>3, <2>4, <2>6, <2>7 DEF ControlPointInv
<1> QED
  BY <1>9, <1>10, <1>11 DEF SubscribeFinishes

LEMMA RenewFinishesKeepsInv ==
    ASSUME ControlPointInv, NEW t \in Actors, RenewFinishes(t)
    PROVE  ControlPointInv'
<1>1. /\ call[t].op = "renew" /\ call[t].at = "finish" /\ UNCHANGED <<registered, subscribeLock, active, greeted>>
  BY DEF RenewFinishes, Is, publisherVars
<1>2. call[t] \in Call /\ Fits(t, call[t]) /\ active \subseteq ActualSids /\ greeted \subseteq ActualSids
  BY DEF ControlPointInv, ThreadInv
<1>3. PICK s \in Sids : s = call[t].sid
  BY <1>1, <1>2 DEF Fits
<1>4. ~Idle(t) /\ call[t].actual \in ActualSids /\ t \in Apps \cup Events
  BY <1>1, <1>2 DEF Fits, Idle, NoCall
<1>5. \A x \in subs \ {s} : ~RenewingCall(call[t], x)
  BY <1>3 DEF RenewingCall
<1>6. ASSUME NEW c \in Call, Fits(t, c), Set(t, c), ~Inside(c)
      PROVE  GoesOn(t, c)
  BY <1>1, <1>2, <1>6, GoesOnOutside DEF ControlPointInv
<1>7. ASSUME s \notin subs, Ends(t), UNCHANGED subVars
      PROVE  ControlPointInv'
  BY <1>1, <1>2, <1>4, <1>5, <1>7, CallEnds
<1>8. ASSUME RenewFails(t)
      PROVE  ControlPointInv'
  <2>1. RemoveClientSub(s) /\ FailureIsTold(t)
    BY <1>3, <1>8 DEF RenewFails
  <2>2. CASE t \in Events
    <3>1. PICK c : c = [call[t] EXCEPT !.at = "report"]
      OBVIOUS
    <3>2. c \in Call /\ c.op = "renew" /\ c.at = "report" /\ c.sid = s /\ c.actual = call[t].actual
      BY <1>1, <1>2, <1>3, <3>1 DEF Call, Places
    <3>3. Fits(t, c) /\ ~Inside(c) /\ Set(t, c)
      BY <1>2, <1>3, <1>4, <2>1, <2>2, <3>1, <3>2 DEF Fits, Inside, FailureIsTold, Moves
    <3>4. GoesOn(t, c)
      BY <1>6, <3>2, <3>3
    <3> QED
      BY <1>1, <1>4, <1>5, <2>1, <3>2, <3>4, EntryRemoved
  <2>3. CASE t \notin Events
    <3>1. PICK c : c = NoCall
      OBVIOUS
    <3>2. c \in Call /\ Fits(t, c) /\ ~Inside(c) /\ c.op = "none" /\ Set(t, c)
      BY <2>1, <2>3, <3>1, NoCallFits DEF FailureIsTold, Ends
    <3>3. GoesOn(t, c)
      BY <1>6, <3>2
    <3> QED
      BY <1>1, <1>4, <1>5, <2>1, <2>3, <3>2, <3>3, EntryRemoved
  <2> QED
    BY <2>2, <2>3
<1>9. ASSUME registered, s \in subs, ScheduleGenaAutoRenew(s, call[t].actual, call[t].timed), Ends(t)
      PROVE  ControlPointInv'
  <2>1. PICK a \in ActualSids, timed \in BOOLEAN : a = call[t].actual /\ timed = call[t].timed
    BY <1>2, <1>4 DEF Call
  <2>2. PICK c : c = NoCall
    OBVIOUS
  <2>3. c \in Call /\ Fits(t, c) /\ ~Inside(c) /\ c.op = "none" /\ Set(t, c)
    BY <1>9, <2>2, NoCallFits DEF Ends
  <2>4. GoesOn(t, c)
    BY <1>6, <2>3
  <2>5. \A e \in Events : call[e].op = "renew" /\ call[e].at \in {"report", "callback"} => call[e].sid # s
    BY <1>9 DEF ControlPointInv, GoneInv
  <2> QED
    BY <1>1, <1>4, <1>5, <1>9, <2>1, <2>3, <2>4, <2>5, EntryScheduled
<1>10. ~registered => s \notin subs
  BY DEF ControlPointInv, EntryInv
<1> QED
  BY <1>3, <1>7, <1>8, <1>9, <1>10 DEF RenewFinishes

LEMMA UnsubscribeFinishesKeepsInv ==
    ASSUME ControlPointInv, NEW t \in Actors, UnsubscribeFinishes(t)
    PROVE  ControlPointInv'
<1>1. /\ call[t].op = "unsubscribe" /\ Ends(t) /\ UNCHANGED <<registered, subscribeLock, active, greeted>>
  BY DEF UnsubscribeFinishes, Is, publisherVars
<1>2. Fits(t, call[t]) /\ active \subseteq ActualSids /\ greeted \subseteq ActualSids
  BY DEF ControlPointInv, ThreadInv
<1>3. PICK s \in Sids : s = call[t].sid
  BY <1>1, <1>2 DEF Fits
<1>4. t \notin Events /\ ~Idle(t) /\ \A x \in subs : ~RenewingCall(call[t], x)
  BY <1>1, <1>2, GenaControlPointAssumption DEF Fits, Idle, NoCall, RenewingCall
<1>5. CASE RemoveClientSub(s)
  <2>1. PICK c : c = NoCall
    OBVIOUS
  <2>2. c \in Call /\ Fits(t, c) /\ ~Inside(c) /\ c.op = "none" /\ Set(t, c)
    BY <1>1, <2>1, NoCallFits DEF Ends
  <2>3. GoesOn(t, c)
    BY <1>1, <1>2, <2>2, GoesOnOutside DEF ControlPointInv
  <2> QED
    BY <1>1, <1>4, <1>5, <2>2, <2>3, EntryRemoved
<1>6. CASE UNCHANGED subVars
  BY <1>1, <1>2, <1>4, <1>6, CallEnds
<1> QED
  BY <1>3, <1>5, <1>6 DEF UnsubscribeFinishes

LEMMA UnregisterTakesKeepsInv ==
    ASSUME ControlPointInv, NEW t \in Actors, UnregisterTakes(t)
    PROVE  ControlPointInv'
<1>1. call[t].op = "unregister" /\ UNCHANGED <<registered, subscribeLock, active, greeted>>
  BY DEF UnregisterTakes, Is, publisherVars
<1>2. call[t] \in Call /\ Fits(t, call[t]) /\ active \subseteq ActualSids /\ greeted \subseteq ActualSids
  BY DEF ControlPointInv, ThreadInv
<1>3. t \in Apps /\ t \notin Events /\ ~Idle(t) /\ \A x \in subs : ~RenewingCall(call[t], x)
  BY <1>1, <1>2, GenaControlPointAssumption DEF Fits, Idle, NoCall, RenewingCall
<1>4. CASE Ends(t) /\ UNCHANGED subVars
  BY <1>1, <1>2, <1>3, <1>4, CallEnds
<1>5. CASE Moves(t, "freeing") /\ UNCHANGED subVars
  <2>1. PICK c : c = [call[t] EXCEPT !.at = "freeing"]
    OBVIOUS
  <2>2. c \in Call /\ c.op = "unregister"
    BY <1>1, <1>2, <2>1 DEF Call, Places
  <2>3. Fits(t, c) /\ ~Inside(c) /\ Set(t, c)
    BY <1>3, <1>5, <2>1, <2>2 DEF Fits, Inside, Moves
  <2> QED
    BY <1>1, <1>2, <1>3, <1>5, <2>2, <2>3, ThreadMovesOutside
<1>6. ASSUME NEW s \in subs, RemoveClientSub(s),
             Set(t, [NoCall EXCEPT !.op = "unregister", !.at = "request", !.actual = actualSID[s]])
      PROVE  ControlPointInv'
  <2>1. s \in Sids /\ actualSID[s] \in ActualSids
    BY DEF ControlPointInv, EntryInv
  <2>2. PICK c : c = [NoCall EXCEPT !.op = "unregister", !.at = "request", !.actual = actualSID[s]]
    OBVIOUS
  <2>3. c = [op |-> "unregister", at |-> "request", sid |-> NoSid, actual |-> actualSID[s],
             ok |-> FALSE, timed |-> FALSE, seq |-> 0]
    BY <2>2 DEF NoCall
  <2>4. c \in Call /\ c.op = "unregister" /\ Fits(t, c) /\ ~Inside(c)
    BY <1>3, <2>1, <2>3 DEF Call, Operations, Places, Fits, Inside
  <2>5. GoesOn(t, c)
    BY <1>1, <1>2, <1>6, <2>2, <2>4, GoesOnOutside DEF ControlPointInv
  <2> QED
    BY <1>1, <1>3, <1>6, <2>1, <2>4, <2>5, EntryRemoved
<1> QED
  BY <1>4, <1>5, <1>6 DEF UnregisterTakes

LEMMA UnregisterFreesKeepsInv ==
    ASSUME ControlPointInv, NEW t \in Actors, UnregisterFrees(t)
    PROVE  ControlPointInv'
<1>1. /\ call[t].op = "unregister" /\ Ends(t) /\ UNCHANGED <<timer, subscribeLock, active, greeted>>
      /\ registered' = FALSE /\ subs' = {} /\ endless' = {} /\ deleted' = {}
      /\ actualSID' = [s \in Sids |-> NoActualSid] /\ renewEventId' = [s \in Sids |-> NoEvent]
  BY DEF UnregisterFrees, Is, publisherVars
<1>2. t \notin Events /\ active \subseteq ActualSids /\ greeted \subseteq ActualSids
  BY <1>1, GenaControlPointAssumption DEF ControlPointInv, ThreadInv, Fits
<1>3. PICK c : c = NoCall
  OBVIOUS
<1>4. c \in Call /\ Fits(t, c) /\ ~Inside(c) /\ Set(t, c)
  BY <1>1, <1>3, NoCallFits DEF Ends
<1>5. GoesOn(t, c)
  BY <1>1, <1>2, <1>4, GoesOnOutside DEF ControlPointInv
<1>6. (\A u \in Actors \ {t} : call'[u] = call[u]) /\ ThreadInv'
  BY <1>5, CallChanged DEF ControlPointInv
<1>7. EntryInv'
  BY <1>1 DEF ControlPointInv, EntryInv
<1>8. EventInv'
  BY <1>1, <1>2, <1>6, GenaControlPointAssumption DEF ControlPointInv, EventInv, Idle, Actors, NoCall
<1>9. RenewalArmed' /\ GoneInv'
  BY <1>1 DEF RenewalArmed, GoneInv
<1> QED
  BY <1>6, <1>7, <1>8, <1>9 DEF ControlPointInv

LEMMA InitControlPointInv ==
    ASSUME Init
    PROVE  ControlPointInv
<1>1. ThreadInv
  BY NoCallFits DEF Init, ThreadInv, Inside, Actors
<1>2. EntryInv /\ EventInv /\ RenewalArmed
  BY DEF Init, EntryInv, EventInv, RenewalArmed
<1>3. GoneInv
  BY DEF Init, GoneInv
<1> QED
  BY <1>1, <1>2, <1>3 DEF ControlPointInv

LEMMA NextControlPointInv ==
    ASSUME ControlPointInv, [Next]_vars
    PROVE  ControlPointInv'
<1>1. registered \in BOOLEAN /\ active \subseteq ActualSids /\ greeted \subseteq ActualSids
  BY DEF ControlPointInv, ThreadInv, EntryInv
<1>2. CASE UNCHANGED vars
  BY <1>1, <1>2, NobodyMoves DEF vars, publisherVars
<1>3. CASE Register
  BY <1>1, <1>3, NobodyMoves DEF Register, publisherVars
<1>4. ASSUME NEW a \in ActualSids, PublisherForgets(a)
      PROVE  ControlPointInv'
  <2>1. UNCHANGED <<registered, subVars, subscribeLock, call, greeted>> /\ active' \subseteq ActualSids
    BY <1>1, <1>4 DEF PublisherForgets
  <2> QED
    BY <1>1, <2>1, NobodyMoves
<1>5. ASSUME NEW t \in Apps, NEW s \in Sids, AppRenews(t, s)
      PROVE  ControlPointInv'
  BY <1>5, AppRenewsKeepsInv
<1>6. ASSUME NEW t \in Actors, Continues(t)
      PROVE  ControlPointInv'
  <2>1. CASE Finishes(t)
    BY <2>1, SubscribeFinishesKeepsInv, RenewFinishesKeepsInv, UnsubscribeFinishesKeepsInv,
       UnregisterTakesKeepsInv, UnregisterFreesKeepsInv, CallbackKeepsInv DEF Finishes
  <2> QED
    BY <1>6, <2>1, NetworkKeepsInv, JobRenewsKeepsInv, JobReportsKeepsInv, NotifyKeepsInv DEF Continues
<1>7. ASSUME NEW t \in Actors, Locks(t)
      PROVE  ControlPointInv'
  BY <1>7, SubscribeLocksKeepsInv, NotifyKeepsInv DEF Locks
<1> QED
  BY <1>2, <1>3, <1>4, <1>5, <1>6, <1>7, BeginsKeepInv, UnsubscribeBeginsKeepsInv, TimerFiresKeepsInv,
     PublisherNotifiesKeepsInv DEF Next

(* The strengthened invariant of the specification.                         *)
THEOREM SpecControlPointInv == Spec => []ControlPointInv
  BY InitControlPointInv, NextControlPointInv, PTL DEF Spec

-------------------------------------------------------------------------------
(* What follows from it                                                     *)

(* A subscription that can expire has a timer event set or a thread about   *)
(* to renew it, whoever else renews it or fails to (genaRenewSubscription,  *)
(* GenaAutoRenewSubscription).                                              *)
THEOREM SpecRenewalSound == Spec => []RenewalSound
<1>1. ControlPointInv => RenewalSound
  BY GenaControlPointAssumption DEF ControlPointInv, ThreadInv, EntryInv, Call, RenewalSound, TypeOK
<1> QED
  BY <1>1, SpecControlPointInv, PTL

(* When UPNP_EVENT_AUTORENEWAL_FAILED is reported, the subscription has     *)
(* left the list (GenaAutoRenewSubscription).                               *)
THEOREM SpecReportedMeansGone == Spec => []ReportedMeansGone
<1>1. ControlPointInv => ReportedMeansGone
  BY DEF ControlPointInv, GoneInv, ReportedMeansGone, Is
<1> QED
  BY <1>1, SpecControlPointInv, PTL

(* Only its own two looks at the list turn an event away.                   *)
LEMMA WhoRejects ==
    ASSUME ControlPointInv, Next, NEW n \in Notifiers, Rejected(n)
    PROVE  NotifyLooksUp(n) \/ NotifyLooksAgain(n)
<1>1. call[n].op = "notify" /\ call[n].at \in {"start", "lock"} /\ call'[n] = NoCall /\ call'[n] # call[n]
  BY DEF Rejected, NoCall
<1>2. n \in Actors /\ n \notin Apps \cup Events /\ ~Idle(n) /\ call \in [Actors -> Call]
  BY <1>1, GenaControlPointAssumption DEF Actors, Idle, NoCall, ControlPointInv, ThreadInv
<1>3. ASSUME NEW t \in Actors, NEW c, Set(t, c)
      PROVE  t = n
  BY <1>1, <1>2, <1>3 DEF Set
<1>4. ~Register /\ \A a \in ActualSids : ~PublisherForgets(a)
  BY <1>1 DEF Register, PublisherForgets
<1>5. \A t \in Apps : ~SubscribeBegins(t) /\ ~UnregisterBegins(t)
  BY <1>2, <1>3 DEF SubscribeBegins, UnregisterBegins, Actors
<1>6. \A t \in Apps, s \in Sids : ~AppRenews(t, s) /\ ~UnsubscribeBegins(t, s)
  BY <1>2, <1>3 DEF AppRenews, RenewRequest, UnsubscribeBegins, Actors
<1>7. \A e \in Events : ~TimerFires(e)
  BY <1>2, <1>3 DEF TimerFires, Actors
<1>8. \A m \in Notifiers, a \in ActualSids : ~PublisherNotifies(m, a)
  BY <1>2, <1>3 DEF PublisherNotifies, Actors
<1>9. ASSUME NEW t \in Actors, Continues(t) \/ Locks(t)
      PROVE  NotifyLooksUp(n) \/ NotifyLooksAgain(n)
  <2>1. CASE t = n
    BY <1>1, <1>9, <2>1 DEF Continues, Locks, Network, Finishes, PublisherSubscribes, PublisherRenews,
       PublisherUnsubscribes, AnswerArrives, RequestFails, SubscribeFinishes, RenewFinishes, UnsubscribeFinishes,
       UnregisterTakes, UnregisterFrees, CallbackIsMade, JobRenews, JobReports, SubscribeLocks, Is
  <2>2. CASE t # n
    <3>1. ~Network(t)
      BY <1>3, <2>2 DEF Network, PublisherSubscribes, PublisherRenews, PublisherUnsubscribes, AnswerArrives,
         RequestFails, Moves
    <3>2. ~SubscribeFinishes(t) /\ ~UnsubscribeFinishes(t) /\ ~UnregisterFrees(t) /\ ~CallbackIsMade(t)
      BY <1>3, <2>2 DEF SubscribeFinishes, UnsubscribeFinishes, UnregisterFrees, CallbackIsMade, Ends
    <3>3. ~RenewFinishes(t)
      BY <1>3, <2>2 DEF RenewFinishes, RenewFails, FailureIsTold, Ends, Moves
    <3>4. ~UnregisterTakes(t)
      BY <1>3, <2>2 DEF UnregisterTakes, Ends, Moves
    <3>5. ~JobRenews(t) /\ ~JobReports(t)
      BY <1>3, <2>2 DEF JobRenews, JobReports, RenewRequest, Ends, Moves
    <3>6. ~NotifyLooksUp(t) /\ ~NotifyLooksAgain(t) /\ ~SubscribeLocks(t)
      BY <1>3, <2>2 DEF NotifyLooksUp, NotifyLooksAgain, SubscribeLocks, Accepts, Rejects, WaitsForSubscribe, Ends, Moves
    <3> QED
      BY <1>9, <3>1, <3>2, <3>3, <3>4, <3>5, <3>6 DEF Continues, Locks, Finishes
  <2> QED
    BY <2>1, <2>2
<1> QED
  BY <1>4, <1>5, <1>6, <1>7, <1>8, <1>9 DEF Next

(* An event that overtakes the answer to its subscription is not rejected:  *)
(* its second look waits for the SubscribeLock, which the subscriber holds  *)
(* until the answer is in the list (gena_process_notification_event).       *)
THEOREM SpecFirstEventAccepted == Spec => FirstEventAccepted
<1>1. ASSUME ControlPointInv, [Next]_vars
      PROVE  [\A n \in Notifiers : Rejected(n) /\ call[n].seq = 0 /\ registered =>
                \A t \in Apps : call[t].op = "subscribe" => call[t].actual # call[n].actual]_vars
  <2> SUFFICES ASSUME Next, NEW n \in Notifiers, Rejected(n), call[n].seq = 0, registered,
                      NEW t \in Apps, call[t].op = "subscribe", call[t].actual = call[n].actual
               PROVE  FALSE
    BY <1>1
  <2>1. n \in Actors /\ t \in Actors /\ call \in [Actors -> Call] /\ call[n].op = "notify"
    BY <1>1 DEF Actors, ControlPointInv, ThreadInv, Rejected
  <2>2. call'[n] = NoCall
    BY DEF Rejected
  <2>3. call[n].actual \in ActualSids
    BY <1>1, <2>1 DEF ControlPointInv, ThreadInv, Fits
  <2>4. Inside(call[t])
    BY <1>1, <2>1, <2>3, GenaControlPointAssumption DEF ControlPointInv, ThreadInv, Fits, Inside
  <2>5. subscribeLock = t /\ subscribeLock # NoOne
    BY <1>1, <2>1, <2>4, GenaControlPointAssumption DEF ControlPointInv, ThreadInv
  <2>6. NotifyLooksUp(n)
    BY <1>1, <2>5, WhoRejects DEF NotifyLooksAgain
  <2>7. CASE Accepts(n)
    <3>1. PICK s : Set(n, [call[n] EXCEPT !.at = "callback", !.sid = s])
      BY <2>7 DEF Accepts
    <3>2. call'[n] = [call[n] EXCEPT !.at = "callback", !.sid = s] /\ call[n] \in Call
      BY <2>1, <3>1 DEF Set
    <3>3. call'[n].op = "notify"
      BY <2>1, <3>2 DEF Call
    <3> QED
      BY <2>2, <3>3 DEF NoCall
  <2>8. CASE WaitsForSubscribe(n)
    <3>1. call'[n] = [call[n] EXCEPT !.at = "lock"] /\ call[n] \in Call
      BY <2>1, <2>8 DEF WaitsForSubscribe, Moves, Set
    <3>2. call'[n].op = "notify"
      BY <2>1, <3>1 DEF Call
    <3> QED
      BY <2>2, <3>2 DEF NoCall
  <2> QED
    BY <2>6, <2>7, <2>8 DEF NotifyLooksUp
<1> QED
  BY <1>1, SpecControlPointInv, PTL DEF Spec, FirstEventAccepted

-------------------------------------------------------------------------------
(* The list, the publishers and the timers agree                            *)

(* Nothing fails to be scheduled or gets lost, and the application leaves   *)
(* renewals to the library and unregisters when its calls have returned.    *)
Reliable == ~ScheduleMayFail /\ ~NetworkMayFail /\ ~AppsRenew /\ ~AppsUnregisterBusy

(* The application's calls end before the handle goes.                      *)
AppsInv ==
    /\ \A t \in Apps : call[t].op \in {"none", "subscribe", "unsubscribe", "unregister"}
    /\ ~registered => \A t \in Apps : call[t].op = "none"
    /\ \A t, u \in Apps : call[t].op = "unregister" /\ u # t => call[u].op = "none"
    /\ \A t \in Apps : call[t].op = "unregister" /\ call[t].at = "freeing" => subs = {}

(* Event e is set for s, or its job is renewing s: one event at a time.     *)
Carries(e, s) == timer[e] = s \/ Renewing(e, s)
TimerInv ==
    /\ TimerNamesSubscription
    /\ \A e, f \in Events, s \in Sids : Carries(e, s) /\ Carries(f, s) => e = f
    /\ deleted = {}

(* An actual SID is that of one subscription, listed, or being subscribed,  *)
(* or still known to the calls about it.                                    *)
About(c) == c.op \in {"renew", "unsubscribe", "unregister"}
NameInv ==
    /\ \A s, x \in subs : actualSID[s] = actualSID[x] => s = x
    /\ \A t \in Apps : call[t].op = "subscribe" /\ call[t].actual # NoActualSid =>
          /\ \A s \in subs : actualSID[s] # call[t].actual
          /\ \A u \in Actors : About(call[u]) => call[u].actual # call[t].actual
    /\ \A u \in Actors, s \in subs : About(call[u]) /\ call[u].actual = actualSID[s] =>
          call[u].op # "unregister" /\ call[u].sid = s
    /\ \A u \in Actors : call[u].op = "unsubscribe" => call[u].actual \in ActualSids
    /\ \A u \in Actors : call[u].op \in {"renew", "unsubscribe"} /\ call[u].sid \in subs =>
          call[u].actual \in {NoActualSid, actualSID[call[u].sid]}

(* The first event is under way until the subscription is listed.           *)
FirstEventInv ==
    \A t \in Apps : call[t].op = "subscribe" /\ call[t].actual # NoActualSid =>
        /\ \A n \in Notifiers : call[n].op = "notify" /\ call[n].actual = call[t].actual =>
              call[n].seq = 0 /\ call[n].at \in {"start", "lock"}
        /\ call[t].actual \in greeted => \E n \in Notifiers : call[n].op = "notify" /\ call[n].actual = call[t].actual

(* What the answers say holds: a refused renewal and an unsubscription have *)
(* no subscription at the publisher, a subscription has one.                *)
AnswerInv ==
    /\ \A t \in Actors : call[t].op = "renew" /\ call[t].at = "finish" /\ ~call[t].ok => call[t].actual \notin active
    /\ \A t \in Apps : call[t].op = "unsubscribe" /\ call[t].at \in {"answer", "finish"} => call[t].actual \notin active
    /\ \A t \in Apps : call[t].op = "subscribe" /\ call[t].actual # NoActualSid =>
          /\ call[t].actual \in active
          /\ call[t].at = "answer" \/ (call[t].at = "finish" /\ call[t].ok)

(* What one side knows and the other does not, a call is about to settle.   *)
Unlisting(t, a) == call[t].op = "unregister" /\ call[t].at = "request" /\ call[t].actual = a
Ending(t, s) == call[t].op = "unsubscribe" /\ call[t].at \in {"answer", "finish"} /\ call[t].sid = s
AgreeInv ==
    /\ \A a \in active : \/ \E s \in subs : actualSID[s] = a
                         \/ \E t \in Apps : call[t].op = "subscribe" /\ call[t].actual = a
                         \/ \E t \in Apps : Unlisting(t, a)
    /\ \A s \in subs : actualSID[s] \in active \/ \E t \in Apps : Ending(t, s)

ListInv == AppsInv /\ TimerInv /\ NameInv /\ FirstEventInv /\ AnswerInv /\ AgreeInv

LEMMA SetEffect ==
    ASSUME ThreadInv, NEW t \in Actors, NEW c, Set(t, c)
    PROVE  call'[t] = c /\ \A u \in Actors \ {t} : call'[u] = call[u]
  BY DEF ThreadInv, Set

(* One call goes on or ends, and nothing else changes: c says no more than  *)
(* the call said before.                                                    *)
SaysNoMore(t, c) ==
    LET k == call[t]
    IN  /\ c = NoCall \/ (/\ c.op = k.op /\ c.actual = k.actual /\ c.seq = k.seq
                          /\ c.op # "notify" => c.sid = k.sid)
        /\ k.op = "subscribe" /\ k.actual # NoActualSid =>
              c.op = "subscribe" /\ (c.at = "answer" \/ (c.at = "finish" /\ c.ok))
        /\ c.op = "renew" /\ c.at \in {"start", "request", "answer", "finish"} =>
              k.at \in {"start", "request", "answer", "finish"}
        /\ c.op = "renew" /\ c.at = "finish" /\ ~c.ok => c.actual \notin active
        /\ k.op = "unsubscribe" /\ k.at \in {"answer", "finish"} => c.op = "unsubscribe" /\ c.at \in {"answer", "finish"}
        /\ c.op = "unsubscribe" /\ c.at \in {"answer", "finish"} => k.at \in {"answer", "finish"}
        /\ ~(k.op = "unregister" /\ k.at = "request")
        /\ c.op = "unregister" /\ c.at = "freeing" => subs = {}
        /\ k.op = "notify" => \/ c.op = "notify" /\ c.at \in {"start", "lock"}
                              \/ \A u \in Apps : call[u].op = "subscribe" => call[u].actual # k.actual

LEMMA CallGoesOn ==
    ASSUME ControlPointInv, ListInv, NEW t \in Actors, NEW c, Set(t, c), SaysNoMore(t, c),
           UNCHANGED <<registered, subVars, active, greeted>>
    PROVE  ListInv'
<1>1. call'[t] = c /\ \A u \in Actors \ {t} : call'[u] = call[u]
  BY SetEffect DEF ControlPointInv
<1>2. UNCHANGED <<subs, actualSID, renewEventId, deleted, endless, timer>>
  BY DEF subVars
<1>3. Apps \subseteq Actors /\ Events \subseteq Actors /\ Notifiers \subseteq Actors
  BY DEF Actors
<1>4. c.op \in {"none", call[t].op}
  BY DEF SaysNoMore, NoCall
<1>5. AppsInv'
  <2>1. \A u \in Actors : call'[u].op \in {"none", call[u].op}
    BY <1>1, <1>4
  <2>2. \A u \in Apps : call'[u].op = "unregister" /\ call'[u].at = "freeing" => subs = {}
    BY <1>1, <1>3 DEF ListInv, AppsInv, SaysNoMore
  <2> QED
    BY <1>2, <1>3, <2>1, <2>2 DEF ListInv, AppsInv
<1>6. TimerInv'
  <2>1. \A e \in Events, s \in Sids : Renewing(e, s)' => Renewing(e, s)
    BY <1>1, <1>3 DEF Renewing, SaysNoMore, NoCall
  <2>2. \A e \in Events, s \in Sids : Carries(e, s)' => Carries(e, s)
    BY <1>2, <2>1 DEF Carries
  <2> QED
    BY <1>2, <2>2 DEF ListInv, TimerInv, TimerNamesSubscription
<1>7. ASSUME NEW u \in Actors, call'[u].op # "none"
      PROVE  call'[u].op = call[u].op /\ call'[u].actual = call[u].actual /\ call'[u].seq = call[u].seq
             /\ (call'[u].op # "notify" => call'[u].sid = call[u].sid)
  BY <1>1, <1>7 DEF SaysNoMore, NoCall
<1>8. NameInv'
  BY <1>2, <1>3, <1>7 DEF ListInv, NameInv, About
<1>9. FirstEventInv'
  <2> SUFFICES ASSUME NEW u \in Apps, call'[u].op = "subscribe", call'[u].actual # NoActualSid
               PROVE  /\ \A n \in Notifiers : call'[n].op = "notify" /\ call'[n].actual = call'[u].actual =>
                            call'[n].seq = 0 /\ call'[n].at \in {"start", "lock"}
                      /\ call'[u].actual \in greeted =>
                            \E n \in Notifiers : call'[n].op = "notify" /\ call'[n].actual = call'[u].actual
    BY DEF FirstEventInv
  <2>1. call[u].op = "subscribe" /\ call[u].actual = call'[u].actual
    BY <1>3, <1>7
  <2>2. \A n \in Notifiers : call[n].op = "notify" /\ call[n].actual = call[u].actual =>
           /\ call'[n].op = "notify" /\ call'[n].at \in {"start", "lock"} /\ call'[n].actual = call[n].actual
    BY <1>1, <1>3, <1>7, <2>1 DEF ListInv, FirstEventInv, SaysNoMore
  <2>3. \A n \in Notifiers : call'[n].op = "notify" => call[n].op = "notify" /\ call'[n].actual = call[n].actual
                                                       /\ call'[n].seq = call[n].seq
    BY <1>3, <1>7
  <2> QED
    BY <2>1, <2>2, <2>3 DEF ListInv, FirstEventInv
<1>10. AnswerInv'
  <2>1. \A u \in Actors : call'[u].op = "renew" /\ call'[u].at = "finish" /\ ~call'[u].ok => call'[u].actual \notin active
    BY <1>1 DEF ListInv, AnswerInv, SaysNoMore
  <2>2. \A u \in Apps : call'[u].op = "unsubscribe" /\ call'[u].at \in {"answer", "finish"} =>
           call'[u].actual \notin active
    BY <1>1, <1>3, <1>7 DEF ListInv, AnswerInv, SaysNoMore, NoCall
  <2>3. \A u \in Apps : call'[u].op = "subscribe" /\ call'[u].actual # NoActualSid =>
           /\ call'[u].actual \in active
           /\ call'[u].at = "answer" \/ (call'[u].at = "finish" /\ call'[u].ok)
    BY <1>1, <1>3, <1>7 DEF ListInv, AnswerInv, SaysNoMore, NoCall
  <2> QED
    BY <2>1, <2>2, <2>3 DEF AnswerInv
<1>11. AgreeInv'
  <2>1. \A u \in Apps, a \in active : call[u].op = "subscribe" /\ call[u].actual = a =>
           call'[u].op = "subscribe" /\ call'[u].actual = a
    BY <1>1, <1>3, <1>7, GenaControlPointAssumption DEF SaysNoMore, ControlPointInv, ThreadInv
  <2>2. \A u \in Apps, a \in active : Unlisting(u, a) => Unlisting(u, a)'
    BY <1>1, <1>3 DEF SaysNoMore, Unlisting
  <2>3. \A u \in Apps, s \in subs : Ending(u, s) => Ending(u, s)'
    BY <1>1, <1>3, <1>7 DEF SaysNoMore, Ending, NoCall
  <2> QED
    BY <1>2, <2>1, <2>2, <2>3 DEF ListInv, AgreeInv
<1> QED
  BY <1>5, <1>6, <1>8, <1>9, <1>10, <1>11 DEF ListInv

(* A call ends that has settled what it was about.                          *)
LEMMA SettledCallEnds ==
    ASSUME ControlPointInv, ListInv, NEW t \in Actors, Ends(t), UNCHANGED <<registered, subVars, active, greeted>>,
           call[t].op = "subscribe" => call[t].actual = NoActualSid,
           call[t].op = "unsubscribe" => call[t].at \notin {"answer", "finish"}, ~(call[t].op = "unregister" /\ call[t].at = "request"),
           call[t].op = "notify" => \A u \in Apps : call[u].op = "subscribe" => call[u].actual # call[t].actual
    PROVE  ListInv'
<1>1. PICK c : c = NoCall
  OBVIOUS
<1>2. SaysNoMore(t, c) /\ Set(t, c)
  BY <1>1 DEF SaysNoMore, NoCall, Ends
<1> QED
  BY <1>2, CallGoesOn

LEMMA RegisterKeepsList ==
    ASSUME ControlPointInv, ListInv, Register
    PROVE  ListInv'
  BY DEF Register, subVars, publisherVars, ListInv, AppsInv, TimerInv, TimerNamesSubscription, Carries, Renewing,
     NameInv, FirstEventInv, AnswerInv, AgreeInv, Unlisting, Ending

(* The requests of the application.                                         *)
LEMMA BeginsKeepList ==
    ASSUME Reliable, ControlPointInv, ListInv, NEW t \in Apps, NEW c, Set(t, c), AppMayCall(t), registered,
           UNCHANGED <<registered, subVars, active, greeted>>,
           \/ c.op = "subscribe" /\ c.actual = NoActualSid
           \/ c.op = "unregister" /\ c.at = "start" /\ c.actual = NoActualSid /\ \A u \in Apps : Idle(u)
           \/ c.op = "unsubscribe" /\ c.at = "request" /\ c.sid \in subs /\ c.actual = actualSID[c.sid]
    PROVE  ListInv'
<1>1. call'[t] = c /\ (\A u \in Actors \ {t} : call'[u] = call[u]) /\ Apps \subseteq Actors
  BY SetEffect DEF ControlPointInv, Actors
<1>2. /\ UNCHANGED <<subs, actualSID, renewEventId, deleted, endless, timer>>
      /\ call[t].op = "none" /\ c.op # "none" /\ \A u \in Apps : call[u].op # "unregister"
      /\ \A s \in subs : actualSID[s] \in ActualSids
  BY DEF subVars, AppMayCall, Idle, NoCall, Reliable, Unregistering, ControlPointInv, EntryInv
<1>3. t \notin Events /\ t \notin Notifiers /\ Events \subseteq Actors /\ Notifiers \subseteq Actors
      /\ NoActualSid \notin ActualSids
  BY GenaControlPointAssumption DEF Actors
<1>4. AppsInv'
  BY <1>1, <1>2 DEF ListInv, AppsInv, Idle, NoCall
<1>5. TimerInv'
  BY <1>1, <1>2, <1>3 DEF ListInv, TimerInv, TimerNamesSubscription, Carries, Renewing
<1>6. NameInv'
  <2>1. \A u \in Apps : call'[u].op = "subscribe" /\ call'[u].actual # NoActualSid => u # t
    BY <1>1, <1>2, <1>3 DEF AppMayCall
  <2>2. \A u \in Apps : call'[u].op = "subscribe" /\ call'[u].actual # NoActualSid =>
           /\ \A s \in subs : actualSID[s] # call'[u].actual
           /\ \A v \in Actors : About(call'[v]) => call'[v].actual # call'[u].actual
    BY <1>1, <1>2, <1>3, <2>1 DEF ListInv, NameInv, About
  <2>3. \A u \in Actors, s \in subs : About(call'[u]) /\ call'[u].actual = actualSID[s] =>
           call'[u].op # "unregister" /\ call'[u].sid = s
    BY <1>1, <1>2, <1>3 DEF ListInv, NameInv, About
  <2>4. \A u \in Actors : call'[u].op = "unsubscribe" => call'[u].actual \in ActualSids
    BY <1>1, <1>2, <1>3 DEF ListInv, NameInv
  <2>5. \A u \in Actors : call'[u].op \in {"renew", "unsubscribe"} /\ call'[u].sid \in subs =>
          call'[u].actual \in {NoActualSid, actualSID[call'[u].sid]}
    BY <1>1, <1>2, <1>3 DEF ListInv, NameInv
  <2> QED
    BY <1>2, <2>2, <2>3, <2>4, <2>5 DEF ListInv, NameInv
<1>7. FirstEventInv'
  BY <1>1, <1>2, <1>3 DEF ListInv, FirstEventInv
<1>8. AnswerInv'
  BY <1>1, <1>2, <1>3 DEF ListInv, AnswerInv
<1>9. AgreeInv'
  <2>1. \A u \in Apps, a \in active : call[u].op = "subscribe" /\ call[u].actual = a =>
           call'[u].op = "subscribe" /\ call'[u].actual = a
    BY <1>1, <1>2
  <2>2. \A u \in Apps, a \in active : Unlisting(u, a) => Unlisting(u, a)'
    BY <1>1, <1>2 DEF Unlisting
  <2>3. \A u \in Apps, s \in subs : Ending(u, s) => Ending(u, s)'
    BY <1>1, <1>2 DEF Ending
  <2> QED
    BY <1>2, <2>1, <2>2, <2>3 DEF ListInv, AgreeInv
<1> QED
  BY <1>4, <1>5, <1>6, <1>7, <1>8, <1>9 DEF ListInv


(* Steps that only move a call on.                                          *)
LEMMA SubscribeLocksKeepsList ==
    ASSUME ControlPointInv, ListInv, NEW t \in Actors, SubscribeLocks(t)
    PROVE  ListInv'
<1>1. call[t] \in Call /\ Fits(t, call[t])
  BY DEF ControlPointInv, ThreadInv
<1>2. PICK c : c = [call[t] EXCEPT !.at = "request"]
  OBVIOUS
<1>3. c.op = call[t].op /\ c.actual = call[t].actual /\ c.seq = call[t].seq /\ c.sid = call[t].sid /\ c.at = "request"
  BY <1>1, <1>2 DEF Call
<1>4. call[t].op = "subscribe" /\ call[t].actual = NoActualSid
  BY <1>1 DEF SubscribeLocks, Is, Fits
<1>5. SaysNoMore(t, c)
  BY <1>3, <1>4 DEF SaysNoMore
<1> QED
  BY <1>2, <1>5, CallGoesOn DEF SubscribeLocks, Moves, publisherVars

LEMMA AnswerArrivesKeepsList ==
    ASSUME ControlPointInv, ListInv, NEW t \in Actors, AnswerArrives(t)
    PROVE  ListInv'
<1>1. call[t] \in Call /\ Fits(t, call[t])
  BY DEF ControlPointInv, ThreadInv
<1>2. PICK c : c = [call[t] EXCEPT !.at = "finish", !.ok = TRUE]
  OBVIOUS
<1>3. /\ c.op = call[t].op /\ c.actual = call[t].actual /\ c.seq = call[t].seq /\ c.sid = call[t].sid
      /\ c.at = "finish" /\ c.ok /\ call[t].at = "answer"
  BY <1>1, <1>2 DEF Call, AnswerArrives
<1>4. call[t].op = "notify" => \A u \in Apps : call[u].op = "subscribe" => call[u].actual # call[t].actual
  <2> SUFFICES ASSUME call[t].op = "notify", NEW u \in Apps, call[u].op = "subscribe", call[u].actual = call[t].actual
               PROVE  FALSE
    OBVIOUS
  <2>1. t \in Notifiers /\ call[t].actual \in ActualSids
    BY <1>1 DEF Fits
  <2> QED
    BY <1>3, <2>1, GenaControlPointAssumption DEF ListInv, FirstEventInv
<1>5. SaysNoMore(t, c)
  BY <1>3, <1>4 DEF SaysNoMore
<1> QED
  BY <1>2, <1>5, CallGoesOn DEF AnswerArrives, publisherVars

LEMMA RequestFailsKeepsList ==
    ASSUME Reliable, ControlPointInv, ListInv, NEW t \in Actors, RequestFails(t)
    PROVE  ListInv'
<1>1. call[t] \in Call /\ Fits(t, call[t])
  BY DEF ControlPointInv, ThreadInv
<1>2. PICK c : c = [call[t] EXCEPT !.at = "finish", !.ok = FALSE]
  OBVIOUS
<1>3. /\ c.op = call[t].op /\ c.actual = call[t].actual /\ c.seq = call[t].seq /\ c.sid = call[t].sid
      /\ c.at = "finish" /\ ~c.ok
  BY <1>1, <1>2 DEF Call
<1>4. /\ call[t].at = "request"
      /\ \/ call[t].op = "renew" /\ call[t].actual \notin active
         \/ call[t].op = "subscribe" /\ call[t].actual = NoActualSid
  BY <1>1 DEF RequestFails, Is, Fits, Reliable
<1>5. SaysNoMore(t, c)
  BY <1>3, <1>4 DEF SaysNoMore
<1> QED
  BY <1>2, <1>5, CallGoesOn DEF RequestFails, publisherVars

LEMMA PublisherRenewsKeepsList ==
    ASSUME ControlPointInv, ListInv, NEW t \in Actors, PublisherRenews(t)
    PROVE  ListInv'
<1>1. call[t] \in Call
  BY DEF ControlPointInv, ThreadInv
<1>2. PICK timed \in BOOLEAN : Set(t, [call[t] EXCEPT !.at = "answer", !.timed = timed])
  BY DEF PublisherRenews
<1>3. PICK c : c = [call[t] EXCEPT !.at = "answer", !.timed = timed]
  OBVIOUS
<1>4. /\ c.op = call[t].op /\ c.actual = call[t].actual /\ c.seq = call[t].seq /\ c.sid = call[t].sid
      /\ c.at = "answer" /\ call[t].op = "renew" /\ call[t].at = "request"
  BY <1>1, <1>3 DEF Call, PublisherRenews, Is
<1>5. SaysNoMore(t, c)
  BY <1>4 DEF SaysNoMore
<1> QED
  BY <1>2, <1>3, <1>5, CallGoesOn DEF PublisherRenews, publisherVars

LEMMA JobReportsKeepsList ==
    ASSUME ControlPointInv, ListInv, NEW t \in Actors, JobReports(t)
    PROVE  ListInv'
<1>1. call[t] \in Call /\ call[t].op = "renew" /\ call[t].at = "report"
      /\ UNCHANGED <<registered, subVars, active, greeted>>
  BY DEF ControlPointInv, ThreadInv, JobReports, Is, publisherVars
<1>2. CASE Ends(t)
  BY <1>1, <1>2, SettledCallEnds
<1>3. CASE Moves(t, "callback")
  <2>1. PICK c : c = [call[t] EXCEPT !.at = "callback"]
    OBVIOUS
  <2>2. /\ c.op = call[t].op /\ c.actual = call[t].actual /\ c.seq = call[t].seq /\ c.sid = call[t].sid
        /\ c.at = "callback"
    BY <1>1, <2>1 DEF Call
  <2>3. SaysNoMore(t, c)
    BY <1>1, <2>2 DEF SaysNoMore
  <2> QED
    BY <1>1, <1>3, <2>1, <2>3, CallGoesOn DEF Moves
<1> QED
  BY <1>2, <1>3 DEF JobReports

LEMMA CallbackKeepsList ==
    ASSUME ControlPointInv, ListInv, NEW t \in Actors, CallbackIsMade(t)
    PROVE  ListInv'
<1>1. /\ call[t].at = "callback" /\ Ends(t) /\ UNCHANGED <<registered, subVars, active, greeted>>
  BY DEF CallbackIsMade, publisherVars
<1>2. Fits(t, call[t])
  BY DEF ControlPointInv, ThreadInv
<1>3. call[t].op # "subscribe"
  BY <1>1, <1>2 DEF Fits
<1>4. call[t].op = "notify" => \A u \in Apps : call[u].op = "subscribe" => call[u].actual # call[t].actual
  BY <1>1, <1>2, GenaControlPointAssumption DEF Fits, ListInv, FirstEventInv
<1> QED
  BY <1>1, <1>3, <1>4, SettledCallEnds

(* A timer event becomes a job.                                             *)
LEMMA TimerFiresKeepsList ==
    ASSUME ControlPointInv, ListInv, NEW e \in Events, TimerFires(e)
    PROVE  ListInv'
<1>1. PICK c : c = [NoCall EXCEPT !.op = "renew", !.at = "start", !.sid = timer[e]]
  OBVIOUS
<1>2. c.op = "renew" /\ c.at = "start" /\ c.sid = timer[e] /\ c.actual = NoActualSid
  BY <1>1 DEF NoCall
<1>3. /\ e \in Actors /\ e \notin Apps /\ e \notin Notifiers /\ NoActualSid \notin ActualSids
      /\ Apps \subseteq Actors /\ Events \subseteq Actors /\ Notifiers \subseteq Actors
  BY GenaControlPointAssumption DEF Actors
<1>4. /\ timer' = [timer EXCEPT ![e] = NoSid] /\ Set(e, c) /\ timer[e] # NoSid
      /\ UNCHANGED <<registered, subs, actualSID, renewEventId, deleted, endless, active, greeted>>
  BY <1>1 DEF TimerFires, publisherVars
<1>5. call'[e] = c /\ \A u \in Actors \ {e} : call'[u] = call[u]
  BY <1>3, <1>4, SetEffect DEF ControlPointInv
<1>6. timer'[e] = NoSid /\ \A f \in Events \ {e} : timer'[f] = timer[f]
  BY <1>4 DEF ControlPointInv, EntryInv
<1>7. Idle(e) /\ \A s \in subs : actualSID[s] \in ActualSids
  BY <1>4 DEF ControlPointInv, EventInv, EntryInv
<1>8. AppsInv'
  BY <1>3, <1>4, <1>5 DEF ListInv, AppsInv
<1>9. TimerInv'
  <2>1. \A f \in Events, s \in Sids : Carries(f, s)' => Carries(f, s)
    <3> SUFFICES ASSUME NEW f \in Events, NEW s \in Sids, Carries(f, s)'
                 PROVE  Carries(f, s)
      OBVIOUS
    <3>1. CASE f = e
      <4>1. NoSid # s
        BY GenaControlPointAssumption
      <4> QED
        BY <1>2, <1>5, <1>6, <3>1, <4>1 DEF Carries, Renewing
    <3>2. CASE f # e
      BY <1>3, <1>5, <1>6, <3>2 DEF Carries, Renewing
    <3> QED
      BY <3>1, <3>2
  <2>2. TimerNamesSubscription'
    BY <1>4, <1>6 DEF ListInv, TimerInv, TimerNamesSubscription
  <2> QED
    BY <1>4, <2>1, <2>2 DEF ListInv, TimerInv
<1>10. NameInv'
  BY <1>2, <1>3, <1>4, <1>5, <1>7 DEF ListInv, NameInv, About
<1>11. FirstEventInv'
  BY <1>3, <1>4, <1>5 DEF ListInv, FirstEventInv
<1>12. AnswerInv'
  BY <1>2, <1>3, <1>4, <1>5 DEF ListInv, AnswerInv
<1>13. AgreeInv'
  BY <1>3, <1>4, <1>5 DEF ListInv, AgreeInv, Unlisting, Ending
<1> QED
  BY <1>8, <1>9, <1>10, <1>11, <1>12, <1>13 DEF ListInv

(* The publisher's side.                                                    *)
LEMMA PublisherNotifiesKeepsList ==
    ASSUME ControlPointInv, ListInv, NEW n \in Notifiers, NEW a \in ActualSids, PublisherNotifies(n, a)
    PROVE  ListInv'
<1>1. PICK c : c = [NoCall EXCEPT !.op = "notify", !.at = "start", !.actual = a, !.seq = IF a \in greeted THEN 1 ELSE 0]
  OBVIOUS
<1>2. c.op = "notify" /\ c.at = "start" /\ c.actual = a /\ c.seq = IF a \in greeted THEN 1 ELSE 0
  BY <1>1 DEF NoCall
<1>3. /\ n \in Actors /\ n \notin Apps /\ n \notin Events
      /\ Apps \subseteq Actors /\ Events \subseteq Actors /\ Notifiers \subseteq Actors
  BY GenaControlPointAssumption DEF Actors
<1>4. /\ Set(n, c) /\ UNCHANGED <<registered, subs, actualSID, renewEventId, deleted, endless, timer, active>>
      /\ greeted' = greeted \cup {a} /\ Idle(n) /\ \A m \in Notifiers : call[m].actual # a
  BY <1>1 DEF PublisherNotifies, subVars
<1>5. call'[n] = c /\ \A u \in Actors \ {n} : call'[u] = call[u]
  BY <1>3, <1>4, SetEffect DEF ControlPointInv
<1>6. AppsInv' /\ TimerInv'
  BY <1>2, <1>3, <1>4, <1>5 DEF ListInv, AppsInv, TimerInv, TimerNamesSubscription, Carries, Renewing
<1>7. NameInv'
  BY <1>2, <1>3, <1>4, <1>5 DEF ListInv, NameInv, About
<1>8. FirstEventInv'
  <2> SUFFICES ASSUME NEW t \in Apps, call[t].op = "subscribe", call[t].actual # NoActualSid
               PROVE  /\ \A m \in Notifiers : call'[m].op = "notify" /\ call'[m].actual = call[t].actual =>
                            call'[m].seq = 0 /\ call'[m].at \in {"start", "lock"}
                      /\ call[t].actual \in greeted' =>
                            \E m \in Notifiers : call'[m].op = "notify" /\ call'[m].actual = call[t].actual
    BY <1>3, <1>5 DEF FirstEventInv
  <2>1. CASE call[t].actual = a
    <3>1. a \notin greeted
      BY <1>4, <2>1 DEF ListInv, FirstEventInv
    <3> QED
      BY <1>2, <1>3, <1>4, <1>5, <2>1, <3>1 
  <2>2. CASE call[t].actual # a
    <3>1. \A m \in Notifiers : call[m].op = "notify" => m # n
      BY <1>4 DEF Idle, NoCall
    <3> QED
      BY <1>2, <1>3, <1>4, <1>5, <2>2, <3>1 DEF ListInv, FirstEventInv
  <2> QED
    BY <2>1, <2>2
<1>9. AnswerInv'
  BY <1>2, <1>3, <1>4, <1>5 DEF ListInv, AnswerInv
<1>10. AgreeInv'
  BY <1>3, <1>4, <1>5 DEF ListInv, AgreeInv, Unlisting, Ending
<1> QED
  BY <1>6, <1>7, <1>8, <1>9, <1>10 DEF ListInv

LEMMA PublisherSubscribesKeepsList ==
    ASSUME ControlPointInv, ListInv, NEW t \in Actors, PublisherSubscribes(t)
    PROVE  ListInv'
<1>1. call[t] \in Call /\ Fits(t, call[t])
  BY DEF ControlPointInv, ThreadInv
<1>2. PICK a \in ActualSids, timed \in BOOLEAN :
         /\ FreshActualSid(a) /\ active' = active \cup {a} /\ greeted' = greeted \ {a}
         /\ Set(t, [call[t] EXCEPT !.at = "answer", !.actual = a, !.timed = timed])
  BY DEF PublisherSubscribes
<1>3. PICK c : c = [call[t] EXCEPT !.at = "answer", !.actual = a, !.timed = timed]
  OBVIOUS
<1>4. call[t].op = "subscribe" /\ call[t].at = "request" /\ call[t].actual = NoActualSid
  BY <1>1 DEF PublisherSubscribes, Is, Fits
<1>5. c.op = "subscribe" /\ c.at = "answer" /\ c.actual = a
  BY <1>1, <1>3, <1>4 DEF Call
<1>6. UNCHANGED <<registered, subs, actualSID, renewEventId, deleted, endless, timer>>
  BY DEF PublisherSubscribes, subVars
<1>7. call'[t] = c /\ \A u \in Actors \ {t} : call'[u] = call[u]
  BY <1>2, <1>3, SetEffect DEF ControlPointInv
<1>8. /\ a \notin active /\ (\A u \in Actors : call[u].actual # a) /\ (\A s \in subs : actualSID[s] # a)
      /\ a # NoActualSid
  BY <1>2, GenaControlPointAssumption DEF FreshActualSid
<1>9. /\ t \in Apps /\ t \notin Events /\ t \notin Notifiers
      /\ Apps \subseteq Actors /\ Events \subseteq Actors /\ Notifiers \subseteq Actors
  BY <1>1, <1>4, GenaControlPointAssumption DEF Actors, Fits
<1>10. AppsInv'
  BY <1>4, <1>5, <1>6, <1>7, <1>9 DEF ListInv, AppsInv
<1>11. TimerInv'
  BY <1>6, <1>7, <1>9 DEF ListInv, TimerInv, TimerNamesSubscription, Carries, Renewing
<1>12. NameInv'
  <2>1. \A u \in Actors : About(call'[u]) => u # t /\ call'[u] = call[u]
    BY <1>5, <1>7 DEF About
  <2>2. \A u \in Apps : call'[u].op = "subscribe" /\ call'[u].actual # NoActualSid =>
          /\ \A s \in subs : actualSID[s] # call'[u].actual
          /\ \A v \in Actors : About(call'[v]) => call'[v].actual # call'[u].actual
    BY <1>5, <1>7, <1>8, <1>9, <2>1 DEF ListInv, NameInv
  <2>3. \A u \in Actors : call'[u].op \in {"renew", "unsubscribe"} => call'[u] = call[u]
    BY <2>1 DEF About
  <2> QED
    BY <1>6, <2>1, <2>2, <2>3 DEF ListInv, NameInv
<1>13. FirstEventInv'
  <2> SUFFICES ASSUME NEW u \in Apps, call'[u].op = "subscribe", call'[u].actual # NoActualSid
               PROVE  /\ \A n \in Notifiers : call[n].op = "notify" /\ call[n].actual = call'[u].actual =>
                            call[n].seq = 0 /\ call[n].at \in {"start", "lock"}
                      /\ call'[u].actual \in greeted' =>
                            \E n \in Notifiers : call[n].op = "notify" /\ call[n].actual = call'[u].actual
    BY <1>7, <1>9 DEF FirstEventInv
  <2>1. CASE u = t
    BY <1>2, <1>5, <1>7, <1>8, <1>9, <2>1
  <2>2. CASE u # t
    BY <1>2, <1>7, <1>9, <2>2 DEF ListInv, FirstEventInv
  <2> QED
    BY <2>1, <2>2
<1>14. AnswerInv'
  BY <1>2, <1>5, <1>7, <1>8, <1>9 DEF ListInv, AnswerInv
<1>15. AgreeInv'
  <2>1. \A u \in Apps, b \in active : call[u].op = "subscribe" /\ call[u].actual = b =>
           call'[u].op = "subscribe" /\ call'[u].actual = b
    <3>1. NoActualSid \notin active
      BY GenaControlPointAssumption DEF ControlPointInv, ThreadInv
    <3> QED
      BY <1>4, <1>7, <1>9, <3>1
  <2>2. \A u \in Apps, b \in active : Unlisting(u, b) => Unlisting(u, b)'
    BY <1>4, <1>7, <1>9 DEF Unlisting
  <2>3. \A u \in Apps, s \in subs : Ending(u, s) => Ending(u, s)'
    BY <1>4, <1>7, <1>9 DEF Ending
  <2>4. call'[t].op = "subscribe" /\ call'[t].actual = a
    BY <1>5, <1>7
  <2> QED
    BY <1>2, <1>6, <1>9, <2>1, <2>2, <2>3, <2>4 DEF ListInv, AgreeInv
<1> QED
  BY <1>10, <1>11, <1>12, <1>13, <1>14, <1>15 DEF ListInv

LEMMA PublisherUnsubscribesKeepsList ==
    ASSUME ControlPointInv, ListInv, NEW t \in Actors, PublisherUnsubscribes(t)
    PROVE  ListInv'
<1>1. call[t] \in Call /\ Fits(t, call[t])
  BY DEF ControlPointInv, ThreadInv
<1>2. PICK a : a = call[t].actual
  OBVIOUS
<1>3. PICK c : c = [call[t] EXCEPT !.at = "answer"]
  OBVIOUS
<1>4. /\ call[t].op \in {"unsubscribe", "unregister"} /\ call[t].at = "request"
      /\ c.op = call[t].op /\ c.at = "answer" /\ c.actual = a /\ c.sid = call[t].sid
  BY <1>1, <1>2, <1>3 DEF Call, PublisherUnsubscribes, Is
<1>5. /\ UNCHANGED <<registered, subs, actualSID, renewEventId, deleted, endless, timer, greeted>>
      /\ active' = active \ {a} /\ Set(t, c)
  BY <1>2, <1>3 DEF PublisherUnsubscribes, subVars, Moves
<1>6. call'[t] = c /\ \A u \in Actors \ {t} : call'[u] = call[u]
  BY <1>5, SetEffect DEF ControlPointInv
<1>7. /\ t \in Apps /\ t \notin Events /\ t \notin Notifiers
      /\ Apps \subseteq Actors /\ Events \subseteq Actors /\ Notifiers \subseteq Actors
  BY <1>1, <1>4, GenaControlPointAssumption DEF Actors, Fits
<1>8. AppsInv'
  BY <1>4, <1>5, <1>6, <1>7 DEF ListInv, AppsInv
<1>9. TimerInv'
  BY <1>5, <1>6, <1>7 DEF ListInv, TimerInv, TimerNamesSubscription, Carries, Renewing
<1>10. ASSUME NEW u \in Actors
       PROVE  call'[u].op = call[u].op /\ call'[u].actual = call[u].actual /\ call'[u].sid = call[u].sid
  BY <1>2, <1>4, <1>6
<1>11. NameInv'
  BY <1>5, <1>7, <1>10 DEF ListInv, NameInv, About
<1>12. FirstEventInv'
  BY <1>4, <1>5, <1>6, <1>7 DEF ListInv, FirstEventInv
<1>13. \A u \in Apps : call[u].op = "subscribe" /\ call[u].actual # NoActualSid => call[u].actual # a
  BY <1>2, <1>4 DEF ListInv, NameInv, About
<1>14. AnswerInv'
  <2>1. \A u \in Actors : call'[u].op = "renew" /\ call'[u].at = "finish" /\ ~call'[u].ok => call'[u].actual \notin active'
    BY <1>4, <1>5, <1>6 DEF ListInv, AnswerInv
  <2>2. \A u \in Apps : call'[u].op = "unsubscribe" /\ call'[u].at \in {"answer", "finish"} =>
           call'[u].actual \notin active'
    BY <1>4, <1>5, <1>6, <1>7 DEF ListInv, AnswerInv
  <2>3. \A u \in Apps : call'[u].op = "subscribe" /\ call'[u].actual # NoActualSid =>
           /\ call'[u].actual \in active'
           /\ call'[u].at = "answer" \/ (call'[u].at = "finish" /\ call'[u].ok)
    BY <1>4, <1>5, <1>6, <1>7, <1>13 DEF ListInv, AnswerInv
  <2> QED
    BY <2>1, <2>2, <2>3 DEF AnswerInv
<1>15. AgreeInv'
  <2>1. ASSUME NEW b \in active'
        PROVE  \/ \E s \in subs : actualSID[s] = b
               \/ \E u \in Apps : call'[u].op = "subscribe" /\ call'[u].actual = b
               \/ \E u \in Apps : Unlisting(u, b)'
    <3>1. b \in active /\ b # a
      BY <1>5
    <3>2. \A u \in Apps : Unlisting(u, b) => Unlisting(u, b)'
      BY <1>2, <1>6, <1>7, <3>1 DEF Unlisting
    <3> QED
      BY <1>7, <1>10, <3>1, <3>2 DEF ListInv, AgreeInv
  <2>2. ASSUME NEW s \in subs
        PROVE  actualSID[s] \in active' \/ \E u \in Apps : Ending(u, s)'
    <3>1. CASE actualSID[s] = a
      <4>1. call[t].op = "unsubscribe" /\ call[t].sid = s
        BY <1>2, <1>4, <3>1 DEF ListInv, NameInv, About
      <4>2. Ending(t, s)'
        BY <1>4, <1>6, <4>1 DEF Ending
      <4> QED
        BY <1>7, <4>2
    <3>2. CASE actualSID[s] # a
      <4>1. \A u \in Apps : Ending(u, s) => Ending(u, s)'
        BY <1>4, <1>6, <1>7 DEF Ending
      <4> QED
        BY <1>5, <3>2, <4>1 DEF ListInv, AgreeInv
    <3> QED
      BY <3>1, <3>2
  <2> QED
    BY <1>5, <2>1, <2>2 DEF AgreeInv
<1> QED
  BY <1>8, <1>9, <1>11, <1>12, <1>14, <1>15 DEF ListInv

LEMMA NotifyKeepsList ==
    ASSUME ControlPointInv, ListInv, NEW n \in Actors, NotifyLooksUp(n) \/ NotifyLooksAgain(n)
    PROVE  ListInv'
<1>1. call[n] \in Call /\ Fits(n, call[n]) /\ NoActualSid \notin ActualSids
  BY GenaControlPointAssumption DEF ControlPointInv, ThreadInv
<1>2. /\ call[n].op = "notify" /\ call[n].at \in {"start", "lock"}
      /\ UNCHANGED <<registered, subs, actualSID, renewEventId, deleted, endless, timer, greeted>>
  BY DEF NotifyLooksUp, NotifyLooksAgain, Is, subVars
<1>3. PICK a \in ActualSids : a = call[n].actual
  BY <1>1, <1>2 DEF Fits
<1>4. CASE Accepts(n)
  <2>1. PICK s \in subs : actualSID[s] = a /\ Set(n, [call[n] EXCEPT !.at = "callback", !.sid = s])
    BY <1>3, <1>4 DEF Accepts, Subscriptions
  <2>2. PICK c : c = [call[n] EXCEPT !.at = "callback", !.sid = s]
    OBVIOUS
  <2>3. c.op = "notify" /\ c.at = "callback" /\ c.actual = a /\ c.seq = call[n].seq
    BY <1>1, <1>2, <1>3, <2>2 DEF Call
  <2>4. \A u \in Apps : call[u].op = "subscribe" => call[u].actual # a
    BY <1>1, <2>1 DEF ListInv, NameInv
  <2>5. SaysNoMore(n, c)
    BY <1>2, <1>3, <2>3, <2>4 DEF SaysNoMore
  <2> QED
    BY <1>2, <1>4, <2>1, <2>2, <2>5, CallGoesOn DEF Accepts, subVars
<1>5. CASE WaitsForSubscribe(n)
  <2>1. PICK c : c = [call[n] EXCEPT !.at = "lock"]
    OBVIOUS
  <2>2. c.op = "notify" /\ c.at = "lock" /\ c.actual = call[n].actual /\ c.seq = call[n].seq /\ Set(n, c)
    BY <1>1, <1>2, <1>5, <2>1 DEF Call, WaitsForSubscribe, Moves
  <2>3. SaysNoMore(n, c)
    BY <1>2, <2>2 DEF SaysNoMore
  <2> QED
    BY <1>2, <1>5, <2>2, <2>3, CallGoesOn DEF WaitsForSubscribe, subVars
<1>6. ASSUME Rejects(n), ~registered \/ call[n].seq # 0 \/ subscribeLock = NoOne
      PROVE  ListInv'
  <2>1. /\ Apps \subseteq Actors /\ Events \subseteq Actors /\ Notifiers \subseteq Actors
        /\ n \notin Apps /\ n \notin Events
    BY <1>1, <1>2, GenaControlPointAssumption DEF Actors, Fits
  <2>2. \A u \in Apps : call[u].op = "subscribe" => call[u].actual # a
    <3> SUFFICES ASSUME NEW u \in Apps, call[u].op = "subscribe", call[u].actual = a
                 PROVE  FALSE
      OBVIOUS
    <3>1. registered
      BY DEF ListInv, AppsInv
    <3>2. n \in Notifiers /\ call[n].seq = 0
      BY <1>1, <1>2, <1>3 DEF Fits, ListInv, FirstEventInv
    <3>3. Inside(call[u])
      BY <1>1 DEF ListInv, AnswerInv, Inside
    <3> QED
      BY <1>6, <2>1, <3>1, <3>2, <3>3, GenaControlPointAssumption DEF ControlPointInv, ThreadInv
  <2>3. \A s \in subs : actualSID[s] # a
    BY <1>3, <1>6 DEF Rejects, Subscriptions, ControlPointInv, EntryInv
  <2>4. active' = active \ {a} /\ Ends(n)
    BY <1>3, <1>6 DEF Rejects
  <2>5. PICK c : c = NoCall
    OBVIOUS
  <2>6. c.op = "none" /\ Set(n, c)
    BY <2>4, <2>5 DEF Ends, NoCall
  <2>7. call'[n] = c /\ \A u \in Actors \ {n} : call'[u] = call[u]
    BY <2>6, SetEffect DEF ControlPointInv
  <2>8. AppsInv'
    BY <1>2, <2>1, <2>7 DEF ListInv, AppsInv
  <2>9. TimerInv'
    BY <1>2, <2>1, <2>7 DEF ListInv, TimerInv, TimerNamesSubscription, Carries, Renewing
  <2>10. NameInv'
    BY <1>2, <2>1, <2>6, <2>7 DEF ListInv, NameInv, About
  <2>11. FirstEventInv'
    BY <1>2, <1>3, <2>1, <2>2, <2>6, <2>7 DEF ListInv, FirstEventInv
  <2>12. AnswerInv'
    BY <1>2, <2>1, <2>2, <2>4, <2>6, <2>7 DEF ListInv, AnswerInv
  <2>13. AgreeInv'
    BY <1>2, <2>1, <2>3, <2>4, <2>7 DEF ListInv, AgreeInv, Unlisting, Ending
  <2> QED
    BY <2>8, <2>9, <2>10, <2>11, <2>12, <2>13 DEF ListInv
<1> QED
  BY <1>4, <1>5, <1>6 DEF NotifyLooksUp, NotifyLooksAgain

(* A job looks at the list, and removes the event it was.                   *)
LEMMA JobRenewsKeepsList ==
    ASSUME ControlPointInv, ListInv, NEW t \in Actors, JobRenews(t)
    PROVE  ListInv'
<1>1. call[t] \in Call /\ Fits(t, call[t]) /\ call[t].op = "renew" /\ call[t].at = "start"
  BY DEF ControlPointInv, ThreadInv, JobRenews, Is
<1>2. CASE Ends(t) /\ UNCHANGED <<registered, subVars, subscribeLock, publisherVars>>
  BY <1>1, <1>2, SettledCallEnds DEF publisherVars
<1>3. PICK s : s = call[t].sid
  OBVIOUS
<1>4. CASE registered /\ s \in subs /\ RenewRequest(t, s)
  <2>1. PICK c : c = [NoCall EXCEPT !.op = "renew", !.at = "request", !.sid = s, !.actual = actualSID[s]]
    OBVIOUS
  <2>2. c.op = "renew" /\ c.at = "request" /\ c.sid = s /\ c.actual = actualSID[s]
    BY <2>1 DEF NoCall
  <2>3. /\ timer' = WithoutTimer(s) /\ renewEventId' = [renewEventId EXCEPT ![s] = NoEvent] /\ Set(t, c)
        /\ UNCHANGED <<registered, subs, actualSID, deleted, endless, active, greeted>>
    BY <1>4, <2>1 DEF RenewRequest, publisherVars
  <2>4. call'[t] = c /\ \A u \in Actors \ {t} : call'[u] = call[u]
    BY <2>3, SetEffect DEF ControlPointInv
  <2>5. s \in Sids /\ actualSID[s] \in ActualSids
    BY <1>4 DEF ControlPointInv, EntryInv
  <2>6. /\ Apps \subseteq Actors /\ Events \subseteq Actors /\ Notifiers \subseteq Actors
        /\ t \in Events /\ t \notin Apps /\ t \notin Notifiers
    <3>1. t \notin Apps
      BY <1>1 DEF ListInv, AppsInv
    <3> QED
      BY <1>1, <3>1, GenaControlPointAssumption DEF Actors, Fits
  <2>7. AppsInv'
    BY <2>3, <2>4, <2>6 DEF ListInv, AppsInv
  <2>8. TimerInv'
    <3>1. \A e \in Events : timer'[e] # NoSid => timer'[e] = timer[e] /\ renewEventId[s] # e
      BY <2>3, <2>5 DEF WithoutTimer
    <3>2. ASSUME NEW e \in Events, timer'[e] # NoSid
          PROVE  timer'[e] \in subs /\ renewEventId'[timer'[e]] = e
      <4>1. timer[e] \in subs /\ renewEventId[timer[e]] = e /\ timer'[e] = timer[e]
        BY <3>1, <3>2 DEF ListInv, TimerInv, TimerNamesSubscription
      <4>2. timer[e] # s /\ timer[e] \in Sids
        BY <3>1, <3>2, <4>1 DEF ControlPointInv, EntryInv
      <4> QED
        BY <2>3, <4>1, <4>2 DEF ControlPointInv, EntryInv
    <3>3. \A e \in Events, x \in Sids : Renewing(e, x)' => Renewing(e, x)
      BY <1>1, <1>3, <2>2, <2>4, <2>6 DEF Renewing
    <3>4. \A e \in Events, x \in Sids : Carries(e, x)' => Carries(e, x)
      BY <3>1, <3>3, GenaControlPointAssumption DEF Carries
    <3> QED
      BY <2>3, <3>2, <3>4 DEF ListInv, TimerInv, TimerNamesSubscription
  <2>9. NameInv'
    <3>1. \A u \in Apps : call[u].op = "subscribe" /\ call[u].actual # NoActualSid => call[u].actual # actualSID[s]
      BY <1>4 DEF ListInv, NameInv
    <3>2. \A u \in Apps : call'[u] = call[u]
      BY <2>4, <2>6
    <3>3. \A u \in Apps : call'[u].op = "subscribe" /\ call'[u].actual # NoActualSid =>
            /\ \A x \in subs : actualSID[x] # call'[u].actual
            /\ \A v \in Actors : About(call'[v]) => call'[v].actual # call'[u].actual
      BY <2>2, <2>4, <3>1, <3>2 DEF ListInv, NameInv
    <3>4. \A u \in Actors, x \in subs : About(call'[u]) /\ call'[u].actual = actualSID[x] =>
            call'[u].op # "unregister" /\ call'[u].sid = x
      BY <1>4, <2>2, <2>4 DEF ListInv, NameInv
    <3>5. \A u \in Actors : call'[u].op = "unsubscribe" => call'[u].actual \in ActualSids
      BY <2>2, <2>4 DEF ListInv, NameInv
    <3>6. \A u \in Actors : call'[u].op \in {"renew", "unsubscribe"} /\ call'[u].sid \in subs =>
             call'[u].actual \in {NoActualSid, actualSID[call'[u].sid]}
      BY <2>2, <2>4 DEF ListInv, NameInv
    <3> QED
      BY <2>3, <3>3, <3>4, <3>5, <3>6 DEF ListInv, NameInv
  <2>10. FirstEventInv' /\ AnswerInv'
    BY <2>2, <2>3, <2>4, <2>6 DEF ListInv, FirstEventInv, AnswerInv
  <2>11. AgreeInv'
    BY <2>3, <2>4, <2>6 DEF ListInv, AgreeInv, Unlisting, Ending
  <2> QED
    BY <2>7, <2>8, <2>9, <2>10, <2>11 DEF ListInv
<1> QED
  BY <1>2, <1>3, <1>4 DEF JobRenews

(* A subscription leaves the list: it has left the publisher before, or the *)
(* call will unsubscribe it.                                                *)
LEMMA SubscriptionRemoved ==
    ASSUME ControlPointInv, ListInv, NEW t \in Actors, NEW c, Set(t, c), NEW s \in Sids, RemoveClientSub(s),
           UNCHANGED <<registered, active, greeted>>,
           call[t].op \in {"renew", "unsubscribe", "unregister"}, c.op \in {"none", call[t].op},
           ~(call[t].op = "unregister" /\ call[t].at = "request"),
           call[t].op = "unsubscribe" => call[t].sid = s /\ c.op = "none",
           c.op = "renew" => c.at = "report" /\ call[t].sid = s /\ c.sid = s /\ c.actual = call[t].actual,
           c.op = "unregister" => s \in subs /\ c.at = "request" /\ c.actual = actualSID[s],
           s \in subs /\ actualSID[s] \in active => c.op = "unregister"
    PROVE  ListInv'
<1>1. call'[t] = c /\ \A u \in Actors \ {t} : call'[u] = call[u]
  BY SetEffect DEF ControlPointInv
<1>2. /\ subs' = subs \ {s} /\ timer' = WithoutTimer(s)
      /\ actualSID' = [actualSID EXCEPT ![s] = NoActualSid]
      /\ renewEventId' = [renewEventId EXCEPT ![s] = NoEvent] /\ deleted' = deleted
  BY DEF RemoveClientSub
<1>3. \A x \in Sids \ {s} : actualSID'[x] = actualSID[x] /\ renewEventId'[x] = renewEventId[x]
  BY <1>2 DEF ControlPointInv, EntryInv
<1>4. /\ Apps \subseteq Actors /\ Events \subseteq Actors /\ Notifiers \subseteq Actors /\ t \notin Notifiers
      /\ subs \subseteq Sids
  BY GenaControlPointAssumption DEF Actors, ControlPointInv, ThreadInv, EntryInv, Fits
<1>5. AppsInv'
  <2>1. \A u \in Apps : /\ call'[u].op \in {"none", call[u].op}
                        /\ call'[u].at = "freeing" /\ call'[u].op = "unregister" => call'[u] = call[u]
    BY <1>1, <1>4
  <2> QED
    BY <1>2, <1>4, <2>1 DEF ListInv, AppsInv
<1>6. TimerInv'
  <2>1. \A e \in Events : timer'[e] # NoSid => timer'[e] = timer[e] /\ renewEventId[s] # e
    BY <1>2 DEF WithoutTimer
  <2>2. ASSUME NEW e \in Events, timer'[e] # NoSid
        PROVE  timer'[e] \in subs' /\ renewEventId'[timer'[e]] = e
    <3>1. timer[e] \in subs /\ renewEventId[timer[e]] = e /\ timer'[e] = timer[e]
      BY <2>1, <2>2 DEF ListInv, TimerInv, TimerNamesSubscription
    <3>2. timer[e] # s /\ timer[e] \in Sids
      BY <1>4, <2>1, <2>2, <3>1
    <3> QED
      BY <1>2, <1>3, <3>1, <3>2
  <2>3. \A e \in Events, x \in Sids : Renewing(e, x)' => Renewing(e, x)
    BY <1>1, <1>4 DEF Renewing
  <2>4. \A e \in Events, x \in Sids : Carries(e, x)' => Carries(e, x)
    BY <2>1, <2>3, GenaControlPointAssumption DEF Carries
  <2> QED
    BY <1>2, <2>2, <2>4 DEF ListInv, TimerInv, TimerNamesSubscription
<1>7. \A x \in subs' : x \in subs /\ x \in Sids /\ x # s /\ actualSID'[x] = actualSID[x]
  BY <1>2, <1>3, <1>4
<1>8. \A u \in Apps : call'[u].op = "subscribe" => u # t /\ call'[u] = call[u]
  BY <1>1, <1>4
<1>9. NameInv'
  <2>1. \A x, y \in subs' : actualSID'[x] = actualSID'[y] => x = y
    BY <1>7 DEF ListInv, NameInv
  <2>2. \A u \in Apps : call'[u].op = "subscribe" /\ call'[u].actual # NoActualSid =>
          /\ \A x \in subs' : actualSID'[x] # call'[u].actual
          /\ \A v \in Actors : About(call'[v]) => call'[v].actual # call'[u].actual
    BY <1>1, <1>7, <1>8 DEF ListInv, NameInv, About
  <2>3. \A u \in Actors, x \in subs' : About(call'[u]) /\ call'[u].actual = actualSID'[x] =>
          call'[u].op # "unregister" /\ call'[u].sid = x
    BY <1>1, <1>7 DEF ListInv, NameInv, About
  <2>4. \A u \in Actors : call'[u].op = "unsubscribe" => call'[u].actual \in ActualSids
    BY <1>1 DEF ListInv, NameInv
  <2>5. \A u \in Actors : call'[u].op \in {"renew", "unsubscribe"} /\ call'[u].sid \in subs' =>
           call'[u].actual \in {NoActualSid, actualSID'[call'[u].sid]}
    BY <1>1, <1>7 DEF ListInv, NameInv
  <2> QED
    BY <2>1, <2>2, <2>3, <2>4, <2>5 DEF NameInv
<1>10. FirstEventInv'
  BY <1>1, <1>4, <1>8 DEF ListInv, FirstEventInv
<1>11. AnswerInv'
  BY <1>1, <1>4, <1>8 DEF ListInv, AnswerInv
<1>12. AgreeInv'
  <2>1. \A u \in Apps, a \in active : Unlisting(u, a) => Unlisting(u, a)'
    BY <1>1, <1>4 DEF Unlisting
  <2>2. \A u \in Apps, x \in subs' : Ending(u, x) => Ending(u, x)'
    BY <1>1, <1>4, <1>7 DEF Ending
  <2>3. \A u \in Apps : call[u].op = "subscribe" => call'[u] = call[u]
    BY <1>1, <1>4
  <2>4. \A a \in active : s \in subs /\ actualSID[s] = a => t \in Apps /\ Unlisting(t, a)'
    BY <1>1 DEF Unlisting, ControlPointInv, ThreadInv, Fits
  <2>5. ASSUME NEW a \in active
        PROVE  \/ \E x \in subs' : actualSID'[x] = a
               \/ \E u \in Apps : call'[u].op = "subscribe" /\ call'[u].actual = a
               \/ \E u \in Apps : Unlisting(u, a)'
    <3>1. CASE \E x \in subs : actualSID[x] = a
      BY <1>2, <1>3, <1>4, <2>4, <3>1
    <3>2. CASE \E u \in Apps : call[u].op = "subscribe" /\ call[u].actual = a
      BY <2>3, <3>2
    <3>3. CASE \E u \in Apps : Unlisting(u, a)
      BY <2>1, <3>3
    <3> QED
      BY <3>1, <3>2, <3>3 DEF ListInv, AgreeInv
  <2>6. \A x \in subs' : actualSID'[x] \in active \/ \E u \in Apps : Ending(u, x)'
    BY <1>7, <2>2 DEF ListInv, AgreeInv
  <2> QED
    BY <2>5, <2>6 DEF AgreeInv
<1> QED
  BY <1>5, <1>6, <1>9, <1>10, <1>11, <1>12 DEF ListInv

LEMMA UnsubscribeFinishesKeepsList ==
    ASSUME ControlPointInv, ListInv, NEW t \in Actors, UnsubscribeFinishes(t)
    PROVE  ListInv'
<1>1. /\ call[t].op = "unsubscribe" /\ call[t].at = "finish" /\ Ends(t) /\ UNCHANGED <<registered, active, greeted>>
      /\ call[t].sid \in Sids /\ t \in Apps
  BY DEF UnsubscribeFinishes, Is, publisherVars, ControlPointInv, ThreadInv, Fits
<1>2. RemoveClientSub(call[t].sid)
  <2>1. registered
    BY <1>1 DEF ListInv, AppsInv
  <2> QED
    BY <2>1 DEF UnsubscribeFinishes
<1>3. PICK s \in Sids : s = call[t].sid
  BY <1>1
<1>4. PICK c : c = NoCall
  OBVIOUS
<1>5. c.op = "none" /\ Set(t, c)
  BY <1>1, <1>4 DEF NoCall, Ends
<1>6. ~(s \in subs /\ actualSID[s] \in active)
  <2>1. call[t].actual \notin active /\ call[t].actual \in ActualSids
    BY <1>1 DEF ListInv, AnswerInv, NameInv
  <2>2. s \in subs => call[t].actual = actualSID[s]
    BY <1>1, <1>3, <2>1, GenaControlPointAssumption DEF ListInv, NameInv
  <2> QED
    BY <2>1, <2>2
<1> QED
  BY <1>1, <1>2, <1>3, <1>5, <1>6, SubscriptionRemoved

LEMMA UnregisterTakesKeepsList ==
    ASSUME ControlPointInv, ListInv, NEW t \in Actors, UnregisterTakes(t)
    PROVE  ListInv'
<1>1. /\ call[t].op = "unregister" /\ call[t].at \in {"start", "finish"} /\ UNCHANGED <<registered, active, greeted>>
      /\ call[t] \in Call
  BY DEF UnregisterTakes, Is, publisherVars, ControlPointInv, ThreadInv
<1>2. CASE Ends(t) /\ UNCHANGED subVars
  BY <1>1, <1>2, SettledCallEnds
<1>3. CASE subs = {} /\ Moves(t, "freeing") /\ UNCHANGED subVars
  <2>1. PICK c : c = [call[t] EXCEPT !.at = "freeing"]
    OBVIOUS
  <2>2. /\ c.op = "unregister" /\ c.actual = call[t].actual /\ c.seq = call[t].seq /\ c.sid = call[t].sid
        /\ c.at = "freeing" /\ Set(t, c)
    BY <1>1, <1>3, <2>1 DEF Call, Moves
  <2>3. SaysNoMore(t, c)
    BY <1>1, <1>3, <2>2 DEF SaysNoMore
  <2> QED
    BY <1>1, <1>3, <2>2, <2>3, CallGoesOn
<1>4. ASSUME NEW s \in subs, RemoveClientSub(s),
             Set(t, [NoCall EXCEPT !.op = "unregister", !.at = "request", !.actual = actualSID[s]])
      PROVE  ListInv'
  <2>1. PICK c : c = [NoCall EXCEPT !.op = "unregister", !.at = "request", !.actual = actualSID[s]]
    OBVIOUS
  <2>2. c.op = "unregister" /\ c.at = "request" /\ c.actual = actualSID[s] /\ Set(t, c) /\ s \in Sids
    BY <1>4, <2>1 DEF NoCall, ControlPointInv, EntryInv
  <2> QED
    BY <1>1, <1>4, <2>2, SubscriptionRemoved
<1> QED
  BY <1>2, <1>3, <1>4 DEF UnregisterTakes

(* A subscription is new in the list, or renewed in it.                     *)
LEMMA SubscriptionScheduled ==
    ASSUME ControlPointInv, ListInv, NEW t \in Actors, Ends(t), NEW s \in Sids, NEW a \in ActualSids, NEW timed,
           ScheduleGenaAutoRenew(s, a, timed), UNCHANGED <<registered, active, greeted>>,
           \A e \in Events : timer[e] # s, \A e \in Events : Renewing(e, s) => e = t,
           \/ call[t].op = "subscribe" /\ call[t].actual = a /\ FreshSid(s)
           \/ call[t].op = "renew" /\ s \in subs /\ actualSID[s] = a
    PROVE  ListInv'
<1>1. PICK c : c = NoCall
  OBVIOUS
<1>2. c.op = "none" /\ Set(t, c)
  BY <1>1 DEF NoCall, Ends
<1>3. call'[t] = c /\ \A u \in Actors \ {t} : call'[u] = call[u]
  BY <1>2, SetEffect DEF ControlPointInv
<1>4. subs' = subs \cup {s} /\ actualSID' = [actualSID EXCEPT ![s] = a] /\ deleted' = deleted
  BY DEF ScheduleGenaAutoRenew
<1>5. actualSID'[s] = a /\ \A x \in Sids \ {s} : actualSID'[x] = actualSID[x]
  BY <1>4 DEF ControlPointInv, EntryInv
<1>6. /\ Apps \subseteq Actors /\ Events \subseteq Actors /\ Notifiers \subseteq Actors /\ t \notin Notifiers
      /\ subs \subseteq Sids /\ NoActualSid \notin ActualSids
  BY GenaControlPointAssumption DEF Actors, ControlPointInv, ThreadInv, EntryInv, Fits
<1>7. AppsInv'
  BY <1>2, <1>3, <1>4, <1>6 DEF ListInv, AppsInv, ControlPointInv, ThreadInv, Fits
<1>8. TimerInv'
  <2>1. \A e \in Events, x \in Sids : Renewing(e, x)' => Renewing(e, x) /\ e # t
    BY <1>2, <1>3, <1>6 DEF Renewing
  <2>2. CASE UNCHANGED <<renewEventId, timer>>
    <3>1. \A e \in Events, x \in Sids : Carries(e, x)' => Carries(e, x)
      BY <2>1, <2>2 DEF Carries
    <3> QED
      BY <1>4, <2>2, <3>1 DEF ListInv, TimerInv, TimerNamesSubscription
  <2>3. ASSUME NEW e \in Events, FreeEvent(e), timer' = [timer EXCEPT ![e] = s],
               renewEventId' = [renewEventId EXCEPT ![s] = e]
        PROVE  TimerInv'
    <3>1. timer'[e] = s /\ \A f \in Events \ {e} : timer'[f] = timer[f]
      BY <2>3 DEF ControlPointInv, EntryInv
    <3>2. renewEventId'[s] = e /\ \A x \in Sids \ {s} : renewEventId'[x] = renewEventId[x]
      BY <2>3 DEF ControlPointInv, EntryInv
    <3>3. timer[e] = NoSid /\ call[e].op = "none"
      BY <2>3 DEF FreeEvent, Idle, NoCall
    <3>4. ASSUME NEW f \in Events, timer'[f] # NoSid
          PROVE  timer'[f] \in subs' /\ renewEventId'[timer'[f]] = f
      <4>1. CASE f = e
        BY <1>4, <3>1, <3>2, <4>1
      <4>2. CASE f # e
        <5>1. timer'[f] = timer[f] /\ timer[f] \in subs /\ renewEventId[timer[f]] = f /\ timer[f] # s
          BY <3>1, <3>4, <4>2 DEF ListInv, TimerInv, TimerNamesSubscription
        <5> QED
          BY <1>4, <1>6, <3>2, <5>1
      <4> QED
        BY <4>1, <4>2
    <3>5. \A f \in Events : Carries(f, s)' => f = e
      BY <2>1, <3>1 DEF Carries
    <3>6. \A f \in Events, x \in Sids \ {s} : Carries(f, x)' => Carries(f, x)
      BY <2>1, <3>1 DEF Carries
    <3>7. \A f, g \in Events, x \in Sids : Carries(f, x)' /\ Carries(g, x)' => f = g
      <4> SUFFICES ASSUME NEW f \in Events, NEW g \in Events, NEW x \in Sids, Carries(f, x)', Carries(g, x)'
                   PROVE  f = g
        OBVIOUS
      <4>1. CASE x = s
        BY <3>5, <4>1
      <4>2. CASE x # s
        BY <3>6, <4>2 DEF ListInv, TimerInv
      <4> QED
        BY <4>1, <4>2
    <3> QED
      BY <1>4, <3>4, <3>7 DEF ListInv, TimerInv, TimerNamesSubscription
  <2> QED
    BY <2>2, <2>3 DEF ScheduleGenaAutoRenew
<1>9. \A u \in Actors : call'[u].op # "none" => u # t /\ call'[u] = call[u]
  BY <1>2, <1>3
<1>10. NameInv' /\ \A u \in Apps : call'[u].op = "subscribe" /\ call'[u].actual # NoActualSid => call'[u].actual # a
  <2>1. CASE call[t].op = "subscribe" /\ call[t].actual = a /\ FreshSid(s)
    <3>1. s \notin subs /\ (\A u \in Actors : call[u].sid # s) /\ \A x \in subs : actualSID[x] # a
      BY <1>6, <2>1 DEF FreshSid, ListInv, NameInv, ControlPointInv, ThreadInv, Fits
    <3>2. t \in Apps /\ \A u \in Actors : About(call[u]) => call[u].actual # a
      BY <1>6, <2>1 DEF ListInv, NameInv, ControlPointInv, ThreadInv, Fits
    <3>3. \A x, y \in subs' : actualSID'[x] = actualSID'[y] => x = y
      BY <1>4, <1>5, <1>6, <3>1 DEF ListInv, NameInv
    <3>4. \A u \in Apps : call'[u].op = "subscribe" /\ call'[u].actual # NoActualSid => FALSE
      <4> SUFFICES ASSUME NEW u \in Apps, call'[u].op = "subscribe", call'[u].actual # NoActualSid
                   PROVE  FALSE
        OBVIOUS
      <4>1. call[u] = call'[u] /\ u # t
        BY <1>6, <1>9
      <4>2. Inside(call[u]) /\ Inside(call[t])
        BY <1>6, <2>1, <3>2, <4>1 DEF ListInv, AnswerInv, Inside
      <4> QED
        BY <3>2, <4>1, <4>2 DEF ControlPointInv, ThreadInv
    <3>5. \A u \in Actors, x \in subs' : About(call'[u]) /\ call'[u].actual = actualSID'[x] =>
            call'[u].op # "unregister" /\ call'[u].sid = x
      <4> SUFFICES ASSUME NEW u \in Actors, NEW x \in subs', About(call'[u]), call'[u].actual = actualSID'[x]
                   PROVE  call'[u].op # "unregister" /\ call'[u].sid = x
        OBVIOUS
      <4>1. call'[u] = call[u] /\ About(call[u])
        BY <1>9 DEF About
      <4>2. x \in subs /\ x # s /\ actualSID'[x] = actualSID[x]
        BY <1>4, <1>5, <1>6, <3>2, <4>1
      <4> QED
        BY <4>1, <4>2 DEF ListInv, NameInv
    <3>6. \A u \in Actors : call'[u].op = "unsubscribe" => call'[u].actual \in ActualSids
      BY <1>9 DEF ListInv, NameInv
    <3>7. \A u \in Actors : call'[u].op \in {"renew", "unsubscribe"} /\ call'[u].sid \in subs' =>
             call'[u].actual \in {NoActualSid, actualSID'[call'[u].sid]}
      BY <1>4, <1>5, <1>6, <1>9, <3>1 DEF ListInv, NameInv
    <3> QED
      BY <3>3, <3>4, <3>5, <3>6, <3>7 DEF NameInv
  <2>2. CASE call[t].op = "renew" /\ s \in subs /\ actualSID[s] = a
    <3>1. subs' = subs /\ \A x \in subs : actualSID'[x] = actualSID[x]
      BY <1>4, <1>5, <1>6, <2>2
    <3>2. NameInv'
      BY <1>6, <1>9, <3>1 DEF ListInv, NameInv, About
    <3>3. \A u \in Apps : call'[u].op = "subscribe" /\ call'[u].actual # NoActualSid => call'[u].actual # a
      BY <1>6, <1>9, <2>2 DEF ListInv, NameInv
    <3> QED
      BY <3>2, <3>3
  <2> QED
    BY <2>1, <2>2
<1>11. FirstEventInv'
  BY <1>3, <1>6, <1>9 DEF ListInv, FirstEventInv
<1>12. AnswerInv'
  BY <1>6, <1>9 DEF ListInv, AnswerInv
<1>13. AgreeInv'
  <2>1. \A x \in subs : x # s => x \in subs' /\ actualSID'[x] = actualSID[x]
    BY <1>4, <1>5, <1>6
  <2>2. ASSUME NEW b \in active
        PROVE  \/ \E x \in subs' : actualSID'[x] = b
               \/ \E u \in Apps : call'[u].op = "subscribe" /\ call'[u].actual = b
               \/ \E u \in Apps : Unlisting(u, b)'
    <3>1. CASE \E x \in subs : actualSID[x] = b
      <4>1. PICK x \in subs : actualSID[x] = b
        BY <3>1
      <4>2. CASE x = s
        <5>1. actualSID'[s] = b
          BY <1>5, <4>1, <4>2 DEF FreshSid
        <5> QED
          BY <1>4, <5>1
      <4>3. CASE x # s
        BY <2>1, <4>1, <4>3
      <4> QED
        BY <4>2, <4>3
    <3>2. CASE \E u \in Apps : call[u].op = "subscribe" /\ call[u].actual = b
      <4>1. PICK u \in Apps : call[u].op = "subscribe" /\ call[u].actual = b
        BY <3>2
      <4>2. CASE u = t
        BY <1>4, <1>5, <4>1, <4>2
      <4>3. CASE u # t
        BY <1>3, <1>6, <4>1, <4>3
      <4> QED
        BY <4>2, <4>3
    <3>3. CASE \E u \in Apps : Unlisting(u, b)
      <4>1. \A u \in Apps : Unlisting(u, b) => Unlisting(u, b)'
        BY <1>3, <1>6 DEF Unlisting
      <4> QED
        BY <3>3, <4>1
    <3> QED
      BY <3>1, <3>2, <3>3 DEF ListInv, AgreeInv
  <2>3. \A u \in Apps, x \in subs : Ending(u, x) => Ending(u, x)'
    BY <1>3, <1>6 DEF Ending
  <2>4. ASSUME NEW x \in subs'
        PROVE  actualSID'[x] \in active \/ \E u \in Apps : Ending(u, x)'
    <3>1. CASE x \in subs
      <4>1. actualSID'[x] = actualSID[x]
        BY <1>5, <2>1, <3>1 DEF FreshSid
      <4> QED
        BY <2>3, <3>1, <4>1 DEF ListInv, AgreeInv
    <3>2. CASE x \notin subs
      <4>1. x = s /\ call[t].op = "subscribe" /\ call[t].actual = a /\ t \in Apps
        BY <1>4, <3>2 DEF ControlPointInv, ThreadInv, Fits
      <4>2. a \in active
        BY <1>6, <4>1 DEF ListInv, AnswerInv
      <4> QED
        BY <1>5, <4>1, <4>2
    <3> QED
      BY <3>1, <3>2
  <2> QED
    BY <2>2, <2>4 DEF AgreeInv
<1> QED
  BY <1>7, <1>8, <1>10, <1>11, <1>12, <1>13 DEF ListInv

LEMMA SubscribeFinishesKeepsList ==
    ASSUME Reliable, ControlPointInv, ListInv, NEW t \in Actors, SubscribeFinishes(t)
    PROVE  ListInv'
<1>1. /\ call[t].op = "subscribe" /\ call[t].at = "finish" /\ Ends(t) /\ UNCHANGED <<registered, active, greeted>>
      /\ Fits(t, call[t]) /\ t \in Apps
  BY DEF SubscribeFinishes, Is, publisherVars, ControlPointInv, ThreadInv, Fits
<1>2. registered
  BY <1>1 DEF ListInv, AppsInv
<1>3. CASE ~call[t].ok /\ UNCHANGED subVars
  <2>1. call[t].actual = NoActualSid
    BY <1>1, <1>3 DEF ListInv, AnswerInv
  <2> QED
    BY <1>1, <1>3, <2>1, SettledCallEnds
<1>4. ASSUME NEW s \in Sids, call[t].ok, FreshSid(s), ScheduleGenaAutoRenew(s, call[t].actual, call[t].timed)
      PROVE  ListInv'
  <2>1. PICK a : a = call[t].actual
    OBVIOUS
  <2>2. a \in ActualSids
    BY <1>1, <1>4, <2>1 DEF Fits
  <2>3. (\A e \in Events : timer[e] # s) /\ \A e \in Events : ~Renewing(e, s)
    BY <1>4 DEF FreshSid, Renewing, Actors
  <2> QED
    BY <1>1, <1>4, <2>1, <2>2, <2>3, SubscriptionScheduled
<1> QED
  BY <1>2, <1>3, <1>4 DEF SubscribeFinishes, DeletedWhileListed, Reliable

LEMMA RenewFinishesKeepsList ==
    ASSUME Reliable, ControlPointInv, ListInv, NEW t \in Actors, RenewFinishes(t)
    PROVE  ListInv'
<1>1. /\ call[t].op = "renew" /\ call[t].at = "finish" /\ UNCHANGED <<registered, active, greeted>>
      /\ call[t] \in Call /\ call[t].sid \in Sids /\ call[t].actual \in ActualSids
  BY DEF RenewFinishes, Is, publisherVars, ControlPointInv, ThreadInv, Fits
<1>2. t \in Events
  BY <1>1 DEF ListInv, AppsInv, ControlPointInv, ThreadInv, Fits
<1>3. PICK s \in Sids : s = call[t].sid
  BY <1>1
<1>4. PICK a \in ActualSids : a = call[t].actual
  BY <1>1
<1>5. s \in subs => actualSID[s] = a
  BY <1>1, <1>3, <1>4, GenaControlPointAssumption DEF ListInv, NameInv
<1>6. CASE Ends(t) /\ UNCHANGED subVars
  BY <1>1, <1>6, SettledCallEnds
<1>7. CASE ~call[t].ok /\ RenewFails(t)
  <2>1. RemoveClientSub(s) /\ Moves(t, "report")
    BY <1>2, <1>3, <1>7 DEF RenewFails, FailureIsTold
  <2>2. PICK c : c = [call[t] EXCEPT !.at = "report"]
    OBVIOUS
  <2>3. c.op = "renew" /\ c.at = "report" /\ c.sid = s /\ c.actual = call[t].actual /\ Set(t, c)
    BY <1>1, <1>3, <2>1, <2>2 DEF Call, Moves
  <2>4. ~(s \in subs /\ actualSID[s] \in active)
    BY <1>1, <1>4, <1>5, <1>7 DEF ListInv, AnswerInv
  <2> QED
    BY <1>1, <1>3, <2>1, <2>3, <2>4, SubscriptionRemoved
<1>8. CASE s \in subs /\ ScheduleGenaAutoRenew(s, a, call[t].timed) /\ Ends(t)
  <2>1. PICK timed : timed = call[t].timed
    OBVIOUS
  <2>2. Carries(t, s) /\ Renewing(t, s)
    BY <1>1, <1>3 DEF Carries, Renewing
  <2>3. \A e \in Events : Renewing(e, s) => e = t
    BY <1>2, <2>2 DEF ListInv, TimerInv, Carries
  <2>4. \A e \in Events : timer[e] # s
    <3> SUFFICES ASSUME NEW e \in Events, timer[e] = s
                 PROVE  FALSE
      OBVIOUS
    <3>1. e = t
      BY <1>2, <2>2 DEF ListInv, TimerInv, Carries
    <3>2. Idle(t)
      BY <3>1, GenaControlPointAssumption DEF ControlPointInv, EventInv
    <3> QED
      BY <1>1, <3>2 DEF Idle, NoCall
  <2> QED
    BY <1>1, <1>5, <1>8, <2>1, <2>3, <2>4, SubscriptionScheduled
<1> QED
  BY <1>3, <1>4, <1>6, <1>7, <1>8 DEF RenewFinishes, Reliable

(* The handle goes when the list is empty.                                  *)
LEMMA UnregisterFreesKeepsList ==
    ASSUME ControlPointInv, ListInv, NEW t \in Actors, UnregisterFrees(t)
    PROVE  ListInv'
<1>1. /\ call[t].op = "unregister" /\ call[t].at = "freeing" /\ Ends(t) /\ UNCHANGED <<timer, active, greeted>>
      /\ subs' = {} /\ deleted' = {} /\ t \in Apps
  BY DEF UnregisterFrees, Is, publisherVars, ControlPointInv, ThreadInv, Fits
<1>2. subs = {} /\ \A e \in Events : timer[e] = NoSid
  BY <1>1 DEF ListInv, AppsInv, TimerInv, TimerNamesSubscription
<1>3. PICK c : c = NoCall
  OBVIOUS
<1>4. c.op = "none" /\ Set(t, c)
  BY <1>1, <1>3 DEF NoCall, Ends
<1>5. call'[t] = c /\ \A u \in Actors \ {t} : call'[u] = call[u]
  BY <1>4, SetEffect DEF ControlPointInv
<1>6. Apps \subseteq Actors /\ Events \subseteq Actors /\ Notifiers \subseteq Actors /\ t \notin Events /\ t \notin Notifiers
  BY <1>1, GenaControlPointAssumption DEF Actors
<1>7. AppsInv'
  BY <1>1, <1>4, <1>5, <1>6 DEF ListInv, AppsInv
<1>8. TimerInv'
  BY <1>1, <1>2, <1>5, <1>6 DEF ListInv, TimerInv, TimerNamesSubscription, Carries, Renewing
<1>9. NameInv'
  BY <1>1, <1>4, <1>5, <1>6 DEF ListInv, NameInv, About
<1>10. FirstEventInv' /\ AnswerInv'
  BY <1>1, <1>4, <1>5, <1>6 DEF ListInv, FirstEventInv, AnswerInv
<1>11. AgreeInv'
  BY <1>1, <1>2, <1>5, <1>6 DEF ListInv, AgreeInv, Unlisting
<1> QED
  BY <1>7, <1>8, <1>9, <1>10, <1>11 DEF ListInv

LEMMA InitListInv ==
    ASSUME Init
    PROVE  ListInv
<1>1. \A t \in Actors : call[t] = NoCall
  BY DEF Init
<1>2. \A t \in Actors : call[t].op = "none" /\ ~About(call[t])
  BY <1>1 DEF NoCall, About
<1>3. /\ subs = {} /\ deleted = {} /\ active = {} /\ Apps \subseteq Actors /\ Events \subseteq Actors
      /\ \A e \in Events : timer[e] = NoSid
  BY DEF Init, Actors
<1>4. AppsInv /\ TimerInv
  BY <1>2, <1>3, GenaControlPointAssumption DEF AppsInv, TimerInv, TimerNamesSubscription, Carries, Renewing
<1>5. NameInv
  BY <1>2, <1>3 DEF NameInv
<1>6. FirstEventInv /\ AnswerInv /\ AgreeInv
  BY <1>2, <1>3 DEF FirstEventInv, AnswerInv, AgreeInv
<1> QED
  BY <1>4, <1>5, <1>6 DEF ListInv

LEMMA NextListInv ==
    ASSUME Reliable, ControlPointInv, ListInv, [Next]_vars
    PROVE  ListInv'
<1>1. CASE UNCHANGED vars
  BY <1>1 DEF vars, subVars, publisherVars, ListInv, AppsInv, TimerInv, TimerNamesSubscription, Carries, Renewing,
     NameInv, FirstEventInv, AnswerInv, AgreeInv, Unlisting, Ending
<1>2. ASSUME NEW t \in Apps, SubscribeBegins(t) \/ UnregisterBegins(t)
      PROVE  ListInv'
  <2>1. UNCHANGED <<registered, subVars, active, greeted>> /\ AppMayCall(t) /\ registered
    BY <1>2 DEF SubscribeBegins, UnregisterBegins, publisherVars
  <2>2. CASE SubscribeBegins(t)
    <3>1. PICK c : c = [NoCall EXCEPT !.op = "subscribe", !.at = "lock"]
      OBVIOUS
    <3>2. c.op = "subscribe" /\ c.actual = NoActualSid /\ Set(t, c)
      BY <2>2, <3>1 DEF NoCall, SubscribeBegins
    <3> QED
      BY <2>1, <3>2, BeginsKeepList
  <2>3. CASE UnregisterBegins(t)
    <3>1. PICK c : c = [NoCall EXCEPT !.op = "unregister", !.at = "start"]
      OBVIOUS
    <3>2. c.op = "unregister" /\ c.at = "start" /\ c.actual = NoActualSid /\ Set(t, c) /\ \A u \in Apps : Idle(u)
      BY <2>3, <3>1 DEF NoCall, UnregisterBegins, Reliable
    <3> QED
      BY <2>1, <3>2, BeginsKeepList
  <2> QED
    BY <1>2, <2>2, <2>3
<1>3. ASSUME NEW t \in Apps, NEW s \in Sids, AppRenews(t, s) \/ UnsubscribeBegins(t, s)
      PROVE  ListInv'
  <2>1. UnsubscribeBegins(t, s)
    BY <1>3 DEF AppRenews, Reliable
  <2>2. PICK c : c = [NoCall EXCEPT !.op = "unsubscribe", !.at = "request", !.sid = s, !.actual = actualSID[s]]
    OBVIOUS
  <2>3. c.op = "unsubscribe" /\ c.at = "request" /\ c.sid = s /\ c.actual = actualSID[s]
    BY <2>2 DEF NoCall
  <2>4. /\ Set(t, c) /\ s \in subs /\ UNCHANGED <<registered, subVars, active, greeted>>
        /\ AppMayCall(t) /\ registered
    BY <2>1, <2>2 DEF UnsubscribeBegins, publisherVars
  <2> QED
    BY <2>3, <2>4, BeginsKeepList
<1>4. ASSUME NEW a \in ActualSids, PublisherForgets(a)
      PROVE  ListInv'
  BY <1>4 DEF PublisherForgets, Reliable
<1>5. ASSUME NEW t \in Actors, Continues(t)
      PROVE  ListInv'
  <2>1. CASE Network(t)
    BY <2>1, PublisherSubscribesKeepsList, PublisherRenewsKeepsList, PublisherUnsubscribesKeepsList,
       AnswerArrivesKeepsList, RequestFailsKeepsList DEF Network
  <2>2. CASE Finishes(t)
    BY <2>2, SubscribeFinishesKeepsList, RenewFinishesKeepsList, UnsubscribeFinishesKeepsList,
       UnregisterTakesKeepsList, UnregisterFreesKeepsList, CallbackKeepsList DEF Finishes
  <2> QED
    BY <1>5, <2>1, <2>2, JobRenewsKeepsList, JobReportsKeepsList, NotifyKeepsList DEF Continues
<1>6. ASSUME NEW t \in Actors, Locks(t)
      PROVE  ListInv'
  BY <1>6, SubscribeLocksKeepsList, NotifyKeepsList DEF Locks
<1> QED
  BY <1>1, <1>2, <1>3, <1>4, <1>5, <1>6, RegisterKeepsList, TimerFiresKeepsList, PublisherNotifiesKeepsList DEF Next

(* As long as no renewal fails to be scheduled and the network is reliable, *)
(* the list, the publishers, the timers and the memory agree: when no call  *)
(* is under way the publishers serve exactly what is listed, every timer    *)
(* event that is set is the one of a listed subscription, and nothing       *)
(* listed has been freed (genaSubscribe, genaRenewSubscription,             *)
(* genaUnSubscribe, genaUnregisterClient).                                  *)
THEOREM SpecListSound == Reliable => (Spec => []ListSound)
<1> SUFFICES ASSUME Reliable PROVE Spec => []ListSound
  OBVIOUS
<1>1. ControlPointInv /\ ListInv => ListSound
  <2> SUFFICES ASSUME ControlPointInv, ListInv
               PROVE  ListSound
    OBVIOUS
  <2>1. ASSUME \A t \in Actors : Idle(t)
        PROVE  active = {actualSID[s] : s \in subs}
    <3>1. \A t \in Apps : call[t].op = "none"
      BY <2>1 DEF Idle, NoCall, Actors
    <3> QED
      BY <3>1 DEF ListInv, AgreeInv, Unlisting, Ending
  <2> QED
    BY <2>1 DEF ListSound, NoStraySubscription, ListedMeansAllocated, ListInv, TimerInv
<1>2. Init => ControlPointInv /\ ListInv
  BY InitControlPointInv, InitListInv
<1>3. ControlPointInv /\ ListInv /\ [Next]_vars => (ControlPointInv /\ ListInv)'
  BY NextControlPointInv, NextListInv
<1> QED
  BY <1>1, <1>2, <1>3, PTL DEF Spec
===============================================================================
