----------------------------- MODULE AsyncCalls -----------------------------
(***************************************************************************)
(* The asynchronous calls of a control point (api/upnpapi.c): the request  *)
(* is copied into a parameter block, a job of gSendThreadPool makes the    *)
(* call with HttpClient and hands its result to the application's callback *)
(* (UpnpThreadDistribution).  The calls of the event architecture are      *)
(* GenaControlPoint's; here they return with any result.                   *)
(***************************************************************************)
EXTENDS HttpClient

CONSTANTS MaxAsync,    \* bound: asynchronous calls
          Kinds        \* the asynchronous calls the application makes

ASSUME AsyncAssumption ==
  /\ MaxAsync \in Nat
  /\ Kinds \subseteq {"ACTION", "STATUS", "SUBSCRIBE", "UNSUBSCRIBE", "RENEW"}

VARIABLES registered,  \* the client handle is registered
          jobs,        \* parameter blocks in gSendThreadPool
          worker,      \* the block its thread works on
          events,      \* the callbacks made
          dropped,     \* blocks of jobs that the pool refused
          asked        \* asynchronous calls that returned UPNP_E_SUCCESS

asyncVars == <<registered, jobs, worker, events, dropped, asked>>
allVars == <<vars, asyncVars>>

None == [kind |-> "none", header |-> FALSE, cookie |-> 0]

AsyncInit == /\ Init
             /\ registered = TRUE
             /\ jobs = <<>> /\ worker = None /\ events = <<>> /\ dropped = {} /\ asked = 0

\* Two calls share nothing, so that their steps commute: the application makes its
\* calls while none runs, and all of one kind, asynchronous or its own.  Only the first
\* asynchronous call is one of SOAP (a bound).
Rests == worker = None /\ call.op = "none"

\* The checks under HandleLock, the copies and ThreadPoolAdd, whose refusal of the job
\* nobody looks at.
Submits(param) ==
  /\ registered /\ Rests /\ calls = 0 /\ asked < MaxAsync
  /\ param.kind \in {"ACTION", "STATUS"} => asked = 0
  /\ asked' = asked + 1
  /\ \/ jobs' = Append(jobs, param) /\ UNCHANGED dropped
     \/ dropped' = dropped \cup {param.cookie} /\ UNCHANGED jobs
  /\ UNCHANGED <<vars, registered, worker, events>>

Param(kind, header) == [kind |-> kind, header |-> header, cookie |-> asked + 1]

UpnpSendActionAsync == "ACTION" \in Kinds /\ Submits(Param("ACTION", FALSE))

\* Without a header this is UpnpSendActionAsync.
UpnpSendActionExAsync == "ACTION" \in Kinds /\ Submits(Param("ACTION", TRUE))

UpnpGetServiceVarStatusAsync == "STATUS" \in Kinds /\ Submits(Param("STATUS", FALSE))
UpnpSubscribeAsync == "SUBSCRIBE" \in Kinds /\ Submits(Param("SUBSCRIBE", FALSE))
UpnpUnSubscribeAsync == "UNSUBSCRIBE" \in Kinds /\ Submits(Param("UNSUBSCRIBE", FALSE))
UpnpRenewSubscriptionAsync == "RENEW" \in Kinds /\ Submits(Param("RENEW", FALSE))

\* The jobs that wait are not looked for when the client goes.
UpnpUnRegisterClient ==
  /\ registered /\ call.op = "none"
  /\ registered' = FALSE
  /\ UNCHANGED <<vars, jobs, worker, events, dropped, asked>>

(***************************************************************************)
(* UpnpThreadDistribution: the switch on FunName.  An action is sent with  *)
(* SoapSendAction, also when it came with a header.                        *)
(***************************************************************************)
JobStarts ==
  /\ Rests /\ jobs # <<>>
  /\ worker' = Head(jobs) /\ jobs' = Tail(jobs)
  /\ \E t \in Timeouts, url \in Urls :
       \/ Head(jobs).kind = "ACTION" /\ SoapSendAction(url, t)
       \/ Head(jobs).kind = "STATUS" /\ SoapGetServiceVarStatus(url, t)
  /\ UNCHANGED <<calls, registered, events, dropped, asked>>

Delivers(param, ret, doc) ==
  events' = Append(events, [kind |-> param.kind, cookie |-> param.cookie, ret |-> ret, doc |-> doc])

GenaJob ==
  /\ worker = None /\ jobs # <<>>
  /\ Head(jobs).kind \in {"SUBSCRIBE", "UNSUBSCRIBE", "RENEW"}
  /\ jobs' = Tail(jobs)
  /\ \E ret \in {"SUCCESS", "E_INVALID_SID"} : Delivers(Head(jobs), ret, <<>>)
  /\ UNCHANGED <<vars, registered, worker, dropped, asked>>

JobEndsTwice ==      \* mutant: the block is not given up after the callback
  /\ worker # None /\ call.op = "none" /\ Len(events) <= MaxAsync
  /\ Delivers(worker, result.ret, result.doc)
  /\ UNCHANGED <<vars, registered, jobs, worker, dropped, asked>>
JobEndsIfRegistered ==      \* mutant: the callback waits for its client
  /\ worker # None /\ call.op = "none" /\ registered
  /\ Delivers(worker, result.ret, result.doc)
  /\ worker' = None
  /\ UNCHANGED <<vars, registered, jobs, dropped, asked>>

\* The call has returned: the callback, then the block is freed.
JobEnds ==
  /\ worker # None /\ call.op = "none"
  /\ Delivers(worker, result.ret, result.doc)
  /\ worker' = None
  /\ UNCHANGED <<vars, registered, jobs, dropped, asked>>

AsyncApp == \/ UpnpSendActionAsync
            \/ UpnpSendActionExAsync
            \/ UpnpGetServiceVarStatusAsync
            \/ UpnpSubscribeAsync
            \/ UpnpUnSubscribeAsync
            \/ UpnpRenewSubscriptionAsync
            \/ UpnpUnRegisterClient

AsyncNext ==
  \/ AsyncApp
  \/ JobStarts
  \/ GenaJob
  \/ JobEnds
  \/ asked = 0 /\ App /\ UNCHANGED asyncVars
  \/ (Library \/ PeerCloses) /\ UNCHANGED asyncVars

AsyncSpec == AsyncInit /\ [][AsyncNext]_allVars

\* Nothing is asked of the peer here.
SilentPeerSpec == AsyncSpec /\ WF_vars(Local) /\ ([]<>~CanReceive \/ []<><<Library>>_vars)

\* A thread of the pool takes a job that waits, once the call before it is over.
AsyncFairSpec ==
  /\ SilentPeerSpec /\ WF_vars(PeerCloses)
  /\ SF_allVars(JobStarts) /\ SF_allVars(GenaJob) /\ WF_allVars(JobEnds)
-----------------------------------------------------------------------------
AsyncTypeOK ==
  /\ TypeOK
  /\ registered \in BOOLEAN /\ asked \in 0..MaxAsync
  /\ worker.cookie \in 0..asked /\ dropped \subseteq 1..asked

\* Every call that was accepted is in one place, and the application hears of it at
\* most once: no job is lost between the pool, its thread and the callback, except the
\* ones the pool refused.
Cookies(s) == {s[i].cookie : i \in DOMAIN s}
Running == IF worker = None THEN {} ELSE {worker.cookie}
EachOnce(s) == \A i, j \in DOMAIN s : s[i].cookie = s[j].cookie => i = j

EachCallOnce ==
  /\ EachOnce(events) /\ EachOnce(jobs)
  /\ Cookies(events) \cap Cookies(jobs) = {} /\ Running \cap dropped = {}
  /\ (Cookies(events) \cup Cookies(jobs)) \cap (Running \cup dropped) = {}
  /\ Cookies(events) \cup Cookies(jobs) \cup Running \cup dropped = 1..asked

\* The callback tells the result of the call its cookie stands for: a value to a query,
\* a response or a UPnP error to an action.
AnswerFitsQuestion ==
  \A i \in DOMAIN events :
    /\ events[i].doc # <<>> /\ events[i].kind = "STATUS" => events[i].doc[1] \in {"value", "errorDescription"}
    /\ events[i].doc # <<>> /\ events[i].kind = "ACTION" => events[i].doc[1] \in {"response", "UPnPError"}

\* Every job that the pool has accepted ends in its callback (EachCallOnce leaves it no
\* other place), also when the client that asked has unregistered.
JobsAnswered == jobs # <<>> \/ worker # None ~> jobs = <<>> /\ worker = None

\* Every call, its socket and its answer are accounted for while it is under way, and no
\* call leaves a socket open behind it but a GET that could not be opened.
CallsAccounted == AsyncTypeOK /\ EachCallOnce /\ AnswerFitsQuestion /\ SocketsOwned

\* What the peer answered is what the application gets: the body of a download, of the
\* reads of a GET and of a SOAP answer.
AnswersHandedOver ==
  [][ReadsDeliverTheBody /\ EmptyReadIsTheEnd /\ DownloadIsTheBody /\ SoapAnswerFits]_vars

\* What the application sends is what a peer with the library's own parser reads.
RequestsArrive == [][RequestIsUnderstood /\ PostIsDecoded]_vars

\* Calls and jobs come to their ends.
CallsReturn == CallReturns /\ JobsAnswered
=============================================================================
