# Verification of iUPnP

iUPnP is a UPnP library for iOS: Objective-C classes for a control point, its
devices, media servers and media renderers, on top of a locally modified copy
of libupnp 1.6.13 (`src/iUPnP/libupnp`). This directory holds TLA+ models of
libupnp, the part that has the threads, the protocols and the memory to manage,
TLC configurations that check the models, and proofs that TLAPS checks.

    tlc -workers 2 -config <run>.cfg <module>.tla     a run of section 3
    tlapm <module>Proofs.tla                          the proofs of a module

`PROJECT.json` is the index: components, runs, which lines each definition
models, findings, hazards, theorems, and for each property a *seeded fault*, a
mutated form of one definition (defined just before the original:
`FreeHandleNever` before `FreeHandle`, `NoWait` before `NoneRuns`, ...) under
which the property fails in its run.

## 1. The system

### Parts, their state and their operations

| Part | Source (below `src/iUPnP/libupnp/`) | State | Operations |
|---|---|---|---|
| Thread pool | `pthread/ThreadPool.c`, lists | three job queues, a slot for one persistent job, three thread counters, `pendingWorkerThreadStart`, two conditions, `lastJobId`, `shutdown` | Init, Add, AddPersistent, Remove, Shutdown; the workers' loop |
| Timer thread | `pthread/TimerThread.c` | ordered event queue, `lastEventId`, `shutdown`, a condition | Init, Schedule, Remove, Shutdown; the worker's loop |
| SDK core | `api/upnpapi.c` | `UpnpSdkInit`, the handle table with three flags beside it, the locks and pools, the served description | Init, Finish, Register, Unregister, the synchronous and asynchronous calls |
| Mini server | `genlib/miniserver/miniserver.c` | `MSERV_IDLE / RUNNING / STOPPING`, sockets, one job per connection | start, accept, receive, dispatch, close, stop |
| Web server | `genlib/net/http/webserver.c` | root directory, virtual directories, the alias with its reference count | GET, HEAD, POST; publish, withdraw, configure |
| HTTP | `genlib/net/http/httpparser.c`, `httpreadwrite.c`, `genlib/net/sock.c` | the parser's buffer, cursor and position; a connection's time left | parse in pieces, download, GET, POST, request-response |
| SOAP | `soap/soap_ctrlpt.c`, `soap_device.c` | none of its own | action, query; answer from the callback's verdict |
| GENA control point | `gena/gena_ctrlpt.c`, `genlib/client_table` | the client's list of subscriptions (SID, actual SID, renewal event), `GlobalClientSubscribeMutex` | subscribe, renew, auto-renew, unsubscribe, unregister, event received |
| GENA device | `gena/gena_device.c`, `genlib/service_table` | a service's list of subscriptions with `eventKey`, `ToSendEventKey`, `active`; `TotalSubscriptions`; the reference-counted data of each event | subscribe, renew, unsubscribe, accept, notify all, notification job, unregister |
| SSDP | `ssdp/*` | list of searches with timer events; advertisement timer | advertise, reply, byebye; search, match, expire |
| XML library | `ixml/*`, `pthread/node.c`, `element.c`, ... | document trees, the parser's stack | parse, print, and the tree operations |
| Utilities | `genlib/util`, `pthread/*List*`, `uri` | none shared | buffers, lists, strings, URLs |
| iOS library | `core/`, `av/`, `Example/` (Objective-C) | dictionary and set of devices, parsed descriptions | discovery, parsing, actions, LastChange |

### How they interact

`UpnpInit` creates three pools (send, receive, mini server) and hands two
persistent jobs to them: the timer's worker and the mini server's accept loop.
Everything that has to happen later (renewal of a subscription, expiry of a
search, the next advertisement) is an event of the timer, which puts a job
into the send pool when it is due. Whatever the mini server accepts becomes a
job of its pool; that job parses the request and dispatches it by its method to
the web server, the SOAP device or GENA. The application calls from its own
threads and is called back from all of these, with no lock held. `HandleLock`
guards the handle table, the GENA lists and the searches and is dropped for
every network exchange; `GlobalClientSubscribeMutex` is held across the
exchange of a SUBSCRIBE. `UpnpFinish` unregisters the devices and the client,
stops the timer and the mini server, shuts the pools down and destroys the locks.

### What is hard about it

Each is listed, with its line and the property that watches it, under `hazards`
in `PROJECT.json`.

* **The pool**: one condition variable serves a thread that starts, its
  creator, the caller of a persistent job and the shutdown; the mutex is given
  up inside `CreateWorker`, in the middle of `ThreadPoolAdd`; idle workers time
  out together; ageing moves jobs between queues while they are consumed.
* **The timer**: signal instead of broadcast on a condition with two kinds of
  sleepers, events inserted before the one slept for, ids of events that have fired.
* **GENA, control point**: a list copied, unlocked and looked at again; the
  publisher's first event overtaking the answer to SUBSCRIBE; application and
  timer renewing at once; unregistering while subscribing.
* **GENA, device**: jobs of several threads that must send in order of event
  key and requeue themselves otherwise; the key's overflow; the count used for
  admission; the data shared by the jobs of an event.
* **Life of the SDK**: an initialization that fails half way; flags that stand
  for a table; jobs that outlive what they need; a thread that is stopped by a datagram.
* **SSDP**: datagrams lost, repeated and reordered; three encodings of the same
  targets; an advertisement that repeats by timer while its device unregisters.
* **HTTP**: a message cut anywhere; bodies framed in three ways and read in
  pieces; peers that close early or stay silent; time used up by one step and
  missing for the next.
* **Web server**: a description tested for without the lock, replaced and
  withdrawn while it is sent; ranges at their boundaries; answers on error paths.
* **XML**: long sequences of legal tree operations; texts at the edge of the grammar.

## 2. The modules

| Module | What it is |
|---|---|
| `JobPool` | abstract: what a pool promises (a job handed over waits until it is started, cancelled or dropped; at most `Limit` run; none starts after `Close`) |
| `ThreadPool` | `ThreadPool.c`; `ImplementsJobPool` is the refinement |
| `AlarmClock` | abstract: an alarm rings once, not early, in order of time, unless cancelled |
| `TimerThread` | `TimerThread.c`; `ImplementsAlarmClock` is the refinement |
| `GenaControlPoint` | `gena_ctrlpt.c` and `client_table.c`, with the entry points of `upnpapi.c` |
| `GenaDevice` | `gena_device.c` and `service_table.c`, one service |
| `Sdk` | `UpnpInit`, `UpnpFinish`, the handle table, composed with the mini server's thread, the timer and the three pools |
| `SsdpMessages` | what the messages of `ssdp_server.c` and `ssdp_device.c` say and what `ssdp_ctrlpt.c` makes of them |
| `Ssdp` | a device and a control point exchanging them over the network |
| `HttpParser` | `httpparser.c`: scanner, matcher and the incremental parser |
| `HttpMessages` | the messages the library writes |
| `HttpClient` | `httpreadwrite.c` and `sock.c`: download, GET, POST, SOAP call over a connection |
| `AsyncCalls` | the asynchronous calls of `upnpapi.c` over `HttpClient` |
| `WebServer` | `webserver.c` and what `http_SendMessage` does for it |
| `SoapDevice` | `soap_device.c`, over `WebServer` |
| `MiniServer` | the life of a connection in `miniserver.c`, over `SoapDevice` and `WebServer`, and the application's configuration |
| `XmlNodes`, `XmlElements` | `node.c`, `document.c`, `element.c`, `attr.c`, lists and maps: operations on a heap |
| `XmlParser` | `ixmlparser.c` and the printer of `ixml.c` |
| `XmlDocuments` | the library in use: a parser running step by step, then calls in any order; `upnptools.c` |
| `XmlSoundness` | what trees and texts should be, said without the code's recursions, and the properties |
| `<Module>Proofs` | TLAPS proofs about `ThreadPool`, `TimerThread`, `GenaControlPoint`, `GenaDevice`, `Sdk`, `Ssdp`, `MiniServer`, `AsyncCalls` (with the calls of `HttpClient` and the parser of `HttpParser`) |
| `MC<Module>` | values of the constants for TLC |

**Layers.** Each layer is modelled over the contract of the one below: the
timer sees a pool that takes a job and runs it later or refuses it, which is
`JobPool` plus `JobLeavesQueue`; GENA and SSDP see a timer that fires an event
once or has it removed, which is `AlarmClock` plus `TimerLives`, and a pool that
runs every job it takes; `Sdk` sees pools that drop or finish their jobs when
they are shut down.

**Steps.** An action is one critical section: from taking a mutex (or returning
from a condition wait) to giving it up (or waiting). What touches no shared
state joins the section before it; a network exchange is at least two actions.

### ThreadPool

`thread[w]` is where a pthread is in `WorkerThread`, `job` and `long` its
locals; `call[t]` is the API call a thread is in with the locals of
`AddWorker`; the wait set of `tp->condition` is the workers in state
`"waiting"`, that of `start_and_shutdown` is `sleepers`. A call of
`ThreadPoolAdd` that creates a thread is several actions, `ThreadPoolAdd`, then
`ResumeCreate` or `ResumeStart` for each return from the waits in
`CreateWorker`, because the mutex is free in between. Waits return for no
reason only by timing out (`WorkerTimesOut`). `age` counts ticks since
`requestTime`, capped one past both limits. `Bumped` is the result of
`BumpPriority`'s loop, for all queues at once. `handed` and `jobId` are the id
given to the submitter and the id in the job's record, `IdSpace` stands for the
range of an int. Left out: `ThreadPoolSetAttr/GetAttr` (nothing calls them
after `ThreadPoolInit`), statistics, thread priorities, free lists; a job that
cannot be allocated is a call without effect.

### TimerThread

`eventQ` is the list in its order; a call of `TimerThreadSchedule` computes its
time (`CalculateEventTime`) before it waits for the mutex, so the clock may
have moved on when it inserts. The worker keeps the mutex from one turn of its
loop to the next (`worker = "looping"`). `deadline` is what it sleeps for. A
refused `ThreadPoolAdd` loses the event, as in the code.

### GenaControlPoint

Threads of the application, of the mini server and of the timer's jobs are
`Apps`, `Notifiers` and `Events`; `call[t]` says which operation a thread is in
and where (`"request"` and `"answer"` are the two halves of a network exchange,
`"finish"` is the critical section after it). `subs`, `actualSID`,
`renewEventId` are the list; `timer` is the set timer events; `active` and
`greeted` are the publishers' side. `deleted` marks entries whose memory was
given back while still in the list, `endless` those granted without end. Left
out: durations, and memory exhaustion except in `ScheduleGenaAutoRenew`.

### GenaDevice

The list is `subs` with the fields as functions; `expired` are the entries
whose time has passed and which nobody has swept yet. A job of
`genaNotifyThread` is a record with the subscription, its key and the batch,
that is, the headers, property set and reference count it shares; it is
`"queued"` or `"sending"`. A job that finds its key too early requeues itself,
which leaves the state as it is unless the pool refuses it. Left out: the `Ext`
variants (identical but for the source of the properties), draining by the
pool's shutdown, failing `malloc`, several services (they share only the handle).

### Sdk

`pc[a]` is where an application thread is in a call that has several critical
sections; `FinishSteps` are the stages of `UpnpFinish`. `pool[p]` is
`"stopping"` while `ThreadPoolShutdown` waits for the threads; of the work in
each pool there is one job of its kind (a connection, a search request, an
announcement). Failures of `UpnpInit` are a step of their own: those before
`UpnpInitStartServers` return without taking down what is up, because
`UpnpFinish` looks at `UpnpSdkInit` first; those in it reach `UpnpFinish`.
`OpenedBefore` and `ClosedOn` follow the sockets on `StartMiniServer`'s error
paths. Applications follow the manual (call between `UpnpInit` and
`UpnpFinish`, give a handle back once); what goes beyond is a constant, `Unusual`.

### SsdpMessages and Ssdp

A target is a record of form, base and version; a base is a sequence of words,
because the code compares types by prefix. `AliveMessages`, `ByebyeMessages` and
`ReplyMessages` are what the loops of `AdvertiseAndReply` send for a description.
In `Ssdp` a burst is sent one copy at a time under the read lock, which is why
the lock is modelled; messages are kept, read any number of times or lost. A
search has an entry, an expiry event and a job for each result.

### HttpParser, HttpMessages, HttpClient, AsyncCalls

A buffer is a sequence of units that arrive together, fine enough to cut a word
in two. The scanner is an offset in a buffer; a match starts at an offset and ends with a
status, an offset and what it took. `match` puts the cursor back when it fails or needs
more, and `parser_append` continues where it stood. The loops of the parser are
iterations bounded by the units of the buffer: each round takes at least one. `HttpClient` runs one call at a time
through connecting, sending and receiving; the peer holds an answer (`Answers`) and
delivers any number of units up to `MaxUnits`, breaks off or is silent.
`conn.left` is the timeout that `sock_read_write` uses up. Requests
are written with `HttpMessages` and read back with the same parser, which is
how a device of the library reads them. `AsyncCalls` puts a job between the
call and the callback (`UpnpThreadDistribution`). Left out: redirects, proxies, dates, URL parsing.

### WebServer, SoapDevice, MiniServer

A request is a record of what the code branches on. `docs` are the descriptions
that were ever published, with the count, whether they are in memory, and
(auxiliary) `withdrawn`, how often the owner gave it up. A
connection is at `"receive"`, `"web"`, `"grab"`, `"look"`, `"head"`, `"doc"`,
`"release"`, ..., one state for each stretch between locks and system calls;
`body`, `heads` and `lastChunk` count what was sent. The application publishes in the two
critical sections that `web_server_set_alias` has. What is asked is decided when the request is
complete (`handle_request`); before that it may come in parts, each of which takes seconds
off `patience`, the timeout that `http_RecvMessage` uses up (`ReceivesPart`). A peer may
fall `silent` wherever a thread reads from it, or sends it more than a socket
buffers (`AtPeer`: the request, the body of a POST, a document, a SOAP answer; not a head, a
status page or an answer of GENA). `WaitsForPeer` says which of these waits have no
limit: all but a receive that has seconds left. Requests are finite: a peer
that trickles one in for ever is not modelled.

### The XML modules

A heap is a sequence of nodes and each operation of the library a function from
heaps to results; a crash (failed assertion, NULL, freed memory) is a result.
`XmlDocuments` takes a text from `ParseInputs` and runs `Parser_parseDocument`
token by token, or starts from a parsed document of `BaseInputs` and makes any
calls with any nodes. Calls that the code does not survive are made as well;
`misuse` names them and the run ends there. `XmlSoundness` says what a
consistent tree is (`parent`, siblings, first child, attributes, owner document
agree in both directions, without cycles, nothing freed is reachable), when a text is
well formed, which tree it writes and which namespaces are in scope, from the text
alone.

## 3. The runs

Eleven runs pass, one shows what the code does against what it says.

| Run | Checks | Instance |
|---|---|---|
| `pool_threads` | `ThreadAccounting`, `ThreadLimit`, `ThreadsKept`, `QueuedJobHasWorker`, `ImplementsJobPool`, `FifoWithinPriority` | 4 workers, minimum 2, limit 3, two short jobs and a persistent one, submitted by two clients and by jobs; creation may fail; removal |
| `pool_live` | `NoLostWakeup`, `JobLeavesQueue`, `CallReturns` | a low priority job against two high ones resubmitted for ever, a persistent job |
| `timer` | `QueueSound`, `WorkerIsWoken`, `RemovesOwnEvent`, `ImplementsAlarmClock`, `TimerLives` | two events, two callers, delays past and future, refusing pool |
| `gcp_renewal` | `RenewalSound`, `ReportedMeansGone`, `FirstEventAccepted` | two application threads that renew and unregister at any time, lossy network, scheduling may fail |
| `gcp_live` | `ListSound`, `CallReturns` | two subscriptions, reliable network, renewals left to the library |
| `device` | `ListSound`, `EventsInTurn`, `SharedDataFreedByLast`, `NotificationEnds` | two subscribers, two events in flight, keys up to 3, the pool may refuse any job |
| `sdk` | `TableSound`, `NothingLeftBehind`, `WorkSupported`, `CallReturns` | two application threads, three handles, `UpnpInit` may fail at every step |
| `ssdp` | `SchedulesKept`, `MessagesAgree`, `TimersAct` | a media server with an embedded device, registered twice; a search; one message in flight, lost, repeated or late |
| `http_client` | `CallsAccounted`, `SplitIndependent`, `AnswersHandedOver`, `RequestsArrive`, `CallsReturn` | eight kinds of call, thirteen answers cut into one or two units, two asynchronous calls |
| `http_server` | `AliasSound`, `AnswersFit`, `ConnectionsEnd` | two connections, 50 kinds of request, one peer that may be slow or fall silent, a timeout of one second, two descriptions, three calls of the application |
| `xml` | `TreesSound`, `ParsedAsWritten` | all texts of four items out of twelve, nested namespaces, every sequence of three calls |
| `http_timeout` | `TimeoutEnds` is violated | a GET with a timeout of one second |

What they show, beyond their names:

* `pool_threads`: with a limit of 3 and 4 names for threads the model could
  exceed the limit; a minimum of 2 with three workers timing out at once is where
  an off-by-one in `GivesUp` would leave too few (`ThreadsKept`, which also says
  that a shutdown destroys nothing that is in use). As in libupnp the minimum is above the
  number of persistent jobs. Two workers' and two
  clients' calls cover every pair of waits on `start_and_shutdown`. Ids are not
  told apart (`IdSpace = 1`), so `ThreadPoolRemove` takes the first job of the
  queue order, which is any job in turn. `ImplementsJobPool` says that no job is lost, run
  twice, or started after shutdown. `QueuedJobHasWorker`: no queued job while all workers
  sleep unsignalled, and none without a worker on its way.
* `pool_live`: three jobs are the least with two of one priority and an
  overtaker; ages up to 3 separate the two limits that `BumpPriority` uses.
  `NoLostWakeup`: no caller sleeps on `start_and_shutdown` for what has
  already happened.
* `timer`: two events in two orders, with times that collide, and ids up to 3
  make a caller hold the id of an event that fired while a newer one is queued.
  Time stops at 2; delays of -1 (a renewal granted for less than
  `AUTO_RENEW_TIME`) and 2 straddle it. Events due after time stopped are not
  required to fire.
* `gcp_renewal`: the application's renewal, the timer's, an unsubscription and
  an unregistration of one subscription in every interleaving. One publisher's
  SID is enough for that; `gcp_live` has two. `RenewalSound` leaves out entries
  that a failed scheduling deleted while listed (see the observations).
* `gcp_live`: without loss, publisher, list and timer agree when nothing is
  under way. The application does not unregister while its own calls are open
  and does not renew by itself: two renewals at once leave a second timer event
  set that no entry names.
* `device`: two batches and keys up to 3 make keys wrap with events in flight;
  the limit is lowered below the count and lifted again. The pool may refuse
  each of the kinds of job. A refusal costs the subscription an event key for
  good, and the event's shared data is freed too early or never; the auxiliary
  variable `refused` names the subscriptions and batches hit, and the
  properties are stated for the others.
* `sdk`: three handles are a device of each family and a client. Every
  interleaving of one thread's `UpnpFinish` with the server, the timer and a job
  of each pool; a failed start of the server is followed by another `UpnpInit`.
* `ssdp`: registering twice lets events of the first life meet the second. The
  description has an incomplete embedded device, several services and types that
  are prefixes of one another. `MessagesAgree` compares the three encodings.
* `http_client`: every framing, folding, a missing CR, chunk extensions,
  trailers, an answer longer than `MaxContentLength`, an old version, an early end. With
  pieces of one and two units each boundary is a cut. `SplitIndependent`
  compares the parser with one that is given everything at once. Of the sockets,
  `CallsAccounted` says that the current connection's is open only for a call that runs or
  a handle that can close it, and that no call leaves one behind but a GET that could not be
  opened (`leaked`, see the observations): no download, POST or SOAP request does.
* `http_server`: one connection asks anything, the other for the description.
  The exceptions that `AnswersFit` and `AliasSound` name are the observations below.
  `ConnectionsEnd`: every accepted connection is closed in the end, except one whose
  peer keeps its thread for ever in a wait without a timeout; without that
  exception TLC refutes it (section 4).
* `xml`: some twenty thousand texts, of which most are not well formed; trees of up
  to seven nodes. The run's exceptions (`Regular`, `NamespacesPlain`, `misuse`)
  are the observations below.

**Bounds.** `Workers`, `Jobs`, `Sids`, `Batches`, `Events`, `Conns` are pools
of names that are reused once nothing refers to them, so histories are
unbounded although the state is not. `MaxJobsTotal`, `NumHandle`,
`WEB_SERVER_BUF_SIZE`, `NUM_SSDP_COPY`, `MaxContentLength` are the code's own
limits. `MaxTime`, `MaxEventId`, `MaxAge`, `MaxKey`, `MayRefuse`, `IdSpace`,
`MaxUnits`, `MaxWrites`, `MaxDocs`, `MaxNodes`, `MaxRegistrations`,
`MaxAdverts`, `MaxSearches`, `MaxInFlight`, `MaxAsync`, `MaxConfig` and the
`MaxCalls` are bounds on counters and histories, each named in its module.
`SlowPeers` are the connections whose peers may make the server wait; with both
in it the run passes as well, for a fifth more states. `HTTP_DEFAULT_TIMEOUT` is 30 in the code; 1 is
the least with which a receive has, and has used up, its time.
`EventToSpare` keeps a timer event for the jobs, and a publisher accepts a
subscription only when a SID is left. `Symmetry` is used only in runs without
liveness.

**Deadlock** is checked in the pool, GENA, SDK and SSDP runs. `timer` stops
when its clock has, the HTTP and XML runs when their calls are used up.
`ThreadPool` has an explicit stutter after its destruction.

**Fairness.** *Pool*: every worker and every awakened caller runs on (weak
fairness: they compete for a mutex that is held for finite sections), short
jobs return, persistent jobs return once the pool is shut down (`UpnpFinish`
stops the timer and the mini server first), time passes. `IdleOutlastsCreation`
adds that no worker idles for the whole of `maxIdleTime` (5 s) while a thread
starts: without it `AddWorker`'s loop could create threads for ever against
workers that leave at once. No caller is obliged to call. *Timer*: the worker
and the stopping thread run, time passes. *GENA control point*: requests end,
threads run on, and a thread waiting for
`GlobalClientSubscribeMutex` gets it if it is released again and again (strong
fairness: others may take it in between). *GENA device*: a job of the pool is
started and its request ends; a job that came too early is started again and
again. *SDK*: calls that have begun, jobs and the server's thread run on.
That requests and jobs end is an assumption about peers in these three, as far as a wait of
the HTTP modules has no limit: a peer that falls silent when
a timeout is used up, or inside a POST to the server, holds the thread that waits for it, and with
it whoever waits for that (`UpnpFinish`, in `ThreadPoolShutdown`).
*SSDP*: timer events fall due, and `HandleLock` is given to a waiting thread in
the end; nothing is assumed of the network. *HTTP client*: the thread runs on,
and in `http_client` the peer closes in the end; `http_timeout` asks nothing of
the peer. *Server*: a connection that waits for nobody goes on, and a call of the application
that registers a device returns; of a peer nothing is assumed, `PeerFallsSilent` may
happen to it and last for ever. *XML*: the parser runs
on. Where a step is expensive to compute, weak fairness is written out with its
enabling condition (`CanReceive`; `CanStep` and `GoesOn`).

## 4. Findings

`http_timeout`: `sock_read_write` subtracts the seconds each read or write took
and treats a timeout of zero as none, so a GET whose request used its time up
waits for a silent peer without limit (`sock.c:198`), against `upnp.h:2269`.

### Properties that TLC refutes

They are defined in the modules, state what a comment or header promises, and fail
with the constants given; no run is kept for them.

* `IdNamesJob` (`ThreadPool`; `Spec`, 3 workers, `ShortJobs = {j1, j2}`, no
  long job, `Submitters = {main, app}`, `MaxJobsTotal = 2`, `StarvationTime =
  0`, `IdSpace = 8`): `ThreadPoolAdd` stamps a job with `lastJobId` and
  increments it only after `AddWorker`, which may release the mutex
  (`ThreadPool.c:813`, `833`): two submitters get one id.
* `QueuedJobHasWorker` (`ThreadPool`; `pool_live` with `JobsPerThread = 2`): with
  `minThreads` 1, the default of `ThreadPool.h:95`, the one idle worker that `AddWorker`
  counts on may take the persistent job from the slot first; nothing creates another for the
  queued job, which `ThreadPool.h:322` says "will be run as soon as possible". libupnp
  keeps two threads for one persistent job (`MIN_THREADS`, `config.h:92`), where it is proved.
* `UnregisterUnsubscribesAll` (`GenaControlPoint`; two `Apps`, one `Sid`,
  `AppsUnregisterBusy`): `UpnpUnRegisterClient` frees the handle in a second
  critical section after the loop of `genaUnregisterClient`; a subscription
  linked in between is neither unsubscribed nor freed (`upnpapi.c:1357`).
* `ListedMeansAllocated` (a part of `GenaControlPoint`'s `ListSound`;
  `ScheduleMayFail`): when the renewal of a new subscription cannot be
  scheduled, `genaSubscribe` frees it although it is in the list (`gena_ctrlpt.c:573`).
* `SharedDataHeld` (`GenaDevice`; `Failures = {"all"}`): when the pool refuses
  a job in the middle of `genaNotifyAll`, the headers and property set that
  earlier jobs use are freed (`gena_device.c:1009`).
* `NoCallbackAfterUnregister` (`Ssdp`; `MaxRegistrations = 1`): a callback may
  begin after `UpnpUnRegisterClient` returned (`upnp.h:1319` excludes it;
  `ssdp_ctrlpt.c:420`, `gena_ctrlpt.c:806`).
* `TableSound` with `Unusual = {"second v6"}` or `{"late client"}` (`Sdk`):
  a second IPv6 device shares one flag with the first, and a client that is not
  in the first two handles is not found by `GetClientHandleInfo`, which
  `UpnpFinish` relies on (`upnpapi.c:3485`).

* `ConnectionsEnd` without its exception `<>[]WaitsForPeer(c)` (`MiniServer`; `http_server`):
  `handle_request` gives a request 30 seconds (`HTTP_DEFAULT_TIMEOUT`), but once parts of it
  have used them up the timeout is 0, which `sock_read` takes for none (`sock.c:143`); the
  body of a POST is read with 0 from the start (`webserver.c:1305`).

### Observations

What the models do as the code does, and what reading the code for them showed:

*Pool and timer.* `ThreadPoolAddPersistent` overwrites a job that waits in the
slot (`ThreadPool.c:777`). `ThreadPoolRemove` of a persistent job in the slot
does not wake its caller. `BumpPriority` compares low priority jobs with
`maxIdleTime` (`ThreadPool.c:371`). A job added by a running job during shutdown
is accepted and neither run nor freed (`ThreadPool.c:805`). Shutdown frees
waiting notifications without the lock that guards their reference count
(`ThreadPool.c:965`). `TimerThreadWorker` drops an event whose job the pool refuses
(`TimerThread.c:97`).

*SDK.* A failure of `UpnpInit` before its servers leaves pools and timer up.
`UpnpRegisterRootDevice2` leaves the description published when it finds no
device in it. `UpnpUnRegisterRootDevice` reads the handle after `HandleUnlock`
(`upnpapi.c:1237`). A job may schedule on the timer that `UpnpFinish` has
already shut down (`upnp.h:955`). `web_server_destroy` runs before request
threads end (`upnpapi.c:625`). `UpnpUnSubscribe` with NULL unlocks a lock it does
not hold (1953). `ThreadPoolAdd`'s result is ignored in the asynchronous calls;
`UpnpSendActionExAsync` drops the header.

*GENA.* A refused requeue in `genaNotifyThread` leaves a gap in the event keys
for which the subscriber's later events wait (`gena_device.c:350`).

*SSDP.* A result may reach the application after its search's timeout event
(`ssdp_ctrlpt.c:420`; `upnp.h:488`). An announcement in flight may be heard
after the byebye. Types match by prefix and versions of two digits are cut. A
second `UpnpSendAdvertisement` starts a second chain of events. A `select` that
fails leaves the search listed.

*HTTP client.* `http_CloseHttpPost` sets the status from an unset variable
(`httpreadwrite.c:913`); `http_SendMessage` returns success for a failed or
short write (498); `OpenHttpGetProxy` and `OpenHttpPost` return a handle beside an
error, `OpenHttpGetEx` frees the handle of a GET whose headers it cannot read and leaks socket and parser (2000); an answer with a body and
another status than 200 leaves `*document` unset; an empty write ends a chunked
POST; answers of HTTP/1.0 are refused; a quote without its end swallows the
headers behind it; `SoapGetServiceVarStatus` ends its headers twice.

*Server.* A peer that falls silent keeps its connection, the job and its thread, and `UpnpFinish`,
for ever when the request's seconds are used up, in the body of a POST
(`http_RecvPostMessage`, `webserver.c:1305`) and in whatever `web_server_callback` sends beyond
the socket's buffer (1412). `StopMiniServer` returns without having told the accept thread to stop when
its `socket()` fails (`miniserver.c:935`; not modelled), and `UpnpFinish` then waits for that thread.
`web_server_set_alias` releases the old description before it
publishes the new one (`webserver.c:398`, `423`), so a request takes a
reference to what is being freed; `is_valid_alias` is asked before the lock and
asserted after it (1042); a plain file sent while a description is set keeps
its reference for ever. The `CONTENT-RANGE` of a suffix range is off by one (821
against 826), the first byte behind the document is accepted; a document of
known length asked for in chunks gets no last chunk; a range sent in chunks ends with a
regular last chunk when the file turns out to be shorter (`httpreadwrite.c:434`); part of a description is
announced and the whole sent. Removing the first of several virtual directories
leaves a dangling head (`upnpapi.c:3846`). A callback's negative error code is
sent as it is; the test of `ErrStr` for a query is inverted
(`soap_device.c:734`); M-POST actions are always refused.

*XML.* Appending or inserting a node that is already in the tree frees and uses
it (`node.c:503`, `622`), where `ixml.h` says that it is moved; a node appended
to itself makes a cycle; `insertBefore` asserts on a NULL reference child that
the documentation allows; `ixmlNode_free` frees the siblings behind;
cloning and printing stop behind a text or CDATA sibling; imported attributes
keep no owner document, so that arguments added to a cloned document are lost;
`setAttributeNodeNS` sets no `prevSibling` (`element.c:633`), `setAttributeNS`
crashes on names without a prefix (448; its test for the name "xmlns" behind that never succeeds), the functions that look attributes up by
namespace on attributes without one. The parser asserts on an end tag
with nothing open (`ixmlparser.c:2250`), accepts a missing ">" and an
empty document, refuses empty CDATA sections, forgets text outside the root,
ignores a default namespace that is not the first attribute or is declared
again, and crashes on prefixes that are bound nowhere (1095, 1532).

*Objective-C.* The set of devices seen is used from several queues without a lock
(`MUPnPControlPoint.m:223`); the byebye callback dispatches synchronously to the
discovery queue (249), which `UpnpFinish` may wait for; a device is announced when its counter of
parsed services is complete (`MUPnPDevice.m:312`), which a failed download prevents for ever.

## 5. The proofs

| Module | Theorems | Inductive invariant |
|---|---|---|
| `ThreadPoolProofs` | `SpecTypeOK`, `SpecThreadAccounting`, `SpecThreadLimit`; `SpecThreadsKept`, `SpecNoLostWakeup`; `SpecImplementsJobPool`, `SpecFifoWithinPriority`, `SpecQueuedJobHasWorker` | `ThreadInv`; with `LifeInv`; `JobInv`, with `OrderInv` for the order and `DutyInv` for the worker |
| `TimerThreadProofs` | `SpecQueueSound`, `SpecWorkerIsWoken`, `SpecRemovesOwnEvent`, `SpecImplementsAlarmClock` | `TimerInv` |
| `GenaControlPointProofs` | `SpecRenewalSound`, `SpecReportedMeansGone`, `SpecFirstEventAccepted`; `SpecListSound` | `ControlPointInv`; with `ListInv` |
| `GenaDeviceProofs` | `SpecListSound`, `SpecEventsInTurn`, `SpecSharedDataFreedByLast` | `DeviceInv` |
| `SdkProofs` | `SpecTableSound`, `SpecNothingLeftBehind`, `SpecWorkSupported` | `SdkInv`, `TableInv` |
| `SsdpProofs` | `SpecAnnouncedIsRegistered`, `SpecSchedulesKept`, `SpecMessagesAgree` | `SsdpInv`, with `AdvertArmed` and `SearchHasTimeout` for the second |
| `MiniServerProofs` | `SpecAliasSound`; `SpecAnswersFit` | `AliasInv`; `AnswersInv` |
| `AsyncCallsProofs` | `SpecCallsAccounted`; `SpecSplitIndependent` | `AsyncInv`; with `PiecesInv` |

They hold for every value of the constants that the `ASSUME` of the module
allows: finitely many workers, threads or subscriptions where something is
counted, distinct `No...` values, sane limits. TLC evaluates these assumptions
in every run. Each proof has the same layout: the invariant holds initially, one lemma
per action (or group of actions that touch the same part of the state) preserves it, and it implies
the properties.

* **Pool.** `ThreadLimit` is not inductive: `CreateWorker` decides by
  `totalThreads`, which a created thread increments only when it runs.
  `StartInv` says that a thread in state `"created"` exists only while
  `pendingWorkerThreadStart` is set, and then it is the only one; `LimitInv`
  that the counted threads plus the pending one are within the limit. Under them
  are lemmas about `BumpPriority` (`AgedPrefixBound`, `BumpedQueues`: ageing
  keeps the types and the number of jobs). `LifeInv` follows the pool's life: who is inside
  in each phase, that the creators in `ThreadPoolInit` leave `minThreads`, and for each
  sleeper what it waits for. `SpecNoLostWakeup` assumes `Removers = {}`: nothing in
  the library calls `ThreadPoolRemove`, which can empty the slot of the persistent
  job without waking the thread that waits for that.
* **Jobs of the pool.** `JobInv` puts each job in exactly one place (a queue, the slot, a
  worker, a caller that has yet to queue it); `BumpedQueues` is strengthened to
  say that ageing moves jobs and repeats none. For the order, no job is younger than
  those of its priority behind it, in its queue or a lower one (`QueuesInOrder`), and
  none is in a queue below its priority (`NoneBelow`): together `OrderInv`.
  The theorems assume `OneSubmitter`, that persistent jobs come from one thread: the slot is
  overwritten without a look at what is in it, and the library's two persistent jobs are
  submitted one after the other by `UpnpInit`'s thread. For `QueuedJobHasWorker` it is not
  enough that a signal follows every job, since the worker it wakes may take the persistent job
  instead: `NoticedInv` says that as long as some worker sleeps, one is on duty for the
  slot, if that is full, and another for the queues. Where nobody sleeps, one is left because the
  persistent jobs are fewer than `MinThreads` (`WorkerToSpare`), whatever times out or fails;
  without that TLC refutes it (section 4).
* **Timer.** That a removal hits its own event needs that ids are below
  `lastEventId`, that ids in the queue differ and that the id a caller holds, if
  queued, is of an event it scheduled (`IdInv`); that in turn an event is in one
  place only (`PlaceInv`); that a worker is woken needs that nothing is queued any
  more when the shutdown begins (`StopInv`). `SpecImplementsAlarmClock` maps
  every step to a step of `AlarmClock` or a stutter.
* **GENA, control point.** Between its critical sections a call carries a
  copy of a subscription. `ThreadInv` says what a thread can be doing where, and that who is
  inside the exchange of a SUBSCRIBE holds the mutex; `EventInv` that an
  event that is set has no job running and that an entry names its own event; with them a
  renewal that gives up has taken its entry out (`GoneInv`) and one that ends
  well has armed the next event (`RenewalArmed`). `ListSound` compares the list with the
  publishers and the timer. `ListInv` says by which call under way the two sides may
  differ: a subscription that one has and the other has not is being requested,
  renewed or cancelled by a thread that will settle it (`AgreeInv`, `AnswerInv`,
  `NameInv`, `TimerInv`). It assumes `Reliable`, what `gcp_live` sets: a lost answer to SUBSCRIBE
  leaves the publisher with a subscription nobody lists, and so on for each of the four constants.
* **GENA, device.** `Turn(s)`: the keys given out and not yet sent are in bijection with the
  jobs of `s`, counted modulo the wrap of the key. `BatchInv` ties the reference
  count to the jobs that share the data. `EventsInTurn` is proved for the
  subscriptions that no refusal has hit, as it is checked.
* **SDK.** `PhaseInv`: a thread in `UpnpInit` or `UpnpFinish` is the only one
  in any call. `StageInv`: what is already down at each stage, `WorkInv`: what is left to
  work at all. For the table (`TableInv`), `OwnInv` says that a handle belongs to one application or to one
  call that gives it back, which is why such a call never frees a handle
  that was given out again, and `ClosedInv` that what a stage of `UpnpFinish` has
  closed stays closed until the next `UpnpInit`. `SpecTableSound` and
  `SpecNothingLeftBehind` assume `Unusual = {}` (TLC refutes them otherwise);
  `SpecWorkSupported` assumes nothing of the applications.
* **SSDP.** A promise and a listed search belong to the handle that is there
  (`promised => desc # None`, listed only while `client`), which is what the job that finds
  no device and `searchExpired` that finds no client rely on. `SpecSchedulesKept` assumes
  `~ScheduleMayFail`: a refusal ends the chain of announcements, as in the code.
  `MessagesAgree` follows from the description alone; `OneDigitVersions` is assumed because
  `AdvertiseAndReply` reads the last digit of a version (see the observations).
* **Server.** `AliasCounted` alone is not inductive: `HeldInv` says which states of a
  connection hold a reference and to what, `OwnerInv` what the publisher's two critical
  sections leave in between, `CrashInv` when an assertion can fail. `AnswersInv` is the
  conjunction over the connections of `ConnInv`, which speaks of one connection alone and
  says for each place of its thread what is settled there: what `process_request`
  decided fits the document (`Planned`), the head that will be sent keeps to
  that (`Promised`), and in the loop that reads and sends, what has been sent and what is
  left make up the whole (`Reading`). The lemmas `RangeGranted`, `HeadersChecked` and
  `DocumentPlanned` are about `CreateHTTPRangeResponseHeader` and its callers for every range and length.
  `RequestAssumption` only types the requests, the files and the application's verdicts. Neither
  invariant speaks of `patience` and `silent`: they hold whenever and however long peers are slow.

* **Calls of the HTTP client.** `ConnInv`: the socket of the connection is open only while a
  call runs or a handle can close it, and a read leaves its handle open whichever way it ends;
  the calls in `leaked`, which lost an open socket, are GETs, whose opening is the one path that
  drops a connection without closing it.
  `WorkerInv`: the job at work has made a call of its own kind, so that when the call is
  over its result is one of that kind; `ResponseFits` says which documents
  `get_response_value` hands out, whatever the answer holds. `EachCallOnce` keeps the
  blocks apart: the cookies in the pool, at work, told and refused are disjoint and
  together `1..asked`. None of this looks into the parser.
* **Parser.** `SplitIndependent` is a statement about `httpparser.c` alone, and its proof
  goes up the layers of that file. A token that the scanner found in a buffer it finds in
  every longer one (`TokenStable`), so do the searches for a line end or the end of
  white space (`TokensUntilStable`, `SkipLwsStable`, `RawEndStable`) and a match that has
  succeeded or failed (`VfmatchStable`); one that waits has put the cursor back. A
  round of a loop is therefore either *repeated* when more has arrived, with the new
  bytes behind the rest, or *resumed* from where it waits (`StepGood`: `LinesGood` for
  headers, `PartsGood` for bodies by length, in chunks and to the end). From rounds to
  loops (`RunsGood`) takes an induction over the units that are left (`Rank`), which each
  round diminishes; so the bounds of the loops are never reached. `FedInPieces` puts the line,
  the headers and the entity together, and `PiecesInv` carries it along the
  receives of a call. The one place where pieces and whole differ is the buffer behind a
  complete message (`Agree`), where trailers are cut out only as far as they were there;
  by then the call is over. Units are any strings; the tables of numbers and versions are
  those of the model. The theorem assumes of the answers only that they are sequences of units.

The inductions over buffers and loops are by the least counterexample: the library's
induction theorems take an operator, which the provers cannot instantiate, but a set
of naturals that is not empty has a least member (`LeastOfNats`), and a recursive function
is unfolded once it is shown to exist (`Descent`, `MatchesExist`, `ItsExist`).

*Only model-checked*: all liveness (`JobLeavesQueue`, `CallReturns`,
`TimerLives`, `NotificationEnds`, `TimersAct`, `CallsReturn`, `ConnectionsEnd`),
which needs fairness, beyond TLAPS; `AnswersHandedOver` and `RequestsArrive`, which
compare what a parser makes of particular messages with what they mean, a computation for
each message that the configuration enumerates; and the XML library (`TreesSound`,
`ParsedAsWritten`), whose definitions are `RECURSIVE` operators like the code they
follow: modules with such operators are closed to the SMT backend.

## 6. What is left to do

1. The draining of jobs by `ThreadPoolShutdown` composed with `GenaDevice`, for
   the reference count that is touched without its lock.
2. `urlconfig.c` and `uri.c` as operators against the rules of RFC 3986.

## 7. Not modelled

* **The iOS library** (Objective-C): its control flow runs in Grand Central
  Dispatch, `NSXMLParser`, `NSURLConnection` and `NSNotificationCenter`, whose
  behaviour is not in the repository; what it relies on is modelled (`Ssdp`,
  `GenaControlPoint`, `AsyncCalls`, `HttpClient`). The media proxies put values
  into SOAP actions and take them out; the DIDL classes are data filled by a
  sequential parser. One hazard of these classes is listed without a property.
* **Utilities** (`membuffer`, `strintmap`, lists, `uri`, time): sequential,
  used by what they do.
* IPv6 (`UPNP_ENABLE_IPV6` is not defined), the character level of the XML and
  HTTP scanners, dates and media types, setters of parameters, logging, free
  lists, and memory exhaustion except where a module says so.
