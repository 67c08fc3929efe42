---------------------------------- MODULE Sdk ----------------------------------
(***************************************************************************)
(* The life of the SDK: libupnp/api/upnpapi.c (UpnpInit, UpnpFinish, the   *)
(* handle table and the Register calls) composed with                      *)
(* genlib/miniserver/miniserver.c and with the three thread pools and the  *)
(* timer thread by their contracts (see ThreadPool and TimerThread).       *)
(*                                                                         *)
(* An action on the handle table is one critical section of HandleLock.    *)
(* Of the work the SDK does on its own there is one job of each kind: the  *)
(* handling of a connection, of a search request, and an announcement or   *)
(* reply the timer has handed out.                                         *)
(*                                                                         *)
(* Applications follow the manual: they call only between UpnpInit and     *)
(* UpnpFinish, UpnpFinish is the last call, and a handle is given back     *)
(* once, by its owner.  Left out: IPv6 sockets (UPNP_ENABLE_IPV6 is not    *)
(* defined) and the 500 s after which StartMiniServer gives up.            *)
(***************************************************************************)
EXTENDS Integers, FiniteSets, SequencesExt

CONSTANTS
    Apps,
    NumHandle, \* NUM_HANDLE: the handles are 1 .. NumHandle - 1
    MayFail,   \* what UpnpInit may meet: "pool", "timer", "host", "web", the names in
               \* OpenOrder and "thread"
    Unusual,   \* what applications do besides: "second v6", an IPv6 device beside another,
               \* and "late client", a client registered after two devices
    NoInfo, NoApp

Handles == 1..(NumHandle - 1)
OpenOrder == <<"http", "stop", "ssdpReq", "ssdp">>
Sockets == ToSet(OpenOrder)

HandleInfo == [HType : {"client", "device"}, DeviceAf : {"v4", "v6", "none"},
               aliasInstalled : BOOLEAN]

ASSUME SdkAssumption ==
    /\ NumHandle \in Nat
    /\ MayFail \subseteq {"pool", "timer", "host", "web", "thread"} \cup Sockets
    /\ Unusual \subseteq {"second v6", "late client"}
    /\ NoInfo \notin HandleInfo /\ NoApp \notin Apps

VARIABLES
    UpnpSdkInit,
    locks,         \* GlobalHndRWLock and the other mutexes are initialized
    pool,          \* "down", "up", or "stopping" while ThreadPoolShutdown waits
    timer,         \* gTimerThread: "down" or "up"
    HandleTable,
    UpnpSdkClientRegistered, UpnpSdkDeviceRegisteredV4, UpnpSdkDeviceregisteredV6,
    alias,         \* the web server serves a description for the SDK
    gMServState,
    runs,          \* RunMiniServer: "no", "queued", "loop" or "closing"
    sockets,       \* open sockets
    shutDown,      \* a "ShutDown" datagram is on its way to the stop socket
    job,           \* the state of the job of each kind
    connection,    \* a connection the mini server has accepted is open
    event,         \* the timer holds an event
    pc, arg,       \* an application thread: where it is, and the handle it works on
    owns,          \* the handles an application has been given
    gSDKInitMutex  \* the application that holds it

initVars  == <<UpnpSdkInit, locks, pool, timer, gSDKInitMutex>>
flagVars  == <<UpnpSdkClientRegistered, UpnpSdkDeviceRegisteredV4, UpnpSdkDeviceregisteredV6>>
tableVars == <<HandleTable, flagVars, alias>>
miniVars  == <<gMServState, runs, sockets, shutDown>>
jobVars   == <<job, connection, event>>
appVars   == <<pc, arg, owns>>
vars == <<initVars, tableVars, miniVars, jobVars, appVars>>

Pools == {"mini", "recv", "send"}
Kinds == {"request", "search", "advert"}
PoolOf(k) == CASE k = "request" -> "mini" [] k = "search" -> "recv" [] k = "advert" -> "send"

FinishSteps == {"device", "client", "timer", "stop", "mini", "recv", "send", "locks"}

TypeOK ==
    /\ {UpnpSdkInit, locks, alias, shutDown, connection, event} \subseteq BOOLEAN
    /\ \A f \in {UpnpSdkClientRegistered, UpnpSdkDeviceRegisteredV4,
                 UpnpSdkDeviceregisteredV6} : f \in BOOLEAN
    /\ pool \in [Pools -> {"down", "up", "stopping"}]
    /\ timer \in {"down", "up"}
    /\ HandleTable \in [Handles -> HandleInfo \cup {NoInfo}]
    /\ gMServState \in {"MSERV_IDLE", "MSERV_RUNNING", "MSERV_STOPPING"}
    /\ runs \in {"no", "queued", "loop", "closing"}
    /\ sockets \subseteq Sockets
    /\ job \in [Kinds -> {"none", "queued", "running", "scheduling"}]
    /\ pc \in [Apps -> {"idle", "start", "wait", "unregisterDevice", "unregisterClient"}
                       \cup FinishSteps]
    /\ arg \in [Apps -> Handles \cup {0}]
    /\ owns \in [Apps -> SUBSET Handles]
    /\ gSDKInitMutex \in Apps \cup {NoApp}

-------------------------------------------------------------------------------
(* The handle table.                                                        *)

Used(h) == HandleTable[h] # NoInfo
IsDevice(h, af) == Used(h) /\ HandleTable[h].HType = "device" /\ HandleTable[h].DeviceAf = af
IsClient(h) == Used(h) /\ HandleTable[h].HType = "client"

(* GetHandleInfo                                                            *)
HandleType(h) == IF h \in Handles /\ Used(h) THEN HandleTable[h].HType ELSE "invalid"

FreeHandles == {h \in Handles : ~Used(h)}
GetFreeHandle == CHOOSE h \in FreeHandles : \A g \in FreeHandles : h <= g

(* GetClientHandleInfo looks at two handles only, GetDeviceHandleInfo at    *)
(* all when its flag is set.                                                *)
GetClientHandleInfo == {h \in {1, 2} : HandleType(h) = "client"}
FlagOf(af) == IF af = "v4" THEN UpnpSdkDeviceRegisteredV4 ELSE UpnpSdkDeviceregisteredV6
GetDeviceHandleInfo(af) == IF FlagOf(af) THEN {h \in Handles : IsDevice(h, af)} ELSE {}

SetFlag(af, value) ==
    /\ UpnpSdkDeviceRegisteredV4' = IF af = "v4" THEN value ELSE UpnpSdkDeviceRegisteredV4
    /\ UpnpSdkDeviceregisteredV6' = IF af = "v6" THEN value ELSE UpnpSdkDeviceregisteredV6
    /\ UNCHANGED UpnpSdkClientRegistered

FreeHandleNever(h) == UNCHANGED HandleTable
FreeHandle(h) == HandleTable' = [HandleTable EXCEPT ![h] = NoInfo]

-------------------------------------------------------------------------------
(* What an application may do, by the manual.                               *)

Busy(a) == pc[a] # "idle"
MayCall(a) ==
    /\ ~Busy(a) /\ UpnpSdkInit /\ gSDKInitMutex = NoApp
    /\ \A b \in Apps : pc[b] \notin FinishSteps

Goto(a, where) == pc' = [pc EXCEPT ![a] = where]
Give(a, h) == owns' = [owns EXCEPT ![a] = @ \cup {h}]

(* UpnpRegisterRootDevice, ...2 and ...4, each one critical section that    *)
(* downloads or reads the description: it fails without a trace when there  *)
(* is none (GetDescDocumentAndURL) or no device in it.  Only ...2 installs  *)
(* an alias, and only ...4 makes IPv6 devices; the loop there that should   *)
(* find another device starts at the unused handle 0 and finds none.        *)
RegisterDevice(a, af, aliased, description) ==
    /\ MayCall(a)
    /\ ~FlagOf("v4") \/ af = "v6"
    /\ af = "v6" => ~aliased /\ ("second v6" \in Unusual \/ ~FlagOf("v6"))
    /\ FreeHandles # {}
    /\ IF description = "good"
       THEN LET h == GetFreeHandle IN
            /\ HandleTable' = [HandleTable EXCEPT ![h] =
                   [HType |-> "device", DeviceAf |-> af, aliasInstalled |-> aliased]]
            /\ SetFlag(af, TRUE)
            /\ alias' = (alias \/ aliased)
            /\ Give(a, h)
       ELSE /\ alias' = (alias \/ (aliased /\ description = "no device"))
            /\ UNCHANGED <<HandleTable, flagVars, owns>>
    /\ UNCHANGED <<initVars, miniVars, jobVars, pc, arg>>

UpnpRegisterRootDevice(a) ==
    \E d \in {"good", "none", "no device"} : RegisterDevice(a, "v4", FALSE, d)
UpnpRegisterRootDevice2(a) ==
    \E aliased \in BOOLEAN, d \in {"good", "none", "no device"} :
        RegisterDevice(a, "v4", aliased, d)
UpnpRegisterRootDevice4(a) ==
    \E af \in {"v4", "v6"}, d \in {"good", "none", "no device"} : RegisterDevice(a, af, FALSE, d)

(* UpnpUnRegisterRootDevice: genaUnregisterDevice and the byebye in their   *)
(* critical sections, and then the handle.                                  *)
UnRegisterDeviceBegins(a, h) ==
    /\ MayCall(a) /\ h \in owns[a] /\ HandleType(h) = "device"
    /\ owns' = [owns EXCEPT ![a] = @ \ {h}]
    /\ arg' = [arg EXCEPT ![a] = h]
    /\ Goto(a, "unregisterDevice")
    /\ UNCHANGED <<initVars, tableVars, miniVars, jobVars>>

DropAlias(h) == alias' = (alias /\ ~HandleTable[h].aliasInstalled)

UnRegisterDeviceFrees(h) ==
    IF Used(h)
    THEN DropAlias(h) /\ SetFlag(HandleTable[h].DeviceAf, FALSE) /\ FreeHandle(h)
    ELSE UNCHANGED tableVars

UnRegisterDeviceEnds(a) ==
    /\ pc[a] = "unregisterDevice"
    /\ UnRegisterDeviceFrees(arg[a])
    /\ Goto(a, "idle") /\ arg' = [arg EXCEPT ![a] = 0]
    /\ UNCHANGED <<initVars, miniVars, jobVars, owns>>

UpnpRegisterClient(a) ==
    /\ MayCall(a) /\ ~UpnpSdkClientRegistered /\ FreeHandles # {}
    /\ "late client" \in Unusual \/ GetFreeHandle \in {1, 2}
    /\ HandleTable' = [HandleTable EXCEPT ![GetFreeHandle] =
           [HType |-> "client", DeviceAf |-> "none", aliasInstalled |-> FALSE]]
    /\ UpnpSdkClientRegistered' = TRUE
    /\ Give(a, GetFreeHandle)
    /\ UNCHANGED <<initVars, UpnpSdkDeviceRegisteredV4, UpnpSdkDeviceregisteredV6, alias,
                   miniVars, jobVars, pc, arg>>

(* UpnpUnRegisterClient after genaUnregisterClient, and its second half.    *)
UnRegisterClientBegins(a, h) ==
    /\ MayCall(a) /\ h \in owns[a] /\ UpnpSdkClientRegistered /\ HandleType(h) = "client"
    /\ owns' = [owns EXCEPT ![a] = @ \ {h}]
    /\ arg' = [arg EXCEPT ![a] = h]
    /\ Goto(a, "unregisterClient")
    /\ UNCHANGED <<initVars, tableVars, miniVars, jobVars>>

UnRegisterClientFrees(h) ==
    IF Used(h)
    THEN /\ FreeHandle(h) /\ UpnpSdkClientRegistered' = FALSE
         /\ UNCHANGED <<UpnpSdkDeviceRegisteredV4, UpnpSdkDeviceregisteredV6, alias>>
    ELSE UNCHANGED tableVars

UnRegisterClientEnds(a) ==
    /\ pc[a] = "unregisterClient"
    /\ UnRegisterClientFrees(arg[a])
    /\ Goto(a, "idle") /\ arg' = [arg EXCEPT ![a] = 0]
    /\ UNCHANGED <<initVars, miniVars, jobVars, owns>>

-------------------------------------------------------------------------------
(* UpnpInit                                                                 *)

EmptyTable == [h \in Handles |-> NoInfo]

(* UpnpInit as far as UpnpInitStartServers.  UpnpInitThreadPools and a      *)
(* failing TimerThreadInit call UpnpFinish while UpnpSdkInit is 0, so that  *)
(* it returns at once, and a host name that is not found does not call it;  *)
(* what is up by then stays up, and is initialized again by the next        *)
(* UpnpInit.                                                                *)
InitReaches(failure) ==
    /\ locks' = TRUE
    /\ HandleTable' = EmptyTable
    /\ pool' = IF failure = "pool" THEN [pool EXCEPT !["send"] = "up"]
               ELSE [p \in Pools |-> "up"]
    /\ timer' = IF failure \in {"pool", "timer"} THEN timer ELSE "up"
    /\ UpnpSdkInit' = (failure = "none")

UpnpInit(a) ==
    /\ ~Busy(a) /\ ~UpnpSdkInit /\ gSDKInitMutex = NoApp
    /\ \E failure \in {"none"} \cup (MayFail \cap {"pool", "timer", "host"}) :
        /\ InitReaches(failure)
        /\ IF failure = "none" THEN Goto(a, "start") /\ gSDKInitMutex' = a
           ELSE UNCHANGED <<pc, gSDKInitMutex>>
    /\ UNCHANGED <<flagVars, alias, miniVars, jobVars, arg, owns>>

(* The sockets StartMiniServer, get_miniserver_sockets and get_ssdp_sockets *)
(* have opened when they fail, and those they close on that path.           *)
OpenedBefore(failure) ==
    IF failure = "thread" THEN Sockets
    ELSE {OpenOrder[i] : i \in {j \in 1..Len(OpenOrder) :
              j <= CHOOSE k \in 1..Len(OpenOrder) : OpenOrder[k] = failure}}
ClosedOnWithoutStop(failure) ==
    IF failure = "thread" THEN Sockets
    ELSE {failure} \cup (IF failure \in {"stop", "ssdpReq", "ssdp"} THEN {"http"} ELSE {})
                   \cup (IF failure = "ssdp" THEN {"ssdpReq"} ELSE {})
ClosedOn(failure) ==
    IF failure = "thread" THEN Sockets
    ELSE {failure} \cup (IF failure \in {"stop", "ssdpReq", "ssdp"} THEN {"http"} ELSE {})
                   \cup (IF failure \in {"ssdpReq", "ssdp"} THEN {"stop"} ELSE {})
                   \cup (IF failure = "ssdp" THEN {"ssdpReq"} ELSE {})

(* StartMiniServer up to its wait: on an error UpnpInitStartServers calls   *)
(* UpnpFinish, here with UpnpSdkInit = 1.                                   *)
StartMiniServer(a) ==
    /\ pc[a] = "start"
    /\ \/ /\ gMServState = "MSERV_IDLE"
          /\ sockets' = Sockets /\ shutDown' = FALSE /\ runs' = "queued"
          /\ Goto(a, "wait")
       \/ /\ gMServState = "MSERV_IDLE"
          /\ \E failure \in MayFail \cap (Sockets \cup {"thread"}) :
                sockets' = (sockets \cup OpenedBefore(failure)) \ ClosedOn(failure)
          /\ Goto(a, "device")
          /\ UNCHANGED <<runs, shutDown>>
       \/ /\ gMServState # "MSERV_IDLE"
          /\ Goto(a, "device")
          /\ UNCHANGED <<sockets, runs, shutDown>>
    /\ UNCHANGED <<initVars, tableVars, gMServState, jobVars, arg, owns>>

(* The server runs; UpnpEnableWebserver.                                    *)
InitEnds(a) ==
    /\ pc[a] = "wait" /\ gMServState = "MSERV_RUNNING"
    /\ \/ Goto(a, "idle") /\ gSDKInitMutex' = NoApp
       \/ "web" \in MayFail /\ Goto(a, "device") /\ UNCHANGED gSDKInitMutex
    /\ UNCHANGED <<UpnpSdkInit, locks, pool, timer, tableVars, miniVars, jobVars, arg, owns>>

-------------------------------------------------------------------------------
(* The mini server and the jobs of the pools.                               *)

ServerStarts ==
    /\ runs = "queued"
    /\ runs' = "loop" /\ gMServState' = "MSERV_RUNNING"
    /\ UNCHANGED <<initVars, tableVars, sockets, shutDown, jobVars, appVars>>

AddJob(k) == job' = [job EXCEPT ![k] = "queued"]

(* web_server_accept: schedule_request_job closes the connection when the   *)
(* pool refuses the job.                                                    *)
ServerAccepts ==
    /\ runs = "loop" /\ "http" \in sockets /\ job["request"] = "none"
    /\ \/ AddJob("request") /\ connection' = TRUE
       \/ UNCHANGED <<job, connection>>
    /\ UNCHANGED <<initVars, tableVars, miniVars, event, appVars>>

(* ssdp_read: readFromSSDPSocket hands a search request to the pool.        *)
ServerReads ==
    /\ runs = "loop" /\ "ssdp" \in sockets /\ job["search"] = "none"
    /\ AddJob("search")
    /\ UNCHANGED <<initVars, tableVars, miniVars, connection, event, appVars>>

ServerStopsNever ==      \* mutant: the message is read, the loop goes on
    /\ runs = "loop" /\ shutDown
    /\ shutDown' = FALSE
    /\ UNCHANGED <<initVars, tableVars, gMServState, runs, sockets, jobVars, appVars>>
(* receive_from_stopSock, and the end of the loop.                          *)
ServerStops ==
    /\ runs = "loop" /\ shutDown
    /\ runs' = "closing" /\ shutDown' = FALSE
    /\ UNCHANGED <<initVars, tableVars, gMServState, sockets, jobVars, appVars>>

ServerCloses ==
    /\ runs = "closing"
    /\ sockets' = {} /\ gMServState' = "MSERV_IDLE" /\ runs' = "no"
    /\ UNCHANGED <<initVars, tableVars, shutDown, jobVars, appVars>>

JobStarts(k) ==
    /\ job[k] = "queued" /\ pool[PoolOf(k)] = "up"
    /\ job' = [job EXCEPT ![k] = "running"]
    /\ UNCHANGED <<initVars, tableVars, miniVars, connection, event, appVars>>

(* handle_request: dispatch_request runs the web server, SOAP or GENA, and  *)
(* sock_destroy closes the connection.                                      *)
RequestEnds ==
    /\ job["request"] = "running"
    /\ job' = [job EXCEPT !["request"] = "none"] /\ connection' = FALSE
    /\ UNCHANGED <<initVars, tableVars, miniVars, event, appVars>>

(* ssdp_handle_device_request and UpnpSendAdvertisement: with a device of   *)
(* the SDK registered they go on, after HandleUnlock, to TimerThreadSchedule*)
(* (a reply that has been sent does not).                                   *)
JobLooks(k) ==
    /\ k \in {"search", "advert"} /\ job[k] = "running"
    /\ \/ /\ GetDeviceHandleInfo("v4") # {}
          /\ job' = [job EXCEPT ![k] = "scheduling"]
       \/ /\ GetDeviceHandleInfo("v4") = {} \/ k = "advert"
          /\ job' = [job EXCEPT ![k] = "none"]
    /\ UNCHANGED <<initVars, tableVars, miniVars, connection, event, appVars>>

JobSchedules(k) ==
    /\ job[k] = "scheduling"
    /\ job' = [job EXCEPT ![k] = "none"]
    /\ event' = (event \/ timer = "up")
    /\ UNCHANGED <<initVars, tableVars, miniVars, connection, appVars>>

TimerFires ==
    /\ timer = "up" /\ event /\ job["advert"] = "none"
    /\ event' = FALSE /\ AddJob("advert")
    /\ UNCHANGED <<initVars, tableVars, miniVars, connection, appVars>>

-------------------------------------------------------------------------------
(* UpnpFinish                                                               *)

UpnpFinish(a) ==
    /\ MayCall(a) /\ \A b \in Apps : ~Busy(b)
    /\ Goto(a, "device")
    /\ UNCHANGED <<initVars, tableVars, miniVars, jobVars, arg, owns>>

(* UpnpUnRegisterRootDevice for the device found of each family.            *)
FinishDevice(a) ==
    /\ pc[a] = "device"
    /\ IF GetDeviceHandleInfo("v4") \cup GetDeviceHandleInfo("v6") = {}
       THEN Goto(a, "client") /\ UNCHANGED tableVars
       ELSE /\ \E h \in GetDeviceHandleInfo("v4") \cup GetDeviceHandleInfo("v6") :
                   UnRegisterDeviceFrees(h)
            /\ UNCHANGED pc
    /\ UNCHANGED <<initVars, miniVars, jobVars, arg, owns>>

FinishClient(a) ==
    /\ pc[a] = "client"
    /\ IF GetClientHandleInfo = {} THEN UNCHANGED tableVars
       ELSE \E h \in GetClientHandleInfo : UnRegisterClientFrees(h)
    /\ Goto(a, "timer")
    /\ UNCHANGED <<initVars, miniVars, jobVars, arg, owns>>

FinishTimer(a) ==
    /\ pc[a] = "timer"
    /\ timer' = "down" /\ event' = FALSE
    /\ Goto(a, "stop")
    /\ UNCHANGED <<UpnpSdkInit, locks, pool, gSDKInitMutex, tableVars, miniVars, job,
                   connection, arg, owns>>

(* StopMiniServer sends a datagram every second until the server is idle.   *)
StopMiniServer(a) ==
    /\ pc[a] = "stop"
    /\ \/ /\ gMServState = "MSERV_IDLE"
          /\ Goto(a, "mini")
          /\ UNCHANGED <<gMServState, shutDown>>
       \/ /\ gMServState # "MSERV_IDLE" /\ ~shutDown
          /\ gMServState' = "MSERV_STOPPING"
          /\ shutDown' = ("stop" \in sockets)
          /\ UNCHANGED pc
    /\ UNCHANGED <<initVars, tableVars, runs, sockets, jobVars, arg, owns>>

NextPool(p) == CASE p = "mini" -> "recv" [] p = "recv" -> "send" [] p = "send" -> "locks"

(* ThreadPoolShutdown drops what waits, with free_handle_request_arg for a  *)
(* connection, and then waits for the threads.                              *)
DropQueued(p) ==
    /\ job' = [k \in Kinds |-> IF PoolOf(k) = p /\ job[k] = "queued" THEN "none" ELSE job[k]]
    /\ connection' = (connection /\ ~(p = "mini" /\ job["request"] = "queued"))

ShutdownDrops(a) ==
    /\ pc[a] \in Pools /\ pool[pc[a]] = "up"
    /\ pool' = [pool EXCEPT ![pc[a]] = "stopping"]
    /\ DropQueued(pc[a])
    /\ UNCHANGED <<UpnpSdkInit, locks, timer, gSDKInitMutex, tableVars, miniVars, event,
                   appVars>>

NoWait(p) == TRUE
NoneRuns(p) ==
    /\ \A k \in Kinds : PoolOf(k) = p => job[k] \in {"none", "queued"}
    /\ p = "mini" => runs = "no"

ShutdownWaits(a) ==
    /\ pc[a] \in Pools /\ pool[pc[a]] = "stopping" /\ NoneRuns(pc[a])
    /\ pool' = [pool EXCEPT ![pc[a]] = "down"]
    /\ Goto(a, NextPool(pc[a]))
    /\ UNCHANGED <<UpnpSdkInit, locks, timer, gSDKInitMutex, tableVars, miniVars, jobVars,
                   arg, owns>>

(* A failed UpnpInit clears the flag once more and releases its mutex.      *)
FinishEnds(a) ==
    /\ pc[a] = "locks"
    /\ locks' = FALSE /\ UpnpSdkInit' = FALSE
    /\ gSDKInitMutex' = NoApp
    /\ Goto(a, "idle")
    /\ owns' = [b \in Apps |-> {}]
    /\ UNCHANGED <<pool, timer, tableVars, miniVars, jobVars, arg>>

-------------------------------------------------------------------------------
Init ==
    /\ UpnpSdkInit = FALSE /\ locks = FALSE /\ gSDKInitMutex = NoApp
    /\ pool = [p \in Pools |-> "down"] /\ timer = "down"
    /\ HandleTable = EmptyTable /\ alias = FALSE
    /\ UpnpSdkClientRegistered = FALSE
    /\ UpnpSdkDeviceRegisteredV4 = FALSE /\ UpnpSdkDeviceregisteredV6 = FALSE
    /\ gMServState = "MSERV_IDLE" /\ runs = "no" /\ sockets = {} /\ shutDown = FALSE
    /\ job = [k \in Kinds |-> "none"] /\ connection = FALSE /\ event = FALSE
    /\ pc = [a \in Apps |-> "idle"] /\ arg = [a \in Apps |-> 0]
    /\ owns = [a \in Apps |-> {}]

FinishStep(a) ==
    \/ FinishDevice(a) \/ FinishClient(a) \/ FinishTimer(a) \/ StopMiniServer(a)
    \/ ShutdownDrops(a) \/ ShutdownWaits(a) \/ FinishEnds(a)

CallStep(a) ==
    \/ UnRegisterDeviceEnds(a) \/ UnRegisterClientEnds(a)
    \/ StartMiniServer(a) \/ InitEnds(a) \/ FinishStep(a)

AppCalls(a) ==
    \/ UpnpInit(a) \/ UpnpFinish(a)
    \/ UpnpRegisterRootDevice(a) \/ UpnpRegisterRootDevice2(a) \/ UpnpRegisterRootDevice4(a)
    \/ UpnpRegisterClient(a)
    \/ \E h \in Handles : UnRegisterDeviceBegins(a, h) \/ UnRegisterClientBegins(a, h)

JobStep(k) == JobStarts(k) \/ JobLooks(k) \/ JobSchedules(k)
ServerStep == ServerStarts \/ ServerStops \/ ServerCloses

Next ==
    \/ \E a \in Apps : AppCalls(a) \/ CallStep(a)
    \/ \E k \in Kinds : JobStep(k)
    \/ RequestEnds \/ TimerFires
    \/ ServerStep \/ ServerAccepts \/ ServerReads

Spec == Init /\ [][Next]_vars

(* Every thread is scheduled.                                               *)
Fairness ==
    /\ \A a \in Apps : WF_vars(CallStep(a))
    /\ \A k \in Kinds : WF_vars(JobStep(k))
    /\ WF_vars(RequestEnds) /\ WF_vars(ServerStep)
LiveSpec == Spec /\ Fairness

-------------------------------------------------------------------------------
(* Properties                                                               *)

(* The three flags that stand for the table say what is in it: a family has *)
(* its flag set when and only when a device of it has a handle, and there   *)
(* is at most one such device and one client.  The flags, and not the       *)
(* table, decide whether a request is answered and what UpnpFinish closes.  *)
FlagsMatchTable ==
    /\ \A af \in {"v4", "v6"} :
        /\ FlagOf(af) <=> \E h \in Handles : IsDevice(h, af)
        /\ Cardinality({h \in Handles : IsDevice(h, af)}) <= 1
    /\ UpnpSdkClientRegistered <=> \E h \in Handles : IsClient(h)
    /\ Cardinality({h \in Handles : IsClient(h)}) <= 1

(* A device whose description the SDK serves keeps it served while it is    *)
(* registered, whatever other devices come and go.                          *)
AliasServedWhileRegistered ==
    (\E h \in Handles : Used(h) /\ HandleTable[h].aliasInstalled) => alias

(* The handle table and what is kept beside it: the flags and the alias.    *)
TableSound == TypeOK /\ FlagsMatchTable /\ AliasServedWhileRegistered

(* What a finished UpnpFinish, or an UpnpInit that has failed in            *)
(* UpnpInitStartServers, leaves behind: no pool, no timer, no server, no    *)
(* socket, no connection and no handle.  (Stated for the failures that do   *)
(* reach UpnpFinish.)                                                       *)
NothingLeftBehind ==
    (~UpnpSdkInit /\ ~locks) =>
        /\ pool = [p \in Pools |-> "down"] /\ timer = "down"
        /\ gMServState = "MSERV_IDLE" /\ runs = "no" /\ sockets = {}
        /\ job = [k \in Kinds |-> "none"] /\ ~connection
        /\ \A h \in Handles : ~IsDevice(h, "v4") /\ ~IsDevice(h, "v6")

(* A job that runs, and the mini server, find the pool they run in and the  *)
(* mutexes of the SDK still there: UpnpFinish takes the pools down before   *)
(* the locks and waits for each.                                            *)
JobsHaveLocks ==
    /\ \A k \in Kinds : job[k] \in {"running", "scheduling"} =>
           locks /\ pool[PoolOf(k)] # "down"
    /\ runs # "no" => locks /\ pool["mini"] # "down"

(* An accepted connection has a job that will close it, also when UpnpFinish*)
(* drops the job.                                                           *)
ConnectionHasJob == connection => job["request"] # "none"

(* Who works for the SDK has what the work needs until it ends.             *)
WorkSupported == JobsHaveLocks /\ ConnectionHasJob

(* UpnpInit, UpnpFinish and the Unregister calls return: the mini server    *)
(* hears of its end and the jobs let the pools go.                          *)
CallReturns == \A a \in Apps : Busy(a) ~> ~Busy(a)
===============================================================================
