------------------------------ MODULE SdkProofs -------------------------------
(***************************************************************************)
(* The life of the SDK for any number of application threads and of        *)
(* handles: what the handle table says, what works while which lock and    *)
(* pool is there, and what is left behind.  The table is treated for       *)
(* applications that do nothing unusual (see Unusual).                     *)
(***************************************************************************)
EXTENDS Sdk, FiniteSetTheorems, TLAPS

-------------------------------------------------------------------------------
(* The inductive invariant                                                  *)

Stopping == {"stop", "mini", "recv", "send", "locks"}
Special == FinishSteps \cup {"start", "wait"}

(* UpnpInit and UpnpFinish work alone, and with the flag set.               *)
PhaseInv ==
    /\ \A a, b \in Apps : pc[a] \in Special /\ Busy(b) => a = b
    /\ \A a \in Apps : pc[a] \in Special => UpnpSdkInit
    /\ gSDKInitMutex # NoApp => pc[gSDKInitMutex] \in Special
    /\ \A a \in Apps : pc[a] \in {"start", "wait"} => gSDKInitMutex = a
    /\ ~UpnpSdkInit => \A a \in Apps : ~Busy(a)
    /\ UpnpSdkInit => locks

(* What the threads of the SDK still have, stage by stage of UpnpFinish.    *)
WorkInv ==
    /\ runs = "no" => sockets = {}
    /\ runs \in {"no", "queued"} => gMServState = "MSERV_IDLE"
    /\ runs = "queued" => \E a \in Apps : pc[a] = "wait"
    /\ runs \in {"loop", "closing"} => gMServState # "MSERV_IDLE"
    /\ runs # "no" => UpnpSdkInit
    /\ \A k \in Kinds : job[k] # "none" => UpnpSdkInit
    /\ connection => job["request"] # "none"
    /\ job["request"] # "scheduling"
    /\ event => timer = "up"
    /\ event => UpnpSdkInit
    /\ UpnpSdkInit => \/ \A p \in Pools : pool[p] = "up"
                      \/ \E a \in Apps : pc[a] \in Pools \cup {"locks"}
    /\ ~locks => timer = "down" /\ \A p \in Pools : pool[p] = "down"

StageInv ==
    \A a \in Apps :
        /\ pc[a] = "start" => runs = "no"
        /\ pc[a] \in Stopping => timer = "down"
        /\ pc[a] \in {"mini", "recv", "send", "locks"} => runs = "no"
        /\ pc[a] = "mini" => pool["mini"] # "down" /\ pool["recv"] = "up" /\ pool["send"] = "up"
        /\ pc[a] = "mini" /\ pool["mini"] = "stopping" => job["request"] # "queued"
        /\ pc[a] \in {"recv", "send", "locks"} => pool["mini"] = "down" /\ job["request"] = "none"
        /\ pc[a] = "recv" => pool["recv"] # "down" /\ pool["send"] = "up"
        /\ pc[a] = "recv" /\ pool["recv"] = "stopping" => job["search"] # "queued"
        /\ pc[a] \in {"send", "locks"} => pool["recv"] = "down" /\ job["search"] = "none"
        /\ pc[a] = "send" => pool["send"] # "down"
        /\ pc[a] = "send" /\ pool["send"] = "stopping" => job["advert"] # "queued"
        /\ pc[a] = "locks" => pool["send"] = "down" /\ job["advert"] = "none"

SdkInv == TypeOK /\ PhaseInv /\ WorkInv /\ StageInv

(* A call that gives a handle back is about a handle.                       *)
Unregisters(a) == pc[a] \in {"unregisterDevice", "unregisterClient"}
ArgInv == \A a \in Apps : Unregisters(a) => arg[a] \in Handles

(* An entry of the table, and the flags of the families and of the client.  *)
EntryInv ==
    \A h \in Handles : Used(h) =>
        /\ HandleTable[h].HType = "device" => HandleTable[h].DeviceAf \in {"v4", "v6"}
        /\ HandleTable[h].HType = "client" => h \in {1, 2} /\ ~HandleTable[h].aliasInstalled
        /\ HandleTable[h].aliasInstalled => alias /\ HandleTable[h].DeviceAf = "v4"

FlagInv ==
    /\ \A af \in {"v4", "v6"} :
        /\ \A g, h \in Handles : IsDevice(g, af) /\ IsDevice(h, af) => g = h
        /\ FlagOf(af) <=> \E h \in Handles : IsDevice(h, af)
    /\ \A g, h \in Handles : IsClient(g) /\ IsClient(h) => g = h
    /\ UpnpSdkClientRegistered <=> \E h \in Handles : IsClient(h)

(* Who has a handle: one application, or the call that gives it back.       *)
OwnInv ==
    /\ \A a \in Apps : pc[a] = "unregisterDevice" => HandleType(arg[a]) = "device"
    /\ \A a \in Apps : pc[a] = "unregisterClient" => HandleType(arg[a]) = "client"
    /\ \A a, b \in Apps : Unregisters(a) /\ Unregisters(b) /\ arg[a] = arg[b] => a = b
    /\ \A a, b \in Apps : Unregisters(a) => arg[a] \notin owns[b]
    /\ \A a, b \in Apps : a # b => owns[a] \cap owns[b] = {}
    /\ (\A a \in Apps : pc[a] \notin FinishSteps) =>
           \A a \in Apps : \A h \in owns[a] : Used(h)

(* What UpnpFinish has closed stays closed, also while UpnpInit works.      *)
ClosedInv ==
    /\ ~UpnpSdkInit => ~UpnpSdkClientRegistered /\ \A a \in Apps : owns[a] = {}
    /\ ~UpnpSdkInit => ~FlagOf("v4") /\ ~FlagOf("v6")
    /\ \A a \in Apps : pc[a] \in FinishSteps \ {"device"} => ~FlagOf("v4") /\ ~FlagOf("v6")
    /\ \A a \in Apps : pc[a] \in FinishSteps \ {"device", "client"} => ~UpnpSdkClientRegistered
    /\ \A a \in Apps : pc[a] \in {"start", "wait"} => \A b \in Apps : owns[b] = {}

TableInv == EntryInv /\ FlagInv /\ OwnInv /\ ClosedInv

LEMMA SocketNames == Sockets = {"http", "stop", "ssdpReq", "ssdp"}
<1>1. DOMAIN OpenOrder = {1, 2, 3, 4}
  BY DEF OpenOrder
<1> QED
  BY <1>1 DEF Sockets, ToSet, OpenOrder

(* Whatever fails, StartMiniServer closes all it has opened.                *)
LEMMA NothingStaysOpen ==
    ASSUME NEW failure \in Sockets \cup {"thread"}
    PROVE  OpenedBefore(failure) \subseteq ClosedOn(failure)
<1>1. CASE failure = "thread"
  BY <1>1 DEF OpenedBefore, ClosedOn
<1>2. ASSUME NEW n \in 1..4, OpenOrder[n] = failure
      PROVE  OpenedBefore(failure) = {OpenOrder[i] : i \in 1..n}
  <2>1. Len(OpenOrder) = 4 /\ failure # "thread"
    BY <1>2 DEF OpenOrder
  <2>2. \A k \in 1..4 : OpenOrder[k] = failure => k = n
    BY <1>2 DEF OpenOrder
  <2>3. (CHOOSE k \in 1..Len(OpenOrder) : OpenOrder[k] = failure) = n
    BY <1>2, <2>1, <2>2
  <2>4. {j \in 1..Len(OpenOrder) : j <= n} = 1..n
    BY <2>1
  <2> QED
    BY <2>1, <2>3, <2>4 DEF OpenedBefore
<1>3. CASE failure # "thread"
  <2>1. PICK n \in 1..4 : OpenOrder[n] = failure
    BY <1>3, SocketNames DEF OpenOrder
  <2>2. OpenedBefore(failure) = {OpenOrder[i] : i \in 1..n}
    BY <1>2, <2>1
  <2>3. \A i \in 1..n : OpenOrder[i] \in ClosedOn(failure)
    BY <2>1 DEF OpenOrder, ClosedOn
  <2> QED
    BY <2>2, <2>3
<1> QED
  BY <1>1, <1>3


-------------------------------------------------------------------------------
(* Threads and pools: SdkInv is inductive                                   *)

LEMMA InitSdkInv ==
    ASSUME Init
    PROVE  SdkInv
<1> USE DEF Init
<1>1. EmptyTable \in [Handles -> HandleInfo \cup {NoInfo}]
  BY DEF EmptyTable
<1>2. TypeOK
  BY <1>1 DEF TypeOK
<1>3. PhaseInv
  BY DEF PhaseInv, Busy, Special, FinishSteps
<1>4. WorkInv
  BY DEF WorkInv, Pools, Kinds
<1>5. StageInv
  BY DEF StageInv, Stopping
<1> QED
  BY <1>2, <1>3, <1>4, <1>5 DEF SdkInv

(* The steps of applications that work on the table alone.                  *)
LEMMA TableStepKeepsSdkInv ==
    ASSUME SdkInv, TypeOK', NEW a \in Apps, UNCHANGED <<initVars, miniVars, jobVars>>,
           \/ pc' = pc
           \/ /\ pc[a] \notin Special
              /\ pc' = [pc EXCEPT ![a] = "idle"]
           \/ /\ MayCall(a)
              /\ \E where \in {"unregisterDevice", "unregisterClient"} :
                    pc' = [pc EXCEPT ![a] = where]
    PROVE  SdkInv'
<1> USE DEF SdkInv, initVars, miniVars, jobVars
<1>1. pc \in [Apps -> {"idle", "start", "wait", "unregisterDevice", "unregisterClient"}
                      \cup FinishSteps]
  BY DEF TypeOK
<1>2. \A b \in Apps : pc'[b] \in Special => pc[b] = pc'[b]
  BY <1>1 DEF Special, FinishSteps
<1>3. \A b \in Apps : pc[b] \in Special => pc[b] = pc'[b]
  BY <1>1 DEF MayCall, Busy, PhaseInv, Special, FinishSteps
<1>4. PhaseInv'
  <2>1. \A b \in Apps : Busy(b)' => Busy(b) \/ MayCall(a)
    BY <1>1 DEF Busy
  <2>2. MayCall(a) => UpnpSdkInit /\ \A b \in Apps : pc[b] \notin Special
    BY SdkAssumption DEF MayCall, PhaseInv, Special
  <2>3. (\A b, c \in Apps : pc[b] \in Special /\ Busy(c) => b = c)'
    BY <1>2, <2>1, <2>2 DEF PhaseInv
  <2>4. gSDKInitMutex \in Apps \cup {NoApp}
    BY DEF TypeOK
  <2>5. (gSDKInitMutex # NoApp => pc[gSDKInitMutex] \in Special)'
    BY <1>3, <2>4 DEF PhaseInv
  <2>6. (~UpnpSdkInit => \A b \in Apps : ~Busy(b))'
    BY <2>1, <2>2 DEF PhaseInv
  <2> QED
    BY <1>2, <2>3, <2>5, <2>6 DEF PhaseInv, Special
<1>5. WorkInv'
  BY <1>3 DEF WorkInv, Special, Pools, FinishSteps
<1>6. StageInv'
  BY <1>2 DEF StageInv, Stopping, Special, FinishSteps
<1> QED
  BY <1>4, <1>5, <1>6

(* A free handle is found when there is one.                                *)
LEMMA FreeHandleIsFound ==
    ASSUME FreeHandles # {}
    PROVE  GetFreeHandle \in FreeHandles
<1> DEFINE Below(x) == {h \in FreeHandles : h <= x}
           Downs == {Below(x) : x \in FreeHandles}
           Order == StrictSubsetOrdering(FreeHandles)
<1>1. FreeHandles \subseteq 1..(NumHandle - 1) /\ NumHandle \in Nat
  BY SdkAssumption DEF FreeHandles, Handles
<1>2. IsFiniteSet(1..(NumHandle - 1))
  BY <1>1, FS_Interval
<1>3. IsFiniteSet(FreeHandles)
  BY <1>1, <1>2, FS_Subset
<1>4. IsWellFoundedOn(Order, SUBSET FreeHandles)
  BY <1>3, FS_StrictSubsetOrderingWellFounded, FS_FiniteSubsetsOfFinite
<1>5. Downs \subseteq SUBSET FreeHandles /\ Downs # {}
  OBVIOUS
<1>6. \E D \in Downs : \A C \in Downs : ~(<<C, D>> \in Order)
  <2> HIDE DEF Downs, Order
  <2> QED
    BY <1>4, <1>5, WFMin
<1>7. PICK x \in FreeHandles : \A C \in Downs : ~(<<C, Below(x)>> \in Order)
  BY <1>6
<1>8. ASSUME NEW g \in FreeHandles
      PROVE  x <= g
  <2> SUFFICES ASSUME ~(x <= g) PROVE FALSE
    OBVIOUS
  <2>1. x \in Int /\ g \in Int /\ \A h \in FreeHandles : h \in Int
    BY <1>1
  <2>2. \A h \in Below(g) : h \in Below(x)
    BY <2>1
  <2>4. x \notin Below(g) /\ x \in Below(x)
    BY <2>1
  <2>3. <<Below(g), Below(x)>> \in Order
    BY <2>2, <2>4 DEF StrictSubsetOrdering
  <2> QED
    BY <1>7, <2>3
<1> QED
  BY <1>8 DEF GetFreeHandle

LEMMA EmptyTableType == EmptyTable \in [Handles -> HandleInfo \cup {NoInfo}]
BY DEF EmptyTable

LEMMA FreeHandleType ==
    ASSUME TypeOK, NEW h \in Handles, FreeHandle(h)
    PROVE  HandleTable' \in [Handles -> HandleInfo \cup {NoInfo}]
BY DEF TypeOK, FreeHandle

LEMMA UnRegisterDeviceType ==
    ASSUME TypeOK, NEW h \in Handles, UnRegisterDeviceFrees(h)
    PROVE  /\ HandleTable' \in [Handles -> HandleInfo \cup {NoInfo}]
           /\ alias' \in BOOLEAN
           /\ UpnpSdkClientRegistered' \in BOOLEAN
           /\ UpnpSdkDeviceRegisteredV4' \in BOOLEAN
           /\ UpnpSdkDeviceregisteredV6' \in BOOLEAN
BY FreeHandleType DEF UnRegisterDeviceFrees, DropAlias, SetFlag, TypeOK, tableVars, flagVars

LEMMA UnRegisterClientType ==
    ASSUME TypeOK, NEW h \in Handles, UnRegisterClientFrees(h)
    PROVE  /\ HandleTable' \in [Handles -> HandleInfo \cup {NoInfo}]
           /\ alias' \in BOOLEAN
           /\ UpnpSdkClientRegistered' \in BOOLEAN
           /\ UpnpSdkDeviceRegisteredV4' \in BOOLEAN
           /\ UpnpSdkDeviceregisteredV6' \in BOOLEAN
BY FreeHandleType DEF UnRegisterClientFrees, TypeOK, tableVars, flagVars

LEMMA CallTypeOK ==
    ASSUME TypeOK, NEW a \in Apps, AppCalls(a)
    PROVE  TypeOK'
<1> USE DEF vars, initVars, tableVars, flagVars, miniVars, jobVars, appVars, Goto, Give
<1>1. CASE UpnpInit(a)
  <2>1. HandleTable' \in [Handles -> HandleInfo \cup {NoInfo}]
    BY <1>1, EmptyTableType DEF UpnpInit, InitReaches
  <2>2. pool' \in [Pools -> {"down", "up", "stopping"}]
    BY <1>1 DEF UpnpInit, InitReaches, TypeOK, Pools
  <2> QED
    BY <1>1, <2>1, <2>2 DEF UpnpInit, InitReaches, TypeOK
<1>2. CASE UpnpFinish(a)
  BY <1>2 DEF UpnpFinish, TypeOK, FinishSteps
<1>3. ASSUME NEW af \in {"v4", "v6"}, NEW aliased \in BOOLEAN,
             NEW d \in {"good", "none", "no device"}, RegisterDevice(a, af, aliased, d)
      PROVE  TypeOK'
  <2>1. PICK h \in Handles : h = GetFreeHandle
    BY <1>3, FreeHandleIsFound DEF RegisterDevice, FreeHandles
  <2>2. PICK info \in HandleInfo :
            info = [HType |-> "device", DeviceAf |-> af, aliasInstalled |-> aliased]
    BY DEF HandleInfo
  <2>3. CASE d = "good"
    <3>1. HandleTable' = [HandleTable EXCEPT ![h] = info]
      BY <1>3, <2>1, <2>2, <2>3 DEF RegisterDevice
    <3>2. owns' = [owns EXCEPT ![a] = @ \cup {h}]
      BY <1>3, <2>1, <2>3 DEF RegisterDevice
    <3>3. owns' \in [Apps -> SUBSET Handles]
      BY <3>2 DEF TypeOK
    <3> QED
      BY <1>3, <2>3, <3>1, <3>3 DEF RegisterDevice, SetFlag, TypeOK
  <2>4. CASE d # "good"
    BY <1>3, <2>4 DEF RegisterDevice, TypeOK
  <2> QED
    BY <2>3, <2>4
<1>4. CASE UpnpRegisterRootDevice(a) \/ UpnpRegisterRootDevice2(a) \/ UpnpRegisterRootDevice4(a)
  BY <1>3, <1>4 DEF UpnpRegisterRootDevice, UpnpRegisterRootDevice2, UpnpRegisterRootDevice4
<1>5. CASE UpnpRegisterClient(a)
  <2>1. PICK h \in Handles : h = GetFreeHandle
    BY <1>5, FreeHandleIsFound DEF UpnpRegisterClient, FreeHandles
  <2>2. PICK info \in HandleInfo :
            info = [HType |-> "client", DeviceAf |-> "none", aliasInstalled |-> FALSE]
    BY DEF HandleInfo
  <2>3. HandleTable' = [HandleTable EXCEPT ![h] = info]
    BY <1>5, <2>1, <2>2 DEF UpnpRegisterClient
  <2>4. owns' = [owns EXCEPT ![a] = @ \cup {h}]
    BY <1>5, <2>1 DEF UpnpRegisterClient
  <2>5. owns' \in [Apps -> SUBSET Handles]
    BY <2>4 DEF TypeOK
  <2>6. HandleTable' \in [Handles -> HandleInfo \cup {NoInfo}]
    BY <2>3 DEF TypeOK
  <2> QED
    BY <1>5, <2>5, <2>6 DEF UpnpRegisterClient, TypeOK
<1>6. ASSUME NEW h \in Handles, UnRegisterDeviceBegins(a, h) \/ UnRegisterClientBegins(a, h)
      PROVE  TypeOK'
  BY <1>6 DEF UnRegisterDeviceBegins, UnRegisterClientBegins, TypeOK
<1> QED
  BY <1>1, <1>2, <1>4, <1>5, <1>6 DEF AppCalls

LEMMA OwnStepTypeOK ==
    ASSUME TypeOK, NEW a \in Apps, CallStep(a), Unregisters(a) => arg[a] \in Handles
    PROVE  TypeOK'
<1> USE DEF vars, initVars, tableVars, flagVars, miniVars, jobVars, appVars, Goto
<1>1. CASE UnRegisterDeviceEnds(a)
  BY <1>1, UnRegisterDeviceType DEF UnRegisterDeviceEnds, Unregisters, TypeOK
<1>2. CASE UnRegisterClientEnds(a)
  BY <1>2, UnRegisterClientType DEF UnRegisterClientEnds, Unregisters, TypeOK
<1>3. CASE StartMiniServer(a)
  <2>1. sockets' \subseteq Sockets
    <3>1. \A failure : OpenedBefore(failure) \subseteq Sockets
      BY SocketNames DEF OpenedBefore, OpenOrder
    <3> QED
      BY <1>3, <3>1 DEF StartMiniServer, TypeOK
  <2> QED
    BY <1>3, <2>1 DEF StartMiniServer, TypeOK, FinishSteps
<1>4. CASE InitEnds(a)
  BY <1>4 DEF InitEnds, TypeOK, FinishSteps
<1>5. CASE FinishDevice(a)
  <2>1. GetDeviceHandleInfo("v4") \cup GetDeviceHandleInfo("v6") \subseteq Handles
    BY DEF GetDeviceHandleInfo
  <2> QED
    BY <1>5, <2>1, UnRegisterDeviceType DEF FinishDevice, TypeOK, FinishSteps
<1>6. CASE FinishClient(a)
  <2>1. GetClientHandleInfo \subseteq Handles
    BY DEF GetClientHandleInfo, HandleType
  <2> QED
    BY <1>6, <2>1, UnRegisterClientType DEF FinishClient, TypeOK, FinishSteps
<1>7. CASE FinishTimer(a)
  BY <1>7 DEF FinishTimer, TypeOK, FinishSteps
<1>8. CASE StopMiniServer(a)
  <2>1. shutDown' = shutDown \/ shutDown' = ("stop" \in sockets)
    BY <1>8 DEF StopMiniServer
  <2>2. shutDown \in BOOLEAN
    BY DEF TypeOK
  <2>7. ("stop" \in sockets) \in BOOLEAN
    OBVIOUS
  <2>3. shutDown' \in BOOLEAN
    BY <2>1, <2>2, <2>7, Zenon
  <2>4. UNCHANGED <<initVars, tableVars, runs, sockets, jobVars, arg, owns>>
    BY <1>8 DEF StopMiniServer
  <2>5. pc' = pc \/ pc' = [pc EXCEPT ![a] = "mini"]
    BY <1>8 DEF StopMiniServer
  <2>6. gMServState' = gMServState \/ gMServState' = "MSERV_STOPPING"
    BY <1>8 DEF StopMiniServer
  <2> QED
    BY <2>3, <2>4, <2>5, <2>6 DEF TypeOK, FinishSteps
<1>9. CASE ShutdownDrops(a)
  <2>1. job' \in [Kinds -> {"none", "queued", "running", "scheduling"}]
    BY <1>9 DEF ShutdownDrops, DropQueued, TypeOK
  <2> QED
    BY <1>9, <2>1 DEF ShutdownDrops, DropQueued, TypeOK
<1>10. CASE ShutdownWaits(a)
  BY <1>10 DEF ShutdownWaits, NextPool, Pools, TypeOK, FinishSteps
<1>11. CASE FinishEnds(a)
  BY <1>11 DEF FinishEnds, TypeOK
<1> QED
  BY <1>1, <1>2, <1>3, <1>4, <1>5, <1>6, <1>7, <1>8, <1>9, <1>10, <1>11 DEF CallStep, FinishStep

LEMMA WorkTypeOK ==
    ASSUME TypeOK,
           \/ \E k \in Kinds : JobStep(k)
           \/ RequestEnds \/ TimerFires \/ ServerStep \/ ServerAccepts \/ ServerReads
    PROVE  TypeOK'
<1> USE DEF TypeOK, initVars, tableVars, flagVars, miniVars, jobVars, appVars, AddJob
<1>1. ASSUME NEW k \in Kinds, JobStep(k)
      PROVE  TypeOK'
  BY <1>1 DEF JobStep, JobStarts, JobLooks, JobSchedules
<1>2. CASE RequestEnds \/ TimerFires
  BY <1>2 DEF RequestEnds, TimerFires
<1>3. CASE ServerStep
  BY <1>3 DEF ServerStep, ServerStarts, ServerStops, ServerCloses
<1>4. CASE ServerAccepts \/ ServerReads
  BY <1>4 DEF ServerAccepts, ServerReads
<1> QED
  BY <1>1, <1>2, <1>3, <1>4

(* UpnpInit begins alone: nothing of the SDK works yet.                     *)
LEMMA InitStepKeepsSdkInv ==
    ASSUME SdkInv, TypeOK', NEW a \in Apps, UpnpInit(a)
    PROVE  SdkInv'
<1> USE DEF SdkInv, miniVars, jobVars
<1>1. pc \in [Apps -> {"idle", "start", "wait", "unregisterDevice", "unregisterClient"}
                      \cup FinishSteps]
  BY DEF TypeOK
<1>2. /\ ~UpnpSdkInit /\ gSDKInitMutex = NoApp /\ \A b \in Apps : ~Busy(b)
      /\ UNCHANGED <<miniVars, jobVars, arg, owns>> /\ locks'
  BY DEF UpnpInit, InitReaches, PhaseInv
<1>3. \A b \in Apps : pc[b] = "idle"
  BY <1>2 DEF Busy
<1>4. /\ runs = "no" /\ \A k \in Kinds : job[k] = "none"
      /\ ~event /\ ~connection /\ gMServState = "MSERV_IDLE" /\ sockets = {}
  BY <1>2 DEF WorkInv, Kinds
<1>5. CASE UpnpSdkInit'
  <2>1. pc' = [pc EXCEPT ![a] = "start"] /\ gSDKInitMutex' = a
    BY <1>5 DEF UpnpInit, InitReaches, Goto
  <2>2. \A p \in Pools : pool'[p] = "up"
    BY <1>5 DEF UpnpInit, InitReaches
  <2>3. pc'[a] = "start" /\ \A b \in Apps \ {a} : pc'[b] = "idle"
    BY <1>1, <1>3, <2>1
  <2>4. PhaseInv'
    BY <1>2, <1>5, <2>1, <2>3 DEF PhaseInv, Busy, Special, FinishSteps
  <2>5. WorkInv'
    BY <1>2, <1>4, <1>5, <2>2 DEF WorkInv
  <2>6. StageInv'
    BY <1>2, <1>4, <2>3 DEF StageInv, Stopping
  <2> QED
    BY <2>4, <2>5, <2>6
<1>6. CASE ~UpnpSdkInit'
  <2>1. pc' = pc /\ gSDKInitMutex' = NoApp
    BY <1>2, <1>6 DEF UpnpInit, InitReaches
  <2>2. PhaseInv'
    BY <1>3, <1>6, <2>1 DEF PhaseInv, Busy, Special, FinishSteps
  <2>3. WorkInv'
    BY <1>2, <1>4, <1>6 DEF WorkInv
  <2>4. StageInv'
    BY <1>3, <2>1 DEF StageInv, Stopping
  <2> QED
    BY <2>2, <2>3, <2>4
<1> QED
  BY <1>5, <1>6

(* UpnpFinish begins alone as well.                                         *)
LEMMA FinishBeginsKeepsSdkInv ==
    ASSUME SdkInv, TypeOK', NEW a \in Apps, UpnpFinish(a)
    PROVE  SdkInv'
<1> USE DEF SdkInv, initVars, miniVars, jobVars
<1>1. /\ UpnpSdkInit /\ gSDKInitMutex = NoApp /\ \A b \in Apps : pc[b] = "idle"
      /\ UNCHANGED <<initVars, miniVars, jobVars>>
  BY DEF UpnpFinish, MayCall, Busy
<1>2. pc'[a] = "device" /\ \A b \in Apps \ {a} : pc'[b] = "idle"
  BY <1>1 DEF UpnpFinish, Goto, TypeOK
<1>3. PhaseInv'
  BY <1>1, <1>2 DEF PhaseInv, Busy, Special, FinishSteps
<1>4. WorkInv'
  BY <1>1, <1>2 DEF WorkInv, Pools
<1>5. StageInv'
  BY <1>1, <1>2 DEF StageInv, Stopping
<1> QED
  BY <1>3, <1>4, <1>5

(* A step that moves the one thread in UpnpInit or UpnpFinish on.           *)
LEMMA OneMovesOn ==
    ASSUME SdkInv, NEW a \in Apps, pc[a] \in Special,
           UpnpSdkInit' = UpnpSdkInit, locks' = locks, gSDKInitMutex' = gSDKInitMutex,
           NEW where \in Special, pc' = [pc EXCEPT ![a] = where],
           where \in {"start", "wait"} => pc[a] \in {"start", "wait"}
    PROVE  PhaseInv' /\ pc'[a] = where /\ \A b \in Apps \ {a} : pc[b] = "idle" /\ pc'[b] = "idle"
<1>1. \A b \in Apps \ {a} : pc[b] = "idle"
  BY DEF SdkInv, PhaseInv, Busy
<1>2. pc'[a] = where /\ \A b \in Apps \ {a} : pc'[b] = "idle"
  BY <1>1 DEF SdkInv, TypeOK
<1>3. UpnpSdkInit /\ locks
  BY DEF SdkInv, PhaseInv
<1>4. gSDKInitMutex \in {a, NoApp} /\ (pc[a] \in {"start", "wait"} => gSDKInitMutex = a)
  BY <1>1 DEF SdkInv, PhaseInv, TypeOK, Special, FinishSteps
<1>5. PhaseInv'
  BY <1>2, <1>3, <1>4 DEF PhaseInv, Busy, Special, FinishSteps
<1> QED
  BY <1>1, <1>2, <1>5

LEMMA StartStepsKeepSdkInv ==
    ASSUME SdkInv, TypeOK', NEW a \in Apps, StartMiniServer(a) \/ InitEnds(a)
    PROVE  SdkInv'
<1> USE DEF SdkInv, initVars, jobVars, Goto
<1>1. pc[a] \in Special /\ UpnpSdkInit /\ locks
  BY DEF StartMiniServer, InitEnds, Special, PhaseInv
<1>2. \A b \in Apps \ {a} : pc[b] = "idle"
  BY <1>1 DEF PhaseInv, Busy
<1>3. CASE StartMiniServer(a)
  <2>1. PICK where \in {"wait", "device"} : pc' = [pc EXCEPT ![a] = where]
    BY <1>3 DEF StartMiniServer
  <2>2. PhaseInv' /\ pc'[a] = where /\ \A b \in Apps \ {a} : pc'[b] = "idle"
    BY <1>1, <1>3, <2>1, OneMovesOn DEF StartMiniServer, Special, FinishSteps
  <2>3. runs = "no" /\ gMServState = "MSERV_IDLE" /\ sockets = {}
    BY <1>3 DEF StartMiniServer, StageInv, WorkInv
  <2>4. CASE runs' = "queued"
    <3>1. gMServState' = gMServState /\ where = "wait" /\ UNCHANGED <<initVars, jobVars>>
      BY <1>2, <1>3, <2>1, <2>2, <2>3, <2>4 DEF StartMiniServer, TypeOK
    <3>2. \A p \in Pools : pool[p] = "up"
      BY <1>1, <1>2, <1>3 DEF WorkInv, StartMiniServer, Pools
    <3>3. WorkInv'
      BY <1>1, <2>2, <2>3, <2>4, <3>1, <3>2 DEF WorkInv
    <3>4. StageInv'
      BY <2>2, <3>1 DEF StageInv, Stopping
    <3> QED
      BY <2>2, <3>3, <3>4
  <2>5. CASE runs' # "queued"
    <3>1. /\ runs' = "no" /\ gMServState' = "MSERV_IDLE" /\ sockets' = {}
          /\ where = "device" /\ UNCHANGED <<initVars, jobVars>>
      <4>1. \A failure \in MayFail \cap (Sockets \cup {"thread"}) :
                (sockets \cup OpenedBefore(failure)) \ ClosedOn(failure) = {}
        BY <2>3, NothingStaysOpen
      <4>2. pc[a] = "start" /\ TypeOK
        BY <1>3 DEF StartMiniServer
      <4>3. \E failure \in MayFail \cap (Sockets \cup {"thread"}) :
                /\ sockets' = (sockets \cup OpenedBefore(failure)) \ ClosedOn(failure)
                /\ runs' = runs /\ pc' = [pc EXCEPT ![a] = "device"]
        BY <1>3, <2>3, <2>5 DEF StartMiniServer
      <4>4. UNCHANGED <<gMServState, initVars, jobVars>>
        BY <1>3 DEF StartMiniServer
      <4>5. pc'[a] = "device"
        BY <4>3 DEF TypeOK
      <4> QED
        BY <2>2, <2>3, <4>1, <4>3, <4>4, <4>5
    <3>2. \A p \in Pools : pool[p] = "up"
      BY <1>1, <1>2, <1>3 DEF WorkInv, StartMiniServer, Pools
    <3>3. WorkInv'
      BY <1>1, <3>1, <3>2 DEF WorkInv
    <3>4. StageInv'
      BY <2>2, <3>1 DEF StageInv, Stopping
    <3> QED
      BY <2>2, <3>3, <3>4
  <2> QED
    BY <2>4, <2>5
<1>4. CASE InitEnds(a)
  <2>1. \A p \in Pools : pool[p] = "up"
    BY <1>1, <1>2, <1>4 DEF WorkInv, InitEnds, Pools
  <2>2. runs \in {"loop", "closing"} /\ gMServState # "MSERV_IDLE"
    BY <1>4 DEF InitEnds, WorkInv, TypeOK
  <2>3. UNCHANGED <<UpnpSdkInit, locks, pool, timer, miniVars, jobVars>>
    BY <1>4 DEF InitEnds
  <2>4. WorkInv'
    BY <1>1, <2>1, <2>2, <2>3 DEF WorkInv, miniVars
  <2>5. CASE pc' = [pc EXCEPT ![a] = "idle"] /\ gSDKInitMutex' = NoApp
    <3>1. \A b \in Apps : pc'[b] = "idle"
      BY <1>2, <2>5 DEF TypeOK
    <3>2. PhaseInv'
      BY <1>1, <2>3, <2>5, <3>1 DEF PhaseInv, Busy, Special, FinishSteps
    <3>3. StageInv'
      BY <3>1 DEF StageInv, Stopping
    <3> QED
      BY <2>4, <3>2, <3>3
  <2>6. CASE pc' = [pc EXCEPT ![a] = "device"] /\ gSDKInitMutex' = gSDKInitMutex
    <3>1. PhaseInv' /\ pc'[a] = "device" /\ \A b \in Apps \ {a} : pc'[b] = "idle"
      BY <1>1, <2>3, <2>6, OneMovesOn DEF Special, FinishSteps
    <3>2. StageInv'
      BY <3>1 DEF StageInv, Stopping
    <3> QED
      BY <2>4, <3>1, <3>2
  <2> QED
    BY <1>4, <2>5, <2>6 DEF InitEnds
<1> QED
  BY <1>3, <1>4

LEMMA FinishStepsKeepSdkInv ==
    ASSUME SdkInv, TypeOK', NEW a \in Apps, FinishStep(a)
    PROVE  SdkInv'
<1> USE DEF SdkInv, initVars, miniVars, jobVars, Goto
<1>1. pc[a] \in FinishSteps /\ UpnpSdkInit /\ locks
  BY DEF FinishStep, FinishDevice, FinishClient, FinishTimer, StopMiniServer, ShutdownDrops,
         ShutdownWaits, FinishEnds, Special, FinishSteps, Pools, PhaseInv
<1>2. /\ \A b \in Apps \ {a} : pc[b] = "idle"
      /\ pc[a] \notin Pools \cup {"locks"} => \A p \in Pools : pool[p] = "up"
      /\ runs # "queued"
  BY <1>1 DEF PhaseInv, WorkInv, Busy, Special, Pools, FinishSteps
<1>4. CASE FinishDevice(a) \/ FinishClient(a)
  <2>1. CASE pc' = pc
    BY <1>4, <2>1, TableStepKeepsSdkInv DEF FinishDevice, FinishClient
  <2>2. ASSUME NEW where \in {"client", "timer"}, pc' = [pc EXCEPT ![a] = where]
        PROVE  SdkInv'
    <3>1. UNCHANGED <<initVars, miniVars, jobVars>> /\ pc[a] \in {"device", "client"}
      BY <1>4 DEF FinishDevice, FinishClient
    <3>2. PhaseInv' /\ pc'[a] = where /\ \A b \in Apps \ {a} : pc'[b] = "idle"
      BY <2>2, <3>1, OneMovesOn DEF Special, FinishSteps
    <3>3. WorkInv'
      BY <1>1, <1>2, <3>1 DEF WorkInv, Pools
    <3>4. StageInv'
      BY <3>2 DEF StageInv, Stopping
    <3> QED
      BY <3>2, <3>3, <3>4
  <2> QED
    BY <1>4, <2>1, <2>2 DEF FinishDevice, FinishClient
<1>5. CASE FinishTimer(a)
  <2>1. PhaseInv' /\ pc'[a] = "stop" /\ \A b \in Apps \ {a} : pc'[b] = "idle"
    BY <1>5, OneMovesOn DEF FinishTimer, Special, FinishSteps
  <2>2. WorkInv'
    BY <1>1, <1>2, <1>5 DEF FinishTimer, WorkInv, Pools
  <2>3. StageInv'
    BY <1>5, <2>1 DEF FinishTimer, StageInv, Stopping
  <2> QED
    BY <2>1, <2>2, <2>3
<1>6. CASE StopMiniServer(a)
  <2>1. pc[a] = "stop" /\ UNCHANGED <<initVars, runs, sockets, jobVars>>
    BY <1>6 DEF StopMiniServer
  <2>2. timer = "down" /\ \A p \in Pools : pool[p] = "up"
    BY <1>2, <2>1 DEF StageInv, Stopping, Pools
  <2>3. CASE gMServState = "MSERV_IDLE"
    <3>1. PhaseInv' /\ pc'[a] = "mini" /\ \A b \in Apps \ {a} : pc'[b] = "idle"
      BY <1>6, <2>1, <2>3, OneMovesOn DEF StopMiniServer, Special, FinishSteps
    <3>2. runs = "no" /\ gMServState' = gMServState
      BY <1>2, <1>6, <2>3 DEF StopMiniServer, WorkInv, TypeOK
    <3>3. WorkInv'
      BY <1>1, <1>2, <2>1, <2>2, <3>2 DEF WorkInv
    <3>4. StageInv'
      BY <2>1, <2>2, <3>1, <3>2 DEF StageInv, Stopping, Pools
    <3> QED
      BY <3>1, <3>3, <3>4
  <2>4. CASE gMServState # "MSERV_IDLE"
    <3>1. pc' = pc /\ gMServState' # "MSERV_IDLE"
      BY <1>6, <2>4 DEF StopMiniServer
    <3>2. PhaseInv'
      BY <2>1, <3>1 DEF PhaseInv, Busy
    <3>3. WorkInv'
      BY <1>1, <1>2, <2>1, <2>2, <2>4, <3>1 DEF WorkInv
    <3>4. StageInv'
      BY <2>1, <3>1 DEF StageInv
    <3> QED
      BY <3>2, <3>3, <3>4
  <2> QED
    BY <2>3, <2>4
<1>7. CASE ShutdownDrops(a)
  <2>1. PICK p \in Pools : p = pc[a]
    BY <1>7 DEF ShutdownDrops
  <2>2. /\ pool[p] = "up" /\ pool' = [pool EXCEPT ![p] = "stopping"]
        /\ UNCHANGED <<UpnpSdkInit, locks, timer, gSDKInitMutex, miniVars, event, pc>>
    BY <1>7, <2>1 DEF ShutdownDrops, appVars
  <2>3. /\ \A k \in Kinds : job'[k] = IF PoolOf(k) = p /\ job[k] = "queued" THEN "none" ELSE job[k]
        /\ connection' = (connection /\ ~(p = "mini" /\ job["request"] = "queued"))
    BY <1>7, <2>1 DEF ShutdownDrops, DropQueued
  <2>4. \A k \in Kinds : /\ job'[k] \in {job[k], "none"}
                         /\ PoolOf(k) = p => job'[k] # "queued"
    BY <2>3
  <2>5. pool'[p] = "stopping" /\ \A q \in Pools \ {p} : pool'[q] = pool[q]
    BY <2>2 DEF TypeOK
  <2>6. PhaseInv'
    BY <2>2 DEF PhaseInv, Busy
  <2>7. connection' => job'["request"] # "none"
    BY <2>3 DEF WorkInv, Kinds, PoolOf
  <2>8. WorkInv'
    BY <1>1, <1>2, <2>1, <2>2, <2>4, <2>7 DEF WorkInv, Kinds
  <2>9. StageInv'
    BY <1>2, <2>1, <2>2, <2>4, <2>5 DEF StageInv, Stopping, Pools, Kinds, PoolOf
  <2> QED
    BY <2>6, <2>8, <2>9
<1>8. CASE ShutdownWaits(a)
  <2>1. PICK p \in Pools : p = pc[a]
    BY <1>8 DEF ShutdownWaits
  <2>2. /\ pool[p] = "stopping" /\ pool' = [pool EXCEPT ![p] = "down"]
        /\ UNCHANGED <<UpnpSdkInit, locks, timer, gSDKInitMutex, miniVars, jobVars>>
        /\ \A k \in Kinds : PoolOf(k) = p => job[k] \in {"none", "queued"}
    BY <1>8, <2>1 DEF ShutdownWaits, NoneRuns
  <2>3. PhaseInv' /\ pc'[a] = NextPool(p) /\ \A b \in Apps \ {a} : pc'[b] = "idle"
    BY <1>8, <2>1, <2>2, OneMovesOn DEF ShutdownWaits, NextPool, Pools, Special, FinishSteps
  <2>4. pool'[p] = "down" /\ \A q \in Pools \ {p} : pool'[q] = pool[q]
    BY <2>2 DEF TypeOK
  <2>5. WorkInv'
    BY <1>1, <1>2, <2>2, <2>3 DEF WorkInv, NextPool, Pools
  <2>6. StageInv'
    BY <2>1, <2>2, <2>3, <2>4 DEF StageInv, Stopping, NextPool, Pools, Kinds, PoolOf
  <2> QED
    BY <2>3, <2>5, <2>6
<1>9. CASE FinishEnds(a)
  <2>1. pc[a] = "locks" /\ \A b \in Apps : pc'[b] = "idle"
    BY <1>2, <1>9 DEF FinishEnds, TypeOK
  <2>2. PhaseInv'
    BY <1>9, <2>1 DEF FinishEnds, PhaseInv, Busy, Special, FinishSteps
  <2>3. /\ runs = "no" /\ timer = "down" /\ pool["send"] = "down" /\ pool["recv"] = "down"
        /\ pool["mini"] = "down" /\ \A k \in Kinds : job[k] = "none"
    BY <2>1 DEF StageInv, Stopping, Kinds
  <2>4. WorkInv'
    BY <1>9, <2>3 DEF FinishEnds, WorkInv, Pools
  <2>5. StageInv'
    BY <2>1 DEF StageInv, Stopping
  <2> QED
    BY <2>2, <2>4, <2>5
<1> QED
  BY <1>4, <1>5, <1>6, <1>7, <1>8, <1>9 DEF FinishStep

(* The steps of the mini server and of the jobs.                            *)
LEMMA WorkKeepsSdkInv ==
    ASSUME SdkInv, TypeOK',
           \/ \E k \in Kinds : JobStep(k)
           \/ RequestEnds \/ TimerFires \/ ServerStep \/ ServerAccepts \/ ServerReads
    PROVE  SdkInv'
<1> USE DEF SdkInv
<1>1. UNCHANGED <<initVars, appVars>>
  BY DEF JobStep, JobStarts, JobLooks, JobSchedules, RequestEnds, TimerFires, ServerStep,
         ServerStarts, ServerStops, ServerCloses, ServerAccepts, ServerReads
<1>2. PhaseInv'
  BY <1>1 DEF initVars, appVars, PhaseInv, Busy
<1>3. ASSUME NEW k \in Kinds, job[k] # "none", job[k] = "queued" => pool[PoolOf(k)] = "up",
             NEW s \in {"none", "running", "scheduling"}, job' = [job EXCEPT ![k] = s],
             s = "scheduling" => k # "request",
             UNCHANGED miniVars, event' => event \/ timer = "up",
             connection' => connection /\ (k = "request" => s # "none")
      PROVE  SdkInv'
  <2>1. job'[k] = s /\ \A m \in Kinds \ {k} : job'[m] = job[m]
    BY <1>3 DEF TypeOK
  <2>2. UpnpSdkInit /\ UNCHANGED <<initVars, miniVars, pc>>
    BY <1>1, <1>3 DEF WorkInv, appVars
  <2>3. (connection' => job'["request"] # "none") /\ job'["request"] # "scheduling"
    BY <1>3, <2>1 DEF WorkInv, Kinds
  <2>4. WorkInv'
    BY <1>3, <2>1, <2>2, <2>3 DEF WorkInv, initVars, miniVars
  <2>5. \A m \in Kinds : job[m] = "none" => job'[m] = "none"
    BY <1>3, <2>1
  <2>6. \A m \in Kinds : job'[m] = "queued" => job[m] = "queued"
    BY <1>3, <2>1
  <2>7. StageInv'
    BY <2>2, <2>5, <2>6 DEF StageInv, initVars, miniVars, Kinds
  <2> QED
    BY <1>2, <2>4, <2>7
<1>4. ASSUME NEW k \in Kinds, JobStep(k)
      PROVE  SdkInv'
  <2>1. CASE JobStarts(k)
    <3>1. /\ job[k] = "queued" /\ pool[PoolOf(k)] = "up" /\ job' = [job EXCEPT ![k] = "running"]
          /\ UNCHANGED <<miniVars, connection, event>>
      BY <2>1 DEF JobStarts
    <3> QED
      BY <3>1, <1>3
  <2>2. CASE JobLooks(k)
    <3>1. /\ k # "request" /\ job[k] = "running" /\ UNCHANGED <<miniVars, connection, event>>
          /\ \E s \in {"none", "scheduling"} : job' = [job EXCEPT ![k] = s]
      BY <2>2 DEF JobLooks
    <3> QED
      BY <3>1, <1>3
  <2>3. CASE JobSchedules(k)
    <3>1. /\ k # "request"
          /\ job[k] = "scheduling" /\ job' = [job EXCEPT ![k] = "none"]
          /\ UNCHANGED <<miniVars, connection>> /\ (event' => event \/ timer = "up")
      BY <2>3 DEF JobSchedules, WorkInv
    <3> QED
      BY <3>1, <1>3
  <2> QED
    BY <1>4, <2>1, <2>2, <2>3 DEF JobStep
<1>5. CASE RequestEnds
  <2>1. "request" \in Kinds
    BY DEF Kinds
  <2>2. /\ job["request"] = "running" /\ job' = [job EXCEPT !["request"] = "none"]
        /\ ~connection' /\ UNCHANGED <<miniVars, event>>
    BY <1>5 DEF RequestEnds
  <2> QED
    BY <2>1, <2>2, <1>3
<1>6. ASSUME NEW k \in Kinds, job[k] = "none", job' = [job EXCEPT ![k] = "queued"],
             timer = "up" \/ runs # "no", UpnpSdkInit, UNCHANGED miniVars,
             event' => event, connection' => connection \/ k = "request"
      PROVE  SdkInv'
  <2>1. job'[k] = "queued" /\ \A m \in Kinds \ {k} : job'[m] = job[m]
    BY <1>6 DEF TypeOK
  <2>2. UNCHANGED <<initVars, miniVars, pc>>
    BY <1>1, <1>6 DEF appVars
  <2>3. (connection' => job'["request"] # "none") /\ job'["request"] # "scheduling"
    BY <1>6, <2>1 DEF WorkInv, Kinds
  <2>4. WorkInv'
    BY <1>6, <2>1, <2>2, <2>3 DEF WorkInv, initVars, miniVars
  <2>5. \A a \in Apps : pc[a] \notin {"mini", "recv", "send", "locks"}
    BY <1>6 DEF StageInv, Stopping
  <2>6. StageInv'
    BY <2>2, <2>5 DEF StageInv, initVars, miniVars
  <2> QED
    BY <1>2, <2>4, <2>6
<1>7. CASE TimerFires
  <2>1. "advert" \in Kinds /\ UpnpSdkInit
    BY <1>7 DEF Kinds, TimerFires, WorkInv
  <2>2. /\ timer = "up" /\ job["advert"] = "none" /\ job' = [job EXCEPT !["advert"] = "queued"]
        /\ ~event' /\ UNCHANGED <<miniVars, connection>>
    BY <1>7 DEF TimerFires, AddJob
  <2> QED
    BY <2>1, <2>2, <1>6
<1>8. CASE ServerAccepts \/ ServerReads
  <2>1. UpnpSdkInit /\ runs # "no"
    BY <1>8 DEF ServerAccepts, ServerReads, WorkInv
  <2>2. CASE UNCHANGED <<job, connection, event, miniVars>>
    BY <1>1, <1>2, <2>2 DEF WorkInv, StageInv, initVars, miniVars, appVars
  <2>3. ASSUME NEW k \in {"request", "search"}, job[k] = "none",
               job' = [job EXCEPT ![k] = "queued"], UNCHANGED <<event, miniVars>>,
               connection' => connection \/ k = "request"
        PROVE  SdkInv'
    <3>1. k \in Kinds
      BY DEF Kinds
    <3> QED
      BY <2>1, <2>3, <3>1, <1>6
  <2> QED
    BY <1>8, <2>2, <2>3 DEF ServerAccepts, ServerReads, AddJob
<1>9. CASE ServerStep
  <2>1. UpnpSdkInit /\ runs # "no" /\ UNCHANGED <<initVars, jobVars, pc>>
    BY <1>1, <1>9 DEF ServerStep, ServerStarts, ServerStops, ServerCloses, WorkInv, appVars
  <2>2. \/ runs' \in {"loop", "closing"} /\ gMServState' # "MSERV_IDLE"
        \/ runs' = "no" /\ gMServState' = "MSERV_IDLE" /\ sockets' = {}
    BY <1>9 DEF ServerStep, ServerStarts, ServerStops, ServerCloses, WorkInv
  <2>3. WorkInv'
    BY <2>1, <2>2 DEF WorkInv, initVars, jobVars
  <2>4. \A a \in Apps : pc[a] \notin {"start", "mini", "recv", "send", "locks"}
    BY <2>1 DEF StageInv
  <2>5. StageInv'
    BY <2>1, <2>4 DEF StageInv, initVars
  <2> QED
    BY <1>2, <2>3, <2>5
<1> QED
  BY <1>4, <1>5, <1>7, <1>8, <1>9

-------------------------------------------------------------------------------
(* The handle table, for applications that do nothing unusual               *)

(* The table loses an entry, and its flag with it.                          *)
LEMMA EntryIsFreed ==
    ASSUME TypeOK, EntryInv, FlagInv, NEW h \in Handles, Used(h),
           FreeHandle(h),
           IF HandleTable[h].HType = "device"
           THEN DropAlias(h) /\ SetFlag(HandleTable[h].DeviceAf, FALSE)
           ELSE /\ UpnpSdkClientRegistered' = FALSE
                /\ UNCHANGED <<UpnpSdkDeviceRegisteredV4, UpnpSdkDeviceregisteredV6, alias>>
    PROVE  /\ EntryInv' /\ FlagInv'
           /\ \A g \in Handles : Used(g)' <=> Used(g) /\ g # h
           /\ \A g \in Handles \ {h} : HandleTable'[g] = HandleTable[g]
           /\ \A af \in {"v4", "v6"} : FlagOf(af)' => FlagOf(af)
           /\ UpnpSdkClientRegistered' => UpnpSdkClientRegistered
<1> USE DEF TypeOK
<1>1. HandleTable' = [HandleTable EXCEPT ![h] = NoInfo]
  BY DEF FreeHandle
<1>2. HandleTable'[h] = NoInfo /\ \A g \in Handles \ {h} : HandleTable'[g] = HandleTable[g]
  BY <1>1
<1>3. \A g \in Handles : Used(g)' <=> Used(g) /\ g # h
  BY <1>2 DEF Used
<1>4. HandleTable[h] \in HandleInfo /\ \A g \in Handles : Used(g) => HandleTable[g] \in HandleInfo
  BY DEF Used
<1>5. \A g \in Handles : (IsClient(g)' <=> IsClient(g) /\ g # h)
                         /\ \A af \in {"v4", "v6"} : IsDevice(g, af)' <=> IsDevice(g, af) /\ g # h
  BY <1>2, <1>3 DEF IsClient, IsDevice
<1>6. CASE HandleTable[h].HType = "device"
  <2>1. PICK af \in {"v4", "v6"} : af = HandleTable[h].DeviceAf
    BY <1>6 DEF EntryInv
  <2>2. IsDevice(h, af) /\ ~IsClient(h) /\ \A b \in {"v4", "v6"} \ {af} : ~IsDevice(h, b)
    BY <1>6, <2>1 DEF IsDevice, IsClient
  <2>3. ~FlagOf(af)' /\ \A b \in {"v4", "v6"} \ {af} : FlagOf(b)' = FlagOf(b)
    BY <1>6, <2>1 DEF SetFlag, FlagOf
  <2>4. UNCHANGED UpnpSdkClientRegistered
    BY <1>6 DEF SetFlag
  <2>5. FlagInv'
    <3>1. ASSUME NEW b \in {"v4", "v6"}
          PROVE  FlagOf(b)' <=> \E g \in Handles : IsDevice(g, b)'
      BY <1>5, <2>2, <2>3 DEF FlagInv
    <3>2. \A b \in {"v4", "v6"} : \A g, k \in Handles : IsDevice(g, b)' /\ IsDevice(k, b)' => g = k
      BY <1>5 DEF FlagInv
    <3>3. \A g, k \in Handles : IsClient(g)' /\ IsClient(k)' => g = k
      BY <1>5 DEF FlagInv
    <3>4. UpnpSdkClientRegistered' <=> \E g \in Handles : IsClient(g)'
      BY <1>5, <2>2, <2>4 DEF FlagInv
    <3> QED
      BY <3>1, <3>2, <3>3, <3>4 DEF FlagInv
  <2>6. alias' = (alias /\ ~HandleTable[h].aliasInstalled)
    BY <1>6 DEF DropAlias
  <2>7. ASSUME NEW g \in Handles, Used(g), g # h, HandleTable[g].aliasInstalled
        PROVE  alias'
    <3>1. IsDevice(g, "v4") /\ alias
      BY <1>4, <2>7 DEF EntryInv, IsDevice, HandleInfo
    <3>2. ~HandleTable[h].aliasInstalled
      BY <1>6, <2>7, <3>1 DEF EntryInv, FlagInv, IsDevice
    <3> QED
      BY <2>6, <3>1, <3>2
  <2>8. EntryInv'
    BY <1>2, <1>3, <2>7 DEF EntryInv
  <2> QED
    BY <1>2, <1>3, <2>3, <2>4, <2>5, <2>8
<1>7. CASE HandleTable[h].HType # "device"
  <2>1. IsClient(h) /\ \A af : ~IsDevice(h, af)
    BY <1>4, <1>7 DEF IsClient, IsDevice, HandleInfo
  <2>2. /\ ~UpnpSdkClientRegistered' /\ alias' = alias
        /\ \A af \in {"v4", "v6"} : FlagOf(af)' = FlagOf(af)
    BY <1>7 DEF FlagOf
  <2>3. EntryInv'
    BY <1>2, <1>3, <2>2 DEF EntryInv
  <2>4. FlagInv'
    <3>1. \A af \in {"v4", "v6"} : FlagOf(af)' <=> \E g \in Handles : IsDevice(g, af)'
      BY <1>5, <2>1, <2>2 DEF FlagInv
    <3>2. \A b \in {"v4", "v6"} : \A g, k \in Handles : IsDevice(g, b)' /\ IsDevice(k, b)' => g = k
      BY <1>5 DEF FlagInv
    <3>3. \A g, k \in Handles : IsClient(g)' /\ IsClient(k)' => g = k
      BY <1>5 DEF FlagInv
    <3>4. UpnpSdkClientRegistered' <=> \E g \in Handles : IsClient(g)'
      BY <1>5, <2>1, <2>2 DEF FlagInv
    <3> QED
      BY <3>1, <3>2, <3>3, <3>4 DEF FlagInv
  <2> QED
    BY <1>2, <1>3, <2>2, <2>3, <2>4
<1> QED
  BY <1>6, <1>7

(* The table gets an entry that its flag did not announce.                  *)
LEMMA EntryIsMade ==
    ASSUME TypeOK, EntryInv, FlagInv, NEW h \in Handles, ~Used(h), NEW info \in HandleInfo,
           HandleTable' = [HandleTable EXCEPT ![h] = info],
           \/ /\ info.HType = "device" /\ info.DeviceAf \in {"v4", "v6"}
              /\ ~FlagOf(info.DeviceAf) /\ SetFlag(info.DeviceAf, TRUE)
              /\ info.aliasInstalled => info.DeviceAf = "v4"
              /\ alias' = (alias \/ info.aliasInstalled)
           \/ /\ info.HType = "client" /\ h \in {1, 2} /\ ~info.aliasInstalled
              /\ ~UpnpSdkClientRegistered /\ UpnpSdkClientRegistered'
              /\ UNCHANGED <<UpnpSdkDeviceRegisteredV4, UpnpSdkDeviceregisteredV6, alias>>
    PROVE  /\ EntryInv' /\ FlagInv'
           /\ \A g \in Handles : Used(g)' <=> Used(g) \/ g = h
           /\ \A g \in Handles \ {h} : HandleTable'[g] = HandleTable[g]
<1> USE DEF TypeOK
<1>1. HandleTable'[h] = info /\ \A g \in Handles \ {h} : HandleTable'[g] = HandleTable[g]
  OBVIOUS
<1>2. info # NoInfo
  BY SdkAssumption
<1>3. \A g \in Handles : Used(g)' <=> Used(g) \/ g = h
  BY <1>1, <1>2 DEF Used
<1>4. CASE info.HType = "device"
  <2>1. PICK af \in {"v4", "v6"} : af = info.DeviceAf
    BY <1>4
  <2>2. /\ ~FlagOf(af) /\ FlagOf(af)' /\ \A b \in {"v4", "v6"} \ {af} : FlagOf(b)' = FlagOf(b)
        /\ UpnpSdkClientRegistered' = UpnpSdkClientRegistered
        /\ alias' = (alias \/ info.aliasInstalled) /\ (info.aliasInstalled => af = "v4")
    BY <1>4, <2>1 DEF FlagOf, SetFlag
  <2>3. /\ \A g \in Handles : IsClient(g)' <=> IsClient(g)
        /\ \A g \in Handles : IsDevice(g, af)' <=> g = h
    BY <1>1, <1>3, <1>4, <2>1, <2>2 DEF IsClient, IsDevice, FlagInv
  <2>4. \A b \in {"v4", "v6"} \ {af} : \A g \in Handles : IsDevice(g, b)' <=> IsDevice(g, b)
    BY <1>1, <1>3, <1>4, <2>1 DEF IsDevice
  <2>5. FlagInv'
    <3>1. \A b \in {"v4", "v6"} : FlagOf(b)' <=> \E g \in Handles : IsDevice(g, b)'
      BY <2>2, <2>3, <2>4 DEF FlagInv
    <3>2. \A b \in {"v4", "v6"} : \A g, k \in Handles : IsDevice(g, b)' /\ IsDevice(k, b)' => g = k
      BY <2>3, <2>4 DEF FlagInv
    <3>3. /\ \A g, k \in Handles : IsClient(g)' /\ IsClient(k)' => g = k
          /\ UpnpSdkClientRegistered' <=> \E g \in Handles : IsClient(g)'
      BY <2>2, <2>3 DEF FlagInv
    <3> QED
      BY <3>1, <3>2, <3>3 DEF FlagInv
  <2>6. EntryInv'
    BY <1>1, <1>3, <1>4, <2>1, <2>2 DEF EntryInv
  <2> QED
    BY <1>1, <1>3, <2>5, <2>6
<1>5. CASE info.HType = "client"
  <2>1. /\ h \in {1, 2} /\ ~info.aliasInstalled /\ ~UpnpSdkClientRegistered
        /\ UpnpSdkClientRegistered' /\ alias' = alias
        /\ \A b \in {"v4", "v6"} : FlagOf(b)' = FlagOf(b)
    BY <1>5 DEF FlagOf
  <2>2. /\ \A g \in Handles : IsClient(g)' <=> g = h
        /\ \A g \in Handles : \A b \in {"v4", "v6"} : IsDevice(g, b)' <=> IsDevice(g, b)
    BY <1>1, <1>3, <1>5, <2>1 DEF IsClient, IsDevice, FlagInv
  <2>3. FlagInv'
    <3>1. \A b \in {"v4", "v6"} : FlagOf(b)' <=> \E g \in Handles : IsDevice(g, b)'
      BY <2>1, <2>2 DEF FlagInv
    <3>2. \A b \in {"v4", "v6"} : \A g, k \in Handles : IsDevice(g, b)' /\ IsDevice(k, b)' => g = k
      BY <2>2 DEF FlagInv
    <3> QED
      BY <2>1, <2>2, <3>1, <3>2 DEF FlagInv
  <2>4. EntryInv'
    BY <1>1, <1>3, <1>5, <2>1 DEF EntryInv
  <2> QED
    BY <1>1, <1>3, <2>3, <2>4
<1> QED
  BY <1>4, <1>5

(* Who has which handle when an application is given a new one.             *)
LEMMA HandleIsGiven ==
    ASSUME SdkInv, TableInv, NEW a \in Apps, MayCall(a), NEW h \in Handles, ~Used(h),
           EntryInv', FlagInv', Give(a, h), UNCHANGED <<initVars, pc, arg>>,
           \A g \in Handles : Used(g)' <=> Used(g) \/ g = h,
           \A g \in Handles \ {h} : HandleTable'[g] = HandleTable[g]
    PROVE  TableInv'
<1> USE DEF TableInv, initVars
<1>1. \A b \in Apps : pc[b] \notin FinishSteps \cup {"start", "wait"}
  BY SdkAssumption DEF MayCall, SdkInv, PhaseInv
<1>2. owns'[a] = owns[a] \cup {h} /\ \A b \in Apps \ {a} : owns'[b] = owns[b]
  BY DEF Give, SdkInv, TypeOK
<1>3. \A b \in Apps : h \notin owns[b] /\ \A g \in owns[b] : Used(g) /\ g \in Handles
  BY <1>1 DEF OwnInv, SdkInv, TypeOK
<1>4. \A b \in Apps : Unregisters(b) => arg[b] \in Handles /\ Used(arg[b]) /\ arg[b] # h
  BY DEF OwnInv, Unregisters, HandleType
<1>5. \A b \in Apps : Unregisters(b) => HandleType(arg[b])' = HandleType(arg[b])
  BY <1>4 DEF HandleType, Used
<1>6. OwnInv'
  <2>1. \A b \in Apps : pc'[b] = "unregisterDevice" => HandleType(arg[b])' = "device"
    BY <1>5 DEF OwnInv, Unregisters
  <2>2. \A b \in Apps : pc'[b] = "unregisterClient" => HandleType(arg[b])' = "client"
    BY <1>5 DEF OwnInv, Unregisters
  <2>3. \A b, c \in Apps : Unregisters(b)' /\ Unregisters(c)' /\ arg'[b] = arg'[c] => b = c
    BY DEF OwnInv, Unregisters
  <2>4. \A b, c \in Apps : Unregisters(b)' => arg'[b] \notin owns'[c]
    BY <1>2, <1>4 DEF OwnInv, Unregisters
  <2>5. \A b, c \in Apps : b # c => owns'[b] \cap owns'[c] = {}
    BY <1>2, <1>3 DEF OwnInv
  <2>6. \A b \in Apps : \A g \in owns'[b] : Used(g)'
    BY <1>2, <1>3
  <2> QED
    BY <2>1, <2>2, <2>3, <2>4, <2>5, <2>6 DEF OwnInv
<1>7. ClosedInv'
  BY <1>1 DEF ClosedInv, MayCall
<1> QED
  BY <1>6, <1>7

LEMMA RegisterKeepsTableInv ==
    ASSUME SdkInv, TableInv, Unusual = {}, NEW a \in Apps,
           \/ UpnpRegisterRootDevice(a) \/ UpnpRegisterRootDevice2(a)
           \/ UpnpRegisterRootDevice4(a) \/ UpnpRegisterClient(a)
    PROVE  TableInv'
<1>1. ASSUME NEW af \in {"v4", "v6"}, NEW aliased \in BOOLEAN,
             NEW d \in {"good", "none", "no device"}, RegisterDevice(a, af, aliased, d)
      PROVE  TableInv'
  <2>1. /\ MayCall(a) /\ ~FlagOf(af) /\ (aliased => af = "v4") /\ FreeHandles # {}
        /\ UNCHANGED <<initVars, pc, arg>>
    BY <1>1 DEF RegisterDevice
  <2>2. PICK h \in Handles : h = GetFreeHandle /\ ~Used(h)
    BY <2>1, FreeHandleIsFound DEF FreeHandles
  <2>3. CASE d = "good"
    <3>1. PICK info \in HandleInfo :
              info = [HType |-> "device", DeviceAf |-> af, aliasInstalled |-> aliased]
      BY DEF HandleInfo
    <3>2. /\ HandleTable' = [HandleTable EXCEPT ![h] = info] /\ SetFlag(af, TRUE)
          /\ alias' = (alias \/ aliased) /\ Give(a, h)
      BY <1>1, <2>2, <2>3, <3>1 DEF RegisterDevice
    <3>3. /\ info.HType = "device" /\ info.DeviceAf = af
          /\ (info.aliasInstalled <=> aliased)
          /\ alias' = (alias \/ info.aliasInstalled)
      BY <3>1, <3>2
    <3>4. /\ EntryInv' /\ FlagInv'
          /\ \A g \in Handles : Used(g)' <=> Used(g) \/ g = h
          /\ \A g \in Handles \ {h} : HandleTable'[g] = HandleTable[g]
      BY <2>1, <2>2, <3>2, <3>3, EntryIsMade DEF SdkInv, TableInv
    <3> QED
      BY <2>1, <2>2, <3>2, <3>4, HandleIsGiven
  <2>4. CASE d # "good"
    <3>1. UNCHANGED <<HandleTable, flagVars, owns>> /\ (alias => alias')
      BY <1>1, <2>4 DEF RegisterDevice
    <3>2. EntryInv' /\ FlagInv'
      <4>1. EntryInv'
        BY <3>1 DEF TableInv, EntryInv, flagVars, Used, IsDevice, IsClient, FlagOf
      <4>2. FlagInv'
        BY <3>1, ZenonT(30) DEF TableInv, FlagInv, flagVars, Used, IsDevice, IsClient, FlagOf
      <4> QED
        BY <4>1, <4>2
    <3>3. OwnInv'
      BY <2>1, <3>1 DEF TableInv, OwnInv, Used, HandleType, Unregisters
    <3>4. ClosedInv'
      BY <2>1, <3>1 DEF TableInv, ClosedInv, initVars, flagVars, FlagOf
    <3> QED
      BY <3>2, <3>3, <3>4 DEF TableInv
  <2> QED
    BY <2>3, <2>4
<1>2. CASE UpnpRegisterClient(a)
  <2>1. /\ MayCall(a) /\ ~UpnpSdkClientRegistered /\ FreeHandles # {}
        /\ GetFreeHandle \in {1, 2} /\ UNCHANGED <<initVars, pc, arg>>
    BY <1>2 DEF UpnpRegisterClient
  <2>2. PICK h \in Handles : h = GetFreeHandle /\ ~Used(h)
    BY <2>1, FreeHandleIsFound DEF FreeHandles
  <2>3. PICK info \in HandleInfo :
            info = [HType |-> "client", DeviceAf |-> "none", aliasInstalled |-> FALSE]
    BY DEF HandleInfo
  <2>4. /\ HandleTable' = [HandleTable EXCEPT ![h] = info] /\ UpnpSdkClientRegistered'
        /\ Give(a, h)
        /\ UNCHANGED <<UpnpSdkDeviceRegisteredV4, UpnpSdkDeviceregisteredV6, alias>>
    BY <1>2, <2>2, <2>3 DEF UpnpRegisterClient
  <2>5. info.HType = "client" /\ ~info.aliasInstalled
    BY <2>3
  <2>6. /\ EntryInv' /\ FlagInv'
        /\ \A g \in Handles : Used(g)' <=> Used(g) \/ g = h
        /\ \A g \in Handles \ {h} : HandleTable'[g] = HandleTable[g]
    BY <2>1, <2>2, <2>4, <2>5, EntryIsMade DEF SdkInv, TableInv
  <2> QED
    BY <2>1, <2>2, <2>4, <2>6, HandleIsGiven
<1> QED
  BY <1>1, <1>2 DEF UpnpRegisterRootDevice, UpnpRegisterRootDevice2, UpnpRegisterRootDevice4

(* A handle is given back: first the application no longer has it, ...      *)
LEMMA UnregisterBeginsKeepsTableInv ==
    ASSUME SdkInv, TableInv, NEW a \in Apps, NEW h \in Handles,
           UnRegisterDeviceBegins(a, h) \/ UnRegisterClientBegins(a, h)
    PROVE  TableInv'
<1> USE DEF TableInv, initVars, tableVars, flagVars
<1>1. PICK where \in {"unregisterDevice", "unregisterClient"} :
          /\ Goto(a, where)
          /\ HandleType(h) = IF where = "unregisterDevice" THEN "device" ELSE "client"
  BY DEF UnRegisterDeviceBegins, UnRegisterClientBegins
<1>2. /\ MayCall(a) /\ h \in owns[a] /\ owns' = [owns EXCEPT ![a] = @ \ {h}]
      /\ arg' = [arg EXCEPT ![a] = h] /\ UNCHANGED <<initVars, tableVars>>
  BY DEF UnRegisterDeviceBegins, UnRegisterClientBegins
<1>3. /\ owns'[a] = owns[a] \ {h} /\ \A b \in Apps \ {a} : owns'[b] = owns[b]
      /\ arg'[a] = h /\ \A b \in Apps \ {a} : arg'[b] = arg[b]
      /\ pc'[a] = where /\ \A b \in Apps \ {a} : pc'[b] = pc[b]
  BY <1>1, <1>2 DEF Goto, SdkInv, TypeOK
<1>4. \A b \in Apps : pc[b] \notin FinishSteps \cup {"start", "wait"}
  BY <1>2, SdkAssumption DEF MayCall, SdkInv, PhaseInv
<1>5. EntryInv' /\ FlagInv' /\ \A g : HandleType(g)' = HandleType(g)
  BY <1>2 DEF EntryInv, FlagInv, Used, IsDevice, IsClient, FlagOf, HandleType
<1>6. \A b \in Apps \ {a} : h \notin owns[b] /\ owns[a] \cap owns[b] = {}
  BY <1>2 DEF OwnInv
<1>7. \A b \in Apps : Unregisters(b) => b # a /\ arg[b] # h
  BY <1>2 DEF OwnInv, MayCall, Busy, Unregisters
<1>8. \A b \in Apps : Unregisters(b)' <=> b = a \/ Unregisters(b)
  BY <1>3 DEF Unregisters
<1>9. OwnInv'
  <2>1. \A b \in Apps : pc'[b] = "unregisterDevice" => HandleType(arg[b])' = "device"
    BY <1>1, <1>3, <1>5 DEF OwnInv
  <2>2. \A b \in Apps : pc'[b] = "unregisterClient" => HandleType(arg[b])' = "client"
    BY <1>1, <1>3, <1>5 DEF OwnInv
  <2>3. \A b, c \in Apps : Unregisters(b)' /\ Unregisters(c)' /\ arg'[b] = arg'[c] => b = c
    BY <1>3, <1>7, <1>8 DEF OwnInv
  <2>4. \A b, c \in Apps : Unregisters(b)' => arg'[b] \notin owns'[c]
    BY <1>3, <1>6, <1>7, <1>8 DEF OwnInv
  <2>5. \A b, c \in Apps : b # c => owns'[b] \cap owns'[c] = {}
    BY <1>3, <1>6 DEF OwnInv
  <2>6. \A b \in Apps : \A g \in owns'[b] : Used(g)'
    BY <1>2, <1>3, <1>4 DEF OwnInv, Used
  <2> QED
    BY <2>1, <2>2, <2>3, <2>4, <2>5, <2>6 DEF OwnInv
<1>10. ClosedInv'
  BY <1>1, <1>2, <1>3, <1>4 DEF ClosedInv, MayCall, FlagOf, FinishSteps
<1> QED
  BY <1>5, <1>9, <1>10

(* ... and then the entry goes.                                             *)
LEMMA UnregisterEndsKeepsTableInv ==
    ASSUME SdkInv, TableInv, NEW a \in Apps, UnRegisterDeviceEnds(a) \/ UnRegisterClientEnds(a)
    PROVE  TableInv'
<1> USE DEF TableInv, initVars, tableVars, flagVars
<1>1. /\ Unregisters(a) /\ Goto(a, "idle") /\ arg' = [arg EXCEPT ![a] = 0]
      /\ UNCHANGED <<initVars, owns>>
  BY DEF UnRegisterDeviceEnds, UnRegisterClientEnds, Unregisters
<1>2. PICK h \in Handles : h = arg[a] /\ Used(h)
  BY <1>1 DEF OwnInv, Unregisters, HandleType
<1>3. /\ pc[a] = "unregisterDevice" <=> HandleTable[h].HType = "device"
      /\ pc[a] = "unregisterClient" <=> HandleTable[h].HType = "client"
  BY <1>1, <1>2 DEF OwnInv, HandleType, Unregisters
<1>4. /\ EntryInv' /\ FlagInv'
      /\ \A g \in Handles : Used(g)' <=> Used(g) /\ g # h
      /\ \A g \in Handles \ {h} : HandleTable'[g] = HandleTable[g]
      /\ \A af \in {"v4", "v6"} : FlagOf(af)' => FlagOf(af)
      /\ UpnpSdkClientRegistered' => UpnpSdkClientRegistered
  <2>1. FreeHandle(h)
    BY <1>2 DEF UnRegisterDeviceEnds, UnRegisterClientEnds, UnRegisterDeviceFrees,
       UnRegisterClientFrees
  <2>2. CASE UnRegisterDeviceEnds(a)
    <3>1. HandleTable[h].HType = "device"
      BY <1>3, <2>2 DEF UnRegisterDeviceEnds
    <3>2. DropAlias(h) /\ SetFlag(HandleTable[h].DeviceAf, FALSE)
      BY <1>2, <2>2 DEF UnRegisterDeviceEnds, UnRegisterDeviceFrees
    <3> QED
      BY <1>2, <2>1, <3>1, <3>2, EntryIsFreed DEF SdkInv
  <2>3. CASE UnRegisterClientEnds(a)
    <3>1. HandleTable[h].HType # "device"
      BY <1>3, <2>3 DEF UnRegisterClientEnds
    <3>2. /\ UpnpSdkClientRegistered' = FALSE
          /\ UNCHANGED <<UpnpSdkDeviceRegisteredV4, UpnpSdkDeviceregisteredV6, alias>>
      BY <1>2, <2>3 DEF UnRegisterClientEnds, UnRegisterClientFrees
    <3> QED
      BY <1>2, <2>1, <3>1, <3>2, EntryIsFreed DEF SdkInv
  <2> QED
    BY <2>2, <2>3
<1>5. /\ pc'[a] = "idle" /\ \A b \in Apps \ {a} : pc'[b] = pc[b] /\ arg'[b] = arg[b]
      /\ \A b \in Apps : pc'[b] = "idle" \/ (pc'[b] = pc[b] /\ b # a)
  BY <1>1 DEF Goto, SdkInv, TypeOK
<1>6. \A b \in Apps : pc[b] \notin Special
  BY <1>1 DEF SdkInv, PhaseInv, Busy, Unregisters, Special, FinishSteps
<1>7. \A b \in Apps : Unregisters(b)' => Unregisters(b) /\ b # a /\ arg'[b] # h
  BY <1>1, <1>2, <1>5 DEF OwnInv, Unregisters
<1>8. \A b \in Apps : Unregisters(b)' => HandleType(arg[b])' = HandleType(arg[b])
  <2> SUFFICES ASSUME NEW b \in Apps, Unregisters(b)'
               PROVE  HandleType(arg[b])' = HandleType(arg[b])
    OBVIOUS
  <2>1. Unregisters(b) /\ arg'[b] = arg[b] /\ arg[b] # h
    BY <1>5, <1>7
  <2>2. arg[b] \in Handles /\ Used(arg[b])
    BY <2>1 DEF OwnInv, Unregisters, HandleType
  <2> QED
    BY <1>4, <2>1, <2>2 DEF HandleType
<1>9. OwnInv'
  <2>1. \A b \in Apps : pc'[b] = "unregisterDevice" => HandleType(arg[b])' = "device"
    BY <1>5, <1>8 DEF OwnInv, Unregisters
  <2>2. \A b \in Apps : pc'[b] = "unregisterClient" => HandleType(arg[b])' = "client"
    BY <1>5, <1>8 DEF OwnInv, Unregisters
  <2>3. \A b, c \in Apps : Unregisters(b)' /\ Unregisters(c)' /\ arg'[b] = arg'[c] => b = c
    BY <1>5, <1>7 DEF OwnInv
  <2>4. \A b, c \in Apps : Unregisters(b)' => arg'[b] \notin owns'[c]
    BY <1>1, <1>5, <1>7 DEF OwnInv
  <2>5. \A b, c \in Apps : b # c => owns'[b] \cap owns'[c] = {}
    BY <1>1 DEF OwnInv
  <2>6. \A b \in Apps : \A g \in owns'[b] : Used(g)'
    <3>1. \A b \in Apps : \A g \in owns[b] : g \in Handles /\ Used(g) /\ g # h
      BY <1>1, <1>2, <1>6 DEF OwnInv, SdkInv, TypeOK, Special
    <3> QED
      BY <1>1, <1>4, <3>1
  <2> QED
    BY <2>1, <2>2, <2>3, <2>4, <2>5, <2>6 DEF OwnInv
<1>10. ClosedInv'
  BY <1>1, <1>4, <1>5, <1>6 DEF ClosedInv, Special, FinishSteps
<1> QED
  BY <1>4, <1>9, <1>10

(* A step that leaves the table and the handles alone, and moves only a     *)
(* thread of UpnpInit or UpnpFinish.                                        *)
LEMMA TableUntouched ==
    ASSUME SdkInv, TableInv, UNCHANGED <<tableVars, arg, owns>>,
           \/ pc' = pc /\ UpnpSdkInit' = UpnpSdkInit
           \/ \E a \in Apps :
                /\ pc[a] \in Special \ {"device", "client", "start", "wait"}
                /\ \E where \in FinishSteps \ {"device", "client"} :
                      pc' = [pc EXCEPT ![a] = where]
                /\ UpnpSdkInit' = UpnpSdkInit
           \/ \E a \in Apps :
                /\ pc[a] \in {"start", "wait"} /\ UpnpSdkInit' = UpnpSdkInit
                /\ \E where \in {"wait", "device", "idle"} : pc' = [pc EXCEPT ![a] = where]
           \/ \E a \in Apps :
                /\ pc[a] = "idle" /\ \A b \in Apps : pc[b] = "idle"
                /\ UpnpSdkInit' = UpnpSdkInit /\ UpnpSdkInit
                /\ pc' = [pc EXCEPT ![a] = "device"]
    PROVE  TableInv'
<1> USE DEF TableInv, tableVars, flagVars
<1>1. EntryInv' /\ FlagInv' /\ \A g : HandleType(g)' = HandleType(g) /\ Used(g)' = Used(g)
  BY DEF EntryInv, FlagInv, Used, IsDevice, IsClient, FlagOf, HandleType
<1>2. pc \in [Apps -> {"idle", "start", "wait", "unregisterDevice", "unregisterClient"}
                      \cup FinishSteps]
  BY DEF SdkInv, TypeOK
<1>3. \A b \in Apps : pc'[b] \in {"unregisterDevice", "unregisterClient"} => pc[b] = pc'[b]
  BY <1>2 DEF FinishSteps
<1>4. (\A b \in Apps : pc'[b] \notin FinishSteps) =>
          \/ \A b \in Apps : pc[b] \notin FinishSteps
          \/ \A b \in Apps : owns[b] = {}
  BY <1>2 DEF ClosedInv, FinishSteps, Special
<1>5. OwnInv'
  <2>1. \A b \in Apps : pc'[b] = "unregisterDevice" => HandleType(arg[b])' = "device"
    BY <1>1, <1>3 DEF OwnInv
  <2>2. \A b \in Apps : pc'[b] = "unregisterClient" => HandleType(arg[b])' = "client"
    BY <1>1, <1>3 DEF OwnInv
  <2>3. \A b \in Apps : Unregisters(b)' => Unregisters(b)
    BY <1>3 DEF Unregisters
  <2>4. (\A b \in Apps : pc'[b] \notin FinishSteps) =>
            \A b \in Apps : \A g \in owns'[b] : Used(g)'
    BY <1>1, <1>4 DEF OwnInv
  <2> QED
    BY <2>1, <2>2, <2>3, <2>4 DEF OwnInv
<1>6. ClosedInv'
  BY <1>2 DEF ClosedInv, FlagOf, FinishSteps, Special
<1> QED
  BY <1>1, <1>5, <1>6

(* UpnpFinish takes the devices and the client off the table.               *)
LEMMA FinishClosesTable ==
    ASSUME SdkInv, TableInv, NEW a \in Apps, FinishDevice(a) \/ FinishClient(a)
    PROVE  TableInv'
<1> USE DEF TableInv
<1>1. /\ pc[a] \in {"device", "client"} /\ UNCHANGED <<initVars, arg, owns>>
      /\ \A b \in Apps \ {a} : pc[b] = "idle"
  BY DEF FinishDevice, FinishClient, SdkInv, PhaseInv, Busy, Special, FinishSteps
<1>2. \A b \in Apps \ {a} : pc'[b] = "idle"
  BY <1>1 DEF FinishDevice, FinishClient, Goto, SdkInv, TypeOK
<1>3. \A b \in Apps : ~Unregisters(b)' /\ owns'[b] = owns[b]
  <2>1. pc'[a] \in FinishSteps
    BY <1>1 DEF FinishDevice, FinishClient, Goto, SdkInv, TypeOK, FinishSteps
  <2> QED
    BY <1>1, <1>2, <2>1 DEF Unregisters, FinishSteps
<1>4. pc'[a] \in FinishSteps /\ UpnpSdkInit /\ UpnpSdkInit'
  BY <1>1 DEF FinishDevice, FinishClient, Goto, SdkInv, TypeOK, PhaseInv, FinishSteps, Special,
     initVars
<1>5. OwnInv'
  BY <1>1, <1>3, <1>4 DEF OwnInv, Unregisters
<1>6. CASE FinishDevice(a)
  <2>1. CASE pc' = pc
    <3>1. PICK h \in Handles : /\ HandleType(h) = "device" /\ Used(h)
                               /\ UnRegisterDeviceFrees(h)
      BY <1>6, <2>1, <1>4 DEF FinishDevice, Goto, SdkInv, TypeOK, GetDeviceHandleInfo, IsDevice,
         HandleType
    <3>2. HandleTable[h].HType = "device"
      BY <3>1 DEF HandleType
    <3>3. EntryInv' /\ FlagInv'
      BY <3>1, <3>2, EntryIsFreed DEF UnRegisterDeviceFrees, SdkInv
    <3>4. pc[a] = "device"
      BY <1>6 DEF FinishDevice
    <3>5. ClosedInv'
      BY <1>1, <1>4, <2>1, <3>4 DEF ClosedInv, FinishSteps
    <3> QED
      BY <1>5, <3>3, <3>5
  <2>2. CASE pc' = [pc EXCEPT ![a] = "client"] /\ UNCHANGED tableVars
                 /\ GetDeviceHandleInfo("v4") \cup GetDeviceHandleInfo("v6") = {}
    <3>1. pc'[a] = "client"
      BY <2>2 DEF SdkInv, TypeOK
    <3>2. ~FlagOf("v4") /\ ~FlagOf("v6")
      BY <2>2 DEF GetDeviceHandleInfo, FlagInv
    <3>3. EntryInv' /\ FlagInv'
      BY <2>2 DEF EntryInv, FlagInv, tableVars, flagVars, Used, IsDevice, IsClient, FlagOf
    <3>4. FlagOf("v4")' = FlagOf("v4") /\ FlagOf("v6")' = FlagOf("v6")
      BY <2>2 DEF tableVars, flagVars, FlagOf
    <3>5. ClosedInv'
      BY <1>2, <1>4, <3>1, <3>2, <3>4 DEF ClosedInv, FinishSteps
    <3> QED
      BY <1>5, <3>3, <3>5
  <2> QED
    BY <1>6, <2>1, <2>2 DEF FinishDevice, Goto
<1>7. CASE FinishClient(a)
  <2>1. pc[a] = "client" /\ pc' = [pc EXCEPT ![a] = "timer"] /\ pc'[a] = "timer"
    BY <1>7 DEF FinishClient, Goto, SdkInv, TypeOK
  <2>2. ~FlagOf("v4") /\ ~FlagOf("v6")
    BY <2>1 DEF ClosedInv, FinishSteps
  <2>3. /\ EntryInv' /\ FlagInv' /\ ~UpnpSdkClientRegistered'
        /\ ~FlagOf("v4")' /\ ~FlagOf("v6")'
    <3>1. CASE GetClientHandleInfo = {}
      <4>1. UNCHANGED <<HandleTable, alias, UpnpSdkDeviceRegisteredV4, UpnpSdkDeviceregisteredV6,
                        UpnpSdkClientRegistered>>
        BY <1>7, <3>1 DEF FinishClient, tableVars, flagVars
      <4>2. ~UpnpSdkClientRegistered
        BY <3>1 DEF GetClientHandleInfo, HandleType, FlagInv, EntryInv, IsClient
      <4> QED
        BY <2>2, <4>1, <4>2 DEF EntryInv, FlagInv, Used, IsDevice, IsClient, FlagOf
    <3>2. CASE GetClientHandleInfo # {}
      <4>1. PICK h \in GetClientHandleInfo : UnRegisterClientFrees(h)
        BY <1>7, <3>2 DEF FinishClient
      <4>2. h \in Handles /\ Used(h) /\ HandleTable[h].HType = "client"
        BY <4>1 DEF GetClientHandleInfo, HandleType
      <4>3. /\ FreeHandle(h) /\ UpnpSdkClientRegistered' = FALSE
            /\ UNCHANGED <<UpnpSdkDeviceRegisteredV4, UpnpSdkDeviceregisteredV6, alias>>
        BY <4>1, <4>2 DEF UnRegisterClientFrees
      <4>4. EntryInv' /\ FlagInv'
        BY <4>2, <4>3, EntryIsFreed DEF SdkInv
      <4> QED
        BY <2>2, <4>3, <4>4 DEF FlagOf
    <3> QED
      BY <3>1, <3>2
  <2>4. ClosedInv'
    BY <1>2, <1>4, <2>1, <2>3 DEF ClosedInv
  <2> QED
    BY <1>5, <2>3, <2>4
<1> QED
  BY <1>6, <1>7

LEMMA InitTableInv ==
    ASSUME Init
    PROVE  TableInv
<1> USE DEF Init
<1>1. \A h \in Handles : ~Used(h)
  BY DEF EmptyTable, Used
<1>2. EntryInv /\ FlagInv
  BY <1>1 DEF EntryInv, FlagInv, IsDevice, IsClient, FlagOf
<1>3. OwnInv /\ ClosedInv
  BY DEF OwnInv, ClosedInv, Unregisters, FlagOf, FinishSteps
<1> QED
  BY <1>2, <1>3 DEF TableInv

(* UpnpInit empties a table that has been closed.                           *)
LEMMA InitKeepsTableInv ==
    ASSUME SdkInv, TableInv, NEW a \in Apps, UpnpInit(a)
    PROVE  TableInv'
<1> USE DEF TableInv
<1>1. /\ ~UpnpSdkInit /\ \A b \in Apps : pc[b] = "idle"
      /\ HandleTable' = EmptyTable /\ UNCHANGED <<flagVars, alias, owns, arg>>
  BY DEF UpnpInit, InitReaches, SdkInv, PhaseInv, Busy
<1>2. ~UpnpSdkClientRegistered /\ ~FlagOf("v4") /\ ~FlagOf("v6") /\ \A b \in Apps : owns[b] = {}
  BY <1>1 DEF ClosedInv
<1>3. \A b \in Apps : pc'[b] \in {"idle", "start"}
  BY <1>1 DEF UpnpInit, Goto, SdkInv, TypeOK
<1>4. \A h \in Handles : ~Used(h)'
  BY <1>1 DEF EmptyTable, Used
<1>5. EntryInv' /\ FlagInv'
  BY <1>1, <1>2, <1>4 DEF EntryInv, FlagInv, IsDevice, IsClient, FlagOf, flagVars
<1>6. OwnInv'
  BY <1>1, <1>2, <1>3 DEF OwnInv, Unregisters
<1>7. ClosedInv'
  BY <1>1, <1>2, <1>3 DEF ClosedInv, FlagOf, flagVars, FinishSteps
<1> QED
  BY <1>5, <1>6, <1>7

LEMMA FinishEndsKeepsTableInv ==
    ASSUME SdkInv, TableInv, NEW a \in Apps, FinishEnds(a)
    PROVE  TableInv'
<1> USE DEF TableInv
<1>1. /\ pc[a] = "locks" /\ UNCHANGED tableVars
      /\ \A b \in Apps : owns'[b] = {} /\ pc'[b] = "idle"
  BY DEF FinishEnds, Goto, SdkInv, TypeOK, PhaseInv, Busy, Special, FinishSteps
<1>2. ~UpnpSdkClientRegistered /\ ~FlagOf("v4") /\ ~FlagOf("v6")
  BY <1>1 DEF ClosedInv, FinishSteps
<1>3. EntryInv' /\ FlagInv'
  BY <1>1 DEF EntryInv, FlagInv, tableVars, flagVars, Used, IsDevice, IsClient, FlagOf
<1>4. OwnInv'
  BY <1>1 DEF OwnInv, Unregisters
<1>5. ClosedInv'
  BY <1>1, <1>2 DEF ClosedInv, FlagOf, tableVars, flagVars, FinishSteps
<1> QED
  BY <1>3, <1>4, <1>5

-------------------------------------------------------------------------------
(* The theorems                                                             *)

LEMMA NextArgInv ==
    ASSUME SdkInv, ArgInv, [Next]_vars
    PROVE  ArgInv'
<1> USE DEF Goto
<1>1. pc \in [Apps -> {"idle", "start", "wait", "unregisterDevice", "unregisterClient"}
                      \cup FinishSteps] /\ arg \in [Apps -> Handles \cup {0}]
  BY DEF SdkInv, TypeOK
<1>2. CASE arg' = arg /\ \A a \in Apps : Unregisters(a)' => Unregisters(a)
  BY <1>2 DEF ArgInv, Unregisters
<1>3. ASSUME NEW a \in Apps, NEW h \in Handles,
             UnRegisterDeviceBegins(a, h) \/ UnRegisterClientBegins(a, h)
      PROVE  ArgInv'
  <2>1. arg'[a] = h /\ \A b \in Apps \ {a} : arg'[b] = arg[b] /\ pc'[b] = pc[b]
    BY <1>1, <1>3 DEF UnRegisterDeviceBegins, UnRegisterClientBegins
  <2> QED
    BY <2>1 DEF ArgInv, Unregisters
<1>4. ASSUME NEW a \in Apps, UnRegisterDeviceEnds(a) \/ UnRegisterClientEnds(a)
      PROVE  ArgInv'
  <2>1. pc'[a] = "idle" /\ \A b \in Apps \ {a} : arg'[b] = arg[b] /\ pc'[b] = pc[b]
    BY <1>1, <1>4 DEF UnRegisterDeviceEnds, UnRegisterClientEnds
  <2> QED
    BY <2>1 DEF ArgInv, Unregisters
<1>5. ASSUME NEW a \in Apps,
             \/ UpnpInit(a) \/ UpnpFinish(a)
             \/ UpnpRegisterRootDevice(a) \/ UpnpRegisterRootDevice2(a)
             \/ UpnpRegisterRootDevice4(a) \/ UpnpRegisterClient(a)
             \/ StartMiniServer(a) \/ InitEnds(a)
      PROVE  ArgInv'
  <2>1. arg' = arg /\ (pc' = pc \/ \E where \in {"start", "wait", "device", "idle"} :
                                       pc' = [pc EXCEPT ![a] = where])
    BY <1>5 DEF UpnpInit, UpnpFinish, UpnpRegisterRootDevice, UpnpRegisterRootDevice2,
       UpnpRegisterRootDevice4, RegisterDevice, UpnpRegisterClient, StartMiniServer, InitEnds
  <2> QED
    BY <1>1, <1>2, <2>1 DEF Unregisters
<1>6. ASSUME NEW a \in Apps, FinishStep(a)
      PROVE  ArgInv'
  <2>1. arg' = arg /\ (pc' = pc \/ \E where \in FinishSteps \cup {"idle"} :
                                       pc' = [pc EXCEPT ![a] = where])
    BY <1>6 DEF FinishStep, FinishDevice, FinishClient, FinishTimer, StopMiniServer,
       ShutdownDrops, ShutdownWaits, FinishEnds, appVars, NextPool, Pools, FinishSteps
  <2> QED
    BY <1>1, <1>2, <2>1 DEF Unregisters, FinishSteps
<1>7. CASE \/ \E k \in Kinds : JobStep(k)
           \/ RequestEnds \/ TimerFires \/ ServerStep \/ ServerAccepts \/ ServerReads
           \/ UNCHANGED vars
  <2>1. UNCHANGED appVars
    BY <1>7 DEF JobStep, JobStarts, JobLooks, JobSchedules, RequestEnds, TimerFires, ServerStep,
       ServerStarts, ServerStops, ServerCloses, ServerAccepts, ServerReads, vars
  <2> QED
    BY <1>2, <2>1 DEF appVars, Unregisters
<1> QED
  BY <1>3, <1>4, <1>5, <1>6, <1>7 DEF Next, AppCalls, CallStep

LEMMA NextSdkInv ==
    ASSUME SdkInv, ArgInv, [Next]_vars
    PROVE  SdkInv'
<1>1. TypeOK
  BY DEF SdkInv
<1>2. ASSUME NEW a \in Apps, AppCalls(a)
      PROVE  SdkInv'
  <2>1. TypeOK'
    BY <1>1, <1>2, CallTypeOK
  <2>2. CASE UpnpInit(a)
    BY <2>1, <2>2, InitStepKeepsSdkInv
  <2>3. CASE UpnpFinish(a)
    BY <2>1, <2>3, FinishBeginsKeepsSdkInv
  <2>4. CASE \/ UpnpRegisterRootDevice(a) \/ UpnpRegisterRootDevice2(a)
             \/ UpnpRegisterRootDevice4(a) \/ UpnpRegisterClient(a)
    <3>1. UNCHANGED <<initVars, miniVars, jobVars>> /\ pc' = pc
      BY <2>4 DEF UpnpRegisterRootDevice, UpnpRegisterRootDevice2, UpnpRegisterRootDevice4,
         RegisterDevice, UpnpRegisterClient
    <3> QED
      BY <2>1, <3>1, TableStepKeepsSdkInv
  <2>5. ASSUME NEW h \in Handles, UnRegisterDeviceBegins(a, h) \/ UnRegisterClientBegins(a, h)
        PROVE  SdkInv'
    <3>1. /\ UNCHANGED <<initVars, miniVars, jobVars>> /\ MayCall(a)
          /\ \E where \in {"unregisterDevice", "unregisterClient"} :
                pc' = [pc EXCEPT ![a] = where]
      BY <2>5 DEF UnRegisterDeviceBegins, UnRegisterClientBegins, Goto
    <3> QED
      BY <2>1, <3>1, TableStepKeepsSdkInv
  <2> QED
    BY <1>2, <2>2, <2>3, <2>4, <2>5 DEF AppCalls
<1>3. ASSUME NEW a \in Apps, CallStep(a)
      PROVE  SdkInv'
  <2>1. TypeOK'
    BY <1>1, <1>3, OwnStepTypeOK DEF ArgInv
  <2>2. CASE UnRegisterDeviceEnds(a) \/ UnRegisterClientEnds(a)
    <3>1. /\ UNCHANGED <<initVars, miniVars, jobVars>> /\ pc[a] \notin Special
          /\ pc' = [pc EXCEPT ![a] = "idle"]
      BY <2>2 DEF UnRegisterDeviceEnds, UnRegisterClientEnds, Goto, Special, FinishSteps
    <3> QED
      BY <2>1, <3>1, TableStepKeepsSdkInv
  <2>3. CASE StartMiniServer(a) \/ InitEnds(a)
    BY <2>1, <2>3, StartStepsKeepSdkInv
  <2>4. CASE FinishStep(a)
    BY <2>1, <2>4, FinishStepsKeepSdkInv
  <2> QED
    BY <1>3, <2>2, <2>3, <2>4 DEF CallStep
<1>4. CASE \/ \E k \in Kinds : JobStep(k)
           \/ RequestEnds \/ TimerFires \/ ServerStep \/ ServerAccepts \/ ServerReads
  <2>1. TypeOK'
    BY <1>1, <1>4, WorkTypeOK
  <2> QED
    BY <1>4, <2>1, WorkKeepsSdkInv
<1>5. CASE UNCHANGED vars
  BY <1>5 DEF SdkInv, TypeOK, PhaseInv, WorkInv, StageInv, Busy, vars, initVars, tableVars,
     flagVars, miniVars, jobVars, appVars
<1> QED
  BY <1>2, <1>3, <1>4, <1>5 DEF Next

LEMMA NextTableInv ==
    ASSUME Unusual = {}, SdkInv, TableInv, [Next]_vars
    PROVE  TableInv'
<1>1. ASSUME NEW a \in Apps, AppCalls(a)
      PROVE  TableInv'
  <2>1. CASE UpnpInit(a)
    BY <2>1, InitKeepsTableInv
  <2>2. CASE UpnpFinish(a)
    <3>1. /\ UNCHANGED <<tableVars, arg, owns, initVars>> /\ \A b \in Apps : pc[b] = "idle"
          /\ UpnpSdkInit /\ pc' = [pc EXCEPT ![a] = "device"]
      BY <2>2 DEF UpnpFinish, MayCall, Busy, Goto
    <3> QED
      BY <3>1, TableUntouched DEF initVars
  <2>3. CASE \/ UpnpRegisterRootDevice(a) \/ UpnpRegisterRootDevice2(a)
             \/ UpnpRegisterRootDevice4(a) \/ UpnpRegisterClient(a)
    BY <2>3, RegisterKeepsTableInv
  <2>4. ASSUME NEW h \in Handles, UnRegisterDeviceBegins(a, h) \/ UnRegisterClientBegins(a, h)
        PROVE  TableInv'
    BY <2>4, UnregisterBeginsKeepsTableInv
  <2> QED
    BY <1>1, <2>1, <2>2, <2>3, <2>4 DEF AppCalls
<1>2. ASSUME NEW a \in Apps, CallStep(a)
      PROVE  TableInv'
  <2>1. CASE UnRegisterDeviceEnds(a) \/ UnRegisterClientEnds(a)
    BY <2>1, UnregisterEndsKeepsTableInv
  <2>2. CASE StartMiniServer(a) \/ InitEnds(a)
    <3>1. /\ UNCHANGED <<tableVars, arg, owns>> /\ UpnpSdkInit' = UpnpSdkInit
          /\ pc[a] \in {"start", "wait"}
          /\ \E where \in {"wait", "device", "idle"} : pc' = [pc EXCEPT ![a] = where]
      BY <2>2 DEF StartMiniServer, InitEnds, Goto, initVars
    <3> QED
      BY <3>1, TableUntouched
  <2>3. CASE FinishDevice(a) \/ FinishClient(a)
    BY <2>3, FinishClosesTable
  <2>4. CASE FinishTimer(a) \/ StopMiniServer(a) \/ ShutdownDrops(a) \/ ShutdownWaits(a)
    <3>1. UNCHANGED <<tableVars, arg, owns>> /\ UpnpSdkInit' = UpnpSdkInit
      BY <2>4 DEF FinishTimer, StopMiniServer, ShutdownDrops, ShutdownWaits, initVars, appVars
    <3>2. pc[a] \in Special \ {"device", "client", "start", "wait"}
      BY <2>4 DEF FinishTimer, StopMiniServer, ShutdownDrops, ShutdownWaits, Special,
         FinishSteps, Pools
    <3>3. pc' = pc \/ \E where \in FinishSteps \ {"device", "client"} :
                          pc' = [pc EXCEPT ![a] = where]
      BY <2>4 DEF FinishTimer, StopMiniServer, ShutdownDrops, ShutdownWaits, Goto, NextPool,
         FinishSteps, Pools, appVars
    <3> QED
      BY <3>1, <3>2, <3>3, TableUntouched
  <2>5. CASE FinishEnds(a)
    BY <2>5, FinishEndsKeepsTableInv
  <2> QED
    BY <1>2, <2>1, <2>2, <2>3, <2>4, <2>5 DEF CallStep, FinishStep
<1>3. CASE \/ \E k \in Kinds : JobStep(k)
           \/ RequestEnds \/ TimerFires \/ ServerStep \/ ServerAccepts \/ ServerReads
           \/ UNCHANGED vars
  <2>1. UNCHANGED <<tableVars, arg, owns>> /\ pc' = pc /\ UpnpSdkInit' = UpnpSdkInit
    BY <1>3 DEF JobStep, JobStarts, JobLooks, JobSchedules, RequestEnds, TimerFires, ServerStep,
       ServerStarts, ServerStops, ServerCloses, ServerAccepts, ServerReads, vars, initVars,
       appVars
  <2> QED
    BY <2>1, TableUntouched
<1> QED
  BY <1>1, <1>2, <1>3 DEF Next

LEMMA SpecSdkInv == Spec => [](SdkInv /\ ArgInv)
<1>1. Init => SdkInv /\ ArgInv
  BY InitSdkInv DEF Init, ArgInv, Unregisters
<1>2. SdkInv /\ ArgInv /\ [Next]_vars => SdkInv' /\ ArgInv'
  BY NextSdkInv, NextArgInv
<1> QED
  BY <1>1, <1>2, PTL DEF Spec

LEMMA SpecTableInv ==
    ASSUME Unusual = {}
    PROVE  Spec => []TableInv
<1>1. Init => TableInv
  BY InitTableInv
<1>2. SdkInv /\ TableInv /\ [Next]_vars => TableInv'
  BY NextTableInv
<1> QED
  BY <1>1, <1>2, SpecSdkInv, PTL DEF Spec

(* Work has its locks, its pool and its connection's job: for any number of *)
(* applications and handles, whatever fails in UpnpInit and whatever the    *)
(* applications register.                                                   *)
THEOREM SpecWorkSupported == Spec => []WorkSupported
<1>1. SdkInv => WorkSupported
  <2> SUFFICES ASSUME SdkInv PROVE WorkSupported
    OBVIOUS
  <2> USE DEF SdkInv
  <2>1. ASSUME NEW k \in Kinds, job[k] # "none", job[k] # "queued"
        PROVE  locks /\ pool[PoolOf(k)] # "down"
    <3>1. UpnpSdkInit /\ locks
      BY <2>1 DEF WorkInv, PhaseInv
    <3>2. CASE \A p \in Pools : pool[p] = "up"
      BY <3>1, <3>2 DEF Kinds, PoolOf, Pools
    <3>3. ASSUME NEW a \in Apps, pc[a] \in Pools \cup {"locks"}
          PROVE  pool[PoolOf(k)] # "down"
      BY <2>1, <3>3 DEF StageInv, Kinds, PoolOf, Pools
    <3> QED
      BY <3>1, <3>2, <3>3 DEF WorkInv
  <2>2. ASSUME runs # "no"
        PROVE  locks /\ pool["mini"] # "down"
    <3>1. UpnpSdkInit /\ locks /\ \A a \in Apps : pc[a] \notin Pools \cup {"locks"}
      BY <2>2 DEF WorkInv, PhaseInv, StageInv, Pools
    <3> QED
      BY <3>1 DEF WorkInv, Pools
  <2> QED
    BY <2>1, <2>2 DEF WorkSupported, JobsHaveLocks, ConnectionHasJob, WorkInv
<1> QED
  BY <1>1, SpecSdkInv, PTL

LEMMA AtMostOne ==
    ASSUME NEW S, \A x, y \in S : x = y
    PROVE  Cardinality(S) <= 1
<1>1. CASE S = {}
  BY <1>1, FS_EmptySet
<1>2. CASE S # {}
  <2>1. PICK x \in S : TRUE
    BY <1>2
  <2>2. S = {x}
    BY <2>1
  <2> QED
    BY <2>2, FS_Singleton
<1> QED
  BY <1>1, <1>2

(* The flags and the served description follow the handle table, for any    *)
(* number of applications and handles.                                      *)
THEOREM SpecTableSound ==
    ASSUME Unusual = {}
    PROVE  Spec => []TableSound
<1>1. SdkInv /\ TableInv => TableSound
  <2> SUFFICES ASSUME SdkInv, TableInv PROVE TableSound
    OBVIOUS
  <2>1. \A af \in {"v4", "v6"} : /\ FlagOf(af) <=> \E h \in Handles : IsDevice(h, af)
                                 /\ Cardinality({h \in Handles : IsDevice(h, af)}) <= 1
    BY AtMostOne DEF TableInv, FlagInv
  <2>2. /\ UpnpSdkClientRegistered <=> \E h \in Handles : IsClient(h)
        /\ Cardinality({h \in Handles : IsClient(h)}) <= 1
    BY AtMostOne DEF TableInv, FlagInv
  <2>3. AliasServedWhileRegistered
    BY DEF TableInv, EntryInv, AliasServedWhileRegistered
  <2> QED
    BY <2>1, <2>2, <2>3 DEF TableSound, FlagsMatchTable, SdkInv
<1> QED
  BY <1>1, SpecSdkInv, SpecTableInv, PTL

(* UpnpFinish, and an UpnpInit that fails after the pools and the timer are *)
(* up, leave nothing behind.                                                *)
THEOREM SpecNothingLeftBehind ==
    ASSUME Unusual = {}
    PROVE  Spec => []NothingLeftBehind
<1>1. SdkInv /\ TableInv => NothingLeftBehind
  <2> SUFFICES ASSUME SdkInv, TableInv, ~UpnpSdkInit, ~locks
               PROVE  /\ pool = [p \in Pools |-> "down"] /\ timer = "down"
                      /\ gMServState = "MSERV_IDLE" /\ runs = "no" /\ sockets = {}
                      /\ job = [k \in Kinds |-> "none"] /\ ~connection
                      /\ \A h \in Handles : ~IsDevice(h, "v4") /\ ~IsDevice(h, "v6")
    BY DEF NothingLeftBehind
  <2> USE DEF SdkInv
  <2>1. timer = "down" /\ \A p \in Pools : pool[p] = "down"
    BY DEF WorkInv
  <2>2. pool = [p \in Pools |-> "down"]
    BY <2>1 DEF TypeOK
  <2>3. /\ runs = "no" /\ gMServState = "MSERV_IDLE" /\ sockets = {}
        /\ \A k \in Kinds : job[k] = "none"
    BY DEF WorkInv
  <2>4. job = [k \in Kinds |-> "none"]
    BY <2>3 DEF TypeOK
  <2>5. ~connection
    BY <2>3 DEF WorkInv, Kinds
  <2>6. \A h \in Handles : ~IsDevice(h, "v4") /\ ~IsDevice(h, "v6")
    BY DEF TableInv, ClosedInv, FlagInv
  <2> QED
    BY <2>1, <2>2, <2>3, <2>4, <2>5, <2>6
<1> QED
  BY <1>1, SpecSdkInv, SpecTableInv, PTL

===============================================================================
