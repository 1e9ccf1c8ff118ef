------------------------- MODULE DistributedSwitch -------------------------
(***************************************************************************)
(* Whether the clipboard is shared with other devices, and with that       *)
(* whether the clip plugin is loaded: the user's switch in the settings,   *)
(* the devices that are online and their switches, which the device        *)
(* profile service knows, and the service's copies of all of these.        *)
(*                                                                         *)
(* Everything is announced by callbacks that start a thread and return,    *)
(* so that a thread is a list of steps still to do.  The device profile    *)
(* service, which may die and is loaded on demand, the device manager, the *)
(* settings and the query of the security level are external, and any call *)
(* of them may fail.  Devices are those of the same account, the product   *)
(* has not disabled the distributed pasteboard, and the library with the   *)
(* adapter can be loaded.                                                  *)
(***************************************************************************)
EXTENDS Naturals, SequencesExt

CONSTANTS
    Devices, Local,    \* other devices, and this one
    Users, WifiUser,   \* WifiUser: the code of the wifi event, taken for a user
    MaxEvents,         \* bound on what happens outside of the service, calls that fail included
    MaxThreads         \* bound on threads of which one was started from outside

ASSUME SwitchAssumption ==
    /\ MaxEvents \in Nat /\ MaxThreads \in Nat /\ Local \notin Devices /\ WifiUser \notin Users /\ Users # {}
    /\ Devices \cap {"switch", "plugin", "use", "dp", "value"} = {}   \* what threads and failures are about

VARIABLES
    \* outside of the service
    user, setting,     \* the foreground user, and every user's switch
    online, profile,   \* the devices there, and what each has said of its switch
    dpUp, dpSubs,      \* the device profile service, and devices subscribed with it
    saEvents,          \* OnRemove- and OnAddSystemAbility still to be called for it
    \* DMAdapter, DevProfile and what is behind it
    devices,           \* devices_
    cache,             \* enabledStatusCache_
    subscribed,        \* subscribeUdidList_
    infoCache, infos,  \* subscribeInfoCache_ of the adapter, subscribeInfos_ of the client
    proxy, dpProxy,    \* proxy_, and dpProxy_: none, live or dead
    callback,          \* g_onProfileUpdateCallback is set
    releaseTimer,      \* the timer that releases proxy_ is set
    \* PastedSwitch and DataShareDelegate
    switchUser, shareUser,   \* userId_ of either
    observed,          \* users whose setting has the observer
    \* DistributedModuleConfig and PasteboardService
    status, plugin,    \* status_, and whether clipPlugin_ is there
    supported,         \* the security level of the device allows it
    levelKnown,        \* securityLevel_ is set: a query has succeeded
    \* threads, and what happened so far
    threads, events, inOrder,
    \* what calls that failed have left behind (histories of the model):
    failed,            \* "switch": Init gave up; "value": the last change was not read or not put;
                       \* a device: its udid was not found when it last came or went
    deaf,              \* devices for which a call to subscribe or unsubscribe has failed
    stale,             \* devices in the cache that changed while the profile service was away
    kept               \* the plugin was to be dropped, and the user could not be resolved

outside == <<user, setting, online, profile>>
dpVars == <<dpUp, dpSubs, saEvents, dpProxy>>
subscriptions == <<subscribed, infoCache, infos, callback>>
adapter == <<proxy, releaseTimer>>
switchVars == <<switchUser, shareUser, observed>>
service == <<status, plugin, supported, levelKnown, kept>>
excuses == <<failed, deaf, stale>>
distributedVars == <<outside, dpVars, devices, cache, subscriptions, adapter, switchVars, service,
          threads, events, inOrder, excuses>>

-----------------------------------------------------------------------------
(* Threads.                                                                *)

Notify == <<"GetEnabledStatus", "Compare", "Store">>
IsOn == <<"IsOn">> \o Notify \o <<"Load">>
GetPlugin == IsOn \o <<"GetClipPlugin">>
SetSwitch == <<"SetUserId", "GetValue", "UpdateEnabledStatus", "PutDeviceStatus">> \o Notify
SwitchInit == <<"Init", "SetUserId", "RegisterObserver">> \o SetSwitch
HandleUserSwitched == <<"Enter">> \o GetPlugin \o <<"DeInit">> \o SwitchInit
HandleWifiDisabled == <<"SetUserId", "GetDeviceCollabSwitch">> \o GetPlugin
Online == <<"AddDevice", "SubscribeProfileEvent", "GetDeviceStatus">> \o Notify
Offline == <<"RemoveDevice", "UnSubscribeProfileEvent", "EraseEnabledStatus">> \o Notify
OnProfileUpdate == <<"UpdateEnabledStatus">> \o Notify
OnConfigChange == <<"OnConfigChangeInner">>

\* subject is what the thread is about: the switch, the plugin, or a device; new a
\* status it has computed; of and val a device and its status as it was told; held
\* how often it has proxyMutex_, inside whether it has mutex_ of the event subscriber.
Thread(subject, dev, u, new, todo) ==
    [subject |-> subject, dev |-> dev, user |-> u, new |-> new, of |-> Local, val |-> FALSE,
     tried |-> {}, held |-> 0, inside |-> FALSE, todo |-> todo]

AtStep(i, step) == i \in DOMAIN threads /\ Head(threads[i].todo) = step
Skip(t, n) == [t EXCEPT !.todo = SubSeq(@, n + 1, Len(@))]
End(t) == [t EXCEPT !.todo = <<>>]
Put(i, t) == IF t.todo = <<>> THEN RemoveAt(threads, i) ELSE [threads EXCEPT ![i] = t]
Go(i) == threads' = Put(i, Skip(threads[i], 1))
GoWith(i, t) == threads' = Put(i, Skip(t, 1))
LockFree(i) == \A j \in DOMAIN threads \ {i} : threads[j].held = 0
Fair(ok) == inOrder' = (inOrder /\ ok)
Outcome(ok) == IF ok THEN UNCHANGED events ELSE events < MaxEvents /\ events' = events + 1

DistributedInit ==
    /\ user = (CHOOSE u \in Users : TRUE) /\ setting \in [Users -> BOOLEAN]
    /\ online = {} /\ profile \in [Devices \cup {Local} -> BOOLEAN]
    /\ dpUp = TRUE /\ dpSubs = {} /\ saEvents = <<>>
    /\ devices = {} /\ cache = <<>> /\ subscribed = {} /\ infoCache = {} /\ infos = {}
    /\ proxy = FALSE /\ dpProxy = "none" /\ callback = FALSE /\ releaseTimer = FALSE
    /\ switchUser = 0 /\ shareUser = 0 /\ observed = {}
    /\ status = FALSE /\ plugin = FALSE /\ supported \in BOOLEAN /\ levelKnown = FALSE /\ kept = FALSE
    /\ threads = <<Thread("switch", Local, user, FALSE, SwitchInit)>>
    /\ events = 0 /\ inOrder = TRUE /\ failed = {} /\ deaf = {} /\ stale = {}

-----------------------------------------------------------------------------
(* Calls of the device profile service.                                    *)

LoadSystemAbilitySuccess ==
    dpProxy' = "live" /\ dpUp' = TRUE /\ saEvents' = Append(saEvents, "add")
LoadSystemAbilityFail == UNCHANGED <<dpUp, dpProxy, saEvents>>

LoadDeviceProfileService(ok) ==
    /\ dpProxy = "none" /\ ~dpUp /\ Outcome(ok)
    /\ IF ok THEN LoadSystemAbilitySuccess ELSE LoadSystemAbilityFail

\* A proxy that is there, also of a service that has died; otherwise the service is
\* found, or loaded if that works.
GetDeviceProfileService(got) ==
    \/ dpProxy # "none" /\ got /\ UNCHANGED <<dpUp, dpProxy, saEvents, events>>
    \/ /\ dpProxy = "none" /\ dpUp /\ got
       /\ dpProxy' = "live" /\ UNCHANGED <<dpUp, saEvents, events>>
    \/ LoadDeviceProfileService(got)

\* A call fails without a proxy, or with one of a service that has died.
CallDp(ok) ==
    \E got \in BOOLEAN : GetDeviceProfileService(got) /\ ok = (got /\ dpProxy # "dead")

PutCharacteristicProfile(value, ok) ==
    /\ CallDp(ok)
    /\ profile' = IF ok THEN [profile EXCEPT ![Local] = value] ELSE profile
GetCharacteristicProfile(ok) == CallDp(ok)

\* The client keeps what was asked for once it has a proxy.
SubscribeDeviceProfile(d, ok) ==
    /\ CallDp(ok)
    /\ infos' = IF ok \/ dpProxy = "dead" THEN infos \cup {d} ELSE infos
    /\ dpSubs' = IF ok THEN dpSubs \cup {d} ELSE dpSubs

UnSubscribeDeviceProfile(d, ok) ==
    /\ CallDp(ok)
    /\ infos' = IF ok \/ dpProxy = "dead" THEN infos \ {d} ELSE infos
    /\ dpSubs' = IF ok THEN dpSubs \ {d} ELSE dpSubs

ResendInfos ==
    /\ dpProxy' = IF dpProxy = "none" /\ dpUp THEN "live" ELSE dpProxy
    /\ dpSubs' = IF dpProxy' = "live" THEN dpSubs \cup infos ELSE dpSubs

\* proxyMutex_ is taken, PostDelayReleaseProxy sets the timer, and proxy_ is made.
UseProxy(i) == LockFree(i) /\ proxy' = TRUE /\ releaseTimer' = TRUE

\* DeinitDeviceProfileAdapter, and the library is closed: it may be unloaded with all
\* that it has kept.
ReleaseProxy ==
    /\ proxy' = FALSE /\ callback' = FALSE /\ dpProxy' = "none"
    /\ \/ infoCache' = {} /\ infos' = {}
       \/ UNCHANGED <<infoCache, infos>>

\* GetDeviceStatus of a device that is not in the cache: t is the thread, which goes
\* on with WriteBack, or without.
Fetch(i, d, t, without) ==
    /\ UseProxy(i)
    /\ \E ok \in BOOLEAN :
         /\ GetCharacteristicProfile(ok)
         /\ threads' = Put(i, IF ok THEN [t EXCEPT !.of = d, !.val = profile[d], !.held = @ + 1,
                                                   !.todo = <<"WriteBack">> \o @]
                              ELSE without)
    /\ UNCHANGED <<outside, dpSubs, devices, cache, subscriptions, switchVars, service,
                   inOrder, excuses>>

CacheWith(d, value) ==
    [e \in DOMAIN cache \cup {d} |-> IF e = d THEN value ELSE cache[e]]

About(d) == IF d = Local THEN "switch" ELSE d

\* Not in order when the value has changed by now, or is just being changed, or the
\* device has gone.
WriteBack(i) ==
    /\ AtStep(i, "WriteBack")
    /\ LET t == threads[i]
       IN /\ cache' = CacheWith(t.of, t.val)
          /\ GoWith(i, [t EXCEPT !.held = @ - 1])
          /\ Fair(/\ t.val = profile[t.of] /\ t.of \in devices \cup {Local}
                  /\ \A j \in DOMAIN threads \ {i} : threads[j].subject # About(t.of))
    /\ UNCHANGED <<outside, dpVars, devices, subscriptions, adapter, switchVars, service, events, excuses>>

-----------------------------------------------------------------------------
(* DistributedModuleConfig.                                                *)

\* The device manager may not know the udid of a device, of this one neither.
GetUdidByNetworkId == BOOLEAN

Cached(i, t) ==
    /\ threads' = Put(i, t)
    /\ UNCHANGED <<outside, dpVars, devices, cache, subscriptions, adapter, switchVars, service,
                   events, inOrder, excuses>>

Unfound(i, t) ==
    /\ \E found \in GetUdidByNetworkId : ~found /\ Outcome(found)
    /\ threads' = Put(i, t)
    /\ UNCHANGED <<outside, dpVars, devices, cache, subscriptions, adapter, switchVars, service,
                   inOrder, excuses>>

\* The first device that is found on will do.  A failure is a switch that is off, this
\* device's udid not found as well: DP_LOAD_SERVICE_ERROR, on which GetRetryTask is
\* started, is never returned.
GetEnabledStatus(i) ==
    /\ AtStep(i, "GetEnabledStatus")
    /\ LET t == threads[i]
           Say(new) == Skip([t EXCEPT !.new = new, !.tried = {}], 1)
           unknown == (devices \ DOMAIN cache) \ t.tried
           on == {d \in devices \cap DOMAIN cache : cache[d]}
       IN \/ Unfound(i, Say(FALSE))
          \/ Local \notin DOMAIN cache /\ Fetch(i, Local, t, Say(FALSE))
          \/ Local \in DOMAIN cache /\ ~cache[Local] /\ Cached(i, Say(FALSE))
          \/ Local \in DOMAIN cache /\ cache[Local] /\ on # {} /\ Cached(i, Say(TRUE))
          \/ /\ Local \in DOMAIN cache /\ cache[Local]
             /\ \E d \in unknown : Fetch(i, d, t, [t EXCEPT !.tried = @ \cup {d}])
          \/ Local \in DOMAIN cache /\ cache[Local] /\ on \cup unknown = {} /\ Cached(i, Say(FALSE))

Compare(i) ==
    /\ AtStep(i, "Compare")
    /\ Cached(i, Skip(threads[i], IF threads[i].new # status THEN 1 ELSE 2))

\* status_ is stored and OnConfigChange starts a thread.
Store(i) ==
    /\ AtStep(i, "Store")
    /\ status' = threads[i].new
    /\ threads' = Append(Put(i, Skip(threads[i], 1)),
                         Thread("plugin", Local, 0, threads[i].new, OnConfigChange))
    /\ UNCHANGED <<outside, dpVars, devices, cache, subscriptions, adapter, switchVars, plugin,
                   supported, levelKnown, kept, events, inOrder, excuses>>

\* GetDeviceNum: without devices there is no Notify.
EnterIsOn(i) ==
    /\ AtStep(i, "IsOn")
    /\ Cached(i, Skip(threads[i], IF devices = {} THEN Len(Notify) + 1 ELSE 1))

Load(i) ==
    /\ AtStep(i, "Load")
    /\ Cached(i, Skip([threads[i] EXCEPT !.new = status], 1))

-----------------------------------------------------------------------------
(* PasteboardService.                                                      *)

\* Threads that are about to load or drop the plugin, as they saw the status.
Decided(i) == AtStep(i, "OnConfigChangeInner") \/ AtStep(i, "GetClipPlugin")
SameDecision(i) == \A j \in DOMAIN threads : Decided(j) => threads[j].new = threads[i].new

\* The level is asked for until a query succeeds, and kept from then on; while queries
\* fail the answer is no.  known: it is kept, or the query succeeds.
GetDeviceSecurityLevel == {levelKnown, TRUE}
IsSupportedDistributed(known) == supported /\ known

PluginStep(i, there) ==
    /\ plugin' = there /\ kept' = (kept /\ there /\ ~threads[i].new)
    /\ Go(i) /\ Fair(SameDecision(i))
    /\ UNCHANGED <<outside, dpVars, devices, cache, subscriptions, adapter, switchVars, status,
                   supported, excuses>>

\* Mutant: a plugin is only dropped by the one who closes the store.
KeepOnOff(i) ==
    /\ AtStep(i, "OnConfigChangeInner") /\ levelKnown' = TRUE /\ Outcome(TRUE)
    /\ PluginStep(i, plugin \/ (threads[i].new /\ IsSupportedDistributed(TRUE)))

\* Off: Close, and the plugin is dropped.  The links are in P2PLink.
OnConfigChangeInner(i) ==
    /\ AtStep(i, "OnConfigChangeInner")
    /\ \/ /\ threads[i].new
          /\ \E known \in GetDeviceSecurityLevel :
               levelKnown' = known /\ Outcome(known) /\ PluginStep(i, plugin \/ IsSupportedDistributed(known))
       \/ ~threads[i].new /\ UNCHANGED <<levelKnown, events>> /\ PluginStep(i, FALSE)

\* ResolveMainDisplayUserId fails: the plugin stays.
OffUnresolved(i) ==
    /\ AtStep(i, "OnConfigChangeInner") /\ ~threads[i].new /\ plugin
    /\ kept' = TRUE /\ Outcome(FALSE) /\ Go(i) /\ Fair(SameDecision(i))
    /\ UNCHANGED <<outside, dpVars, devices, cache, subscriptions, adapter, switchVars, status,
                   plugin, supported, levelKnown, excuses>>

\* Without isOn, the plugin that may be there.
GetClipPlugin(i) ==
    /\ AtStep(i, "GetClipPlugin")
    /\ \/ /\ threads[i].new
          /\ \E known \in GetDeviceSecurityLevel :
               levelKnown' = known /\ Outcome(known) /\ PluginStep(i, plugin \/ IsSupportedDistributed(known))
       \/ ~threads[i].new /\ UNCHANGED <<levelKnown, events>> /\ PluginStep(i, plugin)

Enter(i) ==
    /\ AtStep(i, "Enter")
    /\ \A j \in DOMAIN threads : ~threads[j].inside
    /\ Cached(i, Skip([threads[i] EXCEPT !.inside = TRUE], 1))

\* The wifi is off: nothing to do when the switch of device collaboration is on or
\* there is no valid event.
GetDeviceCollabSwitch(i) ==
    /\ AtStep(i, "GetDeviceCollabSwitch")
    /\ \E ends \in BOOLEAN : Cached(i, IF ends THEN End(threads[i]) ELSE Skip(threads[i], 1))

-----------------------------------------------------------------------------
(* PastedSwitch and DataShareDelegate.                                     *)

SwitchStep(i, t, why) ==
    /\ threads' = Put(i, t) /\ failed' = failed \cup why /\ Outcome(why = {})
    /\ UNCHANGED <<outside, dpVars, devices, cache, subscriptions, adapter, service, inOrder,
                   deaf, stale>>

\* IsHmlSupported asks the wifi service, and may have to give up.
IsHmlSupported == BOOLEAN

InitSwitch(i) ==
    /\ AtStep(i, "Init")
    /\ \E hml \in IsHmlSupported :
         /\ switchUser' = IF hml THEN threads[i].user ELSE switchUser
         /\ SwitchStep(i, IF hml THEN Skip(threads[i], 1) ELSE End(threads[i]), IF hml THEN {} ELSE {"switch"})
    /\ UNCHANGED <<shareUser, observed>>

SetUserId(i) ==
    /\ AtStep(i, "SetUserId")
    /\ shareUser' = threads[i].user
    /\ SwitchStep(i, Skip(threads[i], 1), {})
    /\ UNCHANGED <<switchUser, observed>>

RegisterObserver(i) ==
    /\ AtStep(i, "RegisterObserver")
    /\ observed' = observed \cup {shareUser}
    /\ SwitchStep(i, Skip(threads[i], 1), {})
    /\ UNCHANGED <<switchUser, shareUser>>

DeInit(i) ==
    /\ AtStep(i, "DeInit")
    /\ observed' = observed \ {shareUser}
    /\ SwitchStep(i, Skip(threads[i], 1), {})
    /\ UNCHANGED <<switchUser, shareUser>>

\* A setting that is not there, or cannot be read, is a switch that is on.
GetValue(i) ==
    /\ AtStep(i, "GetValue")
    /\ \E read \in BOOLEAN :
         LET value == IF read /\ shareUser \in Users THEN setting[shareUser] ELSE TRUE
         IN SwitchStep(i, Skip([threads[i] EXCEPT !.new = value], 1), IF read THEN {} ELSE {"value"})
    /\ UNCHANGED switchVars

-----------------------------------------------------------------------------
(* DevProfile.                                                             *)

UpdateEnabledStatus(i) ==
    /\ AtStep(i, "UpdateEnabledStatus")
    /\ cache' = CacheWith(threads[i].dev, threads[i].new) /\ stale' = stale \ {threads[i].dev}
    /\ Go(i)
    /\ UNCHANGED <<outside, dpVars, devices, subscriptions, adapter, switchVars, service, events,
                   inOrder, failed, deaf>>

\* This device's udid is not found: PutDeviceStatus does nothing.
LocalUdidUnknown(i) ==
    /\ AtStep(i, "UpdateEnabledStatus") /\ threads[i].dev = Local
    /\ threads' = Put(i, End(threads[i])) /\ failed' = failed \cup {"value"} /\ Outcome(FALSE)
    /\ UNCHANGED <<outside, dpVars, devices, cache, subscriptions, adapter, switchVars, service,
                   inOrder, deaf, stale>>

\* When the call fails there is no Notify.  Otherwise the lock is kept to the end.
PutDeviceStatus(i) ==
    /\ AtStep(i, "PutDeviceStatus")
    /\ UseProxy(i)
    /\ \E ok \in BOOLEAN :
         /\ PutCharacteristicProfile(threads[i].new, ok)
         /\ failed' = IF ok THEN failed ELSE failed \cup {"value"}
         /\ IF ok THEN GoWith(i, [threads[i] EXCEPT !.held = 1])
            ELSE threads' = Put(i, End(threads[i]))
    /\ UNCHANGED <<user, setting, online, dpSubs, devices, cache, subscriptions, switchVars,
                   service, inOrder, deaf, stale>>

GetDeviceStatus(i) ==
    /\ AtStep(i, "GetDeviceStatus")
    /\ LET t == threads[i]
           next == Skip(t, 1)
       IN \/ t.dev \in DOMAIN cache /\ Cached(i, next)
          \/ t.dev \notin DOMAIN cache /\ Fetch(i, t.dev, next, next)

\* The adapter: what it has asked for is kept, whether or not it is granted.
AdapterSubscribe(d) ==
    /\ infoCache' = infoCache \cup {d}
    /\ IF d \in infoCache THEN UNCHANGED <<dpVars, infos, deaf, events>>
       ELSE \E ok \in BOOLEAN :
              /\ SubscribeDeviceProfile(d, ok)
              /\ deaf' = IF ok \/ dpProxy = "dead" THEN deaf ELSE deaf \cup {d}

\* It is forgotten once the call has succeeded.
AdapterUnSubscribe(d) ==
    IF d \notin infoCache THEN UNCHANGED <<dpVars, infos, infoCache, deaf, events>>
    ELSE \E ok \in BOOLEAN :
           /\ UnSubscribeDeviceProfile(d, ok)
           /\ infoCache' = IF ok THEN infoCache \ {d} ELSE infoCache
           /\ deaf' = IF ok THEN deaf \ {d} ELSE deaf \cup {d}

RegisterUpdateCallback == callback' = TRUE

SubscribeProfileEvent(i) ==
    /\ AtStep(i, "SubscribeProfileEvent")
    /\ UseProxy(i)
    /\ RegisterUpdateCallback
    /\ AdapterSubscribe(threads[i].dev)
    /\ subscribed' = subscribed \cup {threads[i].dev}
    /\ Go(i)
    /\ UNCHANGED <<outside, devices, cache, switchVars, service, inOrder, failed, stale>>

UnSubscribeProfileEvent(i) ==
    /\ AtStep(i, "UnSubscribeProfileEvent")
    /\ UseProxy(i)
    /\ AdapterUnSubscribe(threads[i].dev)
    /\ subscribed' = subscribed \ {threads[i].dev}
    /\ Go(i)
    /\ UNCHANGED <<outside, devices, cache, callback, switchVars, service, inOrder, failed, stale>>

\* Mutant: the status of a device that has gone is kept.
KeepEnabledStatus(i) ==
    /\ AtStep(i, "EraseEnabledStatus")
    /\ Go(i)
    /\ UNCHANGED <<outside, dpVars, devices, cache, subscriptions, adapter, switchVars, service, events, inOrder, excuses>>

EraseEnabledStatus(i) ==
    /\ AtStep(i, "EraseEnabledStatus")
    /\ cache' = [d \in DOMAIN cache \ {threads[i].dev} |-> cache[d]] /\ stale' = stale \ {threads[i].dev}
    /\ Go(i)
    /\ UNCHANGED <<outside, dpVars, devices, subscriptions, adapter, switchVars, service, events,
                   inOrder, failed, deaf>>

\* The timer.
PostDelayReleaseProxy ==
    /\ releaseTimer /\ releaseTimer' = FALSE
    /\ LockFree(0)
    /\ IF proxy /\ subscribed = {}
       THEN ReleaseProxy
       ELSE UNCHANGED <<proxy, callback, dpProxy, infoCache, infos>>
    /\ UNCHANGED <<outside, dpUp, dpSubs, saEvents, devices, cache, subscribed, switchVars,
                   service, threads, events, inOrder, excuses>>

\* OnRemoveDeviceProfile.
ClearDeviceProfileService ==
    /\ saEvents # <<>> /\ Head(saEvents) = "remove" /\ saEvents' = Tail(saEvents)
    /\ LockFree(0)
    /\ IF proxy THEN cache' = <<>> /\ stale' = {} /\ releaseTimer' = TRUE /\ dpProxy' = "none"
       ELSE UNCHANGED <<cache, stale, releaseTimer, dpProxy>>
    /\ UNCHANGED <<outside, dpUp, dpSubs, devices, subscriptions, proxy, switchVars, service,
                   threads, events, inOrder, failed, deaf>>

\* OnAddDeviceProfile.
SendSubscribeInfos ==
    /\ saEvents # <<>> /\ Head(saEvents) = "add" /\ saEvents' = Tail(saEvents)
    /\ LockFree(0)
    /\ IF subscribed = {} THEN UNCHANGED <<proxy, releaseTimer, dpProxy, dpSubs>>
       ELSE /\ proxy' = TRUE /\ releaseTimer' = TRUE
            /\ IF infoCache # {} THEN ResendInfos ELSE UNCHANGED <<dpProxy, dpSubs>>
    /\ UNCHANGED <<outside, dpUp, devices, cache, subscriptions, switchVars, service, threads,
                   events, inOrder, excuses>>

-----------------------------------------------------------------------------
(* DMAdapter.                                                              *)

DeviceStep(i, found, to) ==
    /\ devices' = IF found THEN to ELSE devices
    /\ threads' = Put(i, IF found THEN Skip(threads[i], 1) ELSE End(threads[i]))
    /\ failed' = (IF found THEN failed ELSE failed \cup {threads[i].dev}) /\ Outcome(found)
    /\ UNCHANGED <<outside, dpVars, cache, subscriptions, adapter, switchVars, service, inOrder,
                   deaf, stale>>

AddDevice(i) ==
    /\ AtStep(i, "AddDevice")
    /\ \E found \in GetUdidByNetworkId : DeviceStep(i, found, devices \cup {threads[i].dev})

RemoveDevice(i) ==
    /\ AtStep(i, "RemoveDevice")
    /\ \E found \in GetUdidByNetworkId : DeviceStep(i, found, devices \ {threads[i].dev})

-----------------------------------------------------------------------------
(* What happens outside, in order if what had happened to the same subject *)
(* before has been dealt with.  It gives what had failed another chance.   *)

MayHappen == events < MaxEvents /\ Len(threads) < MaxThreads /\ events' = events + 1

Happens(subject, mended) ==
    /\ MayHappen
    /\ Fair(\A i \in DOMAIN threads : threads[i].subject # subject) /\ failed' = failed \ mended
    /\ UNCHANGED <<devices, cache, subscriptions, adapter, switchVars, service, deaf, stale>>

OnDeviceOnline(d) ==
    /\ d \notin online /\ Happens(d, {d}) /\ online' = online \cup {d}
    /\ threads' = Append(threads, Thread(d, d, 0, FALSE, Online))
    /\ UNCHANGED <<user, setting, profile, dpVars>>

OnDeviceChanged(d) ==
    /\ d \in online /\ Happens(d, {d})
    /\ threads' = Append(threads, Thread(d, d, 0, FALSE, Online))
    /\ UNCHANGED <<outside, dpVars>>

OnDeviceOffline(d) ==
    /\ d \in online /\ Happens(d, {d}) /\ online' = online \ {d}
    /\ threads' = Append(threads, Thread(d, d, 0, FALSE, Offline))
    /\ UNCHANGED <<user, setting, profile, dpVars>>

\* A device's switch is changed; OnCharacteristicProfileUpdate if it is subscribed.
\* Between the end of the service and SendSubscribeInfos the change is missed, and what is
\* in the cache is stale.
OnCharacteristicProfileUpdate(d) ==
    /\ MayHappen
    /\ profile' = [profile EXCEPT ![d] = ~@]
    /\ IF d \in dpSubs /\ callback
       THEN threads' = Append(threads, Thread(d, d, 0, ~profile[d], OnProfileUpdate)) /\ stale' = stale
       ELSE /\ threads' = threads
            /\ stale' = IF (~dpUp \/ saEvents # <<>>) /\ d \in DOMAIN cache THEN stale \cup {d} ELSE stale
    /\ Fair(\A i \in DOMAIN threads : threads[i].subject # d)
    /\ UNCHANGED <<user, setting, online, dpVars, devices, cache, subscriptions, adapter,
                   switchVars, service, failed, deaf>>

\* OnChange of the observer.
SettingChanges(u) ==
    /\ Happens("switch", IF u \in observed THEN {"value"} ELSE {})
    /\ setting' = [setting EXCEPT ![u] = ~@]
    /\ threads' = IF u \in observed
                  THEN Append(threads, Thread("switch", Local, switchUser, FALSE, SetSwitch))
                  ELSE threads
    /\ UNCHANGED <<user, online, profile, dpVars>>

UserSwitches(u) ==
    /\ u # user /\ user' = u /\ Happens("switch", {"switch", "value"})
    /\ threads' = Append(threads, Thread("switch", Local, u, FALSE, HandleUserSwitched))
    /\ UNCHANGED <<setting, online, profile, dpVars>>

WifiDisabled ==
    /\ Happens("switch", {})
    /\ threads' = Append(threads, Thread("switch", Local, WifiUser, FALSE, HandleWifiDisabled))
    /\ UNCHANGED <<outside, dpVars>>

\* A copy or a paste.
UsesPlugin ==
    /\ Happens("use", {})
    /\ threads' = Append(threads, Thread("use", Local, 0, FALSE, GetPlugin))
    /\ UNCHANGED <<outside, dpVars>>

DpDies ==
    /\ dpUp /\ Happens("dp", {})
    /\ dpUp' = FALSE /\ dpSubs' = {}
    /\ dpProxy' = IF dpProxy = "live" THEN "dead" ELSE dpProxy
    /\ saEvents' = Append(saEvents, "remove")
    /\ UNCHANGED <<outside, threads>>

DpStarts ==
    /\ ~dpUp /\ dpUp' = TRUE /\ saEvents' = Append(saEvents, "add")
    /\ UNCHANGED <<outside, dpSubs, dpProxy, devices, cache, subscriptions, adapter, switchVars,
                   service, threads, events, inOrder, excuses>>

Step(i) ==
    \/ WriteBack(i) \/ GetEnabledStatus(i) \/ Compare(i) \/ Store(i) \/ EnterIsOn(i) \/ Load(i)
    \/ OnConfigChangeInner(i) \/ OffUnresolved(i) \/ GetClipPlugin(i) \/ Enter(i) \/ GetDeviceCollabSwitch(i)
    \/ InitSwitch(i) \/ SetUserId(i) \/ RegisterObserver(i) \/ DeInit(i) \/ GetValue(i)
    \/ UpdateEnabledStatus(i) \/ LocalUdidUnknown(i) \/ PutDeviceStatus(i) \/ GetDeviceStatus(i)
    \/ SubscribeProfileEvent(i) \/ UnSubscribeProfileEvent(i) \/ EraseEnabledStatus(i)
    \/ AddDevice(i) \/ RemoveDevice(i)

\* Nothing is claimed of what comes after something was out of order.
DistributedNext ==
    /\ inOrder
    /\ \/ \E i \in DOMAIN threads : Step(i)
       \/ PostDelayReleaseProxy \/ ClearDeviceProfileService \/ SendSubscribeInfos
       \/ \E d \in Devices :
            OnDeviceOnline(d) \/ OnDeviceChanged(d) \/ OnDeviceOffline(d) \/ OnCharacteristicProfileUpdate(d)
       \/ \E u \in Users : SettingChanges(u) \/ UserSwitches(u)
       \/ WifiDisabled \/ UsesPlugin \/ DpDies \/ DpStarts

-----------------------------------------------------------------------------
Settled == threads = <<>> /\ saEvents = <<>> /\ inOrder

\* What GetEnabledStatus would go by.
Value(d) == IF d \in DOMAIN cache THEN cache[d] ELSE profile[d]

(* Once everything that happened has been dealt with, IsOn goes by the     *)
(* foreground user's switch, which is also what the other devices are      *)
(* told, by the devices that are online, and by the switches of these,     *)
(* after any coming and going of users, of devices and of the device       *)
(* profile service.  A call that fails is excused until it is made again   *)
(* for the same matter, and only there:                                    *)
(*  - Init gave up for want of HML, until the next user switch; the        *)
(*    setting could not be read, this device's udid was not found or the   *)
(*    status not put, until the switch or the user changes again;          *)
(*  - a device's udid was not found when it last came or went;             *)
(*  - the value of a device that was not subscribed or unsubscribed when   *)
(*    asked for, until it is unsubscribed; one that changed while the      *)
(*    profile service was away, until it leaves the cache or changes again.*)
(* Nothing is claimed after two threads about one switch or one device     *)
(* overlapped, or a value was written to the cache after it had changed.   *)
StatusAsSet ==
    Settled =>
        /\ failed \cap {"switch", "value"} = {} =>
             Value(Local) = setting[user] /\ profile[Local] = setting[user]
        /\ \A d \in Devices \ failed : d \in devices <=> d \in online
        /\ \A d \in devices \ (deaf \cup stale) : Value(d) = profile[d]

(* Once everything has been dealt with the plugin is there if status_ is   *)
(* on and the security level, as soon as a query of it has succeeded,      *)
(* allows it; and only then, or when it was to be dropped and the main     *)
(* display's user could not be resolved.  Nothing is claimed after a       *)
(* thread that was to drop it and one that was to load it overlapped.      *)
PluginFollows ==
    Settled =>
        /\ status /\ IsSupportedDistributed(levelKnown) => plugin
        /\ plugin => IsSupportedDistributed(levelKnown) /\ (status \/ kept)

=============================================================================
