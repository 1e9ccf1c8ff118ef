# Verification of the OpenHarmony pasteboard service

TLA+ models of the clipboard: the service (`services/core`), the client library
and its language bindings, and the switch that shares the clipboard with other
devices. TLC model-checks them on small instances; most of the safety properties
are proved by TLAPS for every value of the constants.
`PROJECT.json` lists the parts of the system, the runs, the source lines behind
every definition, the hazards and the theorems.

## 1. Inventory

`PasteboardService` is one system ability. IPC calls run concurrently on a pool
of threads; much work is moved to detached `std::thread`s and to FFRT timers.
State is kept in `ConcurrentMap`s (one lock per map operation), in a few
structures with a mutex of their own, and in plain members. There is no lock
around a whole operation, so what is hard in this code is what two operations
do to each other between two map operations. An application reaches the service
through a client library that caches a proxy, and that library through one of
four bindings (napi, taihe, C, Cangjie), which run it on threads of their own.

| Part | State | Operations | Hard because | Module |
|---|---|---|---|---|
| Local clip store | `clips_`, `copyTime_`, `delayGetters_`, `entryGetters_`, `clipChangeCount_`, `setting_`, timers | copy, paste, clear, expiry, death of the copier, remote clip | a paste waits for the copying application in its middle; expiry threads outlive their clip | `ClipStore` |
| Distributed publishing | `setDistributedMemory_` | `SetDistributedData`, one loop, inner threads | the loop stops while an event arrives; an interval overrun leaves two inner threads | `DistributedSync` |
| Remote paste | `dataTasks_`, `currentEvent_`, blocks | choice of the clip; claim, join, wait, notify, clear of a fetch | several pastes share one worker, which outlives a paste that timed out | `RemotePaste` |
| P2P link | `p2pMap_`, `preSyncP2pMap_`, timers | establish, reuse, presync, complete, expire, exit | references counted under a lock, link opened and closed outside it | `P2PLink`, `PreSyncMonitor` |
| Disposable observers | `disposableInfoList_`, timers | subscribe, expire, exit, deliver | four parties race for one observer | `DisposableObservers` |
| Content of a clip | records, entries, properties | convert, take html apart and put it together, encode, fetch delayed entries, grant uris | a clip is changed in place on its way and goes different ways to different readers | `PasteRecord`, `PasteClip`, `WebContent`, `ClipCodec`, `ClipTransfer` |
| Client and loader | proxy, death recipient, `observerSet_`, the service's observer maps | load, death, subscribe, resubscribe, detach, exit | load answer, death notice and use race; the service restarts | `ServiceClient` |
| Bindings: calls | `delayGetter_`, workers | synchronous and asynchronous calls, getters run by the event loop | waiting thread and event loop share a worker; a thread waits for itself | `BoardApi`, `ApiCalls` |
| Bindings: pastes with progress | `isPasting_`, `remoteTask_`, `needCancel_` | paste, copy files, cancel, time out | flags shared by overlapping pastes | `ProgressPaste` |
| Bindings: handles | record ids, observer lists | add, remove, replace; on, off, destroy | one record in two clips; handles no one can take back | `DataObjects`, `ObserverHandles` |
| Permission to paste | key events, `eventMutex_` | key, focus, `VerifyPermission` | one press, several pastes | `PastePermission` |
| Screen lock, share options | `globalShareOptions_`, screen status | set, remove, check, lock, unlock | change while a paste is judged | `ClipRules` |
| Critical state | `isCritical_`, timer | raise, look again, lower | flag and memory manager set in two steps | `CriticalState` |
| Entity observers | `entityObserverMap_` | subscribe, analyse later | text analysed after the subscription changed | `EntityObservers` |
| Switch, devices, profiles | settings, device set, caches, plugin | switch, online, offline, profile update, user change, death of the profile service | one thread per callback | `DistributedSwitch` |
| Statistics | counts, durations | use, daily report | two locks | `UseReports` |
| Event center, plugin loading, marshalling, dialog, tool | – | – | – | not modelled, see 5 |

Interaction: a copy writes the store, raises the critical state, tells the
observers and starts the publishing thread. A paste passes the permission and
the rules, asks the plugin for the newest event and either reads the store or
fetches the peer's clip, which is then installed in the store like a copy; a
fetched clip with files needs the P2P link. The exit of an application goes
through all parts. The switch decides whether there is a plugin at all.

## 2. Modules

A module is a component; `MC*` modules add values for constants and symmetry,
and put components that share no state side by side; `*Proofs` modules hold the
theorems. An action is what the code does under one lock or in one map
operation: local computation is merged into it. Fields that no property tells
apart are abstracted away.

### `Clipboard` (abstract specification) and `ClipStore`
`Clipboard` has one clip per user, `board`, and the number of the last copy,
`last`. A step copies (a new clip with the next number), resolves (replaces a
*pending* clip by one that descends from an existing copy) or erases.

The threads of `ClipStore` are `Writers` (`SaveData`), `Readers`
(`GetLocalData`), `Clearers` (`ClearInner`), `Agers` (`ClearAgedData`) and
`Fetchers` (the part of `GetRemotePasteData` that installs a clip). A clip is
`[copy, delay, rec, from, remote]`: the number of the copy it descends from,
whether its content or its entries are still to be asked, and whose content it
holds. Entries are shared by all copies of a clip (`filled`), as the pointers
are in the code. Getters are named by their copy. The death of an application
sends notices to the getters that are watched at that moment; a notice may be
delivered late, and then removes whatever getter is registered, as in the code.
Permission and validity checks are the outcome `ReadFails`; a refused copy is
`SaveRefused`. The boot clock may stand still between two copies, so equal time
stamps are covered.

Refinement: `board <- clips`, `last <- installs`, where `installs` counts
insertions. The abstract `Resolve` allows a pending clip to be replaced by the
completed form of an older copy: that is what `UpdateClipOnRead` does when two
copies carry the same millisecond.

### `DistributedSync`
Outer threads that take the lock (`RegisterLatest`), the one loop, and inner
threads; an event is the number of its copy, `SeqId` its 16-bit number, by which
the loop compares events. `LoopTimesOut` is `BlockObject::GetValue` running out,
which leaves the inner thread running; a publication records whether the loop
still waited for it.

### `RemotePaste`
`GetTopEvent` / `Choose*` are `GetValidDistributeEvent` and the branches of
`GetData`; `ClaimTask`, `JoinTask`, `FindTask`, `RegisterBlock`, `Notify` and
`ClearRemoteDataTask` are the operations of `RemoteDataTaskManager`; a worker is
the detached thread of `GetRemotePasteData`. Tasks, and the comparisons with the
newest event, go by an event's key, its device and 16-bit number; the keys are
chosen freely, so that a later event may have the key of an earlier one. Local
copies matter only through the events they stamp and the clip they install
(`Local*`); `ClearInner` and `ClearAgedData` erase the clip and leave
`currentEvent_` as it is.

### `P2PLink`, `PreSyncMonitor`
The references to one device. Threads: pastes (`CheckAndReuseP2PLink`,
`EstablishP2PLinkTask`, the client's `PasteStart`/`PasteComplete`), openers,
readers of delayed entries, presync threads, expired timers, `AppExit`,
`DISCONNECT` events. `ConnectDfs` / `DisconnectDfs` are external and set
`connected`. The history variable `stranded` records that a known gap of the
code was taken: a failed presync connection that leaves an empty device
(`PreDrops`), an entry reader that connects after its reference is gone.
`PreSyncMonitor` is the monitor of user input that starts a presync.

### `DisposableObservers`
Subscriptions are numbered; at most one per process is listed. A copy takes the
whole list and tells first the observers of other windows, then the matching
ones from its delivering thread.

### `PasteRecord`, `PasteClip`, `WebContent`, `ClipCodec`, `ClipTransfer`
The first four are pure operators: records and entries in their old and new
form (`PasteDataRecord`, `PasteDataEntry`), clips (`PasteData`), html whose
pictures become records of their own and back (`PasteboardWebController`,
`PasteboardImgExtractor`), and the tag-length-value codec. A text is a sequence
of symbols; a buffer is a sequence of cells and a length counts cells.
`ClipTransfer` uses them for the way of a clip between two services and their
applications: `SetPasteData` here, publishing, fetching and installing there,
pastes on both devices, delayed entries one by one, with the clip or by a sync,
uri checks, conversion and grants. Clips replace one another meanwhile: what is
published is the snapshot that `SaveData` took (`waiting`), a getter is that of
the clip stored now, and copies of one clip share their entries (`Share`), but
not their pictures and permissions. A request is one step, since this module is
about what becomes of the content, but for `SyncDelayedData`, whose thread puts
the clip back later; the races of the same operations are in `ClipStore` and
`RemotePaste`. No reader is a file manager, and an application of the Android
container is one that may read and write everything.

### `ServiceClient`
Each client has three threads: the application's, the one of the ability
manager's notices and the one of the load answer. A service incarnation is a
number; stopping it loses the observer maps and sends death notices. The steps
of `GetPasteboardService`, `Subscribe`, `Unsubscribe`, `Resubscribe`,
`ReleaseSaListener`, `AppExit` are those between two locks or IPC calls. `lost` records which of the gaps named
in the properties a client has met.

### `BoardApi`, `ApiCalls`, `ProgressPaste`, `DataObjects`, `ObserverHandles`
`BoardApi` is a table: what each of the bindings' functions asks of the client
library, whether it waits directly, with a time limit on another thread or by
callback, and which failures it tells. `ApiCalls` runs calls of that table on an
application's event loop with the getters it has promised, `ProgressPaste` a
paste with its files and listener, `DataObjects` records and clips on a heap,
`ObserverHandles` the observers a binding keeps for callbacks; the lists of napi
and taihe are `thread_local`, and go with their thread.

### `PastePermission`, `ClipRules`, `CriticalState`, `EntityObservers`, `UseReports`
One guard or table of the service each, with the threads that use it.
`CriticalState` tells clips copied here from those fetched from a peer
(`RemoteInstalled`), which are stored without `SetCriticalTimer`.

### `DistributedSwitch`
A thread is a list of steps still to do, started by a callback of the settings,
the device manager, the device profile service, the ability manager or the
account service. `status_`, `DevProfile`'s caches, the adapter's subscriptions,
the plugin and the security level, asked until a query succeeds, are the state.
Every call of another service may fail. What a failed call leaves behind is kept
by its subject (`failed`, `deaf`, `stale`, `kept`) until the call is made again.
`inOrder` becomes false when two threads about one switch, device or plugin
overlap, or a thread writes to the cache a value that has changed since; nothing
else stops a behaviour.

## 3. Runs

| Run | Checks | Bounds |
|---|---|---|
| `clip_paste` | `NeverOlderPayload` | 2 pastes, a clear, 2 copies of every promised shape, 1 death |
| `clip_store` | `ExpiryArmed`, `BoardSpec` (refinement) | 2 writers, a reader, a clear, an ager, a fetcher; 2 copies, 2 ms, count modulo 2 |
| `clip_count` | `ZeroOnlyInitially`, violated (see 6) | count modulo 2 |
| `sync` | `NoEventStranded`, `PublishedInOrder`, `LatestHandled` | 4 copies, 1 overrun, sequence number modulo 3 |
| `remote_safety` | `OneFetchPerEvent`, `WaiterGetsItsEvent`, `SameMeansStored` | 2 pastes, 2 keys, 2 tasks; 2 events, or 1 and 1 outage |
| `remote_live` | `PasteReturns` | 2 pastes, 1 event, 2 tasks; no outage, since all it does to a paste a clear of the plugin or a failing fetch does too |
| `p2p` | `NoLinkLeft`, `RefsWatched`, `LinkReleased` | a paste, with two presync threads or one and a reader of delayed entries, 1 failure, 1 cut |
| `disposable` | `CalledAtMostOnce`, `NoneLost`, `NoneWaitsForever` | 2 processes, 3 subscriptions, a copier |
| `transfer` | `PastedAsCopied`, `ReaderMayOpen`, `EncodeFits`, `TypesAsCopied` | 10 clips, 3 applications on 2 devices, 3 versions; one copy with 4 uses, or a delayed clip replaced by a text or by another delayed one with 3 |
| `client` | `ObserversRestored`, `NoneUnwanted`, `ProxyNotStale`, `CallsReturn`, `DeadForgotten` | a client that is an application or a trusted service, 1 observer, types with one and two maps, 3 calls, 1 stop |
| `bindings` | `PromisedGetterAlive`, `WorkFreedOnce`, `CallsTold`; `ProgressHeard`, `FilesComplete`; `NumbersLeadBack`; `NoOrphans` | 2 calls of any function of the table, 1 getter run; 2 pastes, 1 signal; 3 records, 2 clips; 2 callbacks, 2 observers, 2 threads |
| `host` | `OnePressOnePaste`; `RulesObeyed`; `CriticalKnown`; `LatestObserverTold`; `MonitorEnds`; `StatusAsSet`, `PluginFollows`; `ReportsAddUp` | see `MCServiceHost.cfg` |

`bindings` and `host` hold several components that share no state: a behaviour
follows one of them, chosen in the initial state, so that each is explored
completely without the product of all.

Limits of the code are narrowed where they are reached in a run:
`MAX_RECOGNITION_LENGTH` 3 (1000), `MAX_ENTITY_OBSERVER_COUNT` 2 (10),
`TOTAL_APP_NUMBERS` 1 (10), `MAX_OBSERVER_COUNT` 2, `UPDATE_PERCENT` 20 (5) and
`UPDATE_PERCENT_WITHOUT_FILE` 40 (10), `MAX_REMOTE_FILE_MANAGER_URI_COUNT` 3 (256);
the change count has one bit and the sequence number of `sync` three values.

Why the bounds are enough: two of each racing party are what the races of these
components need (a third would repeat one of them), the counters are narrowed so
that they wrap (the fourth copy of `sync` has the number of the first, and two
events of `remote_safety` may have one key), and every failure the code handles
happens at least once. The
clips of `transfer` are chosen to take each branch: a picture twice, one the
copier may not read, one on the web, one that is missing, one without a
distributed form, a multi-type record, more documents than the limit, and delayed
records that do or do not fit. Replacement by another clip is a run of its own,
over the clips for which it matters.
The runs do not check for deadlock: the environment is bounded, so every
behaviour comes to rest. Each property has a mutant, an operator named in
`PROJECT.json` and kept beside the definition it replaces, that breaks it.

Fairness is weak fairness of single threads, in `DistributedSync`,
`RemotePaste`, `P2PLink`, `DisposableObservers`, `ServiceClient` and `ApiCalls`:
a detached thread that was started goes on, an armed timer fires, a call to
another process returns or fails (the IPC layer reports the death of the peer),
a notice of the ability manager arrives, and every wait with a time limit ends;
in `ApiCalls` also that the application's own getter returns. Nothing is assumed
of applications, of peers or of the user otherwise: copies, pastes, exits and
outages may stop at any time. `ClipStore` states no fairness: `ExpiryArmed` says
that the timer or thread that ends a clip is always there.

### What holds only with a condition, because the code does not do more
* `PublishedInOrder`: the order is that in which the threads took the lock, which
  need not be that of their copies, and it is promised of what is published within
  its interval, whatever other threads overran theirs. What an overrun thread
  publishes late can be older than what the peers have.
* `NoEventStranded`, `LatestHandled`: unless the sequence number went once round
  between the event taken last and the latest one.
* `OneFetchPerEvent`, `WaiterGetsItsEvent`: by key. A paste of an event that has
  the key of one being fetched gets that one's data.
* `SameMeansStored`: without an outage and without two workers at once; after the
  clip was cleared or aged there is none.
* `NoLinkLeft`, `LinkReleased`: unless `stranded`.
* `NoneWaitsForever`: unless the timer of the subscription, which is set before
  the subscription is listed, ran before that.
* `PastedAsCopied`: not for html that was fetched after another reader had it
  taken apart in the stored clip (`pasteboard_service.cpp:963`), clips whose html
  did not fit although its pictures did (4758), or clips that lost pictures or
  permissions when the thread of a sync put back the clip as it had read it
  (4871). Uris fetched late have on the copying device the form made for the peer,
  if the peer was first, or are emptied (943, 4608). On the peer, not for clips
  with values of another clip: a delayed entry is asked of the newest event (4677),
  and a replaced clip that an old peer needs in full is filled in by the newer
  getter (4395).
* `ReaderMayOpen`: not for uris that the copying device hands out one by one
  (943), for the clips of 963 and 4871 above, or for remote clips with document
  uris and more uris, pictures included, than the limit (2160).
* `TypesAsCopied`: not for the types of the very entries that a sync found empty
  and took away (4873).
* `ObserversRestored`: not when the service stopped between its answer and the
  client's first listening, when the listener got no proxy in time, after
  detaching, or at the limit, nor for what was subscribed before
  `ReleaseSaListener`. `NoneUnwanted`: `Unsubscribe` of all observers of
  one type clears `observerSet_` altogether (`pasteboard_client.cpp:933`), and an
  `Unsubscribe` to a stopped service does not reach its successor.
  `ProxyNotStale`: a failed registration and `ReleaseSaListener` leave the proxy
  without a death recipient. `DeadForgotten`: a `Subscribe` in flight at the death
  is kept.
* `PromisedGetterAlive`: an asynchronous set that fails or is overtaken still
  replaces `delayGetter_`. `WorkFreedOnce`: a worker whose queue refused it is
  used after it was freed, one whose entry value was returned is never freed.
* `ProgressHeard`: for pastes that neither overlap another nor are signalled, and
  not for taihe, whose listener hears nothing: its parameters are registered after
  the paste (`ohos.pasteboard.pasteboard.impl.cpp:1141`).
  `FilesComplete`: `CopyFileData` returns the result of its last copy only.
* `NumbersLeadBack`: not for records in two clips, or put in by
  `ReplaceRecordAt`. `NoOrphans`: not when the service was not there to take an
  observer back, when a C application names another type, or when the thread that
  used napi or taihe has ended, since nothing empties its lists.
* `RulesObeyed`: once the events of the screen are handled; what MDM sets between
  the two steps of `RemoveAppShareOptions` is erased.
* `CriticalKnown`: not for a clip fetched from a peer, for which nobody raises the
  state (1691); unless a thread that lowers the state overlapped another, or the
  memory manager restarted while `isCritical_` was set.
* `MonitorEnds`: two threads at once may lose a monitor of user input.
* `StatusAsSet`: nothing is claimed after two threads about one switch or device
  overlapped, or a value was put in the cache after it had changed. A failed call
  is excused for its own matter only: want of HML until the next switch of users;
  a setting that was not read, or a status that was not put (this device's udid
  unknown, or the profile service away), until the switch or the user changes; a
  device whose udid was not found until it comes or goes again; the value of a
  device whose subscription or unsubscription failed until it is unsubscribed; and
  a value in the cache that changed while the profile service was away until it
  leaves the cache or changes again.
* `PluginFollows`: not after a thread that drops the plugin and one that loads it
  overlapped. The plugin stays when the main display's user could not be resolved,
  until the next decision; and it is not loaded while the queries of the security
  level fail.

### Known hazards without a property
Seen in the code and kept in the models where they belong to one: a death notice
of a former getter erases the newer one (`pasteboard_service.cpp:366`);
`task->data_` is read without its lock (1637); `delayDataId_` and
`delayTokenId_` are an unlocked pair (1383); the recognition
of entities uses up a key press (593); the code of a wifi event is taken for a
user (5139); a clip copied while the screen status is unknown is never held back
(3171); `lastTime_` of the statistics is shared by all uses
(`calculate_time_consuming.cpp:41`); the Cangjie `SetData` answers success
whatever happened (`pasteboard_ffi.cpp:869`); `ClearUriOnUninstall` clears the
plugin's clip from a late thread (5296).

## 4. Proofs

All theorems hold for every value of the constants that satisfies the named
assumptions of the module (bounds are natural numbers, name spaces are disjoint,
the percentage grows by a positive number).
A component that a run puts beside others is proved alone, from its own initial
states and steps (`PermissionSpec` and the like); the run's behaviours follow one
component at a time, so they are among those.

| Theorem | States | Inductive invariant |
|---|---|---|
| `ClipStoreProofs!TypeCorrect` | `TypeOK` | itself |
| `ClipStoreProofs!SettingIsOwned` | `SettingOwned` | with `TypeOK`: the only step into `SaveData` needs `~setting` |
| `ClipStoreProofs!EveryClipExpires` | `ExpiryArmed` | with `TypeOK`: a timer that fires leaves an ager, an ager leaves no clip |
| `ClipStoreProofs!NoOlderPayload` | `NeverOlderPayload` | `PayloadInv`: getters that are registered, taken or about to be registered, and entries, are not older than a local clip that the board or a thread holds; rests on `SettingOwned`, since the old getters are removed before the insertion and no other copy runs between |
| `ClipStoreProofs!StoreImplementsBoard` | `Spec => BoardSpec` | `CopiesKnown`: no thread or clip names a copy that was not made; then each action maps to an abstract step or a stutter |
| `DistributedSyncProofs!NothingStranded` | `NoEventStranded` | `MemoryInv`: the loop that is about to stop has seen the latest event, or one with its number, and equal numbers are equal events or a whole lap apart |
| `DistributedSyncProofs!InOrder` | `PublishedInOrder` | `OrderInv`: what the thread the loop waits for has taken was registered after all that was published in time, and not after what was taken last by any thread; before it takes, the latest event has not been published in time |
| `RemotePasteProofs!SingleFetch`, `WaitersServed` | `OneFetchPerEvent`, `WaiterGetsItsEvent` | `TaskInv`: a running worker owns the entry of its key in `dataTasks_`, the entry of a key leads to a task of an event with that key |
| `RemotePasteProofs!BoardReliable` | `SameMeansStored` | `BoardInv` with `TaskInv`: while workers do not overlap, the one at work or the board has the clip of the current event, or the board was erased |
| `P2PLinkProofs!LinkAttended` | `NoLinkLeft` | `LinkInv` (a reference implies a listed device, a link implies a peer online) and `OpenInv` (a paste has at most one opener) |
| `P2PLinkProofs!EveryRefWatched` | `RefsWatched` | `WatchInv` |
| `DisposableObserversProofs!CalledOnce`, `NoneForgotten` | `CalledAtMostOnce`, `NoneLost` | `PlaceInv`: a subscription is in one place (thread, list, copy) at a time, and uncalled while it is |
| `ServiceClientProofs!ProxyFollowsService` | `ProxyNotStale` | `ProxyInv`: what each thread between two locks still knows of proxy, recipient and incarnation; a proxy without recipient has a failed registration or a release behind it |
| `ServiceClientProofs!OnlyWanted` | `NoneUnwanted` | `WantedInv` with `ProxyInv`: a registered observer is in `observerSet_`, or a call that takes it back is under way |
| `ServiceClientProofs!ObserversComeBack` | `ObserversRestored`, if no two types share a map | `RestoreInv` with both: what Subscribe promised is registered; or the service has stopped since and the listener will hear of the stop before the start that follows (`Due`); or its thread is about to subscribe it again at the running service (`Underway`). The last notice under way tells whether the service runs, so a proxy that is still cached when none is under way is fresh |
| `BindingsProofs!ObserversKnown` | `NoOrphans` | `HandlesInv`: what the client library has was subscribed with the type of its observer, and is listed, could not be taken back, or belonged to an ended thread |
| `BindingsProofs!FreedOnce`, `GetterLives` | `WorkFreedOnce`, `PromisedGetterAlive` | `ApiInv`: who frees a worker follows from its place in the queue and from whether a thread waits; `delayGetter_` is the getter of the clip on the board unless it was replaced |
| `BindingsProofs!NumbersAreUnique` | `NumbersLeadBack` | `ObjectsInv`: the numbers in a clip that is not loose are distinct and at most its counter |
| `BindingsProofs!FilesArrive` | `FilesComplete` | `FilesInv`: the error of a failed file is still the paste's, or a later copy has hidden it, by the place of the paste |
| `BindingsProofs!HeardToTheEnd` | `ProgressHeard` | `HeardInv` with `FilesInv`: `progressKey` leads to the paste at work, or neither of the two is alone; and what an undisturbed paste has heard is at most what its place, its value and the records it has processed let it tell |
| `ServiceHostProofs!PressUsedOnce` | `OnePressOnePaste` | `PermissionInv`: the holder of `eventMutex_` is the only paste between the wait and `Clear` |
| `ServiceHostProofs!ClipsKeptBack` | `RulesObeyed` | `RulesInv`: a clip is marked as screen and options were when it was copied, and what MDM set is still in `globalShareOptions_` |
| `ServiceHostProofs!MonitorIsEnded` | `MonitorEnds` | `MonitorInv`: a known monitor has a timer or a thread about to set it |
| `ServiceHostProofs!OnlyLatestTold` | `LatestObserverTold` | `EntityInv`: the list of a process has one entry per length, that of its last subscription |
| `ServiceHostProofs!ManagerKnows` | `CriticalKnown` | `CriticalInv`: either only raising threads, and each difference between the clips copied here, flag and manager has one on its way to end it; or one lowering thread, with what holds at the step it is at |
| `ServiceHostProofs!PluginAsStatus` | `PluginFollows` | `PluginInv`: a plugin that is there was allowed by a level that is known; and the plugin is as `status_` and the level say, but for one that was kept, or a thread that `OnConfigChange` started for this `status_` will make it so; a thread that saw another `status_` has that one beside it; and what a thread has still to do is a route (each step a possible successor of the one before) to a step that ends a thread |
| `ServiceHostProofs!StatusIsAsSet` | `StatusAsSet` | `StatusInv` with `PluginInv`: as long as no two threads about one thing overlapped, each thread is at a step of one of seven plans, with what the steps before it have made true (`UserAt`, `OnlineAt`, `OfflineAt`, `UpdateAt`), no two threads are about the same device or the switch, and what no thread is about is settled or `failed`: a device is listed if and only if it is online, and the cache contradicts no setting and no profile of a device that is not `deaf` or `stale`. `Subscriptions` and `DpHeard` carry it over the end of the device profile service: but for `deaf` devices service, adapter and client agree on what is subscribed, the last notice under way tells how the service is now, and a dead proxy has a notice of the end under way; so a change of a profile is missed only where `stale` says so |

The proof of `FilesComplete` did not go through at first: of three overlapping
pastes the third resets `needCancel_` while the first is being cancelled
(`ShouldKeepRecord`), and the model took the file the first one left out for a
failed one. The model now counts it as cancelled, which is what the code tells
the paste; two pastes, as the run has them, do not get there.

Only model-checked:
* liveness: `PasteReturns`, `LatestHandled`, `LinkReleased`, `NoneWaitsForever`,
  `CallsReturn`, `DeadForgotten`, `CallsTold` (fairness and `ENABLED` are beyond
  the prover);
* `PastedAsCopied`, `ReaderMayOpen`, `EncodeFits`, `TypesAsCopied`: what the codec
  and the html conversions compute for every input needs induction over their
  data, which is out of the prover's reach; `transfer` checks them on its clips;
* `ReportsAddUp`: a sum over sequences, which needs induction as well.

## 5. Not modelled

`components` in `PROJECT.json` names every part with its status. Left out:
* the event center: `PostEvent` and `Defer` have no caller;
* loading of plugins from libraries, marshalling of IPC arguments, conversion of
  values in the bindings, the dialog and the command line tool: no state of their
  own, the failure of a call is an outcome of the actions that make it;
* `FFRTTimer`'s own maps (a timer is modelled as its users see it), the telling
  of change observers, uninstallation of applications, several peers of one link,
  fault and radar events.

## 6. Finding

`clip_count`: `IncreaseChangeCount` (`pasteboard_service.cpp:579`) returns to 0
after `UINT32_MAX`, while `oh_pasteboard.h:390` tells applications that 0 "means
initial value or invalid value" and that "no action is required". The run
narrows the counter to one bit.
