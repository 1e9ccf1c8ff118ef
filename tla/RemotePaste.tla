---------------------------- MODULE RemotePaste ----------------------------
(***************************************************************************)
(* Pasting what a peer device copied (GetData, GetRemoteData,              *)
(* GetRemotePasteData and RemoteDataTaskManager), for one user.            *)
(*                                                                         *)
(* The plugin lists the newest event, a peer's or this device's own.  A    *)
(* reader that finds a peer's event it has not seen claims the event's     *)
(* task; the owner of the task starts a detached worker that fetches the   *)
(* data, stores it as the user's clip and wakes the readers that wait for  *)
(* the same event.  currentEvent_ remembers the event the clip belongs to: *)
(* a reader that finds it listed again takes the clip from the board.      *)
(*                                                                         *)
(* Events are numbered by their time stamps (expiration), which only the   *)
(* comparison with currentEvent_ looks at.  Tasks, and operator==, go by   *)
(* the key of an event, its device and its 16-bit sequence number.  The    *)
(* number starts again with the peer's service, so two events may have one *)
(* key.  The plugin and the peers behind it are external.                  *)
(***************************************************************************)
EXTENDS Integers, FiniteSets

CONSTANTS
  Readers,    \* IPC threads in GetData
  Tasks,      \* TaskContext objects
  Keys,       \* peers' devices and sequence numbers: deviceId + to_string(seqId)
  MaxEvents,  \* bound: events stamped
  MaxOutages  \* bound: times the network goes down

ASSUME BoundsAssumption == MaxEvents \in Nat /\ MaxOutages \in Nat
ASSUME TasksAssumption == 0 \notin Tasks

Events == 1..MaxEvents
\* A local clip whose event is not stamped (yet): newer than every event.
Fresh == MaxEvents + 1

VARIABLES
  stamped,      \* how many events were stamped
  key,          \* the key each event has if it is a peer's
  mine,         \* those stamped by this device
  pending,      \* of these, those not handed to the plugin yet
  top,          \* the newest event the plugin lists, 0 for none
  online,       \* the plugin is loaded and the network is up
  currentEvent, \* currentEvent_
  clip,         \* the event the user's clip belongs to, Fresh, or 0 for no clip
  copying,      \* a local copy is between its clip and its event
  clearing,     \* ClearInner has erased the clip and not told the plugin yet
  dataTasks,    \* dataTasks_: the task of each key, or 0
  task,         \* [event, data, blocks, woken] of each task
  worker,       \* the worker of each task: [pc, data, answered]
  rd,           \* the readers: [pc, event, task, got]
  outages,      \* history: how often the network went down
  overlap,      \* history: two workers ran at the same time
  erased        \* history: the clip was erased after it was stored last

tasks == <<dataTasks, task, worker>>
plugin == <<stamped, key, mine, pending, top, online, outages>>
board == <<clip, copying, clearing, erased>>
vars == <<plugin, currentEvent, board, tasks, rd, overlap>>

IdleReader == [pc |-> "idle", event |-> 0, task |-> 0, got |-> 0]
NewTask(e) == [event |-> e, data |-> 0, blocks |-> {}, woken |-> {}]
NoWorker == [pc |-> "none", data |-> 0, answered |-> FALSE]

Init ==
  /\ stamped = 0 /\ mine = {} /\ pending = {} /\ top = 0 /\ online = TRUE /\ outages = 0
  /\ key \in [Events -> Keys]
  /\ currentEvent = 0 /\ clip = 0 /\ copying = FALSE /\ clearing = FALSE /\ erased = FALSE
  /\ dataTasks = [s \in Keys |-> 0]
  /\ task = [k \in Tasks |-> NewTask(0)]
  /\ worker = [k \in Tasks |-> NoWorker]
  /\ rd = [r \in Readers |-> IdleReader]
  /\ overlap = FALSE

ReaderGoes(r, pc) == rd' = [rd EXCEPT ![r].pc = pc]
WorkerGoes(k, pc) == worker' = [worker EXCEPT ![k].pc = pc]
Return(r) == rd' = [rd EXCEPT ![r] = IdleReader]

-----------------------------------------------------------------------------
(* The environment: peers copy, the network comes and goes, SaveData runs and *)
(* the clip is cleared or ages.                                               *)

PeerCopies ==
  /\ stamped < MaxEvents
  /\ stamped' = stamped + 1
  /\ top' = stamped + 1
  /\ UNCHANGED <<key, mine, pending, online, outages, currentEvent, board, tasks, rd, overlap>>

\* When wifi goes, the plugin may be cleared (HandleWifiOffAndClearDistributedEvent).
NetworkGoes ==
  /\ online
  /\ outages < MaxOutages
  /\ online' = FALSE
  /\ outages' = outages + 1
  /\ top' \in {top, 0}
  /\ UNCHANGED <<stamped, key, mine, pending, currentEvent, board, tasks, rd, overlap>>

NetworkReturns ==
  /\ ~online
  /\ online' = TRUE
  /\ UNCHANGED <<stamped, key, mine, pending, top, outages, currentEvent, board, tasks, rd,
                 overlap>>

\* SaveData stores its clip ...
LocalInsert ==
  /\ ~copying
  /\ clip' = Fresh
  /\ copying' = TRUE
  /\ erased' = FALSE
  /\ UNCHANGED <<plugin, currentEvent, clearing, tasks, rd, overlap>>

\* ... and SetDistributedData stamps its event and makes it the current one,
LocalStamp ==
  /\ copying
  /\ stamped < MaxEvents
  /\ stamped' = stamped + 1
  /\ mine' = mine \cup {stamped + 1}
  /\ pending' = pending \cup {stamped + 1}
  /\ currentEvent' = stamped + 1
  /\ clip' = IF clip = Fresh THEN stamped + 1 ELSE clip
  /\ copying' = FALSE
  /\ UNCHANGED <<key, top, online, outages, clearing, erased, tasks, rd, overlap>>

\* unless the clip is delayed.
LocalDelayed ==
  /\ copying
  /\ copying' = FALSE
  /\ UNCHANGED <<plugin, currentEvent, clip, clearing, erased, tasks, rd, overlap>>

\* DistributedSync hands the event to the plugin some time later.
LocalPublished(e) ==
  /\ e \in pending
  /\ pending' = pending \ {e}
  /\ top' = IF e > top THEN e ELSE top
  /\ UNCHANGED <<stamped, key, mine, online, outages, currentEvent, board, tasks, rd, overlap>>

\* The clip is erased; currentEvent_ stays.
EraseClip ==
  /\ clip' = 0
  /\ erased' = TRUE

\* ClearInner erases the clip ...
ClearInner ==
  /\ ~clearing
  /\ clearing' = TRUE
  /\ IF clip = 0 THEN UNCHANGED <<clip, erased>> ELSE EraseClip
  /\ UNCHANGED <<plugin, currentEvent, copying, tasks, rd, overlap>>

\* ... and has the plugin cleared, if there is one and the user is on the main
\* display.
CleanDistributedData ==
  /\ clearing
  /\ clearing' = FALSE
  /\ top' \in {top, 0}
  /\ UNCHANGED <<stamped, key, mine, pending, online, outages, currentEvent, clip, copying,
                 erased, tasks, rd, overlap>>

\* ClearAgedData erases the clip alone: the plugin goes on listing its event.
ClearAgedData ==
  /\ clip # 0
  /\ EraseClip
  /\ UNCHANGED <<plugin, currentEvent, copying, clearing, tasks, rd, overlap>>

-----------------------------------------------------------------------------
(* GetValidDistributeEvent *)

Listed == IF online THEN top ELSE 0

\* The event is a peer's and not older than the current one.
Foreign(e) == e # 0 /\ e \notin mine /\ e >= currentEvent
\* E_OK: it is one that was not fetched yet.  Account, device, status and
\* expiration may still refuse it; then the caller takes the local clip.
Valid(e) == Foreign(e) /\ e # currentEvent
\* GET_SAME_REMOTE_DATA.
Same(e) == Foreign(e) /\ e = currentEvent

\* GlobalEvent::operator==, which leaves the time stamp out.
SameKey(d, e) ==
  /\ d \in Events /\ e \in Events
  /\ d = e \/ ({d, e} \cap mine = {} /\ key[d] = key[e])

\* The task listed under the key of a peer's event.
TaskOf(e) == dataTasks[key[e]]

-----------------------------------------------------------------------------
(* GetData and GetRemoteData *)

\* The plugin is asked for the newest event ...
GetTopEvent(r) ==
  /\ rd[r].pc = "idle"
  /\ rd' = [rd EXCEPT ![r] = [pc |-> "judge", event |-> Listed, task |-> 0, got |-> 0]]
  /\ UNCHANGED <<plugin, currentEvent, board, tasks, overlap>>

\* ... which is then compared with currentEvent_.
ChooseRemote(r) ==
  /\ rd[r].pc = "judge"
  /\ Valid(rd[r].event)
  /\ ReaderGoes(r, "task")
  /\ UNCHANGED <<plugin, currentEvent, board, tasks, overlap>>

ChooseSame(r) ==
  /\ rd[r].pc = "judge"
  /\ Same(rd[r].event)
  /\ ReaderGoes(r, "ask")
  /\ UNCHANGED <<plugin, currentEvent, board, tasks, overlap>>

\* GetLocalData, which ClipStore models, ends the paste in every other case.
ChooseLocal(r) ==
  /\ rd[r].pc = "judge"
  /\ Return(r)
  /\ UNCHANGED <<plugin, currentEvent, board, tasks, overlap>>

IsRemoteDataPasting(r) ==
  /\ rd[r].pc = "ask"
  /\ IF TaskOf(rd[r].event) = 0 THEN Return(r) ELSE ReaderGoes(r, "find")
  /\ UNCHANGED <<plugin, currentEvent, board, tasks, overlap>>

Running(k) == worker[k].pc \notin {"none", "ended"}

\* Nothing refers to the task object: it can be allocated.
Free(k) ==
  /\ ~Running(k)
  /\ \A s \in Keys : dataTasks[s] # k
  /\ \A r \in Readers : rd[r].task # k

\* GetRemoteDataTask: whoever creates the task sets pasting_ and owns it.
ClaimTask(r, k) ==
  LET e == rd[r].event IN
  /\ rd[r].pc = "task"
  /\ TaskOf(e) = 0
  /\ Free(k)
  /\ dataTasks' = [dataTasks EXCEPT ![key[e]] = k]
  /\ task' = [task EXCEPT ![k] = NewTask(e)]
  /\ worker' = [worker EXCEPT ![k] = NoWorker]
  /\ rd' = [rd EXCEPT ![r].pc = "recheck", ![r].task = k]
  /\ UNCHANGED <<plugin, currentEvent, board, overlap>>

JoinTask(r) ==
  /\ rd[r].pc = "task"
  /\ TaskOf(rd[r].event) # 0
  /\ ReaderGoes(r, "find")
  /\ UNCHANGED <<plugin, currentEvent, board, tasks, overlap>>

\* The owner asks for the newest event again and starts the worker if it is
\* still the one it claimed, by its key ...
StartWorker(r) ==
  /\ rd[r].pc = "recheck"
  /\ SameKey(Listed, rd[r].event) /\ Valid(Listed)
  /\ worker' = [worker EXCEPT ![rd[r].task].pc = "fetch"]
  /\ overlap' = (overlap \/ \E k \in Tasks : Running(k))
  /\ ReaderGoes(r, "await")
  /\ UNCHANGED <<plugin, currentEvent, board, dataTasks, task>>

\* ... or gives the task up, and returns the clip on the board if there is one.
GiveUp(r) ==
  /\ rd[r].pc = "recheck"
  /\ dataTasks' = [dataTasks EXCEPT ![key[rd[r].event]] = 0]
  /\ Return(r)
  /\ UNCHANGED <<plugin, currentEvent, board, task, worker, overlap>>

\* The owner waits for its worker.  Data that exceeds the capacity makes it fall
\* back on GetLocalData.
TakeAnswer(r) ==
  /\ rd[r].pc = "await"
  /\ worker[rd[r].task].answered
  /\ Return(r)
  /\ UNCHANGED <<plugin, currentEvent, board, tasks, overlap>>

\* Mutant: an owner that ran out of time drops the task of its worker.
AwaitTimeoutClears(r) ==
  /\ rd[r].pc = "await"
  /\ Return(r)
  /\ dataTasks' = [dataTasks EXCEPT ![key[rd[r].event]] = 0]
  /\ UNCHANGED <<plugin, currentEvent, board, task, worker, overlap>>

\* GET_REMOTE_DATA_WAIT_TIME is over; the worker goes on.
AwaitTimeout(r) ==
  /\ rd[r].pc = "await"
  /\ Return(r)
  /\ UNCHANGED <<plugin, currentEvent, board, tasks, overlap>>

-----------------------------------------------------------------------------
(* WaitRemoteData *)

FindTask(r) ==
  LET k == TaskOf(rd[r].event) IN
  /\ rd[r].pc = "find"
  /\ rd' = [rd EXCEPT ![r].pc = IF k = 0 THEN "return" ELSE "register", ![r].task = k]
  /\ UNCHANGED <<plugin, currentEvent, board, tasks, overlap>>

RegisterBlock(r) ==
  /\ rd[r].pc = "register"
  /\ task' = [task EXCEPT ![rd[r].task].blocks = @ \cup {r}]
  /\ ReaderGoes(r, "block")
  /\ UNCHANGED <<plugin, currentEvent, board, dataTasks, worker, overlap>>

Unblocked(r) ==
  /\ task' = [task EXCEPT ![rd[r].task].blocks = @ \ {r}, ![rd[r].task].woken = @ \ {r}]
  /\ rd' = [rd EXCEPT ![r].pc = "return", ![r].got = task[rd[r].task].data]
  /\ UNCHANGED <<plugin, currentEvent, board, dataTasks, worker, overlap>>

BlockWoken(r) ==
  /\ rd[r].pc = "block"
  /\ r \in task[rd[r].task].woken
  /\ Unblocked(r)

\* Mutant: the wait has no time limit.
BlockPatient(r) == BlockWoken(r)

\* The wait has a time limit.
BlockTimeout(r) ==
  /\ rd[r].pc = "block"
  /\ r \notin task[rd[r].task].woken
  /\ Unblocked(r)

\* A reader that came here for the same event goes on to GetLocalData; another
\* returns the data of the task, or TASK_PROCESSING without one.
ReturnWaited(r) ==
  /\ rd[r].pc = "return"
  /\ Return(r)
  /\ UNCHANGED <<plugin, currentEvent, board, tasks, overlap>>

-----------------------------------------------------------------------------
(* The worker of task k *)

\* GetDistributedData: on success the event becomes the current one.
FetchSucceeds(k) ==
  /\ worker[k].pc = "fetch"
  /\ worker' = [worker EXCEPT ![k].pc = "check", ![k].data = task[k].event]
  /\ currentEvent' = task[k].event
  /\ UNCHANGED <<plugin, board, dataTasks, task, rd, overlap>>

FetchFails(k) ==
  /\ worker[k].pc = "fetch"
  /\ WorkerGoes(k, "notify")
  /\ UNCHANGED <<plugin, currentEvent, board, dataTasks, task, rd, overlap>>

\* Mutant: the worker stores only data of an event that still counts as new.
CheckStillNew(k) ==
  /\ worker[k].pc = "check"
  /\ WorkerGoes(k, IF SameKey(Listed, task[k].event) /\ Valid(Listed) THEN "store" ELSE "notify")
  /\ UNCHANGED <<plugin, currentEvent, board, dataTasks, task, rd, overlap>>

\* The data is stored only if its event is still the newest, by its key.
CheckNewest(k) ==
  /\ worker[k].pc = "check"
  /\ WorkerGoes(k, IF SameKey(Listed, task[k].event) THEN "store" ELSE "notify")
  /\ UNCHANGED <<plugin, currentEvent, board, dataTasks, task, rd, overlap>>

StoreClip(k) ==
  /\ worker[k].pc = "store"
  /\ clip' = worker[k].data
  /\ erased' = FALSE
  /\ WorkerGoes(k, "notify")
  /\ UNCHANGED <<plugin, currentEvent, copying, clearing, dataTasks, task, rd, overlap>>

\* Mutant: Notify looks up the task of the current event.
NotifyCurrent(k) ==
  LET n == IF currentEvent = 0 THEN 0 ELSE TaskOf(currentEvent) IN
  /\ worker[k].pc = "notify"
  /\ task' = IF n = 0 THEN task
             ELSE [task EXCEPT ![n].data = worker[k].data, ![n].woken = task[n].blocks]
  /\ WorkerGoes(k, "answer")
  /\ UNCHANGED <<plugin, currentEvent, board, dataTasks, rd, overlap>>

\* Notify looks the task up by its key, sets the data and wakes the blocks
\* that are registered by now.
Notify(k) ==
  LET n == TaskOf(task[k].event) IN
  /\ worker[k].pc = "notify"
  /\ task' = IF n = 0 THEN task
             ELSE [task EXCEPT ![n].data = worker[k].data, ![n].woken = task[n].blocks]
  /\ WorkerGoes(k, "answer")
  /\ UNCHANGED <<plugin, currentEvent, board, dataTasks, rd, overlap>>

AnswerOwner(k) ==
  /\ worker[k].pc = "answer"
  /\ worker' = [worker EXCEPT ![k].pc = "clear", ![k].answered = TRUE]
  /\ UNCHANGED <<plugin, currentEvent, board, dataTasks, task, rd, overlap>>

ClearRemoteDataTask(k) ==
  /\ worker[k].pc = "clear"
  /\ dataTasks' = [dataTasks EXCEPT ![key[task[k].event]] = 0]
  /\ WorkerGoes(k, "ended")
  /\ UNCHANGED <<plugin, currentEvent, board, task, rd, overlap>>

-----------------------------------------------------------------------------
Environment ==
  \/ PeerCopies \/ NetworkGoes \/ NetworkReturns
  \/ LocalInsert \/ LocalStamp \/ LocalDelayed
  \/ \E e \in pending : LocalPublished(e)
  \/ ClearInner \/ CleanDistributedData \/ ClearAgedData

ReaderStep(r) ==
  \/ ChooseRemote(r) \/ ChooseSame(r) \/ ChooseLocal(r) \/ IsRemoteDataPasting(r)
  \/ \E k \in Tasks : ClaimTask(r, k)
  \/ JoinTask(r) \/ StartWorker(r) \/ GiveUp(r)
  \/ TakeAnswer(r) \/ AwaitTimeout(r)
  \/ FindTask(r) \/ RegisterBlock(r) \/ BlockWoken(r) \/ BlockTimeout(r) \/ ReturnWaited(r)

WorkerStep(k) ==
  \/ FetchSucceeds(k) \/ FetchFails(k) \/ CheckNewest(k) \/ StoreClip(k)
  \/ Notify(k) \/ AnswerOwner(k) \/ ClearRemoteDataTask(k)

Next ==
  \/ Environment
  \/ \E r \in Readers : GetTopEvent(r) \/ ReaderStep(r)
  \/ \E k \in Tasks : WorkerStep(k)

Spec == Init /\ [][Next]_vars

\* Every wait has a time limit and every thread that was started goes on; the
\* plugin answers or fails each call.
Fairness ==
  /\ \A r \in Readers : WF_vars(ReaderStep(r))
  /\ \A k \in Tasks : WF_vars(WorkerStep(k))

FairSpec == Spec /\ Fairness

-----------------------------------------------------------------------------
(* Properties *)

ReaderPCs ==
  {"idle", "judge", "ask", "task", "recheck", "await", "find", "register",
   "block", "return"}
WorkerPCs == {"none", "fetch", "check", "store", "notify", "answer", "clear", "ended"}
MaybeEvent == 0..MaxEvents
MaybeTask == Tasks \cup {0}

\* Every variable has the shape the code gives it.
TypeOK ==
  /\ stamped \in MaybeEvent /\ top \in MaybeEvent /\ key \in [Events -> Keys]
  /\ mine \subseteq Events /\ pending \subseteq mine
  /\ online \in BOOLEAN /\ outages \in 0..MaxOutages /\ overlap \in BOOLEAN
  /\ copying \in BOOLEAN /\ clearing \in BOOLEAN /\ erased \in BOOLEAN
  /\ currentEvent \in MaybeEvent /\ clip \in 0..Fresh
  /\ dataTasks \in [Keys -> MaybeTask]
  /\ task \in [Tasks -> [event : MaybeEvent, data : MaybeEvent,
                         blocks : SUBSET Readers, woken : SUBSET Readers]]
  /\ worker \in [Tasks -> [pc : WorkerPCs, data : MaybeEvent, answered : BOOLEAN]]
  /\ rd \in [Readers -> [pc : ReaderPCs, event : MaybeEvent, task : MaybeTask, got : MaybeEvent]]

\* However many pastes want the same event at once, and however many of them run
\* out of time, at most one worker fetches it, or another event with its key, at a
\* time.
OneFetchPerEvent ==
  \A j, k \in Tasks :
    Running(j) /\ Running(k) /\ key[task[j].event] = key[task[k].event] => j = k

\* A paste that waited for another one's worker gets the data of the event it
\* asked for, or none: never that of an event with another key.  (The key is all
\* the task manager compares.  A peer whose service started again, or whose number
\* came round, gives a later event the key of an earlier one; a paste that joins
\* the fetch of the earlier one then gets that one's data.)
WaiterGetsItsEvent ==
  \A r \in Readers :
    rd[r].pc = "return" /\ rd[r].got # 0 => key[rd[r].got] = key[rd[r].event]

\* A reader that finds the newest event to be the current one, with no task for
\* it, may rely on the board: the clip there is that event's or a newer local
\* one, unless it was cleared or aged, which leaves currentEvent_ as it was.  (Two
\* workers at once, or an outage between the fetch and the store, can leave an
\* older clip there.)
SameMeansStored ==
  Same(top) /\ TaskOf(top) = 0 /\ outages = 0 /\ ~overlap =>
    clip >= top \/ (erased /\ clip = 0)

\* Every paste returns, also when it registers its block after the wake-up.
PasteReturns == \A r \in Readers : rd[r].pc # "idle" ~> rd[r].pc = "idle"
=============================================================================
