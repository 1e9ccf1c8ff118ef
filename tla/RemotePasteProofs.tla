------------------------- MODULE RemotePasteProofs -------------------------
(***************************************************************************)
(* OneFetchPerEvent, WaiterGetsItsEvent and SameMeansStored, for any       *)
(* number of readers, tasks, events and keys, however the events share the *)
(* keys.  All rest on who may refer to a task object: while an owner       *)
(* rechecks or a worker runs, the map leads from the key of its event to   *)
(* that task and to no other, so that the lookups by key (Notify and       *)
(* ClearRemoteDataTask) reach the worker's own task.  SameMeansStored adds *)
(* what currentEvent_ says of the board.                                   *)
(***************************************************************************)
EXTENDS RemotePaste, TLAPS

Task == [event : MaybeEvent, data : MaybeEvent, blocks : SUBSET Readers, woken : SUBSET Readers]
Worker == [pc : WorkerPCs, data : MaybeEvent, answered : BOOLEAN]
Reader == [pc : ReaderPCs, event : MaybeEvent, task : MaybeTask, got : MaybeEvent]

\* The part of TypeOK that the argument needs.
TasksTyped ==
  /\ dataTasks \in [Keys -> MaybeTask] /\ key \in [Events -> Keys]
  /\ task \in [Tasks -> Task]
  /\ worker \in [Tasks -> Worker]
  /\ rd \in [Readers -> Reader]
  /\ stamped \in MaybeEvent /\ top \in MaybeEvent
  /\ mine \subseteq Events /\ pending \subseteq mine

\* A running worker's task is the one listed for the key of its event.
WorkerListed ==
  \A k \in Tasks : Running(k) =>
    task[k].event \in Events /\ TaskOf(task[k].event) = k

\* So is the task of an owner that has not started its worker yet.
OwnerListed ==
  \A r \in Readers : rd[r].pc = "recheck" =>
    /\ rd[r].task \in Tasks
    /\ rd[r].event \in Events
    /\ TaskOf(rd[r].event) = rd[r].task
    /\ task[rd[r].task].event = rd[r].event
    /\ worker[rd[r].task].pc = "none"

\* A task has one owner.
OwnerAlone ==
  \A q, r \in Readers :
    rd[q].pc = "recheck" /\ rd[r].pc = "recheck" /\ rd[q].task = rd[r].task => q = r

\* A listed task is listed for the key of its own event.
ListedRight ==
  \A s \in Keys : dataTasks[s] # 0 =>
    task[dataTasks[s]].event \in Events /\ key[task[dataTasks[s]].event] = s

\* Past the choice a reader has an event.
ReaderHasEvent ==
  \A r \in Readers : rd[r].pc \notin {"idle", "judge"} => rd[r].event \in Events

\* d is an event with the key of e.
Keyed(d, e) == d \in Events /\ key[d] = key[e]
\* Data with the key of e, or none.
KeyedData(d, e) == d = 0 \/ Keyed(d, e)

\* A waiting reader's task has the key of the event it waits for.
WaiterRight ==
  \A r \in Readers : rd[r].pc \in {"register", "block"} =>
    rd[r].task \in Tasks /\ Keyed(task[rd[r].task].event, rd[r].event)

\* Tasks and workers carry data of their own event only.
DataRight ==
  \A k \in Tasks :
    task[k].data \in {0, task[k].event} /\ worker[k].data \in {0, task[k].event}

\* What a reader got has the key of the event it asked for.
GotRight == \A r \in Readers : KeyedData(rd[r].got, rd[r].event)

TaskInv ==
  /\ TasksTyped /\ WorkerListed /\ OwnerListed /\ OwnerAlone /\ ListedRight
  /\ ReaderHasEvent /\ WaiterRight /\ DataRight /\ GotRight

\* The invariant holds initially.
LEMMA TaskInit == Init => TaskInv
<1> SUFFICES ASSUME Init PROVE TaskInv
  OBVIOUS
<1> USE BoundsAssumption DEF Init, IdleReader, NewTask, NoWorker
<1>1. TasksTyped
  BY DEF TasksTyped, Task, Worker, Reader, MaybeTask, MaybeEvent, WorkerPCs, ReaderPCs
<1>2. WorkerListed /\ DataRight
  BY DEF WorkerListed, DataRight, Running
<1>3. OwnerListed /\ OwnerAlone /\ ReaderHasEvent /\ WaiterRight /\ GotRight
  BY DEF OwnerListed, OwnerAlone, ReaderHasEvent, WaiterRight, GotRight,
     KeyedData
<1>4. ListedRight
  BY DEF ListedRight
<1> QED
  BY <1>1, <1>2, <1>3, <1>4 DEF TaskInv

\* Steps outside the tasks and the readers do not concern it.
LEMMA TaskFrame ==
  ASSUME TaskInv, UNCHANGED <<tasks, rd>>,
         stamped' \in MaybeEvent, top' \in MaybeEvent, UNCHANGED key,
         mine' \subseteq Events, pending' \subseteq mine'
  PROVE  TaskInv'
BY DEF TaskInv, TasksTyped, WorkerListed, OwnerListed, OwnerAlone, ListedRight, ReaderHasEvent,
       WaiterRight, DataRight, GotRight, tasks, Running, Task, Worker, Reader, TaskOf, Keyed,
       KeyedData

\* A reader that neither owns nor waits may move on alone.
LEMMA ReaderFrame ==
  ASSUME TaskInv, UNCHANGED <<tasks, plugin>>, NEW r \in Readers, NEW x \in Reader,
         rd' = [rd EXCEPT ![r] = x],
         x.pc # "recheck",
         x.pc \notin {"idle", "judge"} => x.event \in Events,
         x.pc \in {"register", "block"} => x.task \in Tasks /\ Keyed(task[x.task].event, x.event),
         KeyedData(x.got, x.event)
  PROVE  TaskInv'
<1>1. rd' \in [Readers -> Reader] /\ \A q \in Readers : rd'[q] = IF q = r THEN x ELSE rd[q]
  BY DEF TaskInv, TasksTyped
<1>2. TasksTyped' /\ WorkerListed' /\ ListedRight' /\ DataRight'
  BY <1>1 DEF TaskInv, TasksTyped, WorkerListed, ListedRight, DataRight, tasks, plugin,
              Running, TaskOf
<1>3. OwnerListed' /\ OwnerAlone'
  BY <1>1 DEF TaskInv, OwnerListed, OwnerAlone, tasks, plugin, TaskOf
<1>4. ReaderHasEvent' /\ WaiterRight' /\ GotRight'
  BY <1>1 DEF TaskInv, ReaderHasEvent, WaiterRight, GotRight, tasks, plugin, Keyed, KeyedData
<1> QED
  BY <1>2, <1>3, <1>4 DEF TaskInv

\* The environment keeps the invariant.
LEMMA EnvironmentStep == TaskInv /\ Environment => TaskInv'
<1> SUFFICES ASSUME TaskInv, Environment PROVE TaskInv'
  OBVIOUS
<1> DEFINE Typed == /\ stamped \in 0..MaxEvents /\ top \in 0..MaxEvents
                    /\ mine \subseteq Events /\ pending \subseteq mine
<1>1. Typed
  BY DEF TaskInv, TasksTyped, MaybeEvent
<1>2. Typed' /\ UNCHANGED key
  <2>1. CASE PeerCopies
    BY <1>1, <2>1, BoundsAssumption DEF PeerCopies
  <2>2. CASE LocalStamp
    BY <1>1, <2>2, BoundsAssumption DEF LocalStamp, Events
  <2>3. ASSUME NEW e \in pending, LocalPublished(e) PROVE Typed' /\ UNCHANGED key
    BY <1>1, <2>3, BoundsAssumption DEF LocalPublished, Events
  <2>4. CASE NetworkReturns \/ LocalInsert \/ LocalDelayed \/ ClearInner \/ ClearAgedData
    BY <1>1, <2>4 DEF NetworkReturns, LocalInsert, LocalDelayed, ClearInner, ClearAgedData, plugin
  <2>5. CASE NetworkGoes \/ CleanDistributedData
    BY <1>1, <2>5, BoundsAssumption DEF NetworkGoes, CleanDistributedData
  <2> QED
    BY <2>1, <2>2, <2>3, <2>4, <2>5 DEF Environment
<1>3. UNCHANGED <<tasks, rd>>
  BY DEF Environment, PeerCopies, NetworkGoes, NetworkReturns, LocalInsert, LocalStamp,
     LocalDelayed, LocalPublished, ClearInner, CleanDistributedData, ClearAgedData
<1> QED
  BY <1>2, <1>3, TaskFrame DEF MaybeEvent

\* So do the steps of a reader that leave the tasks alone.
LEMMA LookingStep ==
  ASSUME TaskInv, NEW r \in Readers,
         \/ GetTopEvent(r) \/ ChooseRemote(r) \/ ChooseSame(r) \/ ChooseLocal(r)
         \/ IsRemoteDataPasting(r) \/ JoinTask(r) \/ TakeAnswer(r) \/ AwaitTimeout(r)
         \/ FindTask(r) \/ ReturnWaited(r)
  PROVE  TaskInv'
<1> USE BoundsAssumption
<1>t. /\ rd \in [Readers -> Reader] /\ rd[r] \in Reader
      /\ top \in MaybeEvent
      /\ dataTasks \in [Keys -> MaybeTask] /\ key \in [Events -> Keys]
  BY DEF TaskInv, TasksTyped
<1>e. rd[r].pc \notin {"idle", "judge"} => rd[r].event \in Events
  BY DEF TaskInv, ReaderHasEvent
<1>g. KeyedData(rd[r].got, rd[r].event)
  BY DEF TaskInv, GotRight
<1>0. CASE Return(r) /\ UNCHANGED <<tasks, plugin>>
  <2>1. IdleReader \in Reader
    BY DEF IdleReader, Reader, ReaderPCs, MaybeEvent, MaybeTask
  <2> QED
    BY <1>0, <2>1, ReaderFrame DEF Return, IdleReader, KeyedData
<1>1. CASE GetTopEvent(r)
  <2> DEFINE x == [pc |-> "judge", event |-> Listed, task |-> 0, got |-> 0]
  <2>0. Listed \in MaybeEvent
    BY <1>t DEF Listed, MaybeEvent
  <2>1. x \in Reader /\ x.pc = "judge" /\ x.got = 0
    BY <2>0 DEF Reader, ReaderPCs, MaybeEvent, MaybeTask
  <2>2. rd' = [rd EXCEPT ![r] = x] /\ UNCHANGED <<tasks, plugin>>
    BY <1>1 DEF GetTopEvent
  <2> QED
    BY <2>1, <2>2, ReaderFrame DEF KeyedData
<1>2. CASE \E pc \in {"task", "ask", "find"} :
             ReaderGoes(r, pc) /\ rd[r].event \in Events /\ UNCHANGED <<tasks, plugin>>
  <2>1. PICK pc \in {"task", "ask", "find"} : ReaderGoes(r, pc)
    BY <1>2
  <2> DEFINE x == [rd[r] EXCEPT !.pc = pc]
  <2>2. x \in Reader /\ x.pc = pc /\ x.event = rd[r].event /\ x.got = rd[r].got
    BY <1>t DEF Reader, ReaderPCs
  <2>3. rd' = [rd EXCEPT ![r] = x]
    BY <1>t, <2>1 DEF ReaderGoes
  <2> QED
    BY <1>g, <1>2, <2>2, <2>3, ReaderFrame
<1>3. CASE FindTask(r)
  <2> DEFINE k == TaskOf(rd[r].event)
             x == [rd[r] EXCEPT !.pc = IF k = 0 THEN "return" ELSE "register", !.task = k]
  <2>1. rd[r].pc = "find" /\ rd[r].event \in Events /\ k \in MaybeTask
    BY <1>3, <1>e, <1>t DEF FindTask, TaskOf
  <2>2. x \in Reader /\ x.event = rd[r].event /\ x.task = k /\ x.got = rd[r].got
    BY <1>t, <2>1 DEF Reader, ReaderPCs
  <2>3. rd' = [rd EXCEPT ![r] = x] /\ UNCHANGED <<tasks, plugin>>
    BY <1>t, <1>3 DEF FindTask
  <2>4. x.pc = IF k = 0 THEN "return" ELSE "register"
    BY <1>t DEF Reader
  <2>5. k # 0 => k \in Tasks /\ Keyed(task[k].event, rd[r].event)
    BY <1>t, <2>1 DEF TaskInv, ListedRight, MaybeTask, TaskOf, Keyed
  <2>6. x.pc \in {"register", "block"} => x.task \in Tasks /\ Keyed(task[x.task].event, x.event)
    BY <2>2, <2>4, <2>5
  <2>7. x.pc # "recheck" /\ x.event \in Events /\ KeyedData(x.got, x.event)
    BY <1>g, <2>1, <2>2, <2>4
  <2> HIDE DEF x
  <2> QED
    BY <2>2, <2>3, <2>6, <2>7, ReaderFrame
<1> QED
  BY <1>0, <1>1, <1>2, <1>3, <1>e, <1>t DEF GetTopEvent, ChooseRemote, ChooseSame, ChooseLocal,
     IsRemoteDataPasting, JoinTask, TakeAnswer, AwaitTimeout, FindTask, ReturnWaited,
     Valid, Same, Foreign, Events, MaybeEvent, Reader

\* A reader that claims a task becomes its only owner: nobody referred to it.
LEMMA ClaimStep ==
  ASSUME TaskInv, NEW r \in Readers, NEW k \in Tasks, ClaimTask(r, k)
  PROVE  TaskInv'
<1> DEFINE e == rd[r].event
           x == [rd[r] EXCEPT !.pc = "recheck", !.task = k]
<1>t. TasksTyped
  BY DEF TaskInv
<1>1. /\ rd[r].pc = "task" /\ e \in Events /\ KeyedData(rd[r].got, e)
      /\ ~Running(k) /\ \A q \in Readers : rd[q].task # k
  BY DEF ClaimTask, Free, TaskInv, ReaderHasEvent, GotRight
<1>s. PICK s \in Keys : s = key[e]
  BY <1>t, <1>1 DEF TasksTyped
<1>m. dataTasks[s] = 0 /\ \A d \in Keys : dataTasks[d] # k
  BY <1>s DEF ClaimTask, Free, TaskOf
<1>2. x \in Reader /\ x.pc = "recheck" /\ x.task = k /\ x.event = e /\ x.got = rd[r].got
  BY <1>t DEF TasksTyped, Reader, ReaderPCs, MaybeTask
<1>3. NewTask(e) \in Task /\ NewTask(e).event = e /\ NewTask(e).data = 0
  BY <1>1, BoundsAssumption DEF NewTask, Task, MaybeEvent, Events
<1>4. NoWorker \in Worker /\ NoWorker.pc = "none" /\ NoWorker.data = 0
  BY BoundsAssumption DEF NoWorker, Worker, WorkerPCs, MaybeEvent
<1>5. /\ dataTasks' = [dataTasks EXCEPT ![s] = k]
      /\ task' = [task EXCEPT ![k] = NewTask(e)]
      /\ worker' = [worker EXCEPT ![k] = NoWorker]
      /\ rd' = [rd EXCEPT ![r] = x]
      /\ UNCHANGED plugin /\ UNCHANGED key
  BY <1>t, <1>s DEF ClaimTask, TasksTyped, plugin
<1> HIDE DEF x, e
<1>6. TasksTyped'
  BY <1>t, <1>1, <1>2, <1>3, <1>4, <1>5 DEF TasksTyped, MaybeTask, plugin
<1>7. \A j \in Tasks \ {k} : task'[j] = task[j] /\ worker'[j] = worker[j]
  BY <1>t, <1>5 DEF TasksTyped
<1>8. task'[k] = NewTask(e) /\ worker'[k] = NoWorker /\ dataTasks'[s] = k /\ rd'[r] = x
  BY <1>t, <1>1, <1>5 DEF TasksTyped
<1>9. \A d \in Keys \ {s} : dataTasks'[d] = dataTasks[d]
  BY <1>t, <1>5 DEF TasksTyped
<1>9a. \A d \in Events : key[d] \in Keys
  BY <1>t DEF TasksTyped
<1>10. \A q \in Readers \ {r} : rd'[q] = rd[q]
  BY <1>t, <1>5 DEF TasksTyped
<1>11. WorkerListed'
  BY <1>1, <1>m, <1>4, <1>5, <1>7, <1>8, <1>9, <1>9a, TasksAssumption
     DEF TaskInv, WorkerListed, Running, TaskOf
<1>12. OwnerListed'
  BY <1>1, <1>s, <1>m, <1>2, <1>3, <1>4, <1>5, <1>7, <1>8, <1>9, <1>9a, <1>10, TasksAssumption
     DEF TaskInv, OwnerListed, TaskOf
<1>13. OwnerAlone'
  BY <1>1, <1>2, <1>8, <1>10 DEF TaskInv, OwnerAlone
<1>14. ListedRight'
  <2> SUFFICES ASSUME NEW d \in Keys, dataTasks'[d] # 0
               PROVE  /\ task'[dataTasks'[d]].event \in Events
                      /\ key[task'[dataTasks'[d]].event] = d
    BY <1>5 DEF ListedRight
  <2>1. CASE d = s
    BY <2>1, <1>1, <1>s, <1>3, <1>8
  <2>2. CASE d # s
    BY <2>2, <1>t, <1>m, <1>7, <1>9 DEF TaskInv, ListedRight, TasksTyped, MaybeTask
  <2> QED
    BY <2>1, <2>2
<1>15. ReaderHasEvent' /\ WaiterRight' /\ GotRight'
  BY <1>1, <1>2, <1>5, <1>7, <1>8, <1>10
     DEF TaskInv, ReaderHasEvent, WaiterRight, GotRight, Keyed, KeyedData
<1>16. DataRight'
  BY <1>3, <1>4, <1>7, <1>8 DEF TaskInv, DataRight
<1> QED
  BY <1>6, <1>11, <1>12, <1>13, <1>14, <1>15, <1>16 DEF TaskInv

\* An owner that gives up takes away its own task only.
LEMMA GiveUpStep ==
  ASSUME TaskInv, NEW r \in Readers, GiveUp(r)
  PROVE  TaskInv'
<1> DEFINE e == rd[r].event
<1>t. TasksTyped /\ \A d \in Events : key[d] \in Keys
  BY DEF TaskInv, TasksTyped
<1>1. /\ rd[r].pc = "recheck" /\ e \in Events /\ rd[r].task \in Tasks
      /\ TaskOf(e) = rd[r].task /\ worker[rd[r].task].pc = "none"
  BY DEF GiveUp, TaskInv, OwnerListed
<1>s. PICK s \in Keys : s = key[e]
  BY <1>t, <1>1
<1>2. /\ dataTasks' = [dataTasks EXCEPT ![s] = 0]
      /\ rd' = [rd EXCEPT ![r] = IdleReader]
      /\ UNCHANGED <<task, worker, plugin>> /\ UNCHANGED key
  BY <1>s DEF GiveUp, Return, plugin
<1>3. IdleReader \in Reader /\ IdleReader.pc = "idle" /\ IdleReader.got = 0
  BY BoundsAssumption DEF IdleReader, Reader, ReaderPCs, MaybeEvent, MaybeTask
<1>4. TasksTyped'
  BY <1>t, <1>1, <1>2, <1>3 DEF TasksTyped, MaybeTask, plugin
<1>5. dataTasks'[s] = 0 /\ \A d \in Keys \ {s} : dataTasks'[d] = dataTasks[d]
  BY <1>t, <1>2 DEF TasksTyped
<1>6. rd'[r] = IdleReader /\ \A q \in Readers \ {r} : rd'[q] = rd[q]
  BY <1>t, <1>2 DEF TasksTyped
<1>7. WorkerListed'
  BY <1>t, <1>1, <1>s, <1>2, <1>5 DEF TaskInv, WorkerListed, Running, TaskOf
<1>8. OwnerListed' /\ OwnerAlone'
  <2>1. \A q \in Readers \ {r} : rd[q].pc = "recheck" => key[rd[q].event] # s
    BY <1>1, <1>s DEF TaskInv, OwnerListed, OwnerAlone, TaskOf
  <2> QED
    BY <2>1, <1>t, <1>2, <1>3, <1>5, <1>6 DEF TaskInv, OwnerListed, OwnerAlone, TaskOf
<1>9. ListedRight' /\ DataRight'
  BY <1>2, <1>5 DEF TaskInv, ListedRight, DataRight
<1>10. ReaderHasEvent' /\ WaiterRight' /\ GotRight'
  BY <1>2, <1>3, <1>6 DEF TaskInv, ReaderHasEvent, WaiterRight, GotRight, Keyed, KeyedData
<1> QED
  BY <1>4, <1>7, <1>8, <1>9, <1>10 DEF TaskInv

\* The worker starts with the task its owner had listed.
LEMMA StartStep ==
  ASSUME TaskInv, NEW r \in Readers, StartWorker(r)
  PROVE  TaskInv'
<1> DEFINE k == rd[r].task
           x == [rd[r] EXCEPT !.pc = "await"]
           w == [worker[k] EXCEPT !.pc = "fetch"]
<1>t. TasksTyped
  BY DEF TaskInv
<1>1. /\ rd[r].pc = "recheck" /\ rd[r].event \in Events /\ k \in Tasks
      /\ TaskOf(rd[r].event) = k /\ task[k].event = rd[r].event
      /\ KeyedData(rd[r].got, rd[r].event)
  BY DEF StartWorker, TaskInv, OwnerListed, GotRight
<1>2. x \in Reader /\ x.pc = "await" /\ x.event = rd[r].event /\ x.got = rd[r].got
  BY <1>t DEF TasksTyped, Reader, ReaderPCs
<1>3. w \in Worker /\ w.pc = "fetch" /\ w.data = worker[k].data
  BY <1>t, <1>1 DEF TasksTyped, Worker, WorkerPCs
<1>4. /\ worker' = [worker EXCEPT ![k] = w]
      /\ rd' = [rd EXCEPT ![r] = x]
      /\ UNCHANGED <<dataTasks, task, plugin>> /\ UNCHANGED key
  BY <1>t, <1>1 DEF StartWorker, ReaderGoes, TasksTyped, plugin
<1> HIDE DEF x, w, k
<1>5. TasksTyped'
  BY <1>t, <1>1, <1>2, <1>3, <1>4 DEF TasksTyped, plugin
<1>6. worker'[k] = w /\ \A j \in Tasks \ {k} : worker'[j] = worker[j]
  BY <1>t, <1>1, <1>4 DEF TasksTyped
<1>7. rd'[r] = x /\ \A q \in Readers \ {r} : rd'[q] = rd[q]
  BY <1>t, <1>4 DEF TasksTyped
<1>8. WorkerListed' /\ ListedRight' /\ DataRight'
  BY <1>1, <1>3, <1>4, <1>6 DEF TaskInv, WorkerListed, ListedRight, DataRight, Running,
     TaskOf
<1>9. OwnerListed' /\ OwnerAlone'
  <2>1. \A q \in Readers \ {r} : rd[q].pc = "recheck" => rd[q].task # k
    BY <1>1 DEF TaskInv, OwnerAlone, k
  <2> QED
    BY <2>1, <1>2, <1>4, <1>6, <1>7 DEF TaskInv, OwnerListed, OwnerAlone, TaskOf
<1>10. ReaderHasEvent' /\ WaiterRight' /\ GotRight'
  BY <1>1, <1>2, <1>4, <1>7 DEF TaskInv, ReaderHasEvent, WaiterRight, GotRight, Keyed,
     KeyedData
<1> QED
  BY <1>5, <1>8, <1>9, <1>10 DEF TaskInv

\* Steps that leave the map alone and keep every task's event: a running worker
\* advances, a waiting reader advances, a task receives data of its own event.
LEMMA AdvanceFrame ==
  ASSUME TaskInv, UNCHANGED <<dataTasks, plugin>>,
         task' \in [Tasks -> Task], worker' \in [Tasks -> Worker], rd' \in [Readers -> Reader],
         \A k \in Tasks :
           /\ task'[k].event = task[k].event
           /\ task'[k].data \in {0, task[k].event}
           /\ worker'[k].data \in {0, task[k].event}
           /\ worker'[k].pc = worker[k].pc \/ (Running(k) /\ worker'[k].pc # "none"),
         \A r \in Readers :
           \/ rd'[r] = rd[r]
           \/ /\ rd'[r].pc \in {"block", "return"}
              /\ rd[r].pc \in {"register", "block"}
              /\ rd'[r].event = rd[r].event /\ rd'[r].task = rd[r].task
              /\ KeyedData(rd'[r].got, rd[r].event)
  PROVE  TaskInv'
<1>k. UNCHANGED key
  BY DEF plugin
<1>1. TasksTyped'
  BY DEF TaskInv, TasksTyped, plugin
<1>2. WorkerListed'
  BY <1>k DEF TaskInv, WorkerListed, Running, TaskOf
<1>3. OwnerListed' /\ OwnerAlone'
  BY <1>k DEF TaskInv, OwnerListed, OwnerAlone, Running, TaskOf
<1>4. ListedRight'
  BY <1>k DEF TaskInv, ListedRight, TasksTyped, MaybeTask
<1>5. ReaderHasEvent' /\ GotRight'
  BY <1>k DEF TaskInv, ReaderHasEvent, GotRight, Keyed, KeyedData
<1>6. WaiterRight'
  BY <1>k DEF TaskInv, WaiterRight, Keyed
<1>7. DataRight'
  BY DEF DataRight
<1> QED
  BY <1>1, <1>2, <1>3, <1>4, <1>5, <1>6, <1>7 DEF TaskInv

\* Registering, waking up and running out of time keep the invariant.
LEMMA WaitStep ==
  ASSUME TaskInv, NEW r \in Readers,
         RegisterBlock(r) \/ BlockWoken(r) \/ BlockTimeout(r)
  PROVE  TaskInv'
<1> DEFINE k == rd[r].task
<1>t. TasksTyped /\ DataRight
  BY DEF TaskInv
<1>1. /\ rd[r].pc \in {"register", "block"} /\ k \in Tasks
      /\ task[k] \in Task /\ rd[r] \in Reader /\ KeyedData(task[k].data, rd[r].event)
      /\ KeyedData(rd[r].got, rd[r].event)
  BY <1>t DEF RegisterBlock, BlockWoken, BlockTimeout, TaskInv, WaiterRight, TasksTyped,
     DataRight, GotRight, Keyed, KeyedData
<1>2. ASSUME NEW y \in Task, NEW x \in Reader,
             task' = [task EXCEPT ![k] = y], y.event = task[k].event, y.data = task[k].data,
             rd' = [rd EXCEPT ![r] = x], UNCHANGED <<dataTasks, worker, plugin>>,
             x.pc \in {"block", "return"}, x.event = rd[r].event, x.task = k,
             KeyedData(x.got, rd[r].event)
      PROVE  TaskInv'
  <2>1. task' \in [Tasks -> Task] /\ rd' \in [Readers -> Reader] /\ worker' \in [Tasks -> Worker]
    BY <1>t, <1>2 DEF TasksTyped
  <2>2. \A j \in Tasks : task'[j] = IF j = k THEN y ELSE task[j]
    BY <1>t, <1>2 DEF TasksTyped
  <2>3. \A q \in Readers : rd'[q] = IF q = r THEN x ELSE rd[q]
    BY <1>t, <1>2 DEF TasksTyped
  <2>4. \A j \in Tasks : task[j].data \in {0, task[j].event} /\ worker[j].data \in {0, task[j].event}
    BY <1>t DEF DataRight
  <2>5. \A j \in Tasks :
          /\ task'[j].event = task[j].event
          /\ task'[j].data \in {0, task[j].event}
          /\ worker'[j].data \in {0, task[j].event}
          /\ worker'[j].pc = worker[j].pc \/ (Running(j) /\ worker'[j].pc # "none")
    <3> SUFFICES ASSUME NEW j \in Tasks
                 PROVE  /\ task'[j].event = task[j].event
                        /\ task'[j].data \in {0, task[j].event}
                        /\ worker'[j].data \in {0, task[j].event}
                        /\ worker'[j].pc = worker[j].pc \/ (Running(j) /\ worker'[j].pc # "none")
      OBVIOUS
    <3>1. CASE j = k
      <4>1. task'[j] = y /\ worker'[j] = worker[j]
        BY <3>1, <1>2, <2>2
      <4> QED
        BY <3>1, <4>1, <1>1, <1>2, <2>4
    <3>2. CASE j # k
      <4>1. task'[j] = task[j] /\ worker'[j] = worker[j]
        BY <3>2, <1>2, <2>2
      <4> QED
        BY <4>1, <2>4
    <3> QED
      BY <3>1, <3>2
  <2>6. \A q \in Readers :
          \/ rd'[q] = rd[q]
          \/ /\ rd'[q].pc \in {"block", "return"}
             /\ rd[q].pc \in {"register", "block"}
             /\ rd'[q].event = rd[q].event /\ rd'[q].task = rd[q].task
             /\ KeyedData(rd'[q].got, rd[q].event)
    BY <1>1, <1>2, <2>3
  <2> QED
    BY <1>2, <2>1, <2>5, <2>6, AdvanceFrame
<1>3. CASE RegisterBlock(r)
  <2> DEFINE y == [task[k] EXCEPT !.blocks = @ \cup {r}]
             x == [rd[r] EXCEPT !.pc = "block"]
  <2>1. y \in Task /\ y.event = task[k].event /\ y.data = task[k].data
    BY <1>1 DEF Task
  <2>2. x \in Reader /\ x.pc = "block" /\ x.event = rd[r].event /\ x.task = k /\ x.got = rd[r].got
    BY <1>1 DEF Reader, ReaderPCs
  <2>3. /\ task' = [task EXCEPT ![k] = y] /\ rd' = [rd EXCEPT ![r] = x]
        /\ UNCHANGED <<dataTasks, worker, plugin>>
    BY <1>3, <1>t, <1>1 DEF RegisterBlock, ReaderGoes, TasksTyped
  <2> HIDE DEF x, y
  <2> QED
    BY <1>1, <1>2, <2>1, <2>2, <2>3
<1>4. CASE Unblocked(r)
  <2> DEFINE y == [task[k] EXCEPT !.blocks = @ \ {r}, !.woken = @ \ {r}]
             x == [rd[r] EXCEPT !.pc = "return", !.got = task[k].data]
  <2>1. y \in Task /\ y.event = task[k].event /\ y.data = task[k].data
    BY <1>1 DEF Task
  <2>2. /\ x \in Reader /\ x.pc = "return" /\ x.event = rd[r].event
        /\ x.task = k /\ x.got = task[k].data
    BY <1>1 DEF Reader, ReaderPCs, Task
  <2>3. /\ task' = [task EXCEPT ![k] = y] /\ rd' = [rd EXCEPT ![r] = x]
        /\ UNCHANGED <<dataTasks, worker, plugin>>
    BY <1>4, <1>t, <1>1 DEF Unblocked, TasksTyped
  <2> HIDE DEF x, y
  <2> QED
    BY <1>1, <1>2, <2>1, <2>2, <2>3
<1> QED
  BY <1>3, <1>4 DEF BlockWoken, BlockTimeout

\* The steps of a worker keep the invariant: what it looks up by its event is its
\* own task.
LEMMA WorkStep ==
  ASSUME TaskInv, NEW k \in Tasks, WorkerStep(k)
  PROVE  TaskInv'
<1>t. TasksTyped /\ DataRight
  BY DEF TaskInv
<1>1. /\ Running(k) /\ task[k].event \in Events /\ TaskOf(task[k].event) = k
      /\ worker[k] \in Worker /\ task[k] \in Task
      /\ worker[k].data \in {0, task[k].event} /\ task[k].data \in {0, task[k].event}
  <2>1. Running(k)
    BY DEF WorkerStep, FetchSucceeds, FetchFails, CheckNewest, StoreClip, Notify, AnswerOwner,
       ClearRemoteDataTask, Running
  <2> QED
    BY <2>1, <1>t DEF TaskInv, WorkerListed, TasksTyped, DataRight
<1>2. ASSUME NEW w \in Worker, NEW y \in Task,
             worker' = [worker EXCEPT ![k] = w], w.pc # "none", w.data \in {0, task[k].event},
             task' = [task EXCEPT ![k] = y], y.event = task[k].event,
             y.data \in {0, task[k].event},
             UNCHANGED <<dataTasks, rd, plugin>>
      PROVE  TaskInv'
  <2>1. task' \in [Tasks -> Task] /\ rd' \in [Readers -> Reader] /\ worker' \in [Tasks -> Worker]
    BY <1>t, <1>2 DEF TasksTyped
  <2>2. \A j \in Tasks : worker'[j] = IF j = k THEN w ELSE worker[j]
    BY <1>t, <1>2 DEF TasksTyped
  <2>3. \A j \in Tasks : task'[j] = IF j = k THEN y ELSE task[j]
    BY <1>t, <1>2 DEF TasksTyped
  <2>4. \A j \in Tasks : task[j].data \in {0, task[j].event} /\ worker[j].data \in {0, task[j].event}
    BY <1>t DEF DataRight
  <2>5. \A j \in Tasks :
          /\ task'[j].event = task[j].event
          /\ task'[j].data \in {0, task[j].event}
          /\ worker'[j].data \in {0, task[j].event}
          /\ worker'[j].pc = worker[j].pc \/ (Running(j) /\ worker'[j].pc # "none")
    <3> SUFFICES ASSUME NEW j \in Tasks
                 PROVE  /\ task'[j].event = task[j].event
                        /\ task'[j].data \in {0, task[j].event}
                        /\ worker'[j].data \in {0, task[j].event}
                        /\ worker'[j].pc = worker[j].pc \/ (Running(j) /\ worker'[j].pc # "none")
      OBVIOUS
    <3>1. CASE j = k
      BY <3>1, <1>1, <1>2, <2>2, <2>3, <2>4
    <3>2. CASE j # k
      <4>1. task'[j] = task[j] /\ worker'[j] = worker[j]
        BY <3>2, <2>2, <2>3
      <4> QED
        BY <4>1, <2>4
    <3> QED
      BY <3>1, <3>2
  <2>6. \A q \in Readers :
          \/ rd'[q] = rd[q]
          \/ /\ rd'[q].pc \in {"block", "return"}
             /\ rd[q].pc \in {"register", "block"}
             /\ rd'[q].event = rd[q].event /\ rd'[q].task = rd[q].task
             /\ KeyedData(rd'[q].got, rd[q].event)
    BY <1>2
  <2> QED
    BY <1>2, <2>1, <2>5, <2>6, AdvanceFrame
<1>3. task = [task EXCEPT ![k] = task[k]]
  BY <1>t DEF TasksTyped
<1>4. CASE FetchSucceeds(k)
  <2> DEFINE w == [worker[k] EXCEPT !.pc = "check", !.data = task[k].event]
  <2>1. w \in Worker /\ w.pc = "check" /\ w.data = task[k].event
    BY <1>1 DEF Worker, WorkerPCs, Task
  <2>2. worker' = [worker EXCEPT ![k] = w] /\ UNCHANGED <<dataTasks, task, rd, plugin>>
    BY <1>4, <1>t DEF FetchSucceeds, TasksTyped
  <2> HIDE DEF w
  <2> QED
    BY <1>1, <1>2, <1>3, <2>1, <2>2
<1>5. CASE FetchFails(k) \/ CheckNewest(k) \/ StoreClip(k)
  <2>1. PICK pc \in {"notify", "store"} : WorkerGoes(k, pc)
    BY <1>5 DEF FetchFails, CheckNewest, StoreClip
  <2> DEFINE w == [worker[k] EXCEPT !.pc = pc]
  <2>2. w \in Worker /\ w.pc = pc /\ w.data = worker[k].data
    BY <1>1 DEF Worker, WorkerPCs
  <2>3. worker' = [worker EXCEPT ![k] = w] /\ UNCHANGED <<dataTasks, task, rd, plugin>>
    BY <1>5, <2>1, <1>t DEF FetchFails, CheckNewest, StoreClip, WorkerGoes, TasksTyped
  <2> HIDE DEF w
  <2> QED
    BY <1>1, <1>2, <1>3, <2>2, <2>3
<1>6. CASE Notify(k)
  <2> DEFINE w == [worker[k] EXCEPT !.pc = "answer"]
             y == [task[k] EXCEPT !.data = worker[k].data, !.woken = task[k].blocks]
  <2>1. w \in Worker /\ w.pc = "answer" /\ w.data = worker[k].data
    BY <1>1 DEF Worker, WorkerPCs
  <2>2. y \in Task /\ y.event = task[k].event /\ y.data = worker[k].data
    BY <1>1 DEF Task, Worker
  <2>3. worker' = [worker EXCEPT ![k] = w] /\ UNCHANGED <<dataTasks, rd, plugin>>
    BY <1>6, <1>t DEF Notify, WorkerGoes, TasksTyped
  <2>4. task' = [task EXCEPT ![k] = y]
    BY <1>6, <1>t, <1>1, TasksAssumption DEF Notify, TasksTyped
  <2> HIDE DEF w, y
  <2> QED
    BY <1>1, <1>2, <2>1, <2>2, <2>3, <2>4
<1>7. CASE AnswerOwner(k)
  <2> DEFINE w == [worker[k] EXCEPT !.pc = "clear", !.answered = TRUE]
  <2>1. w \in Worker /\ w.pc = "clear" /\ w.data = worker[k].data
    BY <1>1 DEF Worker, WorkerPCs
  <2>2. worker' = [worker EXCEPT ![k] = w] /\ UNCHANGED <<dataTasks, task, rd, plugin>>
    BY <1>7, <1>t DEF AnswerOwner, TasksTyped
  <2> HIDE DEF w
  <2> QED
    BY <1>1, <1>2, <1>3, <2>1, <2>2
<1>8. CASE ClearRemoteDataTask(k)
  <2> DEFINE w == [worker[k] EXCEPT !.pc = "ended"]
  <2>k. \A d \in Events : key[d] \in Keys
    BY <1>t DEF TasksTyped
  <2>s. PICK s \in Keys : s = key[task[k].event]
    BY <1>1, <2>k
  <2>1. w \in Worker /\ w.pc = "ended" /\ w.data = worker[k].data
    BY <1>1 DEF Worker, WorkerPCs
  <2>2. /\ worker' = [worker EXCEPT ![k] = w] /\ dataTasks' = [dataTasks EXCEPT ![s] = 0]
        /\ UNCHANGED <<task, rd, plugin>> /\ UNCHANGED key
    BY <1>8, <2>s, <1>t DEF ClearRemoteDataTask, WorkerGoes, TasksTyped, plugin
  <2> HIDE DEF w
  <2>3. TasksTyped'
    BY <1>t, <1>1, <2>1, <2>2 DEF TasksTyped, MaybeTask, plugin
  <2>4. dataTasks'[s] = 0 /\ \A d \in Keys \ {s} : dataTasks'[d] = dataTasks[d]
    BY <1>t, <1>1, <2>2 DEF TasksTyped
  <2>5. worker'[k] = w /\ \A j \in Tasks \ {k} : worker'[j] = worker[j]
    BY <1>t, <2>2 DEF TasksTyped
  <2>6. WorkerListed'
    BY <1>1, <2>k, <2>s, <2>1, <2>2, <2>4, <2>5 DEF TaskInv, WorkerListed, Running, TaskOf
  <2>7. OwnerListed' /\ OwnerAlone'
    <3>1. \A r \in Readers : rd[r].pc = "recheck" => rd[r].task # k /\ key[rd[r].event] # s
      BY <1>1, <2>s DEF TaskInv, OwnerListed, Running, TaskOf
    <3> QED
      BY <3>1, <2>k, <2>2, <2>4, <2>5 DEF TaskInv, OwnerListed, OwnerAlone, TaskOf
  <2>8. ListedRight' /\ DataRight'
    BY <1>1, <2>1, <2>2, <2>4, <2>5 DEF TaskInv, ListedRight, DataRight
  <2>9. ReaderHasEvent' /\ WaiterRight' /\ GotRight'
    BY <2>2 DEF TaskInv, ReaderHasEvent, WaiterRight, GotRight, Keyed, KeyedData
  <2> QED
    BY <2>3, <2>6, <2>7, <2>8, <2>9 DEF TaskInv
<1> QED
  BY <1>4, <1>5, <1>6, <1>7, <1>8 DEF WorkerStep

\* Every step keeps the invariant.
LEMMA TaskStep == TaskInv /\ [Next]_vars => TaskInv'
<1> SUFFICES ASSUME TaskInv, [Next]_vars PROVE TaskInv'
  OBVIOUS
<1>1. CASE Environment
  BY <1>1, EnvironmentStep
<1>2. ASSUME NEW r \in Readers, GetTopEvent(r) \/ ReaderStep(r) PROVE TaskInv'
  BY <1>2, LookingStep, ClaimStep, GiveUpStep, StartStep, WaitStep DEF ReaderStep
<1>3. ASSUME NEW k \in Tasks, WorkerStep(k) PROVE TaskInv'
  BY <1>3, WorkStep
<1>4. CASE UNCHANGED vars
  BY <1>4, TaskFrame DEF vars, plugin, TaskInv, TasksTyped
<1> QED
  BY <1>1, <1>2, <1>3, <1>4 DEF Next

\* At most one worker fetches the events of a key at a time, whatever the pastes do.
THEOREM SingleFetch == Spec => []OneFetchPerEvent
<1>1. TaskInv => OneFetchPerEvent
  BY DEF TaskInv, WorkerListed, OneFetchPerEvent, TaskOf
<1> QED
  BY <1>1, TaskInit, TaskStep, PTL DEF Spec

\* A paste that joined another one's fetch gets none, or data with the key of its
\* own event: its own event's as long as the peers repeat no key.
THEOREM WaitersServed == Spec => []WaiterGetsItsEvent
<1>1. TaskInv => WaiterGetsItsEvent
  BY DEF TaskInv, GotRight, WaiterGetsItsEvent, Keyed, KeyedData
<1> QED
  BY <1>1, TaskInit, TaskStep, PTL DEF Spec
-----------------------------------------------------------------------------
(* The board and currentEvent_. *)

\* The worker of task k has its data and has not disposed of it yet.
Holds(k) == worker[k].pc \in {"check", "store"}

BoardTyped ==
  /\ currentEvent \in MaybeEvent /\ clip \in 0..Fresh
  /\ outages \in Nat /\ overlap \in BOOLEAN
  /\ outages = 0 => online
  /\ erased => clip = 0

\* No event is known before it is stamped.
KnownStamped ==
  /\ top <= stamped /\ currentEvent <= stamped /\ \A e \in mine : e <= stamped
  /\ \A r \in Readers : rd[r].event <= stamped
  /\ \A k \in Tasks : task[k].event <= stamped

\* Unless workers overlapped, one runs at a time ...
OneWorker == ~overlap => \A j, k \in Tasks : Running(j) /\ Running(k) => j = k

\* ... and only a local copy replaces the current event while it holds its data.
HoldsCurrent ==
  \A k \in Tasks : Holds(k) =>
    /\ worker[k].data = task[k].event
    /\ ~overlap => currentEvent = task[k].event \/ currentEvent \in mine

\* The current event, if it is the newest one and a peer's, is on the board or on
\* its way there, or was there when the board was erased.
CurrentKept ==
  outages = 0 /\ ~overlap /\ currentEvent = top /\ top # 0 /\ top \notin mine =>
    clip >= top \/ erased \/ \E k \in Tasks : Holds(k) /\ task[k].event = top

BoardInv == BoardTyped /\ KnownStamped /\ OneWorker /\ HoldsCurrent /\ CurrentKept
FullInv == TaskInv /\ BoardInv

\* Initially there is no event.
LEMMA BoardInit == Init => BoardInv
<1> SUFFICES ASSUME Init PROVE BoardInv
  OBVIOUS
<1> USE BoundsAssumption DEF Init, IdleReader, NewTask, NoWorker
<1>1. BoardTyped
  <2>1. overlap \in BOOLEAN
    BY Zenon
  <2> QED
    BY <2>1 DEF BoardTyped, MaybeEvent, Fresh
<1>2. KnownStamped
  BY DEF KnownStamped
<1>3. OneWorker /\ HoldsCurrent /\ CurrentKept
  BY DEF OneWorker, HoldsCurrent, CurrentKept, Running, Holds
<1> QED
  BY <1>1, <1>2, <1>3 DEF BoardInv

\* Steps that leave the plugin, the board and currentEvent_ alone: no worker is
\* started or gets data, and none drops the data of the newest event.
LEMMA BoardFrame ==
  ASSUME TaskInv, BoardInv, UNCHANGED <<plugin, currentEvent, clip, erased, overlap>>,
         \A r \in Readers : rd'[r].event <= stamped,
         \A k \in Tasks :
           /\ task'[k].event <= stamped
           /\ Running(k)' => Running(k)
           /\ Holds(k)' => Holds(k) /\ worker'[k].data = worker[k].data
                                    /\ task'[k].event = task[k].event
           /\ Holds(k) /\ task[k].event = top /\ outages = 0 => 
                Holds(k)' /\ task'[k].event = task[k].event
  PROVE  BoardInv'
<1> USE DEF BoardInv, plugin
<1>1. BoardTyped'
  BY DEF BoardTyped
<1>2. KnownStamped'
  BY DEF KnownStamped
<1>3. OneWorker'
  BY DEF OneWorker
<1>4. HoldsCurrent'
  BY DEF HoldsCurrent
<1>5. CurrentKept'
  BY DEF CurrentKept
<1> QED
  BY <1>1, <1>2, <1>3, <1>4, <1>5

\* The environment: a peer's new event is not the current one, and a local copy
\* is newer than the listed event.
LEMMA BoardEnvironment ==
  ASSUME TaskInv, BoardInv, Environment
  PROVE  BoardInv'
<1> USE BoundsAssumption DEF BoardInv
<1>1. /\ stamped \in Nat /\ stamped \in 0..MaxEvents /\ top \in Nat /\ currentEvent \in Nat
      /\ mine \subseteq Events /\ MaxEvents \in Nat /\ \A e \in mine : e \in Nat
  BY DEF TaskInv, TasksTyped, BoardTyped, MaybeEvent, Events
<1>2. /\ UNCHANGED <<tasks, rd, overlap>>
      /\ \A k \in Tasks : (Running(k)' <=> Running(k)) /\ (Holds(k)' <=> Holds(k))
  BY DEF Environment, PeerCopies, NetworkGoes, NetworkReturns, LocalInsert, LocalStamp,
     LocalDelayed, LocalPublished, ClearInner, CleanDistributedData, ClearAgedData,
     tasks, Running, Holds
<1>3. OneWorker'
  BY <1>2 DEF OneWorker
<1>4. /\ \A r \in Readers : rd'[r].event = rd[r].event /\ rd[r].event \in Nat
      /\ \A k \in Tasks : task'[k] = task[k] /\ worker'[k] = worker[k] /\ task[k].event \in Nat
  BY <1>2 DEF tasks, TaskInv, TasksTyped, Reader, Task, MaybeEvent
<1>5. CASE PeerCopies
  <2>1. /\ stamped' = stamped + 1 /\ top' = stamped + 1
        /\ UNCHANGED <<mine, online, outages, currentEvent, clip, erased>>
    BY <1>5 DEF PeerCopies, board
  <2>2. BoardTyped' /\ HoldsCurrent'
    BY <1>2, <1>4, <2>1 DEF BoardTyped, HoldsCurrent
  <2>3. KnownStamped'
    BY <1>1, <1>4, <2>1 DEF KnownStamped
  <2>4. CurrentKept'
    BY <1>1, <2>1 DEF CurrentKept, KnownStamped
  <2> QED
    BY <1>3, <2>2, <2>3, <2>4
<1>6. CASE LocalStamp
  <2>1. /\ stamped' = stamped + 1 /\ mine' = mine \cup {stamped + 1} /\ currentEvent' = stamped + 1
        /\ clip' = IF clip = Fresh THEN stamped + 1 ELSE clip
        /\ stamped < MaxEvents /\ UNCHANGED <<top, online, outages, erased>>
    BY <1>6 DEF LocalStamp
  <2>2. BoardTyped'
    BY <1>1, <1>2, <2>1 DEF BoardTyped, MaybeEvent, Fresh
  <2>3. KnownStamped'
    BY <1>1, <1>4, <2>1 DEF KnownStamped
  <2>4. HoldsCurrent'
    BY <1>2, <1>4, <2>1 DEF HoldsCurrent
  <2>5. CurrentKept'
    BY <2>1 DEF CurrentKept
  <2> QED
    BY <1>3, <2>2, <2>3, <2>4, <2>5
<1>7. ASSUME NEW e \in pending, LocalPublished(e) PROVE BoardInv'
  <2>1. /\ top' \in {top, e} /\ e \in mine
        /\ UNCHANGED <<stamped, mine, online, outages, currentEvent, clip, erased>>
    BY <1>7 DEF LocalPublished, board, TaskInv, TasksTyped
  <2>2. BoardTyped' /\ HoldsCurrent' /\ CurrentKept'
    BY <1>2, <1>4, <2>1 DEF BoardTyped, HoldsCurrent, CurrentKept
  <2>3. KnownStamped'
    BY <1>1, <1>4, <2>1 DEF KnownStamped
  <2> QED
    BY <1>3, <2>2, <2>3
<1>8. CASE NetworkGoes \/ NetworkReturns \/ CleanDistributedData
  <2>1. /\ UNCHANGED <<stamped, mine, currentEvent, clip, erased>> /\ top' \in {top, 0}
        /\ outages' \in Nat /\ (outages' = 0 => online' /\ outages = 0)
    BY <1>8 DEF NetworkGoes, NetworkReturns, CleanDistributedData, BoardTyped, board
  <2>2. BoardTyped'
    BY <1>2, <2>1 DEF BoardTyped
  <2>3. KnownStamped' /\ HoldsCurrent'
    BY <1>1, <1>2, <1>4, <2>1 DEF KnownStamped, HoldsCurrent
  <2>4. CurrentKept'
    BY <1>2, <1>4, <2>1 DEF CurrentKept
  <2> QED
    BY <1>3, <2>2, <2>3, <2>4
<1>9. CASE LocalInsert \/ LocalDelayed \/ ClearInner \/ ClearAgedData
  <2>1. /\ UNCHANGED <<plugin, currentEvent>>
        /\ clip' \in 0..Fresh /\ (erased' => clip' = 0)
        /\ clip >= top \/ erased => clip' >= top \/ erased'
    BY <1>1, <1>9 DEF LocalInsert, LocalDelayed, ClearInner, ClearAgedData, EraseClip, BoardTyped,
       Fresh, KnownStamped
  <2>2. BoardTyped'
    BY <1>2, <2>1 DEF BoardTyped, plugin
  <2>3. KnownStamped' /\ HoldsCurrent'
    BY <1>2, <1>4, <2>1 DEF KnownStamped, HoldsCurrent, plugin
  <2>4. CurrentKept'
    BY <1>2, <1>4, <2>1 DEF CurrentKept, plugin
  <2> QED
    BY <1>3, <2>2, <2>3, <2>4
<1> QED
  BY <1>5, <1>6, <1>7, <1>8, <1>9 DEF Environment

\* The steps of the readers other than starting a worker.
LEMMA BoardReader ==
  ASSUME TaskInv, BoardInv, NEW r \in Readers, GetTopEvent(r) \/ ReaderStep(r), ~StartWorker(r)
  PROVE  BoardInv'
<1> USE DEF BoardInv
<1>1. /\ \A q \in Readers : rd[q].event <= stamped /\ rd[q] \in Reader
      /\ rd \in [Readers -> Reader] /\ task \in [Tasks -> Task] /\ worker \in [Tasks -> Worker]
      /\ \A k \in Tasks : task[k].event <= stamped
      /\ stamped \in Nat /\ top \in Nat /\ top <= stamped
  BY DEF KnownStamped, TaskInv, TasksTyped, MaybeEvent
<1>2. UNCHANGED <<plugin, currentEvent, clip, erased, overlap>>
  BY DEF board, GetTopEvent, ReaderStep, ChooseRemote, ChooseSame, ChooseLocal, IsRemoteDataPasting,
     ClaimTask, JoinTask, GiveUp, TakeAnswer, AwaitTimeout, FindTask, RegisterBlock, BlockWoken,
     BlockTimeout, Unblocked, ReturnWaited
<1>3. \E x : rd' = [rd EXCEPT ![r] = x] /\ x.event \in {0, Listed, rd[r].event}
  <2>1. CASE Return(r) \/ GetTopEvent(r)
    BY <2>1 DEF Return, IdleReader, GetTopEvent
  <2>2. ASSUME NEW pc, ReaderGoes(r, pc)
        PROVE  \E x : rd' = [rd EXCEPT ![r] = x] /\ x.event \in {0, Listed, rd[r].event}
    <3> DEFINE x == [rd[r] EXCEPT !.pc = pc]
    <3>1. x.event = rd[r].event
      BY <1>1 DEF Reader
    <3>2. rd' = [rd EXCEPT ![r] = x]
      BY <2>2 DEF ReaderGoes
    <3> QED
      BY <3>1, <3>2
  <2>3. ASSUME NEW pc, NEW k, rd' = [rd EXCEPT ![r].pc = pc, ![r].task = k]
        PROVE  \E x : rd' = [rd EXCEPT ![r] = x] /\ x.event \in {0, Listed, rd[r].event}
    <3> DEFINE x == [rd[r] EXCEPT !.pc = pc, !.task = k]
    <3>1. x.event = rd[r].event
      BY <1>1 DEF Reader
    <3>2. rd' = [rd EXCEPT ![r] = x]
      BY <1>1, <2>3
    <3> QED
      BY <3>1, <3>2
  <2>4. CASE Unblocked(r)
    <3> DEFINE x == [rd[r] EXCEPT !.pc = "return", !.got = task[rd[r].task].data]
    <3>1. x.event = rd[r].event
      BY <1>1 DEF Reader
    <3>2. rd' = [rd EXCEPT ![r] = x]
      BY <1>1, <2>4 DEF Unblocked
    <3> QED
      BY <3>1, <3>2
  <2> QED
    BY <2>1, <2>2, <2>3, <2>4 DEF ReaderStep, ChooseRemote, ChooseSame, ChooseLocal, IsRemoteDataPasting,
     ClaimTask, JoinTask, GiveUp, TakeAnswer, AwaitTimeout, FindTask, RegisterBlock, BlockWoken,
     BlockTimeout, ReturnWaited
<1>4. \A q \in Readers : rd'[q].event <= stamped
  <2>1. PICK x : rd' = [rd EXCEPT ![r] = x] /\ x.event \in {0, Listed, rd[r].event}
    BY <1>3
  <2>2. x.event <= stamped
    BY <1>1, <2>1 DEF Listed
  <2> QED
    BY <1>1, <2>1, <2>2
<1>5. CASE UNCHANGED <<task, worker>>
  <2>1. \A k \in Tasks : (Running(k)' <=> Running(k)) /\ (Holds(k)' <=> Holds(k))
                         /\ task'[k] = task[k] /\ worker'[k] = worker[k]
    BY <1>5 DEF Running, Holds
  <2> QED
    BY <1>1, <1>2, <1>4, <2>1, BoardFrame
<1>6. ASSUME NEW k \in Tasks, ClaimTask(r, k) PROVE BoardInv'
  <2>1. /\ task' = [task EXCEPT ![k] = NewTask(rd[r].event)]
        /\ worker' = [worker EXCEPT ![k] = NoWorker] /\ ~Running(k)
    BY <1>6 DEF ClaimTask, Free
  <2>2. /\ task'[k].event = rd[r].event /\ worker'[k].pc = "none"
        /\ \A j \in Tasks \ {k} : task'[j] = task[j] /\ worker'[j] = worker[j]
    BY <1>1, <2>1 DEF NewTask, NoWorker
  <2>3. ~Holds(k) /\ ~Holds(k)' /\ ~Running(k)'
    BY <2>1, <2>2 DEF Holds, Running
  <2>4. \A j \in Tasks \ {k} : (Running(j)' <=> Running(j)) /\ (Holds(j)' <=> Holds(j))
    BY <2>2 DEF Running, Holds
  <2> QED
    BY <1>1, <1>2, <1>4, <2>2, <2>3, <2>4, BoardFrame
<1>7. CASE UNCHANGED worker /\ \A k \in Tasks : task'[k].event = task[k].event
  <2>1. \A k \in Tasks : (Running(k)' <=> Running(k)) /\ (Holds(k)' <=> Holds(k))
                         /\ worker'[k] = worker[k]
    BY <1>7 DEF Running, Holds
  <2> QED
    BY <1>1, <1>2, <1>4, <1>7, <2>1, BoardFrame
<1>8. CASE RegisterBlock(r) \/ Unblocked(r)
  <2> DEFINE k == rd[r].task
  <2>1. PICK y : task' = [task EXCEPT ![k] = y] /\ (k \in Tasks => y.event = task[k].event)
    <3>1. CASE RegisterBlock(r)
      <4> DEFINE y == [task[k] EXCEPT !.blocks = @ \cup {r}]
      <4>1. k \in Tasks => y.event = task[k].event
        BY <1>1 DEF Task
      <4>2. task' = [task EXCEPT ![k] = y]
        BY <3>1 DEF RegisterBlock
      <4> QED
        BY <4>1, <4>2
    <3>2. CASE Unblocked(r)
      <4> DEFINE y == [task[k] EXCEPT !.blocks = @ \ {r}, !.woken = @ \ {r}]
      <4>1. k \in Tasks => y.event = task[k].event
        BY <1>1 DEF Task
      <4>2. task' = [task EXCEPT ![k] = y]
        BY <1>1, <3>2 DEF Unblocked, Task
      <4> QED
        BY <4>1, <4>2
    <3> QED
      BY <1>8, <3>1, <3>2
  <2> HIDE DEF k
  <2>2. \A j \in Tasks : task'[j].event = task[j].event
    BY <1>1, <2>1
  <2>3. UNCHANGED worker
    BY <1>8 DEF RegisterBlock, Unblocked
  <2> QED
    BY <1>7, <2>2, <2>3
<1> QED
  BY <1>5, <1>6, <1>8 DEF ReaderStep, GetTopEvent, ChooseRemote, ChooseSame, ChooseLocal,
     IsRemoteDataPasting, JoinTask, GiveUp, TakeAnswer, AwaitTimeout, FindTask, BlockWoken,
     BlockTimeout, ReturnWaited, tasks

\* A worker that is started while another one runs sets overlap.
LEMMA BoardStart ==
  ASSUME TaskInv, BoardInv, NEW r \in Readers, StartWorker(r)
  PROVE  BoardInv'
<1> USE DEF BoardInv
<1>0. PICK k \in Tasks : k = rd[r].task
  BY DEF TaskInv, OwnerListed, StartWorker
<1> DEFINE w == [worker[k] EXCEPT !.pc = "fetch"]
           x == [rd[r] EXCEPT !.pc = "await"]
<1>1. /\ rd \in [Readers -> Reader] /\ worker \in [Tasks -> Worker] /\ task \in [Tasks -> Task]
      /\ worker[k].pc = "none"
  BY <1>0 DEF TaskInv, TasksTyped, OwnerListed, StartWorker
<1>2. /\ worker' = [worker EXCEPT ![k] = w] /\ rd' = [rd EXCEPT ![r] = x]
      /\ overlap' = (overlap \/ \E j \in Tasks : Running(j))
      /\ UNCHANGED <<plugin, currentEvent, clip, erased, dataTasks, task>>
  BY <1>0, <1>1 DEF StartWorker, ReaderGoes, board
<1>3. x.event = rd[r].event /\ w.pc = "fetch"
  BY <1>1 DEF Reader, Worker
<1> HIDE DEF w, x
<1>4. worker'[k] = w /\ \A j \in Tasks \ {k} : worker'[j] = worker[j]
  BY <1>1, <1>2
<1>5. /\ ~Holds(k) /\ ~Holds(k)' /\ ~Running(k)
      /\ \A j \in Tasks \ {k} : (Holds(j)' <=> Holds(j)) /\ (Running(j)' <=> Running(j))
  BY <1>1, <1>3, <1>4 DEF Holds, Running
<1>6. BoardTyped'
  BY <1>2 DEF BoardTyped, plugin
<1>7. KnownStamped'
  <2>1. \A q \in Readers : rd'[q].event = rd[q].event
    BY <1>1, <1>2, <1>3
  <2> QED
    BY <1>2, <2>1 DEF KnownStamped, plugin
<1>8. OneWorker'
  BY <1>2, <1>5 DEF OneWorker
<1>9. HoldsCurrent'
  BY <1>2, <1>4, <1>5 DEF HoldsCurrent, plugin
<1>10. CurrentKept'
  BY <1>2, <1>5 DEF CurrentKept, plugin
<1> QED
  BY <1>6, <1>7, <1>8, <1>9, <1>10

\* A worker makes its event the current one, and stores its data unless a newer
\* event is listed.
LEMMA BoardWorker ==
  ASSUME TaskInv, BoardInv, NEW k \in Tasks, WorkerStep(k)
  PROVE  BoardInv'
<1> USE DEF BoardInv
<1>1. /\ worker \in [Tasks -> Worker] /\ task \in [Tasks -> Task] /\ worker[k] \in Worker
      /\ stamped \in Nat /\ top \in Nat /\ task[k].event \in MaybeEvent
      /\ \A r \in Readers : rd[r].event <= stamped
      /\ \A j \in Tasks : task[j].event <= stamped
  BY DEF TaskInv, TasksTyped, KnownStamped, MaybeEvent, Task
<1>2. Running(k)
  BY DEF WorkerStep, FetchSucceeds, FetchFails, CheckNewest, StoreClip, Notify, AnswerOwner,
     ClearRemoteDataTask, Running
<1>3. CASE FetchSucceeds(k)
  <2> DEFINE w == [worker[k] EXCEPT !.pc = "check", !.data = task[k].event]
  <2>1. w.pc = "check" /\ w.data = task[k].event
    BY <1>1 DEF Worker
  <2>2. /\ worker' = [worker EXCEPT ![k] = w] /\ currentEvent' = task[k].event
        /\ UNCHANGED <<plugin, clip, erased, dataTasks, task, rd, overlap>>
    BY <1>1, <1>3 DEF FetchSucceeds, board
  <2> HIDE DEF w
  <2>3. worker'[k] = w /\ \A j \in Tasks \ {k} : worker'[j] = worker[j]
    BY <1>1, <2>2
  <2>4. /\ Holds(k)' /\ Running(k)'
        /\ \A j \in Tasks \ {k} : (Holds(j)' <=> Holds(j)) /\ (Running(j)' <=> Running(j))
    BY <2>1, <2>3 DEF Holds, Running
  <2>5. BoardTyped'
    BY <1>1, <2>2 DEF BoardTyped, plugin
  <2>6. KnownStamped'
    BY <1>1, <2>2 DEF KnownStamped, plugin
  <2>7. OneWorker'
    BY <1>2, <2>2, <2>4 DEF OneWorker
  <2>8. HoldsCurrent'
    <3> SUFFICES ASSUME NEW j \in Tasks, Holds(j)'
                 PROVE  /\ worker'[j].data = task'[j].event
                        /\ ~overlap' => currentEvent' = task'[j].event \/ currentEvent' \in mine'
      BY DEF HoldsCurrent
    <3>1. CASE j = k
      BY <2>1, <2>2, <2>3, <3>1
    <3>2. CASE j # k
      <4>1. Holds(j) /\ Running(j) /\ worker'[j] = worker[j]
        BY <2>3, <2>4, <3>2 DEF Holds, Running
      <4>2. overlap
        BY <1>2, <3>2, <4>1 DEF OneWorker
      <4> QED
        BY <2>2, <4>1, <4>2 DEF HoldsCurrent
    <3> QED
      BY <3>1, <3>2
  <2>9. CurrentKept'
    BY <2>2, <2>4 DEF CurrentKept, plugin
  <2> QED
    BY <2>5, <2>6, <2>7, <2>8, <2>9
<1>4. ASSUME NEW pc, WorkerGoes(k, pc), UNCHANGED task
      PROVE  /\ \A j \in Tasks : worker'[j].data = worker[j].data /\ task'[j] = task[j]
             /\ worker'[k].pc = pc
             /\ \A j \in Tasks \ {k} : worker'[j] = worker[j]
             /\ \A j \in Tasks \ {k} : (Holds(j)' <=> Holds(j)) /\ (Running(j)' <=> Running(j))
  <2> DEFINE w == [worker[k] EXCEPT !.pc = pc]
  <2>1. w.pc = pc /\ w.data = worker[k].data
    BY <1>1 DEF Worker
  <2>2. worker' = [worker EXCEPT ![k] = w]
    BY <1>1, <1>4 DEF WorkerGoes
  <2> HIDE DEF w
  <2>3. worker'[k] = w /\ \A j \in Tasks \ {k} : worker'[j] = worker[j]
    BY <1>1, <2>2
  <2> QED
    BY <1>4, <2>1, <2>3 DEF Holds, Running
<1>5. CASE StoreClip(k)
  <2>1. /\ worker[k].pc = "store" /\ clip' = worker[k].data /\ ~erased' /\ WorkerGoes(k, "notify")
        /\ UNCHANGED <<plugin, currentEvent, dataTasks, task, rd, overlap>>
    BY <1>5 DEF StoreClip
  <2>2. /\ \A j \in Tasks : worker'[j].data = worker[j].data /\ task'[j] = task[j]
        /\ worker'[k].pc = "notify"
        /\ \A j \in Tasks \ {k} : (Holds(j)' <=> Holds(j)) /\ (Running(j)' <=> Running(j))
    BY <1>4, <2>1
  <2>3. ~Holds(k)' /\ Running(k)' /\ Holds(k)
    BY <2>1, <2>2 DEF Holds, Running
  <2>4. clip' = task[k].event /\ (~overlap => currentEvent = task[k].event \/ currentEvent \in mine)
    BY <2>1, <2>3 DEF HoldsCurrent
  <2>5. BoardTyped'
    BY <1>1, <2>1, <2>4, BoundsAssumption DEF BoardTyped, plugin, MaybeEvent, Fresh
  <2>6. KnownStamped'
    BY <2>1 DEF KnownStamped, plugin
  <2>7. OneWorker'
    BY <1>2, <2>1, <2>2 DEF OneWorker
  <2>8. HoldsCurrent'
    BY <2>1, <2>2, <2>3 DEF HoldsCurrent, plugin
  <2>9. CurrentKept'
    BY <1>1, <2>1, <2>4 DEF CurrentKept, plugin
  <2> QED
    BY <2>5, <2>6, <2>7, <2>8, <2>9
<1>6. CASE FetchFails(k) \/ CheckNewest(k) \/ ClearRemoteDataTask(k)
  <2>1. PICK pc \in {"notify", "store", "ended"} : WorkerGoes(k, pc) /\ (pc = "store" => Holds(k))
    BY <1>6 DEF FetchFails, CheckNewest, ClearRemoteDataTask, Holds
  <2>2. UNCHANGED <<plugin, currentEvent, clip, erased, task, rd, overlap>>
    BY <1>6 DEF FetchFails, CheckNewest, ClearRemoteDataTask, board
  <2>3. /\ \A j \in Tasks : worker'[j].data = worker[j].data /\ task'[j] = task[j]
        /\ worker'[k].pc = pc
        /\ \A j \in Tasks \ {k} : (Holds(j)' <=> Holds(j)) /\ (Running(j)' <=> Running(j))
    BY <1>4, <2>1, <2>2
  <2>4. Holds(k)' => Holds(k)
    BY <2>1, <2>3 DEF Holds
  <2>5. Holds(k) /\ task[k].event = top /\ outages = 0 => Holds(k)'
    <3> SUFFICES ASSUME Holds(k), task[k].event = top, outages = 0 PROVE Holds(k)'
      OBVIOUS
    <3>1. CheckNewest(k) /\ Listed = top
      BY <1>6 DEF Holds, FetchFails, ClearRemoteDataTask, Listed, BoardTyped
    <3>2. WorkerGoes(k, "store")
      BY <1>2, <3>1 DEF CheckNewest, SameKey, TaskInv, WorkerListed
    <3>3. worker'[k].pc = "store"
      BY <1>4, <2>2, <3>2
    <3> QED
      BY <3>3 DEF Holds
  <2> QED
    BY <1>1, <1>2, <2>2, <2>3, <2>4, <2>5, BoardFrame
<1>7. CASE Notify(k) \/ AnswerOwner(k)
  <2>1. /\ UNCHANGED <<plugin, currentEvent, clip, erased, rd, overlap>>
        /\ worker[k].pc \in {"notify", "answer"}
    BY <1>7 DEF Notify, AnswerOwner, board
  <2>2. \A j \in Tasks : task'[j].event = task[j].event
    <3>1. CASE UNCHANGED task
      BY <3>1
    <3>2. ASSUME NEW n, task' = [task EXCEPT ![n].data = worker[k].data, ![n].woken = task[n].blocks],
                 NEW j \in Tasks
          PROVE  task'[j].event = task[j].event
      BY <1>1, <3>2 DEF Task
    <3> QED
      BY <1>7, <3>1, <3>2 DEF Notify, AnswerOwner
  <2>3. /\ worker'[k].pc \in {"answer", "clear"}
        /\ \A j \in Tasks \ {k} : worker'[j] = worker[j]
    BY <1>1, <1>7 DEF Notify, AnswerOwner, WorkerGoes, Worker
  <2>4. /\ ~Holds(k) /\ ~Holds(k)'
        /\ \A j \in Tasks \ {k} : (Holds(j)' <=> Holds(j)) /\ (Running(j)' <=> Running(j))
    BY <2>1, <2>3 DEF Holds, Running
  <2> QED
    BY <1>1, <1>2, <2>1, <2>2, <2>3, <2>4, BoardFrame
<1> QED
  BY <1>3, <1>5, <1>6, <1>7 DEF WorkerStep

\* Every step keeps both invariants.
LEMMA FullStep == FullInv /\ [Next]_vars => FullInv'
<1> SUFFICES ASSUME TaskInv, BoardInv, [Next]_vars PROVE BoardInv'
  BY TaskStep DEF FullInv
<1>1. CASE Environment
  BY <1>1, BoardEnvironment
<1>2. ASSUME NEW r \in Readers, GetTopEvent(r) \/ ReaderStep(r) PROVE BoardInv'
  BY <1>2, BoardReader, BoardStart
<1>3. ASSUME NEW k \in Tasks, WorkerStep(k) PROVE BoardInv'
  BY <1>3, BoardWorker
<1>4. CASE UNCHANGED vars
  BY <1>4 DEF vars, plugin, board, tasks, BoardInv, BoardTyped, KnownStamped, OneWorker, HoldsCurrent,
              CurrentKept, Running, Holds
<1> QED
  BY <1>1, <1>2, <1>3, <1>4 DEF Next

\* A paste that finds the newest event to be the current one, with no task for it,
\* takes from the board that event's clip or a newer local one, unless the board was
\* erased, as long as the workers ran one after another and the network stayed up.
THEOREM BoardReliable == Spec => []SameMeansStored
<1>1. FullInv => SameMeansStored
  <2> SUFFICES ASSUME TaskInv, BoardInv, Same(top), TaskOf(top) = 0, outages = 0, ~overlap,
                      NEW k \in Tasks, Holds(k), task[k].event = top
               PROVE  FALSE
    BY DEF FullInv, SameMeansStored, BoardInv, BoardTyped, CurrentKept, Same, Foreign
  <2>1. Running(k)
    BY DEF Holds, Running
  <2> QED
    BY <2>1, TasksAssumption DEF TaskInv, WorkerListed
<1>2. Init => FullInv
  BY TaskInit, BoardInit DEF FullInv
<1> QED
  BY <1>1, <1>2, FullStep, PTL DEF Spec
=============================================================================
