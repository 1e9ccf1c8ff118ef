--------------------------- MODULE CriticalState ---------------------------
(***************************************************************************)
(* What the memory manager is told (pasteboard_service.cpp): a process     *)
(* that holds clips is critical and must not be reclaimed.  A copy raises  *)
(* the state before it stores its clip and sets a timer to look again; a   *)
(* clear, an aged clip, the timer and OnStop lower it.  Each of them reads *)
(* clips_, tells the memory manager and stores isCritical_ in steps that   *)
(* no lock holds together.                                                 *)
(***************************************************************************)
EXTENDS Naturals, SequencesExt

CONSTANTS Owners, MaxJobs,   \* threads at a time
          MaxStarts         \* threads that are started from outside

ASSUME CriticalAssumption == MaxJobs \in Nat \ {0} /\ MaxStarts \in Nat

VARIABLES
    running,     \* state_ = STATE_RUNNING
    clips,       \* users with a clip
    fetched,     \* those of them whose clip came from a peer (a history of the model)
    aging,       \* users whose clip has its expiration timer set
    isCritical,  \* isCritical_
    told,        \* what the memory manager knows of the process
    timer,       \* the timer SET_CRITICAL_ID is set
    jobs,        \* threads: user, steps to do, what HasActivePasteboardWork said
    orderly,     \* no lowering thread has overlapped another, no memory manager was lost
    starts

criticalVars == <<running, clips, fetched, aging, isCritical, told, timer, jobs, orderly, starts>>

Raise == <<"SetTimer", "TellTrue", "StoreTrue">>
Lower == <<"TellFalse", "StoreFalse">>
SetCriticalTimer == Raise
CancelCriticalTimer == <<"CancelTimer">> \o Lower
SaveCopy == SetCriticalTimer \o <<"SaveData">>
ClearInner == <<"Erase", "IfNone">> \o CancelCriticalTimer
RefreshCriticalState == <<"HasWork", "TellWork", "StoreWork">>
ClearAgedData == <<"Erase">> \o RefreshCriticalState
CriticalTask == <<"IfNone">> \o Lower

CriticalInit ==
    /\ running = TRUE /\ clips = {} /\ fetched = {} /\ aging = {}
    /\ isCritical = FALSE /\ told = FALSE /\ timer = FALSE
    /\ jobs = <<>> /\ orderly = TRUE /\ starts = 0

-----------------------------------------------------------------------------
(* The threads.                                                            *)

Lowers(todo) == \E s \in {"Erase", "IfNone", "CancelTimer"} : Contains(todo, s)

Start(u, todo) ==
    /\ Len(jobs) < MaxJobs
    /\ jobs' = Append(jobs, [user |-> u, todo |-> todo, lowers |-> Lowers(todo), has |-> FALSE])
    /\ orderly' = (orderly /\ (jobs = <<>> \/ ~(Lowers(todo) \/ \E j \in Range(jobs) : j.lowers)))

ToDo(i, step) == i \in DOMAIN jobs /\ Head(jobs[i].todo) = step

\* Thread i goes on with j, n steps further on.
Goes(i, j, n) ==
    jobs' = IF Len(j.todo) = n THEN RemoveAt(jobs, i)
            ELSE [jobs EXCEPT ![i] = [j EXCEPT !.todo = SubSeq(@, n + 1, Len(@))]]
Stops(i) == jobs' = RemoveAt(jobs, i)

SetTimer(i) ==
    /\ ToDo(i, "SetTimer") /\ timer' = TRUE /\ Goes(i, jobs[i], 1)
    /\ UNCHANGED <<running, clips, fetched, aging, isCritical, told, orderly, starts>>

\* isCritical_ is loaded; nothing is told to a memory manager that should know.
TellTrue(i) ==
    /\ ToDo(i, "TellTrue")
    /\ told' = (told \/ ~isCritical)
    /\ Goes(i, jobs[i], IF isCritical THEN 2 ELSE 1)
    /\ UNCHANGED <<running, clips, fetched, aging, isCritical, timer, orderly, starts>>

StoreTrue(i) ==
    /\ ToDo(i, "StoreTrue") /\ isCritical' = TRUE /\ Goes(i, jobs[i], 1)
    /\ UNCHANGED <<running, clips, fetched, aging, told, timer, orderly, starts>>

\* The clip is stored with its expiration timer, or the copy fails.
SaveData(i) ==
    /\ ToDo(i, "SaveData") /\ Goes(i, jobs[i], 1)
    /\ \/ /\ clips' = clips \cup {jobs[i].user} /\ fetched' = fetched \ {jobs[i].user}
          /\ aging' = aging \cup {jobs[i].user}
       \/ UNCHANGED <<clips, fetched, aging>>
    /\ UNCHANGED <<running, isCritical, told, timer, orderly, starts>>

\* A clear leaves the expiration timer of the clip set.
Erase(i) ==
    /\ ToDo(i, "Erase") /\ Goes(i, jobs[i], 1)
    /\ clips' = clips \ {jobs[i].user} /\ fetched' = fetched \ {jobs[i].user}
    /\ UNCHANGED <<running, aging, isCritical, told, timer, orderly, starts>>

HasActivePasteboardWork == clips # {}
LocalClips == clips \ fetched

IfNone(i) ==
    /\ ToDo(i, "IfNone")
    /\ IF HasActivePasteboardWork THEN Stops(i) ELSE Goes(i, jobs[i], 1)
    /\ UNCHANGED <<running, clips, fetched, aging, isCritical, told, timer, orderly, starts>>

CancelTimer(i) ==
    /\ ToDo(i, "CancelTimer") /\ timer' = FALSE /\ Goes(i, jobs[i], 1)
    /\ UNCHANGED <<running, clips, fetched, aging, isCritical, told, orderly, starts>>

TellFalse(i) ==
    /\ ToDo(i, "TellFalse") /\ told' = FALSE /\ Goes(i, jobs[i], 1)
    /\ UNCHANGED <<running, clips, fetched, aging, isCritical, timer, orderly, starts>>

StoreFalse(i) ==
    /\ ToDo(i, "StoreFalse") /\ isCritical' = FALSE /\ Goes(i, jobs[i], 1)
    /\ UNCHANGED <<running, clips, fetched, aging, told, timer, orderly, starts>>

HasWork(i) ==
    /\ ToDo(i, "HasWork")
    /\ Goes(i, [jobs[i] EXCEPT !.has = HasActivePasteboardWork], 1)
    /\ UNCHANGED <<running, clips, fetched, aging, isCritical, told, timer, orderly, starts>>

TellWork(i) ==
    /\ ToDo(i, "TellWork") /\ told' = jobs[i].has /\ Goes(i, jobs[i], 1)
    /\ UNCHANGED <<running, clips, fetched, aging, isCritical, timer, orderly, starts>>

StoreWork(i) ==
    /\ ToDo(i, "StoreWork") /\ isCritical' = jobs[i].has /\ Goes(i, jobs[i], 1)
    /\ UNCHANGED <<running, clips, fetched, aging, told, timer, orderly, starts>>

-----------------------------------------------------------------------------
(* What starts them.                                                       *)

MayStart == starts < MaxStarts /\ starts' = starts + 1

\* A copy; the switch of the distributed pasteboard, which raises the state too.
Copies(u) ==
    /\ running /\ MayStart /\ Start(u, SaveCopy)
    /\ UNCHANGED <<running, clips, fetched, aging, isCritical, told, timer>>

ConfigOn ==
    /\ running /\ MayStart /\ \E u \in Owners : Start(u, SetCriticalTimer)
    /\ UNCHANGED <<running, clips, fetched, aging, isCritical, told, timer>>

\* GetRemotePasteData stores a peer's clip, whoever's clip it replaces, and sets its
\* expiration timer; it does not raise the state.
RemoteInstalled(u) ==
    /\ MayStart
    /\ clips' = clips \cup {u} /\ fetched' = fetched \cup {u} /\ aging' = aging \cup {u}
    /\ UNCHANGED <<running, isCritical, told, timer, jobs, orderly>>

\* Clear, and a user's stop or switch of sub-profile (ClearByEventUser, ClearByUser).
ClearClip(u) ==
    /\ running /\ MayStart /\ Start(u, ClearInner)
    /\ UNCHANGED <<running, clips, fetched, aging, isCritical, told, timer>>

\* Mutant: an aged clip is only erased.
AgedErased(u) ==
    /\ u \in aging /\ aging' = aging \ {u} /\ Start(u, <<"Erase">>)
    /\ UNCHANGED <<running, clips, fetched, isCritical, told, timer, starts>>

DataExpires(u) ==
    /\ u \in aging /\ aging' = aging \ {u} /\ Start(u, ClearAgedData)
    /\ UNCHANGED <<running, clips, fetched, isCritical, told, timer, starts>>

TimerExpires ==
    /\ timer /\ timer' = FALSE /\ \E u \in Owners : Start(u, CriticalTask)
    /\ UNCHANGED <<running, clips, fetched, aging, isCritical, told, starts>>

OnStop ==
    /\ running /\ running' = FALSE /\ MayStart
    /\ \E u \in Owners : Start(u, CancelCriticalTimer)
    /\ UNCHANGED <<clips, fetched, aging, isCritical, told, timer>>

\* The listener OnStart adds reports the memory manager.
OnStart ==
    /\ ~running /\ running' = TRUE /\ MayStart
    /\ \E u \in Owners : Start(u, SetCriticalTimer)
    /\ UNCHANGED <<clips, fetched, aging, isCritical, told, timer>>

\* A new memory manager knows nothing of the process, and isCritical_ keeps
\* SetCriticalTimer from telling it.
OnAddMemoryManager ==
    /\ running /\ MayStart /\ Len(jobs) < MaxJobs
    /\ jobs' = Append(jobs, [user |-> CHOOSE u \in Owners : TRUE, todo |-> SetCriticalTimer,
                            lowers |-> FALSE, has |-> FALSE])
    /\ told' = FALSE /\ orderly' = (orderly /\ ~isCritical /\ jobs = <<>>)
    /\ UNCHANGED <<running, clips, fetched, aging, isCritical, timer>>

CriticalNext ==
    \/ \E i \in DOMAIN jobs :
          \/ SetTimer(i) \/ TellTrue(i) \/ StoreTrue(i) \/ SaveData(i) \/ Erase(i) \/ IfNone(i)
          \/ CancelTimer(i) \/ TellFalse(i) \/ StoreFalse(i)
          \/ HasWork(i) \/ TellWork(i) \/ StoreWork(i)
    \/ \E u \in Owners : Copies(u) \/ RemoteInstalled(u) \/ ClearClip(u) \/ DataExpires(u)
    \/ ConfigOn \/ TimerExpires \/ OnStop \/ OnStart \/ OnAddMemoryManager

-----------------------------------------------------------------------------
\* Once the threads have ended the memory manager knows the process as isCritical_ says, as
\* critical while it holds a clip copied here by any user, and as critical without any clip
\* only until the timer looks again.  Exceptions: a clip fetched from a peer, for which
\* nobody raises the state (GetRemotePasteData); a thread that lowers the state has
\* overlapped another (a copy raises the state before its clip is there, and
\* HasActivePasteboardWork is read before the manager is told); the memory manager was
\* restarted while isCritical_ was set (SetCriticalTimer, RefreshCriticalState,
\* CancelCriticalTimer).
CriticalKnown ==
    running /\ jobs = <<>> /\ orderly =>
        /\ told = isCritical
        /\ LocalClips # {} => told
        /\ ~HasActivePasteboardWork /\ ~timer => ~told

=============================================================================
