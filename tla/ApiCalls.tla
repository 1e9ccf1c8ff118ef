------------------------------ MODULE ApiCalls ------------------------------
(***************************************************************************)
(* Calls of an application's bindings at work: the application's thread    *)
(* with its event loop, the threads that run operations of the client      *)
(* library, and the getters that the application's loop runs for whoever   *)
(* pastes a clip it has copied with data still to come.                    *)
(*                                                                         *)
(* What the user's own getter does is not modelled, only that it returns.  *)
(***************************************************************************)
EXTENDS BoardApi, Sequences

CONSTANTS MaxCalls, MaxWorks   \* bounds on calls and on getters that are run

ASSUME ApiAssumption == MaxCalls \in Nat /\ MaxWorks \in Nat

Apis == NapiCalls \cup TaiheCalls \cup NdkCalls \cup CjCalls

VARIABLES
    calls,         \* the calls made, each with where it is and what it was told
    app,           \* 0 when the loop is free, the call it waits in, or InGetter
    board,         \* the call whose clip is on the clipboard, 0 for any other
    delayGetter,   \* delayGetter_: the call whose getter is kept, or 0
    works,         \* PasteboardDelayWorkers and PasteboardEntryGetterWorkers
    replaced       \* calls whose getter an asynchronous set has replaced

apiVars == <<calls, app, board, delayGetter, works, replaced>>

InGetter == MaxCalls + 1

ApiInit ==
    /\ calls = <<>> /\ works = <<>>
    /\ app = 0 /\ board = 0 /\ delayGetter = 0
    /\ replaced = {}

Set(c, field, value) == calls' = [calls EXCEPT ![c][field] = value]
Waiting(c) == calls[c].at \in {"queued", "getting"}
Over(c) == calls[c].at = "over"

\* The worker and the thread of a call hold the getter; PasteboardDelayGetterImpl
\* only has a weak pointer to it.  The getter of an entry is held by its own stub.
GetterAlive(c) ==
    \/ calls[c].getter = "entry"
    \/ delayGetter = c
    \/ ~Over(c)
    \/ \E w \in DOMAIN works : works[w].of = c /\ works[w].freed = 0

-----------------------------------------------------------------------------
(* Calls.                                                                  *)

Start(a) ==
    /\ app = 0 /\ Len(calls) < MaxCalls
    /\ \E g \in a.op.getters :
         calls' = Append(calls, [api |-> a, getter |-> g, at |-> "queued", result |-> "none",
                                 told |-> "nothing"])
    /\ app' = IF a.how = "async" THEN 0 ELSE Len(calls) + 1
    /\ UNCHANGED <<board, delayGetter, works, replaced>>

\* The operation of the client library, without a getter to wait for.
Run(c) ==
    /\ calls[c].at = "queued"
    /\ \E r \in calls[c].api.op.outcomes :
         /\ calls' = [calls EXCEPT ![c].at = "ran", ![c].result = r]
         /\ board' = CASE calls[c].api.op.kind = "set" /\ r = "ok" -> c
                       [] calls[c].api.op.kind = "clear" -> 0
                       [] OTHER -> board
    /\ UNCHANGED <<app, delayGetter, works, replaced>>

Keep(c) ==
    IF calls[c].result \in calls[c].api.keeps
    THEN /\ delayGetter' = IF calls[c].getter = "unified" THEN c ELSE 0
         /\ replaced' = IF calls[c].api.how = "async" THEN replaced \cup {delayGetter} ELSE replaced
    ELSE UNCHANGED <<delayGetter, replaced>>

Told(c, result) == IF result \in calls[c].api.errors THEN "error" ELSE "done"

\* AsyncCall::OnComplete, or the caller's thread that has its result.
Answer(c) ==
    /\ calls[c].at = "ran" /\ calls[c].told = "nothing"
    /\ app = IF calls[c].api.how = "async" THEN 0 ELSE c
    /\ calls' = [calls EXCEPT ![c].at = "over", ![c].told = Told(c, calls[c].result)]
    /\ app' = 0
    /\ Keep(c)
    /\ UNCHANGED <<board, works>>

\* BlockObject::GetValue gives up; the thread that runs the operation does not.
SyncTimeout(c) ==
    /\ app = c /\ calls[c].api.how = "limited" /\ Waiting(c)
    /\ Set(c, "told", Told(c, "timeout"))
    /\ app' = 0
    /\ UNCHANGED <<board, delayGetter, works, replaced>>

ThreadEnds(c) ==
    /\ calls[c].at = "ran" /\ calls[c].told # "nothing"
    /\ Set(c, "at", "over")
    /\ UNCHANGED <<app, board, delayGetter, works, replaced>>

\* Another application copies.
OtherSets ==
    /\ board # 0 /\ board' = 0
    /\ UNCHANGED <<calls, app, delayGetter, works, replaced>>

-----------------------------------------------------------------------------
(* Getters: GetUnifiedData of the delay getter and GetValueByType of an    *)
(* entry getter, run on a thread of their own.                             *)

\* uv is where the work is: with the pool, posted to the loop, run by it, or over.
NewWork(by) ==
    [of |-> board, by |-> by, uv |-> "pooled", waiting |-> TRUE, complete |-> FALSE,
     clean |-> FALSE, value |-> FALSE, freed |-> 0, usedFreed |-> FALSE]

\* uv_queue_work fails: the worker is freed under the lock it contains.
RefusedWork(by) ==
    [NewWork(by) EXCEPT !.uv = "refused", !.waiting = FALSE, !.freed = 1, !.usedFreed = TRUE]

\* Whom a paste has to wait for: a delayed clip when it is got, a delayed entry
\* when its value is.
Delayed(kind) ==
    /\ board # 0
    /\ calls[board].getter = IF kind = "get" THEN "unified" ELSE "entry"
    /\ GetterAlive(board)

Ask(by) ==
    /\ Len(works) < MaxWorks
    /\ works' = Append(works, NewWork(by))
    /\ UNCHANGED <<app, board, delayGetter, replaced>>

RunGetter(c) ==
    /\ calls[c].at = "queued"
    /\ calls[c].api.op.kind \in {"get", "fetch"} /\ Delayed(calls[c].api.op.kind)
    /\ Set(c, "at", "getting")
    /\ Ask(c)

OtherPastes ==
    /\ Delayed("get") \/ Delayed("fetch")
    /\ Ask(0)
    /\ UNCHANGED calls

QueueRefused ==
    /\ Delayed("get") \/ Delayed("fetch")
    /\ Len(works) < MaxWorks
    /\ works' = Append(works, RefusedWork(0))
    /\ UNCHANGED <<calls, app, board, delayGetter, replaced>>

Update(w, new) == works' = [works EXCEPT ![w] = new]
Freed(k) == [k EXCEPT !.freed = @ + 1]
Used(k) == [k EXCEPT !.usedFreed = @ \/ k.freed > 0]

\* The empty job of the work is done by a thread of the pool.
PoolRuns(w) ==
    /\ works[w].uv = "pooled"
    /\ Update(w, [works[w] EXCEPT !.uv = "posted"])
    /\ UNCHANGED <<calls, app, board, delayGetter, replaced>>

\* The callback with UV_ECANCELED.
LoopCancelled(w) ==
    /\ app = 0 /\ works[w].uv = "cancelled"
    /\ Update(w, Freed([Used(works[w]) EXCEPT !.uv = "over"]))
    /\ UNCHANGED <<calls, app, board, delayGetter, replaced>>

\* The callback calls the user's getter with the worker's lock held, or finds no
\* handle scope and leaves.
LoopCalls(w) ==
    /\ app = 0 /\ works[w].uv = "posted"
    /\ \/ /\ Update(w, [Used(works[w]) EXCEPT !.uv = "running"])
          /\ app' = InGetter
       \/ /\ Update(w, [Used(works[w]) EXCEPT !.uv = "noscope"])
          /\ UNCHANGED app
    /\ UNCHANGED <<calls, board, delayGetter, replaced>>

GetterReturns(w) ==
    /\ works[w].uv = "running"
    /\ \E v \in BOOLEAN :
         LET done == [Used(works[w]) EXCEPT !.uv = "over", !.complete = TRUE, !.value = v]
         IN Update(w, IF done.clean THEN Freed(done) ELSE done)
    /\ app' = 0
    /\ UNCHANGED <<calls, board, delayGetter, replaced>>

\* A paste of this application goes on.
Resume(w) ==
    IF works[w].by = 0 THEN UNCHANGED calls
    ELSE calls' = [calls EXCEPT ![works[w].by].at = "ran", ![works[w].by].result = "ok"]

\* The waiting thread has been notified.  GetValueByType returns a value without
\* freeing anything.
WaitEnds(w) ==
    /\ works[w].waiting /\ works[w].complete
    /\ LET done == [Used(works[w]) EXCEPT !.waiting = FALSE]
       IN Update(w, IF done.value /\ calls[done.of].getter = "entry" THEN done ELSE Freed(done))
    /\ Resume(w)
    /\ UNCHANGED <<app, board, delayGetter, replaced>>

\* Mutant: whoever is late is left to free the worker, also after uv_cancel failed.
TimeoutUnmarked(w) ==
    /\ works[w].waiting /\ ~works[w].complete /\ works[w].uv # "running"
    /\ Update(w, [Used(works[w]) EXCEPT !.waiting = FALSE,
                     !.uv = IF @ = "pooled" THEN "cancelled" ELSE @])
    /\ Resume(w)
    /\ UNCHANGED <<app, board, delayGetter, replaced>>

\* Mutant: the thread waits until it is notified.
TimeoutNever(w) == FALSE /\ UNCHANGED apiVars

\* DELAY_TIMEOUT or ENTRY_GETTER_TIMEOUT is over, and the lock is free.
GetterTimeout(w) ==
    /\ works[w].waiting /\ ~works[w].complete /\ works[w].uv # "running"
    /\ Update(w, [Used(works[w]) EXCEPT !.waiting = FALSE,
                     !.uv = IF @ = "pooled" THEN "cancelled" ELSE @,
                     !.clean = works[w].uv # "pooled"])
    /\ Resume(w)
    /\ UNCHANGED <<app, board, delayGetter, replaced>>

-----------------------------------------------------------------------------
CallStep(c) ==
    \/ Run(c) \/ RunGetter(c)
    \/ Answer(c)
    \/ SyncTimeout(c)
    \/ ThreadEnds(c)

WorkStep(w) ==
    \/ PoolRuns(w) \/ LoopCancelled(w) \/ LoopCalls(w) \/ GetterReturns(w)
    \/ WaitEnds(w) \/ GetterTimeout(w)

ApiNext ==
    \/ \E a \in Apis : Start(a)
    \/ \E c \in DOMAIN calls : CallStep(c)
    \/ \E w \in DOMAIN works : WorkStep(w)
    \/ OtherSets \/ OtherPastes \/ QueueRefused

\* Threads run, a wait that has a limit ends, and the user's getter returns.
ApiFairness ==
    /\ \A c \in 1 .. MaxCalls : WF_apiVars(c \in DOMAIN calls /\ CallStep(c))
    /\ \A w \in 1 .. MaxWorks : WF_apiVars(w \in DOMAIN works /\ WorkStep(w))

-----------------------------------------------------------------------------
(* Whoever copied a clip whose data is still to come, and was told that it *)
(* is done, can be asked for the data as long as the clip is there: the    *)
(* getter behind the weak pointer lives, unless an asynchronous set that   *)
(* failed or ran earlier has taken its place in delayGetter_.              *)
PromisedGetterAlive ==
    \A c \in DOMAIN calls :
        board = c /\ Over(c) /\ calls[c].told = "done" /\ calls[c].getter # "none"
            => GetterAlive(c) \/ c \in replaced

(* The worker that the waiting thread and the event loop share is freed    *)
(* once, by whichever of the two is last, and not used after that; it is   *)
(* never freed when no handle scope could be opened or an entry's value    *)
(* was returned, and used after it was freed when the queue refused it.    *)
WorkFreedOnce ==
    \A w \in DOMAIN works :
        LET k == works[w]
        IN /\ k.freed <= 1
           /\ k.usedFreed => k.uv = "refused"
           /\ k.uv = "over" /\ ~k.waiting
                => k.freed = IF k.value /\ ~k.clean /\ calls[k.of].getter = "entry" THEN 0 ELSE 1

(* Every call is answered in the end, also when the application's thread   *)
(* waits for a paste that waits for a getter that waits for this thread.   *)
CallsTold ==
    \A c \in 1 .. MaxCalls :
        (c \in DOMAIN calls) ~> (c \in DOMAIN calls /\ calls[c].told # "nothing")

=============================================================================
