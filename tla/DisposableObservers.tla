------------------------ MODULE DisposableObservers ------------------------
(***************************************************************************)
(* DisposableManager: a process subscribes an observer that takes the next *)
(* copied text instead of the clipboard.  The observer is used up by the   *)
(* first copy, told that the copy came from another window, or told that   *)
(* its time is over; a later subscription of the process replaces it and   *)
(* the exit of the process drops it.                                       *)
(*                                                                         *)
(* Subscriptions are numbered; disposableInfoList_ holds at most one per   *)
(* process.  What happens under disposableInfoMutex_ is one step.          *)
(***************************************************************************)
EXTENDS Integers, FiniteSets

CONSTANTS
  Pids,       \* processes
  Windows,    \* window ids
  Threads,    \* IPC threads in SubscribeDisposableObserver
  Copiers,    \* IPC threads in SetPasteData, each with its delivering thread
  MaxSubs     \* bound: subscriptions made

ASSUME BoundsAssumption == MaxSubs \in Nat
ASSUME PidsAssumption == Pids # {}

Subs == 1..MaxSubs

VARIABLES
  subs,       \* how many subscriptions were made
  target,     \* targetWindowId of each
  thread,     \* the subscription a thread is about to insert: [pid, sub], sub 0 for none
  list,       \* disposableInfoList_: the subscription of each process, or 0
  armed,      \* processes whose disposable_expiration timer is armed
  expiring,   \* processes whose timer has fired
  alive,      \* processes that are running
  copy,       \* the copiers: [mismatched, matched], subscriptions still to be told
  answers,    \* how often OnTextReceived was called for each subscription
  replaced,   \* history: subscriptions replaced by a later one of their process
  dropped,    \* history: subscriptions dropped because their process exited
  untimed     \* history: subscriptions inserted after their timer had run

vars == <<subs, target, thread, list, armed, expiring, alive, copy, answers, replaced, dropped,
          untimed>>

NoCopy == [mismatched |-> {}, matched |-> {}]
NoPid == CHOOSE p \in Pids : TRUE
Idle == [pid |-> NoPid, sub |-> 0]

Init ==
  /\ subs = 0
  /\ target \in [Subs -> Windows]
  /\ thread = [t \in Threads |-> Idle]
  /\ list = [p \in Pids |-> 0]
  /\ armed = {} /\ expiring = {}
  /\ alive = Pids
  /\ copy = [c \in Copiers |-> NoCopy]
  /\ answers = [n \in Subs |-> 0]
  /\ replaced = {} /\ dropped = {} /\ untimed = {}

Answered(n) == answers' = [answers EXCEPT ![n] = @ + 1]

-----------------------------------------------------------------------------
(* AddDisposableInfo: a valid subscription sets its timer ... *)

Subscribe(t, p) ==
  /\ thread[t].sub = 0
  /\ p \in alive
  /\ subs < MaxSubs
  /\ subs' = subs + 1
  /\ thread' = [thread EXCEPT ![t] = [pid |-> p, sub |-> subs + 1]]
  /\ armed' = armed \cup {p}
  /\ UNCHANGED <<target, list, expiring, alive, copy, answers, replaced, dropped, untimed>>

\* ... and only then takes its place in the list.
Insert(t) ==
  LET p == thread[t].pid
      n == thread[t].sub
  IN
  /\ n # 0
  /\ list' = [list EXCEPT ![p] = n]
  /\ replaced' = replaced \cup ({list[p]} \ {0})
  /\ untimed' = IF p \in armed \cup expiring THEN untimed ELSE untimed \cup {n}
  /\ thread' = [thread EXCEPT ![t] = Idle]
  /\ UNCHANGED <<subs, target, armed, expiring, alive, copy, answers, dropped>>

-----------------------------------------------------------------------------
(* RemoveDisposableInfo, when the time of the subscription is over or its      *)
(* process exits *)

TimerFires(p) ==
  /\ p \in armed
  /\ p \notin expiring
  /\ armed' = armed \ {p}
  /\ expiring' = expiring \cup {p}
  /\ UNCHANGED <<subs, target, thread, list, alive, copy, answers, replaced, dropped, untimed>>

\* Mutant: the observer is told and stays in the list.
ExpireKept(p) ==
  /\ p \in expiring
  /\ expiring' = expiring \ {p}
  /\ IF list[p] = 0 THEN answers' = answers ELSE Answered(list[p])
  /\ UNCHANGED <<subs, target, thread, list, armed, alive, copy, replaced, dropped, untimed>>

\* Mutant: the observer is removed and not told.
ExpireSilently(p) ==
  /\ p \in expiring
  /\ expiring' = expiring \ {p}
  /\ list' = [list EXCEPT ![p] = 0]
  /\ UNCHANGED <<subs, target, thread, armed, alive, copy, answers, replaced, dropped, untimed>>

Expire(p) ==
  /\ p \in expiring
  /\ expiring' = expiring \ {p}
  /\ IF list[p] = 0 THEN answers' = answers ELSE Answered(list[p])
  /\ list' = [list EXCEPT ![p] = 0]
  /\ UNCHANGED <<subs, target, thread, armed, alive, copy, replaced, dropped, untimed>>

AppExit(p) ==
  /\ p \in alive
  /\ alive' = alive \ {p}
  /\ dropped' = dropped \cup ({list[p]} \ {0})
  /\ list' = [list EXCEPT ![p] = 0]
  /\ UNCHANGED <<subs, target, thread, armed, expiring, copy, answers, replaced, untimed>>

-----------------------------------------------------------------------------
(* TryProcessDisposableData, for a copy made while window w has the focus *)

Listed == {list[p] : p \in Pids} \ {0}

ForWindow(w) == {n \in Listed : target[n] = w}

\* Mutant: the list is not cleared.
TakeAndKeep(c, w) ==
  /\ copy[c] = NoCopy
  /\ Listed # {}
  /\ copy' = [copy EXCEPT ![c] = [mismatched |-> Listed \ ForWindow(w), matched |-> ForWindow(w)]]
  /\ UNCHANGED <<subs, target, thread, list, armed, expiring, alive, answers, replaced, dropped,
                 untimed>>

TakeAll(c, w) ==
  /\ copy[c] = NoCopy
  /\ Listed # {}
  /\ copy' = [copy EXCEPT ![c] = [mismatched |-> Listed \ ForWindow(w), matched |-> ForWindow(w)]]
  /\ list' = [p \in Pids |-> 0]
  /\ UNCHANGED <<subs, target, thread, armed, expiring, alive, answers, replaced, dropped, untimed>>

\* ERR_TARGET_MISMATCH to the others first; if they are all, the copy is saved.
ProcessNoMatchInfo(c, n) ==
  /\ n \in copy[c].mismatched
  /\ copy' = [copy EXCEPT ![c].mismatched = @ \ {n}]
  /\ Answered(n)
  /\ UNCHANGED <<subs, target, thread, list, armed, expiring, alive, replaced, dropped, untimed>>

\* The detached thread that fetches the text: it, or an error, goes to the rest.
ProcessMatchedInfo(c, n) ==
  /\ copy[c].mismatched = {}
  /\ n \in copy[c].matched
  /\ copy' = [copy EXCEPT ![c].matched = @ \ {n}]
  /\ Answered(n)
  /\ UNCHANGED <<subs, target, thread, list, armed, expiring, alive, replaced, dropped, untimed>>

-----------------------------------------------------------------------------
CopyStep(c) == \E n \in Subs : ProcessNoMatchInfo(c, n) \/ ProcessMatchedInfo(c, n)

Next ==
  \/ \E t \in Threads : Insert(t) \/ \E p \in Pids : Subscribe(t, p)
  \/ \E p \in Pids : TimerFires(p) \/ Expire(p) \/ AppExit(p)
  \/ \E c \in Copiers : CopyStep(c) \/ \E w \in Windows : TakeAll(c, w)

Spec == Init /\ [][Next]_vars

\* Threads run to their end and timers fire.
Fairness ==
  /\ \A t \in Threads : WF_vars(Insert(t))
  /\ \A p \in Pids : WF_vars(TimerFires(p)) /\ WF_vars(Expire(p))
  /\ \A c \in Copiers : WF_vars(CopyStep(c))

FairSpec == Spec /\ Fairness

-----------------------------------------------------------------------------
(* Properties *)

\* Every variable has the shape the code gives it.
TypeOK ==
  /\ subs \in 0..MaxSubs
  /\ target \in [Subs -> Windows]
  /\ thread \in [Threads -> [pid : Pids, sub : 0..MaxSubs]]
  /\ list \in [Pids -> 0..MaxSubs]
  /\ armed \subseteq Pids /\ expiring \subseteq Pids /\ alive \subseteq Pids
  /\ copy \in [Copiers -> [mismatched : SUBSET Subs, matched : SUBSET Subs]]
  /\ answers \in [Subs -> Nat]
  /\ replaced \subseteq Subs /\ dropped \subseteq Subs /\ untimed \subseteq Subs

\* An observer is disposable: whatever copies, timers, exits and subscriptions
\* race for it, it is called at most once.
CalledAtMostOnce == \A n \in Subs : answers[n] <= 1

Inserting(n) == \E t \in Threads : thread[t].sub = n
Waiting(n) == \E p \in Pids : list[p] = n
BeingTold(n) == \E c \in Copiers : n \in copy[c].mismatched \cup copy[c].matched

Accounted(n) ==
  Inserting(n) \/ Waiting(n) \/ BeingTold(n) \/ answers[n] > 0 \/ n \in replaced \cup dropped

\* No subscription is lost: until it is called, replaced or dropped with its
\* process, it is on its way into the list, in it, or in the hands of a copy.
NoneLost == \A n \in 1..subs : Accounted(n)

\* No subscription waits for ever, even if nothing is copied: unless the timer,
\* which is set first, has run before the subscription is in the list.
NoneWaitsForever == \A n \in Subs : Waiting(n) ~> (~Waiting(n) \/ n \in untimed)
=============================================================================
