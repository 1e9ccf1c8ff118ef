-------------------------- MODULE DistributedSync --------------------------
(***************************************************************************)
(* Publishing local copies to the peers: SetDistributedData stamps an      *)
(* event and starts a detached thread (SetCurrentDistributedData), which   *)
(* registers the event in setDistributedMemory_ and, if no other thread    *)
(* does so already, runs the loop that lets one inner thread after another *)
(* hand the latest copy to the plugin (SetCurrentData).  An inner thread   *)
(* that does not answer within SET_DISTRIBUTED_DATA_INTERVAL is left to    *)
(* itself and the loop goes on.                                            *)
(*                                                                         *)
(* Copies are numbered by the order of SetDistributedData; an event is     *)
(* modelled by the number of its copy, its seqId is that number modulo     *)
(* SeqMod.  The plugin is external: it stores what SetPasteData gives it.  *)
(***************************************************************************)
EXTENDS Integers, Sequences, FiniteSets

CONSTANTS
  SeqMod,       \* seqId is a uint16_t: 2^16 in the code
  MaxCopies,    \* bound: copies made
  MaxTimeouts   \* bound: inner threads that overrun their interval

ASSUME SeqModAssumption == SeqMod \in Nat \ {0}
ASSUME BoundsAssumption == MaxCopies \in Nat /\ MaxTimeouts \in Nat

VARIABLES
  copies,       \* how many events were stamped; sequenceId_ = copies % SeqMod
  waiting,      \* outer threads started and not yet at the lock, by their event
  registered,   \* history: events in the order they took the lock
  latestEvent, latestData, currentEvent, isRunning,   \* setDistributedMemory_
  loop,         \* the thread in the loop: [pc, isNeedCheck, inner]
  inner,        \* inner threads in the order they were started: [pc, event, data]
  answered,     \* blocks whose value was set
  published,    \* history: what was handed to the plugin, in order: [event, inTime]
  handled,      \* history: events an inner thread took and finished with
  timeouts      \* history: intervals overrun

memory == <<latestEvent, latestData, currentEvent, isRunning>>
vars == <<copies, waiting, registered, memory, loop, inner, answered,
          published, handled, timeouts>>

NoLoop == [pc |-> "none", isNeedCheck |-> FALSE, inner |-> 0]
SeqId(e) == e % SeqMod

\* Between two events seqId went through all of its values.
Lapped(d, e) == d - e >= SeqMod \/ e - d >= SeqMod

Init ==
  /\ copies = 0
  /\ waiting = {} /\ registered = << >>
  /\ latestEvent = 0 /\ latestData = 0 /\ currentEvent = 0 /\ isRunning = FALSE
  /\ loop = NoLoop
  /\ inner = << >> /\ answered = {}
  /\ published = << >> /\ handled = {} /\ timeouts = 0

\* SetDistributedData for a copy that may leave the device.
SetDistributedData ==
  /\ copies < MaxCopies
  /\ copies' = copies + 1
  /\ waiting' = waiting \cup {copies + 1}
  /\ UNCHANGED <<registered, memory, loop, inner, answered, published, handled, timeouts>>

\* The event is stamped, but a constraint, the display, the missing plugin or
\* the share option keeps the copy on the device.
CopyStaysLocal ==
  /\ copies < MaxCopies
  /\ copies' = copies + 1
  /\ UNCHANGED <<waiting, registered, memory, loop, inner, answered, published, handled,
                 timeouts>>

\* Lines 4333-4337: the thread registers its event; it runs the loop unless
\* another one is running it.
RegisterLatest(e) ==
  /\ e \in waiting
  /\ waiting' = waiting \ {e}
  /\ registered' = Append(registered, e)
  /\ latestEvent' = e
  /\ latestData' = e
  /\ isRunning' = TRUE
  /\ loop' = IF isRunning THEN loop ELSE [pc |-> "check", isNeedCheck |-> FALSE, inner |-> 0]
  /\ UNCHANGED <<copies, currentEvent, inner, answered, published, handled, timeouts>>

\* Mutant: the loop ends after the first inner thread, without looking again.
DoneAfterFirst == loop.isNeedCheck \/ latestData = 0

\* Lines 4343-4350: nothing newer arrived since the last inner thread took the
\* latest event.
NothingNewer ==
  \/ SeqId(currentEvent) = SeqId(latestEvent) /\ loop.isNeedCheck
  \/ latestData = 0

LoopStops ==
  /\ loop.pc = "check"
  /\ NothingNewer
  /\ latestData' = 0
  /\ isRunning' = FALSE
  /\ loop' = NoLoop
  /\ UNCHANGED <<copies, waiting, registered, latestEvent, currentEvent, inner, answered,
                 published, handled, timeouts>>

LoopStartsInner ==
  /\ loop.pc = "check"
  /\ ~NothingNewer
  /\ inner' = Append(inner, [pc |-> "take", event |-> 0, data |-> 0])
  /\ loop' = [pc |-> "wait", isNeedCheck |-> TRUE, inner |-> Len(inner) + 1]
  /\ UNCHANGED <<copies, waiting, registered, memory, answered, published, handled, timeouts>>

\* block->GetValue() returns because the inner thread answered ...
LoopAnswered ==
  /\ loop.pc = "wait"
  /\ loop.inner \in answered
  /\ loop' = [pc |-> "check", isNeedCheck |-> loop.isNeedCheck, inner |-> 0]
  /\ UNCHANGED <<copies, waiting, registered, memory, inner, answered, published, handled,
                 timeouts>>

\* ... or because the interval is over.
LoopTimesOut ==
  /\ loop.pc = "wait"
  /\ loop.inner \notin answered
  /\ timeouts < MaxTimeouts
  /\ timeouts' = timeouts + 1
  /\ loop' = [pc |-> "check", isNeedCheck |-> loop.isNeedCheck, inner |-> 0]
  /\ UNCHANGED <<copies, waiting, registered, memory, inner, answered, published, handled>>

-----------------------------------------------------------------------------
(* SetCurrentData, in inner thread i *)

Ends(i) ==
  /\ inner' = [inner EXCEPT ![i].pc = "ended"]
  /\ answered' = answered \cup {i}

\* Mutant: the thread does not note in currentEvent what it took.
InnerTakesSilently(i) ==
  /\ inner[i].pc = "take"
  /\ latestData # 0
  /\ inner' = [inner EXCEPT ![i] = [pc |-> "send", event |-> latestEvent, data |-> latestData]]
  /\ UNCHANGED <<copies, waiting, registered, memory, loop, answered, published, handled,
                 timeouts>>

InnerTakes(i) ==
  /\ inner[i].pc = "take"
  /\ latestData # 0
  /\ currentEvent' = latestEvent
  /\ inner' = [inner EXCEPT ![i] = [pc |-> "send", event |-> latestEvent, data |-> latestData]]
  /\ UNCHANGED <<copies, waiting, registered, latestEvent, latestData, isRunning, loop,
                 answered, published, handled, timeouts>>

InnerFindsNothing(i) ==
  /\ inner[i].pc = "take"
  /\ latestData = 0
  /\ Ends(i)
  /\ UNCHANGED <<copies, waiting, registered, memory, loop, published, handled, timeouts>>

\* The loop is still waiting for thread i: its interval is not over.
InTime(i) == loop.pc = "wait" /\ loop.inner = i

InnerPublishes(i) ==
  /\ inner[i].pc = "send"
  /\ published' = Append(published, [event |-> inner[i].data, inTime |-> InTime(i)])
  /\ handled' = handled \cup {inner[i].event}
  /\ Ends(i)
  /\ UNCHANGED <<copies, waiting, registered, memory, loop, timeouts>>

\* The plugin is gone or the copy cannot be encoded.
InnerFails(i) ==
  /\ inner[i].pc = "send"
  /\ handled' = handled \cup {inner[i].event}
  /\ Ends(i)
  /\ UNCHANGED <<copies, waiting, registered, memory, loop, published, timeouts>>

LoopStep == LoopStops \/ LoopStartsInner \/ LoopAnswered
InnerStep(i) == InnerTakes(i) \/ InnerFindsNothing(i) \/ InnerPublishes(i) \/ InnerFails(i)

Next ==
  \/ SetDistributedData
  \/ CopyStaysLocal
  \/ \E e \in waiting : RegisterLatest(e)
  \/ LoopStep
  \/ LoopTimesOut
  \/ \E i \in DOMAIN inner : InnerStep(i)

Spec == Init /\ [][Next]_vars

\* Detached threads run to their end; the plugin answers every call.
Fairness ==
  /\ WF_vars(\E e \in waiting : RegisterLatest(e))
  /\ WF_vars(LoopStep)
  /\ WF_vars(\E i \in DOMAIN inner : InnerStep(i))

FairSpec == Spec /\ Fairness

-----------------------------------------------------------------------------
(* Properties *)

Event == 0..MaxCopies

\* Every variable has the shape the code gives it.
TypeOK ==
  /\ copies \in Event
  /\ waiting \subseteq Event \ {0}
  /\ registered \in Seq(Event \ {0})
  /\ latestEvent \in Event /\ latestData \in Event /\ currentEvent \in Event
  /\ isRunning \in BOOLEAN
  /\ loop \in [pc : {"none", "check", "wait"}, isNeedCheck : BOOLEAN, inner : Nat]
  /\ inner \in Seq([pc : {"take", "send", "ended"}, event : Event, data : Event])
  /\ answered \subseteq DOMAIN inner
  /\ published \in Seq([event : Event \ {0}, inTime : BOOLEAN])
  /\ handled \subseteq Event \ {0}
  /\ timeouts \in 0..MaxTimeouts

\* A copy registered while the loop is running is not forgotten when the loop
\* ends (SetCurrentDistributedData, 4338-4350): whenever no loop runs, the latest
\* registered event has been taken by an inner thread (which publishes it, or is
\* still about to).  The one exception: seqId went once round between the event
\* taken last and the latest one, so that the two can bear the same number.
NoEventStranded ==
  ~isRunning => currentEvent = latestEvent \/ Lapped(currentEvent, latestEvent)

Position(e) == CHOOSE k \in DOMAIN registered : registered[k] = e

\* The peers see the copies in the order in which their threads took the lock
\* (SetCurrentDistributedData, SetCurrentData), each at most once: what a thread
\* hands to the plugin within its interval is never older in that order than, nor
\* the same as, what another one handed over within its own, no matter which
\* threads overran theirs meanwhile, when they go on, and whether numbers wrap.
\* Two things are not promised.  What an overrun thread publishes late may be older
\* than what the peers have.  And the order is that of the lock: two threads may
\* take it in another order than their copies were made.
PublishedInOrder ==
  \A j, k \in DOMAIN published :
    j < k /\ published[j].inTime /\ published[k].inTime =>
      Position(published[j].event) < Position(published[k].event)

\* The copy that is registered last is eventually handed to the plugin (or given
\* up because the plugin is gone), even if every newer one stays local; unless the
\* loop ended over a number that went once round (see NoEventStranded).
LatestHandled ==
  \A e \in 1..MaxCopies :
    latestEvent = e ~> \/ e \in handled \/ latestEvent # e
                       \/ ~isRunning /\ Lapped(currentEvent, latestEvent)

=============================================================================
