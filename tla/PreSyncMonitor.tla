--------------------------- MODULE PreSyncMonitor ---------------------------
(***************************************************************************)
(* The monitor of user input that has the next clip of a peer fetched      *)
(* ahead (pasteboard_service.cpp): the clip plugin asks for it, a timer    *)
(* ends it.  Both tasks run on threads of their own and subscribeActiveId_ *)
(* has no lock.                                                            *)
(***************************************************************************)
EXTENDS Naturals, FiniteSets

CONSTANTS MonitorThreads, MaxAsks    \* threads at once; callbacks of the plugin

ASSUME MonitorAssumption == MaxAsks \in Nat

INVALID_SUBSCRIBE_ID == 0

VARIABLES
    subscribeActiveId_,
    monitors,           \* what the input manager has subscribed
    registerTasks,      \* REGISTER_PRESYNC_MONITOR, without delay: tasks that wait to run
    unregisterTimer,    \* UNREGISTER_PRESYNC_MONITOR is set
    monitorThreads,     \* how far each thread has got
    asks, numbers,      \* callbacks so far; identifiers given so far
    overlapped          \* two threads have been at work at once

monitorVars == <<subscribeActiveId_, monitors, registerTasks, unregisterTimer, monitorThreads,
                 asks, numbers, overlapped>>

MonitorInit ==
    /\ subscribeActiveId_ = INVALID_SUBSCRIBE_ID /\ monitors = {}
    /\ registerTasks = 0 /\ unregisterTimer = FALSE
    /\ monitorThreads = [t \in MonitorThreads |-> "free"]
    /\ asks = 0 /\ numbers = 0 /\ overlapped = FALSE

FreeThreads == {t \in MonitorThreads : monitorThreads[t] = "free"}
StepOf(t, from, to) == monitorThreads[t] = from /\ monitorThreads' = [monitorThreads EXCEPT ![t] = to]

\* FFRTTimer: a task without delay is submitted at once, a timer set again replaces the
\* one that is set; the task starts a thread.
SubmitDelayTask == unregisterTimer' = TRUE
SubmitTask == registerTasks' = registerTasks + 1
Starts(t, step) ==
    /\ StepOf(t, "free", step)
    /\ overlapped' = (overlapped \/ FreeThreads # MonitorThreads)

-----------------------------------------------------------------------------
PreSyncSwitchMonitorCallback ==
    /\ asks < MaxAsks /\ asks' = asks + 1
    /\ SubmitTask
    /\ UNCHANGED <<subscribeActiveId_, monitors, unregisterTimer, monitorThreads, numbers, overlapped>>

RegisterFires(t) ==
    /\ registerTasks > 0 /\ registerTasks' = registerTasks - 1
    /\ Starts(t, "register")
    /\ UNCHANGED <<subscribeActiveId_, monitors, unregisterTimer, asks, numbers>>

\* Mutant: a monitor that is there is not looked for.
SubscribeAnyway(t) ==
    /\ StepOf(t, "register", "subscribe")
    /\ UNCHANGED <<subscribeActiveId_, monitors, registerTasks, unregisterTimer, asks, numbers, overlapped>>

\* A monitor that is there is kept, for longer.
RegisterPreSyncMonitor(t) ==
    /\ StepOf(t, "register", IF subscribeActiveId_ # INVALID_SUBSCRIBE_ID THEN "setTimer" ELSE "subscribe")
    /\ UNCHANGED <<subscribeActiveId_, monitors, registerTasks, unregisterTimer, asks, numbers, overlapped>>

SubscribeInputActive(t) ==
    /\ \/ /\ StepOf(t, "subscribe", "setTimer")
          /\ numbers' = numbers + 1
          /\ subscribeActiveId_' = numbers' /\ monitors' = monitors \cup {numbers'}
       \/ /\ StepOf(t, "subscribe", "free")
          /\ subscribeActiveId_' = INVALID_SUBSCRIBE_ID
          /\ UNCHANGED <<monitors, numbers>>
    /\ UNCHANGED <<registerTasks, unregisterTimer, asks, overlapped>>

\* After PRESYNC_MONITOR_TIME the monitor is to end.
SetUnregisterTimer(t) ==
    /\ StepOf(t, "setTimer", "free")
    /\ SubmitDelayTask
    /\ UNCHANGED <<subscribeActiveId_, monitors, registerTasks, asks, numbers, overlapped>>

UnregisterFires(t) ==
    /\ unregisterTimer /\ unregisterTimer' = FALSE
    /\ Starts(t, "unregister")
    /\ UNCHANGED <<subscribeActiveId_, monitors, registerTasks, asks, numbers>>

UnRegisterPreSyncMonitor(t) ==
    /\ StepOf(t, "unregister", IF subscribeActiveId_ # INVALID_SUBSCRIBE_ID THEN "unsubscribe" ELSE "free")
    /\ UNCHANGED <<subscribeActiveId_, monitors, registerTasks, unregisterTimer, asks, numbers, overlapped>>

UnsubscribeInputActive(t) ==
    /\ StepOf(t, "unsubscribe", "reset")
    /\ monitors' = monitors \ {subscribeActiveId_}
    /\ UNCHANGED <<subscribeActiveId_, registerTasks, unregisterTimer, asks, numbers, overlapped>>

ResetId(t) ==
    /\ StepOf(t, "reset", "free")
    /\ subscribeActiveId_' = INVALID_SUBSCRIBE_ID
    /\ UNCHANGED <<monitors, registerTasks, unregisterTimer, asks, numbers, overlapped>>

MonitorNext ==
    \/ PreSyncSwitchMonitorCallback
    \/ \E t \in MonitorThreads :
          \/ RegisterFires(t) \/ RegisterPreSyncMonitor(t) \/ SubscribeInputActive(t) \/ SetUnregisterTimer(t)
          \/ UnregisterFires(t) \/ UnRegisterPreSyncMonitor(t) \/ UnsubscribeInputActive(t) \/ ResetId(t)

-----------------------------------------------------------------------------
\* Whenever no thread is at work the monitor the service knows is about to be ended by the
\* timer, however the threads have overlapped; and the input manager has no monitor the
\* service does not know, unless two threads have been at work at once
\* (RegisterPreSyncMonitor, UnRegisterPreSyncMonitor).
MonitorEnds ==
    /\ FreeThreads = MonitorThreads /\ subscribeActiveId_ # INVALID_SUBSCRIBE_ID => unregisterTimer
    /\ overlapped \/ monitors \subseteq {subscribeActiveId_}

=============================================================================
