-------------------------- MODULE PastePermission --------------------------
(***************************************************************************)
(* Which paste is let through (VerifyPermission and InputEventCallback of  *)
(* pasteboard_service.cpp): by a permission, by the kind or the age of the *)
(* application, or by a recent Ctrl+V in its window or under its focus.    *)
(***************************************************************************)
EXTENDS Naturals

CONSTANTS Apps,        \* applications: a token and a process each
          Granted,     \* those with a paste permission
          Native,      \* those that are no HAP (native and shell tokens)
          Old,         \* those of an SDK without the permission check
          NoApp,
          MaxPresses

ASSUME PermissionAssumption ==
    /\ Granted \cup Native \cup Old \subseteq Apps
    /\ NoApp \notin Apps
    /\ MaxPresses \in Nat

VARIABLES
    monitored,         \* inputEventCallback_ is there
    windowPid, fresh,  \* the window of the last Ctrl+V; actionTime_ is recent
    focused,           \* the application that has the focus
    readers,           \* how far the paste of each application is
    locker,            \* the paste that holds eventMutex_
    presses, used      \* how often Ctrl+V was pressed, how often it let a paste through

permissionVars == <<monitored, windowPid, fresh, focused, readers, locker, presses, used>>

PermissionInit ==
    /\ monitored = FALSE /\ windowPid = NoApp /\ fresh = FALSE
    /\ focused \in Apps
    /\ readers = [a \in Apps |-> "idle"] /\ locker = NoApp
    /\ presses = 0 /\ used = 0

-----------------------------------------------------------------------------
(* The key events.                                                         *)

\* At the end of a copy, and when the distributed pasteboard is switched on.
SubscribeKeyboardEvent ==
    /\ ~monitored /\ locker = NoApp
    /\ monitored' = TRUE
    /\ UNCHANGED <<windowPid, fresh, focused, readers, locker, presses, used>>

\* It takes inputEventMutex_ and not eventMutex_: a paste may be in its wait.
OnKeyInputEventForPaste(a) ==
    /\ monitored
    /\ presses < MaxPresses /\ presses' = presses + 1
    /\ windowPid' = a /\ fresh' = TRUE
    /\ UNCHANGED <<monitored, focused, readers, locker, used>>

\* EVENT_TIME_OUT has gone by since actionTime_.
EventTimeOut ==
    /\ fresh /\ fresh' = FALSE
    /\ UNCHANGED <<monitored, windowPid, focused, readers, locker, presses, used>>

FocusMoves(a) ==
    /\ a # focused /\ focused' = a
    /\ UNCHANGED <<monitored, windowPid, fresh, readers, locker, presses, used>>

-----------------------------------------------------------------------------
(* VerifyPermission, at the start of GetPasteDataInner.                    *)

At(a, step) == readers[a] = step
To(a, step) == readers' = [readers EXCEPT ![a] = step]

\* GetHapTokenInfo may fail for a HAP, which is then refused.
GetSdkVersion(a) ==
    IF a \in Native THEN {"old"} ELSE {"unknown", IF a \in Old THEN "old" ELSE "new"}

IsFocusedApp(a) == a \in Native \/ a = focused

\* The permissions; without one the paste goes on to the key events.
VerifyPermission(a) ==
    /\ At(a, "idle")
    /\ \E version \in GetSdkVersion(a) :
          To(a, IF version = "unknown" THEN "refused" ELSE IF a \in Granted THEN "read" ELSE "enter")
    /\ UNCHANGED <<monitored, windowPid, fresh, focused, locker, presses, used>>

\* eventMutex_ is taken and the focus read, before the wait for the key event.
EnterCtrlV(a) ==
    /\ At(a, "enter") /\ locker = NoApp /\ locker' = a
    /\ To(a, CASE ~monitored -> "noPress"
               [] monitored /\ IsFocusedApp(a) -> "waitFocused"
               [] OTHER -> "wait")
    /\ UNCHANGED <<monitored, windowPid, fresh, focused, presses, used>>

\* The wait has ended: the block of the process was set, or WAIT_TIME_OUT is over.
IsCtrlVProcess(a) ==
    /\ At(a, "wait") \/ At(a, "waitFocused")
    /\ LET ret == (windowPid = a \/ At(a, "waitFocused")) /\ fresh
       IN /\ To(a, IF ret THEN "press" ELSE "noPress")
          /\ used' = IF ret THEN used + 1 ELSE used
    /\ UNCHANGED <<monitored, windowPid, fresh, focused, locker, presses>>

\* The native and shell tokens and the old applications need no key event.
Decide(a) ==
    /\ At(a, "press") \/ At(a, "noPress")
    /\ locker' = NoApp
    /\ To(a, IF At(a, "press") \/ a \in Native \cup Old THEN "read" ELSE "refused")
    /\ UNCHANGED <<monitored, focused, presses, used>>

\* Mutant: the time of the key event is kept.
ClearWindow(a) == windowPid' = NoApp /\ UNCHANGED fresh /\ Decide(a)

\* Whatever IsCtrlVProcess said, the key event is forgotten; it may be that of another
\* application, or one that has arrived since.
Clear(a) == windowPid' = NoApp /\ fresh' = FALSE /\ Decide(a)

\* The paste reads the clip, or PERMISSION_VERIFICATION_ERROR is its answer.
EndPaste(a) ==
    /\ At(a, "read") \/ At(a, "refused")
    /\ To(a, "idle")
    /\ UNCHANGED <<monitored, windowPid, fresh, focused, locker, presses, used>>

PermissionNext ==
    \/ SubscribeKeyboardEvent \/ EventTimeOut
    \/ \E a \in Apps :
          \/ OnKeyInputEventForPaste(a) \/ FocusMoves(a)
          \/ VerifyPermission(a) \/ EnterCtrlV(a) \/ IsCtrlVProcess(a) \/ Clear(a) \/ EndPaste(a)

-----------------------------------------------------------------------------
\* One press of Ctrl+V lets at most one paste through, whoever pastes: VerifyPermission
\* holds eventMutex_ from before IsCtrlVProcess until Clear has forgotten the key event.
OnePressOnePaste == used <= presses

=============================================================================
