------------------------- MODULE ServiceHostProofs -------------------------
(***************************************************************************)
(* Parts of the service that MCServiceHost puts side by side, each proved  *)
(* for any number of applications, processes, threads and events.          *)
(***************************************************************************)
EXTENDS PastePermission, ClipRules, EntityObservers, PreSyncMonitor, CriticalState,
        DistributedSwitch, SequenceTheorems, TLAPS

-----------------------------------------------------------------------------
(* PastePermission.                                                        *)

PermissionSpec == PermissionInit /\ [][PermissionNext]_permissionVars

Locking == {"wait", "waitFocused", "press", "noPress"}

PermissionTypeOK ==
  /\ monitored \in BOOLEAN /\ fresh \in BOOLEAN
  /\ windowPid \in Apps \cup {NoApp} /\ locker \in Apps \cup {NoApp} /\ focused \in Apps
  /\ readers \in [Apps -> {"idle", "enter", "read", "refused"} \cup Locking]
  /\ presses \in Nat /\ used \in Nat

\* The paste that holds eventMutex_ is the only one between the wait and Clear; and a
\* recent key event is still to be used unless that paste has just used it.
PermissionInv ==
  /\ PermissionTypeOK
  /\ \A a \in Apps : readers[a] \in Locking <=> locker = a
  /\ used <= presses
  /\ fresh /\ (\A a \in Apps : readers[a] # "press") => used < presses

LEMMA PermissionStep == PermissionInv /\ [PermissionNext]_permissionVars => PermissionInv'
<1> SUFFICES ASSUME PermissionInv, [PermissionNext]_permissionVars PROVE PermissionInv'
  OBVIOUS
<1> USE PermissionAssumption DEF PermissionInv, PermissionTypeOK, Locking
<1>1. CASE SubscribeKeyboardEvent
  BY <1>1 DEF SubscribeKeyboardEvent
<1>2. CASE EventTimeOut
  BY <1>2 DEF EventTimeOut
<1>3. ASSUME NEW a \in Apps, OnKeyInputEventForPaste(a) PROVE PermissionInv'
  <2>1. /\ PermissionTypeOK' /\ used' <= presses' /\ used' < presses'
    BY <1>3 DEF OnKeyInputEventForPaste
  <2> QED
    BY <1>3, <2>1 DEF OnKeyInputEventForPaste
<1>4. ASSUME NEW a \in Apps, FocusMoves(a) PROVE PermissionInv'
  BY <1>4 DEF FocusMoves
<1>5. ASSUME NEW a \in Apps, VerifyPermission(a) PROVE PermissionInv'
  BY <1>5 DEF VerifyPermission, At, To
<1>6. ASSUME NEW a \in Apps, EnterCtrlV(a) PROVE PermissionInv'
  BY <1>6 DEF EnterCtrlV, At, To
<1>7. ASSUME NEW a \in Apps, IsCtrlVProcess(a) PROVE PermissionInv'
  <2> USE <1>7 DEF IsCtrlVProcess, At, To
  <2>1. readers[a] \in Locking /\ readers[a] # "press" /\ locker = a
    OBVIOUS
  <2>2. \A b \in Apps : readers[b] # "press"
    BY <2>1
  <2>3. readers' \in [Apps -> {"idle", "enter", "read", "refused"} \cup Locking]
    OBVIOUS
  <2>4. \A b \in Apps : readers'[b] \in Locking <=> locker' = b
    BY <2>1
  <2>5. CASE (windowPid = a \/ readers[a] = "waitFocused") /\ fresh
    <3>1. readers'[a] = "press" /\ used' = used + 1 /\ used < presses
      BY <2>2, <2>5
    <3> QED
      BY <2>3, <2>4, <3>1
  <2>6. CASE ~((windowPid = a \/ readers[a] = "waitFocused") /\ fresh)
    <3>1. UNCHANGED <<used, presses, fresh>>
      BY <2>6
    <3> QED
      BY <2>2, <2>3, <2>4, <3>1
  <2> QED
    BY <2>5, <2>6
<1>8. ASSUME NEW a \in Apps, Clear(a) PROVE PermissionInv'
  BY <1>8 DEF Clear, Decide, At, To
<1>9. ASSUME NEW a \in Apps, EndPaste(a) PROVE PermissionInv'
  BY <1>9 DEF EndPaste, At, To
<1>10. CASE UNCHANGED permissionVars
  BY <1>10 DEF permissionVars
<1> QED
  BY <1>1, <1>2, <1>3, <1>4, <1>5, <1>6, <1>7, <1>8, <1>9, <1>10 DEF PermissionNext

\* One press of Ctrl+V lets at most one paste through (VerifyPermission, IsCtrlVProcess,
\* InputEventCallback::Clear), however many applications paste and keys are pressed.
THEOREM PressUsedOnce == PermissionSpec => []OnePressOnePaste
<1>1. PermissionInit => PermissionInv
  <2> SUFFICES ASSUME PermissionInit PROVE PermissionInv
    OBVIOUS
  <2>1. PermissionTypeOK
    BY DEF PermissionInit, PermissionTypeOK
  <2>2. \A a \in Apps : readers[a] \notin Locking /\ locker # a
    BY PermissionAssumption DEF PermissionInit, Locking
  <2> QED
    BY <2>1, <2>2 DEF PermissionInit, PermissionInv
<1>2. PermissionInv => OnePressOnePaste
  BY DEF PermissionInv, OnePressOnePaste
<1> QED
  BY <1>1, <1>2, PermissionStep, PTL DEF PermissionSpec

-----------------------------------------------------------------------------
(* ClipRules.                                                              *)

RulesSpec == RulesInit /\ [][RulesNext]_rulesVars

Wishes == ShareOptions \cup {"none"}

RulesTypeOK ==
  /\ clip \in [token : Tokens \cup {NoToken}, shareOption : Wishes,
               screen : {Default, ScreenLocked, ScreenUnlocked}, isRemote : BOOLEAN,
               unlocked : BOOLEAN, wish : Wishes]
  /\ locked \in BOOLEAN /\ screenStatus \in {Default, ScreenLocked, ScreenUnlocked}
  /\ screenEvents \subseteq {ScreenLocked, ScreenUnlocked}
  /\ options \in [Tokens -> [source : {"none", "MDM", "APP"}, shareOption : Wishes]]
  /\ wish \in [Tokens -> Wishes]
  /\ removing \subseteq Tokens

\* What the clip remembers of its copy is what the service stored with it ...
ClipAsCopied ==
  /\ clip.unlocked => clip.screen = ScreenUnlocked /\ ~clip.isRemote
  /\ clip.wish # "none" =>
       clip.shareOption = clip.wish /\ clip.token \in Tokens /\ ~clip.isRemote

\* ... and what MDM has set is in globalShareOptions_, where no application removes it.
WishKept ==
  \A t \in Tokens : wish[t] # "none" =>
      options[t] = [source |-> "MDM", shareOption |-> wish[t]] /\ t \notin removing

RulesInv == RulesTypeOK /\ ClipAsCopied /\ WishKept

LEMMA RulesStep == RulesInv /\ [RulesNext]_rulesVars => RulesInv'
<1> SUFFICES ASSUME RulesInv, [RulesNext]_rulesVars PROVE RulesInv'
  OBVIOUS
<1> USE RulesAssumption DEF RulesInv, RulesTypeOK, Wishes, Default, ScreenLocked, ScreenUnlocked,
                            screenVars, optionVars, ShareOptions
<1>1. ASSUME NEW t \in Tokens, GetPasteDataInner(t) PROVE RulesInv'
  BY <1>1 DEF GetPasteDataInner, GetPasteData, TakesRemote, RemoteClip, NoClip, ClipAsCopied, WishKept
<1>2. ASSUME NEW t \in Tokens, NEW o \in ShareOptions, SetPasteData(t, o) PROVE RulesInv'
  <2>1. PICK s \in Tokens :
          clip' = [token |-> s, shareOption |-> UpdateShareOption(s, o),
                   screen |-> screenStatus, isRemote |-> FALSE,
                   unlocked |-> ~locked /\ Known, wish |-> wish[s]]
    BY <1>2 DEF SetPasteData, GetDataTokenId, GetScreenStatus
  <2>2. UpdateShareOption(s, o) \in Wishes /\ (wish[s] # "none" => UpdateShareOption(s, o) = wish[s])
    BY DEF UpdateShareOption, WishKept, NoOption
  <2>3. UNCHANGED <<remote, locked, screenStatus, screenEvents, options, removing, wish, changes>>
    BY <1>2 DEF SetPasteData
  <2>4. (~locked /\ Known) \in BOOLEAN /\ (~locked /\ Known => screenStatus = ScreenUnlocked)
    BY DEF Known
  <2>5. RulesTypeOK'
    BY <2>1, <2>2, <2>3, <2>4
  <2>6. ClipAsCopied'
    BY <2>1, <2>2, <2>4 DEF ClipAsCopied
  <2> QED
    BY <2>3, <2>5, <2>6 DEF WishKept
<1>3. ASSUME NEW t \in Tokens, NEW o \in ShareOptions, SetGlobalShareOption(t, o) PROVE RulesInv'
  BY <1>3 DEF SetGlobalShareOption, May, ClipAsCopied, WishKept
<1>4. ASSUME NEW t \in Tokens, NEW o \in ShareOptions, SetAppShareOptions(t, o) PROVE RulesInv'
  BY <1>4 DEF SetAppShareOptions, May, NoOption, ClipAsCopied, WishKept
<1>5. ASSUME NEW t \in Tokens, RemoveGlobalShareOption(t) PROVE RulesInv'
  BY <1>5 DEF RemoveGlobalShareOption, May, NoOption, ClipAsCopied, WishKept
<1>6. ASSUME NEW t \in Tokens, RemoveAppShareOptions(t) PROVE RulesInv'
  BY <1>6 DEF RemoveAppShareOptions, ClipAsCopied, WishKept
<1>7. ASSUME NEW t \in Tokens, EraseAppShareOption(t) PROVE RulesInv'
  BY <1>7 DEF EraseAppShareOption, NoOption, ClipAsCopied, WishKept
<1>8. CASE ScreenChanges
  BY <1>8 DEF ScreenChanges, May, ClipAsCopied, WishKept
<1>9. CASE HandleScreenLocked
  BY <1>9 DEF HandleScreenLocked, HandleScreen, ClipAsCopied, WishKept
<1>10. CASE HandleScreenUnlocked
  BY <1>10 DEF HandleScreenUnlocked, HandleScreen, ClipAsCopied, WishKept
<1>11. CASE HandleUserStopping
  BY <1>11 DEF HandleUserStopping, NoClip, ClipAsCopied, WishKept
<1>12. CASE PeerCopies
  BY <1>12 DEF PeerCopies, May, ClipAsCopied, WishKept
<1>13. CASE UNCHANGED rulesVars
  BY <1>13 DEF rulesVars, ClipAsCopied, WishKept
<1> QED
  BY <1>1, <1>2, <1>3, <1>4, <1>5, <1>6, <1>7, <1>8, <1>9, <1>10, <1>11, <1>12, <1>13 DEF RulesNext

LEMMA ClipIsNeither ==
  ASSUME RulesInv, clip.unlocked \/ clip.wish # "none"
  PROVE  clip # NoClip /\ clip # RemoteClip /\ ~clip.isRemote
<1>1. clip # NoClip /\ ~clip.isRemote
  BY DEF RulesInv, ClipAsCopied, NoClip
<1>2. RemoteClip.isRemote
  <2>1. "isRemote" \in DOMAIN NoClip
    BY DEF NoClip
  <2> QED
    BY <2>1 DEF RemoteClip
<1> QED
  BY <1>1, <1>2

LEMMA LockedClipKept == RulesInv => LockedKept
<1> SUFFICES ASSUME RulesInv, clip.unlocked, locked, Known, NEW t \in Tokens
             PROVE  clip \notin Answers(t)
  BY DEF LockedKept
<1> USE DEF Default, ScreenLocked, ScreenUnlocked
<1>1. clip # NoClip /\ clip # RemoteClip /\ ~clip.isRemote
  BY ClipIsNeither
<1>2. GetScreenStatus = 1 /\ clip.screen = 2
  BY DEF RulesInv, ClipAsCopied, Known, GetScreenStatus
<1>3. LocalAnswer(t) = NoClip /\ ~TakesRemote
  BY <1>2 DEF LocalAnswer, IsDataValid, TakesRemote
<1> QED
  BY <1>1, <1>2, <1>3 DEF Answers, GetMimeTypes, GetLocalMimeTypes, HasPasteData, GetPasteDataInfo,
     DetectPatterns, HasLocalDataType, GetPasteData, HasRemoteData

LEMMA MdmClipKept == RulesInv => MdmObeyed
<1> SUFFICES ASSUME RulesInv PROVE MdmObeyed
  OBVIOUS
<1>1. ASSUME clip.wish = "InApp" PROVE ~MayPublish
  BY <1>1 DEF RulesInv, ClipAsCopied, MayPublish
<1>2. ASSUME clip.wish = "InApp", NEW t \in Tokens \ {clip.token} PROVE clip \notin Answers(t)
  <2>1. clip # NoClip /\ clip # RemoteClip /\ ~clip.isRemote
    BY <1>2, ClipIsNeither
  <2>2. LocalAnswer(t) = NoClip
    BY <1>2 DEF RulesInv, ClipAsCopied, LocalAnswer, IsDataValid
  <2> QED
    BY <2>1, <2>2 DEF Answers, GetMimeTypes, GetLocalMimeTypes, HasPasteData, GetPasteDataInfo,
       DetectPatterns, HasLocalDataType, GetPasteData, HasRemoteData
<1>3. ASSUME clip.wish = "LocalDevice", wish[clip.token] = "LocalDevice" PROVE ~MayPublish
  <2>1. clip.shareOption = "LocalDevice" /\ clip.token \in Tokens
    BY <1>3 DEF RulesInv, ClipAsCopied
  <2>2. \A t \in Tokens : wish[t] = "LocalDevice" => options[t].source = "MDM"
    <3> TAKE t \in Tokens
    <3> HAVE wish[t] = "LocalDevice"
    <3>1. options[t] = [source |-> "MDM", shareOption |-> wish[t]]
      BY DEF RulesInv, WishKept
    <3> QED
      BY <3>1
  <2> QED
    BY <1>3, <2>1, <2>2 DEF MayPublish, CheckMdmShareOption
<1> QED
  BY <1>1, <1>2, <1>3 DEF MdmObeyed

\* Whatever the order of copies, screen events and changes of share options by MDM and by
\* the applications, a clip reaches only those that the screen's lock and the options let
\* it reach (IsDataValid, UpdateShareOption, SetAppShareOptions, RemoveAppShareOptions).
THEOREM ClipsKeptBack == RulesSpec => []RulesObeyed
<1>1. RulesInit => RulesInv
  BY RulesAssumption DEF RulesInit, InitScreenStatus, RulesInv, RulesTypeOK, ClipAsCopied, WishKept,
     NoClip, NoOption, Wishes, ShareOptions, Default, ScreenLocked, ScreenUnlocked
<1>2. RulesInv => RulesObeyed
  BY LockedClipKept, MdmClipKept DEF RulesObeyed
<1> QED
  BY <1>1, <1>2, RulesStep, PTL DEF RulesSpec

-----------------------------------------------------------------------------
(* PreSyncMonitor.                                                         *)

MonitorSpec == MonitorInit /\ [][MonitorNext]_monitorVars

MonitorTypeOK ==
  /\ subscribeActiveId_ \in Nat /\ numbers \in Nat /\ monitors \subseteq Nat \ {0}
  /\ unregisterTimer \in BOOLEAN /\ overlapped \in BOOLEAN
  /\ monitorThreads \in [MonitorThreads -> {"free", "register", "subscribe", "setTimer",
                                            "unregister", "unsubscribe", "reset"}]

\* A monitor the service knows has its timer, or a thread that will set the timer or has
\* taken it to end the monitor.
MonitorAttended ==
  subscribeActiveId_ # 0 =>
      \/ unregisterTimer
      \/ \E t \in MonitorThreads : monitorThreads[t] \in {"setTimer", "unregister", "unsubscribe", "reset"}

\* While threads have taken turns, one that subscribes has found no monitor and one that
\* resets the identifier has left none.
MonitorsInTurn ==
  ~overlapped =>
      /\ \A t, u \in MonitorThreads : monitorThreads[t] # "free" /\ monitorThreads[u] # "free" => t = u
      /\ monitors \subseteq {subscribeActiveId_}
      /\ \A t \in MonitorThreads : monitorThreads[t] = "subscribe" => subscribeActiveId_ = 0
      /\ \A t \in MonitorThreads : monitorThreads[t] = "reset" => monitors = {}

MonitorInv == MonitorTypeOK /\ MonitorAttended /\ MonitorsInTurn

LEMMA MonitorStep == MonitorInv /\ [MonitorNext]_monitorVars => MonitorInv'
<1> SUFFICES ASSUME MonitorInv, [MonitorNext]_monitorVars PROVE MonitorInv'
  OBVIOUS
<1> USE DEF MonitorInv, MonitorTypeOK, StepOf, INVALID_SUBSCRIBE_ID
<1>1. CASE PreSyncSwitchMonitorCallback
  BY <1>1 DEF PreSyncSwitchMonitorCallback, MonitorAttended, MonitorsInTurn
<1>2. ASSUME NEW t \in MonitorThreads, RegisterFires(t) PROVE MonitorInv'
  <2> USE <1>2 DEF RegisterFires, Starts, FreeThreads
  <2>1. MonitorTypeOK'
    OBVIOUS
  <2>2. MonitorAttended'
    BY DEF MonitorAttended
  <2>3. MonitorsInTurn'
    BY DEF MonitorsInTurn
  <2> QED
    BY <2>1, <2>2, <2>3
<1>3. ASSUME NEW t \in MonitorThreads, RegisterPreSyncMonitor(t) PROVE MonitorInv'
  <2> USE <1>3 DEF RegisterPreSyncMonitor
  <2>1. MonitorTypeOK'
    OBVIOUS
  <2>2. MonitorAttended'
    BY DEF MonitorAttended
  <2>3. MonitorsInTurn'
    BY DEF MonitorsInTurn
  <2> QED
    BY <2>1, <2>2, <2>3
<1>4. ASSUME NEW t \in MonitorThreads, SubscribeInputActive(t) PROVE MonitorInv'
  <2> USE <1>4 DEF SubscribeInputActive
  <2>1. MonitorTypeOK'
    <3>1. \/ numbers' = numbers + 1 /\ subscribeActiveId_' = numbers' /\ monitors' = monitors \cup {numbers'}
          \/ subscribeActiveId_' = 0 /\ UNCHANGED <<monitors, numbers>>
      OBVIOUS
    <3>2. numbers' \in Nat /\ subscribeActiveId_' \in Nat /\ monitors' \subseteq Nat \ {0}
      <4>1. CASE numbers' = numbers + 1 /\ subscribeActiveId_' = numbers' /\ monitors' = monitors \cup {numbers'}
        <5>1. numbers' \in Nat /\ numbers' # 0
          BY <4>1
        <5> QED
          BY <4>1, <5>1
      <4>2. CASE subscribeActiveId_' = 0 /\ UNCHANGED <<monitors, numbers>>
        BY <4>2
      <4> QED
        BY <3>1, <4>1, <4>2
    <3>3. monitorThreads' \in [MonitorThreads -> {"free", "register", "subscribe", "setTimer",
                                                 "unregister", "unsubscribe", "reset"}]
      OBVIOUS
    <3> QED
      BY <3>2, <3>3
  <2>2. MonitorAttended'
    BY DEF MonitorAttended
  <2>3. MonitorsInTurn'
    BY DEF MonitorsInTurn
  <2> QED
    BY <2>1, <2>2, <2>3
<1>5. ASSUME NEW t \in MonitorThreads, SetUnregisterTimer(t) PROVE MonitorInv'
  BY <1>5 DEF SetUnregisterTimer, SubmitDelayTask, MonitorAttended, MonitorsInTurn
<1>6. ASSUME NEW t \in MonitorThreads, UnregisterFires(t) PROVE MonitorInv'
  <2> USE <1>6 DEF UnregisterFires, Starts, FreeThreads
  <2>1. MonitorTypeOK'
    OBVIOUS
  <2>2. MonitorAttended'
    BY DEF MonitorAttended
  <2>3. MonitorsInTurn'
    BY DEF MonitorsInTurn
  <2> QED
    BY <2>1, <2>2, <2>3
<1>7. ASSUME NEW t \in MonitorThreads, UnRegisterPreSyncMonitor(t) PROVE MonitorInv'
  <2> USE <1>7 DEF UnRegisterPreSyncMonitor
  <2>1. MonitorTypeOK'
    OBVIOUS
  <2>2. MonitorAttended'
    BY DEF MonitorAttended
  <2>3. MonitorsInTurn'
    BY DEF MonitorsInTurn
  <2> QED
    BY <2>1, <2>2, <2>3
<1>8. ASSUME NEW t \in MonitorThreads, UnsubscribeInputActive(t) PROVE MonitorInv'
  <2> USE <1>8 DEF UnsubscribeInputActive
  <2>1. MonitorTypeOK'
    OBVIOUS
  <2>2. MonitorAttended'
    BY DEF MonitorAttended
  <2>3. MonitorsInTurn'
    BY DEF MonitorsInTurn
  <2> QED
    BY <2>1, <2>2, <2>3
<1>9. ASSUME NEW t \in MonitorThreads, ResetId(t) PROVE MonitorInv'
  BY <1>9 DEF ResetId, MonitorAttended, MonitorsInTurn
<1>10. CASE UNCHANGED monitorVars
  BY <1>10 DEF monitorVars, MonitorAttended, MonitorsInTurn
<1> QED
  BY <1>1, <1>2, <1>3, <1>4, <1>5, <1>6, <1>7, <1>8, <1>9, <1>10 DEF MonitorNext

\* However the threads of RegisterPreSyncMonitor and UnRegisterPreSyncMonitor interleave, a
\* monitor the service knows is ended by the timer; and while they take turns the input
\* manager has no monitor but that one.
THEOREM MonitorIsEnded == MonitorSpec => []MonitorEnds
<1>1. MonitorInit => MonitorInv
  <2> SUFFICES ASSUME MonitorInit PROVE MonitorInv
    OBVIOUS
  <2>1. MonitorTypeOK
    BY DEF MonitorInit, MonitorTypeOK, INVALID_SUBSCRIBE_ID
  <2>2. MonitorAttended /\ MonitorsInTurn
    BY DEF MonitorInit, MonitorAttended, MonitorsInTurn, INVALID_SUBSCRIBE_ID
  <2> QED
    BY <2>1, <2>2 DEF MonitorInv
<1>2. MonitorInv => MonitorEnds
  BY DEF MonitorInv, MonitorTypeOK, MonitorAttended, MonitorsInTurn, MonitorEnds, FreeThreads, INVALID_SUBSCRIBE_ID
<1> QED
  BY <1>1, <1>2, MonitorStep, PTL DEF MonitorSpec

-----------------------------------------------------------------------------
(* EntityObservers.                                                        *)

EntitySpec == EntityInit /\ [][EntityNext]_entityVars

Infos == [expectedDataLength : Lengths, observer : Nat]

EntityTypeOK ==
  /\ entityObservers \in [Procs -> Seq(Infos)]
  /\ current \in [Procs -> [Lengths -> Nat]]
  /\ handles \in Nat

\* The list of a process has one observer for a length, the one last subscribed.
ListAsSubscribed(list, last, made) ==
  /\ \A i \in 1 .. Len(list) :
        /\ list[i].expectedDataLength <= MAX_RECOGNITION_LENGTH
        /\ list[i].observer = last[list[i].expectedDataLength]
        /\ list[i].observer <= made
  /\ \A i, j \in 1 .. Len(list) : list[i].expectedDataLength = list[j].expectedDataLength => i = j

EntityInv ==
  /\ EntityTypeOK
  /\ \A p \in Procs : ListAsSubscribed(entityObservers[p], current[p], handles)
  /\ LatestObserverTold

LEMMA RemoveAtPlaces ==
  ASSUME NEW S, NEW s \in Seq(S), NEW i \in 1 .. Len(s)
  PROVE  /\ RemoveAt(s, i) \in Seq(S)
         /\ Len(RemoveAt(s, i)) = Len(s) - 1
         /\ \A k \in 1 .. Len(s) - 1 : RemoveAt(s, i)[k] = s[IF k < i THEN k ELSE k + 1]
<1> PICK l \in Nat : l = Len(s)
  OBVIOUS
<1>1. i \in Nat /\ i >= 1 /\ i <= l /\ \A k \in 1 .. l : s[k] \in S
  BY ElementOfSeq
<1>0. PICK a, b, r : a = SubSeq(s, 1, i - 1) /\ b = SubSeq(s, i + 1, l) /\ r = RemoveAt(s, i)
  OBVIOUS
<1>2. a \in Seq(S) /\ Len(a) = i - 1 /\ \A k \in 1 .. i - 1 : a[k] = s[k]
  BY <1>0, <1>1, SubSeqProperties
<1>3. b \in Seq(S) /\ Len(b) = l - i /\ \A k \in 1 .. l - i : b[k] = s[i + k]
  BY <1>0, <1>1, SubSeqProperties
<1>4. r = a \o b
  BY <1>0 DEF RemoveAt
<1>5. /\ a \o b \in Seq(S) /\ Len(a \o b) = Len(a) + Len(b)
      /\ \A k \in 1 .. Len(a) + Len(b) : (a \o b)[k] = IF k <= Len(a) THEN a[k] ELSE b[k - Len(a)]
  BY <1>2, <1>3, ConcatProperties
<1>6. /\ r \in Seq(S) /\ Len(r) = l - 1 /\ Len(a) + Len(b) = l - 1
      /\ \A k \in 1 .. l - 1 : r[k] = IF k <= i - 1 THEN a[k] ELSE b[k - (i - 1)]
  <2>1. Len(a) + Len(b) = l - 1
    BY <1>1, <1>2, <1>3
  <2>2. r \in Seq(S) /\ Len(r) = l - 1
    BY <1>4, <1>5, <2>1
  <2>3. \A k \in 1 .. l - 1 : r[k] = IF k <= Len(a) THEN a[k] ELSE b[k - Len(a)]
    BY <1>4, <1>5, <2>1
  <2> QED
    BY <1>2, <2>1, <2>2, <2>3
<1>7. ASSUME NEW k \in 1 .. l - 1 PROVE r[k] = s[IF k < i THEN k ELSE k + 1]
  <2>1. r[k] = IF k <= i - 1 THEN a[k] ELSE b[k - (i - 1)]
    BY <1>6
  <2>2. CASE k < i
    BY <1>1, <1>2, <2>1, <2>2
  <2>3. CASE ~(k < i)
    <3> PICK m \in 1 .. l - i : m = k - (i - 1)
      BY <1>1, <2>3
    <3>1. i + m = k + 1 /\ ~(k <= i - 1)
      BY <1>1, <2>3
    <3>2. r[k] = b[m] /\ b[m] = s[i + m]
      BY <1>3, <2>1, <3>1
    <3> QED
      BY <2>3, <3>1, <3>2
  <2> QED
    BY <2>2, <2>3
<1> QED
  BY <1>0, <1>6, <1>7

\* A process whose list and last subscriptions do not change keeps its part.
LEMMA OthersAsSubscribed ==
  ASSUME EntityInv, handles' \in Nat, handles <= handles', NEW p \in Procs,
         entityObservers'[p] = entityObservers[p], current'[p] = current[p]
  PROVE  ListAsSubscribed(entityObservers[p], current[p], handles)'
<1> DEFINE list == entityObservers[p]
<1>1. \A i \in 1 .. Len(list) : list[i] \in Infos
  BY ElementOfSeq DEF EntityInv, EntityTypeOK
<1>2. \A i \in 1 .. Len(list) : list[i].observer <= handles'
  BY <1>1 DEF EntityInv, EntityTypeOK, ListAsSubscribed, Infos
<1> QED
  BY <1>2 DEF EntityInv, ListAsSubscribed

\* A process's list has become new; the others are as they were.
LEMMA ListChanges ==
  ASSUME EntityInv, NEW p \in Procs, NEW new \in Seq(Infos), NEW last \in [Lengths -> Nat],
         entityObservers' = [entityObservers EXCEPT ![p] = new],
         current' = [current EXCEPT ![p] = last],
         handles' \in Nat, handles <= handles', UNCHANGED heard,
         ListAsSubscribed(new, last, handles')
  PROVE  EntityInv'
<1> USE DEF EntityInv, EntityTypeOK
<1>1. EntityTypeOK'
  OBVIOUS
<1>2. entityObservers'[p] = new /\ current'[p] = last
  OBVIOUS
<1>3. ASSUME NEW q \in Procs PROVE ListAsSubscribed(entityObservers[q], current[q], handles)'
  <2>1. CASE q = p
    BY <1>2, <2>1 DEF ListAsSubscribed
  <2>2. CASE q # p
    <3>1. entityObservers'[q] = entityObservers[q] /\ current'[q] = current[q]
      BY <2>2
    <3> QED
      BY <3>1, OthersAsSubscribed
  <2> QED
    BY <2>1, <2>2
<1>4. LatestObserverTold'
  BY DEF LatestObserverTold
<1> QED
  BY <1>1, <1>3, <1>4

LEMMA ReplacedAsSubscribed ==
  ASSUME EntityInv, NEW p \in Procs, NEW n \in Lengths, n <= MAX_RECOGNITION_LENGTH,
         PlaceOf(entityObservers[p], n) # {},
         NEW new,
         new = [i \in DOMAIN entityObservers[p] |->
                  IF i \in PlaceOf(entityObservers[p], n) THEN Info(n, handles + 1) ELSE entityObservers[p][i]]
  PROVE  /\ new \in Seq(Infos) /\ new # entityObservers[p]
         /\ ListAsSubscribed(new, [current[p] EXCEPT ![n] = handles + 1], handles + 1)
<1> DEFINE list == entityObservers[p]
           last == [current[p] EXCEPT ![n] = handles + 1]
<1> USE DEF EntityInv, EntityTypeOK
<1>1. list \in Seq(Infos) /\ DOMAIN list = 1 .. Len(list) /\ Len(list) \in Nat /\ handles \in Nat
  OBVIOUS
<1>2. \A i \in 1 .. Len(list) : list[i] \in Infos
  BY <1>1, ElementOfSeq
<1>3. /\ new = [i \in 1 .. Len(list) |-> IF list[i].expectedDataLength = n THEN Info(n, handles + 1) ELSE list[i]]
  BY <1>1 DEF PlaceOf
<1>4. Info(n, handles + 1) \in Infos /\ Info(n, handles + 1).observer = handles + 1 /\ Info(n, handles + 1).expectedDataLength = n
  BY <1>1 DEF Info, Infos
<1>5. new \in Seq(Infos) /\ Len(new) = Len(list)
  BY <1>1, <1>2, <1>3, <1>4
<1>6. PICK k \in 1 .. Len(list) : list[k].expectedDataLength = n
  BY <1>1 DEF PlaceOf
<1>7. \A i \in 1 .. Len(list) :
        /\ list[i].expectedDataLength <= MAX_RECOGNITION_LENGTH
        /\ list[i].observer = current[p][list[i].expectedDataLength]
        /\ list[i].observer <= handles
  BY DEF ListAsSubscribed
<1>8. new # list
  <2>1. new[k].observer = handles + 1 /\ list[k].observer <= handles /\ list[k].observer \in Nat
    BY <1>2, <1>3, <1>4, <1>6, <1>7 DEF Infos
  <2> QED
    BY <1>1, <2>1
<1>9. \A i \in 1 .. Len(list) : new[i].expectedDataLength = list[i].expectedDataLength
  BY <1>3, <1>4
<1>10. ASSUME NEW i \in 1 .. Len(list)
       PROVE  /\ new[i].expectedDataLength <= MAX_RECOGNITION_LENGTH
              /\ new[i].observer = last[new[i].expectedDataLength]
              /\ new[i].observer <= handles + 1
  <2>1. CASE list[i].expectedDataLength = n
    <3>1. new[i] = Info(n, handles + 1) /\ last[n] = handles + 1
      BY <1>3, <2>1
    <3> QED
      BY <1>1, <1>4, <3>1
  <2>2. CASE list[i].expectedDataLength # n
    <3>1. new[i] = list[i] /\ list[i] \in Infos
      BY <1>2, <1>3, <2>2
    <3>2. last[list[i].expectedDataLength] = current[p][list[i].expectedDataLength]
      BY <2>2, <3>1 DEF Infos
    <3>3. list[i].observer <= handles + 1
      BY <1>1, <1>7, <3>1 DEF Infos
    <3> QED
      BY <1>7, <3>1, <3>2, <3>3
  <2> QED
    BY <2>1, <2>2
<1>11. \A i, j \in 1 .. Len(list) : list[i].expectedDataLength = list[j].expectedDataLength => i = j
  BY DEF ListAsSubscribed
<1> QED
  BY <1>5, <1>8, <1>9, <1>10, <1>11 DEF ListAsSubscribed

LEMMA AppendedAsSubscribed ==
  ASSUME EntityInv, NEW p \in Procs, NEW n \in Lengths, n <= MAX_RECOGNITION_LENGTH,
         PlaceOf(entityObservers[p], n) = {},
         NEW new, new = Append(entityObservers[p], Info(n, handles + 1))
  PROVE  /\ new \in Seq(Infos) /\ new # entityObservers[p]
         /\ ListAsSubscribed(new, [current[p] EXCEPT ![n] = handles + 1], handles + 1)
<1> DEFINE list == entityObservers[p]
           last == [current[p] EXCEPT ![n] = handles + 1]
<1> USE DEF EntityInv, EntityTypeOK
<1>1. list \in Seq(Infos) /\ DOMAIN list = 1 .. Len(list) /\ Len(list) \in Nat /\ handles \in Nat
  OBVIOUS
<1>2. \A i \in 1 .. Len(list) : list[i] \in Infos /\ list[i].expectedDataLength # n
  BY <1>1, ElementOfSeq DEF PlaceOf
<1>3. Info(n, handles + 1) \in Infos /\ Info(n, handles + 1).observer = handles + 1 /\ Info(n, handles + 1).expectedDataLength = n
  BY <1>1 DEF Info, Infos
<1>4. /\ new \in Seq(Infos) /\ Len(new) = Len(list) + 1
      /\ \A i \in 1 .. Len(list) : new[i] = list[i]
      /\ new[Len(list) + 1] = Info(n, handles + 1)
  BY <1>1, <1>3, AppendProperties
<1>5. new # list
  <2>1. \A k \in Nat : k + 1 # k
    OBVIOUS
  <2> QED
    BY <1>1, <1>4, <2>1, Zenon
<1>6. \A i \in 1 .. Len(list) :
        /\ list[i].expectedDataLength <= MAX_RECOGNITION_LENGTH
        /\ list[i].observer = current[p][list[i].expectedDataLength]
        /\ list[i].observer <= handles
  BY DEF ListAsSubscribed
<1>7. ASSUME NEW i \in 1 .. Len(list) + 1
      PROVE  /\ new[i].expectedDataLength <= MAX_RECOGNITION_LENGTH
             /\ new[i].observer = last[new[i].expectedDataLength]
             /\ new[i].observer <= handles + 1
  <2>1. CASE i = Len(list) + 1
    <3>1. new[i] = Info(n, handles + 1) /\ last[n] = handles + 1
      BY <1>4, <2>1
    <3> QED
      BY <1>1, <1>3, <3>1
  <2>2. CASE i # Len(list) + 1
    <3>1. i \in 1 .. Len(list)
      BY <1>1, <2>2
    <3>2. new[i] = list[i] /\ list[i] \in Infos /\ list[i].expectedDataLength # n
      BY <1>2, <1>4, <3>1
    <3>3. last[list[i].expectedDataLength] = current[p][list[i].expectedDataLength]
      BY <3>2 DEF Infos
    <3>4. list[i].observer <= handles + 1
      BY <1>1, <1>6, <3>1, <3>2 DEF Infos
    <3> QED
      BY <1>6, <3>1, <3>2, <3>3, <3>4
  <2> QED
    BY <2>1, <2>2
<1>8. \A i, j \in 1 .. Len(list) : list[i].expectedDataLength = list[j].expectedDataLength => i = j
  BY DEF ListAsSubscribed
<1>9. \A i, j \in 1 .. Len(new) : new[i].expectedDataLength = new[j].expectedDataLength => i = j
  BY <1>1, <1>2, <1>3, <1>4, <1>8
<1> QED
  BY <1>4, <1>5, <1>7, <1>9 DEF ListAsSubscribed

LEMMA SubscribeStep ==
  ASSUME EntityInv, NEW p \in Procs, NEW n \in Lengths, SubscribeEntityObserver(p, n)
  PROVE  EntityInv'
<1> DEFINE list == entityObservers[p]
           last == [current[p] EXCEPT ![n] = handles + 1]
<1>1. n <= MAX_RECOGNITION_LENGTH /\ handles \in Nat /\ current[p] \in [Lengths -> Nat]
      /\ list \in Seq(Infos)
  BY DEF SubscribeEntityObserver, EntityInv, EntityTypeOK
<1>2. last \in [Lengths -> Nat]
  BY <1>1
<1>3. ASSUME NEW new \in Seq(Infos), new # list, ListAsSubscribed(new, last, handles + 1), Subscribes(p, n, new)
      PROVE  EntityInv'
  <2>1. /\ entityObservers' = [entityObservers EXCEPT ![p] = new]
        /\ handles' = handles + 1 /\ UNCHANGED heard
        /\ current' = [current EXCEPT ![p][n] = handles + 1]
    BY <1>3 DEF Subscribes
  <2>2. current' = [current EXCEPT ![p] = last]
    BY <2>1 DEF EntityInv, EntityTypeOK
  <2> HIDE DEF last
  <2>3. handles' \in Nat /\ handles <= handles' /\ ListAsSubscribed(new, last, handles')
    BY <1>1, <1>3, <2>1
  <2> QED
    BY <1>2, <2>1, <2>2, <2>3, ListChanges
<1>4. CASE PlaceOf(list, n) # {}
  <2> DEFINE new == [i \in DOMAIN list |-> IF i \in PlaceOf(list, n) THEN Info(n, handles + 1) ELSE list[i]]
  <2>1. Subscribes(p, n, new)
    BY <1>4 DEF SubscribeEntityObserver
  <2>2. new \in Seq(Infos) /\ new # list /\ ListAsSubscribed(new, last, handles + 1)
    BY <1>1, <1>4, ReplacedAsSubscribed
  <2> QED
    BY <1>3, <2>1, <2>2
<1>5. CASE PlaceOf(list, n) = {} /\ Len(list) < MAX_ENTITY_OBSERVER_COUNT
  <2> DEFINE new == Append(list, Info(n, handles + 1))
  <2>0. Len(list) \in Nat
    BY <1>1
  <2>1. Subscribes(p, n, new)
    BY <1>5, <2>0, EntityAssumption DEF SubscribeEntityObserver
  <2>2. new \in Seq(Infos) /\ new # list /\ ListAsSubscribed(new, last, handles + 1)
    BY <1>1, <1>5, AppendedAsSubscribed
  <2> QED
    BY <1>3, <2>1, <2>2
<1>6. CASE PlaceOf(list, n) = {} /\ Len(list) >= MAX_ENTITY_OBSERVER_COUNT
  <2>1. Subscribes(p, n, list)
    BY <1>6 DEF SubscribeEntityObserver
  <2>2. /\ entityObservers' = [entityObservers EXCEPT ![p] = list] /\ UNCHANGED <<current, heard>>
        /\ handles' = handles + 1
    BY <2>1 DEF Subscribes
  <2>3. UNCHANGED entityObservers
    BY <2>2 DEF EntityInv, EntityTypeOK
  <2>4. \A q \in Procs : ListAsSubscribed(entityObservers[q], current[q], handles)'
    BY <1>1, <2>2, <2>3, OthersAsSubscribed
  <2>5. EntityTypeOK' /\ LatestObserverTold'
    BY <2>2, <2>3 DEF EntityInv, EntityTypeOK, LatestObserverTold
  <2> QED
    BY <2>4, <2>5 DEF EntityInv
<1> QED
  <2>1. Len(list) \in Nat
    BY <1>1
  <2> QED
    BY <1>4, <1>5, <1>6, <2>1, EntityAssumption

LEMMA UnsubscribeStep ==
  ASSUME EntityInv, NEW p \in Procs, NEW n \in Lengths, UnsubscribeEntityObserver(p, n)
  PROVE  EntityInv'
<1> DEFINE list == entityObservers[p]
           last == [current[p] EXCEPT ![n] = 0]
<1>1. list \in Seq(Infos) /\ DOMAIN list = 1 .. Len(list) /\ Len(list) \in Nat /\ handles \in Nat
      /\ current[p] \in [Lengths -> Nat]
  BY DEF EntityInv, EntityTypeOK
<1>2. PICK i \in 1 .. Len(list) : /\ list[i].expectedDataLength = n
                                 /\ entityObservers' = [entityObservers EXCEPT ![p] = RemoveAt(list, i)]
  BY <1>1 DEF UnsubscribeEntityObserver, PlaceOf
<1> DEFINE new == RemoveAt(list, i)
<1>3. /\ new \in Seq(Infos) /\ Len(new) = Len(list) - 1
      /\ \A k \in 1 .. Len(list) - 1 : new[k] = list[IF k < i THEN k ELSE k + 1]
  BY <1>1, <1>2, RemoveAtPlaces
<1>4. current' = [current EXCEPT ![p] = last] /\ UNCHANGED <<handles, heard>> /\ last \in [Lengths -> Nat]
  BY <1>1 DEF UnsubscribeEntityObserver, EntityInv, EntityTypeOK
<1> HIDE DEF new
<1>5. ASSUME NEW k \in 1 .. Len(list), k # i
      PROVE  /\ list[k] \in Infos /\ list[k].expectedDataLength # n
             /\ list[k].expectedDataLength <= MAX_RECOGNITION_LENGTH
             /\ list[k].observer = last[list[k].expectedDataLength]
             /\ list[k].observer <= handles
  <2>1. list[k] \in Infos
    BY <1>1, ElementOfSeq
  <2>2. list[k].expectedDataLength # n
    BY <1>2, <1>5 DEF EntityInv, ListAsSubscribed
  <2>3. /\ list[k].expectedDataLength <= MAX_RECOGNITION_LENGTH
        /\ list[k].observer = current[p][list[k].expectedDataLength]
        /\ list[k].observer <= handles
    BY DEF EntityInv, ListAsSubscribed
  <2>4. last[list[k].expectedDataLength] = current[p][list[k].expectedDataLength]
    BY <1>1, <2>1, <2>2 DEF Infos
  <2> QED
    BY <2>1, <2>2, <2>3, <2>4
<1>6. \A k \in 1 .. Len(new) :
         \E m \in 1 .. Len(list) : m # i /\ m = (IF k < i THEN k ELSE k + 1) /\ new[k] = list[m]
  BY <1>1, <1>3
<1>7. \A k, m \in 1 .. Len(list) : list[k].expectedDataLength = list[m].expectedDataLength => k = m
  BY DEF EntityInv, ListAsSubscribed
<1>8. \A k, m \in 1 .. Len(new) : new[k].expectedDataLength = new[m].expectedDataLength => k = m
  <2> SUFFICES ASSUME NEW k \in 1 .. Len(new), NEW m \in 1 .. Len(new),
                      new[k].expectedDataLength = new[m].expectedDataLength
               PROVE  k = m
    OBVIOUS
  <2>1. PICK x \in 1 .. Len(list) : x = (IF k < i THEN k ELSE k + 1) /\ new[k] = list[x]
    BY <1>6
  <2>2. PICK y \in 1 .. Len(list) : y = (IF m < i THEN m ELSE m + 1) /\ new[m] = list[y]
    BY <1>6
  <2>3. x = y
    BY <1>7, <2>1, <2>2
  <2>4. k \in Int /\ m \in Int /\ i \in Int
    BY <1>1, <1>3
  <2> QED
    BY <2>1, <2>2, <2>3, <2>4
<1> HIDE DEF last
<1>9. handles' \in Nat /\ handles <= handles'
  BY <1>1, <1>4
<1>10. ASSUME NEW k \in 1 .. Len(new)
       PROVE  /\ new[k].expectedDataLength <= MAX_RECOGNITION_LENGTH
              /\ new[k].observer = last[new[k].expectedDataLength]
              /\ new[k].observer <= handles'
  <2>1. PICK m \in 1 .. Len(list) : m # i /\ new[k] = list[m]
    BY <1>6
  <2> QED
    BY <1>4, <1>5, <2>1
<1>11. ListAsSubscribed(new, last, handles')
  BY <1>8, <1>10 DEF ListAsSubscribed
<1>12. entityObservers' = [entityObservers EXCEPT ![p] = new]
  BY <1>2 DEF new
<1> QED
  BY <1>3, <1>4, <1>9, <1>11, <1>12, ListChanges

LEMMA EntityStep == EntityInv /\ [EntityNext]_entityVars => EntityInv'
<1> SUFFICES ASSUME EntityInv, [EntityNext]_entityVars PROVE EntityInv'
  OBVIOUS
<1>1. ASSUME UNCHANGED <<entityObservers, current, handles>>, LatestObserverTold' PROVE EntityInv'
  BY <1>1 DEF EntityInv, EntityTypeOK, ListAsSubscribed
<1>2. ASSUME NEW p \in Procs, ProcessExits(p) PROVE EntityInv'
  <2> DEFINE none == [n \in Lengths |-> 0]
  <2>1. /\ entityObservers' = [entityObservers EXCEPT ![p] = <<>>]
        /\ current' = [current EXCEPT ![p] = none] /\ UNCHANGED <<handles, heard>>
    BY <1>2 DEF ProcessExits
  <2>2. <<>> \in Seq(Infos) /\ none \in [Lengths -> Nat] /\ ListAsSubscribed(<<>>, none, handles')
    BY DEF ListAsSubscribed
  <2>3. handles' \in Nat /\ handles <= handles'
    BY <2>1 DEF EntityInv, EntityTypeOK
  <2> HIDE DEF none
  <2> QED
    BY <2>1, <2>2, <2>3, ListChanges
<1>3. ASSUME NEW records, NEW inApp, RecognizePasteData(records, inApp) PROVE EntityInv'
  BY <1>1, <1>3 DEF RecognizePasteData, EntityInv, LatestObserverTold
<1>4. ASSUME NEW task \in tasks, OnRecognizePasteData(task) PROVE EntityInv'
  <2>1. ASSUME NEW permitted \in SUBSET Procs, NEW h \in NotifyEntityObservers(task.size, permitted)
        PROVE  h.observer = h.current /\ h.size <= h.length /\ h.size <= MAX_RECOGNITION_LENGTH
    <3>1. PICK p \in permitted : \E o \in Range(entityObservers[p]) :
              /\ task.size \in 0 .. o.expectedDataLength
              /\ h = [current |-> current[p][o.expectedDataLength], observer |-> o.observer,
                      length |-> o.expectedDataLength, size |-> task.size]
      BY <2>1 DEF NotifyEntityObservers
    <3>2. entityObservers[p] \in Seq(Infos) /\ ListAsSubscribed(entityObservers[p], current[p], handles)
      BY DEF EntityInv, EntityTypeOK
    <3>3. PICK o \in Range(entityObservers[p]) :
              /\ task.size \in 0 .. o.expectedDataLength
              /\ h = [current |-> current[p][o.expectedDataLength], observer |-> o.observer,
                      length |-> o.expectedDataLength, size |-> task.size]
      BY <3>1
    <3>4. PICK i \in 1 .. Len(entityObservers[p]) : o = entityObservers[p][i]
      BY <3>2 DEF Range
    <3>5. o \in Infos
      BY <3>2, <3>4, ElementOfSeq
    <3>6. o.expectedDataLength \in Nat
      BY <3>5, EntityAssumption DEF Infos
    <3>7. o.expectedDataLength <= MAX_RECOGNITION_LENGTH /\ o.observer = current[p][o.expectedDataLength]
      BY <3>2, <3>4 DEF ListAsSubscribed
    <3>8. h.observer = o.observer /\ h.current = current[p][o.expectedDataLength]
          /\ h.length = o.expectedDataLength /\ h.size = task.size
      BY <3>3
    <3> QED
      BY <3>3, <3>6, <3>7, <3>8, EntityAssumption
  <2>2. PICK permitted \in SUBSET Procs :
            heard' \in {{}, NotifyEntityObservers(task.size, permitted)}
    BY <1>4 DEF OnRecognizePasteData
  <2>3. LatestObserverTold'
    BY <2>1, <2>2 DEF LatestObserverTold
  <2> QED
    BY <1>1, <1>4, <2>3 DEF OnRecognizePasteData
<1>5. CASE UNCHANGED entityVars
  BY <1>1, <1>5 DEF entityVars, EntityInv, LatestObserverTold
<1> QED
  BY <1>2, <1>3, <1>4, <1>5, SubscribeStep, UnsubscribeStep DEF EntityNext

\* Whoever is told of an entity is the observer its process last subscribed for the length
\* and has not unsubscribed, of a text no longer than it asked for (SubscribeEntityObserver,
\* UnsubscribeEntityObserver, NotifyEntityObservers), for any texts and observers.
THEOREM OnlyLatestTold == EntitySpec => []LatestObserverTold
<1>1. EntityInit => EntityInv
  BY EntityAssumption DEF EntityInit, EntityInv, EntityTypeOK, ListAsSubscribed, LatestObserverTold
<1>2. EntityInv => LatestObserverTold
  BY DEF EntityInv
<1> QED
  BY <1>1, <1>2, EntityStep, PTL DEF EntitySpec

-----------------------------------------------------------------------------
(* CriticalState.                                                          *)

CriticalSpec == CriticalInit /\ [][CriticalNext]_criticalVars

RaiseSteps == {"SetTimer", "TellTrue", "StoreTrue", "SaveData"}
LowerSteps == {"Erase", "IfNone", "CancelTimer", "TellFalse", "StoreFalse", "HasWork", "TellWork", "StoreWork"}
Steps == RaiseSteps \cup LowerSteps

\* Which step comes after which, and with which a thread ends.
Follows ==
  {<<"SetTimer", "TellTrue">>, <<"TellTrue", "StoreTrue">>, <<"StoreTrue", "SaveData">>,
   <<"Erase", "IfNone">>, <<"Erase", "HasWork">>, <<"IfNone", "CancelTimer">>, <<"IfNone", "TellFalse">>,
   <<"CancelTimer", "TellFalse">>, <<"TellFalse", "StoreFalse">>,
   <<"HasWork", "TellWork">>, <<"TellWork", "StoreWork">>}
LastSteps == {"StoreTrue", "SaveData", "StoreFalse", "StoreWork"}

Plan(todo) ==
  /\ todo \in Seq(Steps) /\ Len(todo) >= 1 /\ todo[Len(todo)] \in LastSteps
  /\ \A i \in 1 .. Len(todo) - 1 : <<todo[i], todo[i + 1]>> \in Follows

JobUsers == Owners \cup {CHOOSE u \in Owners : TRUE}
Jobs == [user : JobUsers, todo : Seq(Steps), lowers : BOOLEAN, has : BOOLEAN]

JobOK(j) == Plan(j.todo) /\ (j.lowers <=> j.todo[1] \in LowerSteps)

CriticalTypeOK ==
  /\ running \in BOOLEAN /\ isCritical \in BOOLEAN /\ told \in BOOLEAN /\ timer \in BOOLEAN
  /\ orderly \in BOOLEAN /\ jobs \in Seq(Jobs)
  /\ \A i \in 1 .. Len(jobs) : JobOK(jobs[i])

\* Threads that raise the state: what each has done so far holds, and while there is a
\* difference one of them is on its way to end it.
Raising ==
  /\ \A i \in 1 .. Len(jobs) : ~jobs[i].lowers
  /\ isCritical => told
  /\ told => isCritical \/ \E i \in 1 .. Len(jobs) : jobs[i].todo[1] = "StoreTrue"
  /\ told /\ clips = {} => timer
  /\ running /\ LocalClips # {} => told \/ \E i \in 1 .. Len(jobs) : jobs[i].todo[1] \in {"SetTimer", "TellTrue"}
  /\ \A i \in 1 .. Len(jobs) :
       /\ jobs[i].todo[1] # "SetTimer" => timer
       /\ jobs[i].todo[1] \in {"StoreTrue", "SaveData"} => told

\* One thread that lowers the state, by the step it is at.
LoweringAt(step, has) ==
  CASE step = "Erase" -> told = isCritical /\ (told /\ clips = {} => timer) /\ (running /\ LocalClips # {} => told)
    [] step = "IfNone" -> told = isCritical /\ (running /\ LocalClips # {} => told)
    [] step \in {"CancelTimer", "TellFalse"} -> running => LocalClips = {}
    [] step = "StoreFalse" -> (running => LocalClips = {}) /\ ~told
    [] step = "HasWork" -> TRUE
    [] step = "TellWork" -> (LocalClips # {} => has) /\ (has => clips # {})
    [] OTHER -> (LocalClips # {} => has) /\ (has => clips # {}) /\ told = has

Lowering == Len(jobs) = 1 /\ jobs[1].lowers /\ LoweringAt(jobs[1].todo[1], jobs[1].has)

CriticalInv == CriticalTypeOK /\ (orderly => Raising \/ Lowering)

\* What is left of a plan is a plan.
LEMMA PlanRest ==
  ASSUME NEW todo, Plan(todo), NEW n \in 1 .. Len(todo) - 1
  PROVE  LET rest == SubSeq(todo, n + 1, Len(todo))
         IN  Plan(rest) /\ rest[1] = todo[n + 1]
<1> PICK rest : rest = SubSeq(todo, n + 1, Len(todo))
  OBVIOUS
<1> PICK l \in Nat : l = Len(todo)
  BY DEF Plan
<1>1. n \in Nat /\ n >= 1 /\ n < l /\ \A i \in 1 .. l : todo[i] \in Steps
  BY ElementOfSeq DEF Plan
<1>2. rest \in Seq(Steps) /\ Len(rest) = l - n /\ \A i \in 1 .. l - n : rest[i] = todo[n + i]
  BY <1>1, SubSeqProperties
<1>3. rest[l - n] = todo[l] /\ rest[1] = todo[n + 1]
  BY <1>1, <1>2
<1>4. \A i \in 1 .. l - n - 1 : <<rest[i], rest[i + 1]>> \in Follows
  <2> SUFFICES ASSUME NEW i \in 1 .. l - n - 1 PROVE <<rest[i], rest[i + 1]>> \in Follows
    OBVIOUS
  <2>1. n + i \in 1 .. l - 1 /\ rest[i] = todo[n + i] /\ rest[i + 1] = todo[(n + i) + 1]
    BY <1>1, <1>2
  <2> QED
    BY <2>1 DEF Plan
<1> QED
  BY <1>1, <1>2, <1>3, <1>4 DEF Plan

\* A thread's next steps are of its kind.
LEMMA FollowsKind ==
  ASSUME NEW a, NEW b, <<a, b>> \in Follows
  PROVE  a \in LowerSteps <=> b \in LowerSteps
BY DEF Follows, LowerSteps

LEMMA PlanKind ==
  ASSUME NEW todo, Plan(todo)
  PROVE  /\ todo[1] \in Steps
         /\ todo[1] \notin LastSteps => Len(todo) > 1
         /\ Len(todo) > 1 => <<todo[1], todo[2]>> \in Follows
         /\ Len(todo) > 2 => <<todo[2], todo[3]>> \in Follows
         /\ Len(todo) > 1 => (todo[1] \in LowerSteps <=> todo[2] \in LowerSteps)
         /\ Len(todo) > 2 => (todo[2] \in LowerSteps <=> todo[3] \in LowerSteps)
<1> PICK l \in Nat : l = Len(todo)
  BY DEF Plan
<1>1. l >= 1 /\ todo[l] \in LastSteps
  BY DEF Plan
<1>2. todo[1] \in Steps
  BY <1>1, ElementOfSeq DEF Plan
<1>3. l > 1 => <<todo[1], todo[1 + 1]>> \in Follows
  BY DEF Plan
<1>4. l > 2 => <<todo[2], todo[2 + 1]>> \in Follows
  BY DEF Plan
<1>5. ASSUME l > 1 PROVE todo[1] \in LowerSteps <=> todo[2] \in LowerSteps
  BY <1>3, <1>5, FollowsKind
<1>6. ASSUME l > 2 PROVE todo[2] \in LowerSteps <=> todo[3] \in LowerSteps
  BY <1>4, <1>6, FollowsKind
<1> QED
  BY <1>1, <1>2, <1>3, <1>4, <1>5, <1>6

\* Thread i has ended, or is now new; the others are as they were.
Ended(i) ==
  /\ jobs' \in Seq(Jobs) /\ Len(jobs') = Len(jobs) - 1
  /\ \A m \in 1 .. Len(jobs') : \E k \in 1 .. Len(jobs) : k # i /\ jobs'[m] = jobs[k]
  /\ \A k \in 1 .. Len(jobs) : k # i => \E m \in 1 .. Len(jobs') : jobs'[m] = jobs[k]

IsNow(i, new) ==
  /\ jobs' \in Seq(Jobs) /\ Len(jobs') = Len(jobs) /\ jobs'[i] = new
  /\ \A k \in 1 .. Len(jobs) : k # i => jobs'[k] = jobs[k]

LEMMA JobStops ==
  ASSUME CriticalTypeOK, NEW i \in 1 .. Len(jobs), Stops(i)
  PROVE  Ended(i)
<1> PICK l \in Nat : l = Len(jobs)
  BY DEF CriticalTypeOK
<1>1. jobs' \in Seq(Jobs) /\ Len(jobs') = l - 1 /\ \A k \in 1 .. l - 1 : jobs'[k] = jobs[IF k < i THEN k ELSE k + 1]
  BY RemoveAtPlaces DEF CriticalTypeOK, Stops
<1>2. ASSUME NEW m \in 1 .. l - 1 PROVE \E k \in 1 .. l : k # i /\ jobs'[m] = jobs[k]
  <2> PICK k : k = IF m < i THEN m ELSE m + 1
    OBVIOUS
  <2>1. k \in 1 .. l /\ k # i /\ jobs'[m] = jobs[k]
    BY <1>1
  <2> QED
    BY <2>1
<1>3. ASSUME NEW k \in 1 .. l, k # i PROVE \E m \in 1 .. l - 1 : jobs'[m] = jobs[k]
  <2> PICK m : m = IF k < i THEN k ELSE k - 1
    OBVIOUS
  <2>1. m \in 1 .. l - 1 /\ jobs'[m] = jobs[k]
    BY <1>1, <1>3
  <2> QED
    BY <2>1
<1> QED
  BY <1>1, <1>2, <1>3 DEF Ended

\* A thread that has done its first n steps.
LEMMA JobGoes ==
  ASSUME CriticalTypeOK, NEW i \in 1 .. Len(jobs), NEW j \in Jobs, JobOK(j), NEW n \in {1, 2},
         n <= Len(j.todo), Goes(i, j, n)
  PROVE  \/ Len(j.todo) = n /\ Ended(i)
         \/ /\ Len(j.todo) > n
            /\ \E new \in Jobs : /\ JobOK(new) /\ IsNow(i, new) /\ new.todo[1] = j.todo[n + 1]
                                 /\ new.lowers = j.lowers /\ new.has = j.has
<1> PICK todo : todo = j.todo
  OBVIOUS
<1>0. Plan(todo) /\ todo \in Seq(Steps)
  BY DEF JobOK, Plan
<1> PICK l \in Nat : l = Len(todo)
  BY <1>0
<1>1. CASE l = n
  BY <1>1, JobStops DEF Goes, Stops
<1>2. CASE l > n
  <2> PICK rest : rest = SubSeq(j.todo, n + 1, l)
    OBVIOUS
  <2> DEFINE new == [j EXCEPT !.todo = rest]
  <2>1. jobs' = [jobs EXCEPT ![i] = new]
    BY <1>2 DEF Goes
  <2>2. Plan(rest) /\ rest[1] = j.todo[n + 1]
    <3>1. n \in 1 .. Len(todo) - 1
      BY <1>2
    <3> QED
      BY <1>0, <3>1, PlanRest
  <2>3. rest \in Seq(Steps)
    BY <2>2 DEF Plan
  <2>4. new \in Jobs /\ new.todo = rest /\ new.lowers = j.lowers /\ new.has = j.has
    BY <2>3 DEF Jobs
  <2> HIDE DEF new
  <2>5. todo[n + 1] \in LowerSteps <=> todo[1] \in LowerSteps
    <3>1. /\ l > 1 => (todo[1] \in LowerSteps <=> todo[2] \in LowerSteps)
          /\ l > 2 => (todo[2] \in LowerSteps <=> todo[3] \in LowerSteps)
      BY <1>0, PlanKind
    <3>2. CASE n = 1
      BY <1>2, <3>1, <3>2
    <3>3. CASE n = 2
      BY <1>2, <3>1, <3>3
    <3> QED
      BY <3>2, <3>3
  <2>6. JobOK(new)
    BY <2>2, <2>4, <2>5 DEF JobOK
  <2>7. IsNow(i, new)
    <3>1. jobs \in Seq(Jobs)
      BY DEF CriticalTypeOK
    <3> QED
      BY <2>1, <2>4, <3>1, ExceptSeq DEF IsNow
  <2> QED
    BY <1>2, <2>2, <2>4, <2>6, <2>7
<1> QED
  BY <1>1, <1>2

\* The types are kept when a thread ends or goes on.
LEMMA JobsTyped ==
  ASSUME CriticalTypeOK, NEW i \in 1 .. Len(jobs),
         Ended(i) \/ \E new \in Jobs : JobOK(new) /\ IsNow(i, new)
  PROVE  jobs' \in Seq(Jobs) /\ \A m \in 1 .. Len(jobs') : JobOK(jobs'[m])
<1>1. CASE Ended(i)
  BY <1>1 DEF Ended, CriticalTypeOK
<1>2. ASSUME NEW new \in Jobs, JobOK(new), IsNow(i, new)
      PROVE  jobs' \in Seq(Jobs) /\ \A m \in 1 .. Len(jobs') : JobOK(jobs'[m])
  BY <1>2 DEF IsNow, CriticalTypeOK
<1> QED
  BY <1>1, <1>2

\* What is known of a thread that is at a step.
LEMMA JobAt ==
  ASSUME CriticalTypeOK, NEW i \in DOMAIN jobs, NEW step, ToDo(i, step)
  PROVE  /\ i \in 1 .. Len(jobs) /\ jobs[i] \in Jobs /\ JobOK(jobs[i])
         /\ jobs[i].todo[1] = step /\ 1 <= Len(jobs[i].todo) /\ Len(jobs[i].todo) \in Nat
<1>1. i \in 1 .. Len(jobs)
  BY DEF CriticalTypeOK
<1>2. jobs[i] \in Jobs /\ JobOK(jobs[i])
  BY <1>1, ElementOfSeq DEF CriticalTypeOK
<1>3. 1 <= Len(jobs[i].todo) /\ Len(jobs[i].todo) \in Nat /\ jobs[i].todo \in Seq(Steps)
  BY <1>2 DEF JobOK, Plan
<1>4. Head(jobs[i].todo) = jobs[i].todo[1]
  BY <1>3
<1> QED
  BY <1>1, <1>2, <1>3, <1>4 DEF ToDo

LEMMA PlanJoined ==
  ASSUME NEW s \in Seq(Steps), NEW t \in Seq(Steps)
  PROVE  /\ s \o t \in Seq(Steps) /\ Len(s \o t) = Len(s) + Len(t)
         /\ \A i \in 1 .. Len(s) + Len(t) : (s \o t)[i] = IF i <= Len(s) THEN s[i] ELSE t[i - Len(s)]
BY ConcatProperties

\* Starts with a step that raises, or with one that lowers, the state.
RaisePlan(todo) == Plan(todo) /\ todo[1] = "SetTimer" /\ ~Lowers(todo)
LowerPlan(todo, step) == Plan(todo) /\ todo[1] = step /\ Lowers(todo) /\ step \in LowerSteps

LEMMA ThreadPlans ==
  /\ RaisePlan(SetCriticalTimer) /\ RaisePlan(SaveCopy)
  /\ LowerPlan(ClearInner, "Erase") /\ LowerPlan(ClearAgedData, "Erase")
  /\ LowerPlan(CriticalTask, "IfNone") /\ LowerPlan(CancelCriticalTimer, "CancelTimer")
<1> PICK raise, lower, erase, work, cancel, none, save, clear :
      /\ raise = <<"SetTimer", "TellTrue", "StoreTrue">> /\ lower = <<"TellFalse", "StoreFalse">>
      /\ erase = <<"Erase">> /\ work = <<"HasWork", "TellWork", "StoreWork">>
      /\ cancel = <<"CancelTimer">> /\ none = <<"IfNone">> /\ save = <<"SaveData">>
      /\ clear = <<"Erase", "IfNone">>
  OBVIOUS
<1>1. /\ raise \in Seq(Steps) /\ lower \in Seq(Steps) /\ erase \in Seq(Steps) /\ work \in Seq(Steps)
      /\ cancel \in Seq(Steps) /\ none \in Seq(Steps) /\ save \in Seq(Steps) /\ clear \in Seq(Steps)
  BY DEF Steps, RaiseSteps, LowerSteps
<1>2. /\ Len(raise) = 3 /\ Len(lower) = 2 /\ Len(erase) = 1 /\ Len(work) = 3
      /\ Len(cancel) = 1 /\ Len(none) = 1 /\ Len(save) = 1 /\ Len(clear) = 2
  OBVIOUS
<1>3. /\ raise[1] = "SetTimer" /\ raise[2] = "TellTrue" /\ raise[3] = "StoreTrue"
      /\ lower[1] = "TellFalse" /\ lower[2] = "StoreFalse" /\ erase[1] = "Erase"
      /\ work[1] = "HasWork" /\ work[2] = "TellWork" /\ work[3] = "StoreWork"
      /\ cancel[1] = "CancelTimer" /\ none[1] = "IfNone" /\ save[1] = "SaveData"
      /\ clear[1] = "Erase" /\ clear[2] = "IfNone"
  OBVIOUS
<1>4. /\ SetCriticalTimer = raise /\ SaveCopy = raise \o save /\ CancelCriticalTimer = cancel \o lower
      /\ ClearInner = clear \o CancelCriticalTimer /\ ClearAgedData = erase \o work
      /\ CriticalTask = none \o lower
  BY DEF SetCriticalTimer, Raise, SaveCopy, CancelCriticalTimer, Lower, ClearInner, ClearAgedData,
         RefreshCriticalState, CriticalTask
<1> USE DEF LowerSteps
<1>5. RaisePlan(SetCriticalTimer)
  <2>1. \A i \in 1 .. 2 : <<raise[i], raise[i + 1]>> \in Follows
    BY <1>3 DEF Follows
  <2>2. \A i \in 1 .. 3 : raise[i] \in {"SetTimer", "TellTrue", "StoreTrue"}
    BY <1>3
  <2> QED
    BY <1>1, <1>2, <1>3, <1>4, <2>1, <2>2 DEF RaisePlan, Plan, LastSteps, Lowers, Contains
<1>6. RaisePlan(SaveCopy)
  <2> PICK s : s = SaveCopy
    OBVIOUS
  <2>1. s \in Seq(Steps) /\ Len(s) = 4 /\ \A i \in 1 .. 4 : s[i] = IF i <= 3 THEN raise[i] ELSE save[i - 3]
    BY <1>1, <1>2, <1>4, PlanJoined
  <2>2. s[1] = "SetTimer" /\ s[2] = "TellTrue" /\ s[3] = "StoreTrue" /\ s[4] = "SaveData"
    BY <1>3, <2>1
  <2>3. \A i \in 1 .. 3 : <<s[i], s[i + 1]>> \in Follows
    BY <2>2 DEF Follows
  <2>4. \A i \in 1 .. 4 : s[i] \in {"SetTimer", "TellTrue", "StoreTrue", "SaveData"}
    BY <2>2
  <2> QED
    BY <2>1, <2>2, <2>3, <2>4 DEF RaisePlan, Plan, LastSteps, Lowers, Contains
<1>7. LowerPlan(CancelCriticalTimer, "CancelTimer") /\ CancelCriticalTimer \in Seq(Steps)
      /\ Len(CancelCriticalTimer) = 3 /\ CancelCriticalTimer[2] = "TellFalse" /\ CancelCriticalTimer[3] = "StoreFalse"
  <2> PICK s : s = CancelCriticalTimer
    OBVIOUS
  <2>1. s \in Seq(Steps) /\ Len(s) = 3 /\ \A i \in 1 .. 3 : s[i] = IF i <= 1 THEN cancel[i] ELSE lower[i - 1]
    BY <1>1, <1>2, <1>4, PlanJoined
  <2>2. s[1] = "CancelTimer" /\ s[2] = "TellFalse" /\ s[3] = "StoreFalse"
    BY <1>3, <2>1
  <2>3. \A i \in 1 .. 2 : <<s[i], s[i + 1]>> \in Follows
    BY <2>2 DEF Follows
  <2> QED
    BY <2>1, <2>2, <2>3 DEF LowerPlan, Plan, LastSteps, Lowers, Contains
<1>8. LowerPlan(ClearInner, "Erase")
  <2> PICK s : s = ClearInner
    OBVIOUS
  <2> PICK t : t = CancelCriticalTimer
    OBVIOUS
  <2>0. t \in Seq(Steps) /\ Len(t) = 3 /\ t[1] = "CancelTimer" /\ t[2] = "TellFalse" /\ t[3] = "StoreFalse"
    BY <1>7 DEF LowerPlan
  <2>1. s \in Seq(Steps) /\ Len(s) = 5 /\ \A i \in 1 .. 5 : s[i] = IF i <= 2 THEN clear[i] ELSE t[i - 2]
    BY <1>1, <1>2, <1>4, <2>0, PlanJoined
  <2>2. s[1] = "Erase" /\ s[2] = "IfNone" /\ s[3] = "CancelTimer" /\ s[4] = "TellFalse" /\ s[5] = "StoreFalse"
    BY <1>3, <2>0, <2>1
  <2>3. \A i \in 1 .. 4 : <<s[i], s[i + 1]>> \in Follows
    BY <2>2 DEF Follows
  <2> QED
    BY <2>1, <2>2, <2>3 DEF LowerPlan, Plan, LastSteps, Lowers, Contains
<1>9. LowerPlan(ClearAgedData, "Erase")
  <2> PICK s : s = ClearAgedData
    OBVIOUS
  <2>1. s \in Seq(Steps) /\ Len(s) = 4 /\ \A i \in 1 .. 4 : s[i] = IF i <= 1 THEN erase[i] ELSE work[i - 1]
    BY <1>1, <1>2, <1>4, PlanJoined
  <2>2. s[1] = "Erase" /\ s[2] = "HasWork" /\ s[3] = "TellWork" /\ s[4] = "StoreWork"
    BY <1>3, <2>1
  <2>3. \A i \in 1 .. 3 : <<s[i], s[i + 1]>> \in Follows
    BY <2>2 DEF Follows
  <2> QED
    BY <2>1, <2>2, <2>3 DEF LowerPlan, Plan, LastSteps, Lowers, Contains
<1>10. LowerPlan(CriticalTask, "IfNone")
  <2> PICK s : s = CriticalTask
    OBVIOUS
  <2>1. s \in Seq(Steps) /\ Len(s) = 3 /\ \A i \in 1 .. 3 : s[i] = IF i <= 1 THEN none[i] ELSE lower[i - 1]
    BY <1>1, <1>2, <1>4, PlanJoined
  <2>2. s[1] = "IfNone" /\ s[2] = "TellFalse" /\ s[3] = "StoreFalse"
    BY <1>3, <2>1
  <2>3. \A i \in 1 .. 2 : <<s[i], s[i + 1]>> \in Follows
    BY <2>2 DEF Follows
  <2> QED
    BY <2>1, <2>2, <2>3 DEF LowerPlan, Plan, LastSteps, Lowers, Contains
<1> QED
  BY <1>5, <1>6, <1>7, <1>8, <1>9, <1>10

\* A thread new is started.
Started(new) ==
  /\ jobs' \in Seq(Jobs) /\ Len(jobs') = Len(jobs) + 1 /\ jobs'[Len(jobs) + 1] = new
  /\ \A k \in 1 .. Len(jobs) : jobs'[k] = jobs[k]

LEMMA JobStarts ==
  ASSUME CriticalTypeOK, NEW new \in Jobs, JobOK(new), jobs' = Append(jobs, new)
  PROVE  Started(new) /\ jobs' \in Seq(Jobs) /\ \A m \in 1 .. Len(jobs') : JobOK(jobs'[m])
<1> PICK l \in Nat : l = Len(jobs)
  BY DEF CriticalTypeOK
<1>1. jobs \in Seq(Jobs)
  BY DEF CriticalTypeOK
<1>2. jobs' \in Seq(Jobs) /\ Len(jobs') = l + 1 /\ jobs'[l + 1] = new /\ \A k \in 1 .. l : jobs'[k] = jobs[k]
  BY <1>1, AppendProperties
<1>3. ASSUME NEW m \in 1 .. l + 1 PROVE JobOK(jobs'[m])
  <2>1. CASE m = l + 1
    BY <1>2, <2>1
  <2>2. CASE m \in 1 .. l
    BY <1>2, <2>2 DEF CriticalTypeOK
  <2> QED
    BY <2>1, <2>2
<1> QED
  BY <1>2, <1>3 DEF Started

\* Thread i goes on with next, or has ended; the others are as they were.
Moves(i, next, has) ==
  \/ next = "end" /\ Ended(i)
  \/ /\ next \in Steps
     /\ \E new \in Jobs : /\ JobOK(new) /\ IsNow(i, new)
                          /\ new.todo[1] = next /\ new.lowers = jobs[i].lowers /\ new.has = has

LEMMA JobMoves ==
  ASSUME CriticalTypeOK, NEW i \in DOMAIN jobs, NEW step, ToDo(i, step), NEW j \in Jobs, NEW n \in {1, 2},
         j.todo = jobs[i].todo, j.lowers = jobs[i].lowers, n <= Len(j.todo), Goes(i, j, n)
  PROVE  \E next : /\ Moves(i, next, j.has)
                   /\ n = 1 => \/ next = "end" /\ step \in LastSteps
                               \/ <<step, next>> \in Follows
                   /\ n = 2 => \/ next = "end"
                               \/ <<step, j.todo[2]>> \in Follows /\ <<j.todo[2], next>> \in Follows
<1>1. /\ i \in 1 .. Len(jobs) /\ jobs[i] \in Jobs /\ JobOK(jobs[i])
      /\ jobs[i].todo[1] = step /\ 1 <= Len(jobs[i].todo) /\ Len(jobs[i].todo) \in Nat
  BY JobAt
<1>2. JobOK(j)
  BY <1>1 DEF JobOK
<1> PICK todo : todo = j.todo
  OBVIOUS
<1>3. Plan(todo) /\ todo[1] = step
  BY <1>1, <1>2 DEF JobOK
<1>4. /\ todo[1] \notin LastSteps => Len(todo) > 1
      /\ Len(todo) > 1 => <<todo[1], todo[2]>> \in Follows
      /\ Len(todo) > 2 => <<todo[2], todo[3]>> \in Follows
  BY <1>3, PlanKind
<1>5. \/ Len(todo) = n /\ Ended(i)
      \/ /\ Len(todo) > n
         /\ \E new \in Jobs : /\ JobOK(new) /\ IsNow(i, new) /\ new.todo[1] = todo[n + 1]
                              /\ new.lowers = j.lowers /\ new.has = j.has
  BY <1>1, <1>2, JobGoes
<1>6. CASE Len(todo) = n /\ Ended(i)
  <2>1. Moves(i, "end", j.has)
    BY <1>6 DEF Moves
  <2>2. n = 1 => step \in LastSteps
    BY <1>3, <1>4, <1>6
  <2> QED
    BY <2>1, <2>2
<1>7. ASSUME Len(todo) > n, NEW new \in Jobs, JobOK(new), IsNow(i, new), new.todo[1] = todo[n + 1],
             new.lowers = j.lowers, new.has = j.has
      PROVE  /\ Moves(i, todo[n + 1], j.has)
             /\ n = 1 => <<step, todo[n + 1]>> \in Follows
             /\ n = 2 => <<step, todo[2]>> \in Follows /\ <<todo[2], todo[n + 1]>> \in Follows
  <2>1. new.todo[1] \in Steps
    BY <1>7, PlanKind DEF JobOK
  <2>2. Moves(i, todo[n + 1], j.has)
    BY <1>7, <2>1 DEF Moves
  <2>3. Len(todo) \in Nat
    BY <1>1
  <2>4. CASE n = 1
    BY <1>3, <1>4, <1>7, <2>2, <2>3, <2>4
  <2>5. CASE n = 2
    BY <1>3, <1>4, <1>7, <2>2, <2>3, <2>5
  <2> QED
    BY <2>4, <2>5
<1> QED
  BY <1>5, <1>6, <1>7

\* The step of one thread among threads that raise the state.
LEMMA RaisingKept ==
  ASSUME CriticalTypeOK, Raising, NEW i \in 1 .. Len(jobs), NEW next, NEW has, Moves(i, next, has),
         running' = running, timer => timer', told => told', isCritical' => told',
         told' => \/ isCritical' \/ next = "StoreTrue"
                  \/ \E k \in 1 .. Len(jobs) : k # i /\ jobs[k].todo[1] = "StoreTrue",
         told' /\ clips' = {} => timer',
         running /\ LocalClips' # {} => \/ told' \/ next \in {"SetTimer", "TellTrue"}
                                   \/ \E k \in 1 .. Len(jobs) : k # i /\ jobs[k].todo[1] \in {"SetTimer", "TellTrue"},
         next \notin {"SetTimer", "end"} => timer',
         next \in {"StoreTrue", "SaveData"} => told'
  PROVE  Raising'
<1>0. Len(jobs) \in Nat
  BY DEF CriticalTypeOK
<1>1. CASE next = "end" /\ Ended(i)
  <2>1. \A m \in 1 .. Len(jobs') : \E k \in 1 .. Len(jobs) : k # i /\ jobs'[m] = jobs[k]
    BY <1>1 DEF Ended
  <2>2. \A k \in 1 .. Len(jobs) : k # i => \E m \in 1 .. Len(jobs') : jobs'[m] = jobs[k]
    BY <1>1 DEF Ended
  <2>3. \A m \in 1 .. Len(jobs') : /\ ~jobs'[m].lowers /\ (jobs'[m].todo[1] # "SetTimer" => timer')
                                   /\ (jobs'[m].todo[1] \in {"StoreTrue", "SaveData"} => told')
    BY <2>1 DEF Raising
  <2>4. told' => isCritical' \/ \E m \in 1 .. Len(jobs') : jobs'[m].todo[1] = "StoreTrue"
    BY <1>1, <2>2
  <2>5. running /\ LocalClips' # {} =>
          told' \/ \E m \in 1 .. Len(jobs') : jobs'[m].todo[1] \in {"SetTimer", "TellTrue"}
    BY <1>1, <2>2
  <2> QED
    BY <2>3, <2>4, <2>5 DEF Raising
<1>2. ASSUME NEW new \in Jobs, IsNow(i, new), new.todo[1] = next, new.lowers = jobs[i].lowers, next \in Steps
      PROVE  Raising'
  <2>1. /\ jobs'[i] = new /\ Len(jobs') = Len(jobs)
        /\ \A k \in 1 .. Len(jobs) : k # i => jobs'[k] = jobs[k]
    BY <1>2 DEF IsNow
  <2>2. next # "end"
    BY <1>2 DEF Steps, RaiseSteps, LowerSteps
  <2>3. ASSUME NEW m \in 1 .. Len(jobs)
        PROVE  /\ ~jobs'[m].lowers /\ (jobs'[m].todo[1] # "SetTimer" => timer')
               /\ (jobs'[m].todo[1] \in {"StoreTrue", "SaveData"} => told')
    <3>1. CASE m = i
      BY <1>2, <2>1, <2>2, <3>1 DEF Raising
    <3>2. CASE m # i
      BY <2>1, <3>2 DEF Raising
    <3> QED
      BY <3>1, <3>2
  <2>4. told' => isCritical' \/ \E m \in 1 .. Len(jobs') : jobs'[m].todo[1] = "StoreTrue"
    BY <1>2, <2>1
  <2>5. running /\ LocalClips' # {} =>
          told' \/ \E m \in 1 .. Len(jobs') : jobs'[m].todo[1] \in {"SetTimer", "TellTrue"}
    BY <1>2, <2>1
  <2> QED
    BY <2>1, <2>3, <2>4, <2>5 DEF Raising
<1> QED
  BY <1>1, <1>2 DEF Moves

\* The step of the one thread that lowers the state.
LEMMA LoweringKept ==
  ASSUME CriticalTypeOK, Lowering, NEW next, NEW has, Moves(1, next, has),
         next = "end" => /\ told' = isCritical' /\ (told' /\ clips' = {} => timer')
                         /\ (running' /\ LocalClips' # {} => told'),
         next # "end" => LoweringAt(next, has)'
  PROVE  Raising' \/ Lowering'
<1>1. CASE next = "end" /\ Ended(1)
  <2>1. Len(jobs') = 0
    BY <1>1 DEF Ended, Lowering
  <2> QED
    BY <1>1, <2>1 DEF Raising
<1>2. ASSUME NEW new \in Jobs, IsNow(1, new), new.todo[1] = next, new.lowers = jobs[1].lowers, new.has = has,
             next \in Steps
      PROVE  Lowering'
  <2>1. jobs'[1] = new /\ Len(jobs') = 1
    BY <1>2 DEF IsNow, Lowering
  <2>2. next # "end"
    BY <1>2 DEF Steps, RaiseSteps, LowerSteps
  <2>3. LoweringAt(jobs[1].todo[1], jobs[1].has)'
    BY <1>2, <2>1, <2>2 DEF LoweringAt
  <2> QED
    BY <1>2, <2>1, <2>3 DEF Lowering
<1> QED
  BY <1>1, <1>2 DEF Moves

LEMMA MovesTyped ==
  ASSUME CriticalTypeOK, NEW i \in 1 .. Len(jobs), NEW next, NEW has, Moves(i, next, has)
  PROVE  jobs' \in Seq(Jobs) /\ \A m \in 1 .. Len(jobs') : JobOK(jobs'[m])
BY JobsTyped DEF Moves

\* A thread that raises the state is not alone with one that lowers it, and the other way round.
LEMMA StepSide ==
  ASSUME CriticalInv, NEW i \in DOMAIN jobs, NEW step, ToDo(i, step)
  PROVE  /\ step \in RaiseSteps /\ orderly => Raising
         /\ step \in LowerSteps /\ orderly => Lowering /\ i = 1 /\ LoweringAt(step, jobs[1].has)
<1>1. /\ i \in 1 .. Len(jobs) /\ JobOK(jobs[i]) /\ jobs[i].todo[1] = step
  BY JobAt DEF CriticalInv
<1>2. step \in RaiseSteps => ~jobs[i].lowers
  BY <1>1 DEF JobOK, RaiseSteps, LowerSteps
<1>3. step \in LowerSteps => jobs[i].lowers
  BY <1>1 DEF JobOK
<1>4. Lowering => i = 1
  BY <1>1 DEF Lowering
<1>5. Lowering => jobs[1].lowers /\ LoweringAt(jobs[1].todo[1], jobs[1].has)
  BY DEF Lowering
<1>6. Raising => ~jobs[i].lowers
  BY <1>1 DEF Raising
<1> QED
  BY <1>1, <1>2, <1>3, <1>4, <1>5, <1>6 DEF CriticalInv

LEMMA RaiseStep ==
  ASSUME CriticalInv, NEW i \in DOMAIN jobs, SetTimer(i) \/ TellTrue(i) \/ StoreTrue(i) \/ SaveData(i)
  PROVE  CriticalInv'
<1>0. /\ CriticalTypeOK /\ Len(jobs) \in Nat
      /\ running \in BOOLEAN /\ isCritical \in BOOLEAN /\ told \in BOOLEAN /\ timer \in BOOLEAN /\ orderly \in BOOLEAN
  BY DEF CriticalInv, CriticalTypeOK
<1>1. CASE SetTimer(i)
  <2>1. ToDo(i, "SetTimer") /\ Goes(i, jobs[i], 1) /\ timer' = TRUE /\ orderly' = orderly /\ running' = running
        /\ clips' = clips /\ LocalClips' = LocalClips /\ isCritical' = isCritical /\ told' = told
    BY <1>1 DEF SetTimer, LocalClips
  <2>2. i \in 1 .. Len(jobs) /\ jobs[i] \in Jobs /\ jobs[i].todo[1] = "SetTimer" /\ 1 <= Len(jobs[i].todo)
    BY <1>0, <2>1, JobAt
  <2> PICK j \in Jobs : j = jobs[i]
    BY <2>2
  <2>3. PICK next : Moves(i, next, j.has) /\ next = "TellTrue"
    <3>1. PICK next : Moves(i, next, j.has) /\ ((next = "end" /\ "SetTimer" \in LastSteps) \/ <<"SetTimer", next>> \in Follows)
      BY <1>0, <2>1, <2>2, JobMoves
    <3> QED
      BY <3>1 DEF Follows, LastSteps
  <2>4. orderly => Raising
    BY <2>1, StepSide DEF RaiseSteps
  <2>5. ASSUME Raising PROVE Raising'
    <3>1. /\ told => isCritical \/ \E k \in 1 .. Len(jobs) : k # i /\ jobs[k].todo[1] = "StoreTrue"
          /\ isCritical => told
      BY <2>2, <2>5 DEF Raising
    <3> QED
      BY <1>0, <2>1, <2>2, <2>3, <2>5, <3>1, RaisingKept
  <2> QED
    BY <1>0, <2>1, <2>2, <2>3, <2>4, <2>5, MovesTyped DEF CriticalInv, CriticalTypeOK
<1>2. CASE TellTrue(i)
  <2>1. ToDo(i, "TellTrue") /\ Goes(i, jobs[i], IF isCritical THEN 2 ELSE 1) /\ told' = (told \/ ~isCritical)
        /\ timer' = timer /\ orderly' = orderly /\ running' = running /\ clips' = clips /\ LocalClips' = LocalClips /\ isCritical' = isCritical
    BY <1>2 DEF TellTrue, LocalClips
  <2>2. i \in 1 .. Len(jobs) /\ jobs[i] \in Jobs /\ jobs[i].todo[1] = "TellTrue" /\ JobOK(jobs[i])
        /\ 1 <= Len(jobs[i].todo) /\ Len(jobs[i].todo) \in Nat
    BY <1>0, <2>1, JobAt
  <2> PICK j \in Jobs : j = jobs[i]
    BY <2>2
  <2> PICK n \in {1, 2} : n = IF isCritical THEN 2 ELSE 1
    OBVIOUS
  <2>3. Len(j.todo) > 1 /\ n <= Len(j.todo)
    <3>1. j.todo[1] \notin LastSteps
      BY <2>2 DEF LastSteps
    <3>2. Len(j.todo) > 1
      BY <2>2, <3>1, PlanKind DEF JobOK
    <3> QED
      BY <2>2, <3>2
  <2>4. PICK next : /\ Moves(i, next, j.has)
                    /\ n = 1 => next = "StoreTrue"
                    /\ n = 2 => next \in {"end", "SaveData"}
    <3>1. Goes(i, j, n)
      BY <2>1
    <3>2. PICK next : /\ Moves(i, next, j.has)
                      /\ n = 1 => \/ next = "end" /\ "TellTrue" \in LastSteps
                                  \/ <<"TellTrue", next>> \in Follows
                      /\ n = 2 => \/ next = "end"
                                  \/ <<"TellTrue", j.todo[2]>> \in Follows /\ <<j.todo[2], next>> \in Follows
      BY <1>0, <2>1, <2>2, <2>3, <3>1, JobMoves
    <3>3. n = 1 => next = "StoreTrue"
      BY <3>2 DEF Follows, LastSteps
    <3>4. <<"TellTrue", j.todo[2]>> \in Follows => j.todo[2] = "StoreTrue"
      BY DEF Follows
    <3>5. <<"StoreTrue", next>> \in Follows => next = "SaveData"
      BY DEF Follows
    <3>6. n = 2 => next \in {"end", "SaveData"}
      BY <3>2, <3>4, <3>5
    <3> QED
      BY <3>2, <3>3, <3>6
  <2>5. orderly => Raising
    BY <2>1, StepSide DEF RaiseSteps
  <2>6. ASSUME Raising PROVE Raising'
    <3>1. timer /\ (isCritical => told) /\ told'
      BY <1>0, <2>1, <2>2, <2>6 DEF Raising
    <3>2. isCritical' \/ next = "StoreTrue"
      BY <1>0, <2>1, <2>4
    <3> QED
      BY <1>0, <2>1, <2>2, <2>4, <2>6, <3>1, <3>2, RaisingKept
  <2> QED
    BY <1>0, <2>1, <2>2, <2>4, <2>5, <2>6, MovesTyped DEF CriticalInv, CriticalTypeOK
<1>3. CASE StoreTrue(i)
  <2>1. ToDo(i, "StoreTrue") /\ Goes(i, jobs[i], 1) /\ timer' = timer /\ orderly' = orderly /\ running' = running
        /\ clips' = clips /\ LocalClips' = LocalClips /\ isCritical' = TRUE /\ told' = told
    BY <1>3 DEF StoreTrue, LocalClips
  <2>2. i \in 1 .. Len(jobs) /\ jobs[i] \in Jobs /\ jobs[i].todo[1] = "StoreTrue" /\ 1 <= Len(jobs[i].todo)
    BY <1>0, <2>1, JobAt
  <2> PICK j \in Jobs : j = jobs[i]
    BY <2>2
  <2>3. PICK next : Moves(i, next, j.has) /\ next \in {"end", "SaveData"}
    <3>1. PICK next : Moves(i, next, j.has) /\ ((next = "end" /\ "StoreTrue" \in LastSteps) \/ <<"StoreTrue", next>> \in Follows)
      BY <1>0, <2>1, <2>2, JobMoves
    <3> QED
      BY <3>1 DEF Follows, LastSteps
  <2>4. orderly => Raising
    BY <2>1, StepSide DEF RaiseSteps
  <2>5. ASSUME Raising PROVE Raising'
    <3>1. told /\ timer
      BY <2>2, <2>5 DEF Raising
    <3> QED
      BY <1>0, <2>1, <2>2, <2>3, <2>5, <3>1, RaisingKept
  <2> QED
    BY <1>0, <2>1, <2>2, <2>3, <2>4, <2>5, MovesTyped DEF CriticalInv, CriticalTypeOK
<1>4. CASE SaveData(i)
  <2>1. ToDo(i, "SaveData") /\ Goes(i, jobs[i], 1) /\ timer' = timer /\ orderly' = orderly /\ running' = running
        /\ isCritical' = isCritical /\ told' = told
    BY <1>4 DEF SaveData
  <2>2. i \in 1 .. Len(jobs) /\ jobs[i] \in Jobs /\ jobs[i].todo[1] = "SaveData" /\ 1 <= Len(jobs[i].todo)
    BY <1>0, <2>1, JobAt
  <2> PICK j \in Jobs : j = jobs[i]
    BY <2>2
  <2>3. PICK next : Moves(i, next, j.has) /\ next = "end"
    <3>1. PICK next : Moves(i, next, j.has) /\ ((next = "end" /\ "SaveData" \in LastSteps) \/ <<"SaveData", next>> \in Follows)
      BY <1>0, <2>1, <2>2, JobMoves
    <3> QED
      BY <3>1 DEF Follows, LastSteps
  <2>4. orderly => Raising
    BY <2>1, StepSide DEF RaiseSteps
  <2>5. ASSUME Raising PROVE Raising'
    <3>1. told /\ timer /\ (told => isCritical \/ \E k \in 1 .. Len(jobs) : k # i /\ jobs[k].todo[1] = "StoreTrue")
      BY <2>2, <2>5 DEF Raising
    <3> QED
      BY <1>0, <2>1, <2>2, <2>3, <2>5, <3>1, RaisingKept
  <2> QED
    BY <1>0, <2>1, <2>2, <2>3, <2>4, <2>5, MovesTyped DEF CriticalInv, CriticalTypeOK
<1> QED
  BY <1>1, <1>2, <1>3, <1>4

\* A step of a thread that lowers the state, from what the step does to the state it is at.
LEMMA LowerDone ==
  ASSUME CriticalInv, NEW i \in DOMAIN jobs, NEW step \in LowerSteps, ToDo(i, step),
         NEW next, NEW has, Moves(i, next, has), running' = running, orderly' = orderly,
         isCritical' \in BOOLEAN, told' \in BOOLEAN, timer' \in BOOLEAN,
         LoweringAt(step, jobs[1].has) /\ i = 1 =>
           /\ next = "end" => /\ told' = isCritical' /\ (told' /\ clips' = {} => timer')
                              /\ (running' /\ LocalClips' # {} => told')
           /\ next # "end" => LoweringAt(next, has)'
  PROVE  CriticalInv'
<1>0. CriticalTypeOK /\ running \in BOOLEAN /\ orderly \in BOOLEAN
  BY DEF CriticalInv, CriticalTypeOK
<1>1. orderly => Lowering /\ i = 1 /\ LoweringAt(step, jobs[1].has)
  BY StepSide
<1>2. orderly => Raising' \/ Lowering'
  <2> SUFFICES ASSUME orderly PROVE Raising' \/ Lowering'
    OBVIOUS
  <2>1. Moves(1, next, has)
    BY <1>1
  <2> QED
    BY <1>0, <1>1, <2>1, LoweringKept
<1>3. i \in 1 .. Len(jobs)
  BY <1>0, JobAt
<1> QED
  BY <1>0, <1>2, <1>3, MovesTyped DEF CriticalInv, CriticalTypeOK

LEMMA LowerStep ==
  ASSUME CriticalInv, NEW i \in DOMAIN jobs,
         \/ Erase(i) \/ IfNone(i) \/ CancelTimer(i) \/ TellFalse(i) \/ StoreFalse(i)
         \/ HasWork(i) \/ TellWork(i) \/ StoreWork(i)
  PROVE  CriticalInv'
<1>0. /\ CriticalTypeOK /\ Len(jobs) \in Nat
      /\ running \in BOOLEAN /\ isCritical \in BOOLEAN /\ told \in BOOLEAN /\ timer \in BOOLEAN /\ orderly \in BOOLEAN
  BY DEF CriticalInv, CriticalTypeOK
<1>1. CASE Erase(i)
  <2>1. ToDo(i, "Erase") /\ Goes(i, jobs[i], 1) /\ orderly' = orderly /\ running' = running
        /\ told' = told /\ isCritical' = isCritical /\ timer' = timer /\ (LocalClips' # {} => LocalClips # {})
    BY <1>1 DEF Erase, LocalClips
  <2>2. i \in 1 .. Len(jobs) /\ jobs[i] \in Jobs /\ 1 <= Len(jobs[i].todo)
    BY <1>0, <2>1, JobAt
  <2> PICK j \in Jobs : j = jobs[i]
    BY <2>2
  <2>3. PICK next \in {"IfNone", "HasWork"} : Moves(i, next, j.has)
    <3>1. PICK next : Moves(i, next, j.has) /\ ((next = "end" /\ "Erase" \in LastSteps) \/ <<"Erase", next>> \in Follows)
      BY <1>0, <2>1, <2>2, JobMoves
    <3> QED
      BY <3>1 DEF Follows, LastSteps
  <2>4. j.has \in BOOLEAN /\ "Erase" \in LowerSteps
    BY DEF Jobs, LowerSteps
  <2>5. told' \in BOOLEAN /\ isCritical' \in BOOLEAN /\ timer' \in BOOLEAN
    BY <1>0, <2>1, <2>4
  <2>6. LoweringAt("Erase", jobs[1].has) /\ i = 1 =>
          /\ next = "end" => /\ told' = isCritical' /\ (told' /\ clips' = {} => timer')
                             /\ (running' /\ LocalClips' # {} => told')
          /\ next # "end" => LoweringAt(next, j.has)'
    BY <1>0, <2>1, <2>4 DEF LoweringAt
  <2> QED
    BY <2>1, <2>3, <2>4, <2>5, <2>6, LowerDone
<1>2. CASE CancelTimer(i)
  <2>1. ToDo(i, "CancelTimer") /\ Goes(i, jobs[i], 1) /\ orderly' = orderly /\ running' = running
        /\ told' = told /\ isCritical' = isCritical /\ timer' = FALSE /\ clips' = clips /\ LocalClips' = LocalClips
    BY <1>2 DEF CancelTimer, LocalClips
  <2>2. i \in 1 .. Len(jobs) /\ jobs[i] \in Jobs /\ 1 <= Len(jobs[i].todo)
    BY <1>0, <2>1, JobAt
  <2> PICK j \in Jobs : j = jobs[i]
    BY <2>2
  <2>3. PICK next \in {"TellFalse"} : Moves(i, next, j.has)
    <3>1. PICK next : Moves(i, next, j.has) /\ ((next = "end" /\ "CancelTimer" \in LastSteps) \/ <<"CancelTimer", next>> \in Follows)
      BY <1>0, <2>1, <2>2, JobMoves
    <3> QED
      BY <3>1 DEF Follows, LastSteps
  <2>4. j.has \in BOOLEAN /\ "CancelTimer" \in LowerSteps
    BY DEF Jobs, LowerSteps
  <2>5. told' \in BOOLEAN /\ isCritical' \in BOOLEAN /\ timer' \in BOOLEAN
    BY <1>0, <2>1, <2>4
  <2>6. LoweringAt("CancelTimer", jobs[1].has) /\ i = 1 =>
          /\ next = "end" => /\ told' = isCritical' /\ (told' /\ clips' = {} => timer')
                             /\ (running' /\ LocalClips' # {} => told')
          /\ next # "end" => LoweringAt(next, j.has)'
    BY <1>0, <2>1, <2>4 DEF LoweringAt
  <2> QED
    BY <2>1, <2>3, <2>4, <2>5, <2>6, LowerDone
<1>3. CASE TellFalse(i)
  <2>1. ToDo(i, "TellFalse") /\ Goes(i, jobs[i], 1) /\ orderly' = orderly /\ running' = running
        /\ told' = FALSE /\ isCritical' = isCritical /\ timer' = timer /\ clips' = clips /\ LocalClips' = LocalClips
    BY <1>3 DEF TellFalse, LocalClips
  <2>2. i \in 1 .. Len(jobs) /\ jobs[i] \in Jobs /\ 1 <= Len(jobs[i].todo)
    BY <1>0, <2>1, JobAt
  <2> PICK j \in Jobs : j = jobs[i]
    BY <2>2
  <2>3. PICK next \in {"StoreFalse"} : Moves(i, next, j.has)
    <3>1. PICK next : Moves(i, next, j.has) /\ ((next = "end" /\ "TellFalse" \in LastSteps) \/ <<"TellFalse", next>> \in Follows)
      BY <1>0, <2>1, <2>2, JobMoves
    <3> QED
      BY <3>1 DEF Follows, LastSteps
  <2>4. j.has \in BOOLEAN /\ "TellFalse" \in LowerSteps
    BY DEF Jobs, LowerSteps
  <2>5. told' \in BOOLEAN /\ isCritical' \in BOOLEAN /\ timer' \in BOOLEAN
    BY <1>0, <2>1, <2>4
  <2>6. LoweringAt("TellFalse", jobs[1].has) /\ i = 1 =>
          /\ next = "end" => /\ told' = isCritical' /\ (told' /\ clips' = {} => timer')
                             /\ (running' /\ LocalClips' # {} => told')
          /\ next # "end" => LoweringAt(next, j.has)'
    BY <1>0, <2>1, <2>4 DEF LoweringAt
  <2> QED
    BY <2>1, <2>3, <2>4, <2>5, <2>6, LowerDone
<1>4. CASE StoreFalse(i)
  <2>1. ToDo(i, "StoreFalse") /\ Goes(i, jobs[i], 1) /\ orderly' = orderly /\ running' = running
        /\ told' = told /\ isCritical' = FALSE /\ timer' = timer /\ clips' = clips /\ LocalClips' = LocalClips
    BY <1>4 DEF StoreFalse, LocalClips
  <2>2. i \in 1 .. Len(jobs) /\ jobs[i] \in Jobs /\ 1 <= Len(jobs[i].todo)
    BY <1>0, <2>1, JobAt
  <2> PICK j \in Jobs : j = jobs[i]
    BY <2>2
  <2>3. PICK next \in {"end"} : Moves(i, next, j.has)
    <3>1. PICK next : Moves(i, next, j.has) /\ ((next = "end" /\ "StoreFalse" \in LastSteps) \/ <<"StoreFalse", next>> \in Follows)
      BY <1>0, <2>1, <2>2, JobMoves
    <3> QED
      BY <3>1 DEF Follows, LastSteps
  <2>4. j.has \in BOOLEAN /\ "StoreFalse" \in LowerSteps
    BY DEF Jobs, LowerSteps
  <2>5. told' \in BOOLEAN /\ isCritical' \in BOOLEAN /\ timer' \in BOOLEAN
    BY <1>0, <2>1, <2>4
  <2>6. LoweringAt("StoreFalse", jobs[1].has) /\ i = 1 =>
          /\ next = "end" => /\ told' = isCritical' /\ (told' /\ clips' = {} => timer')
                             /\ (running' /\ LocalClips' # {} => told')
          /\ next # "end" => LoweringAt(next, j.has)'
    BY <1>0, <2>1, <2>4 DEF LoweringAt
  <2> QED
    BY <2>1, <2>3, <2>4, <2>5, <2>6, LowerDone
<1>5. CASE TellWork(i)
  <2>1. ToDo(i, "TellWork") /\ Goes(i, jobs[i], 1) /\ orderly' = orderly /\ running' = running
        /\ told' = jobs[i].has /\ isCritical' = isCritical /\ timer' = timer /\ clips' = clips /\ LocalClips' = LocalClips
    BY <1>5 DEF TellWork, LocalClips
  <2>2. i \in 1 .. Len(jobs) /\ jobs[i] \in Jobs /\ 1 <= Len(jobs[i].todo)
    BY <1>0, <2>1, JobAt
  <2> PICK j \in Jobs : j = jobs[i]
    BY <2>2
  <2>3. PICK next \in {"StoreWork"} : Moves(i, next, j.has)
    <3>1. PICK next : Moves(i, next, j.has) /\ ((next = "end" /\ "TellWork" \in LastSteps) \/ <<"TellWork", next>> \in Follows)
      BY <1>0, <2>1, <2>2, JobMoves
    <3> QED
      BY <3>1 DEF Follows, LastSteps
  <2>4. j.has \in BOOLEAN /\ "TellWork" \in LowerSteps
    BY DEF Jobs, LowerSteps
  <2>5. told' \in BOOLEAN /\ isCritical' \in BOOLEAN /\ timer' \in BOOLEAN
    BY <1>0, <2>1, <2>4
  <2>6. LoweringAt("TellWork", jobs[1].has) /\ i = 1 =>
          /\ next = "end" => /\ told' = isCritical' /\ (told' /\ clips' = {} => timer')
                             /\ (running' /\ LocalClips' # {} => told')
          /\ next # "end" => LoweringAt(next, j.has)'
    BY <1>0, <2>1, <2>4 DEF LoweringAt
  <2> QED
    BY <2>1, <2>3, <2>4, <2>5, <2>6, LowerDone
<1>6. CASE StoreWork(i)
  <2>1. ToDo(i, "StoreWork") /\ Goes(i, jobs[i], 1) /\ orderly' = orderly /\ running' = running
        /\ told' = told /\ isCritical' = jobs[i].has /\ timer' = timer /\ clips' = clips /\ LocalClips' = LocalClips
    BY <1>6 DEF StoreWork, LocalClips
  <2>2. i \in 1 .. Len(jobs) /\ jobs[i] \in Jobs /\ 1 <= Len(jobs[i].todo)
    BY <1>0, <2>1, JobAt
  <2> PICK j \in Jobs : j = jobs[i]
    BY <2>2
  <2>3. PICK next \in {"end"} : Moves(i, next, j.has)
    <3>1. PICK next : Moves(i, next, j.has) /\ ((next = "end" /\ "StoreWork" \in LastSteps) \/ <<"StoreWork", next>> \in Follows)
      BY <1>0, <2>1, <2>2, JobMoves
    <3> QED
      BY <3>1 DEF Follows, LastSteps
  <2>4. j.has \in BOOLEAN /\ "StoreWork" \in LowerSteps
    BY DEF Jobs, LowerSteps
  <2>5. told' \in BOOLEAN /\ isCritical' \in BOOLEAN /\ timer' \in BOOLEAN
    BY <1>0, <2>1, <2>4
  <2>6. LoweringAt("StoreWork", jobs[1].has) /\ i = 1 =>
          /\ next = "end" => /\ told' = isCritical' /\ (told' /\ clips' = {} => timer')
                             /\ (running' /\ LocalClips' # {} => told')
          /\ next # "end" => LoweringAt(next, j.has)'
    BY <1>0, <2>1, <2>4 DEF LoweringAt
  <2> QED
    BY <2>1, <2>3, <2>4, <2>5, <2>6, LowerDone
<1>7. CASE HasWork(i)
  <2>1. ToDo(i, "HasWork") /\ Goes(i, [jobs[i] EXCEPT !.has = (clips # {})], 1) /\ orderly' = orderly /\ running' = running
        /\ told' = told /\ isCritical' = isCritical /\ timer' = timer /\ clips' = clips /\ LocalClips' = LocalClips
    BY <1>7 DEF HasWork, HasActivePasteboardWork, LocalClips
  <2>2. i \in 1 .. Len(jobs) /\ jobs[i] \in Jobs /\ 1 <= Len(jobs[i].todo)
    BY <1>0, <2>1, JobAt
  <2> PICK j : j = [jobs[i] EXCEPT !.has = (clips # {})]
    OBVIOUS
  <2>3. j \in Jobs /\ j.todo = jobs[i].todo /\ j.lowers = jobs[i].lowers /\ j.has = (clips # {})
    BY <2>2 DEF Jobs
  <2>4. PICK next \in {"TellWork"} : Moves(i, next, j.has)
    <3>1. PICK next : Moves(i, next, j.has) /\ ((next = "end" /\ "HasWork" \in LastSteps) \/ <<"HasWork", next>> \in Follows)
      BY <1>0, <2>1, <2>2, <2>3, JobMoves
    <3> QED
      BY <3>1 DEF Follows, LastSteps
  <2>5. "HasWork" \in LowerSteps
    BY DEF LowerSteps
  <2>6. LoweringAt(next, j.has)'
    BY <2>1, <2>3 DEF LoweringAt, LocalClips
  <2> QED
    BY <1>0, <2>1, <2>4, <2>5, <2>6, LowerDone
<1>8. CASE IfNone(i)
  <2>1. ToDo(i, "IfNone") /\ orderly' = orderly /\ running' = running
        /\ told' = told /\ isCritical' = isCritical /\ timer' = timer /\ clips' = clips /\ LocalClips' = LocalClips
        /\ IF clips # {} THEN Stops(i) ELSE Goes(i, jobs[i], 1)
    BY <1>8 DEF IfNone, HasActivePasteboardWork, LocalClips
  <2>2. i \in 1 .. Len(jobs) /\ jobs[i] \in Jobs /\ 1 <= Len(jobs[i].todo)
    BY <1>0, <2>1, JobAt
  <2> PICK j \in Jobs : j = jobs[i]
    BY <2>2
  <2>3. "IfNone" \in LowerSteps
    BY DEF LowerSteps
  <2>4. CASE clips # {}
    <3>1. Moves(i, "end", j.has)
      BY <1>0, <2>1, <2>2, <2>4, JobStops DEF Moves
    <3>2. LoweringAt("IfNone", jobs[1].has) => told' = isCritical' /\ (running' /\ LocalClips' # {} => told')
      BY <2>1 DEF LoweringAt
    <3> QED
      BY <1>0, <2>1, <2>3, <2>4, <3>1, <3>2, LowerDone
  <2>5. CASE clips = {}
    <3>1. PICK next \in {"CancelTimer", "TellFalse"} : Moves(i, next, j.has)
      <4>1. Goes(i, j, 1)
        BY <2>1, <2>5
      <4>2. PICK next : Moves(i, next, j.has) /\ ((next = "end" /\ "IfNone" \in LastSteps) \/ <<"IfNone", next>> \in Follows)
        BY <1>0, <2>1, <2>2, <4>1, JobMoves
      <4> QED
        BY <4>2 DEF Follows, LastSteps
    <3>2. next # "end" /\ LoweringAt(next, j.has)'
      BY <2>1, <2>5 DEF LoweringAt, LocalClips
    <3> QED
      BY <1>0, <2>1, <2>3, <3>1, <3>2, LowerDone
  <2> QED
    BY <2>4, <2>5
<1> QED
  BY <1>1, <1>2, <1>3, <1>4, <1>5, <1>6, <1>7, <1>8

\* A thread that raises the state is started.
LEMMA RaiseStarts ==
  ASSUME CriticalInv, NEW todo, RaisePlan(todo), NEW u \in JobUsers,
         jobs' = Append(jobs, [user |-> u, todo |-> todo, lowers |-> FALSE, has |-> FALSE]),
         orderly' \in BOOLEAN, running' \in BOOLEAN, orderly' => orderly /\ \A i \in 1 .. Len(jobs) : ~jobs[i].lowers,
         clips' = clips /\ LocalClips' = LocalClips, isCritical' = isCritical, timer' = timer,
         told' = told \/ (told' = FALSE /\ (orderly' => jobs = <<>> /\ ~isCritical))
  PROVE  CriticalInv'
<1>0. /\ CriticalTypeOK /\ Len(jobs) \in Nat
      /\ isCritical \in BOOLEAN /\ told \in BOOLEAN /\ timer \in BOOLEAN
  BY DEF CriticalInv, CriticalTypeOK
<1> DEFINE new == [user |-> u, todo |-> todo, lowers |-> FALSE, has |-> FALSE]
<1>1. new \in Jobs /\ new.todo = todo /\ new.lowers = FALSE /\ JobOK(new)
  <2>1. todo \in Seq(Steps) /\ Plan(todo)
    BY DEF RaisePlan, Plan
  <2>2. new \in Jobs /\ new.todo = todo /\ new.lowers = FALSE
    BY <2>1 DEF Jobs
  <2> QED
    BY <2>1, <2>2 DEF RaisePlan, LowerSteps, JobOK
<1>2. jobs' = Append(jobs, new)
  OBVIOUS
<1> HIDE DEF new
<1>3. Started(new) /\ jobs' \in Seq(Jobs) /\ \A m \in 1 .. Len(jobs') : JobOK(jobs'[m])
  BY <1>0, <1>1, <1>2, JobStarts
<1>4. ASSUME orderly' PROVE Raising'
  <2>1. Raising
    BY <1>4 DEF CriticalInv, Lowering
  <2>2. /\ Len(jobs') = Len(jobs) + 1 /\ jobs'[Len(jobs) + 1] = new /\ new.todo[1] = "SetTimer"
        /\ \A k \in 1 .. Len(jobs) : jobs'[k] = jobs[k]
    BY <1>1, <1>3 DEF Started, RaisePlan
  <2>3. told' => told
    BY <1>0
  <2>4. jobs = <<>> => Len(jobs) = 0
    OBVIOUS
  <2>5. \A m \in 1 .. Len(jobs') :
          /\ ~jobs'[m].lowers /\ (jobs'[m].todo[1] # "SetTimer" => timer')
          /\ jobs'[m].todo[1] \in {"StoreTrue", "SaveData"} => told'
    <3> SUFFICES ASSUME NEW m \in 1 .. Len(jobs')
                 PROVE  /\ ~jobs'[m].lowers /\ (jobs'[m].todo[1] # "SetTimer" => timer')
                        /\ jobs'[m].todo[1] \in {"StoreTrue", "SaveData"} => told'
      OBVIOUS
    <3>1. CASE m = Len(jobs) + 1
      BY <1>1, <2>2, <3>1
    <3>2. CASE m \in 1 .. Len(jobs)
      BY <1>0, <1>4, <2>1, <2>2, <2>4, <3>2 DEF Raising
    <3> QED
      BY <1>0, <2>2, <3>1, <3>2
  <2>6. told' => isCritical' \/ \E m \in 1 .. Len(jobs') : jobs'[m].todo[1] = "StoreTrue"
    BY <1>0, <2>1, <2>2, <2>3 DEF Raising
  <2>7. \E m \in 1 .. Len(jobs') : jobs'[m].todo[1] \in {"SetTimer", "TellTrue"}
    BY <1>0, <2>2
  <2>8. isCritical' => told'
    BY <1>0, <1>4, <2>1 DEF Raising
  <2>9. told' /\ clips' = {} => timer'
    BY <2>1, <2>3 DEF Raising
  <2> QED
    BY <2>5, <2>6, <2>7, <2>8, <2>9 DEF Raising
<1>5. told' \in BOOLEAN
  BY <1>0
<1> QED
  BY <1>0, <1>3, <1>4, <1>5 DEF CriticalInv, CriticalTypeOK

\* A thread that lowers the state is started: in order when there is no other.
LEMMA LowerStarts ==
  ASSUME CriticalInv, NEW todo, NEW step, LowerPlan(todo, step), NEW u \in JobUsers,
         jobs' = Append(jobs, [user |-> u, todo |-> todo, lowers |-> TRUE, has |-> FALSE]),
         orderly' \in BOOLEAN, running' \in BOOLEAN, timer' \in BOOLEAN,
         orderly' => orderly /\ jobs = <<>>, clips' = clips /\ LocalClips' = LocalClips, isCritical' = isCritical, told' = told,
         \/ step = "Erase" /\ running' = running /\ timer' = timer
         \/ step = "IfNone" /\ running' = running
         \/ step = "CancelTimer" /\ ~running'
  PROVE  CriticalInv'
<1>0. /\ CriticalTypeOK /\ Len(jobs) \in Nat
      /\ isCritical \in BOOLEAN /\ told \in BOOLEAN /\ timer \in BOOLEAN
  BY DEF CriticalInv, CriticalTypeOK
<1> DEFINE new == [user |-> u, todo |-> todo, lowers |-> TRUE, has |-> FALSE]
<1>1. new \in Jobs /\ new.todo = todo /\ new.lowers = TRUE /\ JobOK(new)
  <2>1. todo \in Seq(Steps) /\ Plan(todo)
    BY DEF LowerPlan, Plan
  <2>2. new \in Jobs /\ new.todo = todo /\ new.lowers = TRUE
    BY <2>1 DEF Jobs
  <2> QED
    BY <2>1, <2>2 DEF LowerPlan, LowerSteps, JobOK
<1>2. jobs' = Append(jobs, new)
  OBVIOUS
<1> HIDE DEF new
<1>3. Started(new) /\ jobs' \in Seq(Jobs) /\ \A m \in 1 .. Len(jobs') : JobOK(jobs'[m])
  BY <1>0, <1>1, <1>2, JobStarts
<1>4. ASSUME orderly' PROVE Lowering'
  <2>1. Len(jobs) = 0
    BY <1>4
  <2>2. Raising
    BY <1>4, <2>1 DEF CriticalInv, Lowering
  <2>3. told = isCritical /\ (told /\ clips = {} => timer) /\ (running /\ LocalClips # {} => told)
    BY <1>0, <2>1, <2>2 DEF Raising
  <2>4. Len(jobs') = 1 /\ jobs'[1] = new /\ new.todo[1] = step
    BY <1>1, <1>3, <2>1 DEF Started, LowerPlan
  <2>5. LoweringAt(jobs[1].todo[1], jobs[1].has)'
    BY <2>3, <2>4 DEF LoweringAt
  <2> QED
    BY <1>1, <2>4, <2>5 DEF Lowering
<1> QED
  BY <1>0, <1>3, <1>4 DEF CriticalInv, CriticalTypeOK

\* What Start does to orderly.
LEMMA StartFacts ==
  ASSUME CriticalInv, NEW u \in Owners, NEW todo, Start(u, todo)
  PROVE  /\ u \in JobUsers /\ orderly' \in BOOLEAN
         /\ ~Lowers(todo) =>
              /\ jobs' = Append(jobs, [user |-> u, todo |-> todo, lowers |-> FALSE, has |-> FALSE])
              /\ orderly' => orderly /\ \A i \in 1 .. Len(jobs) : ~jobs[i].lowers
         /\ Lowers(todo) =>
              /\ jobs' = Append(jobs, [user |-> u, todo |-> todo, lowers |-> TRUE, has |-> FALSE])
              /\ orderly' => orderly /\ jobs = <<>>
<1>0. jobs \in Seq(Jobs) /\ orderly \in BOOLEAN
  BY DEF CriticalInv, CriticalTypeOK
<1>1. /\ jobs' = Append(jobs, [user |-> u, todo |-> todo, lowers |-> Lowers(todo), has |-> FALSE])
      /\ orderly' = (orderly /\ (jobs = <<>> \/ ~(Lowers(todo) \/ \E j \in Range(jobs) : j.lowers)))
  BY DEF Start
<1>2. \A i \in 1 .. Len(jobs) : jobs[i] \in Range(jobs)
  BY <1>0 DEF Range
<1>3. jobs = <<>> => Len(jobs) = 0
  OBVIOUS
<1>4. Lowers(todo) \in BOOLEAN
  BY DEF Lowers
<1>5. ~Lowers(todo) => Lowers(todo) = FALSE
  BY <1>4
<1>6. Lowers(todo) => Lowers(todo) = TRUE
  BY <1>4
<1>7. orderly' \in BOOLEAN
  BY <1>0, <1>1
<1>8. orderly' /\ Lowers(todo) => orderly /\ jobs = <<>>
  BY <1>1
<1>9. ASSUME orderly', ~Lowers(todo) PROVE orderly /\ \A i \in 1 .. Len(jobs) : ~jobs[i].lowers
  <2>1. orderly /\ (jobs = <<>> \/ ~\E j \in Range(jobs) : j.lowers)
    BY <1>1, <1>9
  <2>2. CASE jobs = <<>>
    BY <1>3, <2>1, <2>2
  <2>3. CASE ~\E j \in Range(jobs) : j.lowers
    BY <1>2, <2>1, <2>3
  <2> QED
    BY <2>1, <2>2, <2>3
<1> QED
  BY <1>1, <1>5, <1>6, <1>7, <1>8, <1>9 DEF JobUsers

\* A clip of a peer stored meanwhile leaves no more local clips than there were.
LEMMA RemoteStep ==
  ASSUME CriticalInv, NEW u \in Owners, RemoteInstalled(u)
  PROVE  CriticalInv'
<1>1. /\ UNCHANGED <<running, isCritical, told, timer, jobs, orderly>> /\ clips' # {}
      /\ LocalClips' # {} => LocalClips # {}
  BY DEF RemoteInstalled, LocalClips
<1>2. CriticalTypeOK'
  BY <1>1 DEF CriticalInv, CriticalTypeOK
<1>3. Raising => Raising'
  BY <1>1 DEF Raising
<1>4. ASSUME Lowering PROVE Lowering'
  <2> PICK step, has : step = jobs[1].todo[1] /\ has = jobs[1].has
    OBVIOUS
  <2>1. LoweringAt(step, has)
    BY <1>4 DEF Lowering
  <2>2. LoweringAt(step, has)'
    BY <1>1, <2>1 DEF LoweringAt
  <2>3. step = jobs'[1].todo[1] /\ has = jobs'[1].has
    BY <1>1
  <2>4. LoweringAt(jobs[1].todo[1], jobs[1].has)'
    BY <2>2, <2>3
  <2> QED
    BY <1>1, <1>4, <2>4 DEF Lowering
<1> QED
  BY <1>1, <1>2, <1>3, <1>4 DEF CriticalInv

LEMMA CriticalStep == CriticalInv /\ [CriticalNext]_criticalVars => CriticalInv'
<1> SUFFICES ASSUME CriticalInv, [CriticalNext]_criticalVars PROVE CriticalInv'
  OBVIOUS
<1>0. running \in BOOLEAN /\ orderly \in BOOLEAN /\ timer \in BOOLEAN /\ CriticalTypeOK
  BY DEF CriticalInv, CriticalTypeOK
<1>1. ASSUME NEW i \in DOMAIN jobs, SetTimer(i) \/ TellTrue(i) \/ StoreTrue(i) \/ SaveData(i)
      PROVE  CriticalInv'
  BY <1>1, RaiseStep
<1>2. ASSUME NEW i \in DOMAIN jobs,
             \/ Erase(i) \/ IfNone(i) \/ CancelTimer(i) \/ TellFalse(i) \/ StoreFalse(i)
             \/ HasWork(i) \/ TellWork(i) \/ StoreWork(i)
      PROVE  CriticalInv'
  BY <1>2, LowerStep
<1>3. ASSUME NEW u \in Owners, Copies(u) PROVE CriticalInv'
  <2>1. RaisePlan(SaveCopy) /\ ~Lowers(SaveCopy)
    BY ThreadPlans DEF RaisePlan
  <2>2. Start(u, SaveCopy) /\ UNCHANGED <<running, clips, LocalClips, isCritical, told, timer>>
    BY <1>3 DEF Copies, LocalClips
  <2> QED
    BY <1>0, <2>1, <2>2, StartFacts, RaiseStarts
<1>4. ASSUME NEW u \in Owners, ClearClip(u) PROVE CriticalInv'
  <2>1. LowerPlan(ClearInner, "Erase") /\ Lowers(ClearInner)
    BY ThreadPlans DEF LowerPlan
  <2>2. Start(u, ClearInner) /\ UNCHANGED <<running, clips, LocalClips, isCritical, told, timer>>
    BY <1>4 DEF ClearClip, LocalClips
  <2> QED
    BY <1>0, <2>1, <2>2, StartFacts, LowerStarts
<1>5. ASSUME NEW u \in Owners, DataExpires(u) PROVE CriticalInv'
  <2>1. LowerPlan(ClearAgedData, "Erase") /\ Lowers(ClearAgedData)
    BY ThreadPlans DEF LowerPlan
  <2>2. Start(u, ClearAgedData) /\ UNCHANGED <<running, clips, LocalClips, isCritical, told, timer>>
    BY <1>5 DEF DataExpires, LocalClips
  <2> QED
    BY <1>0, <2>1, <2>2, StartFacts, LowerStarts
<1>6. ASSUME ConfigOn \/ OnStart PROVE CriticalInv'
  <2>1. RaisePlan(SetCriticalTimer) /\ ~Lowers(SetCriticalTimer)
    BY ThreadPlans DEF RaisePlan
  <2>2. PICK u \in Owners : Start(u, SetCriticalTimer)
    BY <1>6 DEF ConfigOn, OnStart
  <2>3. running' \in BOOLEAN /\ UNCHANGED <<clips, LocalClips, isCritical, told, timer>>
    BY <1>0, <1>6 DEF ConfigOn, OnStart, LocalClips
  <2> QED
    BY <2>1, <2>2, <2>3, StartFacts, RaiseStarts
<1>7. ASSUME TimerExpires PROVE CriticalInv'
  <2>1. LowerPlan(CriticalTask, "IfNone") /\ Lowers(CriticalTask)
    BY ThreadPlans DEF LowerPlan
  <2>2. PICK u \in Owners : Start(u, CriticalTask)
    BY <1>7 DEF TimerExpires
  <2>3. timer' = FALSE /\ UNCHANGED <<running, clips, LocalClips, isCritical, told>>
    BY <1>7 DEF TimerExpires, LocalClips
  <2> QED
    BY <1>0, <2>1, <2>2, <2>3, StartFacts, LowerStarts
<1>8. ASSUME OnStop PROVE CriticalInv'
  <2>1. LowerPlan(CancelCriticalTimer, "CancelTimer") /\ Lowers(CancelCriticalTimer)
    BY ThreadPlans DEF LowerPlan
  <2>2. PICK u \in Owners : Start(u, CancelCriticalTimer)
    BY <1>8 DEF OnStop
  <2>3. running' = FALSE /\ UNCHANGED <<timer, clips, LocalClips, isCritical, told>>
    BY <1>8 DEF OnStop, LocalClips
  <2> QED
    BY <1>0, <2>1, <2>2, <2>3, StartFacts, LowerStarts
<1>9. ASSUME OnAddMemoryManager PROVE CriticalInv'
  <2>1. RaisePlan(SetCriticalTimer)
    BY ThreadPlans
  <2> PICK u \in JobUsers : u = CHOOSE v \in Owners : TRUE
    BY DEF JobUsers
  <2>2. jobs' = Append(jobs, [user |-> u, todo |-> SetCriticalTimer, lowers |-> FALSE, has |-> FALSE])
    BY <1>9 DEF OnAddMemoryManager
  <2>3. told' = FALSE /\ orderly' = (orderly /\ ~isCritical /\ jobs = <<>>)
        /\ UNCHANGED <<running, clips, LocalClips, isCritical, timer>>
    BY <1>9 DEF OnAddMemoryManager, LocalClips
  <2>4. orderly' \in BOOLEAN /\ (orderly' => orderly /\ \A i \in 1 .. Len(jobs) : ~jobs[i].lowers)
    <3>1. orderly' \in BOOLEAN /\ (orderly' => orderly /\ jobs = <<>>)
      BY <1>0, <2>3
    <3>2. jobs = <<>> => Len(jobs) = 0
      OBVIOUS
    <3> QED
      BY <3>1, <3>2
  <2> QED
    BY <1>0, <2>1, <2>2, <2>3, <2>4, RaiseStarts
<1>10. ASSUME UNCHANGED criticalVars PROVE CriticalInv'
  BY <1>10 DEF criticalVars, CriticalInv, CriticalTypeOK, Raising, Lowering, LoweringAt, LocalClips
<1> QED
  BY <1>1, <1>2, <1>3, <1>4, <1>5, <1>6, <1>7, <1>8, <1>9, <1>10, RemoteStep DEF CriticalNext

LEMMA CriticalInvHolds == CriticalSpec => []CriticalInv
<1>1. CriticalInit => CriticalInv
  <2> SUFFICES ASSUME CriticalInit PROVE CriticalInv
    OBVIOUS
  <2>1. Len(jobs) = 0 /\ jobs \in Seq(Jobs)
    BY DEF CriticalInit
  <2>2. running = TRUE /\ clips = {} /\ isCritical = FALSE /\ told = FALSE /\ timer = FALSE /\ orderly = TRUE
    BY DEF CriticalInit
  <2>3. CriticalTypeOK
    <3>1. \A i \in 1 .. Len(jobs) : JobOK(jobs[i])
      BY <2>1
    <3> QED
      BY <2>1, <2>2, <3>1 DEF CriticalTypeOK
  <2>4. Raising
    BY <2>1, <2>2 DEF Raising, LocalClips
  <2> QED
    BY <2>3, <2>4 DEF CriticalInv
<1> QED
  BY <1>1, CriticalStep, PTL DEF CriticalSpec

\* However many copies raise the state at once, and whatever clears, timers, restarts and new
\* memory managers come between them, and whichever clips of peers are stored meanwhile, the
\* memory manager knows the process as isCritical_ and the clips copied here say once the
\* threads have ended, unless one that lowers the state overlapped another or the manager was
\* restarted while isCritical_ was set (SetCriticalTimer, RefreshCriticalState,
\* CancelCriticalTimer, GetRemotePasteData).
THEOREM ManagerKnows == CriticalSpec => []CriticalKnown
<1>1. CriticalInv => CriticalKnown
  <2> SUFFICES ASSUME CriticalInv, running, jobs = <<>>, orderly
               PROVE  /\ told = isCritical /\ (LocalClips # {} => told) /\ (~(clips # {}) /\ ~timer => ~told)
    BY DEF CriticalKnown, HasActivePasteboardWork
  <2>1. Len(jobs) = 0 /\ told \in BOOLEAN /\ isCritical \in BOOLEAN
    BY DEF CriticalInv, CriticalTypeOK
  <2>2. Raising
    BY <2>1 DEF CriticalInv, Lowering
  <2> QED
    BY <2>1, <2>2 DEF Raising
<1> QED
  BY <1>1, CriticalInvHolds, PTL

-----------------------------------------------------------------------------
(* DistributedSwitch.                                                      *)

SwitchSpec == DistributedInit /\ [][DistributedNext]_distributedVars

\* Which step of a thread comes after which, and with which a thread ends.
Successors ==
  {<<"GetEnabledStatus", "Compare">>, <<"Compare", "Store">>, <<"IsOn", "GetEnabledStatus">>,
   <<"Store", "Load">>, <<"Load", "GetClipPlugin">>, <<"SetUserId", "GetValue">>,
   <<"GetValue", "UpdateEnabledStatus">>, <<"UpdateEnabledStatus", "PutDeviceStatus">>,
   <<"PutDeviceStatus", "GetEnabledStatus">>, <<"Init", "SetUserId">>,
   <<"SetUserId", "RegisterObserver">>, <<"RegisterObserver", "SetUserId">>, <<"Enter", "IsOn">>,
   <<"GetClipPlugin", "DeInit">>, <<"DeInit", "Init">>, <<"SetUserId", "GetDeviceCollabSwitch">>,
   <<"GetDeviceCollabSwitch", "IsOn">>, <<"AddDevice", "SubscribeProfileEvent">>,
   <<"SubscribeProfileEvent", "GetDeviceStatus">>, <<"GetDeviceStatus", "GetEnabledStatus">>,
   <<"RemoveDevice", "UnSubscribeProfileEvent">>, <<"UnSubscribeProfileEvent", "EraseEnabledStatus">>,
   <<"EraseEnabledStatus", "GetEnabledStatus">>, <<"UpdateEnabledStatus", "GetEnabledStatus">>,
   <<"WriteBack", "GetEnabledStatus">>}
StepNames ==
  {"GetEnabledStatus", "Compare", "Store", "IsOn", "Load", "GetClipPlugin", "SetUserId", "GetValue",
   "UpdateEnabledStatus", "PutDeviceStatus", "Init", "RegisterObserver", "Enter", "DeInit",
   "GetDeviceCollabSwitch", "AddDevice", "SubscribeProfileEvent", "GetDeviceStatus", "RemoveDevice",
   "UnSubscribeProfileEvent", "EraseEnabledStatus", "WriteBack", "OnConfigChangeInner"}
Endings == {"Store", "GetClipPlugin", "OnConfigChangeInner"}

\* s is a non-empty sequence of steps, each a successor of the one before, and a route
\* if it leads to an ending.
Chain(s) ==
  /\ s \in Seq(StepNames) /\ Len(s) >= 1
  /\ \A i \in 1 .. Len(s) - 1 : <<s[i], s[i + 1]>> \in Successors
Route(s) == Chain(s) /\ s[Len(s)] \in Endings

ThreadFields == {"subject", "dev", "user", "new", "of", "val", "tried", "held", "inside", "todo"}
ThreadShape(t) == t = [f \in ThreadFields |-> t[f]]
ThreadOK(t) == ThreadShape(t) /\ t.new \in BOOLEAN /\ Route(t.todo)

Deciding == {"GetClipPlugin", "OnConfigChangeInner"}

SwitchTypeOK ==
  /\ \E S : threads \in Seq(S)
  /\ \A i \in 1 .. Len(threads) : ThreadOK(threads[i])
  /\ status \in BOOLEAN /\ plugin \in BOOLEAN /\ supported \in BOOLEAN /\ inOrder \in BOOLEAN
  /\ setting \in [Users -> BOOLEAN] /\ levelKnown \in BOOLEAN /\ kept \in BOOLEAN

\* The thread that OnConfigChange has started for what status_ now is.
Announced(list, value) ==
  \E i \in 1 .. Len(list) : list[i].todo[1] = "OnConfigChangeInner" /\ list[i].new = value

\* The plugin is as status_ says, or could not be dropped.
PluginRight == (status /\ supported /\ levelKnown => plugin) /\ (plugin => status \/ kept)

\* The plugin is as status_ says or will be made so; and a thread that is about to load or
\* drop it for what status_ was has the newer one beside it.
PluginInv ==
  /\ SwitchTypeOK
  /\ plugin => supported /\ levelKnown
  /\ inOrder =>
       /\ Announced(threads, status) \/ PluginRight
       /\ (\E i \in 1 .. Len(threads) : threads[i].todo[1] \in Deciding /\ threads[i].new # status)
            => Announced(threads, status)

\* What is left of a route is one.
LEMMA RouteRest ==
  ASSUME NEW s, Route(s), NEW n \in 1 .. Len(s) - 1
  PROVE  LET rest == SubSeq(s, n + 1, Len(s))
         IN  Route(rest) /\ rest[1] = s[n + 1]
<1> PICK rest : rest = SubSeq(s, n + 1, Len(s))
  OBVIOUS
<1> PICK l \in Nat : l = Len(s)
  BY DEF Route, Chain
<1>1. n \in Nat /\ n >= 1 /\ n < l /\ \A i \in 1 .. l : s[i] \in StepNames
  BY ElementOfSeq DEF Route, Chain
<1>2. rest \in Seq(StepNames) /\ Len(rest) = l - n /\ \A i \in 1 .. l - n : rest[i] = s[n + i]
  BY <1>1, SubSeqProperties
<1>3. rest[l - n] = s[l] /\ rest[1] = s[n + 1]
  BY <1>1, <1>2
<1>4. \A i \in 1 .. l - n - 1 : <<rest[i], rest[i + 1]>> \in Successors
  <2> SUFFICES ASSUME NEW i \in 1 .. l - n - 1 PROVE <<rest[i], rest[i + 1]>> \in Successors
    OBVIOUS
  <2>1. n + i \in 1 .. l - 1 /\ rest[i] = s[n + i] /\ rest[i + 1] = s[(n + i) + 1]
    BY <1>1, <1>2
  <2> QED
    BY <2>1 DEF Route, Chain
<1> QED
  BY <1>1, <1>2, <1>3, <1>4 DEF Route, Chain

\* What comes next on a route.
LEMMA RouteNext ==
  ASSUME NEW s, Route(s), NEW n \in 1 .. Len(s)
  PROVE  /\ s[n] \notin Endings => n < Len(s)
         /\ n < Len(s) => <<s[n], s[n + 1]>> \in Successors
<1> PICK l \in Nat : l = Len(s)
  BY DEF Route, Chain
<1>1. n \in 1 .. l /\ s[l] \in Endings
  BY DEF Route, Chain
<1>2. n < l => n \in 1 .. l - 1
  BY <1>1
<1> QED
  BY <1>1, <1>2 DEF Route, Chain

\* A place on a route is the last one or before it.
LEMMA WithinRoute ==
  ASSUME NEW s, Route(s), NEW n \in 1 .. Len(s)
  PROVE  n = Len(s) \/ n < Len(s)
<1> PICK l \in Nat : l = Len(s)
  BY DEF Route, Chain
<1>1. n \in 1 .. l
  OBVIOUS
<1> QED
  BY <1>1

\* From Compare, and from IsOn, the way is by Store.
LEMMA ToStore ==
  ASSUME NEW s, Route(s)
  PROVE  /\ s[1] = "Compare" => 2 \in 1 .. Len(s) /\ s[2] = "Store"
         /\ s[1] = "IsOn" => 4 \in 1 .. Len(s) /\ s[4] = "Store"
<1> PICK l \in Nat : l = Len(s) /\ l >= 1
  BY DEF Route, Chain
<1>1. ASSUME NEW n \in 1 .. l, s[n] \notin Endings
      PROVE  n + 1 \in 1 .. l /\ <<s[n], s[n + 1]>> \in Successors
  BY <1>1, RouteNext
<1>2. ASSUME NEW n \in 1 .. l, s[n] = "Compare"
      PROVE  n + 1 \in 1 .. l /\ s[n + 1] = "Store"
  BY <1>1, <1>2 DEF Successors, Endings
<1>3. ASSUME NEW n \in 1 .. l, s[n] = "GetEnabledStatus"
      PROVE  n + 1 \in 1 .. l /\ s[n + 1] = "Compare"
  BY <1>1, <1>3 DEF Successors, Endings
<1>4. ASSUME NEW n \in 1 .. l, s[n] = "IsOn"
      PROVE  n + 1 \in 1 .. l /\ s[n + 1] = "GetEnabledStatus"
  BY <1>1, <1>4 DEF Successors, Endings
<1>5. ASSUME s[1] = "Compare" PROVE 2 \in 1 .. l /\ s[2] = "Store"
  BY <1>2, <1>5
<1>6. ASSUME s[1] = "IsOn" PROVE 4 \in 1 .. l /\ s[4] = "Store"
  <2>1. 2 \in 1 .. l /\ s[2] = "GetEnabledStatus"
    BY <1>4, <1>6
  <2>2. 3 \in 1 .. l /\ s[3] = "Compare"
    BY <1>3, <2>1
  <2> QED
    BY <1>2, <2>2
<1> QED
  BY <1>5, <1>6

\* A chain from a to z.
FromTo(s, a, z) == Chain(s) /\ s[1] = a /\ s[Len(s)] = z

\* Two chains that fit make one.
LEMMA ChainJoined ==
  ASSUME NEW s, NEW t, NEW a, NEW y, NEW b, NEW z, FromTo(s, a, y), FromTo(t, b, z),
         <<y, b>> \in Successors
  PROVE  FromTo(s \o t, a, z)
<1> PICK r : r = s \o t
  OBVIOUS
<1> PICK k \in Nat, l \in Nat : k = Len(s) /\ l = Len(t)
  BY DEF FromTo, Chain
<1>1. s \in Seq(StepNames) /\ t \in Seq(StepNames) /\ l >= 1 /\ k >= 1
  BY DEF FromTo, Chain
<1>2. r \in Seq(StepNames) /\ Len(r) = k + l /\ \A i \in 1 .. k + l : r[i] = IF i <= k THEN s[i] ELSE t[i - k]
  BY <1>1, ConcatProperties
<1>3. r[k + l] = z /\ r[1] = a
  <2>1. r[k + l] = t[l] /\ r[1] = s[1]
    BY <1>1, <1>2
  <2> QED
    BY <2>1 DEF FromTo
<1>4. \A i \in 1 .. (k + l) - 1 : <<r[i], r[i + 1]>> \in Successors
  <2> SUFFICES ASSUME NEW i \in 1 .. (k + l) - 1 PROVE <<r[i], r[i + 1]>> \in Successors
    OBVIOUS
  <2>0. i < k \/ i = k \/ i > k
    OBVIOUS
  <2>1. CASE i < k
    <3>1. i \in 1 .. k - 1 /\ r[i] = s[i] /\ r[i + 1] = s[i + 1]
      BY <1>2, <2>1
    <3> QED
      BY <3>1 DEF FromTo, Chain
  <2>2. CASE i = k
    <3>1. r[i] = s[k] /\ r[i + 1] = t[1]
      BY <1>1, <1>2, <2>2
    <3> QED
      BY <3>1 DEF FromTo
  <2>3. CASE i > k
    <3>1. i - k \in 1 .. l - 1 /\ r[i] = t[i - k] /\ r[i + 1] = t[(i - k) + 1]
      BY <1>2, <2>3
    <3> QED
      BY <3>1 DEF FromTo, Chain
  <2> QED
    BY <2>0, <2>1, <2>2, <2>3
<1> QED
  BY <1>1, <1>2, <1>3, <1>4 DEF FromTo, Chain

\* A single step is a chain.
LEMMA ChainOfOne ==
  ASSUME NEW a \in StepNames
  PROVE  FromTo(<<a>>, a, a)
<1> PICK s : s = <<a>>
  OBVIOUS
<1>1. s \in Seq(StepNames) /\ Len(s) = 1 /\ s[1] = a
  OBVIOUS
<1> QED
  BY <1>1 DEF FromTo, Chain

\* WriteBack comes before GetEnabledStatus.
LEMMA RouteWriteBack ==
  ASSUME NEW s, Route(s), s[1] = "GetEnabledStatus"
  PROVE  Route(<<"WriteBack">> \o s) /\ (<<"WriteBack">> \o s)[1] = "WriteBack"
<1> PICK w : w = <<"WriteBack">>
  OBVIOUS
<1>1. FromTo(w, "WriteBack", "WriteBack")
  BY ChainOfOne DEF StepNames
<1> PICK z : z = s[Len(s)]
  OBVIOUS
<1>2. FromTo(s, "GetEnabledStatus", z) /\ z \in Endings
  BY DEF FromTo, Route
<1>3. <<"WriteBack", "GetEnabledStatus">> \in Successors
  BY DEF Successors
<1>4. FromTo(w \o s, "WriteBack", z)
  BY <1>1, <1>2, <1>3, ChainJoined
<1> QED
  BY <1>2, <1>4 DEF FromTo, Route

\* The steps a thread is started with.
StartsWith(s, step) == Route(s) /\ s[1] = step

\* Every thread is started on a route.
LEMMA ThreadRoutes ==
  /\ StartsWith(SwitchInit, "Init") /\ StartsWith(SetSwitch, "SetUserId")
  /\ StartsWith(HandleUserSwitched, "Enter") /\ StartsWith(HandleWifiDisabled, "SetUserId")
  /\ StartsWith(GetPlugin, "IsOn") /\ StartsWith(Online, "AddDevice")
  /\ StartsWith(Offline, "RemoveDevice") /\ StartsWith(OnProfileUpdate, "UpdateEnabledStatus")
  /\ StartsWith(OnConfigChange, "OnConfigChangeInner")
<1> USE DEF Successors, StepNames
<1>1. FromTo(Notify, "GetEnabledStatus", "Store")
  <2> PICK s : s = <<"GetEnabledStatus", "Compare", "Store">>
    OBVIOUS
  <2>1. s \in Seq(StepNames) /\ Len(s) = 3 /\ s[1] = "GetEnabledStatus" /\ s[2] = "Compare" /\ s[3] = "Store"
    OBVIOUS
  <2>2. \A i \in 1 .. 2 : <<s[i], s[i + 1]>> \in Successors
    BY <2>1
  <2> QED
    BY <2>1, <2>2 DEF Notify, FromTo, Chain
<1>2. FromTo(IsOn, "IsOn", "Load")
  <2>1. FromTo(<<"IsOn">>, "IsOn", "IsOn") /\ FromTo(<<"Load">>, "Load", "Load")
    BY ChainOfOne
  <2>2. FromTo(<<"IsOn">> \o Notify, "IsOn", "Store")
    BY <1>1, <2>1, ChainJoined
  <2> QED
    BY <2>1, <2>2, ChainJoined DEF IsOn
<1>3. FromTo(GetPlugin, "IsOn", "GetClipPlugin")
  <2>1. FromTo(<<"GetClipPlugin">>, "GetClipPlugin", "GetClipPlugin")
    BY ChainOfOne
  <2> QED
    BY <1>2, <2>1, ChainJoined DEF GetPlugin
<1>4. FromTo(SetSwitch, "SetUserId", "Store")
  <2> PICK s : s = <<"SetUserId", "GetValue", "UpdateEnabledStatus", "PutDeviceStatus">>
    OBVIOUS
  <2>1. /\ s \in Seq(StepNames) /\ Len(s) = 4 /\ s[1] = "SetUserId" /\ s[2] = "GetValue"
        /\ s[3] = "UpdateEnabledStatus" /\ s[4] = "PutDeviceStatus"
    OBVIOUS
  <2>2. \A i \in 1 .. 3 : <<s[i], s[i + 1]>> \in Successors
    BY <2>1
  <2>3. FromTo(s, "SetUserId", "PutDeviceStatus")
    BY <2>1, <2>2 DEF FromTo, Chain
  <2> QED
    BY <1>1, <2>3, ChainJoined DEF SetSwitch
<1>5. FromTo(SwitchInit, "Init", "Store")
  <2> PICK s : s = <<"Init", "SetUserId", "RegisterObserver">>
    OBVIOUS
  <2>1. /\ s \in Seq(StepNames) /\ Len(s) = 3 /\ s[1] = "Init" /\ s[2] = "SetUserId" /\ s[3] = "RegisterObserver"
    OBVIOUS
  <2>2. \A i \in 1 .. 2 : <<s[i], s[i + 1]>> \in Successors
    BY <2>1
  <2>3. FromTo(s, "Init", "RegisterObserver")
    BY <2>1, <2>2 DEF FromTo, Chain
  <2> QED
    BY <1>4, <2>3, ChainJoined DEF SwitchInit
<1>6. FromTo(HandleUserSwitched, "Enter", "Store")
  <2>1. FromTo(<<"Enter">>, "Enter", "Enter") /\ FromTo(<<"DeInit">>, "DeInit", "DeInit")
    BY ChainOfOne
  <2>2. FromTo(<<"Enter">> \o GetPlugin, "Enter", "GetClipPlugin")
    BY <1>3, <2>1, ChainJoined
  <2>3. FromTo((<<"Enter">> \o GetPlugin) \o <<"DeInit">>, "Enter", "DeInit")
    BY <2>1, <2>2, ChainJoined
  <2> QED
    BY <1>5, <2>3, ChainJoined DEF HandleUserSwitched
<1>7. FromTo(HandleWifiDisabled, "SetUserId", "GetClipPlugin")
  <2> PICK s : s = <<"SetUserId", "GetDeviceCollabSwitch">>
    OBVIOUS
  <2>1. s \in Seq(StepNames) /\ Len(s) = 2 /\ s[1] = "SetUserId" /\ s[2] = "GetDeviceCollabSwitch"
    OBVIOUS
  <2>2. \A i \in 1 .. 1 : <<s[i], s[i + 1]>> \in Successors
    BY <2>1
  <2>3. FromTo(s, "SetUserId", "GetDeviceCollabSwitch")
    BY <2>1, <2>2 DEF FromTo, Chain
  <2> QED
    BY <1>3, <2>3, ChainJoined DEF HandleWifiDisabled
<1>8. FromTo(Online, "AddDevice", "Store")
  <2> PICK s : s = <<"AddDevice", "SubscribeProfileEvent", "GetDeviceStatus">>
    OBVIOUS
  <2>1. /\ s \in Seq(StepNames) /\ Len(s) = 3 /\ s[1] = "AddDevice" /\ s[2] = "SubscribeProfileEvent"
        /\ s[3] = "GetDeviceStatus"
    OBVIOUS
  <2>2. \A i \in 1 .. 2 : <<s[i], s[i + 1]>> \in Successors
    BY <2>1
  <2>3. FromTo(s, "AddDevice", "GetDeviceStatus")
    BY <2>1, <2>2 DEF FromTo, Chain
  <2> QED
    BY <1>1, <2>3, ChainJoined DEF Online
<1>9. FromTo(Offline, "RemoveDevice", "Store")
  <2> PICK s : s = <<"RemoveDevice", "UnSubscribeProfileEvent", "EraseEnabledStatus">>
    OBVIOUS
  <2>1. /\ s \in Seq(StepNames) /\ Len(s) = 3 /\ s[1] = "RemoveDevice" /\ s[2] = "UnSubscribeProfileEvent"
        /\ s[3] = "EraseEnabledStatus"
    OBVIOUS
  <2>2. \A i \in 1 .. 2 : <<s[i], s[i + 1]>> \in Successors
    BY <2>1
  <2>3. FromTo(s, "RemoveDevice", "EraseEnabledStatus")
    BY <2>1, <2>2 DEF FromTo, Chain
  <2> QED
    BY <1>1, <2>3, ChainJoined DEF Offline
<1>10. FromTo(OnProfileUpdate, "UpdateEnabledStatus", "Store")
  <2>1. FromTo(<<"UpdateEnabledStatus">>, "UpdateEnabledStatus", "UpdateEnabledStatus")
    BY ChainOfOne
  <2> QED
    BY <1>1, <2>1, ChainJoined DEF OnProfileUpdate
<1>11. FromTo(OnConfigChange, "OnConfigChangeInner", "OnConfigChangeInner")
  BY ChainOfOne DEF OnConfigChange
<1> HIDE DEF Successors, StepNames
<1> QED
  BY <1>3, <1>4, <1>5, <1>6, <1>7, <1>8, <1>9, <1>10, <1>11 DEF FromTo, Route, StartsWith, Endings

IsList(list) == \E S : list \in Seq(S)

\* A thread that has ended, or goes on.
Rests(t) == ThreadShape(t) /\ t.new \in BOOLEAN /\ (t.todo = <<>> \/ Route(t.todo))

\* The list has the threads but i, and t unless it has ended.
Placed(list, i, t) ==
  /\ IsList(list)
  /\ \A m \in 1 .. Len(list) :
       \/ \E k \in 1 .. Len(threads) : k # i /\ list[m] = threads[k]
       \/ list[m] = t /\ t.todo # <<>>
  /\ \A k \in 1 .. Len(threads) : k # i => \E m \in 1 .. Len(list) : list[m] = threads[k]
  /\ t.todo # <<>> => \E m \in 1 .. Len(list) : list[m] = t

\* Put keeps the other threads.
LEMMA PutPlaces ==
  ASSUME IsList(threads), NEW i \in 1 .. Len(threads), NEW t, NEW list, list = Put(i, t)
  PROVE  Placed(list, i, t)
<1>1. PICK S : threads \in Seq(S)
  BY DEF IsList
<1> PICK l \in Nat : l = Len(threads)
  BY <1>1
<1>2. CASE t.todo = <<>>
  <2>1. list \in Seq(S) /\ Len(list) = l - 1 /\ \A k \in 1 .. l - 1 : list[k] = threads[IF k < i THEN k ELSE k + 1]
    BY <1>1, <1>2, RemoveAtPlaces DEF Put
  <2>2. ASSUME NEW m \in 1 .. l - 1 PROVE \E k \in 1 .. l : k # i /\ list[m] = threads[k]
    <3> PICK k : k = IF m < i THEN m ELSE m + 1
      OBVIOUS
    <3>1. k \in 1 .. l /\ k # i /\ list[m] = threads[k]
      BY <2>1
    <3> QED
      BY <3>1
  <2>3. ASSUME NEW k \in 1 .. l, k # i PROVE \E m \in 1 .. l - 1 : list[m] = threads[k]
    <3> PICK m : m = IF k < i THEN k ELSE k - 1
      OBVIOUS
    <3>1. m \in 1 .. l - 1 /\ list[m] = threads[k]
      BY <2>1, <2>3
    <3> QED
      BY <3>1
  <2>4. IsList(list)
    BY <2>1 DEF IsList
  <2> QED
    BY <1>2, <2>1, <2>2, <2>3, <2>4 DEF Placed
<1>3. CASE t.todo # <<>>
  <2> PICK T : T = S \cup {t}
    OBVIOUS
  <2>0. list = [threads EXCEPT ![i] = t] /\ t \in T
    BY <1>3 DEF Put
  <2>1. threads \in Seq(T)
    BY <1>1
  <2>2. list \in Seq(T) /\ Len(list) = l /\ list[i] = t /\ \A k \in 1 .. l : k # i => list[k] = threads[k]
    BY <2>0, <2>1, ExceptSeq
  <2>3. IsList(list)
    BY <2>2 DEF IsList
  <2>4. \A m \in 1 .. Len(list) :
          \/ \E k \in 1 .. Len(threads) : k # i /\ list[m] = threads[k]
          \/ list[m] = t /\ t.todo # <<>>
    BY <1>3, <2>2
  <2>5. \A k \in 1 .. Len(threads) : k # i => \E m \in 1 .. Len(list) : list[m] = threads[k]
    BY <2>2
  <2>6. \E m \in 1 .. Len(list) : list[m] = t
    BY <2>2
  <2> QED
    BY <2>3, <2>4, <2>5, <2>6, Zenon DEF Placed
<1> QED
  BY <1>2, <1>3

\* The list has what s has, and t.
Extended(list, s, t) ==
  /\ IsList(list)
  /\ \A m \in 1 .. Len(list) : list[m] = t \/ \E k \in 1 .. Len(s) : list[m] = s[k]
  /\ \A k \in 1 .. Len(s) : \E m \in 1 .. Len(list) : list[m] = s[k]
  /\ \E m \in 1 .. Len(list) : list[m] = t

\* Append keeps what was there.
LEMMA AppendPlaces ==
  ASSUME NEW s, IsList(s), NEW t, NEW list, list = Append(s, t)
  PROVE  Extended(list, s, t)
<1>1. PICK S : s \in Seq(S)
  BY DEF IsList
<1> PICK l \in Nat : l = Len(s)
  BY <1>1
<1> PICK T : T = S \cup {t}
  OBVIOUS
<1>2. s \in Seq(T) /\ t \in T
  BY <1>1
<1>3. list \in Seq(T) /\ Len(list) = l + 1 /\ list[l + 1] = t /\ \A k \in 1 .. l : list[k] = s[k]
  BY <1>2, AppendProperties
<1>4. IsList(list)
  BY <1>3 DEF IsList
<1>5. ASSUME NEW m \in 1 .. l + 1 PROVE list[m] = t \/ \E k \in 1 .. l : list[m] = s[k]
  <2>1. m = l + 1 \/ m \in 1 .. l
    OBVIOUS
  <2> QED
    BY <1>3, <2>1
<1>6. \A k \in 1 .. l : \E m \in 1 .. l + 1 : list[m] = s[k]
  BY <1>3
<1>7. \E m \in 1 .. l + 1 : list[m] = t
  BY <1>3
<1> QED
  BY <1>3, <1>4, <1>5, <1>6, <1>7 DEF Extended

\* A thread that goes on with what comes n steps later.
LEMMA Skipped ==
  ASSUME NEW s, Route(s), NEW t, ThreadShape(t), t.new \in BOOLEAN, t.todo = s, NEW n \in 1 .. Len(s),
         NEW next, next = Skip(t, n)
  PROVE  /\ Rests(next) /\ next.new = t.new
         /\ n = Len(s) => next.todo = <<>>
         /\ n < Len(s) => Route(next.todo) /\ next.todo[1] = s[n + 1]
<1> PICK rest : rest = SubSeq(s, n + 1, Len(s))
  OBVIOUS
<1> PICK l \in Nat : l = Len(s)
  BY DEF Route, Chain
<1>1. next = [t EXCEPT !.todo = rest]
  BY DEF Skip
<1>2. ThreadShape(next) /\ next.new = t.new /\ next.todo = rest
  BY <1>1 DEF ThreadShape, ThreadFields
<1>3. CASE n = l
  <2>1. s \in Seq(StepNames)
    BY DEF Route, Chain
  <2>2. rest = <<>>
    BY <1>3, <2>1
  <2> QED
    BY <1>2, <1>3, <2>2 DEF Rests
<1>4. CASE n < l
  <2>1. n \in 1 .. Len(s) - 1
    BY <1>4
  <2>2. Route(rest) /\ rest[1] = s[n + 1]
    BY <2>1, RouteRest
  <2> QED
    BY <1>2, <1>4, <2>2 DEF Rests
<1> QED
  BY <1>3, <1>4

\* A thread that has ended.
LEMMA EndedThread ==
  ASSUME NEW t, ThreadShape(t), t.new \in BOOLEAN, NEW next, next = End(t)
  PROVE  Rests(next) /\ next.todo = <<>>
<1>1. next = [t EXCEPT !.todo = <<>>]
  BY DEF End
<1>2. ThreadShape(next) /\ next.new = t.new /\ next.todo = <<>>
  BY <1>1 DEF ThreadShape, ThreadFields
<1> QED
  BY <1>2 DEF Rests

\* What is known of a thread that is at a step.
LEMMA ThreadAt ==
  ASSUME SwitchTypeOK, NEW i \in DOMAIN threads, NEW step, AtStep(i, step)
  PROVE  /\ i \in 1 .. Len(threads) /\ ThreadOK(threads[i]) /\ IsList(threads)
         /\ threads[i].todo[1] = step /\ 1 \in 1 .. Len(threads[i].todo)
<1>1. PICK S : threads \in Seq(S)
  BY DEF SwitchTypeOK
<1>2. i \in 1 .. Len(threads) /\ IsList(threads)
  BY <1>1 DEF IsList
<1>3. ThreadOK(threads[i])
  BY <1>2 DEF SwitchTypeOK
<1>4. threads[i].todo \in Seq(StepNames) /\ Len(threads[i].todo) \in Nat /\ Len(threads[i].todo) >= 1
  BY <1>3 DEF ThreadOK, Route, Chain
<1>5. Head(threads[i].todo) = threads[i].todo[1]
  BY <1>4
<1> QED
  BY <1>2, <1>3, <1>4, <1>5 DEF AtStep

\* The threads stay threads.
LEMMA PlacedTyped ==
  ASSUME SwitchTypeOK, NEW i, NEW t, Rests(t), NEW list, Placed(list, i, t)
  PROVE  \A m \in 1 .. Len(list) : ThreadOK(list[m])
<1> SUFFICES ASSUME NEW m \in 1 .. Len(list) PROVE ThreadOK(list[m])
  OBVIOUS
<1>1. CASE list[m] = t /\ t.todo # <<>>
  BY <1>1 DEF Rests, ThreadOK
<1>2. CASE \E k \in 1 .. Len(threads) : list[m] = threads[k]
  BY <1>2 DEF SwitchTypeOK
<1> QED
  BY <1>1, <1>2 DEF Placed

\* What comes next, if anything does.
LEMMA NextStep ==
  ASSUME NEW t, ThreadOK(t), NEW x, ThreadShape(x), x.new \in BOOLEAN, x.todo = t.todo,
         NEW next, next = Skip(x, 1)
  PROVE  /\ Rests(next) /\ next.new = x.new
         /\ next.todo # <<>> => <<t.todo[1], next.todo[1]>> \in Successors
         /\ t.todo[1] \notin Endings => Route(next.todo) /\ <<t.todo[1], next.todo[1]>> \in Successors
<1> PICK s : s = t.todo
  OBVIOUS
<1> PICK l \in Nat : l = Len(s) /\ l >= 1
  BY DEF ThreadOK, Route, Chain
<1>1. Route(s) /\ 1 \in 1 .. l
  BY DEF ThreadOK
<1>2. /\ Rests(next) /\ next.new = x.new
      /\ 1 = l => next.todo = <<>>
      /\ 1 < l => Route(next.todo) /\ next.todo[1] = s[1 + 1]
  BY <1>1, Skipped
<1>3. (s[1] \notin Endings => 1 < l) /\ (1 < l => <<s[1], s[1 + 1]>> \in Successors)
  BY <1>1, RouteNext
<1>4. 1 = l \/ 1 < l
  BY <1>1, WithinRoute
<1> QED
  BY <1>2, <1>3, <1>4

\* A thread goes on that is not about to be heard by the plugin, or with what status_ is.
LEMMA PluginKept ==
  ASSUME PluginInv, inOrder, NEW i \in 1 .. Len(threads), threads[i].todo[1] # "OnConfigChangeInner",
         NEW t, Rests(t), t.todo # <<>> /\ t.todo[1] \in Deciding => t.new = status,
         threads' = Put(i, t), status' = status, plugin' = plugin, supported' = supported,
         inOrder' \in BOOLEAN, setting' \in [Users -> BOOLEAN], levelKnown' = levelKnown, kept' = kept
  PROVE  PluginInv'
<1> PICK list : list = threads'
  OBVIOUS
<1>0. SwitchTypeOK /\ IsList(threads)
  BY DEF PluginInv, SwitchTypeOK, IsList
<1>1. Placed(list, i, t)
  BY <1>0, PutPlaces
<1>2. \A m \in 1 .. Len(list) : ThreadOK(list[m])
  BY <1>0, <1>1, PlacedTyped
<1>3. ASSUME Announced(threads, status) PROVE Announced(list, status)
  <2>1. PICK k \in 1 .. Len(threads) : threads[k].todo[1] = "OnConfigChangeInner" /\ threads[k].new = status
    BY <1>3 DEF Announced
  <2>2. k # i
    BY <2>1
  <2>3. PICK m \in 1 .. Len(list) : list[m] = threads[k]
    BY <1>1, <2>2 DEF Placed
  <2> QED
    BY <2>1, <2>3 DEF Announced
<1>4. ASSUME NEW m \in 1 .. Len(list), list[m].todo[1] \in Deciding, list[m].new # status
      PROVE  Announced(list, status)
  <2>1. PICK k \in 1 .. Len(threads) : list[m] = threads[k]
    BY <1>1, <1>4 DEF Placed
  <2> QED
    BY <1>3, <1>4, <2>1 DEF PluginInv
<1>5. Announced(list, status) \/ PluginRight'
  BY <1>3 DEF PluginInv, PluginRight
<1>6. SwitchTypeOK'
  <2>1. IsList(list)
    BY <1>1 DEF Placed
  <2> QED
    BY <1>0, <1>2, <2>1 DEF SwitchTypeOK, IsList
<1>7. Announced(threads, status)' <=> Announced(list, status)
  BY DEF Announced
<1> QED
  BY <1>4, <1>5, <1>6, <1>7 DEF PluginInv

\* A thread is started that is not about to be heard by the plugin.
LEMMA ThreadAdded ==
  ASSUME PluginInv, inOrder, NEW t, ThreadOK(t), t.todo[1] \notin Deciding,
         threads' = Append(threads, t), status' = status, plugin' = plugin, supported' = supported,
         inOrder' \in BOOLEAN, setting' \in [Users -> BOOLEAN], levelKnown' = levelKnown, kept' = kept
  PROVE  PluginInv'
<1> PICK list : list = threads'
  OBVIOUS
<1>0. SwitchTypeOK /\ IsList(threads)
  BY DEF PluginInv, SwitchTypeOK, IsList
<1>1. Extended(list, threads, t)
  BY <1>0, AppendPlaces
<1>2. \A m \in 1 .. Len(list) : ThreadOK(list[m])
  BY <1>0, <1>1 DEF SwitchTypeOK, Extended
<1>3. Announced(threads, status) => Announced(list, status)
  BY <1>1 DEF Announced, Extended
<1>4. ASSUME NEW m \in 1 .. Len(list), list[m].todo[1] \in Deciding, list[m].new # status
      PROVE  Announced(list, status)
  <2>1. PICK k \in 1 .. Len(threads) : list[m] = threads[k]
    BY <1>1, <1>4 DEF Extended
  <2> QED
    BY <1>3, <1>4, <2>1 DEF PluginInv
<1>5. Announced(list, status) \/ PluginRight'
  BY <1>3 DEF PluginInv, PluginRight
<1>6. SwitchTypeOK'
  BY <1>0, <1>1, <1>2 DEF SwitchTypeOK, IsList, Extended
<1>7. Announced(threads, status)' <=> Announced(list, status)
  BY DEF Announced
<1> QED
  BY <1>4, <1>5, <1>6, <1>7 DEF PluginInv

\* Store: the thread that OnConfigChange starts knows the new status.
LEMMA StoreKeeps ==
  ASSUME PluginInv, inOrder, NEW i \in DOMAIN threads, Store(i)
  PROVE  PluginInv'
<1>0. SwitchTypeOK /\ AtStep(i, "Store")
  BY DEF PluginInv, Store
<1>1. /\ i \in 1 .. Len(threads) /\ ThreadOK(threads[i]) /\ IsList(threads)
      /\ 1 \in 1 .. Len(threads[i].todo)
  BY <1>0, ThreadAt
<1> PICK x, t, s, value :
      x = threads[i] /\ t = Skip(x, 1) /\ s = Put(i, t) /\ value = threads[i].new
  OBVIOUS
<1> PICK made, list : made = Thread("plugin", Local, 0, value, OnConfigChange) /\ list = threads'
  OBVIOUS
<1>2. value \in BOOLEAN /\ Rests(t)
  <2> PICK todo : todo = x.todo
    OBVIOUS
  <2>1. Route(todo) /\ ThreadShape(x) /\ x.new \in BOOLEAN /\ 1 \in 1 .. Len(todo)
    BY <1>1 DEF ThreadOK
  <2> QED
    BY <2>1, Skipped
<1>3. Placed(s, i, t)
  BY <1>1, PutPlaces
<1>4. IsList(s)
  BY <1>3 DEF Placed
<1>5. list = Append(s, made) /\ status' = value /\ plugin' = plugin /\ supported' = supported
      /\ inOrder' = inOrder /\ setting' = setting /\ levelKnown' = levelKnown /\ kept' = kept
  BY DEF Store, outside
<1>6. Extended(list, s, made)
  BY <1>4, <1>5, AppendPlaces
<1>7. ThreadOK(made) /\ made.todo[1] = "OnConfigChangeInner" /\ made.new = value
  <2>1. ThreadShape(made) /\ made.new = value /\ made.todo = OnConfigChange
    BY DEF Thread, ThreadShape, ThreadFields
  <2> QED
    BY <1>2, <2>1, ThreadRoutes DEF ThreadOK, StartsWith
<1>8. \A m \in 1 .. Len(s) : ThreadOK(s[m])
  BY <1>0, <1>2, <1>3, PlacedTyped
<1>9. \A m \in 1 .. Len(list) : ThreadOK(list[m])
  BY <1>6, <1>7, <1>8 DEF Extended
<1>10. Announced(threads, status)'
  BY <1>5, <1>6, <1>7 DEF Announced, Extended
<1>11. SwitchTypeOK'
  BY <1>0, <1>2, <1>5, <1>6, <1>9 DEF SwitchTypeOK, IsList, Extended
<1> QED
  BY <1>5, <1>10, <1>11 DEF PluginInv

\* The plugin is loaded or dropped by a thread that was not overtaken.
LEMMA PluginChanges ==
  ASSUME PluginInv, inOrder, NEW i \in DOMAIN threads, NEW step \in Deciding, AtStep(i, step),
         NEW there, plugin' = there, threads' = Put(i, Skip(threads[i], 1)), Fair(SameDecision(i)),
         status' = status, supported' = supported, setting' = setting,
         there \in BOOLEAN, levelKnown' \in BOOLEAN, kept' \in BOOLEAN, there => supported /\ levelKnown',
         threads[i].new /\ supported /\ levelKnown' => there,
         step = "OnConfigChangeInner" /\ ~threads[i].new => (there => kept'),
         step = "GetClipPlugin" /\ ~threads[i].new /\ (plugin => kept) => (there => kept')
  PROVE  PluginInv'
<1>0. /\ SwitchTypeOK /\ IsList(threads) /\ inOrder' \in BOOLEAN
      /\ status \in BOOLEAN /\ plugin \in BOOLEAN /\ supported \in BOOLEAN
  BY DEF PluginInv, SwitchTypeOK, IsList, Fair
<1>1. /\ i \in 1 .. Len(threads) /\ ThreadOK(threads[i])
      /\ threads[i].todo[1] = step /\ 1 \in 1 .. Len(threads[i].todo)
  BY <1>0, ThreadAt
<1> PICK x, t, list : x = threads[i] /\ t = Skip(x, 1) /\ list = threads'
  OBVIOUS
<1>2. Rests(t) /\ (t.todo # <<>> => t.todo[1] \notin Deciding) /\ x.new \in BOOLEAN
  <2>1. /\ Rests(t)
        /\ t.todo # <<>> => <<step, t.todo[1]>> \in Successors
    BY <1>1, NextStep DEF ThreadOK
  <2>2. \A after : <<step, after>> \in Successors => after \notin Deciding
    BY DEF Successors, Deciding
  <2> QED
    BY <1>1, <2>1, <2>2 DEF ThreadOK
<1>3. Placed(list, i, t)
  BY <1>0, <1>1, PutPlaces
<1>4. \A m \in 1 .. Len(list) : ThreadOK(list[m])
  BY <1>0, <1>2, <1>3, PlacedTyped
<1>5. plugin' \in BOOLEAN /\ (plugin' => supported /\ levelKnown')
  OBVIOUS
<1>6. SwitchTypeOK'
  BY <1>0, <1>3, <1>4, <1>5 DEF SwitchTypeOK, Placed, IsList
<1>7. ASSUME inOrder'
      PROVE  /\ Announced(list, status) \/ PluginRight'
             /\ \A m \in 1 .. Len(list) : list[m].todo[1] \in Deciding => list[m].new = status
  <2>1. ASSUME NEW j \in 1 .. Len(threads), threads[j].todo[1] \in Deciding
        PROVE  threads[j].new = x.new
    <3>1. SameDecision(i)
      BY <1>7 DEF Fair
    <3>2. j \in DOMAIN threads
      BY <1>0 DEF IsList
    <3>3. threads[j].todo \in Seq(StepNames) /\ Len(threads[j].todo) >= 1
      BY <1>0 DEF SwitchTypeOK, ThreadOK, Route, Chain
    <3>4. Head(threads[j].todo) = threads[j].todo[1]
      BY <3>3
    <3>5. Decided(j)
      BY <2>1, <3>2, <3>4 DEF Decided, AtStep, Deciding
    <3> QED
      BY <3>1, <3>2, <3>5 DEF SameDecision
  <2>2. x.new = status
    <3>1. SUFFICES ASSUME x.new # status PROVE FALSE
      OBVIOUS
    <3>2. Announced(threads, status)
      BY <1>1, <3>1 DEF PluginInv
    <3>3. PICK j \in 1 .. Len(threads) : threads[j].todo[1] = "OnConfigChangeInner" /\ threads[j].new = status
      BY <3>2 DEF Announced
    <3> QED
      BY <2>1, <3>1, <3>3 DEF Deciding
  <2>3. \A m \in 1 .. Len(list) : list[m].todo[1] \in Deciding => list[m].new = status
    <3> SUFFICES ASSUME NEW m \in 1 .. Len(list), list[m].todo[1] \in Deciding PROVE list[m].new = status
      OBVIOUS
    <3>1. CASE list[m] = t /\ t.todo # <<>>
      BY <1>2, <3>1
    <3>2. CASE \E k \in 1 .. Len(threads) : list[m] = threads[k]
      BY <2>1, <2>2, <3>2
    <3> QED
      BY <1>3, <3>1, <3>2 DEF Placed
  <2>4. CASE step = "OnConfigChangeInner"
    BY <1>0, <2>2, <2>3, <2>4 DEF PluginRight
  <2>5. CASE step = "GetClipPlugin"
    <3>1. ASSUME Announced(threads, status) PROVE Announced(list, status)
      <4>1. PICK k \in 1 .. Len(threads) : threads[k].todo[1] = "OnConfigChangeInner" /\ threads[k].new = status
        BY <3>1 DEF Announced
      <4>2. k # i
        BY <1>1, <2>5, <4>1
      <4>3. PICK m \in 1 .. Len(list) : list[m] = threads[k]
        BY <1>3, <4>2 DEF Placed
      <4> QED
        BY <4>1, <4>3 DEF Announced
    <3>2. PluginRight => PluginRight'
      BY <1>0, <2>2, <2>5 DEF PluginRight
    <3> QED
      BY <2>3, <3>1, <3>2 DEF PluginInv
  <2> QED
    BY <2>3, <2>4, <2>5 DEF Deciding
<1>8. Announced(threads, status)' <=> Announced(list, status)
  BY DEF Announced
<1> QED
  BY <1>5, <1>6, <1>7, <1>8 DEF PluginInv

\* What a step that leaves status_ and the plugin alone does not change.
Calm ==
  /\ status' = status /\ plugin' = plugin /\ supported' = supported
  /\ levelKnown' = levelKnown /\ kept' = kept
  /\ inOrder' \in BOOLEAN /\ setting' \in [Users -> BOOLEAN]

\* Every step but one of those that decide and the one before them.
LEMMA PlainStep ==
  ASSUME PluginInv, inOrder, NEW i \in DOMAIN threads, NEW step, step \notin Deciding \cup {"Load"},
         AtStep(i, step), NEW x, ThreadShape(x), x.new \in BOOLEAN, x.todo = threads[i].todo,
         threads' = Put(i, Skip(x, 1)), Calm
  PROVE  PluginInv'
<1>1. SwitchTypeOK
  BY DEF PluginInv
<1>2. i \in 1 .. Len(threads) /\ ThreadOK(threads[i]) /\ threads[i].todo[1] = step
  BY <1>1, ThreadAt
<1> PICK t : t = Skip(x, 1)
  OBVIOUS
<1>3. Rests(t) /\ (t.todo # <<>> => <<step, t.todo[1]>> \in Successors)
  BY <1>2, NextStep
<1>4. \A after : <<step, after>> \in Successors => after \notin Deciding
  BY DEF Successors, Deciding
<1>5. t.todo # <<>> /\ t.todo[1] \in Deciding => t.new = status
  BY <1>3, <1>4
<1>6. step # "OnConfigChangeInner"
  BY DEF Deciding
<1> QED
  BY <1>2, <1>3, <1>5, <1>6, PluginKept DEF Calm

\* A thread ends that is not the one that OnConfigChange has started.
LEMMA EndStep ==
  ASSUME PluginInv, inOrder, NEW i \in DOMAIN threads, NEW step, step # "OnConfigChangeInner",
         AtStep(i, step), threads' = Put(i, End(threads[i])), Calm
  PROVE  PluginInv'
<1>1. SwitchTypeOK
  BY DEF PluginInv
<1>2. i \in 1 .. Len(threads) /\ ThreadOK(threads[i]) /\ threads[i].todo[1] = step
  BY <1>1, ThreadAt
<1> PICK t : t = End(threads[i])
  OBVIOUS
<1>3. Rests(t) /\ t.todo = <<>>
  BY <1>2, EndedThread DEF ThreadOK
<1> QED
  BY <1>2, <1>3, PluginKept DEF Calm

\* Compare and IsOn, which leave out the steps up to Store.
LEMMA SkipsStore ==
  ASSUME PluginInv, inOrder, NEW i \in DOMAIN threads, NEW step \in {"Compare", "IsOn"},
         AtStep(i, step), threads' = Put(i, Skip(threads[i], IF step = "Compare" THEN 2 ELSE 4)), Calm
  PROVE  PluginInv'
<1>1. SwitchTypeOK
  BY DEF PluginInv
<1>2. i \in 1 .. Len(threads) /\ ThreadOK(threads[i]) /\ threads[i].todo[1] = step
  BY <1>1, ThreadAt
<1> PICK s, x : s = threads[i].todo /\ x = threads[i]
  OBVIOUS
<1>3. Route(s) /\ s[1] = step /\ ThreadShape(x) /\ x.new \in BOOLEAN /\ x.todo = s
  BY <1>2 DEF ThreadOK
<1>4. PICK n \in {2, 4} : n = IF step = "Compare" THEN 2 ELSE 4
  OBVIOUS
<1> PICK t : t = Skip(x, n)
  OBVIOUS
<1>5. n \in 1 .. Len(s) /\ s[n] = "Store"
  BY <1>3, <1>4, ToStore
<1>6. Rests(t) /\ (n = Len(s) => t.todo = <<>>) /\ (n < Len(s) => t.todo[1] = s[n + 1])
  BY <1>3, <1>5, Skipped
<1>7. n < Len(s) => <<"Store", s[n + 1]>> \in Successors
  BY <1>3, <1>5, RouteNext
<1>8. n = Len(s) \/ n < Len(s)
  BY <1>3, <1>5, WithinRoute
<1>9. t.todo # <<>> /\ t.todo[1] \in Deciding => t.new = status
  <2>1. \A after : <<"Store", after>> \in Successors => after \notin Deciding
    BY DEF Successors, Deciding
  <2> QED
    BY <1>6, <1>7, <1>8, <2>1
<1>10. threads' = Put(i, t) /\ threads[i].todo[1] # "OnConfigChangeInner"
  BY <1>2, <1>4
<1> QED
  BY <1>2, <1>6, <1>9, <1>10, PluginKept DEF Calm

\* GetDeviceStatus asks the device profile service.
LEMMA FetchKeeps ==
  ASSUME PluginInv, inOrder, NEW i \in DOMAIN threads, NEW step, step # "OnConfigChangeInner",
         AtStep(i, step), NEW d, NEW x, ThreadShape(x), x.new \in BOOLEAN,
         StartsWith(x.todo, "GetEnabledStatus"),
         NEW without, Rests(without), without.todo # <<>> => without.todo[1] \notin Deciding,
         Fetch(i, d, x, without)
  PROVE  PluginInv'
<1>1. SwitchTypeOK
  BY DEF PluginInv
<1>2. i \in 1 .. Len(threads) /\ threads[i].todo[1] = step
  BY <1>1, ThreadAt
<1>3. Calm
  BY <1>1 DEF Calm, Fetch, outside, service, SwitchTypeOK
<1> PICK asked : asked = [x EXCEPT !.of = d, !.val = profile[d], !.held = @ + 1, !.todo = <<"WriteBack">> \o @]
  OBVIOUS
<1>4. threads' = Put(i, asked) \/ threads' = Put(i, without)
  BY DEF Fetch
<1>5. ThreadShape(asked) /\ asked.new = x.new /\ asked.todo = <<"WriteBack">> \o x.todo
  BY DEF ThreadShape, ThreadFields
<1>6. Route(asked.todo) /\ asked.todo[1] = "WriteBack"
  <2> PICK s : s = x.todo
    OBVIOUS
  <2> QED
    BY <1>5, RouteWriteBack DEF StartsWith
<1>7. Rests(asked) /\ asked.todo[1] \notin Deciding
  BY <1>5, <1>6 DEF Rests, Deciding
<1>8. CASE threads' = Put(i, asked)
  BY <1>2, <1>3, <1>7, <1>8, PluginKept DEF Calm
<1>9. CASE threads' = Put(i, without)
  BY <1>2, <1>3, <1>9, PluginKept DEF Calm
<1> QED
  BY <1>4, <1>8, <1>9

\* The plugin that could not be dropped.
LEMMA OffKeeps ==
  ASSUME PluginInv, inOrder, NEW i \in DOMAIN threads, OffUnresolved(i)
  PROVE  PluginInv'
<1>1. /\ AtStep(i, "OnConfigChangeInner") /\ ~threads[i].new /\ plugin' = plugin /\ kept' = TRUE
      /\ threads' = Put(i, Skip(threads[i], 1)) /\ Fair(SameDecision(i))
      /\ status' = status /\ supported' = supported /\ setting' = setting /\ levelKnown' = levelKnown
  BY DEF OffUnresolved, Go, outside
<1>2. plugin \in BOOLEAN /\ levelKnown \in BOOLEAN /\ (plugin => supported /\ levelKnown)
  BY DEF PluginInv, SwitchTypeOK
<1> QED
  BY <1>1, <1>2, PluginChanges DEF Deciding

\* A query of the level, or none, and the plugin as that says.
LEMMA PluginSteps ==
  ASSUME PluginInv, inOrder, NEW i \in DOMAIN threads, NEW step \in Deciding, AtStep(i, step),
         \/ /\ threads[i].new
            /\ \E known \in GetDeviceSecurityLevel :
                 levelKnown' = known /\ PluginStep(i, plugin \/ IsSupportedDistributed(known))
         \/ ~threads[i].new /\ levelKnown' = levelKnown /\ step = "OnConfigChangeInner" /\ PluginStep(i, FALSE)
         \/ ~threads[i].new /\ levelKnown' = levelKnown /\ step = "GetClipPlugin" /\ PluginStep(i, plugin)
  PROVE  PluginInv'
<1>1. /\ plugin \in BOOLEAN /\ supported \in BOOLEAN /\ levelKnown \in BOOLEAN /\ kept \in BOOLEAN
      /\ plugin => supported /\ levelKnown
  BY DEF PluginInv, SwitchTypeOK
<1>2. PICK there : PluginStep(i, there) /\ (threads[i].new => there = (plugin \/ (supported /\ levelKnown')))
                   /\ (~threads[i].new => there = (plugin /\ step = "GetClipPlugin")) /\ levelKnown' \in BOOLEAN
                   /\ (levelKnown => levelKnown')
  <2>1. CASE threads[i].new
    <3>1. PICK known \in GetDeviceSecurityLevel :
                 levelKnown' = known /\ PluginStep(i, plugin \/ IsSupportedDistributed(known))
      BY <2>1
    <3> QED
      BY <1>1, <2>1, <3>1 DEF GetDeviceSecurityLevel, IsSupportedDistributed
  <2>2. CASE ~threads[i].new
    BY <1>1, <2>2
  <2> QED
    BY <2>1, <2>2
<1>3. /\ plugin' = there /\ kept' = (kept /\ there /\ ~threads[i].new)
      /\ threads' = Put(i, Skip(threads[i], 1)) /\ Fair(SameDecision(i))
      /\ status' = status /\ supported' = supported /\ setting' = setting
  BY <1>2 DEF PluginStep, Go, outside
<1>4. there \in BOOLEAN /\ kept' \in BOOLEAN /\ (there => supported /\ levelKnown')
      /\ (threads[i].new /\ supported /\ levelKnown' => there)
      /\ (step = "OnConfigChangeInner" /\ ~threads[i].new => ~there)
      /\ (step = "GetClipPlugin" /\ ~threads[i].new => there = plugin /\ kept' = (kept /\ there))
  BY <1>1, <1>2, <1>3
<1> QED
  BY <1>1, <1>2, <1>3, <1>4, PluginChanges

\* Nothing happens to the threads.
LEMMA ThreadsStay ==
  ASSUME PluginInv, inOrder, threads' = threads, Calm
  PROVE  PluginInv'
<1>1. SwitchTypeOK'
  BY DEF PluginInv, SwitchTypeOK, Calm
<1>2. Announced(threads, status)' <=> Announced(threads, status)
  BY DEF Announced, Calm
<1> QED
  BY <1>1, <1>2 DEF PluginInv, PluginRight, Calm

\* The steps of threads.
LEMMA SwitchSteps ==
  ASSUME PluginInv, inOrder, NEW i \in DOMAIN threads, Step(i)
  PROVE  PluginInv'
<1>0. SwitchTypeOK
  BY DEF PluginInv
<1> PICK x : x = threads[i]
  OBVIOUS
<1>t. ASSUME NEW step, AtStep(i, step)
      PROVE  i \in 1 .. Len(threads) /\ ThreadOK(x) /\ ThreadShape(x) /\ x.new \in BOOLEAN /\ x.todo[1] = step
  BY <1>0, <1>t, ThreadAt DEF ThreadOK
<1>s. setting \in [Users -> BOOLEAN] /\ inOrder \in BOOLEAN
  BY <1>0 DEF SwitchTypeOK
<1>c. ASSUME NEW t, Cached(i, t) PROVE Calm /\ threads' = Put(i, t)
  BY <1>c, <1>s DEF Cached, Calm, outside, service
<1>u. ASSUME NEW t, Unfound(i, t) PROVE Calm /\ threads' = Put(i, t)
  BY <1>u, <1>s DEF Unfound, Calm, outside, service
<1>w. ASSUME NEW t, NEW why, SwitchStep(i, t, why) PROVE Calm /\ threads' = Put(i, t)
  BY <1>w, <1>s DEF SwitchStep, Calm, Fair, outside, service
<1>1. CASE WriteBack(i)
  <2> PICK y : y = [x EXCEPT !.held = @ - 1]
    OBVIOUS
  <2>1. AtStep(i, "WriteBack") /\ threads' = Put(i, Skip(y, 1)) /\ Calm
    BY <1>1, <1>s DEF WriteBack, GoWith, Calm, Fair, outside, service
  <2>2. ThreadShape(y) /\ y.new = x.new /\ y.todo = x.todo
    BY <1>t, <2>1 DEF ThreadShape, ThreadFields
  <2>3. y.new \in BOOLEAN
    BY <1>t, <2>1, <2>2
  <2> QED
    BY <2>1, <2>2, <2>3, PlainStep DEF Deciding
<1>2. CASE GetEnabledStatus(i)
  <2> DEFINE Say(new) == Skip([x EXCEPT !.new = new, !.tried = {}], 1)
  <2>1. AtStep(i, "GetEnabledStatus")
    BY <1>2 DEF GetEnabledStatus
  <2>2. \/ \E new \in BOOLEAN : Cached(i, Say(new)) \/ Unfound(i, Say(new))
        \/ Fetch(i, Local, x, Say(FALSE))
        \/ \E d \in devices : Fetch(i, d, x, [x EXCEPT !.tried = @ \cup {d}])
    BY <1>2 DEF GetEnabledStatus
  <2>3. ASSUME NEW new \in BOOLEAN
        PROVE  LET y == [x EXCEPT !.new = new, !.tried = {}]
               IN  ThreadShape(y) /\ y.new \in BOOLEAN /\ y.todo = x.todo
    BY <1>t, <2>1 DEF ThreadShape, ThreadFields
  <2>4. ThreadOK(x) /\ ThreadShape(x) /\ x.new \in BOOLEAN /\ StartsWith(x.todo, "GetEnabledStatus")
    BY <1>t, <2>1 DEF ThreadOK, StartsWith
  <2>5. CASE \E new \in BOOLEAN : Cached(i, Say(new)) \/ Unfound(i, Say(new))
    <3>1. PICK new \in BOOLEAN : Cached(i, Say(new)) \/ Unfound(i, Say(new))
      BY <2>5
    <3> PICK y : y = [x EXCEPT !.new = new, !.tried = {}]
      OBVIOUS
    <3>2. threads' = Put(i, Skip(y, 1)) /\ Calm
      BY <1>c, <1>u, <3>1
    <3>3. ThreadShape(y) /\ y.new \in BOOLEAN /\ y.todo = x.todo
      BY <2>3
    <3> QED
      BY <2>1, <3>2, <3>3, PlainStep DEF Deciding
  <2>6. CASE Fetch(i, Local, x, Say(FALSE))
    <3> PICK y, without : y = [x EXCEPT !.new = FALSE, !.tried = {}] /\ without = Skip(y, 1)
      OBVIOUS
    <3>1. ThreadShape(y) /\ y.new \in BOOLEAN /\ y.todo = x.todo
      BY <2>3
    <3>2. Rests(without) /\ (without.todo # <<>> => <<"GetEnabledStatus", without.todo[1]>> \in Successors)
      BY <1>t, <2>1, <2>4, <3>1, NextStep
    <3>3. \A after : <<"GetEnabledStatus", after>> \in Successors => after \notin Deciding
      BY DEF Successors, Deciding
    <3>4. without.todo # <<>> => without.todo[1] \notin Deciding
      BY <3>2, <3>3
    <3>5. Fetch(i, Local, x, without)
      BY <2>6
    <3> QED
      BY <2>1, <2>4, <3>2, <3>4, <3>5, FetchKeeps
  <2>7. CASE \E d \in devices : Fetch(i, d, x, [x EXCEPT !.tried = @ \cup {d}])
    <3>1. PICK d : Fetch(i, d, x, [x EXCEPT !.tried = @ \cup {d}])
      BY <2>7
    <3> PICK without : without = [x EXCEPT !.tried = @ \cup {d}]
      OBVIOUS
    <3>2. ThreadShape(without) /\ without.new = x.new /\ without.todo = x.todo
      BY <2>4 DEF ThreadShape, ThreadFields
    <3>3. Rests(without) /\ without.todo[1] \notin Deciding
      BY <2>4, <3>2 DEF Rests, StartsWith, Deciding
    <3>4. Fetch(i, d, x, without)
      BY <3>1
    <3> QED
      BY <2>1, <2>4, <3>3, <3>4, FetchKeeps
  <2> QED
    BY <2>2, <2>5, <2>6, <2>7
<1>3. CASE Compare(i)
  <2>1. AtStep(i, "Compare") /\ \/ Cached(i, Skip(threads[i], 1))
                                \/ Cached(i, Skip(threads[i], 2))
    BY <1>3 DEF Compare
  <2>2. CASE Cached(i, Skip(threads[i], 1))
    BY <1>c, <1>t, <2>1, <2>2, PlainStep DEF Deciding
  <2>3. CASE Cached(i, Skip(threads[i], 2))
    BY <1>c, <2>1, <2>3, SkipsStore
  <2> QED
    BY <2>1, <2>2, <2>3
<1>4. CASE Store(i)
  BY <1>4, StoreKeeps
<1>5. CASE EnterIsOn(i)
  <2>1. Len(Notify) + 1 = 4
    BY DEF Notify
  <2>2. AtStep(i, "IsOn") /\ \/ Cached(i, Skip(threads[i], 1))
                             \/ Cached(i, Skip(threads[i], 4))
    BY <1>5, <2>1 DEF EnterIsOn
  <2>3. CASE Cached(i, Skip(threads[i], 1))
    BY <1>c, <1>t, <2>2, <2>3, PlainStep DEF Deciding
  <2>4. CASE Cached(i, Skip(threads[i], 4))
    BY <1>c, <2>2, <2>4, SkipsStore
  <2> QED
    BY <2>2, <2>3, <2>4
<1>6. CASE Load(i)
  <2> PICK t : t = Skip([x EXCEPT !.new = status], 1)
    OBVIOUS
  <2>0. PICK y : y = [x EXCEPT !.new = status] /\ t = Skip(y, 1)
    OBVIOUS
  <2>1. AtStep(i, "Load") /\ threads' = Put(i, t) /\ Calm
    BY <1>6, <1>c DEF Load
  <2>2. ThreadShape(y) /\ y.new = status /\ y.todo = x.todo /\ t = Skip(y, 1)
    BY <1>t, <2>0, <2>1 DEF ThreadShape, ThreadFields
  <2>3. y.new \in BOOLEAN
    BY <1>0, <2>2 DEF SwitchTypeOK
  <2>4. ThreadOK(x)
    BY <1>t, <2>1
  <2>5. Rests(t) /\ t.new = y.new
    BY <2>2, <2>3, <2>4, NextStep
  <2>6. i \in 1 .. Len(threads) /\ threads[i].todo[1] # "OnConfigChangeInner"
    BY <1>t, <2>1
  <2> QED
    BY <2>1, <2>2, <2>5, <2>6, PluginKept DEF Calm
<1>7. CASE OnConfigChangeInner(i)
  <2> PICK step \in Deciding : step = "OnConfigChangeInner"
    BY DEF Deciding
  <2>1. AtStep(i, step)
    BY <1>7 DEF OnConfigChangeInner
  <2> QED
    BY <1>7, <2>1, PluginSteps DEF OnConfigChangeInner
<1>8. CASE OffUnresolved(i)
  BY <1>8, OffKeeps
<1>9. CASE GetClipPlugin(i)
  <2> PICK step \in Deciding : step = "GetClipPlugin"
    BY DEF Deciding
  <2>1. AtStep(i, step)
    BY <1>9 DEF GetClipPlugin
  <2> QED
    BY <1>9, <2>1, PluginSteps DEF GetClipPlugin
<1>10. CASE Enter(i)
  <2> PICK y : y = [x EXCEPT !.inside = TRUE]
    OBVIOUS
  <2>1. AtStep(i, "Enter") /\ threads' = Put(i, Skip(y, 1)) /\ Calm
    BY <1>10, <1>c DEF Enter
  <2>2. ThreadShape(y) /\ y.new = x.new /\ y.todo = x.todo
    BY <1>t, <2>1 DEF ThreadShape, ThreadFields
  <2>3. y.new \in BOOLEAN
    BY <1>t, <2>1, <2>2
  <2> QED
    BY <2>1, <2>2, <2>3, PlainStep DEF Deciding
<1>11. CASE GetDeviceCollabSwitch(i)
  <2>1. AtStep(i, "GetDeviceCollabSwitch") /\ Calm
        /\ (threads' = Put(i, End(threads[i])) \/ threads' = Put(i, Skip(threads[i], 1)))
    BY <1>11, <1>c DEF GetDeviceCollabSwitch
  <2> QED
    BY <1>t, <2>1, PlainStep, EndStep DEF Deciding
<1>12. CASE InitSwitch(i)
  <2>1. AtStep(i, "Init") /\ Calm
        /\ (threads' = Put(i, End(threads[i])) \/ threads' = Put(i, Skip(threads[i], 1)))
    BY <1>12, <1>w DEF InitSwitch, IsHmlSupported
  <2> QED
    BY <1>t, <2>1, PlainStep, EndStep DEF Deciding
<1>13. CASE SetUserId(i)
  <2>1. AtStep(i, "SetUserId") /\ Calm /\ threads' = Put(i, Skip(threads[i], 1))
    BY <1>13, <1>w DEF SetUserId
  <2> QED
    BY <1>t, <2>1, PlainStep DEF Deciding
<1>14. CASE RegisterObserver(i)
  <2>1. AtStep(i, "RegisterObserver") /\ Calm /\ threads' = Put(i, Skip(threads[i], 1))
    BY <1>14, <1>w DEF RegisterObserver
  <2> QED
    BY <1>t, <2>1, PlainStep DEF Deciding
<1>15. CASE DeInit(i)
  <2>1. AtStep(i, "DeInit") /\ Calm /\ threads' = Put(i, Skip(threads[i], 1))
    BY <1>15, <1>w DEF DeInit
  <2> QED
    BY <1>t, <2>1, PlainStep DEF Deciding
<1>16. CASE GetValue(i)
  <2>1. AtStep(i, "GetValue")
    BY <1>16 DEF GetValue
  <2>2. PICK read \in BOOLEAN :
          LET value == IF read /\ shareUser \in Users THEN setting[shareUser] ELSE TRUE
          IN SwitchStep(i, Skip([threads[i] EXCEPT !.new = value], 1), IF read THEN {} ELSE {"value"})
    BY <1>16 DEF GetValue
  <2> PICK value : value = IF read /\ shareUser \in Users THEN setting[shareUser] ELSE TRUE
    OBVIOUS
  <2>3. value \in BOOLEAN
    BY <1>s
  <2> PICK y : y = [x EXCEPT !.new = value]
    OBVIOUS
  <2>4. Calm /\ threads' = Put(i, Skip(y, 1))
    BY <1>w, <2>2
  <2>5. ThreadShape(y) /\ y.new = value /\ y.todo = x.todo
    BY <1>t, <2>1 DEF ThreadShape, ThreadFields
  <2> QED
    BY <2>1, <2>3, <2>4, <2>5, PlainStep DEF Deciding
<1>17. CASE UpdateEnabledStatus(i)
  <2>1. AtStep(i, "UpdateEnabledStatus") /\ Calm /\ threads' = Put(i, Skip(threads[i], 1))
    BY <1>17, <1>s DEF UpdateEnabledStatus, Go, Calm, outside, service
  <2> QED
    BY <1>t, <2>1, PlainStep DEF Deciding
<1>24. CASE LocalUdidUnknown(i)
  <2>1. AtStep(i, "UpdateEnabledStatus") /\ Calm /\ threads' = Put(i, End(threads[i]))
    BY <1>24, <1>s DEF LocalUdidUnknown, Calm, outside, service
  <2> QED
    BY <2>1, EndStep
<1>18. CASE PutDeviceStatus(i)
  <2> PICK y : y = [x EXCEPT !.held = 1]
    OBVIOUS
  <2>1. AtStep(i, "PutDeviceStatus") /\ Calm
        /\ (threads' = Put(i, End(threads[i])) \/ threads' = Put(i, Skip(y, 1)))
    BY <1>18, <1>s DEF PutDeviceStatus, GoWith, Calm, Fair, service
  <2>2. ThreadShape(y) /\ y.new = x.new /\ y.todo = x.todo
    BY <1>t, <2>1 DEF ThreadShape, ThreadFields
  <2>3. y.new \in BOOLEAN
    BY <1>t, <2>1, <2>2
  <2> QED
    BY <2>1, <2>2, <2>3, PlainStep, EndStep DEF Deciding
<1>19. CASE GetDeviceStatus(i)
  <2> PICK next : next = Skip(x, 1)
    OBVIOUS
  <2>1. AtStep(i, "GetDeviceStatus") /\ (Cached(i, next) \/ \E d : Fetch(i, d, next, next))
    BY <1>19 DEF GetDeviceStatus
  <2>2. CASE Cached(i, next)
    BY <1>c, <1>t, <2>1, <2>2, PlainStep DEF Deciding
  <2>3. CASE \E d : Fetch(i, d, next, next)
    <3>1. PICK d : Fetch(i, d, next, next)
      BY <2>3
    <3>2. /\ Rests(next) /\ next.new = x.new
          /\ "GetDeviceStatus" \notin Endings =>
               Route(next.todo) /\ <<"GetDeviceStatus", next.todo[1]>> \in Successors
      BY <1>t, <2>1, NextStep
    <3>3. \A after : <<"GetDeviceStatus", after>> \in Successors => after = "GetEnabledStatus"
      BY DEF Successors
    <3>4. StartsWith(next.todo, "GetEnabledStatus") /\ next.todo[1] \notin Deciding
      BY <3>2, <3>3 DEF StartsWith, Endings, Deciding
    <3>5. ThreadShape(next) /\ next.new \in BOOLEAN
      BY <3>2 DEF Rests
    <3> QED
      BY <2>1, <3>1, <3>2, <3>4, <3>5, FetchKeeps
  <2> QED
    BY <2>1, <2>2, <2>3
<1>20. CASE SubscribeProfileEvent(i)
  <2>1. AtStep(i, "SubscribeProfileEvent") /\ Calm /\ threads' = Put(i, Skip(threads[i], 1))
    BY <1>20, <1>s DEF SubscribeProfileEvent, AdapterSubscribe, Go, Calm, Fair, outside, service
  <2> QED
    BY <1>t, <2>1, PlainStep DEF Deciding
<1>21. CASE UnSubscribeProfileEvent(i)
  <2>1. AtStep(i, "UnSubscribeProfileEvent") /\ Calm /\ threads' = Put(i, Skip(threads[i], 1))
    BY <1>21, <1>s DEF UnSubscribeProfileEvent, AdapterUnSubscribe, Go, Calm, Fair, outside, service
  <2> QED
    BY <1>t, <2>1, PlainStep DEF Deciding
<1>22. CASE EraseEnabledStatus(i)
  <2>1. AtStep(i, "EraseEnabledStatus") /\ Calm /\ threads' = Put(i, Skip(threads[i], 1))
    BY <1>22, <1>s DEF EraseEnabledStatus, Go, Calm, outside, service
  <2> QED
    BY <1>t, <2>1, PlainStep DEF Deciding
<1>23. CASE AddDevice(i) \/ RemoveDevice(i)
  <2>1. PICK step \in {"AddDevice", "RemoveDevice"} : AtStep(i, step)
    BY <1>23 DEF AddDevice, RemoveDevice
  <2>2. Calm /\ (threads' = Put(i, End(threads[i])) \/ threads' = Put(i, Skip(threads[i], 1)))
    BY <1>23, <1>s DEF AddDevice, RemoveDevice, DeviceStep, GetUdidByNetworkId, Calm, Fair, outside, service
  <2> QED
    BY <1>t, <2>1, <2>2, PlainStep, EndStep DEF Deciding
<1> QED
  BY <1>1, <1>2, <1>3, <1>4, <1>5, <1>6, <1>7, <1>8, <1>9, <1>10, <1>11, <1>12, <1>13, <1>14,
     <1>15, <1>16, <1>17, <1>18, <1>19, <1>20, <1>21, <1>22, <1>23, <1>24 DEF Step

\* What happens outside starts at most a thread.
LEMMA SwitchEvents ==
  ASSUME PluginInv, inOrder,
         \/ PostDelayReleaseProxy \/ ClearDeviceProfileService \/ SendSubscribeInfos
         \/ \E d \in Devices :
              OnDeviceOnline(d) \/ OnDeviceChanged(d) \/ OnDeviceOffline(d) \/ OnCharacteristicProfileUpdate(d)
         \/ \E u \in Users : SettingChanges(u) \/ UserSwitches(u)
         \/ WifiDisabled \/ UsesPlugin \/ DpDies \/ DpStarts
  PROVE  PluginInv'
<1>0. /\ SwitchTypeOK
      /\ setting \in [Users -> BOOLEAN] /\ inOrder \in BOOLEAN
  BY DEF PluginInv, SwitchTypeOK
<1>f. ASSUME NEW subject, NEW mended, Happens(subject, mended), setting' \in [Users -> BOOLEAN] PROVE Calm
  BY <1>f DEF Happens, Calm, Fair, service
<1>1. ASSUME threads' = threads, Calm PROVE PluginInv'
  BY <1>0, <1>1, ThreadsStay
<1>2. ASSUME Calm, NEW subject, NEW dev, NEW u, NEW new \in BOOLEAN, NEW todo,
             NEW step \in {"AddDevice", "RemoveDevice", "UpdateEnabledStatus", "SetUserId", "Enter", "IsOn"},
             StartsWith(todo, step), threads' = Append(threads, Thread(subject, dev, u, new, todo))
      PROVE  PluginInv'
  <2> PICK t : t = Thread(subject, dev, u, new, todo)
    OBVIOUS
  <2>1. ThreadShape(t) /\ t.new = new /\ t.todo = todo
    BY DEF Thread, ThreadShape, ThreadFields
  <2>2. ThreadOK(t) /\ t.todo[1] \notin Deciding
    BY <1>2, <2>1 DEF ThreadOK, StartsWith, Deciding
  <2>3. threads' = Append(threads, t)
    BY <1>2
  <2> QED
    BY <1>2, <2>2, <2>3, ThreadAdded DEF Calm
<1>3. CASE PostDelayReleaseProxy \/ ClearDeviceProfileService \/ SendSubscribeInfos \/ DpStarts
  <2>1. threads' = threads /\ Calm
    BY <1>0, <1>3 DEF PostDelayReleaseProxy, ClearDeviceProfileService, SendSubscribeInfos, DpStarts, Calm,
                      outside, service
  <2> QED
    BY <1>1, <2>1
<1>4. CASE DpDies
  <2>1. threads' = threads /\ Calm
    BY <1>0, <1>4, <1>f DEF DpDies, outside
  <2> QED
    BY <1>1, <2>1
<1>5. ASSUME NEW d \in Devices, OnDeviceOnline(d) \/ OnDeviceChanged(d)
      PROVE  PluginInv'
  <2>1. Calm /\ threads' = Append(threads, Thread(d, d, 0, FALSE, Online))
    BY <1>0, <1>5, <1>f DEF OnDeviceOnline, OnDeviceChanged, outside
  <2> QED
    BY <1>2, <2>1, ThreadRoutes
<1>6. ASSUME NEW d \in Devices, OnDeviceOffline(d)
      PROVE  PluginInv'
  <2>1. Calm /\ threads' = Append(threads, Thread(d, d, 0, FALSE, Offline))
    BY <1>0, <1>6, <1>f DEF OnDeviceOffline
  <2> QED
    BY <1>2, <2>1, ThreadRoutes
<1>7. ASSUME NEW d \in Devices, OnCharacteristicProfileUpdate(d)
      PROVE  PluginInv'
  <2> PICK new : new = (~profile[d])
    OBVIOUS
  <2>1. new \in BOOLEAN
    OBVIOUS
  <2>2. Calm /\ (threads' = threads \/ threads' = Append(threads, Thread(d, d, 0, new, OnProfileUpdate)))
    BY <1>0, <1>7 DEF OnCharacteristicProfileUpdate, Calm, Fair, service
  <2> QED
    BY <1>1, <1>2, <2>1, <2>2, ThreadRoutes
<1>8. ASSUME NEW u \in Users, SettingChanges(u)
      PROVE  PluginInv'
  <2>1. setting' \in [Users -> BOOLEAN]
    BY <1>0, <1>8 DEF SettingChanges
  <2>2. Calm /\ (threads' = threads \/ threads' = Append(threads, Thread("switch", Local, switchUser, FALSE, SetSwitch)))
    BY <1>8, <1>f, <2>1 DEF SettingChanges
  <2> QED
    BY <1>1, <1>2, <2>2, ThreadRoutes
<1>9. ASSUME NEW u \in Users, UserSwitches(u)
      PROVE  PluginInv'
  <2>1. Calm /\ threads' = Append(threads, Thread("switch", Local, u, FALSE, HandleUserSwitched))
    BY <1>0, <1>9, <1>f DEF UserSwitches
  <2> QED
    BY <1>2, <2>1, ThreadRoutes
<1>10. CASE WifiDisabled
  <2>1. Calm /\ threads' = Append(threads, Thread("switch", Local, WifiUser, FALSE, HandleWifiDisabled))
    BY <1>0, <1>10, <1>f DEF WifiDisabled, outside
  <2> QED
    BY <1>2, <2>1, ThreadRoutes
<1>11. CASE UsesPlugin
  <2>1. Calm /\ threads' = Append(threads, Thread("use", Local, 0, FALSE, GetPlugin))
    BY <1>0, <1>11, <1>f DEF UsesPlugin, outside
  <2> QED
    BY <1>2, <2>1, ThreadRoutes
<1> QED
  BY <1>3, <1>4, <1>5, <1>6, <1>7, <1>8, <1>9, <1>10, <1>11

\* PluginInv holds at first,
LEMMA PluginAtFirst == DistributedInit => PluginInv
<1> SUFFICES ASSUME DistributedInit PROVE PluginInv
  OBVIOUS
<1>0. PICK t : t = Thread("switch", Local, user, FALSE, SwitchInit)
  OBVIOUS
<1>1. /\ threads = <<t>> /\ status = FALSE /\ plugin = FALSE /\ supported \in BOOLEAN /\ inOrder = TRUE
      /\ setting \in [Users -> BOOLEAN] /\ levelKnown = FALSE /\ kept = FALSE
  BY <1>0 DEF DistributedInit
<1>2. ThreadShape(t) /\ t.new = FALSE /\ t.todo = SwitchInit
  BY <1>0 DEF Thread, ThreadShape, ThreadFields
<1>3. ThreadOK(t) /\ t.todo[1] = "Init"
  BY <1>2, ThreadRoutes DEF ThreadOK, StartsWith
<1>4. threads \in Seq({t}) /\ Len(threads) = 1 /\ threads[1] = t
  BY <1>1
<1>5. \A i \in 1 .. Len(threads) : threads[i] = t
  BY <1>4
<1>6. SwitchTypeOK
  BY <1>1, <1>3, <1>4, <1>5 DEF SwitchTypeOK
<1> QED
  BY <1>1, <1>3, <1>5, <1>6 DEF PluginInv, PluginRight, Deciding

\* and every step keeps it.
LEMMA PluginInvKept == PluginInv /\ [DistributedNext]_distributedVars => PluginInv'
<1> SUFFICES ASSUME PluginInv, [DistributedNext]_distributedVars PROVE PluginInv'
  OBVIOUS
<1>1. CASE UNCHANGED distributedVars
  <2>1. threads' = threads /\ status' = status /\ plugin' = plugin /\ supported' = supported
        /\ inOrder' = inOrder /\ setting' = setting /\ levelKnown' = levelKnown /\ kept' = kept
    BY <1>1 DEF distributedVars, outside, service
  <2> QED
    BY <2>1 DEF PluginInv, PluginRight, SwitchTypeOK, Announced
<1>2. CASE DistributedNext
  BY <1>2, SwitchSteps, SwitchEvents DEF DistributedNext
<1> QED
  BY <1>1, <1>2

\* PluginFollows: once everything has been dealt with the plugin is there if status_ is on
\* and the level, once known, allows it, and only then or when it could not be dropped.
THEOREM PluginAsStatus == SwitchSpec => []PluginFollows
<1>1. PluginInv => PluginFollows
  <2> SUFFICES ASSUME PluginInv, Settled PROVE PluginRight /\ (plugin => supported /\ levelKnown)
    BY DEF PluginFollows, PluginRight, IsSupportedDistributed
  <2>1. threads = <<>> /\ inOrder
    BY DEF Settled
  <2>2. ~Announced(threads, status)
    BY <2>1 DEF Announced
  <2> QED
    BY <2>1, <2>2 DEF PluginInv
<1> QED
  BY <1>1, PluginAtFirst, PluginInvKept, PTL DEF SwitchSpec

-----------------------------------------------------------------------------
(* DistributedSwitch: what the answer of IsOn rests on.                   *)

\* The lists of steps threads are started with; SwitchInit and SetSwitch are how
\* HandleUserSwitched ends.
Courses == {"user", "wifi", "online", "offline", "update", "use", "plugin"}
PlanOf(c) ==
  CASE c = "user" -> HandleUserSwitched
    [] c = "wifi" -> HandleWifiDisabled
    [] c = "online" -> Online
    [] c = "offline" -> Offline
    [] c = "update" -> OnProfileUpdate
    [] c = "use" -> GetPlugin
    [] c = "plugin" -> OnConfigChange
StepCount(c) ==
  CASE c = "user" -> 18 [] c = "wifi" -> 8 [] c = "online" -> 6 [] c = "offline" -> 6
    [] c = "update" -> 4 [] c = "use" -> 6 [] c = "plugin" -> 1

\* What is left of a plan after n steps.
Rest(p, n) == SubSeq(p, n + 1, Len(p))

\* n steps of the plan p are done, and s is left, maybe with a value to write back.
OnPlan(s, p, n) ==
  \/ s = Rest(p, n)
  \/ s = <<"WriteBack">> \o Rest(p, n) /\ p[n + 1] = "GetEnabledStatus"

\* The cache does not contradict the value.
CacheAs(d, value) == d \in DOMAIN cache => cache[d] = value

\* What the cache has of a device is right, and a change of it will be announced; or a failed
\* call, or a change that was missed, is why not.
CacheRight(d) == d \in deaf \cup stale \/ CacheAs(d, profile[d])
Heard(d) == d \in deaf \/ (d \in devices \cup DOMAIN cache => d \in subscribed)

\* What holds after n steps of a thread for the foreground user, u being its user and new
\* the status it has computed; after n steps of a thread about a device that has come or has
\* gone; and of one that a device's new status is announced to.
UserAt(n, u, new) ==
  /\ n <= 12 => u = user
  /\ n >= 9 => switchUser = user
  /\ n \in {10, 12} => shareUser = user
  /\ n >= 11 => user \in observed
  /\ n \in {13, 14} => new = setting[user] \/ "value" \in failed
  /\ n >= 14 => CacheAs(Local, setting[user]) \/ "value" \in failed
  /\ n >= 15 => profile[Local] = setting[user] \/ "value" \in failed
OnlineAt(n, d) ==
  /\ d \in online /\ CacheRight(d)
  /\ n = 0 => Heard(d)
  /\ n >= 1 => d \in devices
  /\ n >= 2 => d \in subscribed
OfflineAt(n, d) ==
  /\ d \notin online
  /\ n = 0 => CacheRight(d) /\ Heard(d)
  /\ n >= 1 => d \notin devices
  /\ n >= 2 => d \notin subscribed
  /\ n >= 3 => d \notin DOMAIN cache
UpdateAt(n, d, new) ==
  /\ d \in failed \/ (d \in online <=> d \in devices)
  /\ n = 0 => new = profile[d] /\ d \in deaf \cup subscribed
  /\ n >= 1 => CacheRight(d) /\ Heard(d)

\* What holds of the switch, and of a device, once no thread is about it.
SwitchStable ==
  \/ "switch" \in failed
  \/ /\ switchUser = user /\ user \in observed
     /\ "value" \in failed \/ (CacheAs(Local, setting[user]) /\ profile[Local] = setting[user])
DeviceStable(d) == CacheRight(d) /\ Heard(d) /\ (d \in failed \/ (d \in online <=> d \in devices))
Subjects == Devices \cup {"switch"}
Stable(s) == IF s = "switch" THEN SwitchStable ELSE DeviceStable(s)

\* A thread that has done n steps of a plan is where it should be.
StandsAt(c, n, t) ==
  CASE c = "user" -> t.subject = "switch" /\ t.dev = Local /\ ("switch" \in failed \/ UserAt(n, t.user, t.new))
    [] c = "wifi" -> t.subject = "switch" /\ t.dev = Local /\ SwitchStable
    [] c = "online" -> t.subject \in Devices /\ t.dev = t.subject /\ OnlineAt(n, t.subject)
    [] c = "offline" -> t.subject \in Devices /\ t.dev = t.subject /\ OfflineAt(n, t.subject)
    [] c = "update" -> t.subject \in Devices /\ t.dev = t.subject /\ UpdateAt(n, t.subject, t.new)
    [] c = "use" -> t.subject = "use"
    [] c = "plugin" -> t.subject = "plugin"

\* On some plan, at some step of it.
ThreadFits(t) ==
  \E c \in Courses : \E n \in 0 .. StepCount(c) - 1 : OnPlan(t.todo, PlanOf(c), n) /\ StandsAt(c, n, t)

\* No two threads of a list are about the same, and none is about s.
Sole(list) ==
  \A i, j \in 1 .. Len(list) : list[i].subject \in Subjects /\ list[i].subject = list[j].subject => i = j
Quiet(list, s) == \A i \in 1 .. Len(list) : list[i].subject # s

\* What is still to be heard of the device profile service: the last of it is how it is now,
\* and a proxy of one that has died is among it.
DpHeard ==
  /\ dpUp \in BOOLEAN /\ dpProxy \in {"none", "live", "dead"} /\ saEvents \in Seq({"add", "remove"})
  /\ saEvents # <<>> => saEvents[Len(saEvents)] = IF dpUp THEN "add" ELSE "remove"
  /\ dpProxy = "dead" => \E k \in 1 .. Len(saEvents) : saEvents[k] = "remove"
  /\ ~proxy => dpProxy = "none"

\* The service, the adapter and the client agree on what is subscribed, and so does the device
\* profile service once it has been heard of; but not on devices for which a call has failed.
Subscriptions ==
  /\ infoCache \ deaf = subscribed \ deaf /\ infos \ deaf = subscribed \ deaf /\ dpSubs \ deaf \subseteq subscribed
  /\ subscribed # {} => callback
  /\ dpUp /\ saEvents = <<>> => subscribed \ deaf \subseteq dpSubs

\* What is outside of the service.
OutsideOK ==
  /\ user \in Users /\ online \subseteq Devices /\ devices \subseteq Devices
  /\ profile \in [Devices \cup {Local} -> BOOLEAN]

\* Every thread of a list is where its plan says, and what no thread is about is settled:
\* all of it, and all but s0.
FitsExcept(list, s0) ==
  /\ IsList(list) /\ Sole(list)
  /\ \A i \in 1 .. Len(list) : ThreadFits(list[i])
  /\ \A s \in Subjects : s # s0 /\ Quiet(list, s) => Stable(s)
Fits(list) ==
  /\ IsList(list) /\ Sole(list)
  /\ \A i \in 1 .. Len(list) : ThreadFits(list[i])
  /\ \A s \in Subjects : Quiet(list, s) => Stable(s)

\* What holds as long as everything is in order, and the inductive invariant for StatusAsSet.
StatusParts == OutsideOK /\ DpHeard /\ Subscriptions /\ Fits(threads)
StatusInv == PluginInv /\ (inOrder => StatusParts)

\* A list of k steps, and one of the k steps of s and the l steps of t.
Listed(s, k) == s \in Seq(StepNames) /\ Len(s) = k
Both(r, s, k, t, l) == Listed(r, k + l) /\ (\A i \in 1 .. k : r[i] = s[i]) /\ \A i \in 1 .. l : r[k + i] = t[i]

\* Where the steps of two lists are in the list of both.
LEMMA JoinedSteps ==
  ASSUME NEW s, NEW k, NEW t, NEW l, Listed(s, k), Listed(t, l)
  PROVE  Both(s \o t, s, k, t, l)
<1> PICK r : r = s \o t
  OBVIOUS
<1>0. k \in Nat /\ l \in Nat /\ s \in Seq(StepNames) /\ t \in Seq(StepNames) /\ Len(s) = k /\ Len(t) = l
  BY DEF Listed
<1>1. r \in Seq(StepNames) /\ Len(r) = k + l /\ \A i \in 1 .. k + l : r[i] = IF i <= k THEN s[i] ELSE t[i - k]
  BY <1>0, ConcatProperties
<1>2. ASSUME NEW i \in 1 .. l PROVE r[k + i] = t[i]
  BY <1>0, <1>1
<1>3. ASSUME NEW i \in 1 .. k PROVE r[i] = s[i]
  BY <1>0, <1>1
<1> QED
  BY <1>1, <1>2, <1>3 DEF Both, Listed

\* The steps of every list, in order.
LEMMA PlanSteps ==
  /\ \A c \in Courses : Listed(PlanOf(c), StepCount(c))
  /\ LET p == HandleUserSwitched
     IN  /\ p[1] = "Enter" /\ p[2] = "IsOn" /\ p[3] = "GetEnabledStatus" /\ p[4] = "Compare" /\ p[5] = "Store"
         /\ p[6] = "Load" /\ p[7] = "GetClipPlugin" /\ p[8] = "DeInit" /\ p[9] = "Init" /\ p[10] = "SetUserId"
         /\ p[11] = "RegisterObserver" /\ p[12] = "SetUserId" /\ p[13] = "GetValue"
         /\ p[14] = "UpdateEnabledStatus" /\ p[15] = "PutDeviceStatus"
         /\ p[16] = "GetEnabledStatus" /\ p[17] = "Compare" /\ p[18] = "Store"
  /\ LET p == HandleWifiDisabled
     IN  /\ p[1] = "SetUserId" /\ p[2] = "GetDeviceCollabSwitch" /\ p[3] = "IsOn" /\ p[4] = "GetEnabledStatus"
         /\ p[5] = "Compare" /\ p[6] = "Store" /\ p[7] = "Load" /\ p[8] = "GetClipPlugin"
  /\ LET p == Online
     IN  /\ p[1] = "AddDevice" /\ p[2] = "SubscribeProfileEvent" /\ p[3] = "GetDeviceStatus"
         /\ p[4] = "GetEnabledStatus" /\ p[5] = "Compare" /\ p[6] = "Store"
  /\ LET p == Offline
     IN  /\ p[1] = "RemoveDevice" /\ p[2] = "UnSubscribeProfileEvent" /\ p[3] = "EraseEnabledStatus"
         /\ p[4] = "GetEnabledStatus" /\ p[5] = "Compare" /\ p[6] = "Store"
  /\ LET p == OnProfileUpdate
     IN  p[1] = "UpdateEnabledStatus" /\ p[2] = "GetEnabledStatus" /\ p[3] = "Compare" /\ p[4] = "Store"
  /\ LET p == GetPlugin
     IN  /\ p[1] = "IsOn" /\ p[2] = "GetEnabledStatus" /\ p[3] = "Compare" /\ p[4] = "Store" /\ p[5] = "Load"
         /\ p[6] = "GetClipPlugin"
  /\ OnConfigChange[1] = "OnConfigChangeInner"
<1>0. PICK n, on, plug, sw, init, usr, wifi, onl, off, upd, conf :
        /\ n = Notify /\ on = IsOn /\ plug = GetPlugin /\ sw = SetSwitch /\ init = SwitchInit
        /\ usr = HandleUserSwitched /\ wifi = HandleWifiDisabled
        /\ onl = Online /\ off = Offline /\ upd = OnProfileUpdate /\ conf = OnConfigChange
  OBVIOUS
<1>1. /\ Listed(n, 3)
      /\ n[1] = "GetEnabledStatus" /\ n[2] = "Compare" /\ n[3] = "Store"
  BY <1>0 DEF Notify, StepNames, Listed
<1>2p. PICK isOn : isOn = <<"IsOn">>
  OBVIOUS
<1>2. /\ Listed(isOn, 1)
      /\ isOn[1] = "IsOn"
  BY <1>2p DEF StepNames, Listed
<1>3p. PICK load : load = <<"Load">>
  OBVIOUS
<1>3. /\ Listed(load, 1)
      /\ load[1] = "Load"
  BY <1>3p DEF StepNames, Listed
<1>4p. PICK on1 : on1 = isOn \o n
  OBVIOUS
<1>5. /\ Listed(on1, 4)
      /\ on1[1] = "IsOn" /\ on1[2] = "GetEnabledStatus" /\ on1[3] = "Compare"
      /\ on1[4] = "Store"
  <2>1. on1 = isOn \o n
    BY <1>4p
  <2>2. Both(on1, isOn, 1, n, 3)
    BY <1>1, <1>2, <2>1, JoinedSteps
  <2> QED
    BY <1>1, <1>2, <2>2 DEF Both
<1>6. /\ Listed(on, 5)
      /\ on[1] = "IsOn" /\ on[2] = "GetEnabledStatus" /\ on[3] = "Compare"
      /\ on[4] = "Store" /\ on[5] = "Load"
  <2>1. on = on1 \o load
    BY <1>0, <1>4p, <1>2p, <1>3p DEF IsOn
  <2>2. Both(on, on1, 4, load, 1)
    BY <1>5, <1>3, <2>1, JoinedSteps
  <2> QED
    BY <1>5, <1>3, <2>2 DEF Both
<1>7p. PICK get : get = <<"GetClipPlugin">>
  OBVIOUS
<1>7. /\ Listed(get, 1)
      /\ get[1] = "GetClipPlugin"
  BY <1>7p DEF StepNames, Listed
<1>8. /\ Listed(plug, 6)
      /\ plug[1] = "IsOn" /\ plug[2] = "GetEnabledStatus" /\ plug[3] = "Compare"
      /\ plug[4] = "Store" /\ plug[5] = "Load" /\ plug[6] = "GetClipPlugin"
  <2>1. plug = on \o get
    BY <1>0, <1>7p DEF GetPlugin
  <2>2. Both(plug, on, 5, get, 1)
    BY <1>6, <1>7, <2>1, JoinedSteps
  <2> QED
    BY <1>6, <1>7, <2>2 DEF Both
<1>9p. PICK set : set = <<"SetUserId", "GetValue", "UpdateEnabledStatus", "PutDeviceStatus">>
  OBVIOUS
<1>9. /\ Listed(set, 4)
      /\ set[1] = "SetUserId" /\ set[2] = "GetValue" /\ set[3] = "UpdateEnabledStatus"
      /\ set[4] = "PutDeviceStatus"
  BY <1>9p DEF StepNames, Listed
<1>10. /\ Listed(sw, 7)
       /\ sw[1] = "SetUserId" /\ sw[2] = "GetValue" /\ sw[3] = "UpdateEnabledStatus"
       /\ sw[4] = "PutDeviceStatus" /\ sw[5] = "GetEnabledStatus" /\ sw[6] = "Compare"
       /\ sw[7] = "Store"
  <2>1. sw = set \o n
    BY <1>0, <1>9p DEF SetSwitch
  <2>2. Both(sw, set, 4, n, 3)
    BY <1>1, <1>9, <2>1, JoinedSteps
  <2> QED
    BY <1>1, <1>9, <2>2 DEF Both
<1>11p. PICK reg : reg = <<"Init", "SetUserId", "RegisterObserver">>
  OBVIOUS
<1>11. /\ Listed(reg, 3)
       /\ reg[1] = "Init" /\ reg[2] = "SetUserId" /\ reg[3] = "RegisterObserver"
  BY <1>11p DEF StepNames, Listed
<1>12. /\ Listed(init, 10)
       /\ init[1] = "Init" /\ init[2] = "SetUserId" /\ init[3] = "RegisterObserver"
       /\ init[4] = "SetUserId" /\ init[5] = "GetValue" /\ init[6] = "UpdateEnabledStatus"
       /\ init[7] = "PutDeviceStatus" /\ init[8] = "GetEnabledStatus" /\ init[9] = "Compare"
       /\ init[10] = "Store"
  <2>1. init = reg \o sw
    BY <1>0, <1>11p DEF SwitchInit
  <2>2. Both(init, reg, 3, sw, 7)
    BY <1>10, <1>11, <2>1, JoinedSteps
  <2> QED
    BY <1>10, <1>11, <2>2 DEF Both
<1>13p. PICK ent : ent = <<"Enter">>
  OBVIOUS
<1>13. /\ Listed(ent, 1)
       /\ ent[1] = "Enter"
  BY <1>13p DEF StepNames, Listed
<1>14p. PICK de : de = <<"DeInit">>
  OBVIOUS
<1>14. /\ Listed(de, 1)
       /\ de[1] = "DeInit"
  BY <1>14p DEF StepNames, Listed
<1>15p. PICK usr1 : usr1 = ent \o plug
  OBVIOUS
<1>16. /\ Listed(usr1, 7)
       /\ usr1[1] = "Enter" /\ usr1[2] = "IsOn" /\ usr1[3] = "GetEnabledStatus"
       /\ usr1[4] = "Compare" /\ usr1[5] = "Store" /\ usr1[6] = "Load"
       /\ usr1[7] = "GetClipPlugin"
  <2>1. usr1 = ent \o plug
    BY <1>15p
  <2>2. Both(usr1, ent, 1, plug, 6)
    BY <1>8, <1>13, <2>1, JoinedSteps
  <2> QED
    BY <1>8, <1>13, <2>2 DEF Both
<1>17p. PICK usr2 : usr2 = usr1 \o de
  OBVIOUS
<1>18. /\ Listed(usr2, 8)
       /\ usr2[1] = "Enter" /\ usr2[2] = "IsOn" /\ usr2[3] = "GetEnabledStatus"
       /\ usr2[4] = "Compare" /\ usr2[5] = "Store" /\ usr2[6] = "Load"
       /\ usr2[7] = "GetClipPlugin" /\ usr2[8] = "DeInit"
  <2>1. usr2 = usr1 \o de
    BY <1>17p
  <2>2. Both(usr2, usr1, 7, de, 1)
    BY <1>16, <1>14, <2>1, JoinedSteps
  <2> QED
    BY <1>16, <1>14, <2>2 DEF Both
<1>19. /\ Listed(usr, 18)
       /\ usr[1] = "Enter" /\ usr[2] = "IsOn" /\ usr[3] = "GetEnabledStatus"
       /\ usr[4] = "Compare" /\ usr[5] = "Store" /\ usr[6] = "Load"
       /\ usr[7] = "GetClipPlugin" /\ usr[8] = "DeInit" /\ usr[9] = "Init"
       /\ usr[10] = "SetUserId" /\ usr[11] = "RegisterObserver" /\ usr[12] = "SetUserId"
       /\ usr[13] = "GetValue" /\ usr[14] = "UpdateEnabledStatus"
       /\ usr[15] = "PutDeviceStatus" /\ usr[16] = "GetEnabledStatus" /\ usr[17] = "Compare"
       /\ usr[18] = "Store"
  <2>1. usr = usr2 \o init
    BY <1>0, <1>15p, <1>17p, <1>13p, <1>14p DEF HandleUserSwitched
  <2>2. Both(usr, usr2, 8, init, 10)
    BY <1>18, <1>12, <2>1, JoinedSteps
  <2> QED
    BY <1>18, <1>12, <2>2 DEF Both
<1>20p. PICK col : col = <<"SetUserId", "GetDeviceCollabSwitch">>
  OBVIOUS
<1>20. /\ Listed(col, 2)
       /\ col[1] = "SetUserId" /\ col[2] = "GetDeviceCollabSwitch"
  BY <1>20p DEF StepNames, Listed
<1>21. /\ Listed(wifi, 8)
       /\ wifi[1] = "SetUserId" /\ wifi[2] = "GetDeviceCollabSwitch" /\ wifi[3] = "IsOn"
       /\ wifi[4] = "GetEnabledStatus" /\ wifi[5] = "Compare" /\ wifi[6] = "Store"
       /\ wifi[7] = "Load" /\ wifi[8] = "GetClipPlugin"
  <2>1. wifi = col \o plug
    BY <1>0, <1>20p DEF HandleWifiDisabled
  <2>2. Both(wifi, col, 2, plug, 6)
    BY <1>8, <1>20, <2>1, JoinedSteps
  <2> QED
    BY <1>8, <1>20, <2>2 DEF Both
<1>22p. PICK add : add = <<"AddDevice", "SubscribeProfileEvent", "GetDeviceStatus">>
  OBVIOUS
<1>22. /\ Listed(add, 3)
       /\ add[1] = "AddDevice" /\ add[2] = "SubscribeProfileEvent"
       /\ add[3] = "GetDeviceStatus"
  BY <1>22p DEF StepNames, Listed
<1>23. /\ Listed(onl, 6)
       /\ onl[1] = "AddDevice" /\ onl[2] = "SubscribeProfileEvent"
       /\ onl[3] = "GetDeviceStatus" /\ onl[4] = "GetEnabledStatus" /\ onl[5] = "Compare"
       /\ onl[6] = "Store"
  <2>1. onl = add \o n
    BY <1>0, <1>22p DEF Online
  <2>2. Both(onl, add, 3, n, 3)
    BY <1>1, <1>22, <2>1, JoinedSteps
  <2> QED
    BY <1>1, <1>22, <2>2 DEF Both
<1>24p. PICK rem : rem = <<"RemoveDevice", "UnSubscribeProfileEvent", "EraseEnabledStatus">>
  OBVIOUS
<1>24. /\ Listed(rem, 3)
       /\ rem[1] = "RemoveDevice" /\ rem[2] = "UnSubscribeProfileEvent"
       /\ rem[3] = "EraseEnabledStatus"
  BY <1>24p DEF StepNames, Listed
<1>25. /\ Listed(off, 6)
       /\ off[1] = "RemoveDevice" /\ off[2] = "UnSubscribeProfileEvent"
       /\ off[3] = "EraseEnabledStatus" /\ off[4] = "GetEnabledStatus" /\ off[5] = "Compare"
       /\ off[6] = "Store"
  <2>1. off = rem \o n
    BY <1>0, <1>24p DEF Offline
  <2>2. Both(off, rem, 3, n, 3)
    BY <1>1, <1>24, <2>1, JoinedSteps
  <2> QED
    BY <1>1, <1>24, <2>2 DEF Both
<1>26p. PICK up : up = <<"UpdateEnabledStatus">>
  OBVIOUS
<1>26. /\ Listed(up, 1)
       /\ up[1] = "UpdateEnabledStatus"
  BY <1>26p DEF StepNames, Listed
<1>27. /\ Listed(upd, 4)
       /\ upd[1] = "UpdateEnabledStatus" /\ upd[2] = "GetEnabledStatus"
       /\ upd[3] = "Compare" /\ upd[4] = "Store"
  <2>1. upd = up \o n
    BY <1>0, <1>26p DEF OnProfileUpdate
  <2>2. Both(upd, up, 1, n, 3)
    BY <1>1, <1>26, <2>1, JoinedSteps
  <2> QED
    BY <1>1, <1>26, <2>2 DEF Both
<1>40. Listed(conf, 1) /\ conf[1] = "OnConfigChangeInner"
  <2>1. conf = <<"OnConfigChangeInner">>
    BY <1>0 DEF OnConfigChange
  <2> QED
    BY <2>1 DEF StepNames, Listed
<1>41. \A c \in Courses : Listed(PlanOf(c), StepCount(c))
  <2> SUFFICES ASSUME NEW c \in Courses PROVE Listed(PlanOf(c), StepCount(c))
    OBVIOUS
  <2>1. CASE c = "user"
    BY <1>0, <1>19, <2>1 DEF PlanOf, StepCount
  <2>2. CASE c = "wifi"
    BY <1>0, <1>21, <2>2 DEF PlanOf, StepCount
  <2>3. CASE c = "online"
    BY <1>0, <1>23, <2>3 DEF PlanOf, StepCount
  <2>4. CASE c = "offline"
    BY <1>0, <1>25, <2>4 DEF PlanOf, StepCount
  <2>5. CASE c = "update"
    BY <1>0, <1>27, <2>5 DEF PlanOf, StepCount
  <2>6. CASE c = "use"
    BY <1>0, <1>8, <2>6 DEF PlanOf, StepCount
  <2>7. CASE c = "plugin"
    BY <1>0, <1>40, <2>7 DEF PlanOf, StepCount
  <2> QED
    BY <2>1, <2>2, <2>3, <2>4, <2>5, <2>6, <2>7 DEF Courses
<1> QED
  BY <1>0, <1>8, <1>19, <1>21, <1>23, <1>25, <1>27, <1>40, <1>41

\* The steps that leave what a thread has done so far as it is.
Neutral ==
  {"GetEnabledStatus", "Compare", "Store", "IsOn", "Load", "GetClipPlugin", "OnConfigChangeInner", "Enter",
   "GetDeviceCollabSwitch", "GetDeviceStatus"}

\* On which plans, and where, a step is.
LEMMA WhichStep ==
  ASSUME NEW c \in Courses, NEW n \in 0 .. StepCount(c) - 1, NEW step, step = PlanOf(c)[n + 1]
  PROVE  /\ step # "WriteBack"
         /\ step \in {"DeInit", "Init", "RegisterObserver", "GetValue", "PutDeviceStatus"} => c = "user"
         /\ step = "DeInit" => n = 7
         /\ step = "Init" => n = 8
         /\ step = "RegisterObserver" => n = 10
         /\ step = "GetValue" => n = 12
         /\ step = "PutDeviceStatus" => n = 14
         /\ step = "SetUserId" => (c = "user" /\ n \in {9, 11}) \/ c = "wifi"
         /\ step = "UpdateEnabledStatus" => (c = "user" /\ n = 13) \/ (c = "update" /\ n = 0)
         /\ step = "AddDevice" => c = "online" /\ n = 0
         /\ step = "SubscribeProfileEvent" => c = "online" /\ n = 1
         /\ step = "RemoveDevice" => c = "offline" /\ n = 0
         /\ step = "UnSubscribeProfileEvent" => c = "offline" /\ n = 1
         /\ step = "EraseEnabledStatus" => c = "offline" /\ n = 2
         /\ step \in Neutral /\ c = "user" => n <= 6 \/ n >= 15
         /\ step \in Neutral /\ c = "online" => n >= 2
         /\ step \in Neutral /\ c = "offline" => n >= 3
         /\ step \in Neutral /\ c = "update" => n >= 1
         /\ step \in {"GetEnabledStatus", "GetDeviceStatus"} => n + 1 <= StepCount(c) - 1 /\ step \in Neutral
         /\ step = "GetDeviceCollabSwitch" => c = "wifi"
         /\ step = "GetDeviceStatus" => PlanOf(c)[n + 2] = "GetEnabledStatus"
         /\ step = "Compare" => n + 2 <= StepCount(c) /\ n # 5 /\ n # 6
         /\ step = "IsOn" => n + 4 <= StepCount(c) /\ n <= 2
<1>1. CASE c = "user"
  <2>1. n \in 0 .. 17 /\ step = HandleUserSwitched[n + 1]
    BY <1>1 DEF PlanOf, StepCount
  <2>2. <<n, step>> \in
          {<<0, "Enter">>, <<1, "IsOn">>, <<2, "GetEnabledStatus">>, <<3, "Compare">>,
           <<4, "Store">>, <<5, "Load">>, <<6, "GetClipPlugin">>, <<7, "DeInit">>, <<8, "Init">>,
           <<9, "SetUserId">>, <<10, "RegisterObserver">>, <<11, "SetUserId">>,
           <<12, "GetValue">>, <<13, "UpdateEnabledStatus">>, <<14, "PutDeviceStatus">>,
           <<15, "GetEnabledStatus">>, <<16, "Compare">>, <<17, "Store">>}
    BY <2>1, PlanSteps
  <2> QED
    BY <1>1, <2>2 DEF Neutral, StepCount
<1>2. CASE c = "wifi"
  <2>1. n \in 0 .. 7 /\ step = HandleWifiDisabled[n + 1]
    BY <1>2 DEF PlanOf, StepCount
  <2>2. <<n, step>> \in
          {<<0, "SetUserId">>, <<1, "GetDeviceCollabSwitch">>, <<2, "IsOn">>,
           <<3, "GetEnabledStatus">>, <<4, "Compare">>, <<5, "Store">>, <<6, "Load">>,
           <<7, "GetClipPlugin">>}
    BY <2>1, PlanSteps
  <2> QED
    BY <1>2, <2>2 DEF Neutral, StepCount
<1>3. CASE c = "online"
  <2>1. n \in 0 .. 5 /\ step = Online[n + 1]
    BY <1>3 DEF PlanOf, StepCount
  <2>2. <<n, step>> \in
          {<<0, "AddDevice">>, <<1, "SubscribeProfileEvent">>, <<2, "GetDeviceStatus">>,
           <<3, "GetEnabledStatus">>, <<4, "Compare">>, <<5, "Store">>}
    BY <2>1, PlanSteps
  <2> QED
    BY <1>3, <2>2, PlanSteps DEF Neutral, StepCount, PlanOf
<1>4. CASE c = "offline"
  <2>1. n \in 0 .. 5 /\ step = Offline[n + 1]
    BY <1>4 DEF PlanOf, StepCount
  <2>2. <<n, step>> \in
          {<<0, "RemoveDevice">>, <<1, "UnSubscribeProfileEvent">>, <<2, "EraseEnabledStatus">>,
           <<3, "GetEnabledStatus">>, <<4, "Compare">>, <<5, "Store">>}
    BY <2>1, PlanSteps
  <2> QED
    BY <1>4, <2>2 DEF Neutral, StepCount
<1>5. CASE c = "update"
  <2>1. n \in 0 .. 3 /\ step = OnProfileUpdate[n + 1]
    BY <1>5 DEF PlanOf, StepCount
  <2>2. <<n, step>> \in
          {<<0, "UpdateEnabledStatus">>, <<1, "GetEnabledStatus">>, <<2, "Compare">>,
           <<3, "Store">>}
    BY <2>1, PlanSteps
  <2> QED
    BY <1>5, <2>2 DEF Neutral, StepCount
<1>6. CASE c = "use"
  <2>1. n \in 0 .. 5 /\ step = GetPlugin[n + 1]
    BY <1>6 DEF PlanOf, StepCount
  <2>2. <<n, step>> \in
          {<<0, "IsOn">>, <<1, "GetEnabledStatus">>, <<2, "Compare">>, <<3, "Store">>,
           <<4, "Load">>, <<5, "GetClipPlugin">>}
    BY <2>1, PlanSteps
  <2> QED
    BY <1>6, <2>2 DEF Neutral, StepCount
<1>7. CASE c = "plugin"
  <2>1. n = 0 /\ step = "OnConfigChangeInner"
    BY <1>7, PlanSteps DEF PlanOf, StepCount
  <2> QED
    BY <1>7, <2>1 DEF Neutral, StepCount
<1> QED
  BY <1>1, <1>2, <1>3, <1>4, <1>5, <1>6, <1>7 DEF Courses

\* a is what comes after the first k steps of s, which has l.
Cut(a, s, k, l) == Listed(a, l - k) /\ \A i \in 1 .. l - k : a[i] = s[k + i]

\* The steps after the first k.
LEMMA CutSteps ==
  ASSUME NEW s, NEW l, Listed(s, l), NEW k \in Nat, k < l
  PROVE  Cut(SubSeq(s, k + 1, l), s, k, l)
<1>0. PICK a : a = SubSeq(s, k + 1, l)
  OBVIOUS
<1>1. s \in Seq(StepNames) /\ Len(s) = l /\ l \in Nat
  BY DEF Listed
<1>2. \A i \in 1 .. l : s[i] \in StepNames
  BY <1>1, ElementOfSeq
<1>3. PICK f : f = k + 1
  OBVIOUS
<1>4. f \in Int /\ l \in Int /\ f <= l /\ a = SubSeq(s, f, l) /\ \A i \in f .. l : s[i] \in StepNames
  BY <1>0, <1>1, <1>2, <1>3
<1>5. /\ a \in Seq(StepNames) /\ Len(a) = l - f + 1
      /\ \A i \in 1 .. l - f + 1 : a[i] = s[f + i - 1]
  BY <1>4, SubSeqProperties
<1>6. l - f + 1 = l - k /\ \A i \in 1 .. l - k : f + i - 1 = k + i
  BY <1>1, <1>3
<1> QED
  BY <1>0, <1>5, <1>6 DEF Cut, Listed

\* What is left of what is left.
LEMMA RestOfRest ==
  ASSUME NEW p, NEW l, Listed(p, l), NEW n \in Nat, n < l
  PROVE  /\ Rest(p, n) \in Seq(StepNames) /\ Rest(p, n)[1] = p[n + 1] /\ Rest(p, n) # <<>>
         /\ \A k \in Nat : n + k <= l => SubSeq(Rest(p, n), k + 1, Len(Rest(p, n))) = Rest(p, n + k)
<1> PICK s : s = Rest(p, n)
  OBVIOUS
<1>l. p \in Seq(StepNames) /\ Len(p) = l /\ l \in Nat
  BY DEF Listed
<1>1. PICK h : h = l - n
  OBVIOUS
<1>2. /\ Listed(s, h) /\ s \in Seq(StepNames) /\ Len(s) = h /\ h \in Nat
      /\ \A i \in 1 .. h : s[i] = p[n + i]
  <2>1. s = SubSeq(p, n + 1, l)
    BY <1>l DEF Rest
  <2>2. Cut(s, p, n, l)
    BY <2>1, CutSteps
  <2> QED
    BY <1>1, <1>l, <2>2 DEF Cut, Listed
<1>3. s[1] = p[n + 1] /\ s # <<>>
  BY <1>1, <1>2, <1>l
<1>6. ASSUME NEW k \in Nat, n + k < l
      PROVE  SubSeq(s, k + 1, Len(s)) = Rest(p, n + k)
  <2>0. PICK m, a, b : m = n + k /\ a = SubSeq(s, k + 1, h) /\ b = SubSeq(p, m + 1, l)
    OBVIOUS
  <2>1. m \in Nat /\ m < l /\ k < h /\ h - k = l - m
    BY <1>1, <1>6, <1>l, <2>0
  <2>c. Cut(a, s, k, h) /\ Cut(b, p, m, l)
    BY <1>2, <2>0, <2>1, CutSteps
  <2>2. Listed(a, h - k) /\ \A i \in 1 .. h - k : a[i] = s[k + i]
    BY <2>c DEF Cut
  <2>3. Listed(b, l - m) /\ \A i \in 1 .. l - m : b[i] = p[m + i]
    BY <2>c DEF Cut
  <2>4. a \in Seq(StepNames) /\ b \in Seq(StepNames) /\ Len(a) = Len(b) /\ Len(b) = l - m
    BY <2>1, <2>2, <2>3 DEF Listed
  <2>5. ASSUME NEW i \in 1 .. l - m PROVE a[i] = b[i]
    <3>1. k + i \in 1 .. h /\ n + (k + i) = m + i
      BY <1>1, <1>l, <2>0, <2>1
    <3>2. a[i] = s[k + i] /\ s[k + i] = p[n + (k + i)] /\ b[i] = p[m + i]
      BY <1>2, <2>1, <2>2, <2>3, <3>1
    <3> QED
      BY <3>1, <3>2
  <2>6. a = b
    BY <2>4, <2>5, SeqEqual
  <2>7. Rest(p, n + k) = b
    BY <1>l, <2>0 DEF Rest
  <2> QED
    BY <1>2, <2>0, <2>6, <2>7
<1>7. ASSUME NEW k \in Nat, n + k = l
      PROVE  SubSeq(s, k + 1, Len(s)) = Rest(p, n + k)
  <2>1. SubSeq(s, k + 1, Len(s)) = <<>>
    BY <1>1, <1>2, <1>7, <1>l
  <2>2. Rest(p, n + k) = <<>>
    BY <1>7, <1>l DEF Rest
  <2> QED
    BY <2>1, <2>2
<1>8. ASSUME NEW k \in Nat, n + k <= l PROVE SubSeq(s, k + 1, Len(s)) = Rest(p, n + k)
  <2>1. n + k < l \/ n + k = l
    BY <1>8, <1>l
  <2> QED
    BY <1>6, <1>7, <2>1
<1> QED
  BY <1>2, <1>3, <1>8

\* The value to write back comes before what is left.
LEMMA WriteBackFirst ==
  ASSUME NEW s \in Seq(StepNames), NEW w, w = <<"WriteBack">> \o s
  PROVE  /\ w \in Seq(StepNames) /\ w[1] = "WriteBack" /\ w # <<>> /\ Len(w) = Len(s) + 1
         /\ SubSeq(w, 2, Len(w)) = s
<1> PICK l \in Nat : l = Len(s)
  OBVIOUS
<1> PICK a : a = <<"WriteBack">>
  OBVIOUS
<1>1. Listed(a, 1) /\ a[1] = "WriteBack" /\ Listed(s, l)
  BY DEF Listed, StepNames
<1>2. Both(w, a, 1, s, l)
  BY <1>1, JoinedSteps
<1>3. w \in Seq(StepNames) /\ Len(w) = 1 + l /\ w[1] = a[1] /\ \A i \in 1 .. l : w[1 + i] = s[i]
  BY <1>2 DEF Both, Listed
<1>4. PICK r : r = SubSeq(w, 2, 1 + l)
  OBVIOUS
<1>5. \A i \in 1 .. 1 + l : w[i] \in StepNames
  BY <1>3, ElementOfSeq
<1>6. r = s
  <2>1. CASE l = 0
    BY <1>3, <1>4, <2>1
  <2>2. CASE l > 0
    <3>1. r \in Seq(StepNames) /\ Len(r) = l /\ \A i \in 1 .. l : r[i] = w[1 + i]
      BY <1>3, <1>4, <1>5, <2>2, SubSeqProperties
    <3>2. \A i \in 1 .. Len(s) : r[i] = s[i]
      BY <1>3, <3>1
    <3> QED
      BY <3>1, <3>2, SeqEqual
  <2> QED
    BY <2>1, <2>2
<1> QED
  BY <1>1, <1>3, <1>4, <1>6

\* A thread that has done n steps of a plan, and has ended if these are all.
Done(s, c, n) ==
  \/ n = StepCount(c) /\ s = <<>>
  \/ n \in 0 .. StepCount(c) - 1 /\ s # <<>> /\ OnPlan(s, PlanOf(c), n)

\* What is left of s, of which step comes first, after it and after some more steps.
Comes(s, c, n, step) ==
  /\ step = "WriteBack" => PlanOf(c)[n + 1] = "GetEnabledStatus" /\ Done(SubSeq(s, 2, Len(s)), c, n)
  /\ step # "WriteBack" =>
       /\ step = PlanOf(c)[n + 1] /\ Done(s, c, n)
       /\ \A k \in Nat : n + k <= StepCount(c) => Done(SubSeq(s, k + 1, Len(s)), c, n + k)
       /\ step = "GetEnabledStatus" => Done(<<"WriteBack">> \o s, c, n)
       /\ n + 1 < StepCount(c) /\ PlanOf(c)[n + 2] = "GetEnabledStatus" =>
            Done(<<"WriteBack">> \o SubSeq(s, 2, Len(s)), c, n + 1)

\* A thread follows its plan.
LEMMA StepsDone ==
  ASSUME NEW c \in Courses, NEW n \in 0 .. StepCount(c) - 1, NEW s, OnPlan(s, PlanOf(c), n)
  PROVE  Comes(s, c, n, s[1])
<1> PICK p, l : p = PlanOf(c) /\ l = StepCount(c)
  OBVIOUS
<1>r. PICK r : r = Rest(p, n)
  OBVIOUS
<1>0. Listed(p, l) /\ Len(p) = l /\ l \in Nat /\ n \in Nat /\ n < l
  <2>1. Listed(p, l)
    BY PlanSteps
  <2> QED
    BY <2>1 DEF Listed
<1>1. ASSUME NEW k \in Nat, n + k <= l
      PROVE  SubSeq(r, k + 1, Len(r)) = Rest(p, n + k)
  BY <1>0, <1>1, <1>r, RestOfRest
<1>2. r \in Seq(StepNames) /\ r[1] = p[n + 1] /\ r # <<>>
  BY <1>0, <1>r, RestOfRest
<1>3. ASSUME NEW m \in Nat, m < l PROVE Rest(p, m) # <<>>
  BY <1>0, <1>3, RestOfRest
<1>4. Rest(p, l) = <<>>
  BY <1>0 DEF Rest
<1>5. ASSUME NEW m \in Nat, m <= l PROVE Done(Rest(p, m), c, m)
  <2>1. CASE m = l
    BY <1>4, <2>1 DEF Done
  <2>2. CASE m < l
    BY <1>0, <1>3, <2>2 DEF Done, OnPlan
  <2> QED
    BY <1>0, <1>5, <2>1, <2>2
<1>6. CASE s = r
  <2>1. p[n + 1] # "WriteBack"
    BY WhichStep
  <2>2. \A k \in Nat : n + k <= l => Done(SubSeq(s, k + 1, Len(s)), c, n + k)
    <3> SUFFICES ASSUME NEW k \in Nat, n + k <= l PROVE Done(SubSeq(s, k + 1, Len(s)), c, n + k)
      OBVIOUS
    <3>1. n + k \in Nat /\ SubSeq(s, k + 1, Len(s)) = Rest(p, n + k)
      BY <1>0, <1>1, <1>6, <1>r
    <3> QED
      BY <1>5, <3>1
  <2>3. ASSUME p[n + 1] = "GetEnabledStatus" PROVE Done(<<"WriteBack">> \o s, c, n)
    <3>1. PICK w : w = <<"WriteBack">> \o r
      OBVIOUS
    <3>2. w # <<>>
      BY <1>2, <3>1, WriteBackFirst
    <3>3. OnPlan(w, p, n)
      BY <1>r, <2>3, <3>1 DEF OnPlan
    <3> QED
      BY <1>6, <3>1, <3>2, <3>3 DEF Done
  <2>4. ASSUME n + 1 < l, p[n + 2] = "GetEnabledStatus" PROVE Done(<<"WriteBack">> \o SubSeq(s, 2, Len(s)), c, n + 1)
    <3>1. PICK q, w : q = Rest(p, n + 1) /\ w = <<"WriteBack">> \o q
      OBVIOUS
    <3>2. n + 1 \in Nat /\ 1 \in Nat /\ 1 + 1 = 2 /\ (n + 1) + 1 = n + 2 /\ n + 1 <= l
      BY <1>0, <2>4
    <3>3. SubSeq(s, 2, Len(s)) = q
      BY <1>1, <1>6, <3>1, <3>2
    <3>4. q \in Seq(StepNames)
      BY <1>0, <2>4, <3>1, <3>2, RestOfRest
    <3>5. w # <<>>
      BY <3>1, <3>4, WriteBackFirst
    <3>6. OnPlan(w, p, n + 1)
      BY <2>4, <3>1, <3>2 DEF OnPlan
    <3>7. n + 1 \in 0 .. l - 1
      BY <1>0, <2>4
    <3>8. Done(w, c, n + 1)
      BY <3>5, <3>6, <3>7 DEF Done
    <3> QED
      BY <3>1, <3>3, <3>8
  <2>5. Done(s, c, n)
    BY <1>0, <1>5, <1>6, <1>r
  <2> QED
    BY <1>2, <1>6, <2>1, <2>2, <2>3, <2>4, <2>5 DEF Comes
<1>7. CASE s = <<"WriteBack">> \o r /\ p[n + 1] = "GetEnabledStatus"
  <2>1. s[1] = "WriteBack" /\ SubSeq(s, 2, Len(s)) = r /\ s # <<>>
    BY <1>2, <1>7, WriteBackFirst
  <2>2. Done(r, c, n)
    BY <1>0, <1>5, <1>r
  <2> QED
    BY <1>7, <2>1, <2>2 DEF Comes
<1> QED
  BY <1>6, <1>7, <1>r DEF OnPlan

\* Steps that are passed leave a thread in its place; u is how the thread goes on.
LEMMA PassedBy ==
  ASSUME NEW c \in Courses, NEW n \in Nat, NEW m \in Nat, n <= m,
         c = "user" => m <= 8 \/ n >= 15, c = "online" => n >= 2, c = "offline" => n >= 3, c = "update" => n >= 1,
         NEW t, StandsAt(c, n, t), NEW u, u.subject = t.subject, u.dev = t.dev, u.user = t.user
  PROVE  StandsAt(c, m, u)
<1>1. CASE c = "user"
  <2>1. t.subject = "switch" /\ t.dev = Local /\ ("switch" \in failed \/ UserAt(n, t.user, t.new))
    BY <1>1 DEF StandsAt
  <2>2. "switch" \in failed \/ UserAt(m, u.user, u.new)
    <3>1. CASE m <= 8
      BY <1>1, <2>1, <3>1 DEF UserAt
    <3>2. CASE n >= 15
      BY <1>1, <2>1, <3>2 DEF UserAt
    <3> QED
      BY <1>1, <3>1, <3>2
  <2> QED
    BY <1>1, <2>1, <2>2 DEF StandsAt
<1>2. CASE c = "online"
  BY <1>2 DEF StandsAt, OnlineAt
<1>3. CASE c = "offline"
  BY <1>3 DEF StandsAt, OfflineAt
<1>4. CASE c = "update"
  BY <1>4 DEF StandsAt, UpdateAt
<1>5. CASE c \in {"wifi", "use", "plugin"}
  BY <1>5 DEF StandsAt
<1> QED
  BY <1>1, <1>2, <1>3, <1>4, <1>5 DEF Courses

\* What a thread is about is settled when it has ended.
LEMMA EndedStable ==
  ASSUME NEW c \in Courses, NEW t, StandsAt(c, StepCount(c), t)', t.subject \in Subjects
  PROVE  Stable(t.subject)'
<1>1. "switch" \notin Devices /\ "use" \notin Subjects /\ "plugin" \notin Subjects
  BY SwitchAssumption DEF Subjects
<1>2. CASE c = "user"
  BY <1>2 DEF StandsAt, StepCount, UserAt, Stable, SwitchStable
<1>3. CASE c = "wifi"
  BY <1>3 DEF StandsAt, Stable
<1>4. CASE c = "online"
  BY <1>1, <1>4 DEF StandsAt, StepCount, OnlineAt, Stable, DeviceStable, Heard
<1>5. CASE c = "offline"
  BY <1>1, <1>5 DEF StandsAt, StepCount, OfflineAt, Stable, DeviceStable, Heard, CacheRight, CacheAs
<1>6. CASE c = "update"
  BY <1>1, <1>6 DEF StandsAt, StepCount, UpdateAt, Stable, DeviceStable
<1>7. CASE c \in {"use", "plugin"}
  BY <1>1, <1>7 DEF StandsAt
<1> QED
  BY <1>2, <1>3, <1>4, <1>5, <1>6, <1>7 DEF Courses

\* What is kept about the switch, or about a device; the cache may be emptied.
SameCache(d) == d \in DOMAIN cache' => d \in DOMAIN cache /\ cache'[d] = cache[d]
SameSwitch ==
  /\ user' = user /\ setting'[user] = setting[user] /\ switchUser' = switchUser /\ shareUser' = shareUser
  /\ observed' = observed /\ profile'[Local] = profile[Local] /\ SameCache(Local)
  /\ "switch" \in failed' <=> "switch" \in failed
  /\ "value" \in failed' <=> "value" \in failed
SameDevice(d) ==
  /\ d \in online' <=> d \in online
  /\ d \in devices' <=> d \in devices
  /\ d \in subscribed' <=> d \in subscribed
  /\ d \in failed' <=> d \in failed
  /\ d \in deaf' <=> d \in deaf
  /\ d \in stale /\ d \in DOMAIN cache' => d \in stale'
  /\ profile'[d] = profile[d] /\ SameCache(d)
Same(s) == IF s = "switch" THEN SameSwitch ELSE SameDevice(s)

\* What is kept is as settled as before, and threads about it stay where they are.
LEMMA Untouched ==
  ASSUME NEW s \in Subjects, Same(s)
  PROVE  /\ Stable(s) => Stable(s)'
         /\ \A t : t.subject = s /\ ThreadFits(t) => ThreadFits(t)'
         /\ \A t : \A c \in Courses : \A n \in Nat : t.subject = s /\ StandsAt(c, n, t) => StandsAt(c, n, t)'
<1>1. "switch" \notin Devices /\ "use" \notin Subjects /\ "plugin" \notin Subjects
  BY SwitchAssumption DEF Subjects
<1>k. ASSUME NEW d, SameDevice(d) PROVE (CacheRight(d) => CacheRight(d)') /\ (Heard(d) => Heard(d)')
  BY <1>k DEF CacheRight, Heard, SameDevice, SameCache, CacheAs
<1>2. ASSUME Stable(s) PROVE Stable(s)'
  <2>1. CASE s = "switch"
    BY <1>2, <2>1 DEF Stable, SwitchStable, Same, SameSwitch, SameCache, CacheAs
  <2>2. CASE s # "switch"
    BY <1>2, <2>2, <1>k DEF Stable, DeviceStable, Same, SameDevice
  <2> QED
    BY <2>1, <2>2
<1>3. ASSUME NEW t, t.subject = s, NEW c \in Courses, NEW n \in Nat, StandsAt(c, n, t)
      PROVE  StandsAt(c, n, t)'
  <2>1. CASE c = "user"
    <3>1. SameSwitch /\ ("switch" \in failed \/ UserAt(n, t.user, t.new))
      BY <1>3, <2>1 DEF StandsAt, Same
    <3>2. "switch" \in failed' \/ UserAt(n, t.user, t.new)'
      BY <3>1 DEF UserAt, SameSwitch, SameCache, CacheAs
    <3> QED
      BY <1>3, <2>1, <3>2 DEF StandsAt
  <2>2. CASE c = "wifi"
    BY <1>3, <2>2 DEF StandsAt, SwitchStable, Same, SameSwitch, SameCache, CacheAs
  <2>3. CASE c = "online"
    BY <1>1, <1>3, <1>k, <2>3 DEF StandsAt, OnlineAt, Same, SameDevice
  <2>4. CASE c = "offline"
    BY <1>1, <1>3, <1>k, <2>4 DEF StandsAt, OfflineAt, Same, SameDevice, SameCache
  <2>5. CASE c = "update"
    BY <1>1, <1>3, <1>k, <2>5 DEF StandsAt, UpdateAt, Same, SameDevice
  <2>6. CASE c \in {"use", "plugin"}
    BY <1>1, <1>3, <2>6 DEF StandsAt
  <2> QED
    BY <2>1, <2>2, <2>3, <2>4, <2>5, <2>6 DEF Courses
<1>4. ASSUME NEW t, t.subject = s, ThreadFits(t) PROVE ThreadFits(t)'
  <2>0. PICK c \in Courses : \E n \in 0 .. StepCount(c) - 1 : OnPlan(t.todo, PlanOf(c), n) /\ StandsAt(c, n, t)
    BY <1>4 DEF ThreadFits
  <2>1. PICK n \in 0 .. StepCount(c) - 1 : OnPlan(t.todo, PlanOf(c), n) /\ StandsAt(c, n, t)
    BY <2>0
  <2>2. StandsAt(c, n, t)' /\ n \in Nat
    BY <1>3, <1>4, <2>1
  <2> QED
    BY <2>1, <2>2 DEF ThreadFits
<1> QED
  BY <1>2, <1>3, <1>4

\* Threads about nothing of this stay where they are.
LEMMA OthersFit ==
  ASSUME NEW t, t.subject \notin Subjects
  PROVE  (ThreadFits(t) => ThreadFits(t)') /\ \A c \in Courses : \A n : StandsAt(c, n, t) => StandsAt(c, n, t)'
<1>1. ASSUME NEW c \in Courses, NEW n, StandsAt(c, n, t) PROVE StandsAt(c, n, t)'
  BY <1>1 DEF StandsAt, Subjects, Courses
<1>2. ASSUME ThreadFits(t) PROVE ThreadFits(t)'
  BY <1>1, <1>2 DEF ThreadFits
<1> QED
  BY <1>1, <1>2

\* Put leaves every subject with as many threads, but for one that ends.
LEMMA PutSole ==
  ASSUME IsList(threads), Sole(threads), NEW i \in 1 .. Len(threads), NEW t, t.subject = threads[i].subject,
         NEW list, list = Put(i, t)
  PROVE  /\ Sole(list)
         /\ t.todo = <<>> /\ t.subject \in Subjects => Quiet(list, t.subject)
<1>1. PICK S : threads \in Seq(S)
  BY DEF IsList
<1> PICK l \in Nat : l = Len(threads)
  BY <1>1
<1>2. CASE t.todo = <<>>
  <2>1. Len(list) = l - 1 /\ \A k \in 1 .. l - 1 : list[k] = threads[IF k < i THEN k ELSE k + 1]
    BY <1>1, <1>2, RemoveAtPlaces DEF Put
  <2>2. ASSUME NEW k \in 1 .. l - 1
        PROVE  LET p == IF k < i THEN k ELSE k + 1 IN p \in 1 .. l /\ p # i /\ list[k] = threads[p]
    BY <2>1
  <2>3. Sole(list)
    <3> SUFFICES ASSUME NEW k \in 1 .. l - 1, NEW m \in 1 .. l - 1, list[k].subject \in Subjects,
                        list[k].subject = list[m].subject
                 PROVE  k = m
      BY <2>1 DEF Sole
    <3>1. PICK p, q : p = (IF k < i THEN k ELSE k + 1) /\ q = (IF m < i THEN m ELSE m + 1)
      OBVIOUS
    <3>2. p \in 1 .. l /\ q \in 1 .. l /\ list[k] = threads[p] /\ list[m] = threads[q]
      BY <2>2, <3>1
    <3>3. p = q
      BY <3>2 DEF Sole
    <3> QED
      BY <3>1, <3>3
  <2>4. ASSUME t.subject \in Subjects PROVE Quiet(list, t.subject)
    <3> SUFFICES ASSUME NEW k \in 1 .. l - 1, list[k].subject = t.subject PROVE FALSE
      BY <2>1 DEF Quiet
    <3>1. PICK p : p \in 1 .. l /\ p # i /\ list[k] = threads[p]
      BY <2>2
    <3> QED
      BY <2>4, <3>1 DEF Sole
  <2> QED
    BY <2>3, <2>4
<1>3. CASE t.todo # <<>>
  <2> PICK T : T = S \cup {t}
    OBVIOUS
  <2>0. list = [threads EXCEPT ![i] = t] /\ t \in T
    BY <1>3 DEF Put
  <2>1. threads \in Seq(T)
    BY <1>1
  <2>2. Len(list) = l /\ list[i] = t /\ \A k \in 1 .. l : k # i => list[k] = threads[k]
    BY <2>0, <2>1, ExceptSeq
  <2>3. \A k \in 1 .. l : list[k].subject = threads[k].subject
    BY <2>2
  <2> QED
    BY <1>3, <2>2, <2>3 DEF Sole
<1> QED
  BY <1>2, <1>3

\* Thread i goes on as t, and nothing else is touched that a thread is about.
LEMMA Moved ==
  ASSUME Fits(threads), NEW i \in 1 .. Len(threads), NEW t, t.subject = threads[i].subject,
         NEW c \in Courses, NEW n, Done(t.todo, c, n), StandsAt(c, n, t)',
         \A k \in 1 .. Len(threads) : k # i => \A x : x = threads[k] => ThreadFits(x)',
         \A s \in Subjects : s # t.subject /\ Quiet(threads, s) => Stable(s)',
         NEW list, list = Put(i, t)
  PROVE  Fits(list)'
<1>0. IsList(threads) /\ Sole(threads)
  BY DEF Fits
<1>1. Placed(list, i, t)
  BY <1>0, PutPlaces
<1>2. Sole(list) /\ (t.todo = <<>> /\ t.subject \in Subjects => Quiet(list, t.subject))
  BY <1>0, PutSole
<1>3. t.todo # <<>> => ThreadFits(t)'
  BY DEF Done, ThreadFits
<1>4. \A m \in 1 .. Len(list) : ThreadFits(list[m])'
  <2> SUFFICES ASSUME NEW m \in 1 .. Len(list) PROVE ThreadFits(list[m])'
    OBVIOUS
  <2>1. CASE list[m] = t /\ t.todo # <<>>
    BY <1>3, <2>1
  <2>2. CASE \E k \in 1 .. Len(threads) : k # i /\ list[m] = threads[k]
    BY <2>2
  <2> QED
    BY <1>1, <2>1, <2>2 DEF Placed
<1>5. \A s \in Subjects : Quiet(list, s) => Stable(s)'
  <2> SUFFICES ASSUME NEW s \in Subjects, Quiet(list, s) PROVE Stable(s)'
    OBVIOUS
  <2>1. CASE s # t.subject
    <3>1. Quiet(threads, s)
      <4> SUFFICES ASSUME NEW k \in 1 .. Len(threads), threads[k].subject = s PROVE FALSE
        BY DEF Quiet
      <4>1. k # i
        BY <2>1
      <4>2. PICK m \in 1 .. Len(list) : list[m] = threads[k]
        BY <1>1, <4>1 DEF Placed
      <4> QED
        BY <4>2 DEF Quiet
    <3> QED
      BY <2>1, <3>1
  <2>2. CASE s = t.subject
    <3>1. t.todo = <<>>
      BY <1>1, <2>2 DEF Placed, Quiet
    <3>2. StandsAt(c, StepCount(c), t)'
      BY <3>1 DEF Done
    <3> QED
      BY <2>2, <3>2, EndedStable
  <2> QED
    BY <2>1, <2>2
<1>6. IsList(list)
  BY <1>1 DEF Placed
<1> QED
  BY <1>2, <1>4, <1>5, <1>6 DEF Fits, Sole, Quiet, IsList

\* A thread is started, about something no thread is about or nobody cares for.
LEMMA Added ==
  ASSUME NEW s, NEW t, FitsExcept(s, t.subject)', t.subject \in Subjects => Quiet(s, t.subject),
         NEW c \in Courses, NEW n, Done(t.todo, c, n), n = 0 \/ n \in 1 .. StepCount(c) - 1, StandsAt(c, n, t)',
         NEW list, list = Append(s, t)
  PROVE  Fits(list)'
<1>0. IsList(s) /\ Sole(s) /\ \A k \in 1 .. Len(s) : ThreadFits(s[k])'
  BY DEF FitsExcept, IsList, Sole
<1>1. Extended(list, s, t)
  BY <1>0, AppendPlaces
<1>2. ThreadFits(t)'
  BY DEF Done, ThreadFits, StepCount, Courses
<1>3. Sole(list)
  <2>1. PICK S : s \in Seq(S)
    BY <1>0 DEF IsList
  <2> PICK l \in Nat : l = Len(s)
    BY <2>1
  <2>2. PICK T : T = S \cup {t}
    OBVIOUS
  <2>3. s \in Seq(T) /\ t \in T
    BY <2>1, <2>2
  <2>4. Len(list) = l + 1 /\ list[l + 1] = t /\ \A k \in 1 .. l : list[k] = s[k]
    BY <2>3, AppendProperties
  <2> SUFFICES ASSUME NEW k \in 1 .. l + 1, NEW m \in 1 .. l + 1, list[k].subject \in Subjects,
                      list[k].subject = list[m].subject
               PROVE  k = m
    BY <2>4 DEF Sole
  <2>5. (k \in 1 .. l \/ k = l + 1) /\ (m \in 1 .. l \/ m = l + 1)
    OBVIOUS
  <2>6. ASSUME NEW p \in 1 .. l, s[p].subject = t.subject, t.subject \in Subjects PROVE FALSE
    BY <2>6 DEF Quiet
  <2>7. CASE k \in 1 .. l /\ m \in 1 .. l
    BY <1>0, <2>4, <2>7 DEF Sole
  <2>8. CASE ~(k \in 1 .. l /\ m \in 1 .. l)
    BY <2>4, <2>5, <2>6, <2>8
  <2> QED
    BY <2>7, <2>8
<1>4. \A m \in 1 .. Len(list) : ThreadFits(list[m])'
  BY <1>0, <1>1, <1>2 DEF Extended
<1>5. \A r \in Subjects : Quiet(list, r) => Stable(r)'
  <2> SUFFICES ASSUME NEW r \in Subjects, Quiet(list, r) PROVE Stable(r)'
    OBVIOUS
  <2>1. r # t.subject /\ Quiet(s, r)
    BY <1>1 DEF Extended, Quiet
  <2> QED
    BY <2>1 DEF FitsExcept, Quiet
<1>6. IsList(list)
  BY <1>1 DEF Extended
<1> QED
  BY <1>3, <1>4, <1>5, <1>6 DEF Fits, Sole, Quiet, IsList

\* Thread i goes on as t, and has touched only what it is about.
LEMMA Advances ==
  ASSUME Fits(threads), NEW i \in 1 .. Len(threads), NEW t, t.subject = threads[i].subject,
         NEW c \in Courses, NEW n, Done(t.todo, c, n), StandsAt(c, n, t)',
         \A s \in Subjects : s # t.subject => Same(s),
         NEW list, list = Put(i, t)
  PROVE  Fits(list)'
<1>1. ASSUME NEW k \in 1 .. Len(threads), k # i, NEW x, x = threads[k] PROVE ThreadFits(x)'
  <2>1. ThreadFits(x)
    BY <1>1 DEF Fits
  <2>2. CASE x.subject \notin Subjects
    BY <2>1, <2>2, OthersFit
  <2>3. CASE x.subject \in Subjects
    <3>1. x.subject # t.subject
      BY <1>1, <2>3 DEF Fits, Sole
    <3> QED
      BY <2>1, <2>3, <3>1, Untouched
  <2> QED
    BY <2>2, <2>3
<1>2. ASSUME NEW s \in Subjects, s # t.subject, Quiet(threads, s) PROVE Stable(s)'
  <2>1. Stable(s)
    BY <1>2 DEF Fits
  <2> QED
    BY <1>2, <2>1, Untouched
<1> QED
  BY <1>1, <1>2, Moved

\* Where a thread is that is at a step.
LEMMA WhereAt ==
  ASSUME SwitchTypeOK, Fits(threads), NEW i \in DOMAIN threads, NEW step, AtStep(i, step),
         NEW s, s = threads[i].todo
  PROVE  \E c \in Courses : \E n \in 0 .. StepCount(c) - 1 :
           StandsAt(c, n, threads[i]) /\ Comes(s, c, n, step)
<1>1. i \in 1 .. Len(threads) /\ s[1] = step
  BY ThreadAt
<1>2. PICK c \in Courses : \E n \in 0 .. StepCount(c) - 1 : OnPlan(s, PlanOf(c), n) /\ StandsAt(c, n, threads[i])
  BY <1>1 DEF Fits, ThreadFits
<1>3. PICK n \in 0 .. StepCount(c) - 1 : OnPlan(s, PlanOf(c), n) /\ StandsAt(c, n, threads[i])
  BY <1>2
<1>4. Comes(s, c, n, step)
  BY <1>1, <1>3, StepsDone
<1> QED
  BY <1>3, <1>4

\* A thread that has changed only what it has to do, or what it has seen.
Akin(u, t) == u.subject = t.subject /\ u.dev = t.dev /\ u.user = t.user

\* A step that touches nothing of this: what is left for the thread after it.
LEMMA NeutralStep ==
  ASSUME SwitchTypeOK, Fits(threads), NEW i \in DOMAIN threads, NEW step \in Neutral, AtStep(i, step),
         \A r \in Subjects : Same(r), NEW s, s = threads[i].todo, NEW u, Akin(u, threads[i]),
         \/ u.todo \in {s, SubSeq(s, 2, Len(s))}
         \/ step = "Compare" /\ u.todo = SubSeq(s, 3, Len(s))
         \/ step = "IsOn" /\ u.todo = SubSeq(s, 5, Len(s))
         \/ step = "GetDeviceCollabSwitch" /\ u.todo = <<>>
         \/ step = "GetEnabledStatus" /\ u.todo = <<"WriteBack">> \o s
         \/ step = "GetDeviceStatus" /\ u.todo = <<"WriteBack">> \o SubSeq(s, 2, Len(s)),
         NEW list, list = Put(i, u)
  PROVE  Fits(list)'
<1>0. i \in 1 .. Len(threads) /\ step # "WriteBack"
  BY ThreadAt DEF Neutral
<1>1. PICK c \in Courses : \E n \in 0 .. StepCount(c) - 1 : StandsAt(c, n, threads[i]) /\ Comes(s, c, n, step)
  BY WhereAt
<1>t. PICK n \in 0 .. StepCount(c) - 1 : StandsAt(c, n, threads[i]) /\ Comes(s, c, n, step)
  BY <1>1
<1>2. /\ StandsAt(c, n, threads[i]) /\ step = PlanOf(c)[n + 1] /\ Done(s, c, n)
      /\ \A k \in Nat : n + k <= StepCount(c) => Done(SubSeq(s, k + 1, Len(s)), c, n + k)
      /\ step = "GetEnabledStatus" => Done(<<"WriteBack">> \o s, c, n)
      /\ n + 1 < StepCount(c) /\ PlanOf(c)[n + 2] = "GetEnabledStatus" =>
           Done(<<"WriteBack">> \o SubSeq(s, 2, Len(s)), c, n + 1)
  BY <1>0, <1>t DEF Comes
<1>3. /\ c = "user" => n <= 6 \/ n >= 15
      /\ c = "online" => n >= 2
      /\ c = "offline" => n >= 3
      /\ c = "update" => n >= 1
      /\ step = "Compare" => n + 2 <= StepCount(c) /\ n # 5 /\ n # 6
      /\ step = "IsOn" => n + 4 <= StepCount(c) /\ n <= 2
      /\ step = "GetDeviceStatus" => n + 1 < StepCount(c) /\ PlanOf(c)[n + 2] = "GetEnabledStatus"
      /\ step = "GetDeviceCollabSwitch" => c = "wifi"
      /\ StepCount(c) \in Nat
  <2>1. StepCount(c) \in Nat
    BY DEF StepCount, Courses
  <2> QED
    BY <1>2, <2>1, WhichStep
<1>4. PICK m \in Nat : n <= m /\ m <= StepCount(c) /\ Done(u.todo, c, m) /\ (c = "user" => m <= 8 \/ n >= 15)
  <2>1. CASE u.todo = s
    BY <1>2, <1>3, <2>1
  <2>2. CASE u.todo = SubSeq(s, 2, Len(s))
    <3>1. n + 1 \in Nat /\ n + 1 <= StepCount(c) /\ 1 \in Nat /\ 1 + 1 = 2
      BY <1>3
    <3>2. Done(u.todo, c, n + 1)
      BY <1>2, <2>2, <3>1
    <3> QED
      BY <1>3, <3>1, <3>2
  <2>3. CASE step = "Compare" /\ u.todo = SubSeq(s, 3, Len(s))
    <3>1. n + 2 \in Nat /\ n + 2 <= StepCount(c) /\ 2 \in Nat /\ 2 + 1 = 3
      BY <1>3, <2>3
    <3>2. Done(u.todo, c, n + 2)
      BY <1>2, <2>3, <3>1
    <3> QED
      BY <1>3, <2>3, <3>1, <3>2
  <2>4. CASE step = "IsOn" /\ u.todo = SubSeq(s, 5, Len(s))
    <3>1. n + 4 \in Nat /\ n + 4 <= StepCount(c) /\ 4 \in Nat /\ 4 + 1 = 5
      BY <1>3, <2>4
    <3>2. Done(u.todo, c, n + 4)
      BY <1>2, <2>4, <3>1
    <3> QED
      BY <1>3, <2>4, <3>1, <3>2
  <2>5. CASE step = "GetDeviceCollabSwitch" /\ u.todo = <<>>
    <3>1. Done(u.todo, c, StepCount(c))
      BY <2>5 DEF Done
    <3> QED
      BY <1>3, <2>5, <3>1
  <2>6. CASE step = "GetEnabledStatus" /\ u.todo = <<"WriteBack">> \o s
    BY <1>2, <1>3, <2>6
  <2>7. CASE step = "GetDeviceStatus" /\ u.todo = <<"WriteBack">> \o SubSeq(s, 2, Len(s))
    <3>1. Done(u.todo, c, n + 1)
      BY <1>2, <1>3, <2>7
    <3> QED
      BY <1>3, <3>1
  <2> QED
    BY <2>1, <2>2, <2>3, <2>4, <2>5, <2>6, <2>7
<1>5. StandsAt(c, m, u)
  BY <1>2, <1>3, <1>4, PassedBy DEF Akin
<1>6. StandsAt(c, m, u)'
  BY <1>5, Untouched, OthersFit
<1> QED
  BY <1>0, <1>4, <1>6, Advances DEF Akin

\* One more is to be heard of,
LEMMA EventsGrow ==
  ASSUME NEW s \in Seq({"add", "remove"}), NEW e \in {"add", "remove"}, NEW r, r = Append(s, e)
  PROVE  /\ r \in Seq({"add", "remove"}) /\ r # <<>> /\ r[Len(r)] = e
         /\ (e = "remove" \/ \E k \in 1 .. Len(s) : s[k] = "remove") => \E k \in 1 .. Len(r) : r[k] = "remove"
<1> PICK l \in Nat : l = Len(s)
  OBVIOUS
<1>1. /\ r \in Seq({"add", "remove"}) /\ Len(r) = l + 1 /\ r[l + 1] = e
      /\ \A k \in 1 .. l : r[k] = s[k]
  BY AppendProperties
<1>2. r # <<>> /\ r[Len(r)] = e
  BY <1>1
<1>3. ASSUME NEW k \in 1 .. l, s[k] = "remove" PROVE \E m \in 1 .. Len(r) : r[m] = "remove"
  <2>1. k \in 1 .. Len(r) /\ r[k] = "remove"
    BY <1>1, <1>3
  <2> QED
    BY <2>1
<1>4. ASSUME e = "remove" PROVE \E m \in 1 .. Len(r) : r[m] = "remove"
  <2>1. l + 1 \in 1 .. Len(r) /\ r[l + 1] = "remove"
    BY <1>1, <1>4
  <2> QED
    BY <2>1
<1> QED
  BY <1>1, <1>2, <1>3, <1>4

\* and one less: what is left ends as before, unless the first was the last.
LEMMA EventsShrink ==
  ASSUME NEW s \in Seq({"add", "remove"}), s # <<>>, NEW r, r = Tail(s)
  PROVE  /\ r \in Seq({"add", "remove"})
         /\ r # <<>> => r[Len(r)] = s[Len(s)]
         /\ r = <<>> => s[Len(s)] = Head(s)
         /\ Head(s) = "add" /\ (\E k \in 1 .. Len(s) : s[k] = "remove") => \E k \in 1 .. Len(r) : r[k] = "remove"
<1> PICK l \in Nat : l = Len(s)
  OBVIOUS
<1>1. l >= 1 /\ Head(s) = s[1]
  OBVIOUS
<1>2. r \in Seq({"add", "remove"}) /\ Len(r) = l - 1 /\ \A k \in 1 .. l - 1 : r[k] = s[k + 1]
  BY <1>1, HeadTailProperties
<1>3. ASSUME r # <<>> PROVE r[Len(r)] = s[l]
  <2>1. l - 1 # 0
    BY <1>2, <1>3
  <2> QED
    BY <1>1, <1>2, <2>1
<1>4. ASSUME r = <<>> PROVE s[l] = Head(s)
  <2>1. l - 1 = 0
    BY <1>2, <1>4
  <2> QED
    BY <1>1, <2>1
<1>5. ASSUME Head(s) = "add", NEW k \in 1 .. l, s[k] = "remove" PROVE \E m \in 1 .. Len(r) : r[m] = "remove"
  <2>1. k # 1
    BY <1>1, <1>5
  <2>2. k - 1 \in 1 .. l - 1 /\ (k - 1) + 1 = k
    BY <2>1
  <2>3. r[k - 1] = "remove" /\ k - 1 \in 1 .. Len(r)
    BY <1>2, <1>5, <2>2
  <2> QED
    BY <2>3
<1> QED
  BY <1>2, <1>3, <1>4, <1>5

\* A call of the device profile service.
LEMMA CallKeeps ==
  ASSUME DpHeard, NEW ok, CallDp(ok), proxy'
  PROVE  /\ DpHeard' /\ ok \in BOOLEAN
         /\ dpUp' /\ saEvents' = <<>> => dpUp /\ saEvents = <<>> /\ dpProxy # "dead"
<1>1. PICK got \in BOOLEAN : GetDeviceProfileService(got) /\ ok = (got /\ dpProxy # "dead")
  BY DEF CallDp
<1>2. dpProxy = "dead" => saEvents # <<>>
  BY DEF DpHeard
<1>3. CASE dpUp' = dpUp /\ saEvents' = saEvents /\ dpProxy' = dpProxy
  BY <1>1, <1>2, <1>3 DEF DpHeard
<1>4. CASE dpUp' = dpUp /\ saEvents' = saEvents /\ dpProxy' = "live"
  BY <1>1, <1>2, <1>4 DEF DpHeard
<1>5. CASE dpProxy' = "live" /\ dpUp' = TRUE /\ saEvents' = Append(saEvents, "add")
  <2>1. saEvents' \in Seq({"add", "remove"}) /\ saEvents' # <<>> /\ saEvents'[Len(saEvents')] = "add"
    BY <1>5, EventsGrow DEF DpHeard
  <2> QED
    BY <1>1, <1>5, <2>1 DEF DpHeard
<1> QED
  BY <1>1, <1>3, <1>4, <1>5 DEF GetDeviceProfileService, LoadDeviceProfileService, LoadSystemAbilitySuccess, LoadSystemAbilityFail

\* What is known of subscriptions and of the device profile service, kept by everything that
\* leaves it alone,
LEMMA HeardStays ==
  ASSUME DpHeard, Subscriptions, UNCHANGED <<dpVars, subscriptions, proxy, deaf>>
  PROVE  DpHeard' /\ Subscriptions'
  BY DEF DpHeard, Subscriptions, dpVars, subscriptions

\* by a call of the device profile service,
LEMMA HeardCall ==
  ASSUME DpHeard, Subscriptions, NEW ok, CallDp(ok), proxy', UNCHANGED <<dpSubs, subscriptions, deaf>>
  PROVE  DpHeard' /\ Subscriptions'
<1>1. DpHeard' /\ (dpUp' /\ saEvents' = <<>> => dpUp /\ saEvents = <<>>)
  BY CallKeeps
<1> QED
  BY <1>1 DEF Subscriptions, subscriptions

\* by subscribing,
LEMMA HeardSubscribe ==
  ASSUME DpHeard, Subscriptions, NEW i, SubscribeProfileEvent(i)
  PROVE  DpHeard' /\ Subscriptions'
<1> PICK d : d = threads[i].dev
  OBVIOUS
<1>1. proxy' /\ callback' /\ AdapterSubscribe(d) /\ subscribed' = subscribed \cup {d}
  BY DEF SubscribeProfileEvent, UseProxy, RegisterUpdateCallback
<1>2. infoCache' = infoCache \cup {d}
  BY <1>1 DEF AdapterSubscribe
<1>3. CASE d \in infoCache
  <2>1. UNCHANGED <<dpVars, infos, deaf>>
    BY <1>1, <1>3 DEF AdapterSubscribe
  <2> QED
    BY <1>1, <1>2, <1>3, <2>1 DEF DpHeard, Subscriptions, dpVars
<1>4. CASE d \notin infoCache
  <2>1. PICK ok \in BOOLEAN :
          SubscribeDeviceProfile(d, ok) /\ deaf' = IF ok \/ dpProxy = "dead" THEN deaf ELSE deaf \cup {d}
    BY <1>1, <1>4 DEF AdapterSubscribe
  <2>2. CallDp(ok)
    BY <2>1 DEF SubscribeDeviceProfile
  <2>3. /\ infos' = IF ok \/ dpProxy = "dead" THEN infos \cup {d} ELSE infos
        /\ dpSubs' = IF ok THEN dpSubs \cup {d} ELSE dpSubs
    BY <2>1 DEF SubscribeDeviceProfile
  <2>4. DpHeard' /\ (dpUp' /\ saEvents' = <<>> => dpUp /\ saEvents = <<>> /\ dpProxy # "dead")
    BY <1>1, <2>2, CallKeeps
  <2> QED
    BY <1>1, <1>2, <2>1, <2>3, <2>4 DEF Subscriptions
<1> QED
  BY <1>3, <1>4

\* by ending a subscription,
LEMMA HeardUnSubscribe ==
  ASSUME DpHeard, Subscriptions, NEW i, UnSubscribeProfileEvent(i)
  PROVE  DpHeard' /\ Subscriptions'
<1> PICK d : d = threads[i].dev
  OBVIOUS
<1>1. proxy' /\ callback' = callback /\ AdapterUnSubscribe(d) /\ subscribed' = subscribed \ {d}
  BY DEF UnSubscribeProfileEvent, UseProxy
<1>3. CASE d \notin infoCache
  <2>1. UNCHANGED <<dpVars, infos, infoCache, deaf>>
    BY <1>1, <1>3 DEF AdapterUnSubscribe
  <2> QED
    BY <1>1, <1>3, <2>1 DEF DpHeard, Subscriptions, dpVars
<1>4. CASE d \in infoCache
  <2>1. PICK ok \in BOOLEAN : /\ UnSubscribeDeviceProfile(d, ok)
                              /\ infoCache' = IF ok THEN infoCache \ {d} ELSE infoCache
                              /\ deaf' = IF ok THEN deaf \ {d} ELSE deaf \cup {d}
    BY <1>1, <1>4 DEF AdapterUnSubscribe
  <2>2. CallDp(ok)
    BY <2>1 DEF UnSubscribeDeviceProfile
  <2>3. /\ infos' = IF ok \/ dpProxy = "dead" THEN infos \ {d} ELSE infos
        /\ dpSubs' = IF ok THEN dpSubs \ {d} ELSE dpSubs
    BY <2>1 DEF UnSubscribeDeviceProfile
  <2>4. DpHeard' /\ (dpUp' /\ saEvents' = <<>> => dpUp /\ saEvents = <<>>)
    BY <1>1, <2>2, CallKeeps
  <2> QED
    BY <1>1, <2>1, <2>3, <2>4 DEF Subscriptions
<1> QED
  BY <1>3, <1>4

\* and by what happens to the proxy and to the device profile service.
LEMMA HeardEvents ==
  ASSUME DpHeard, Subscriptions,
         PostDelayReleaseProxy \/ ClearDeviceProfileService \/ SendSubscribeInfos \/ DpDies \/ DpStarts
  PROVE  DpHeard' /\ Subscriptions'
<1>0. saEvents \in Seq({"add", "remove"})
  BY DEF DpHeard
<1>1. CASE PostDelayReleaseProxy
  <2>0. dpUp' = dpUp /\ dpSubs' = dpSubs /\ saEvents' = saEvents /\ subscribed' = subscribed /\ deaf' = deaf
    BY <1>1 DEF PostDelayReleaseProxy, excuses
  <2>1. CASE proxy /\ subscribed = {}
    <3>1. /\ ~proxy' /\ dpProxy' = "none"
          /\ (infoCache' = {} /\ infos' = {}) \/ (infoCache' = infoCache /\ infos' = infos)
      BY <1>1, <2>1 DEF PostDelayReleaseProxy, ReleaseProxy
    <3> QED
      BY <2>0, <2>1, <3>1 DEF DpHeard, Subscriptions
  <2>2. CASE ~(proxy /\ subscribed = {})
    <3>1. UNCHANGED <<proxy, callback, dpProxy, infoCache, infos>>
      BY <1>1, <2>2 DEF PostDelayReleaseProxy
    <3> QED
      BY <2>0, <3>1 DEF DpHeard, Subscriptions
  <2> QED
    BY <2>1, <2>2
<1>2. CASE ClearDeviceProfileService
  <2>0. /\ saEvents # <<>> /\ Head(saEvents) = "remove" /\ saEvents' = Tail(saEvents)
        /\ dpUp' = dpUp /\ dpSubs' = dpSubs /\ UNCHANGED subscriptions /\ proxy' = proxy /\ deaf' = deaf
    BY <1>2 DEF ClearDeviceProfileService
  <2>1. dpProxy' = "none"
    BY <1>2 DEF ClearDeviceProfileService, DpHeard
  <2>2. /\ saEvents' \in Seq({"add", "remove"})
        /\ saEvents' # <<>> => saEvents'[Len(saEvents')] = saEvents[Len(saEvents)]
        /\ saEvents' = <<>> => saEvents[Len(saEvents)] = "remove"
    BY <1>0, <2>0, EventsShrink
  <2>3. saEvents' = <<>> => ~dpUp
    BY <2>0, <2>2 DEF DpHeard
  <2> QED
    BY <2>0, <2>1, <2>2, <2>3 DEF DpHeard, Subscriptions, subscriptions
<1>3. CASE SendSubscribeInfos
  <2>0. /\ saEvents # <<>> /\ Head(saEvents) = "add" /\ saEvents' = Tail(saEvents)
        /\ dpUp' = dpUp /\ UNCHANGED subscriptions /\ deaf' = deaf
    BY <1>3 DEF SendSubscribeInfos, excuses
  <2>2. /\ saEvents' \in Seq({"add", "remove"})
        /\ saEvents' # <<>> => saEvents'[Len(saEvents')] = saEvents[Len(saEvents)]
        /\ (\E k \in 1 .. Len(saEvents) : saEvents[k] = "remove") => \E k \in 1 .. Len(saEvents') : saEvents'[k] = "remove"
    BY <1>0, <2>0, EventsShrink
  <2>3. saEvents' = <<>> => dpProxy # "dead"
    BY <2>2 DEF DpHeard
  <2>4. CASE subscribed = {}
    <3>1. UNCHANGED <<proxy, dpProxy, dpSubs>>
      BY <1>3, <2>4 DEF SendSubscribeInfos
    <3> QED
      BY <2>0, <2>2, <2>4, <3>1 DEF DpHeard, Subscriptions, subscriptions
  <2>6. CASE subscribed # {} /\ infoCache = {}
    <3>1. proxy' /\ UNCHANGED <<dpProxy, dpSubs>>
      BY <1>3, <2>6 DEF SendSubscribeInfos
    <3>2. subscribed \ deaf = {}
      BY <2>6 DEF Subscriptions
    <3> QED
      BY <2>0, <2>2, <3>1, <3>2 DEF DpHeard, Subscriptions, subscriptions
  <2>5. CASE subscribed # {} /\ infoCache # {}
    <3>1. proxy' /\ ResendInfos
      BY <1>3, <2>5 DEF SendSubscribeInfos
    <3>2. /\ dpProxy' = IF dpProxy = "none" /\ dpUp THEN "live" ELSE dpProxy
          /\ dpSubs' = IF dpProxy' = "live" THEN dpSubs \cup infos ELSE dpSubs
      BY <3>1 DEF ResendInfos
    <3>3. DpHeard'
      BY <2>0, <2>2, <3>1, <3>2 DEF DpHeard
    <3>4. dpUp /\ saEvents' = <<>> => dpProxy' = "live"
      BY <2>3, <3>2 DEF DpHeard
    <3> QED
      BY <2>0, <3>2, <3>3, <3>4 DEF Subscriptions, subscriptions
  <2> QED
    BY <2>4, <2>5, <2>6
<1>4. CASE DpDies
  <2>0. /\ dpUp' = FALSE /\ dpSubs' = {} /\ saEvents' = Append(saEvents, "remove")
        /\ dpProxy' = IF dpProxy = "live" THEN "dead" ELSE dpProxy
        /\ UNCHANGED subscriptions /\ proxy' = proxy /\ deaf' = deaf
    BY <1>4 DEF DpDies, Happens, adapter
  <2>1. /\ saEvents' \in Seq({"add", "remove"}) /\ saEvents'[Len(saEvents')] = "remove"
        /\ \E k \in 1 .. Len(saEvents') : saEvents'[k] = "remove"
    BY <1>0, <2>0, EventsGrow
  <2> QED
    BY <2>0, <2>1 DEF DpHeard, Subscriptions, subscriptions
<1>5. CASE DpStarts
  <2>0. /\ dpUp' = TRUE /\ dpSubs' = dpSubs /\ saEvents' = Append(saEvents, "add") /\ dpProxy' = dpProxy
        /\ UNCHANGED subscriptions /\ proxy' = proxy /\ deaf' = deaf
    BY <1>5 DEF DpStarts, adapter, excuses
  <2>1. /\ saEvents' \in Seq({"add", "remove"}) /\ saEvents' # <<>> /\ saEvents'[Len(saEvents')] = "add"
        /\ (\E k \in 1 .. Len(saEvents) : saEvents[k] = "remove") => \E k \in 1 .. Len(saEvents') : saEvents'[k] = "remove"
    BY <1>0, <2>0, EventsGrow
  <2> QED
    BY <2>0, <2>1 DEF DpHeard, Subscriptions, subscriptions
<1> QED
  BY <1>1, <1>2, <1>3, <1>4, <1>5

\* All of what threads are about is untouched.
LEMMA AllSame ==
  ASSUME UNCHANGED <<outside, devices, cache, subscribed, switchVars, excuses>>
  PROVE  \A s \in Subjects : Same(s)
  BY DEF Same, SameSwitch, SameDevice, SameCache, outside, switchVars, excuses

\* A thread that goes on k steps later, and one that has ended.
LEMMA SkipAkin ==
  ASSUME NEW x, ThreadShape(x), NEW k, NEW u, u = Skip(x, k)
  PROVE  Akin(u, x) /\ u.new = x.new /\ u.todo = SubSeq(x.todo, k + 1, Len(x.todo))
<1>1. u = [x EXCEPT !.todo = SubSeq(x.todo, k + 1, Len(x.todo))]
  BY DEF Skip
<1> QED
  BY <1>1 DEF Akin, ThreadShape, ThreadFields

\* A call of GetDeviceStatus that asks the device profile service.
LEMMA FetchFits ==
  ASSUME SwitchTypeOK, StatusParts, NEW i \in DOMAIN threads, NEW step \in Neutral, AtStep(i, step),
         NEW s, s = threads[i].todo, NEW d, NEW x, ThreadShape(x), Akin(x, threads[i]),
         \/ step = "GetEnabledStatus" /\ x.todo = s
         \/ step = "GetDeviceStatus" /\ x.todo = SubSeq(s, 2, Len(s)),
         NEW without, Akin(without, threads[i]), without.todo \in {s, SubSeq(s, 2, Len(s))},
         Fetch(i, d, x, without)
  PROVE  StatusParts'
<1>1. PICK ok : CallDp(ok)
  BY DEF Fetch, GetCharacteristicProfile
<1>2. /\ proxy' /\ UNCHANGED <<dpSubs, subscriptions, deaf>>
      /\ UNCHANGED <<outside, devices, cache, subscribed, switchVars, excuses>>
  BY DEF Fetch, UseProxy, subscriptions, excuses
<1>3. DpHeard' /\ Subscriptions'
  BY <1>1, <1>2, HeardCall DEF StatusParts
<1>4. \A r \in Subjects : Same(r)
  BY <1>2, AllSame
<1>5. OutsideOK'
  BY <1>2 DEF StatusParts, OutsideOK, outside
<1>6. PICK asked : asked = [x EXCEPT !.of = d, !.val = profile[d], !.held = @ + 1, !.todo = <<"WriteBack">> \o @]
  OBVIOUS
<1>7. threads' = Put(i, asked) \/ threads' = Put(i, without)
  BY <1>6 DEF Fetch
<1>8. Akin(asked, threads[i]) /\ asked.todo = <<"WriteBack">> \o x.todo
  BY <1>6 DEF ThreadShape, ThreadFields, Akin
<1>9. PICK list : list = threads'
  OBVIOUS
<1>10. CASE list = Put(i, asked)
  <2>1. Fits(list)'
    BY <1>4, <1>8, <1>10, NeutralStep DEF StatusParts
  <2> QED
    BY <1>3, <1>5, <1>9, <2>1 DEF StatusParts
<1>11. CASE list = Put(i, without)
  <2>1. Fits(list)'
    BY <1>4, <1>11, NeutralStep DEF StatusParts
  <2> QED
    BY <1>3, <1>5, <1>9, <2>1 DEF StatusParts
<1> QED
  BY <1>7, <1>9, <1>10, <1>11

\* A step that changes nothing but the thread and the plugin.
LEMMA QuietStep ==
  ASSUME SwitchTypeOK, StatusParts, NEW i \in DOMAIN threads, NEW step \in Neutral, AtStep(i, step),
         NEW s, s = threads[i].todo, NEW u, Akin(u, threads[i]),
         \/ u.todo \in {s, SubSeq(s, 2, Len(s))}
         \/ step = "Compare" /\ u.todo = SubSeq(s, 3, Len(s))
         \/ step = "IsOn" /\ u.todo = SubSeq(s, 5, Len(s))
         \/ step = "GetDeviceCollabSwitch" /\ u.todo = <<>>,
         UNCHANGED <<outside, dpVars, devices, cache, subscriptions, adapter, switchVars, excuses>>,
         NEW list, list = Put(i, u)
  PROVE  OutsideOK' /\ DpHeard' /\ Subscriptions' /\ Fits(list)'
<1>1. UNCHANGED <<outside, devices, cache, subscribed, switchVars, excuses>> /\ UNCHANGED <<dpVars, subscriptions, proxy, deaf>>
  BY DEF subscriptions, adapter, excuses
<1>2. DpHeard' /\ Subscriptions'
  BY <1>1, HeardStays DEF StatusParts
<1>3. OutsideOK'
  BY <1>1 DEF StatusParts, OutsideOK, outside
<1>4. \A r \in Subjects : Same(r)
  BY <1>1, AllSame
<1>5. Fits(list)'
  BY <1>4, NeutralStep DEF StatusParts
<1> QED
  BY <1>2, <1>3, <1>5

\* The steps that touch nothing that threads are about.
LEMMA NeutralActions ==
  ASSUME SwitchTypeOK, StatusParts, inOrder', NEW i \in DOMAIN threads,
         \/ GetEnabledStatus(i) \/ Compare(i) \/ Store(i) \/ EnterIsOn(i) \/ Load(i)
         \/ OnConfigChangeInner(i) \/ OffUnresolved(i) \/ GetClipPlugin(i) \/ Enter(i)
         \/ GetDeviceCollabSwitch(i) \/ GetDeviceStatus(i)
  PROVE  StatusParts'
<1>0. PICK x, s : x = threads[i] /\ s = threads[i].todo
  OBVIOUS
<1>t. ASSUME NEW step, AtStep(i, step) PROVE ThreadShape(x) /\ x.todo = s
  BY <1>0, <1>t, ThreadAt DEF ThreadOK
<1>a. Akin(x, threads[i])
  BY <1>0 DEF Akin
<1>c. ASSUME NEW step \in Neutral, AtStep(i, step), NEW u, Akin(u, x),
             \/ u.todo \in {s, SubSeq(s, 2, Len(s))}
             \/ step = "Compare" /\ u.todo = SubSeq(s, 3, Len(s))
             \/ step = "IsOn" /\ u.todo = SubSeq(s, 5, Len(s))
             \/ step = "GetDeviceCollabSwitch" /\ u.todo = <<>>,
             UNCHANGED <<outside, dpVars, devices, cache, subscriptions, adapter, switchVars, excuses>>,
             threads' = Put(i, u)
      PROVE  StatusParts'
  <2>1. PICK list : list = Put(i, u)
    OBVIOUS
  <2>2. OutsideOK' /\ DpHeard' /\ Subscriptions' /\ Fits(list)'
    BY <1>0, <1>c, <2>1, QuietStep
  <2>3. threads' = list
    BY <1>c, <2>1
  <2> QED
    BY <2>2, <2>3 DEF StatusParts
<1>k. ASSUME NEW k \in {1, 2, 4}, NEW y, ThreadShape(y), y.todo = s, Akin(y, x), NEW u, u = Skip(y, k)
      PROVE  Akin(u, x) /\ u.todo = SubSeq(s, k + 1, Len(s))
  BY <1>k, SkipAkin DEF Akin
<1>1. CASE GetEnabledStatus(i)
  <2> DEFINE Say(new) == Skip([x EXCEPT !.new = new, !.tried = {}], 1)
  <2>1. AtStep(i, "GetEnabledStatus") /\ "GetEnabledStatus" \in Neutral
    BY <1>1 DEF GetEnabledStatus, Neutral
  <2>2. \/ \E new \in BOOLEAN : Cached(i, Say(new)) \/ Unfound(i, Say(new))
        \/ Fetch(i, Local, x, Say(FALSE))
        \/ \E d \in devices : Fetch(i, d, x, [x EXCEPT !.tried = @ \cup {d}])
    BY <1>0, <1>1 DEF GetEnabledStatus
  <2>3. ASSUME NEW new \in BOOLEAN, NEW u, u = Say(new)
        PROVE  Akin(u, x) /\ u.todo = SubSeq(s, 2, Len(s))
    <3>1. PICK y : y = [x EXCEPT !.new = new, !.tried = {}]
      OBVIOUS
    <3>2. ThreadShape(y) /\ y.todo = s /\ Akin(y, x)
      BY <1>t, <2>1, <3>1 DEF ThreadShape, ThreadFields, Akin
    <3>3. u = Skip(y, 1)
      BY <2>3, <3>1
    <3> QED
      BY <1>k, <3>2, <3>3
  <2>4. CASE \E new \in BOOLEAN : Cached(i, Say(new)) \/ Unfound(i, Say(new))
    <3>1. PICK new \in BOOLEAN : Cached(i, Say(new)) \/ Unfound(i, Say(new))
      BY <2>4
    <3>2. PICK u : u = Say(new)
      OBVIOUS
    <3>3. Akin(u, x) /\ u.todo = SubSeq(s, 2, Len(s))
      BY <2>3, <3>2
    <3>4. threads' = Put(i, u) /\ UNCHANGED <<outside, dpVars, devices, cache, subscriptions, adapter, switchVars, excuses>>
      BY <3>1, <3>2 DEF Cached, Unfound
    <3> QED
      BY <1>c, <2>1, <3>3, <3>4
  <2>5. CASE Fetch(i, Local, x, Say(FALSE))
    <3>2. PICK u : u = Say(FALSE)
      OBVIOUS
    <3>3. Akin(u, x) /\ u.todo = SubSeq(s, 2, Len(s))
      BY <2>3, <3>2
    <3>4. Fetch(i, Local, x, u)
      BY <2>5, <3>2
    <3> QED
      BY <1>0, <1>a, <1>t, <2>1, <3>3, <3>4, FetchFits
  <2>6. CASE \E d \in devices : Fetch(i, d, x, [x EXCEPT !.tried = @ \cup {d}])
    <3>1. PICK d : Fetch(i, d, x, [x EXCEPT !.tried = @ \cup {d}])
      BY <2>6
    <3>2. PICK u : u = [x EXCEPT !.tried = @ \cup {d}]
      OBVIOUS
    <3>3. Akin(u, x) /\ u.todo = s
      BY <1>t, <2>1, <3>2 DEF Akin, ThreadShape, ThreadFields
    <3>4. Fetch(i, d, x, u)
      BY <3>1, <3>2
    <3> QED
      BY <1>0, <1>a, <1>t, <2>1, <3>3, <3>4, FetchFits
  <2> QED
    BY <2>2, <2>4, <2>5, <2>6
<1>2. CASE Compare(i)
  <2>1. AtStep(i, "Compare") /\ "Compare" \in Neutral
    BY <1>2 DEF Compare, Neutral
  <2>2. PICK k \in {1, 2} : Cached(i, Skip(x, k))
    BY <1>0, <1>2 DEF Compare
  <2>3. PICK u : u = Skip(x, k)
    OBVIOUS
  <2>4. Akin(u, x) /\ u.todo = SubSeq(s, k + 1, Len(s))
    BY <1>0, <1>a, <1>k, <1>t, <2>1, <2>3
  <2>5. threads' = Put(i, u) /\ UNCHANGED <<outside, dpVars, devices, cache, subscriptions, adapter, switchVars, excuses>>
    BY <2>2, <2>3 DEF Cached
  <2>6. u.todo \in {SubSeq(s, 2, Len(s)), SubSeq(s, 3, Len(s))}
    BY <2>4
  <2> QED
    BY <1>c, <2>1, <2>4, <2>5, <2>6
<1>3. CASE Store(i)
  <2>1. AtStep(i, "Store") /\ "Store" \in Neutral
    BY <1>3 DEF Store, Neutral
  <2>2. PICK u, t, list : u = Skip(x, 1) /\ t = Thread("plugin", Local, 0, threads[i].new, OnConfigChange) /\ list = Put(i, u)
    OBVIOUS
  <2>3. Akin(u, x) /\ u.todo = SubSeq(s, 2, Len(s))
    BY <1>0, <1>a, <1>k, <1>t, <2>1, <2>2
  <2>4. threads' = Append(list, t) /\ UNCHANGED <<outside, dpVars, devices, cache, subscriptions, adapter, switchVars, excuses>>
    BY <1>0, <1>3, <2>2 DEF Store
  <2>5. OutsideOK' /\ DpHeard' /\ Subscriptions' /\ Fits(list)'
    BY <1>0, <2>1, <2>2, <2>3, <2>4, QuietStep
  <2>6. t.subject = "plugin" /\ t.todo = OnConfigChange /\ "plugin" \notin Subjects
    BY <2>2, SwitchAssumption DEF Thread, Subjects
  <2>7. FitsExcept(list, t.subject)'
    BY <2>5 DEF Fits, FitsExcept
  <2>8. Done(t.todo, "plugin", 0) /\ "plugin" \in Courses /\ StandsAt("plugin", 0, t)'
    <3>1. OnConfigChange = Rest(OnConfigChange, 0) /\ OnConfigChange # <<>>
      BY DEF OnConfigChange, Rest
    <3>2. PlanOf("plugin") = OnConfigChange /\ StepCount("plugin") = 1
      BY DEF PlanOf, StepCount
    <3>3. StandsAt("plugin", 0, t)'
      BY <2>6 DEF StandsAt
    <3> QED
      BY <2>6, <3>1, <3>2, <3>3 DEF Done, OnPlan, Courses
  <2>9. PICK new : new = Append(list, t)
    OBVIOUS
  <2>10. Fits(new)'
    BY <2>6, <2>7, <2>8, <2>9, Added
  <2> QED
    BY <2>4, <2>5, <2>9, <2>10 DEF StatusParts
<1>4. CASE EnterIsOn(i)
  <2>1. AtStep(i, "IsOn") /\ "IsOn" \in Neutral
    BY <1>4 DEF EnterIsOn, Neutral
  <2>0. Len(Notify) + 1 = 4
    BY DEF Notify
  <2>2. PICK k \in {1, 4} : Cached(i, Skip(x, k))
    BY <1>0, <1>4, <2>0 DEF EnterIsOn
  <2>3. PICK u : u = Skip(x, k)
    OBVIOUS
  <2>4. Akin(u, x) /\ u.todo = SubSeq(s, k + 1, Len(s))
    BY <1>0, <1>a, <1>k, <1>t, <2>1, <2>3
  <2>5. threads' = Put(i, u) /\ UNCHANGED <<outside, dpVars, devices, cache, subscriptions, adapter, switchVars, excuses>>
    BY <2>2, <2>3 DEF Cached
  <2>6. u.todo \in {SubSeq(s, 2, Len(s)), SubSeq(s, 5, Len(s))}
    BY <2>4
  <2> QED
    BY <1>c, <2>1, <2>4, <2>5, <2>6
<1>5. CASE Load(i)
  <2>1. AtStep(i, "Load") /\ "Load" \in Neutral
    BY <1>5 DEF Load, Neutral
  <2>2. PICK y, u : y = [x EXCEPT !.new = status] /\ u = Skip(y, 1)
    OBVIOUS
  <2>3. ThreadShape(y) /\ y.todo = s /\ Akin(y, x)
    BY <1>t, <2>1, <2>2 DEF ThreadShape, ThreadFields, Akin
  <2>4. Akin(u, x) /\ u.todo = SubSeq(s, 2, Len(s))
    <3>1. Akin(u, y) /\ u.todo = SubSeq(y.todo, 1 + 1, Len(y.todo))
      BY <2>2, <2>3, SkipAkin
    <3> QED
      BY <2>3, <3>1 DEF Akin
  <2>5. threads' = Put(i, u) /\ UNCHANGED <<outside, dpVars, devices, cache, subscriptions, adapter, switchVars, excuses>>
    BY <1>0, <1>5, <2>2 DEF Load, Cached
  <2> QED
    BY <1>c, <2>1, <2>4, <2>5
<1>6. CASE OnConfigChangeInner(i) \/ OffUnresolved(i) \/ GetClipPlugin(i)
  <2>1. PICK step \in {"OnConfigChangeInner", "GetClipPlugin"} : AtStep(i, step)
    BY <1>6 DEF OnConfigChangeInner, OffUnresolved, GetClipPlugin
  <2>2. PICK u : u = Skip(x, 1)
    OBVIOUS
  <2>4. Akin(u, x) /\ u.todo = SubSeq(s, 2, Len(s))
    BY <1>0, <1>a, <1>k, <1>t, <2>1, <2>2
  <2>5. threads' = Put(i, u) /\ UNCHANGED <<outside, dpVars, devices, cache, subscriptions, adapter, switchVars, excuses>>
    BY <1>0, <1>6, <2>2 DEF OnConfigChangeInner, OffUnresolved, GetClipPlugin, PluginStep, Go
  <2>6. step \in Neutral
    BY DEF Neutral
  <2> QED
    BY <1>c, <2>1, <2>4, <2>5, <2>6
<1>8. CASE Enter(i)
  <2>1. AtStep(i, "Enter") /\ "Enter" \in Neutral
    BY <1>8 DEF Enter, Neutral
  <2>2. PICK y, u : y = [x EXCEPT !.inside = TRUE] /\ u = Skip(y, 1)
    OBVIOUS
  <2>3. ThreadShape(y) /\ y.todo = s /\ Akin(y, x)
    BY <1>t, <2>1, <2>2 DEF ThreadShape, ThreadFields, Akin
  <2>4. Akin(u, x) /\ u.todo = SubSeq(s, 2, Len(s))
    <3>1. Akin(u, y) /\ u.todo = SubSeq(y.todo, 1 + 1, Len(y.todo))
      BY <2>2, <2>3, SkipAkin
    <3> QED
      BY <2>3, <3>1 DEF Akin
  <2>5. threads' = Put(i, u) /\ UNCHANGED <<outside, dpVars, devices, cache, subscriptions, adapter, switchVars, excuses>>
    BY <1>0, <1>8, <2>2 DEF Enter, Cached
  <2> QED
    BY <1>c, <2>1, <2>4, <2>5
<1>9. CASE GetDeviceCollabSwitch(i)
  <2>1. AtStep(i, "GetDeviceCollabSwitch") /\ "GetDeviceCollabSwitch" \in Neutral
    BY <1>9 DEF GetDeviceCollabSwitch, Neutral
  <2>2. PICK u : Cached(i, u) /\ (u = End(x) \/ u = Skip(x, 1))
    BY <1>0, <1>9 DEF GetDeviceCollabSwitch
  <2>3. Akin(u, x) /\ (u.todo = <<>> \/ u.todo = SubSeq(s, 2, Len(s)))
    <3>1. CASE u = End(x)
      BY <1>t, <2>1, <3>1 DEF End, Akin, ThreadShape, ThreadFields
    <3>2. CASE u = Skip(x, 1)
      BY <1>0, <1>a, <1>k, <1>t, <2>1, <3>2
    <3> QED
      BY <2>2, <3>1, <3>2
  <2>5. threads' = Put(i, u) /\ UNCHANGED <<outside, dpVars, devices, cache, subscriptions, adapter, switchVars, excuses>>
    BY <2>2 DEF Cached
  <2> QED
    BY <1>c, <2>1, <2>3, <2>5
<1>10. CASE GetDeviceStatus(i)
  <2>1. AtStep(i, "GetDeviceStatus") /\ "GetDeviceStatus" \in Neutral
    BY <1>10 DEF GetDeviceStatus, Neutral
  <2>2. PICK u : u = Skip(x, 1)
    OBVIOUS
  <2>3. Akin(u, x) /\ u.todo = SubSeq(s, 2, Len(s))
    BY <1>0, <1>a, <1>k, <1>t, <2>1, <2>2
  <2>4. Cached(i, u) \/ \E d : Fetch(i, d, u, u)
    BY <1>0, <1>10, <2>2 DEF GetDeviceStatus
  <2>5. CASE Cached(i, u)
    <3>1. threads' = Put(i, u) /\ UNCHANGED <<outside, dpVars, devices, cache, subscriptions, adapter, switchVars, excuses>>
      BY <2>5 DEF Cached
    <3> QED
      BY <1>c, <2>1, <2>3, <3>1
  <2>6. CASE \E d : Fetch(i, d, u, u)
    <3>1. PICK d : Fetch(i, d, u, u)
      BY <2>6
    <3>2. ThreadShape(u)
      BY <1>t, <2>1, <2>2 DEF Skip, ThreadShape, ThreadFields
    <3> QED
      BY <1>0, <2>1, <2>3, <3>1, <3>2, FetchFits
  <2> QED
    BY <2>4, <2>5, <2>6
<1> QED
  BY <1>1, <1>2, <1>3, <1>4, <1>5, <1>6, <1>8, <1>9, <1>10

\* A thread at a step of its plan goes on to the next.
LEMMA OnwardAt ==
  ASSUME SwitchTypeOK, Fits(threads), NEW i \in DOMAIN threads, NEW step, AtStep(i, step), step # "WriteBack",
         NEW s, s = threads[i].todo
  PROVE  \E c \in Courses : \E n \in 0 .. StepCount(c) - 1 :
           /\ StandsAt(c, n, threads[i]) /\ step = PlanOf(c)[n + 1]
           /\ Done(SubSeq(s, 2, Len(s)), c, n + 1)
<1>1. PICK c \in Courses : \E n \in 0 .. StepCount(c) - 1 : StandsAt(c, n, threads[i]) /\ Comes(s, c, n, step)
  BY WhereAt
<1>2. PICK n \in 0 .. StepCount(c) - 1 : StandsAt(c, n, threads[i]) /\ Comes(s, c, n, step)
  BY <1>1
<1>3. step = PlanOf(c)[n + 1] /\ \A k \in Nat : n + k <= StepCount(c) => Done(SubSeq(s, k + 1, Len(s)), c, n + k)
  BY <1>2 DEF Comes
<1>4. 1 \in Nat /\ n + 1 <= StepCount(c) /\ 1 + 1 = 2
  BY DEF StepCount, Courses
<1>5. Done(SubSeq(s, 2, Len(s)), c, n + 1)
  BY <1>3, <1>4
<1> QED
  BY <1>2, <1>3, <1>5

\* A step of a thread about the switch that is for the foreground user.
LEMMA SwitchGoes ==
  ASSUME Fits(threads), NEW i \in 1 .. Len(threads), NEW u, u.subject = threads[i].subject, u.subject = "switch",
         u.dev = Local, NEW n, Done(u.todo, "user", n), "switch" \in failed' \/ UserAt(n, u.user, u.new)',
         \A d \in Devices : SameDevice(d), NEW list, list = Put(i, u)
  PROVE  Fits(list)'
<1>1. \A s \in Subjects : s # u.subject => Same(s)
  BY DEF Subjects, Same
<1>2. "user" \in Courses /\ StandsAt("user", n, u)'
  BY DEF Courses, StandsAt
<1> QED
  BY <1>1, <1>2, Advances

\* Only what is about d is touched.
OnlyAbout(d) ==
  \A e : e # d => /\ e \in devices' <=> e \in devices
                  /\ e \in subscribed' <=> e \in subscribed
                  /\ e \in failed' <=> e \in failed
                  /\ e \in deaf' <=> e \in deaf
                  /\ e \in stale => e \in stale'
                  /\ SameCache(e)

\* A step of a thread about a device.
LEMMA DeviceGoes ==
  ASSUME Fits(threads), NEW i \in 1 .. Len(threads), NEW u, u.subject = threads[i].subject, u.subject \in Devices,
         NEW c \in Courses, NEW n, Done(u.todo, c, n), StandsAt(c, n, u)',
         UNCHANGED <<outside, switchVars>>, OnlyAbout(u.subject),
         NEW list, list = Put(i, u)
  PROVE  Fits(list)'
<1>1. Local # u.subject /\ "switch" # u.subject /\ "value" # u.subject
  BY SwitchAssumption
<1>2. \A s \in Subjects : s # u.subject => Same(s)
  BY <1>1 DEF Subjects, Same, SameDevice, SameSwitch, OnlyAbout, outside, switchVars
<1> QED
  BY <1>2, Advances

\* The cache after a value has been written to it.
LEMMA CacheWritten ==
  ASSUME NEW d, NEW value, cache' = CacheWith(d, value)
  PROVE  d \in DOMAIN cache' /\ cache'[d] = value /\ \A e : e # d => SameCache(e)
  BY DEF SameCache, CacheWith

\* The steps about the switch, in order, do what the foreground user's thread is for.
LEMMA SwitchActions ==
  ASSUME SwitchTypeOK, StatusParts, inOrder', NEW i \in DOMAIN threads,
         InitSwitch(i) \/ SetUserId(i) \/ RegisterObserver(i) \/ DeInit(i) \/ GetValue(i)
  PROVE  StatusParts'
<1>0. PICK x, s : x = threads[i] /\ s = threads[i].todo
  OBVIOUS
<1>1. PICK step \in {"Init", "SetUserId", "RegisterObserver", "DeInit", "GetValue"} :
        /\ AtStep(i, step)
        /\ step = "Init" => InitSwitch(i)
        /\ step = "SetUserId" => SetUserId(i)
        /\ step = "RegisterObserver" => RegisterObserver(i)
        /\ step = "DeInit" => DeInit(i)
        /\ step = "GetValue" => GetValue(i)
  BY DEF InitSwitch, SetUserId, RegisterObserver, DeInit, GetValue
<1>2. i \in 1 .. Len(threads) /\ ThreadShape(x) /\ Fits(threads) /\ user \in Users
  BY <1>0, <1>1, ThreadAt DEF ThreadOK, StatusParts, OutsideOK
<1>3. PICK c \in Courses : \E n \in 0 .. StepCount(c) - 1 :
           /\ StandsAt(c, n, x) /\ step = PlanOf(c)[n + 1]
           /\ Done(SubSeq(s, 2, Len(s)), c, n + 1)
  BY <1>0, <1>1, <1>2, OnwardAt
<1>4. PICK n \in 0 .. StepCount(c) - 1 :
           /\ StandsAt(c, n, x) /\ step = PlanOf(c)[n + 1]
           /\ Done(SubSeq(s, 2, Len(s)), c, n + 1)
  BY <1>3
<1>5. /\ UNCHANGED <<outside, dpVars, devices, cache, subscriptions, adapter, deaf, stale>>
      /\ \E why \in {{}, {"switch"}, {"value"}} : failed' = failed \cup why
  <2>1. \E t : \E why \in {{}, {"switch"}, {"value"}} : SwitchStep(i, t, why)
    BY <1>1 DEF InitSwitch, SetUserId, RegisterObserver, DeInit, GetValue
  <2> QED
    BY <2>1 DEF SwitchStep
<1>6. UNCHANGED <<outside, devices, cache, subscribed, deaf, stale>> /\ UNCHANGED <<dpVars, subscriptions, proxy, deaf>>
  BY <1>5 DEF subscriptions, adapter
<1>7. DpHeard' /\ Subscriptions' /\ OutsideOK'
  BY <1>6, HeardStays DEF StatusParts, OutsideOK, outside
<1>8. \A d \in Devices : SameDevice(d)
  <2>1. \A d \in Devices : d \in failed' <=> d \in failed
    BY <1>5, SwitchAssumption
  <2> QED
    BY <1>6, <2>1 DEF SameDevice, SameCache, outside
<1>9. /\ user' = user /\ setting' = setting /\ cache' = cache /\ profile' = profile
      /\ failed \subseteq failed'
  BY <1>5, <1>6 DEF outside
<1>c. ASSUME NEW u, Akin(u, x), NEW m, Done(u.todo, c, m), c = "user", "switch" \in failed' \/ UserAt(m, u.user, u.new)',
             threads' = Put(i, u)
      PROVE  StatusParts'
  <2>1. PICK list : list = Put(i, u)
    OBVIOUS
  <2>2. u.subject = threads[i].subject /\ u.subject = "switch" /\ u.dev = Local
    BY <1>0, <1>4, <1>c DEF StandsAt, Akin
  <2>3. Fits(list)'
    BY <1>2, <1>8, <1>c, <2>1, <2>2, SwitchGoes
  <2> QED
    BY <1>7, <1>c, <2>1, <2>3 DEF StatusParts
<1>w. c = "user" => "switch" \in failed \/ UserAt(n, x.user, x.new)
  BY <1>4 DEF StandsAt
<1>k. ASSUME NEW u, u = Skip(x, 1) PROVE Akin(u, x) /\ u.todo = SubSeq(s, 2, Len(s)) /\ u.user = x.user /\ u.new = x.new
  BY <1>0, <1>2, <1>k, SkipAkin DEF Akin
<1>p. /\ step = "Init" => c = "user" /\ n = 8
      /\ step = "RegisterObserver" => c = "user" /\ n = 10
      /\ step = "DeInit" => c = "user" /\ n = 7
      /\ step = "GetValue" => c = "user" /\ n = 12
      /\ step = "SetUserId" => (c = "user" /\ n \in {9, 11}) \/ c = "wifi"
  BY <1>1, <1>4, WhichStep
<1>d. Done(SubSeq(s, 2, Len(s)), c, n + 1) /\ n \in Nat
  BY <1>4
<1>10. CASE step = "Init"
  <2>1. c = "user" /\ n = 8
    BY <1>p, <1>10
  <2>h. PICK hml \in BOOLEAN :
          /\ switchUser' = IF hml THEN x.user ELSE switchUser
          /\ SwitchStep(i, IF hml THEN Skip(x, 1) ELSE End(x), IF hml THEN {} ELSE {"switch"})
    BY <1>0, <1>1, <1>10 DEF InitSwitch, IsHmlSupported
  <2>5. CASE hml
    <3>2. PICK u : u = Skip(x, 1)
      OBVIOUS
    <3>3. threads' = Put(i, u) /\ switchUser' = x.user
      BY <2>5, <2>h, <3>2 DEF SwitchStep
    <3>4. "switch" \in failed' \/ UserAt(n + 1, u.user, u.new)'
      BY <1>9, <1>k, <1>w, <2>1, <3>2, <3>3 DEF UserAt
    <3> QED
      BY <1>c, <1>d, <1>k, <2>1, <3>2, <3>3, <3>4
  <2>6. CASE ~hml
    <3>2. PICK u : u = End(x)
      OBVIOUS
    <3>3. threads' = Put(i, u) /\ "switch" \in failed'
      BY <2>6, <2>h, <3>2 DEF SwitchStep
    <3>4. Akin(u, x) /\ u.todo = <<>>
      BY <1>2, <3>2 DEF End, Akin, ThreadShape, ThreadFields
    <3>5. Done(u.todo, c, StepCount(c))
      BY <3>4 DEF Done
    <3> QED
      BY <1>c, <2>1, <3>3, <3>4, <3>5
  <2> QED
    BY <2>5, <2>6
<1>11. CASE step = "SetUserId" /\ c = "user"
  <2>1. n \in {9, 11}
    BY <1>p, <1>11
  <2>2. PICK u : u = Skip(x, 1)
    OBVIOUS
  <2>3. threads' = Put(i, u) /\ shareUser' = x.user /\ switchUser' = switchUser /\ observed' = observed
    BY <1>0, <1>1, <1>11, <2>2 DEF SetUserId, SwitchStep
  <2>4. "switch" \in failed' \/ UserAt(n + 1, u.user, u.new)'
    BY <1>9, <1>11, <1>k, <1>w, <2>1, <2>2, <2>3 DEF UserAt
  <2> QED
    BY <1>11, <1>c, <1>d, <1>k, <2>2, <2>3, <2>4
<1>12. CASE step = "SetUserId" /\ c = "wifi"
  <2>1. PICK u, list : u = Skip(x, 1) /\ list = Put(i, u)
    OBVIOUS
  <2>2. threads' = list /\ shareUser' = x.user /\ switchUser' = switchUser /\ observed' = observed
    BY <1>0, <1>1, <1>12, <2>1 DEF SetUserId, SwitchStep
  <2>3. Akin(u, x) /\ u.todo = SubSeq(s, 2, Len(s))
    BY <1>k, <2>1
  <2>4. u.subject = threads[i].subject /\ u.subject = "switch" /\ StandsAt(c, n + 1, u)'
    BY <1>0, <1>4, <1>9, <1>12, <2>2, <2>3 DEF StandsAt, Akin, SwitchStable, CacheAs
  <2>5. \A r \in Subjects : r # u.subject => Same(r)
    BY <1>8, <2>4 DEF Subjects, Same
  <2>6. Fits(list)'
    BY <1>2, <1>4, <2>1, <2>3, <2>4, <2>5, Advances
  <2> QED
    BY <1>7, <2>2, <2>6 DEF StatusParts
<1>13. CASE step = "RegisterObserver"
  <2>1. c = "user" /\ n = 10
    BY <1>p, <1>13
  <2>2. PICK u : u = Skip(x, 1)
    OBVIOUS
  <2>3. threads' = Put(i, u) /\ observed' = observed \cup {shareUser} /\ switchUser' = switchUser
    BY <1>0, <1>1, <1>13, <2>2 DEF RegisterObserver, SwitchStep
  <2>4. "switch" \in failed' \/ UserAt(n + 1, u.user, u.new)'
    BY <1>9, <1>k, <1>w, <2>1, <2>2, <2>3 DEF UserAt
  <2> QED
    BY <1>c, <1>d, <1>k, <2>1, <2>2, <2>3, <2>4
<1>14. CASE step = "DeInit"
  <2>1. c = "user" /\ n = 7
    BY <1>p, <1>14
  <2>2. PICK u : u = Skip(x, 1)
    OBVIOUS
  <2>3. threads' = Put(i, u)
    BY <1>0, <1>1, <1>14, <2>2 DEF DeInit, SwitchStep
  <2>4. "switch" \in failed' \/ UserAt(n + 1, u.user, u.new)'
    BY <1>9, <1>k, <1>w, <2>1, <2>2, <2>3 DEF UserAt
  <2> QED
    BY <1>c, <1>d, <1>k, <2>1, <2>2, <2>3, <2>4
<1>15. CASE step = "GetValue"
  <2>1. c = "user" /\ n = 12
    BY <1>p, <1>15
  <2>2. PICK read \in BOOLEAN :
          LET value == IF read /\ shareUser \in Users THEN setting[shareUser] ELSE TRUE
          IN SwitchStep(i, Skip([x EXCEPT !.new = value], 1), IF read THEN {} ELSE {"value"}) /\ UNCHANGED switchVars
    BY <1>0, <1>1, <1>15 DEF GetValue
  <2>v. PICK value : value = IF read /\ shareUser \in Users THEN setting[shareUser] ELSE TRUE
    OBVIOUS
  <2>3. PICK y : y = [x EXCEPT !.new = value]
    OBVIOUS
  <2>u. PICK u : u = Skip(y, 1)
    OBVIOUS
  <2>4. threads' = Put(i, u) /\ UNCHANGED switchVars /\ (~read => "value" \in failed')
    BY <2>2, <2>3, <2>u, <2>v DEF SwitchStep
  <2>5. ThreadShape(y) /\ y.new = value /\ Akin(y, x) /\ y.todo = s
    BY <1>0, <1>2, <2>3 DEF ThreadShape, ThreadFields, Akin
  <2>6. Akin(u, y) /\ u.new = y.new /\ u.todo = SubSeq(y.todo, 1 + 1, Len(y.todo))
    BY <2>5, <2>u, SkipAkin
  <2>7. Akin(u, x) /\ u.new = value /\ u.todo = SubSeq(s, 2, Len(s))
    BY <2>5, <2>6 DEF Akin
  <2>8. CASE "switch" \in failed
    BY <1>9, <1>c, <1>d, <2>1, <2>4, <2>7, <2>8
  <2>9. CASE "switch" \notin failed
    <3>1. shareUser = user /\ switchUser = user /\ user \in observed
      BY <1>w, <2>1, <2>9 DEF UserAt
    <3>2. value = setting[user] \/ "value" \in failed'
      BY <1>2, <2>4, <2>v, <3>1
    <3>3. UserAt(n + 1, u.user, u.new)'
      BY <1>9, <2>1, <2>4, <2>7, <3>1, <3>2 DEF UserAt, switchVars
    <3> QED
      BY <1>c, <1>d, <2>1, <2>4, <2>7, <3>3
  <2> QED
    BY <2>8, <2>9
<1> QED
  BY <1>1, <1>10, <1>11, <1>12, <1>13, <1>14, <1>15, <1>p

\* The status that UpdateEnabledStatus writes to the cache is the one that was set.
LEMMA UpdateFits ==
  ASSUME SwitchTypeOK, StatusParts, NEW i \in DOMAIN threads, UpdateEnabledStatus(i)
  PROVE  StatusParts'
<1>0. PICK x, s : x = threads[i] /\ s = threads[i].todo
  OBVIOUS
<1>1. PICK step : step = "UpdateEnabledStatus" /\ AtStep(i, step)
  BY DEF UpdateEnabledStatus
<1>2. i \in 1 .. Len(threads) /\ ThreadShape(x) /\ Fits(threads) /\ step # "WriteBack"
  BY <1>0, <1>1, ThreadAt DEF ThreadOK, StatusParts
<1>3. PICK c \in Courses : \E n \in 0 .. StepCount(c) - 1 :
           /\ StandsAt(c, n, x) /\ step = PlanOf(c)[n + 1]
           /\ Done(SubSeq(s, 2, Len(s)), c, n + 1)
  BY <1>0, <1>1, <1>2, OnwardAt
<1>4. PICK n \in 0 .. StepCount(c) - 1 :
           /\ StandsAt(c, n, x) /\ step = PlanOf(c)[n + 1]
           /\ Done(SubSeq(s, 2, Len(s)), c, n + 1)
  BY <1>3
<1>p. (c = "user" /\ n = 13) \/ (c = "update" /\ n = 0)
  BY <1>1, <1>4, WhichStep
<1>5. /\ UNCHANGED <<outside, devices, subscribed, switchVars, failed, deaf>>
      /\ UNCHANGED <<dpVars, subscriptions, proxy, deaf>>
      /\ cache' = CacheWith(x.dev, x.new) /\ stale' = stale \ {x.dev}
  BY <1>0 DEF UpdateEnabledStatus, subscriptions, adapter
<1>6. DpHeard' /\ Subscriptions' /\ OutsideOK'
  BY <1>5, HeardStays DEF StatusParts, OutsideOK, outside
<1>7. PICK u, list : u = Skip(x, 1) /\ list = Put(i, u)
  OBVIOUS
<1>8. threads' = list
  BY <1>0, <1>7 DEF UpdateEnabledStatus, Go
<1>9. Akin(u, x) /\ u.todo = SubSeq(s, 2, Len(s)) /\ u.new = x.new
  BY <1>0, <1>2, <1>7, SkipAkin
<1>10. x.dev \in DOMAIN cache' /\ cache'[x.dev] = x.new /\ \A e : e # x.dev => SameCache(e)
  BY <1>5, CacheWritten
<1>11. /\ UNCHANGED <<online, devices, subscribed>>
       /\ user' = user /\ setting' = setting /\ profile' = profile
  BY <1>5 DEF outside
<1>12. CASE c = "user" /\ n = 13
  <2>1. /\ x.subject = "switch" /\ x.dev = Local /\ ("switch" \in failed \/ UserAt(n, x.user, x.new))
        /\ u.subject = threads[i].subject /\ u.subject = "switch" /\ u.dev = Local
    BY <1>0, <1>4, <1>9, <1>12 DEF StandsAt, Akin
  <2>2. "switch" \in failed' \/ UserAt(n + 1, u.user, u.new)'
    BY <1>5, <1>9, <1>10, <1>11, <1>12, <2>1 DEF UserAt, CacheAs, switchVars
  <2>3. \A d \in Devices : SameDevice(d)
    BY <1>5, <1>10, <1>11, <2>1, SwitchAssumption DEF SameDevice
  <2>4. Fits(list)'
    BY <1>2, <1>4, <1>7, <1>9, <1>12, <2>1, <2>2, <2>3, SwitchGoes
  <2> QED
    BY <1>6, <1>8, <2>4 DEF StatusParts
<1>13. CASE c = "update" /\ n = 0
  <2>1. /\ x.subject \in Devices /\ x.dev = x.subject /\ UpdateAt(n, x.subject, x.new)
        /\ u.subject = threads[i].subject /\ u.subject \in Devices /\ u.subject = x.subject /\ u.dev = u.subject
    BY <1>0, <1>4, <1>9, <1>13 DEF StandsAt, Akin
  <2>2. StandsAt(c, n + 1, u)'
    BY <1>5, <1>9, <1>10, <1>11, <1>13, <2>1 DEF StandsAt, UpdateAt, CacheAs, CacheRight, Heard
  <2>3. OnlyAbout(u.subject)
    BY <1>5, <1>10, <2>1 DEF OnlyAbout
  <2>4. Fits(list)'
    BY <1>2, <1>4, <1>5, <1>7, <1>9, <2>1, <2>2, <2>3, DeviceGoes
  <2> QED
    BY <1>6, <1>8, <2>4 DEF StatusParts
<1> QED
  BY <1>p, <1>12, <1>13

\* The other devices are told the switch of the foreground user.
LEMMA PutFits ==
  ASSUME SwitchTypeOK, StatusParts, inOrder', NEW i \in DOMAIN threads, PutDeviceStatus(i)
  PROVE  StatusParts'
<1>0. PICK x, s : x = threads[i] /\ s = threads[i].todo
  OBVIOUS
<1>1. PICK step : step = "PutDeviceStatus" /\ AtStep(i, step)
  BY DEF PutDeviceStatus
<1>2. i \in 1 .. Len(threads) /\ ThreadShape(x) /\ Fits(threads) /\ step # "WriteBack"
  BY <1>0, <1>1, ThreadAt DEF ThreadOK, StatusParts
<1>3. PICK c \in Courses : \E n \in 0 .. StepCount(c) - 1 :
           /\ StandsAt(c, n, x) /\ step = PlanOf(c)[n + 1]
           /\ Done(SubSeq(s, 2, Len(s)), c, n + 1)
  BY <1>0, <1>1, <1>2, OnwardAt
<1>4. PICK n \in 0 .. StepCount(c) - 1 :
           /\ StandsAt(c, n, x) /\ step = PlanOf(c)[n + 1]
           /\ Done(SubSeq(s, 2, Len(s)), c, n + 1)
  BY <1>3
<1>p. c = "user" /\ n = 14
  BY <1>1, <1>4, WhichStep
<1>5. PICK ok \in BOOLEAN :
        /\ PutCharacteristicProfile(x.new, ok) /\ failed' = IF ok THEN failed ELSE failed \cup {"value"}
        /\ IF ok THEN GoWith(i, [x EXCEPT !.held = 1]) ELSE threads' = Put(i, End(x))
  BY <1>0 DEF PutDeviceStatus
<1>8. CallDp(ok) /\ profile' = (IF ok THEN [profile EXCEPT ![Local] = x.new] ELSE profile) /\ proxy'
  BY <1>5 DEF PutCharacteristicProfile, PutDeviceStatus, UseProxy
<1>9. /\ user' = user /\ setting' = setting /\ UNCHANGED <<online, devices, subscribed, deaf, stale>> /\ cache' = cache
      /\ UNCHANGED switchVars /\ UNCHANGED <<dpSubs, subscriptions, deaf>>
  BY DEF PutDeviceStatus, subscriptions
<1>10. DpHeard' /\ Subscriptions'
  BY <1>8, <1>9, HeardCall DEF StatusParts
<1>14. x.subject = "switch" /\ x.dev = Local /\ ("switch" \in failed \/ UserAt(n, x.user, x.new))
  BY <1>0, <1>4, <1>p DEF StandsAt
<1>15. x.new \in BOOLEAN /\ profile \in [Devices \cup {Local} -> BOOLEAN]
  BY <1>0, <1>1, ThreadAt DEF ThreadOK, StatusParts, OutsideOK
<1>16. /\ ok => profile'[Local] = x.new
       /\ profile' \in [Devices \cup {Local} -> BOOLEAN] /\ \A d \in Devices : profile'[d] = profile[d]
  BY <1>8, <1>15, SwitchAssumption
<1>17. OutsideOK'
  BY <1>9, <1>16 DEF StatusParts, OutsideOK
<1>19. \A d \in Devices : SameDevice(d)
  <2>1. \A d \in Devices : d \in failed' <=> d \in failed
    BY <1>5, SwitchAssumption
  <2> QED
    BY <1>9, <1>16, <2>1 DEF SameDevice, SameCache
<1>6. CASE ok
  <2>1. PICK y : y = [x EXCEPT !.held = 1]
    OBVIOUS
  <2>2. PICK u, list : u = Skip(y, 1) /\ list = Put(i, u)
    OBVIOUS
  <2>3. threads' = list /\ failed' = failed
    BY <1>5, <1>6, <2>1, <2>2 DEF GoWith
  <2>4. ThreadShape(y) /\ Akin(y, x) /\ y.new = x.new /\ y.todo = s
    BY <1>0, <1>2, <2>1 DEF ThreadShape, ThreadFields, Akin
  <2>5. Akin(u, y) /\ u.new = y.new /\ u.todo = SubSeq(y.todo, 1 + 1, Len(y.todo))
    BY <2>2, <2>4, SkipAkin
  <2>6. Akin(u, x) /\ u.new = x.new /\ u.todo = SubSeq(s, 2, Len(s))
    BY <2>4, <2>5 DEF Akin
  <2>7. u.subject = threads[i].subject /\ u.subject = "switch" /\ u.dev = Local
    BY <1>0, <1>14, <2>6 DEF Akin
  <2>8. "switch" \in failed' \/ UserAt(n + 1, u.user, u.new)'
    BY <1>6, <1>9, <1>14, <1>16, <1>p, <2>3, <2>6 DEF UserAt, CacheAs, switchVars
  <2>9. Fits(list)'
    BY <1>2, <1>4, <1>19, <1>p, <2>2, <2>6, <2>7, <2>8, SwitchGoes
  <2> QED
    BY <1>10, <1>17, <2>3, <2>9 DEF StatusParts
<1>7. CASE ~ok
  <2>1. PICK u, list : u = End(x) /\ list = Put(i, u)
    OBVIOUS
  <2>2. threads' = list /\ failed' = failed \cup {"value"} /\ profile' = profile
    BY <1>5, <1>7, <1>8, <2>1
  <2>3. Akin(u, x) /\ u.todo = <<>>
    BY <1>2, <2>1 DEF End, Akin, ThreadShape, ThreadFields
  <2>4. u.subject = threads[i].subject /\ u.subject = "switch" /\ u.dev = Local
    BY <1>0, <1>14, <2>3 DEF Akin
  <2>5. PICK m : m = 18
    OBVIOUS
  <2>6. Done(u.todo, "user", m)
    BY <2>3, <2>5 DEF Done, StepCount
  <2>7. "switch" \in failed' \/ UserAt(m, u.user, u.new)'
    BY <1>9, <1>14, <1>p, <2>2, <2>5 DEF UserAt, switchVars
  <2>8. Fits(list)'
    BY <1>2, <1>19, <2>1, <2>4, <2>6, <2>7, SwitchGoes
  <2> QED
    BY <1>10, <1>17, <2>2, <2>8 DEF StatusParts
<1> QED
  BY <1>6, <1>7

\* This device's udid is not found, and nothing is put.
LEMMA UnknownFits ==
  ASSUME SwitchTypeOK, StatusParts, NEW i \in DOMAIN threads, LocalUdidUnknown(i)
  PROVE  StatusParts'
<1>0. PICK x, s : x = threads[i] /\ s = threads[i].todo
  OBVIOUS
<1>1. PICK step : step = "UpdateEnabledStatus" /\ AtStep(i, step)
  BY DEF LocalUdidUnknown
<1>2. i \in 1 .. Len(threads) /\ ThreadShape(x) /\ Fits(threads) /\ step # "WriteBack" /\ x.dev = Local
  BY <1>0, <1>1, ThreadAt DEF ThreadOK, StatusParts, LocalUdidUnknown
<1>3. PICK c \in Courses : \E n \in 0 .. StepCount(c) - 1 :
           /\ StandsAt(c, n, x) /\ step = PlanOf(c)[n + 1]
           /\ Done(SubSeq(s, 2, Len(s)), c, n + 1)
  BY <1>0, <1>1, <1>2, OnwardAt
<1>4. PICK n \in 0 .. StepCount(c) - 1 :
           /\ StandsAt(c, n, x) /\ step = PlanOf(c)[n + 1]
           /\ Done(SubSeq(s, 2, Len(s)), c, n + 1)
  BY <1>3
<1>p. c = "user" /\ n = 13
  <2>1. (c = "user" /\ n = 13) \/ (c = "update" /\ n = 0)
    BY <1>1, <1>4, WhichStep
  <2>2. c # "update"
    BY <1>2, <1>4, SwitchAssumption DEF StandsAt
  <2> QED
    BY <2>1, <2>2
<1>5. x.subject = "switch" /\ ("switch" \in failed \/ UserAt(n, x.user, x.new))
  BY <1>4, <1>p DEF StandsAt
<1>6. PICK u, list : u = End(x) /\ list = Put(i, u)
  OBVIOUS
<1>7. /\ threads' = list /\ failed' = failed \cup {"value"}
      /\ UNCHANGED <<outside, devices, cache, subscribed, switchVars, deaf, stale>>
      /\ UNCHANGED <<dpVars, subscriptions, proxy, deaf>>
  BY <1>0, <1>6 DEF LocalUdidUnknown, subscriptions, adapter
<1>8. DpHeard' /\ Subscriptions' /\ OutsideOK'
  BY <1>7, HeardStays DEF StatusParts, OutsideOK, outside
<1>9. \A d \in Devices : SameDevice(d)
  <2>1. \A d \in Devices : d \in failed' <=> d \in failed
    BY <1>7, SwitchAssumption
  <2> QED
    BY <1>7, <2>1 DEF SameDevice, SameCache, outside
<1>10. Akin(u, x) /\ u.todo = <<>>
  BY <1>2, <1>6 DEF End, Akin, ThreadShape, ThreadFields
<1>11. u.subject = threads[i].subject /\ u.subject = "switch" /\ u.dev = Local
  BY <1>0, <1>2, <1>5, <1>10 DEF Akin
<1>12. PICK m : m = 18
  OBVIOUS
<1>13. Done(u.todo, "user", m)
  BY <1>10, <1>12 DEF Done, StepCount
<1>14. "switch" \in failed' \/ UserAt(m, u.user, u.new)'
  BY <1>5, <1>7, <1>12, <1>p DEF UserAt, switchVars, outside
<1>15. Fits(list)'
  BY <1>2, <1>6, <1>9, <1>11, <1>13, <1>14, SwitchGoes
<1> QED
  BY <1>7, <1>8, <1>15 DEF StatusParts

\* A status that was fetched is written to the cache, in order if it is still the one that was set.
LEMMA WriteBackFits ==
  ASSUME SwitchTypeOK, StatusParts, inOrder', NEW i \in DOMAIN threads, WriteBack(i)
  PROVE  StatusParts'
<1>0. PICK x, s, of : x = threads[i] /\ s = threads[i].todo /\ of = threads[i].of
  OBVIOUS
<1>1. PICK step : step = "WriteBack" /\ AtStep(i, step)
  BY DEF WriteBack
<1>2. i \in 1 .. Len(threads) /\ ThreadShape(x) /\ Fits(threads) /\ DOMAIN threads = 1 .. Len(threads)
  BY <1>0, <1>1, ThreadAt DEF ThreadOK, StatusParts, IsList
<1>3. PICK c \in Courses : \E n \in 0 .. StepCount(c) - 1 : StandsAt(c, n, x) /\ Comes(s, c, n, step)
  BY <1>0, <1>1, <1>2, WhereAt
<1>4. PICK n \in 0 .. StepCount(c) - 1 : StandsAt(c, n, x) /\ Comes(s, c, n, step)
  BY <1>3
<1>5. PlanOf(c)[n + 1] = "GetEnabledStatus" /\ Done(SubSeq(s, 2, Len(s)), c, n)
  BY <1>1, <1>4 DEF Comes
<1>6. /\ c = "user" => n <= 6 \/ n >= 15
      /\ c = "online" => n >= 2
      /\ c = "offline" => n >= 3
      /\ c = "update" => n >= 1
  <2>1. PICK got : got = PlanOf(c)[n + 1] /\ got = "GetEnabledStatus" /\ got \in Neutral
    BY <1>5 DEF Neutral
  <2> QED
    BY <2>1, WhichStep
<1>7. /\ cache' = CacheWith(of, x.val) /\ x.val = profile[of] /\ of \in devices \cup {Local}
      /\ \A j \in 1 .. Len(threads) : j # i => threads[j].subject # About(of)
  BY <1>0, <1>2 DEF WriteBack, Fair
<1>8. /\ UNCHANGED <<outside, devices, subscribed, switchVars, failed, deaf, stale>>
      /\ UNCHANGED <<dpVars, subscriptions, proxy, deaf>>
  BY DEF WriteBack, subscriptions, adapter, excuses
<1>9. DpHeard' /\ Subscriptions' /\ OutsideOK'
  BY <1>8, HeardStays DEF StatusParts, OutsideOK, outside
<1>10. of \in DOMAIN cache' /\ cache'[of] = profile[of] /\ \A e : e # of => SameCache(e)
  BY <1>7, CacheWritten
<1>11. /\ UNCHANGED <<online, devices, subscribed, switchUser, shareUser, observed, failed, deaf, stale>>
       /\ user' = user /\ setting' = setting /\ profile' = profile
  BY <1>8 DEF outside, switchVars
<1>12. PICK y : y = [x EXCEPT !.held = @ - 1]
  OBVIOUS
<1>u. PICK u, list : u = Skip(y, 1) /\ list = Put(i, u)
  OBVIOUS
<1>13. threads' = list
  BY <1>0, <1>12, <1>u DEF WriteBack, GoWith
<1>14. ThreadShape(y) /\ Akin(y, x) /\ y.todo = s
  BY <1>0, <1>2, <1>12 DEF ThreadShape, ThreadFields, Akin
<1>15. Akin(u, y) /\ u.todo = SubSeq(y.todo, 1 + 1, Len(y.todo))
  BY <1>14, <1>u, SkipAkin
<1>16. Akin(u, x) /\ u.todo = SubSeq(s, 2, Len(s)) /\ u.subject = threads[i].subject
  BY <1>0, <1>14, <1>15 DEF Akin
<1>17. (of = Local /\ About(of) = "switch") \/ (of \in Devices /\ of # Local /\ About(of) = of)
  BY <1>7, SwitchAssumption DEF About, StatusParts, OutsideOK
<1>18. ASSUME NEW r \in Subjects, r # About(of) PROVE Same(r)
  <2>1. CASE r = "switch"
    <3>1. of # Local
      BY <1>17, <1>18, <2>1
    <3> QED
      BY <1>10, <1>11, <2>1, <3>1 DEF Same, SameSwitch
  <2>2. CASE r \in Devices /\ r # "switch"
    <3>1. r # of
      BY <1>17, <1>18, <2>2, SwitchAssumption
    <3> QED
      BY <1>10, <1>11, <2>2, <3>1 DEF Same, SameDevice
  <2> QED
    BY <2>1, <2>2 DEF Subjects
<1>19. StandsAt(c, n, u)'
  <2>1. StandsAt(c, n, u) /\ n \in Nat
    <3>1. n \in Nat /\ n <= n /\ (c = "user" => n <= 8 \/ n >= 15)
      BY <1>6
    <3>2. u.subject = x.subject /\ u.dev = x.dev /\ u.user = x.user
      BY <1>16 DEF Akin
    <3> QED
      BY <1>4, <1>6, <3>1, <3>2, PassedBy
  <2>2. CASE u.subject \notin Subjects
    BY <2>1, <2>2, OthersFit
  <2>3. CASE u.subject \in Subjects /\ u.subject # About(of)
    BY <1>18, <2>1, <2>3, Untouched
  <2>4. CASE u.subject \in Subjects /\ u.subject = About(of)
    <3>0. "switch" \notin Devices /\ "use" \notin Subjects /\ "plugin" \notin Subjects
      BY SwitchAssumption DEF Subjects
    <3>1. CASE c = "user"
      <4>1. u.subject = "switch" /\ u.dev = Local /\ ("switch" \in failed \/ UserAt(n, u.user, u.new)) /\ of = Local
        BY <1>17, <2>1, <2>4, <3>0, <3>1 DEF StandsAt
      <4>2. "switch" \in failed' \/ UserAt(n, u.user, u.new)'
        BY <1>6, <1>10, <1>11, <3>1, <4>1 DEF UserAt, CacheAs
      <4> QED
        BY <3>1, <4>1, <4>2 DEF StandsAt
    <3>2. CASE c = "wifi"
      <4>1. u.subject = "switch" /\ u.dev = Local /\ SwitchStable /\ of = Local
        BY <1>17, <2>1, <2>4, <3>0, <3>2 DEF StandsAt
      <4>2. SwitchStable'
        BY <1>10, <1>11, <4>1 DEF SwitchStable, CacheAs
      <4> QED
        BY <3>2, <4>1, <4>2 DEF StandsAt
    <3>3. CASE c \in {"online", "update", "offline"}
      <4>1. u.subject \in Devices /\ u.dev = u.subject /\ of = u.subject /\ of \in devices
        BY <1>7, <1>17, <2>1, <2>4, <3>0, <3>3 DEF StandsAt
      <4>2. ASSUME c = "offline" PROVE FALSE
        <5>1. OfflineAt(n, u.subject) /\ n >= 1
          BY <1>6, <2>1, <4>2 DEF StandsAt
        <5> QED
          BY <4>1, <5>1 DEF OfflineAt
      <4>3. CASE c = "online"
        BY <1>6, <1>10, <1>11, <2>1, <4>1, <4>3 DEF StandsAt, OnlineAt, CacheAs, CacheRight
      <4>4. CASE c = "update"
        BY <1>6, <1>10, <1>11, <2>1, <4>1, <4>4 DEF StandsAt, UpdateAt, CacheAs, CacheRight, Heard
      <4> QED
        BY <3>3, <4>2, <4>3, <4>4
    <3>4. c \notin {"use", "plugin"}
      BY <2>1, <2>4, <3>0 DEF StandsAt
    <3> QED
      BY <3>1, <3>2, <3>3, <3>4 DEF Courses
  <2> QED
    BY <2>2, <2>3, <2>4
<1>20. ASSUME NEW k \in 1 .. Len(threads), k # i, NEW z, z = threads[k] PROVE ThreadFits(z)'
  <2>1. ThreadFits(z) /\ z.subject # About(of)
    BY <1>2, <1>7, <1>20 DEF Fits
  <2>2. CASE z.subject \notin Subjects
    BY <2>1, <2>2, OthersFit
  <2>3. CASE z.subject \in Subjects
    BY <1>18, <2>1, <2>3, Untouched
  <2> QED
    BY <2>2, <2>3
<1>21. ASSUME NEW r \in Subjects, r # u.subject, Quiet(threads, r) PROVE Stable(r)'
  <2>1. Stable(r)
    BY <1>2, <1>21 DEF Fits
  <2>2. CASE r # About(of)
    BY <1>18, <2>1, <2>2, Untouched
  <2>3. CASE r = About(of) /\ of = Local
    <3>1. r = "switch"
      BY <1>17, <2>3
    <3> QED
      BY <1>10, <1>11, <2>1, <2>3, <3>1 DEF Stable, SwitchStable, CacheAs
  <2>4. CASE r = About(of) /\ of # Local
    <3>1. r = of /\ r \in Devices /\ r \in devices /\ r # "switch"
      BY <1>7, <1>17, <2>4, SwitchAssumption
    <3>2. DeviceStable(r)
      BY <2>1, <3>1 DEF Stable
    <3>3. DeviceStable(r)'
      BY <1>10, <1>11, <3>1, <3>2 DEF DeviceStable, CacheRight, Heard, CacheAs
    <3> QED
      BY <3>1, <3>3 DEF Stable
  <2> QED
    BY <2>2, <2>3, <2>4
<1>22. Fits(list)'
  BY <1>2, <1>5, <1>16, <1>19, <1>20, <1>21, <1>u, Moved
<1> QED
  BY <1>9, <1>13, <1>22 DEF StatusParts

\* The steps about a device, in order, do what its thread is for.
LEMMA DeviceActions ==
  ASSUME SwitchTypeOK, StatusParts, inOrder', NEW i \in DOMAIN threads,
         \/ SubscribeProfileEvent(i) \/ UnSubscribeProfileEvent(i) \/ EraseEnabledStatus(i)
         \/ AddDevice(i) \/ RemoveDevice(i)
  PROVE  StatusParts'
<1>0. PICK x, s : x = threads[i] /\ s = threads[i].todo
  OBVIOUS
<1>1. PICK step \in {"SubscribeProfileEvent", "UnSubscribeProfileEvent", "EraseEnabledStatus", "AddDevice", "RemoveDevice"} :
        /\ AtStep(i, step)
        /\ step = "SubscribeProfileEvent" => SubscribeProfileEvent(i)
        /\ step = "UnSubscribeProfileEvent" => UnSubscribeProfileEvent(i)
        /\ step = "EraseEnabledStatus" => EraseEnabledStatus(i)
        /\ step = "AddDevice" => AddDevice(i)
        /\ step = "RemoveDevice" => RemoveDevice(i)
  BY DEF SubscribeProfileEvent, UnSubscribeProfileEvent, EraseEnabledStatus, AddDevice, RemoveDevice
<1>2. i \in 1 .. Len(threads) /\ ThreadShape(x) /\ Fits(threads)
  BY <1>0, <1>1, ThreadAt DEF ThreadOK, StatusParts
<1>3. PICK c \in Courses : \E n \in 0 .. StepCount(c) - 1 :
           /\ StandsAt(c, n, x) /\ step = PlanOf(c)[n + 1]
           /\ Done(SubSeq(s, 2, Len(s)), c, n + 1)
  BY <1>0, <1>1, <1>2, OnwardAt
<1>4. PICK n \in 0 .. StepCount(c) - 1 :
           /\ StandsAt(c, n, x) /\ step = PlanOf(c)[n + 1]
           /\ Done(SubSeq(s, 2, Len(s)), c, n + 1)
  BY <1>3
<1>p. /\ step = "SubscribeProfileEvent" => c = "online" /\ n = 1
      /\ step = "UnSubscribeProfileEvent" => c = "offline" /\ n = 1
      /\ step = "EraseEnabledStatus" => c = "offline" /\ n = 2
      /\ step = "AddDevice" => c = "online" /\ n = 0
      /\ step = "RemoveDevice" => c = "offline" /\ n = 0
  BY <1>1, <1>4, WhichStep
<1>5. PICK u, list, d : u = Skip(x, 1) /\ list = Put(i, u) /\ d = x.dev
  OBVIOUS
<1>6. Akin(u, x) /\ u.todo = SubSeq(s, 2, Len(s))
  <2>1. Akin(u, x) /\ u.todo = SubSeq(x.todo, 1 + 1, Len(x.todo)) /\ x.todo = s
    BY <1>0, <1>2, <1>5, SkipAkin
  <2> QED
    BY <2>1
<1>7. d \in Devices /\ x.subject = d /\ u.subject = d /\ u.dev = d /\ u.subject = threads[i].subject
  BY <1>0, <1>1, <1>4, <1>5, <1>6, <1>p DEF StandsAt, Akin
<1>c. ASSUME OutsideOK', DpHeard', Subscriptions', threads' = list, StandsAt(c, n + 1, u)', UNCHANGED <<outside, switchVars>>,
             OnlyAbout(d)
      PROVE  StatusParts'
  <2>1. Fits(list)'
    BY <1>2, <1>4, <1>5, <1>6, <1>7, <1>c, DeviceGoes
  <2> QED
    BY <1>c, <2>1 DEF StatusParts
<1>8. CASE step = "SubscribeProfileEvent"
  <2>1. /\ threads' = list /\ subscribed' = subscribed \cup {d}
        /\ UNCHANGED <<outside, devices, cache, switchVars, failed, stale>> /\ deaf' \in {deaf, deaf \cup {d}}
    BY <1>0, <1>1, <1>5, <1>8 DEF SubscribeProfileEvent, AdapterSubscribe, Go
  <2>2. DpHeard' /\ Subscriptions' /\ OutsideOK'
    BY <1>1, <1>8, <2>1, HeardSubscribe DEF StatusParts, OutsideOK, outside
  <2>3. OnlineAt(1, d)
    BY <1>4, <1>7, <1>8, <1>p DEF StandsAt
  <2>4. OnlineAt(2, d)'
    BY <2>1, <2>3 DEF OnlineAt, CacheAs, CacheRight, outside
  <2>5. StandsAt(c, n + 1, u)'
    BY <1>7, <1>8, <1>p, <2>4 DEF StandsAt
  <2> QED
    BY <1>c, <2>1, <2>2, <2>5 DEF SameCache, OnlyAbout
<1>9. CASE step = "UnSubscribeProfileEvent"
  <2>1. /\ threads' = list /\ subscribed' = subscribed \ {d}
        /\ UNCHANGED <<outside, devices, cache, switchVars, failed, stale>> /\ deaf' \in {deaf, deaf \ {d}, deaf \cup {d}}
    BY <1>0, <1>1, <1>5, <1>9 DEF UnSubscribeProfileEvent, AdapterUnSubscribe, Go
  <2>2. DpHeard' /\ Subscriptions' /\ OutsideOK'
    BY <1>1, <1>9, <2>1, HeardUnSubscribe DEF StatusParts, OutsideOK, outside
  <2>3. OfflineAt(1, d)
    BY <1>4, <1>7, <1>9, <1>p DEF StandsAt
  <2>4. OfflineAt(2, d)'
    BY <2>1, <2>3 DEF OfflineAt, outside
  <2>5. StandsAt(c, n + 1, u)'
    BY <1>7, <1>9, <1>p, <2>4 DEF StandsAt
  <2> QED
    BY <1>c, <2>1, <2>2, <2>5 DEF SameCache, OnlyAbout
<1>10. CASE step = "EraseEnabledStatus"
  <2>1. /\ threads' = list /\ cache' = [e \in DOMAIN cache \ {d} |-> cache[e]] /\ stale' = stale \ {d}
        /\ UNCHANGED <<outside, devices, subscribed, switchVars, failed>> /\ UNCHANGED <<dpVars, subscriptions, proxy, deaf>>
    BY <1>0, <1>1, <1>5, <1>10 DEF EraseEnabledStatus, Go, subscriptions, adapter
  <2>2. DpHeard' /\ Subscriptions' /\ OutsideOK'
    BY <2>1, HeardStays DEF StatusParts, OutsideOK, outside
  <2>3. OfflineAt(2, d)
    BY <1>4, <1>7, <1>10, <1>p DEF StandsAt
  <2>4. OfflineAt(3, d)'
    BY <2>1, <2>3 DEF OfflineAt, outside
  <2>5. StandsAt(c, n + 1, u)'
    BY <1>7, <1>10, <1>p, <2>4 DEF StandsAt
  <2>6. \A e : SameCache(e)
    BY <2>1 DEF SameCache
  <2> QED
    BY <1>c, <2>1, <2>2, <2>5, <2>6 DEF OnlyAbout
<1>11. CASE step \in {"AddDevice", "RemoveDevice"}
  <2>1. PICK found, to : /\ DeviceStep(i, found, to)
                         /\ to = IF step = "AddDevice" THEN devices \cup {d} ELSE devices \ {d}
    BY <1>0, <1>1, <1>5, <1>11 DEF AddDevice, RemoveDevice
  <2>2. /\ threads' = Put(i, IF found THEN u ELSE End(x)) /\ devices' = IF found THEN to ELSE devices
        /\ failed' = IF found THEN failed ELSE failed \cup {d}
        /\ UNCHANGED <<outside, cache, subscribed, switchVars, deaf, stale>> /\ UNCHANGED <<dpVars, subscriptions, proxy, deaf>>
    BY <1>0, <1>5, <2>1 DEF DeviceStep, subscriptions, adapter
  <2>3. OnlyAbout(d)
    BY <2>1, <2>2 DEF OnlyAbout, SameCache
  <2>4. DpHeard' /\ Subscriptions' /\ OutsideOK'
    BY <1>7, <2>1, <2>2, HeardStays DEF StatusParts, OutsideOK, outside
  <2>5. CASE step = "AddDevice" /\ found
    <3>1. OnlineAt(0, d)
      BY <1>4, <1>7, <1>p, <2>5 DEF StandsAt
    <3>2. OnlineAt(1, d)'
      BY <2>1, <2>2, <2>5, <3>1 DEF OnlineAt, CacheAs, CacheRight, outside
    <3>3. StandsAt(c, n + 1, u)'
      BY <1>7, <1>p, <2>5, <3>2 DEF StandsAt
    <3> QED
      BY <1>5, <1>c, <2>2, <2>3, <2>4, <2>5, <3>3
  <2>6. CASE step = "RemoveDevice" /\ found
    <3>1. OfflineAt(0, d)
      BY <1>4, <1>7, <1>p, <2>6 DEF StandsAt
    <3>2. OfflineAt(1, d)'
      BY <2>1, <2>2, <2>6, <3>1 DEF OfflineAt, outside
    <3>3. StandsAt(c, n + 1, u)'
      BY <1>7, <1>p, <2>6, <3>2 DEF StandsAt
    <3> QED
      BY <1>5, <1>c, <2>2, <2>3, <2>4, <2>6, <3>3
  <2>7. CASE ~found
    <3>1. CacheRight(d) /\ Heard(d)
      BY <1>4, <1>7, <1>11, <1>p DEF StandsAt, OnlineAt, OfflineAt
    <3>2. PICK t, rest : t = End(x) /\ rest = Put(i, t)
      OBVIOUS
    <3>3. Akin(t, x) /\ t.todo = <<>>
      BY <1>2, <3>2 DEF End, Akin, ThreadShape, ThreadFields
    <3>4. t.subject = threads[i].subject /\ t.subject = d /\ t.dev = d
      BY <1>0, <1>5, <1>7, <3>3 DEF Akin
    <3>5. PICK m : m = 4
      OBVIOUS
    <3>6. Done(t.todo, "update", m) /\ "update" \in Courses
      BY <3>3, <3>5 DEF Done, StepCount, Courses
    <3>7. UpdateAt(m, d, t.new)'
      BY <2>2, <2>7, <3>1, <3>5 DEF UpdateAt, CacheRight, Heard, CacheAs, outside
    <3>8. StandsAt("update", m, t)'
      BY <1>7, <3>4, <3>7 DEF StandsAt
    <3>9. Fits(rest)'
      BY <1>2, <1>7, <2>2, <2>3, <3>2, <3>4, <3>6, <3>8, DeviceGoes
    <3> QED
      BY <2>2, <2>4, <2>7, <3>2, <3>9 DEF StatusParts
  <2> QED
    BY <1>11, <2>5, <2>6, <2>7
<1> QED
  BY <1>1, <1>8, <1>9, <1>10, <1>11

\* Two lists joined: after the steps of the first come those of the second.
LEMMA RestJoined ==
  ASSUME NEW s, NEW k, NEW t, NEW l, Listed(s, k), Listed(t, l), t # <<>>
  PROVE  Rest(s \o t, k) = t
<1>0. PICK r, m : r = s \o t /\ m = k + l
  OBVIOUS
<1>1. k \in Nat /\ l \in Nat /\ m \in Nat /\ t \in Seq(StepNames) /\ Len(t) = l /\ l > 0
  BY <1>0 DEF Listed
<1>2. Both(r, s, k, t, l)
  BY <1>0, JoinedSteps
<1>3. r \in Seq(StepNames) /\ Len(r) = m /\ \A i \in 1 .. l : r[k + i] = t[i]
  BY <1>0, <1>2 DEF Both, Listed
<1>4. Listed(r, m)
  BY <1>3 DEF Listed
<1>5. PICK q : q = SubSeq(r, k + 1, m)
  OBVIOUS
<1>a. k < m /\ m - k = l
  BY <1>0, <1>1
<1>6. q \in Seq(StepNames) /\ Len(q) = m - k /\ \A i \in 1 .. m - k : q[i] = r[k + i]
  <2>1. Cut(q, r, k, m)
    BY <1>1, <1>4, <1>5, <1>a, CutSteps
  <2> QED
    BY <2>1 DEF Cut, Listed
<1>7. Len(q) = Len(t) /\ \A i \in 1 .. Len(t) : q[i] = t[i]
  BY <1>1, <1>3, <1>6, <1>a
<1>8. q = t
  BY <1>1, <1>6, <1>7, SeqEqual
<1> QED
  BY <1>0, <1>3, <1>5, <1>8 DEF Rest

\* How a plan begins, and where those begin that are the end of one.
LEMMA Begins ==
  /\ \A c \in Courses : Done(PlanOf(c), c, 0)
  /\ Done(SwitchInit, "user", 8) /\ Done(SetSwitch, "user", 11)
<1>1. ASSUME NEW c \in Courses PROVE Done(PlanOf(c), c, 0)
  <2>0. PICK p, l : p = PlanOf(c) /\ l = StepCount(c)
    OBVIOUS
  <2>1. Listed(p, l) /\ l \in Nat /\ l > 0
    BY <2>0, PlanSteps DEF StepCount, Courses
  <2>2. PICK q : q = SubSeq(p, 1, l)
    OBVIOUS
  <2>3. p \in Seq(StepNames) /\ Len(p) = l
    BY <2>1 DEF Listed
  <2>4. \A i \in 1 .. l : p[i] \in StepNames
    BY <2>3, ElementOfSeq
  <2>5. q \in Seq(StepNames) /\ Len(q) = l /\ \A i \in 1 .. l : q[i] = p[i]
    BY <2>1, <2>2, <2>3, <2>4, SubSeqProperties
  <2>6. q = p
    BY <2>3, <2>5, SeqEqual
  <2>7. Rest(p, 0) = p /\ p # <<>>
    BY <2>1, <2>2, <2>3, <2>6 DEF Rest
  <2> QED
    BY <2>0, <2>1, <2>7 DEF Done, OnPlan
<1>2. PICK n, sw, init, plug, usr, h4, h3, en, de, e1, e2 :
        /\ n = Notify /\ sw = SetSwitch /\ init = SwitchInit /\ plug = GetPlugin /\ usr = HandleUserSwitched
        /\ h4 = <<"SetUserId", "GetValue", "UpdateEnabledStatus", "PutDeviceStatus">>
        /\ h3 = <<"Init", "SetUserId", "RegisterObserver">> /\ en = <<"Enter">> /\ de = <<"DeInit">>
        /\ e1 = en \o plug /\ e2 = e1 \o de
  OBVIOUS
<1>3. sw = h4 \o n /\ init = h3 \o sw /\ usr = e2 \o init
  BY <1>2 DEF SetSwitch, SwitchInit, HandleUserSwitched
<1>4. Listed(n, 3) /\ Listed(h4, 4) /\ Listed(h3, 3) /\ Listed(en, 1) /\ Listed(de, 1)
  BY <1>2 DEF Notify, Listed, StepNames
<1>5. Listed(plug, 6) /\ Listed(usr, 18)
  <2>1. PlanOf("use") = GetPlugin /\ StepCount("use") = 6 /\ "use" \in Courses
    BY DEF PlanOf, StepCount, Courses
  <2>2. PlanOf("user") = HandleUserSwitched /\ StepCount("user") = 18 /\ "user" \in Courses
    BY DEF PlanOf, StepCount, Courses
  <2> QED
    BY <1>2, <2>1, <2>2, PlanSteps
<1>6. Listed(sw, 7)
  <2>1. Both(sw, h4, 4, n, 3)
    BY <1>3, <1>4, JoinedSteps
  <2> QED
    BY <2>1 DEF Both
<1>7. Listed(init, 10)
  <2>1. Both(init, h3, 3, sw, 7)
    BY <1>3, <1>4, <1>6, JoinedSteps
  <2> QED
    BY <2>1 DEF Both
<1>8. Listed(e2, 8)
  <2>1. Both(e1, en, 1, plug, 6)
    BY <1>2, <1>4, <1>5, JoinedSteps
  <2>2. Listed(e1, 7)
    BY <2>1 DEF Both
  <2>3. Both(e2, e1, 7, de, 1)
    BY <1>2, <1>4, <2>2, JoinedSteps
  <2> QED
    BY <2>3 DEF Both
<1>11. sw # <<>> /\ init # <<>>
  <2>1. sw \in Seq(StepNames) /\ Len(sw) > 0 /\ init \in Seq(StepNames) /\ Len(init) > 0
    BY <1>6, <1>7 DEF Listed
  <2> QED
    BY <2>1
<1>9. Rest(usr, 8) = init /\ Rest(init, 3) = sw
  BY <1>3, <1>4, <1>6, <1>7, <1>8, <1>11, RestJoined
<1>10. Rest(usr, 11) = sw
  <2>1. \A k \in Nat : 8 + k <= 18 => SubSeq(Rest(usr, 8), k + 1, Len(Rest(usr, 8))) = Rest(usr, 8 + k)
    BY <1>5, RestOfRest
  <2>2. 3 \in Nat /\ 8 + 3 = 11 /\ 11 <= 18
    OBVIOUS
  <2>3. SubSeq(init, 3 + 1, Len(init)) = Rest(usr, 11)
    BY <1>9, <2>1, <2>2
  <2> QED
    BY <1>9, <2>3 DEF Rest
<1>12. PlanOf("user") = usr /\ StepCount("user") = 18
  BY <1>2 DEF PlanOf, StepCount
<1>13. Done(init, "user", 8)
  BY <1>9, <1>11, <1>12 DEF Done, OnPlan
<1>14. Done(sw, "user", 11)
  BY <1>10, <1>11, <1>12 DEF Done, OnPlan
<1> QED
  BY <1>1, <1>2, <1>13, <1>14

\* Something happens to s0, which no thread is about.
LEMMA Happened ==
  ASSUME NEW list, Fits(list), NEW s0, s0 \in Subjects => Quiet(list, s0),
         \A s \in Subjects : s # s0 => Same(s)
  PROVE  /\ FitsExcept(list, s0)'
         /\ (s0 \in Subjects => Stable(s0)') => Fits(list)'
<1>1. IsList(list) /\ Sole(list)
  BY DEF Fits
<1>2. ASSUME NEW i \in 1 .. Len(list) PROVE ThreadFits(list[i])'
  <2>1. PICK x : x = list[i]
    OBVIOUS
  <2>2. ThreadFits(x)
    BY <2>1 DEF Fits
  <2>3. CASE x.subject \notin Subjects
    BY <2>1, <2>2, <2>3, OthersFit
  <2>4. CASE x.subject \in Subjects
    <3>1. x.subject # s0
      BY <2>1, <2>4 DEF Quiet
    <3>2. ThreadFits(x)'
      BY <2>2, <2>4, <3>1, Untouched
    <3> QED
      BY <2>1, <3>2
  <2> QED
    BY <2>3, <2>4
<1>3. ASSUME NEW s \in Subjects, s # s0, Quiet(list, s) PROVE Stable(s)'
  <2>1. Stable(s)
    BY <1>3 DEF Fits
  <2> QED
    BY <1>3, <2>1, Untouched
<1>4. FitsExcept(list, s0)'
  BY <1>1, <1>2, <1>3 DEF FitsExcept, IsList, Sole, Quiet
<1>5. ASSUME s0 \in Subjects => Stable(s0)' PROVE Fits(list)'
  <2>1. \A s \in Subjects : Quiet(list, s) => Stable(s)'
    BY <1>3, <1>5
  <2> QED
    BY <1>1, <1>2, <2>1 DEF Fits, IsList, Sole, Quiet
<1> QED
  BY <1>4, <1>5

\* Something happens that a thread t is started about.
LEMMA SetGoing ==
  ASSUME Fits(threads), NEW t, t.subject \in Subjects => Quiet(threads, t.subject),
         \A s \in Subjects : s # t.subject => Same(s),
         NEW c \in Courses, NEW n \in Nat, n < StepCount(c), Done(t.todo, c, n), StandsAt(c, n, t)',
         threads' = Append(threads, t)
  PROVE  Fits(threads)'
<1>0. PICK old, list : old = threads /\ list = Append(old, t)
  OBVIOUS
<1>1. FitsExcept(old, t.subject)'
  BY <1>0, Happened
<1>2. n = 0 \/ n \in 1 .. StepCount(c) - 1
  BY DEF StepCount, Courses
<1>3. t.subject \in Subjects => Quiet(old, t.subject)
  BY <1>0
<1>4. Fits(list)'
  BY <1>0, <1>1, <1>2, <1>3, Added
<1> QED
  BY <1>0, <1>4

\* What happens to a device, in order.
LEMMA DeviceEvents ==
  ASSUME SwitchTypeOK, StatusParts, inOrder', NEW d \in Devices,
         OnDeviceOnline(d) \/ OnDeviceChanged(d) \/ OnDeviceOffline(d) \/ OnCharacteristicProfileUpdate(d)
  PROVE  StatusParts'
<1>0. /\ Fits(threads) /\ DpHeard /\ Subscriptions /\ OutsideOK /\ DOMAIN threads = 1 .. Len(threads)
      /\ d \in Subjects /\ d # "switch" /\ d # "value" /\ d # Local
  BY SwitchAssumption DEF StatusParts, SwitchTypeOK, Subjects
<1>1. Quiet(threads, d)
  BY <1>0 DEF Quiet, Happens, Fair, OnDeviceOnline, OnDeviceChanged, OnDeviceOffline, OnCharacteristicProfileUpdate
<1>2. DeviceStable(d)
  BY <1>0, <1>1 DEF Fits, Stable
<1>3. /\ UNCHANGED <<devices, cache, subscribed, switchUser, shareUser, observed>>
      /\ UNCHANGED <<dpVars, subscriptions, proxy, deaf>>
      /\ user' = user /\ setting' = setting /\ failed' \in {failed, failed \ {d}} /\ stale \subseteq stale'
  BY DEF Happens, OnDeviceOnline, OnDeviceChanged, OnDeviceOffline, OnCharacteristicProfileUpdate, subscriptions,
         adapter, switchVars, outside
<1>4. DpHeard' /\ Subscriptions'
  BY <1>0, <1>3, HeardStays
<1>5. \A e : SameCache(e)
  BY <1>3 DEF SameCache
<1>s. ASSUME NEW t, t.subject = d, t.dev = d, NEW c \in {"online", "offline", "update"}, t.todo = PlanOf(c), OutsideOK',
             StandsAt(c, 0, t)', \A e \in Devices : e # d => (e \in online' <=> e \in online) /\ profile'[e] = profile[e],
             profile'[Local] = profile[Local], threads' = Append(threads, t)
      PROVE  StatusParts'
  <2>1. \A s \in Subjects : s # t.subject => Same(s)
    BY <1>0, <1>3, <1>5, <1>s DEF Same, SameSwitch, SameDevice, Subjects
  <2>2. c \in Courses /\ 0 \in Nat /\ 0 < StepCount(c)
    BY <1>s DEF Courses, StepCount
  <2>3. Done(t.todo, c, 0)
    BY <1>s, <2>2, Begins
  <2>4. Fits(threads)'
    BY <1>0, <1>1, <1>s, <2>1, <2>2, <2>3, SetGoing
  <2> QED
    BY <1>4, <1>s, <2>4 DEF StatusParts
<1>6. CASE OnDeviceOnline(d) \/ OnDeviceChanged(d)
  <2>1. PICK t : t = Thread(d, d, 0, FALSE, Online)
    OBVIOUS
  <2>2. threads' = Append(threads, t) /\ profile' = profile /\ online' = online \cup {d}
    BY <1>6, <2>1 DEF OnDeviceOnline, OnDeviceChanged, outside
  <2>3. t.subject = d /\ t.dev = d /\ t.todo = PlanOf("online")
    BY <2>1 DEF Thread, PlanOf
  <2>5. OnlineAt(0, d)'
    BY <1>2, <1>3, <2>2 DEF DeviceStable, OnlineAt, CacheRight, Heard, CacheAs
  <2>6. StandsAt("online", 0, t)'
    BY <2>3, <2>5 DEF StandsAt
  <2>7. OutsideOK'
    BY <1>0, <1>3, <2>2 DEF OutsideOK
  <2> QED
    BY <1>s, <2>2, <2>3, <2>6, <2>7
<1>7. CASE OnDeviceOffline(d)
  <2>1. PICK t : t = Thread(d, d, 0, FALSE, Offline)
    OBVIOUS
  <2>2. threads' = Append(threads, t) /\ profile' = profile /\ online' = online \ {d}
    BY <1>7, <2>1 DEF OnDeviceOffline
  <2>3. t.subject = d /\ t.dev = d /\ t.todo = PlanOf("offline")
    BY <2>1 DEF Thread, PlanOf
  <2>5. OfflineAt(0, d)'
    BY <1>2, <1>3, <2>2 DEF DeviceStable, OfflineAt, CacheRight, Heard, CacheAs
  <2>6. StandsAt("offline", 0, t)'
    BY <2>3, <2>5 DEF StandsAt
  <2>7. OutsideOK'
    BY <1>0, <1>3, <2>2 DEF OutsideOK
  <2> QED
    BY <1>s, <2>2, <2>3, <2>6, <2>7
<1>8. CASE OnCharacteristicProfileUpdate(d)
  <2>1. /\ profile' = [profile EXCEPT ![d] = ~profile[d]] /\ online' = online /\ failed' = failed
        /\ \/ d \in dpSubs /\ callback /\ threads' = Append(threads, Thread(d, d, 0, ~profile[d], OnProfileUpdate))
           \/ /\ ~(d \in dpSubs /\ callback) /\ threads' = threads
              /\ (~dpUp \/ saEvents # <<>>) /\ d \in DOMAIN cache => d \in stale'
    BY <1>8 DEF OnCharacteristicProfileUpdate
  <2>2. /\ profile' \in [Devices \cup {Local} -> BOOLEAN] /\ profile'[d] = ~profile[d]
        /\ \A e \in Devices \cup {Local} : e # d => profile'[e] = profile[e]
    BY <1>0, <2>1 DEF OutsideOK
  <2>3. OutsideOK'
    BY <1>0, <1>3, <2>1, <2>2 DEF OutsideOK
  <2>5. CASE d \in dpSubs /\ callback
    <3>1. PICK t : t = Thread(d, d, 0, ~profile[d], OnProfileUpdate)
      OBVIOUS
    <3>2. threads' = Append(threads, t)
      BY <2>1, <2>5, <3>1
    <3>3. t.subject = d /\ t.dev = d /\ t.todo = PlanOf("update") /\ t.new = ~profile[d]
      BY <3>1 DEF Thread, PlanOf
    <3>4. d \in deaf \cup subscribed
      BY <1>0, <2>5 DEF Subscriptions
    <3>5. UpdateAt(0, d, t.new)'
      BY <1>2, <1>3, <2>1, <2>2, <3>3, <3>4 DEF UpdateAt, DeviceStable
    <3>6. StandsAt("update", 0, t)'
      BY <3>3, <3>5 DEF StandsAt
    <3> QED
      BY <1>0, <1>s, <2>1, <2>2, <2>3, <3>2, <3>3, <3>6
  <2>6. CASE ~(d \in dpSubs /\ callback)
    <3>1. threads' = threads
      BY <2>1, <2>6
    <3>2. CacheRight(d)'
      <4>1. CASE ~dpUp \/ saEvents # <<>>
        BY <1>3, <2>1, <2>6, <4>1 DEF CacheRight, CacheAs
      <4>2. CASE dpUp /\ saEvents = <<>>
        <5>1. d \in deaf \/ d \notin subscribed
          BY <1>0, <2>6, <4>2 DEF Subscriptions
        <5>2. d \in deaf \/ d \notin DOMAIN cache
          BY <1>2, <5>1 DEF DeviceStable, Heard
        <5> QED
          BY <1>3, <5>2 DEF CacheRight, CacheAs
      <4> QED
        BY <4>1, <4>2
    <3>3. Stable(d)'
      BY <1>0, <1>2, <1>3, <2>1, <3>2 DEF Stable, DeviceStable, Heard
    <3>4. \A s \in Subjects : s # d => Same(s)
      BY <1>0, <1>3, <1>5, <2>1, <2>2 DEF Same, SameSwitch, SameDevice, Subjects
    <3>5. PICK list : list = threads
      OBVIOUS
    <3>6. Fits(list)'
      BY <1>0, <1>1, <3>3, <3>4, <3>5, Happened
    <3> QED
      BY <1>4, <2>3, <3>1, <3>5, <3>6 DEF StatusParts
  <2> QED
    BY <2>5, <2>6
<1> QED
  BY <1>6, <1>7, <1>8

\* What happens to the switch, in order, and a use of the plugin.
LEMMA SwitchHappens ==
  ASSUME SwitchTypeOK, StatusParts, inOrder',
         \/ \E u \in Users : SettingChanges(u) \/ UserSwitches(u)
         \/ WifiDisabled \/ UsesPlugin
  PROVE  StatusParts'
<1>0. /\ Fits(threads) /\ DpHeard /\ Subscriptions /\ OutsideOK /\ DOMAIN threads = 1 .. Len(threads)
      /\ "switch" \in Subjects /\ "use" \notin Subjects /\ setting \in [Users -> BOOLEAN]
      /\ "switch" \notin Devices /\ "value" \notin Devices
  BY SwitchAssumption DEF StatusParts, SwitchTypeOK, Subjects
<1>1. PICK subject \in {"switch", "use"} :
        /\ \E mended \in SUBSET {"switch", "value"} : Happens(subject, mended)
        /\ ~UsesPlugin => subject = "switch"
  BY DEF SettingChanges, UserSwitches, WifiDisabled, UsesPlugin
<1>2. Quiet(threads, subject)
  BY <1>0, <1>1 DEF Quiet, Happens, Fair
<1>3. /\ UNCHANGED <<devices, cache, subscribed, switchUser, shareUser, observed>>
      /\ UNCHANGED <<dpVars, subscriptions, proxy, deaf>>
      /\ online' = online /\ profile' = profile /\ stale' = stale /\ failed' \ {"switch", "value"} = failed \ {"switch", "value"}
  BY <1>1 DEF Happens, SettingChanges, UserSwitches, WifiDisabled, UsesPlugin, subscriptions, adapter, switchVars, outside
<1>4. DpHeard' /\ Subscriptions'
  BY <1>0, <1>3, HeardStays
<1>5. \A s \in Subjects : s # "switch" => Same(s)
  BY <1>0, <1>3 DEF Same, SameDevice, SameCache, Subjects
<1>6. ~UsesPlugin => SwitchStable
  BY <1>0, <1>1, <1>2 DEF Fits, Stable
<1>s. ASSUME ~UsesPlugin, NEW t, t.subject = "switch", NEW c \in Courses, NEW n \in Nat, n < StepCount(c), Done(t.todo, c, n),
             StandsAt(c, n, t)', threads' = Append(threads, t), OutsideOK'
      PROVE  StatusParts'
  <2>1. Fits(threads)'
    BY <1>0, <1>1, <1>2, <1>5, <1>s, SetGoing
  <2> QED
    BY <1>4, <1>s, <2>1 DEF StatusParts
<1>c. "user" \in Courses /\ "wifi" \in Courses /\ "use" \in Courses /\ StepCount("user") = 18 /\ StepCount("wifi") = 8 /\ StepCount("use") = 6
  BY DEF Courses, StepCount
<1>7. ASSUME NEW u \in Users, SettingChanges(u), ~UsesPlugin PROVE StatusParts'
  <2>1. /\ setting' = [setting EXCEPT ![u] = ~setting[u]] /\ user' = user
        /\ threads' = IF u \in observed THEN Append(threads, Thread("switch", Local, switchUser, FALSE, SetSwitch)) ELSE threads
        /\ ("switch" \in failed' <=> "switch" \in failed) /\ (u \notin observed => failed' = failed)
    BY <1>7 DEF SettingChanges, Happens
  <2>2. OutsideOK' /\ user \in Users
    BY <1>0, <1>3, <2>1 DEF OutsideOK
  <2>3. "switch" \in failed \/ (switchUser = user /\ user \in observed)
    BY <1>6, <1>7 DEF SwitchStable
  <2>4. CASE u \in observed
    <3>1. PICK t : t = Thread("switch", Local, switchUser, FALSE, SetSwitch)
      OBVIOUS
    <3>2. threads' = Append(threads, t) /\ t.subject = "switch" /\ t.dev = Local /\ t.user = switchUser /\ t.todo = SetSwitch
      BY <2>1, <2>4, <3>1 DEF Thread
    <3>3. "switch" \in failed' \/ UserAt(11, t.user, t.new)'
      BY <1>3, <2>1, <2>3, <3>2 DEF UserAt
    <3>4. StandsAt("user", 11, t)'
      BY <3>2, <3>3 DEF StandsAt
    <3>5. Done(t.todo, "user", 11)
      BY <3>2, Begins
    <3> QED
      BY <1>7, <1>c, <1>s, <2>2, <3>2, <3>4, <3>5
  <2>5. CASE u \notin observed
    <3>1. threads' = threads /\ failed' = failed /\ ("switch" \in failed \/ u # user)
      BY <2>1, <2>3, <2>5
    <3>2. "switch" \in failed \/ setting'[user] = setting[user]
      BY <1>0, <2>1, <2>2, <3>1
    <3>3. Stable("switch")'
      BY <1>3, <1>6, <1>7, <2>1, <3>1, <3>2 DEF Stable, SwitchStable, CacheAs
    <3>5. PICK list : list = threads
      OBVIOUS
    <3>6. Fits(list)'
      BY <1>0, <1>1, <1>2, <1>5, <1>7, <3>3, <3>5, Happened
    <3> QED
      BY <1>4, <2>2, <3>1, <3>5, <3>6 DEF StatusParts
  <2> QED
    BY <2>4, <2>5
<1>8. ASSUME NEW u \in Users, UserSwitches(u), ~UsesPlugin PROVE StatusParts'
  <2>1. PICK t : t = Thread("switch", Local, u, FALSE, HandleUserSwitched)
    OBVIOUS
  <2>2. threads' = Append(threads, t) /\ user' = u
    BY <1>8, <2>1 DEF UserSwitches
  <2>3. t.subject = "switch" /\ t.dev = Local /\ t.user = u /\ t.todo = PlanOf("user")
    BY <2>1 DEF Thread, PlanOf
  <2>4. UserAt(0, t.user, t.new)'
    BY <2>2, <2>3 DEF UserAt
  <2>5. StandsAt("user", 0, t)'
    BY <2>3, <2>4 DEF StandsAt
  <2>6. OutsideOK'
    BY <1>0, <1>3, <2>2 DEF OutsideOK
  <2>7. Done(t.todo, "user", 0)
    BY <1>c, <2>3, Begins
  <2> QED
    BY <1>8, <1>c, <1>s, <2>2, <2>3, <2>5, <2>6, <2>7
<1>9. CASE WifiDisabled /\ ~UsesPlugin
  <2>1. PICK t : t = Thread("switch", Local, WifiUser, FALSE, HandleWifiDisabled)
    OBVIOUS
  <2>2. threads' = Append(threads, t) /\ user' = user /\ setting' = setting /\ failed' = failed
    BY <1>9, <2>1 DEF WifiDisabled, Happens, outside
  <2>3. t.subject = "switch" /\ t.dev = Local /\ t.todo = PlanOf("wifi")
    BY <2>1 DEF Thread, PlanOf
  <2>4. SwitchStable'
    BY <1>3, <1>6, <1>9, <2>2 DEF SwitchStable, CacheAs
  <2>5. StandsAt("wifi", 0, t)'
    BY <2>3, <2>4 DEF StandsAt
  <2>6. OutsideOK'
    BY <1>0, <1>3, <2>2 DEF OutsideOK
  <2>7. Done(t.todo, "wifi", 0)
    BY <1>c, <2>3, Begins
  <2> QED
    BY <1>9, <1>c, <1>s, <2>2, <2>3, <2>5, <2>6, <2>7
<1>10. CASE UsesPlugin
  <2>1. PICK t : t = Thread("use", Local, 0, FALSE, GetPlugin)
    OBVIOUS
  <2>2. threads' = Append(threads, t) /\ user' = user /\ setting' = setting /\ failed' = failed
    BY <1>10, <2>1 DEF UsesPlugin, Happens, outside
  <2>3. t.subject = "use" /\ t.todo = PlanOf("use")
    BY <2>1 DEF Thread, PlanOf
  <2>4. StandsAt("use", 0, t)'
    BY <2>3 DEF StandsAt
  <2>5. Done(t.todo, "use", 0)
    BY <1>c, <2>3, Begins
  <2>6. OutsideOK'
    BY <1>0, <1>3, <2>2 DEF OutsideOK
  <2>7. \A s \in Subjects : s # t.subject => Same(s)
    BY <1>3, <1>5, <2>2 DEF Same, SameSwitch, SameCache
  <2>8. Fits(threads)'
    BY <1>0, <1>c, <2>2, <2>3, <2>4, <2>5, <2>7, SetGoing
  <2> QED
    BY <1>4, <2>6, <2>8 DEF StatusParts
<1> QED
  BY <1>7, <1>8, <1>9, <1>10

\* What happens to the proxy and to the device profile service.
LEMMA ProfileEvents ==
  ASSUME StatusParts, PostDelayReleaseProxy \/ ClearDeviceProfileService \/ SendSubscribeInfos \/ DpDies \/ DpStarts
  PROVE  StatusParts'
<1>1. DpHeard' /\ Subscriptions'
  BY HeardEvents DEF StatusParts
<1>2. /\ UNCHANGED <<outside, devices, subscribed, switchVars>> /\ threads' = threads
      /\ failed' = failed /\ deaf' = deaf
      /\ cache' = <<>> \/ (cache' = cache /\ stale' = stale)
  BY DEF PostDelayReleaseProxy, ClearDeviceProfileService, SendSubscribeInfos, DpDies, DpStarts, Happens, subscriptions, excuses
<1>3. \A d : SameCache(d)
  BY <1>2 DEF SameCache
<1>4. \A s \in Subjects : Same(s)
  BY <1>2, <1>3 DEF Same, SameSwitch, SameDevice, outside, switchVars
<1>5. OutsideOK'
  BY <1>2 DEF StatusParts, OutsideOK, outside
<1>6. PICK list : list = threads
  OBVIOUS
<1>7. "use" \notin Subjects
  BY SwitchAssumption DEF Subjects
<1>8. Fits(list)'
  BY <1>4, <1>6, <1>7, Happened DEF StatusParts
<1> QED
  BY <1>1, <1>2, <1>5, <1>6, <1>8 DEF StatusParts

\* StatusInv holds at first: the switch's thread is where SwitchInit is, and no device is there.
LEMMA StatusAtFirst ==
  ASSUME DistributedInit
  PROVE  StatusInv
<1>0. PICK t : t = Thread("switch", Local, user, FALSE, SwitchInit)
  OBVIOUS
<1>1. threads = <<t>> /\ t.subject = "switch" /\ t.dev = Local /\ t.user = user /\ t.todo = SwitchInit
  BY <1>0 DEF DistributedInit, Thread
<1>2. threads \in Seq({t}) /\ Len(threads) = 1 /\ threads[1] = t
  BY <1>1
<1>3. IsList(threads) /\ Sole(threads)
  BY <1>2 DEF IsList, Sole
<1>4. ThreadFits(t)
  <2>1. StandsAt("user", 8, t)
    BY <1>1 DEF StandsAt, UserAt
  <2>2. OnPlan(t.todo, PlanOf("user"), 8) /\ 8 \in 0 .. StepCount("user") - 1 /\ "user" \in Courses
    <3>1. Done(t.todo, "user", 8)
      BY <1>1, Begins
    <3>2. StepCount("user") = 18 /\ "user" \in Courses
      BY DEF StepCount, Courses
    <3> QED
      BY <3>1, <3>2 DEF Done
  <2> QED
    BY <2>1, <2>2 DEF ThreadFits
<1>5. ASSUME NEW s \in Subjects, Quiet(threads, s) PROVE Stable(s)
  <2>1. s # "switch" /\ s \in Devices
    BY <1>1, <1>2, <1>5 DEF Quiet, Subjects
  <2>2. DeviceStable(s)
    BY DEF DeviceStable, CacheRight, Heard, CacheAs, DistributedInit
  <2> QED
    BY <2>1, <2>2 DEF Stable
<1>6. Fits(threads)
  BY <1>2, <1>3, <1>4, <1>5 DEF Fits
<1>7. OutsideOK
  BY SwitchAssumption DEF OutsideOK, DistributedInit
<1>8. DpHeard /\ Subscriptions
  BY DEF DpHeard, Subscriptions, DistributedInit
<1> QED
  BY <1>6, <1>7, <1>8, PluginAtFirst DEF StatusInv, StatusParts

\* Every step keeps it.
LEMMA StatusKept == StatusInv /\ [DistributedNext]_distributedVars => StatusInv'
<1> SUFFICES ASSUME StatusInv, [DistributedNext]_distributedVars, inOrder' PROVE StatusParts'
  BY PluginInvKept DEF StatusInv
<1>1. CASE UNCHANGED distributedVars
  <2>1. /\ UNCHANGED <<outside, devices, cache, subscribed, switchVars, excuses>>
        /\ UNCHANGED <<dpVars, subscriptions, proxy, deaf>> /\ threads' = threads /\ inOrder' = inOrder
    BY <1>1 DEF distributedVars, subscriptions, adapter, excuses
  <2>2. StatusParts
    BY <2>1 DEF StatusInv
  <2>3. DpHeard' /\ Subscriptions' /\ OutsideOK'
    BY <2>1, <2>2, HeardStays DEF StatusParts, OutsideOK, outside
  <2>4. PICK list : list = threads
    OBVIOUS
  <2>5. \A s \in Subjects : Same(s)
    BY <2>1, AllSame
  <2>6. "use" \notin Subjects
    BY SwitchAssumption DEF Subjects
  <2>7. Fits(list)'
    BY <2>2, <2>4, <2>5, <2>6, Happened DEF StatusParts
  <2> QED
    BY <2>1, <2>3, <2>4, <2>7 DEF StatusParts
<1>2. CASE DistributedNext
  <2>0. StatusParts /\ SwitchTypeOK
    BY <1>2 DEF StatusInv, DistributedNext, PluginInv
  <2>1. ASSUME NEW i \in DOMAIN threads, Step(i) PROVE StatusParts'
    BY <2>0, <2>1, NeutralActions, SwitchActions, UpdateFits, UnknownFits, PutFits, WriteBackFits, DeviceActions DEF Step
  <2> QED
    BY <1>2, <2>0, <2>1, DeviceEvents, SwitchHappens, ProfileEvents DEF DistributedNext
<1> QED
  BY <1>1, <1>2

\* StatusAsSet: once everything has been dealt with, IsOn goes by the foreground user's switch,
\* which the other devices are told, by the devices that are online and by their switches, save
\* where a call has failed or a change was missed and has not been made up for.
THEOREM StatusIsAsSet == SwitchSpec => []StatusAsSet
<1>1. DistributedInit => StatusInv
  BY StatusAtFirst
<1>2. StatusInv => StatusAsSet
  <2> SUFFICES ASSUME StatusInv, Settled
               PROVE  /\ failed \cap {"switch", "value"} = {} =>
                           Value(Local) = setting[user] /\ profile[Local] = setting[user]
                      /\ \A d \in Devices \ failed : d \in devices <=> d \in online
                      /\ \A d \in devices \ (deaf \cup stale) : Value(d) = profile[d]
    BY DEF StatusAsSet
  <2>1. threads = <<>> /\ OutsideOK /\ Fits(threads)
    BY DEF Settled, StatusInv, StatusParts
  <2>2. \A s \in Subjects : Stable(s)
    BY <2>1 DEF Fits, Quiet
  <2>3. SwitchStable /\ \A d \in Devices : DeviceStable(d)
    BY <2>2, SwitchAssumption DEF Stable, Subjects
  <2>4. failed \cap {"switch", "value"} = {} => Value(Local) = setting[user] /\ profile[Local] = setting[user]
    BY <2>3 DEF SwitchStable, CacheAs, Value
  <2>5. devices \subseteq Devices
    BY <2>1 DEF OutsideOK
  <2>6. \A d \in Devices \ failed : d \in devices <=> d \in online
    BY <2>3 DEF DeviceStable
  <2>7. \A d \in devices \ (deaf \cup stale) : Value(d) = profile[d]
    BY <2>3, <2>5 DEF DeviceStable, CacheRight, CacheAs, Value
  <2> QED
    BY <2>4, <2>6, <2>7
<1> QED
  BY <1>1, <1>2, StatusKept, PTL DEF SwitchSpec

=============================================================================
