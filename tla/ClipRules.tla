----------------------------- MODULE ClipRules -----------------------------
(***************************************************************************)
(* What keeps the clip of a user back from an application that may paste   *)
(* (pasteboard_service.cpp): the screen's lock and the share option of the *)
(* clip, which is the application's own or the one that the device's       *)
(* management (MDM) or the application has set for the token.  The         *)
(* screen's events come on threads of their own, and the options are in a  *)
(* concurrent map which one operation touches twice.                       *)
(***************************************************************************)
EXTENDS Naturals

CONSTANTS Tokens,      \* applications
          System,      \* the system applications among them
          Managers,    \* those that may manage their share option
          Proxies,     \* those that may copy for another token
          NoToken,
          MaxCopies, MaxChanges

ASSUME RulesAssumption ==
    /\ System \cup Managers \cup Proxies \subseteq Tokens
    /\ NoToken \notin Tokens
    /\ MaxCopies \in Nat /\ MaxChanges \in Nat

VARIABLES
    clip, copies,      \* the clip of the user in clips_
    remote,            \* the peer's event: none, a new clip, the one that is in clips_
    locked,            \* the screen
    screenStatus,      \* screenStatusMap_ of the user
    screenEvents,      \* threads of OnReceiveEvent on their way
    options,           \* globalShareOptions_
    removing,          \* applications in RemoveAppShareOptions, past the check
    wish,              \* what MDM has set for a token and not removed
    changes

screenVars == <<locked, screenStatus, screenEvents>>
optionVars == <<options, removing, wish>>
rulesVars == <<clip, copies, remote, screenVars, optionVars, changes>>

\* ScreenEvent, in its order.
Default == 0
ScreenLocked == 1
ScreenUnlocked == 2

ShareOptions == {"InApp", "LocalDevice", "CrossDevice"}
NoOption == [source |-> "none", shareOption |-> "none"]

\* The last two fields are what was true at the copy, for the properties.
NoClip == [token |-> NoToken, shareOption |-> "none", screen |-> Default, isRemote |-> FALSE,
           unlocked |-> FALSE, wish |-> "none"]

\* No event is on its way, and the status is what the screen is.
Known == screenEvents = {} /\ screenStatus = IF locked THEN ScreenLocked ELSE ScreenUnlocked

\* ScreenLockManager may have no answer for the user.
InitScreenStatus ==
    screenStatus \in {Default, IF locked THEN ScreenLocked ELSE ScreenUnlocked}

RulesInit ==
    /\ clip = NoClip /\ copies = 0 /\ remote = "none"
    /\ locked \in BOOLEAN /\ InitScreenStatus /\ screenEvents = {}
    /\ options = [t \in Tokens |-> NoOption] /\ removing = {}
    /\ wish = [t \in Tokens |-> "none"] /\ changes = 0

-----------------------------------------------------------------------------
(* The readers.  An answer is the clip it is taken from, or NoClip.        *)

GetScreenStatus == screenStatus

IsDataValid(t) ==
    /\ clip # NoClip
    /\ clip.screen <= GetScreenStatus
    /\ clip.shareOption = "InApp" => clip.token = t

\* The peer's clip is taken only when the screen is unlocked.
TakesRemote == remote = "new" /\ GetScreenStatus = ScreenUnlocked
RemoteClip == [NoClip EXCEPT !.shareOption = "CrossDevice", !.isRemote = TRUE]

LocalAnswer(t) == IF IsDataValid(t) THEN clip ELSE NoClip
GetLocalMimeTypes(t) == LocalAnswer(t)
GetMimeTypes(t) == IF TakesRemote THEN RemoteClip ELSE GetLocalMimeTypes(t)
HasPasteData(t) == IF TakesRemote THEN RemoteClip ELSE LocalAnswer(t)
GetPasteDataInfo(t) == LocalAnswer(t)
HasLocalDataType(t) == LocalAnswer(t)
DetectPatterns(t) == HasLocalDataType(t)
GetPasteData(t) == IF TakesRemote THEN RemoteClip ELSE LocalAnswer(t)
HasRemoteData ==
    CASE GetScreenStatus # ScreenUnlocked -> NoClip
      [] TakesRemote -> RemoteClip
      [] OTHER -> IF clip.isRemote THEN clip ELSE NoClip

Answers(t) == {GetMimeTypes(t), HasPasteData(t), GetPasteDataInfo(t), DetectPatterns(t),
               GetPasteData(t), HasRemoteData}

\* These two ask neither for the screen nor for the share option.
IsRemoteData == IF clip = NoClip THEN remote = "new" ELSE clip.isRemote
GetDataSource == IF clip.isRemote THEN NoToken ELSE clip.token

\* GetPasteDataInner: what is fetched from the peer becomes the clip of the user.
GetPasteDataInner(t) ==
    /\ TakesRemote
    /\ clip' = GetPasteData(t) /\ remote' = "same"
    /\ UNCHANGED <<copies, screenVars, optionVars, changes>>

-----------------------------------------------------------------------------
(* Copies.                                                                 *)

GetDataTokenId(t) == IF t \in Proxies THEN Tokens ELSE {t}

UpdateShareOption(t, own) == IF options[t] = NoOption THEN own ELSE options[t].shareOption

\* SetPasteData and SetPasteDataInfo.
SetPasteData(caller, own) ==
    /\ copies < MaxCopies /\ copies' = copies + 1
    /\ \E t \in GetDataTokenId(caller) :
          clip' = [token |-> t, shareOption |-> UpdateShareOption(t, own),
                   screen |-> GetScreenStatus, isRemote |-> FALSE,
                   unlocked |-> ~locked /\ Known, wish |-> wish[t]]
    /\ UNCHANGED <<remote, screenVars, optionVars, changes>>

CheckMdmShareOption(t) == options[t].source = "MDM"

\* SetDistributedData lets a clip of this device through to the plugin.
MayPublish ==
    /\ clip # NoClip /\ ~clip.isRemote
    /\ clip.shareOption # "InApp"
    /\ CheckMdmShareOption(clip.token) => clip.shareOption # "LocalDevice"

-----------------------------------------------------------------------------
(* The screen, the user, the peer.                                         *)

May == changes < MaxChanges /\ changes' = changes + 1

\* OnReceiveEvent starts a thread.
ScreenChanges ==
    /\ May /\ locked' = ~locked
    /\ screenEvents' = screenEvents \cup {IF locked THEN ScreenUnlocked ELSE ScreenLocked}
    /\ UNCHANGED <<clip, copies, remote, screenStatus, optionVars>>

\* The event may carry no valid user (MakeEventContext).
ResolveUserIdFromWant == BOOLEAN

HandleScreen(event) ==
    /\ event \in screenEvents /\ screenEvents' = screenEvents \ {event}
    /\ \E isValid \in ResolveUserIdFromWant :
          screenStatus' = IF isValid THEN event ELSE screenStatus
    /\ UNCHANGED <<clip, copies, remote, locked, optionVars, changes>>

HandleScreenLocked == HandleScreen(ScreenLocked)
HandleScreenUnlocked == HandleScreen(ScreenUnlocked)

\* ClearByEventUser.
HandleUserStopping ==
    /\ clip # NoClip /\ clip' = NoClip
    /\ UNCHANGED <<copies, remote, screenVars, optionVars, changes>>

PeerCopies ==
    /\ remote # "new" /\ May /\ remote' = "new"
    /\ UNCHANGED <<clip, copies, screenVars, optionVars>>

-----------------------------------------------------------------------------
(* Share options.                                                          *)

\* MDM is the only caller (IsCallerUidValid).
SetGlobalShareOption(t, o) ==
    /\ May
    /\ options' = [options EXCEPT ![t] = [source |-> "MDM", shareOption |-> o]]
    /\ wish' = [wish EXCEPT ![t] = IF t \in removing THEN "none" ELSE o]
    /\ UNCHANGED <<clip, copies, remote, screenVars, removing>>

RemoveGlobalShareOption(t) ==
    /\ options[t] # NoOption /\ May
    /\ options' = [options EXCEPT ![t] = NoOption]
    /\ wish' = [wish EXCEPT ![t] = "none"]
    /\ UNCHANGED <<clip, copies, remote, screenVars, removing>>

MaySet(t, o) == t \in System \/ (t \in Managers /\ o = "InApp")

\* Mutant: the option of an application replaces what is there.
SetAnyway(t, o) ==
    /\ MaySet(t, o) /\ May
    /\ options' = [options EXCEPT ![t] = [source |-> "APP", shareOption |-> o]]
    /\ UNCHANGED <<clip, copies, remote, screenVars, removing, wish>>

\* ComputeIfAbsent.
SetAppShareOptions(t, o) ==
    /\ MaySet(t, o) /\ May
    /\ options' = [options EXCEPT ![t] = IF @ = NoOption THEN [source |-> "APP", shareOption |-> o]
                                         ELSE @]
    /\ UNCHANGED <<clip, copies, remote, screenVars, removing, wish>>

\* ComputeIfPresent has copied an option of the application's own ...
RemoveAppShareOptions(t) ==
    /\ t \in (System \cup Managers) \ removing
    /\ options[t].source = "APP"
    /\ removing' = removing \cup {t}
    /\ UNCHANGED <<clip, copies, remote, screenVars, options, wish, changes>>

\* ... and Erase removes what is there by then.
EraseAppShareOption(t) ==
    /\ t \in removing /\ removing' = removing \ {t}
    /\ options' = [options EXCEPT ![t] = NoOption]
    /\ UNCHANGED <<clip, copies, remote, screenVars, wish, changes>>

-----------------------------------------------------------------------------
RulesNext ==
    \/ \E t \in Tokens :
          \/ GetPasteDataInner(t)
          \/ \E o \in ShareOptions :
                SetPasteData(t, o) \/ SetGlobalShareOption(t, o) \/ SetAppShareOptions(t, o)
          \/ RemoveGlobalShareOption(t) \/ RemoveAppShareOptions(t) \/ EraseAppShareOption(t)
    \/ ScreenChanges \/ HandleScreenLocked \/ HandleScreenUnlocked
    \/ HandleUserStopping \/ PeerCopies

-----------------------------------------------------------------------------
(* Properties.                                                             *)

\* What was copied while the screen was unlocked is neither given nor described to anybody
\* while it is locked, once the screen's events have been dealt with and if the status of
\* the user was known at the copy (SetPasteDataInfo, IsDataValid).
LockedKept ==
    clip.unlocked /\ locked /\ Known => \A t \in Tokens : clip \notin Answers(t)

\* What MDM has set for a token is obeyed by every clip that is copied with the token
\* afterwards: InApp clips are neither given nor described to others nor published, and
\* LocalDevice clips are not published while MDM says so, whatever the applications set and
\* remove meanwhile (UpdateShareOption, SetAppShareOptions, RemoveAppShareOptions,
\* CheckMdmShareOption).  What MDM sets between the two steps of a RemoveAppShareOptions is
\* the exception: the second step erases it.
MdmObeyed ==
    /\ clip.wish = "InApp" => ~MayPublish /\ \A t \in Tokens \ {clip.token} : clip \notin Answers(t)
    /\ clip.wish = "LocalDevice" /\ wish[clip.token] = "LocalDevice" => ~MayPublish

\* A clip reaches only those that the screen and the share options let it reach.
RulesObeyed == LockedKept /\ MdmObeyed

=============================================================================
