------------------------------ MODULE P2PLink ------------------------------
(***************************************************************************)
(* The file-transfer link to one peer device: p2pMap_ with the references  *)
(* that keep the link open, the presync reference and its block, the       *)
(* timers that release forgotten references, and the detached threads that *)
(* connect and disconnect the distributed file system.                     *)
(*                                                                         *)
(* Every paste belongs to an application of its own.  What is done under   *)
(* p2pMapMutex_ is one step; the link itself (ConnectDfs, DisconnectDfs),  *)
(* the plugin and the device manager are external.                         *)
(***************************************************************************)
EXTENDS Integers, FiniteSets

CONSTANTS
  Pastes,        \* paste ids, one application each
  PreThreads,    \* threads that run PreEstablishP2PLink
  EntryReaders,  \* the applications among them that read delayed entries
  None,          \* no block, no process
  MaxOthers,     \* bound: threads of EstablishP2PLink and PreEstablishP2PLink
  MaxFailures,   \* bound: connections that fail
  MaxCuts        \* bound: DISCONNECT events, switch-offs, departures of the peer

ASSUME BoundsAssumption == MaxOthers \in Nat /\ MaxFailures \in Nat /\ MaxCuts \in Nat

\* The keys of p2pMap_[networkId] besides the paste ids: P2P_PRESYNC_ID and the
\* paste id of the clip itself, under which delayed entries are fetched.
Pre == "presync"
Entry == "entry"
Keys == Pastes \cup {Pre, Entry}

ASSUME NamesAssumption == 
  /\ {Pre, Entry} \cap Pastes = {}
  /\ None \notin PreThreads \cup Pastes
  /\ EntryReaders \subseteq Pastes

VARIABLES
  listed,        \* p2pMap_ has the device
  refs,          \* the keys of its inner map
  entryPid,      \* callPid of the Entry reference
  preOk,         \* isSuccess of the Pre reference
  preBlock,      \* preSyncP2pMap_: the thread whose block it holds, or None
  establishing,  \* p2pEstablishInfo_ holds a block for the device
  armed,         \* keys whose timer is armed
  expiring,      \* keys whose timer has fired: PasteComplete is about to run
  dropping,      \* the expired presync thread has yet to drop the block
  paste,         \* the threads of GetData and their clients
  alive,         \* applications that are running
  opener,        \* threads of OnEstablishP2PLinkTask
  reader,        \* threads of EstablishP2PLink, for delayed entries
  pre,           \* threads of PreEstablishP2PLink
  closing,       \* DisconnectDfs threads that have not run yet
  leaving,       \* AppExit threads that decided to close the link
  connected,     \* the link is up
  online,        \* the device manager knows the peer
  failures, cuts,
  stranded       \* history: a link may have been left open (see LinkReleased)

map == <<listed, refs, entryPid, preOk, preBlock, establishing>>
timers == <<armed, expiring, dropping>>
threads == <<paste, alive, opener, reader, pre>>
link == <<closing, leaving, connected, online>>
history == <<failures, cuts, stranded>>
vars == <<map, timers, threads, link, history>>

Init ==
  /\ listed = FALSE /\ refs = {} /\ preOk = FALSE /\ preBlock = None
  /\ entryPid = None
  /\ establishing = FALSE
  /\ armed = {} /\ expiring = {} /\ dropping = FALSE
  /\ paste = [p \in Pastes |-> "new"]
  /\ alive = [p \in Pastes |-> TRUE]
  /\ opener = [p \in Pastes |-> "none"]
  /\ reader = [p \in Pastes |-> "none"]
  /\ pre = [t \in PreThreads |-> "none"]
  /\ closing = 0 /\ leaving = 0 /\ connected = FALSE /\ online = TRUE
  /\ failures = 0 /\ cuts = 0 /\ stranded = FALSE

Goes(p, pc) == paste' = [paste EXCEPT ![p] = pc]

\* CloseP2PLink: a peer the device manager does not know is left alone.
CloseP2PLink == closing' = IF online THEN closing + 1 ELSE closing

\* Another thread than those of the pastes may start.
RoomForAnother ==
  Cardinality({p \in Pastes : reader[p] # "none"}) + Cardinality({t \in PreThreads : pre[t] # "none"})
    < MaxOthers

Fails ==
  /\ failures < MaxFailures
  /\ failures' = failures + 1

-----------------------------------------------------------------------------
(* PasteComplete, for whoever calls it *)

PasteComplete(k) ==
  LET left == refs \ {k} IN
  /\ refs' = left
  /\ listed' = (listed /\ left # {})
  /\ IF listed /\ left = {} THEN CloseP2PLink ELSE closing' = closing

-----------------------------------------------------------------------------
(* GetData *)

\* CheckAndReuseP2PLink registers the paste and arms its timer; a presync link
\* that is up is taken over, with its block.
CheckAndReuseP2PLink(p) ==
  LET reuse == Pre \in refs /\ preOk IN
  /\ paste[p] = "new"
  /\ listed' = TRUE
  /\ refs' = (refs \ IF reuse THEN {Pre} ELSE {}) \cup {p}
  /\ armed' = (armed \ IF reuse THEN {Pre} ELSE {}) \cup {p}
  /\ preBlock' = IF reuse THEN None ELSE preBlock
  /\ Goes(p, IF reuse /\ preBlock # None THEN "fetch" ELSE "establish")
  /\ UNCHANGED <<entryPid, preOk, establishing, expiring, dropping, alive, opener, reader, pre,
                 link, history>>

\* Otherwise EstablishP2PLinkTask starts a thread that opens the link.
EstablishP2PLinkTask(p) ==
  /\ paste[p] = "establish"
  /\ establishing' = TRUE
  /\ opener' = [opener EXCEPT ![p] = "open"]
  /\ Goes(p, "fetch")
  /\ UNCHANGED <<listed, refs, entryPid, preOk, preBlock, timers, alive, reader, pre, link, history>>

\* The data came without files, or not at all: the paste gives its reference
\* up (HandleGetDataError, CheckAndGrantRemoteUri), ...
FetchNeedsNoLink(p) ==
  /\ paste[p] = "fetch"
  /\ PasteComplete(p)
  /\ Goes(p, "clear")
  /\ UNCHANGED <<entryPid, preOk, preBlock, establishing, timers, alive, opener, reader, pre,
                 leaving, connected, online, history>>

\* ... or it has files and waited for the block, or it is a local clip or of
\* another device, so that the reference stays.
FetchKeepsLink(p) ==
  /\ paste[p] = "fetch"
  /\ Goes(p, "clear")
  /\ UNCHANGED <<map, timers, alive, opener, reader, pre, link, history>>

ClearP2PEstablishTaskInfo(p) ==
  /\ paste[p] = "clear"
  /\ establishing' = FALSE
  /\ Goes(p, "pasted")
  /\ UNCHANGED <<listed, refs, entryPid, preOk, preBlock, timers, alive, opener, reader, pre, link,
                 history>>

-----------------------------------------------------------------------------
(* The client: PasteStart and PasteComplete over IPC, and its death *)

PasteStart(p) ==
  /\ paste[p] = "pasted" /\ alive[p]
  /\ armed' = armed \ {p}
  /\ Goes(p, "started")
  /\ UNCHANGED <<map, expiring, dropping, alive, opener, reader, pre, link, history>>

ClientCompletes(p) ==
  /\ paste[p] \in {"pasted", "started"} /\ alive[p]
  /\ PasteComplete(p)
  /\ Goes(p, "done")
  /\ UNCHANGED <<entryPid, preOk, preBlock, establishing, timers, alive, opener, reader, pre,
                 leaving, connected, online, history>>

\* The keys whose callPid is p.
Owned(p) == {p} \cup IF entryPid = p THEN {Entry} ELSE {}

\* Mutant: AppExit drops the references and does not close the empty link.
ExitWithoutClose(p) ==
  LET left == refs \ Owned(p) IN
  /\ alive[p]
  /\ alive' = [alive EXCEPT ![p] = FALSE]
  /\ refs' = left
  /\ listed' = (listed /\ left # {})
  /\ UNCHANGED <<entryPid, preOk, preBlock, establishing, timers, paste, opener, reader, pre,
                 link, history>>

\* AppExit: the references of the process go, a device without references is
\* erased, and closed once the lock is released.  The timers stay armed (the
\* call that should cancel them names the device).
AppExit(p) ==
  LET left == refs \ Owned(p) IN
  /\ alive[p]
  /\ alive' = [alive EXCEPT ![p] = FALSE]
  /\ refs' = left
  /\ listed' = (listed /\ left # {})
  /\ leaving' = IF listed /\ left = {} THEN leaving + 1 ELSE leaving
  /\ UNCHANGED <<entryPid, preOk, preBlock, establishing, timers, paste, opener, reader, pre,
                 closing, connected, online, history>>

AppExitCloses ==
  /\ leaving > 0
  /\ leaving' = leaving - 1
  /\ CloseP2PLink
  /\ UNCHANGED <<map, timers, threads, connected, online, history>>

-----------------------------------------------------------------------------
(* OnEstablishP2PLinkTask *)

OpenConnects(p) ==
  /\ opener[p] = "open" /\ online
  /\ connected' = TRUE
  /\ opener' = [opener EXCEPT ![p] = "check"]
  /\ UNCHANGED <<map, timers, paste, alive, reader, pre, closing, leaving, online, history>>

\* No device, no plugin or no connection: the whole device is erased, with the
\* references of other pastes.
OpenFails(p) ==
  /\ opener[p] = "open"
  /\ Fails
  /\ listed' = FALSE /\ refs' = {}
  /\ opener' = [opener EXCEPT ![p] = "check"]
  /\ UNCHANGED <<entryPid, preOk, preBlock, establishing, timers, paste, alive, reader, pre, link,
                 cuts, stranded>>

\* The resource or the service state was refused: nothing is connected or erased.
OpenRefused(p) ==
  /\ opener[p] = "open"
  /\ Fails
  /\ opener' = [opener EXCEPT ![p] = "check"]
  /\ UNCHANGED <<map, timers, paste, alive, reader, pre, link, cuts, stranded>>

\* Mutant: the opener does not look whether the link is still wanted.
OpenUnchecked(p) ==
  /\ opener[p] = "check"
  /\ opener' = [opener EXCEPT ![p] = "done"]
  /\ closing' = closing
  /\ UNCHANGED <<map, timers, paste, alive, reader, pre, leaving, connected, online, history>>

\* If every reference went away meanwhile, the link is closed again.
OpenChecks(p) ==
  /\ opener[p] = "check"
  /\ opener' = [opener EXCEPT ![p] = "done"]
  /\ IF refs = {} THEN CloseP2PLink ELSE closing' = closing
  /\ UNCHANGED <<map, timers, paste, alive, reader, pre, leaving, connected, online, history>>

-----------------------------------------------------------------------------
(* EstablishP2PLink: an application reads a delayed entry that needs files. *)

EstablishP2PLink(p) ==
  /\ p \in EntryReaders
  /\ paste[p] \in {"pasted", "started"} /\ alive[p]
  /\ reader[p] = "none" /\ RoomForAnother
  /\ listed' = TRUE
  /\ refs' = refs \cup {Entry}
  /\ entryPid' = p
  /\ armed' = armed \cup {Entry}
  /\ reader' = [reader EXCEPT ![p] = "open"]
  /\ UNCHANGED <<preOk, preBlock, establishing, expiring, dropping, paste, alive, opener, pre,
                 link, history>>

\* Nobody looks again whether the link is still wanted.
ReaderConnects(p) ==
  /\ reader[p] = "open" /\ online
  /\ connected' = TRUE
  /\ reader' = [reader EXCEPT ![p] = "done"]
  /\ stranded' = (stranded \/ refs = {})
  /\ UNCHANGED <<map, timers, paste, alive, opener, pre, closing, leaving, online, failures, cuts>>

ReaderFails(p) ==
  /\ reader[p] = "open"
  /\ Fails
  /\ listed' = FALSE /\ refs' = {}
  /\ reader' = [reader EXCEPT ![p] = "done"]
  /\ stranded' = (stranded \/ connected)
  /\ UNCHANGED <<entryPid, preOk, preBlock, establishing, timers, paste, alive, opener, pre, link,
                 cuts>>

ReaderRefused(p) ==
  /\ reader[p] = "open"
  /\ Fails
  /\ reader' = [reader EXCEPT ![p] = "done"]
  /\ UNCHANGED <<map, timers, paste, alive, opener, pre, link, cuts, stranded>>

-----------------------------------------------------------------------------
(* PreEstablishP2PLink: the peer announced a copy. *)

\* A thread that has not run; which one is of no importance.
FreeThread == CHOOSE t \in PreThreads : pre[t] = "none"

\* A paste is establishing the link: nothing to do.
PreReturns(t) ==
  /\ pre[t] = "none" /\ t = FreeThread /\ RoomForAnother
  /\ establishing
  /\ pre' = [pre EXCEPT ![t] = "done"]
  /\ UNCHANGED <<map, timers, paste, alive, opener, reader, link, history>>

\* The link is up: it is kept for another while.
PreProlongs(t) ==
  /\ pre[t] = "none" /\ t = FreeThread /\ RoomForAnother
  /\ ~establishing
  /\ Pre \in refs /\ preOk
  /\ armed' = armed \cup {Pre}
  /\ pre' = [pre EXCEPT ![t] = "done"]
  /\ UNCHANGED <<map, expiring, dropping, paste, alive, opener, reader, link, history>>

PreRegisters(t) ==
  /\ pre[t] = "none" /\ t = FreeThread /\ RoomForAnother
  /\ ~establishing
  /\ ~(Pre \in refs /\ preOk)
  /\ listed' = TRUE
  /\ refs' = refs \cup {Pre}
  /\ preOk' = FALSE
  /\ preBlock' = IF preBlock = None THEN t ELSE preBlock
  /\ pre' = [pre EXCEPT ![t] = "open"]
  /\ UNCHANGED <<entryPid, establishing, timers, paste, alive, opener, reader, link, history>>

PreConnects(t) ==
  /\ pre[t] = "open" /\ online
  /\ connected' = TRUE
  /\ pre' = [pre EXCEPT ![t] = "succeed"]
  /\ UNCHANGED <<map, timers, paste, alive, opener, reader, closing, leaving, online, history>>

\* Mutant: the presync link gets no time limit.
PreSucceedsForever(t) ==
  /\ pre[t] = "succeed"
  /\ listed' = TRUE
  /\ refs' = refs \cup {Pre}
  /\ preOk' = TRUE
  /\ pre' = [pre EXCEPT ![t] = "done"]
  /\ UNCHANGED <<entryPid, preBlock, establishing, timers, paste, alive, opener, reader, link,
                 history>>

PreSucceeds(t) ==
  /\ pre[t] = "succeed"
  /\ listed' = TRUE
  /\ refs' = refs \cup {Pre}
  /\ preOk' = TRUE
  /\ armed' = armed \cup {Pre}
  /\ pre' = [pre EXCEPT ![t] = "done"]
  /\ UNCHANGED <<entryPid, preBlock, establishing, expiring, dropping, paste, alive, opener, reader,
                 link, history>>

\* DeletePreSyncP2pFromP2pMap: the timer is cancelled, then, under the lock, ...
PreFails(t) ==
  /\ pre[t] = "open"
  /\ Fails
  /\ armed' = armed \ {Pre}
  /\ pre' = [pre EXCEPT ![t] = "drop"]
  /\ UNCHANGED <<map, expiring, dropping, paste, alive, opener, reader, link, cuts, stranded>>

\* ... the reference goes, with the block.  A device that has no reference left
\* stays in the map and is not closed.
PreDrops(t) ==
  /\ pre[t] = "drop"
  /\ refs' = refs \ {Pre}
  /\ preBlock' = None
  /\ pre' = [pre EXCEPT ![t] = "done"]
  /\ stranded' = (stranded \/ refs \subseteq {Pre})
  /\ UNCHANGED <<listed, entryPid, preOk, establishing, timers, paste, alive, opener, reader, link,
                 failures, cuts>>

-----------------------------------------------------------------------------
(* Timers and the environment *)

\* A timer starts a detached thread, which cancelling it no longer stops.
TimerFires(k) ==
  /\ k \in armed
  /\ k \notin expiring
  /\ armed' = armed \ {k}
  /\ expiring' = expiring \cup {k}
  /\ UNCHANGED <<map, dropping, threads, link, history>>

Expires(k) ==
  /\ k \in expiring
  /\ expiring' = expiring \ {k}
  /\ dropping' = (dropping \/ k = Pre)
  /\ PasteComplete(k)
  /\ UNCHANGED <<entryPid, preOk, preBlock, establishing, armed, threads, leaving, connected, online,
                 history>>

DeletePreSyncP2pMap ==
  /\ dropping
  /\ dropping' = FALSE
  /\ preBlock' = None
  /\ UNCHANGED <<listed, refs, entryPid, preOk, establishing, armed, expiring, threads, link, history>>

DisconnectDfs ==
  /\ closing > 0
  /\ closing' = closing - 1
  /\ connected' = FALSE
  /\ UNCHANGED <<map, timers, threads, leaving, online, history>>

Cut ==
  /\ cuts < MaxCuts
  /\ cuts' = cuts + 1

\* A DISCONNECT event, or the switch going off (OnConfigChangeInner): the device
\* is erased and closed.  The presync block and the timers stay.
Disconnected ==
  /\ listed
  /\ Cut
  /\ listed' = FALSE /\ refs' = {}
  /\ CloseP2PLink
  /\ UNCHANGED <<entryPid, preOk, preBlock, establishing, timers, threads, leaving, connected, online,
                 failures, stranded>>

PeerGoes ==
  /\ online
  /\ Cut
  /\ online' = FALSE
  /\ connected' = FALSE
  /\ UNCHANGED <<map, timers, threads, closing, leaving, failures, stranded>>

PeerReturns ==
  /\ ~online
  /\ online' = TRUE
  /\ UNCHANGED <<map, timers, threads, closing, leaving, connected, history>>

-----------------------------------------------------------------------------
PasteStep(p) ==
  \/ EstablishP2PLinkTask(p) \/ FetchNeedsNoLink(p) \/ FetchKeepsLink(p)
  \/ ClearP2PEstablishTaskInfo(p)

OpenerStep(p) == OpenConnects(p) \/ OpenFails(p) \/ OpenRefused(p) \/ OpenChecks(p)
ReaderStep(p) == ReaderConnects(p) \/ ReaderFails(p) \/ ReaderRefused(p)
PreStep(t) == PreConnects(t) \/ PreSucceeds(t) \/ PreFails(t) \/ PreDrops(t)

Next ==
  \/ \E p \in Pastes :
       \/ CheckAndReuseP2PLink(p) \/ PasteStep(p) \/ OpenerStep(p)
       \/ PasteStart(p) \/ ClientCompletes(p) \/ AppExit(p)
       \/ EstablishP2PLink(p) \/ ReaderStep(p)
  \/ \E t \in PreThreads : PreReturns(t) \/ PreProlongs(t) \/ PreRegisters(t) \/ PreStep(t)
  \/ \E k \in Keys : TimerFires(k) \/ Expires(k)
  \/ DeletePreSyncP2pMap \/ AppExitCloses \/ DisconnectDfs
  \/ Disconnected \/ PeerGoes \/ PeerReturns

Spec == Init /\ [][Next]_vars

\* Threads run to their end, timers fire, a peer that left comes back or every
\* attempt to reach it fails, and an application that called pasteStart calls
\* pasteComplete or dies.
Fairness ==
  /\ \A p \in Pastes :
       /\ WF_vars(PasteStep(p)) /\ WF_vars(OpenerStep(p)) /\ WF_vars(ReaderStep(p))
       /\ WF_vars(paste[p] = "started" /\ (ClientCompletes(p) \/ AppExit(p)))
  /\ \A t \in PreThreads : WF_vars(PreStep(t))
  /\ \A k \in Keys : WF_vars(TimerFires(k)) /\ WF_vars(Expires(k))
  /\ WF_vars(AppExitCloses) /\ WF_vars(DisconnectDfs)
  /\ WF_vars(PeerReturns)

FairSpec == Spec /\ Fairness

-----------------------------------------------------------------------------
(* Properties *)

\* Every variable has the shape the code gives it.
TypeOK ==
  /\ listed \in BOOLEAN /\ refs \subseteq Keys /\ entryPid \in Pastes \cup {None}
  /\ preOk \in BOOLEAN /\ preBlock \in PreThreads \cup {None} /\ establishing \in BOOLEAN
  /\ armed \subseteq Keys /\ expiring \subseteq Keys /\ dropping \in BOOLEAN
  /\ paste \in [Pastes -> {"new", "establish", "fetch", "clear", "pasted", "started", "done"}]
  /\ alive \in [Pastes -> BOOLEAN]
  /\ opener \in [Pastes -> {"none", "open", "check", "done"}]
  /\ reader \in [Pastes -> {"none", "open", "done"}]
  /\ pre \in [PreThreads -> {"none", "open", "succeed", "drop", "done"}]
  /\ closing \in Nat /\ leaving \in Nat
  /\ connected \in BOOLEAN /\ online \in BOOLEAN
  /\ failures \in 0..MaxFailures /\ cuts \in 0..MaxCuts /\ stranded \in BOOLEAN

\* Someone who will close the link, or look again whether it is wanted.
Attended ==
  \/ closing > 0
  \/ leaving > 0
  \/ \E p \in Pastes : opener[p] = "check"
  \/ \E t \in PreThreads : pre[t] = "succeed"

\* A link that is up has a reference that keeps it up, or a thread that is about
\* to close it or to check it.  Two paths leave a link behind, which the next
\* paste or exit must close: a presync connection that fails after the last paste
\* has gone (PreDrops) and a delayed entry whose reference is gone by the time its
\* connection ends (EstablishP2PLink).
NoLinkLeft == connected /\ ~stranded => refs # {} \/ Attended

\* Every reference is watched: a timer is armed or has fired for it, or its client
\* has taken over (pasteStart) and will complete the paste or die.
RefsWatched ==
  /\ \A p \in Pastes \cap refs : p \in armed \cup expiring \/ paste[p] = "started"
  /\ Entry \in refs => Entry \in armed \cup expiring
  /\ Pre \in refs =>
       \/ Pre \in armed \cup expiring
       \/ \E t \in PreThreads : pre[t] \in {"open", "succeed", "drop"}

\* A link that is up comes down again once the pastes are over.
LinkReleased == connected ~> (~connected \/ stranded)

=============================================================================
