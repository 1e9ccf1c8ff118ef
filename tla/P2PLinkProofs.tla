--------------------------- MODULE P2PLinkProofs ---------------------------
(***************************************************************************)
(* For any number of pastes, presync threads, failures and cuts: a link    *)
(* that is up is referenced or about to be closed or checked, and every    *)
(* reference is watched by a timer, a thread or a client.                  *)
(***************************************************************************)
EXTENDS P2PLink, TLAPS

\* The device is in the map whenever it has references, so that the last one to
\* go closes the link ...
RefsListed == refs # {} => listed

\* ... and closing has an effect on every link that is up, because the device
\* manager knows its peer.
ConnectedOnline == connected => online

Counters == closing \in Nat /\ leaving \in Nat

Functions ==
  /\ opener \in [Pastes -> {"none", "open", "check", "done"}]
  /\ pre \in [PreThreads -> {"none", "open", "succeed", "drop", "done"}]

\* The thread that opens the link for a paste is started once.
OpenInv ==
  /\ paste \in [Pastes -> {"new", "establish", "fetch", "clear", "pasted", "started", "done"}]
  /\ opener \in [Pastes -> {"none", "open", "check", "done"}]
  /\ \A p \in Pastes : paste[p] \in {"new", "establish"} => opener[p] = "none"

\* No step breaks it.
LEMMA OpenedOnce == OpenInv /\ [Next]_vars => OpenInv'
<1> SUFFICES ASSUME OpenInv, [Next]_vars PROVE OpenInv'
  OBVIOUS
<1> USE DEF OpenInv, Goes
<1>1. ASSUME NEW p \in Pastes,
             \/ CheckAndReuseP2PLink(p) \/ PasteStep(p) \/ PasteStart(p) \/ ClientCompletes(p)
      PROVE  OpenInv'
  BY <1>1 DEF CheckAndReuseP2PLink, PasteStep, EstablishP2PLinkTask, FetchNeedsNoLink, FetchKeepsLink,
              ClearP2PEstablishTaskInfo, PasteStart, ClientCompletes
<1>2. ASSUME NEW p \in Pastes, OpenerStep(p) PROVE OpenInv'
  BY <1>2 DEF OpenerStep, OpenConnects, OpenFails, OpenRefused, OpenChecks
<1>3. ASSUME NEW p \in Pastes, AppExit(p) \/ EstablishP2PLink(p) \/ ReaderStep(p) PROVE OpenInv'
  BY <1>3 DEF AppExit, EstablishP2PLink, ReaderStep, ReaderConnects, ReaderFails, ReaderRefused
<1>4. ASSUME NEW t \in PreThreads,
             PreReturns(t) \/ PreProlongs(t) \/ PreRegisters(t) \/ PreStep(t)
      PROVE  OpenInv'
  BY <1>4 DEF PreReturns, PreProlongs, PreRegisters, PreStep, PreConnects, PreSucceeds, PreFails,
              PreDrops
<1>5. ASSUME NEW k \in Keys, TimerFires(k) \/ Expires(k) PROVE OpenInv'
  BY <1>5 DEF TimerFires, Expires, threads
<1>6. CASE \/ DeletePreSyncP2pMap \/ AppExitCloses \/ DisconnectDfs
           \/ Disconnected \/ PeerGoes \/ PeerReturns \/ UNCHANGED vars
  BY <1>6 DEF DeletePreSyncP2pMap, AppExitCloses, DisconnectDfs, Disconnected, PeerGoes, PeerReturns,
              vars, threads
<1> HIDE DEF OpenInv, Goes
<1> QED BY <1>1, <1>2, <1>3, <1>4, <1>5, <1>6 DEF Next

LinkInv == Counters /\ Functions /\ RefsListed /\ ConnectedOnline /\ NoLinkLeft

\* The link invariant holds initially.
LEMMA LinkInit == Init => OpenInv /\ LinkInv
  BY DEF Init, OpenInv, LinkInv, Counters, Functions, RefsListed, ConnectedOnline, NoLinkLeft

\* Giving a reference up, whoever does it, leaves the link referenced or closing.
LEMMA CompleteKeepsLink ==
  ASSUME NEW k, LinkInv, PasteComplete(k),
         UNCHANGED <<opener, pre, leaving, connected, online, stranded>>
  PROVE  LinkInv'
<1> USE DEF LinkInv, Counters, Functions, RefsListed, ConnectedOnline, NoLinkLeft, Attended,
            PasteComplete, CloseP2PLink
<1>1. CASE listed /\ refs \ {k} = {}
  BY <1>1
<1>2. CASE ~(listed /\ refs \ {k} = {})
  BY <1>2
<1> QED BY <1>1, <1>2

\* The steps of a paste, its client and its threads.
LEMMA PasteKeepsLink ==
  ASSUME NEW p \in Pastes, OpenInv, LinkInv,
         \/ CheckAndReuseP2PLink(p) \/ PasteStep(p) \/ OpenerStep(p)
         \/ PasteStart(p) \/ ClientCompletes(p) \/ AppExit(p)
         \/ EstablishP2PLink(p) \/ ReaderStep(p)
  PROVE  LinkInv'
<1> USE DEF LinkInv, Counters, Functions, RefsListed, ConnectedOnline, NoLinkLeft, Attended, Fails
<1>1. CASE CheckAndReuseP2PLink(p)
  BY <1>1 DEF CheckAndReuseP2PLink, link, history
<1>2. CASE EstablishP2PLinkTask(p)
  <2>1. opener' = [opener EXCEPT ![p] = "open"]
        /\ UNCHANGED <<closing, leaving, connected, online, pre, refs, listed, stranded>>
    BY <1>2 DEF EstablishP2PLinkTask, link, history, timers
  <2>2. CASE opener[p] # "check"
    BY <2>1, <2>2
  <2>3. CASE opener[p] = "check"
    BY <2>3, <1>2 DEF EstablishP2PLinkTask, OpenInv
  <2> QED BY <2>2, <2>3
<1>3. CASE FetchNeedsNoLink(p)
  BY <1>3, CompleteKeepsLink DEF FetchNeedsNoLink, history
<1>4. CASE FetchKeepsLink(p)
  BY <1>4 DEF FetchKeepsLink, link, history, map
<1>5. CASE ClearP2PEstablishTaskInfo(p)
  BY <1>5 DEF ClearP2PEstablishTaskInfo, link, history
<1>6. CASE OpenConnects(p)
  BY <1>6 DEF OpenConnects, history, map
<1>7. CASE OpenFails(p)
  BY <1>7 DEF OpenFails, link
<1>8. CASE OpenRefused(p)
  BY <1>8 DEF OpenRefused, link, map
<1>9. CASE OpenChecks(p)
  <2>1. CASE refs = {}
    BY <1>9, <2>1 DEF OpenChecks, CloseP2PLink, map, history
  <2>2. CASE refs # {}
    BY <1>9, <2>2 DEF OpenChecks, map, history
  <2> QED BY <2>1, <2>2
<1>10. CASE PasteStart(p)
  BY <1>10 DEF PasteStart, link, history, map
<1>11. CASE ClientCompletes(p)
  BY <1>11, CompleteKeepsLink DEF ClientCompletes, history
<1>12. CASE AppExit(p)
  <2> DEFINE left == refs \ Owned(p)
  <2>1. CASE listed /\ left = {}
    BY <1>12, <2>1 DEF AppExit, history
  <2>2. CASE ~(listed /\ left = {})
    BY <1>12, <2>2 DEF AppExit, history
  <2> QED BY <2>1, <2>2
<1>13. CASE EstablishP2PLink(p)
  BY <1>13 DEF EstablishP2PLink, link, history
<1>14. CASE ReaderConnects(p)
  BY <1>14 DEF ReaderConnects, map
<1>15. CASE ReaderFails(p)
  BY <1>15 DEF ReaderFails, link
<1>16. CASE ReaderRefused(p)
  BY <1>16 DEF ReaderRefused, link, map
<1> HIDE DEF LinkInv, Counters, Functions, RefsListed, ConnectedOnline, NoLinkLeft, Attended, Fails
<1> QED
  BY <1>1, <1>2, <1>3, <1>4, <1>5, <1>6, <1>7, <1>8, <1>9, <1>10, <1>11, <1>12, <1>13, <1>14,
     <1>15, <1>16
     DEF PasteStep, OpenerStep, ReaderStep

\* The steps of a presync thread.
LEMMA PreKeepsLink ==
  ASSUME NEW t \in PreThreads, LinkInv,
         PreReturns(t) \/ PreProlongs(t) \/ PreRegisters(t) \/ PreStep(t)
  PROVE  LinkInv'
<1> USE DEF LinkInv, Counters, Functions, RefsListed, ConnectedOnline, NoLinkLeft, Attended, Fails
<1>1. CASE PreReturns(t)
  BY <1>1 DEF PreReturns, map, link, history
<1>2. CASE PreProlongs(t)
  BY <1>2 DEF PreProlongs, map, link, history
<1>3. CASE PreRegisters(t)
  BY <1>3 DEF PreRegisters, link, history
<1>4. CASE PreConnects(t)
  BY <1>4 DEF PreConnects, map, history
<1>5. CASE PreSucceeds(t)
  BY <1>5 DEF PreSucceeds, link, history
<1>6. CASE PreFails(t)
  BY <1>6 DEF PreFails, map, link
<1>7. CASE PreDrops(t)
  BY <1>7 DEF PreDrops, link
<1> HIDE DEF LinkInv, Counters, Functions, RefsListed, ConnectedOnline, NoLinkLeft, Attended, Fails
<1> QED BY <1>1, <1>2, <1>3, <1>4, <1>5, <1>6, <1>7 DEF PreStep

\* The steps of timers, disconnecting threads and the environment.
LEMMA OthersKeepLink ==
  ASSUME LinkInv,
         \/ \E k \in Keys : TimerFires(k) \/ Expires(k)
         \/ DeletePreSyncP2pMap \/ AppExitCloses \/ DisconnectDfs
         \/ Disconnected \/ PeerGoes \/ PeerReturns
         \/ UNCHANGED vars
  PROVE  LinkInv'
<1> USE DEF LinkInv, Counters, Functions, RefsListed, ConnectedOnline, NoLinkLeft, Attended, Cut
<1>1. ASSUME NEW k \in Keys, TimerFires(k) PROVE LinkInv'
  BY <1>1 DEF TimerFires, map, threads, link, history
<1>2. ASSUME NEW k \in Keys, Expires(k) PROVE LinkInv'
  BY <1>2, CompleteKeepsLink DEF Expires, threads, history
<1>3. CASE DeletePreSyncP2pMap
  BY <1>3 DEF DeletePreSyncP2pMap, threads, link, history
<1>4. CASE AppExitCloses
  BY <1>4 DEF AppExitCloses, CloseP2PLink, map, threads, history
<1>5. CASE DisconnectDfs
  BY <1>5 DEF DisconnectDfs, map, threads, history
<1>6. CASE Disconnected
  BY <1>6 DEF Disconnected, CloseP2PLink, threads
<1>7. CASE PeerGoes
  BY <1>7 DEF PeerGoes, map, threads
<1>8. CASE PeerReturns
  BY <1>8 DEF PeerReturns, map, threads, history
<1>9. CASE UNCHANGED vars
  BY <1>9 DEF vars, map, threads, link, history
<1> HIDE DEF LinkInv, Counters, Functions, RefsListed, ConnectedOnline, NoLinkLeft, Attended, Cut
<1> QED BY <1>1, <1>2, <1>3, <1>4, <1>5, <1>6, <1>7, <1>8, <1>9

\* However pastes, presync threads, timers, exits and failures interleave, a link
\* that is up is referenced, or closed or checked by a thread that is under way,
\* but for the two paths that leave it behind (OpenP2PLink without a second look,
\* DeletePreSyncP2pFromP2pMap).
THEOREM LinkAttended == Spec => []NoLinkLeft
<1>1. OpenInv /\ LinkInv /\ [Next]_vars => LinkInv'
  BY PasteKeepsLink, PreKeepsLink, OthersKeepLink DEF Next
<1>2. LinkInv => NoLinkLeft
  BY DEF LinkInv
<1> QED BY LinkInit, OpenedOnce, <1>1, <1>2, PTL DEF Spec

-----------------------------------------------------------------------------
\* RefsWatched is inductive together with the shape of the threads it names.
WatchInv ==
  /\ paste \in [Pastes -> {"new", "establish", "fetch", "clear", "pasted", "started", "done"}]
  /\ pre \in [PreThreads -> {"none", "open", "succeed", "drop", "done"}]
  /\ RefsWatched

\* A step that gives up references and leaves timers and threads alone.
LEMMA FewerRefsWatched ==
  ASSUME WatchInv, refs' \subseteq refs, UNCHANGED <<armed, expiring, paste, pre>>
  PROVE  WatchInv'
BY DEF WatchInv, RefsWatched

\* The steps of a paste, its client and its threads.
LEMMA PasteKeepsWatch ==
  ASSUME NEW p \in Pastes, WatchInv,
         \/ CheckAndReuseP2PLink(p) \/ PasteStep(p) \/ OpenerStep(p)
         \/ PasteStart(p) \/ ClientCompletes(p) \/ AppExit(p)
         \/ EstablishP2PLink(p) \/ ReaderStep(p)
  PROVE  WatchInv'
<1> USE NamesAssumption DEF WatchInv, RefsWatched, Goes, timers
<1>1. CASE CheckAndReuseP2PLink(p)
  <2> DEFINE reuse == Pre \in refs /\ preOk
  <2>1. CASE reuse
    BY <1>1, <2>1 DEF CheckAndReuseP2PLink
  <2>2. CASE ~reuse
    BY <1>1, <2>2 DEF CheckAndReuseP2PLink
  <2> QED BY <2>1, <2>2
<1>2. CASE EstablishP2PLinkTask(p)
  BY <1>2 DEF EstablishP2PLinkTask
<1>3. CASE FetchNeedsNoLink(p)
  BY <1>3 DEF FetchNeedsNoLink, PasteComplete
<1>4. CASE FetchKeepsLink(p)
  BY <1>4 DEF FetchKeepsLink, map
<1>5. CASE ClearP2PEstablishTaskInfo(p)
  BY <1>5 DEF ClearP2PEstablishTaskInfo
<1>6. CASE OpenerStep(p)
  BY <1>6, FewerRefsWatched DEF OpenerStep, OpenConnects, OpenFails, OpenRefused, OpenChecks, map
<1>7. CASE PasteStart(p)
  BY <1>7 DEF PasteStart, map
<1>8. CASE ClientCompletes(p)
  BY <1>8 DEF ClientCompletes, PasteComplete
<1>9. CASE AppExit(p)
  BY <1>9, FewerRefsWatched DEF AppExit
<1>10. CASE EstablishP2PLink(p)
  BY <1>10 DEF EstablishP2PLink
<1>11. CASE ReaderStep(p)
  BY <1>11, FewerRefsWatched DEF ReaderStep, ReaderConnects, ReaderFails, ReaderRefused, map
<1> HIDE DEF WatchInv
<1> QED
  BY <1>1, <1>2, <1>3, <1>4, <1>5, <1>6, <1>7, <1>8, <1>9, <1>10, <1>11 DEF PasteStep

\* The steps of a presync thread.
LEMMA PreKeepsWatch ==
  ASSUME NEW t \in PreThreads, WatchInv,
         PreReturns(t) \/ PreProlongs(t) \/ PreRegisters(t) \/ PreStep(t)
  PROVE  WatchInv'
<1> USE NamesAssumption DEF WatchInv, RefsWatched, timers
<1>1. CASE PreReturns(t)
  BY <1>1 DEF PreReturns, map
<1>2. CASE PreProlongs(t)
  BY <1>2 DEF PreProlongs, map
<1>3. CASE PreRegisters(t)
  <2>1. pre'[t] = "open" /\ pre' \in [PreThreads -> {"none", "open", "succeed", "drop", "done"}]
    BY <1>3 DEF PreRegisters
  <2>2. UNCHANGED <<armed, expiring, paste>> /\ refs' = refs \cup {Pre}
    BY <1>3 DEF PreRegisters
  <2> QED BY <2>1, <2>2 DEF Pre, Entry
<1>4. CASE PreConnects(t)
  BY <1>4 DEF PreConnects, map
<1>5. CASE PreSucceeds(t)
  BY <1>5 DEF PreSucceeds
<1>6. CASE PreFails(t)
  <2>1. pre'[t] = "drop" /\ pre' \in [PreThreads -> {"none", "open", "succeed", "drop", "done"}]
    BY <1>6 DEF PreFails
  <2>2. UNCHANGED <<expiring, paste, refs>> /\ armed' = armed \ {Pre}
    BY <1>6 DEF PreFails, map
  <2> QED BY <2>1, <2>2 DEF Pre, Entry
<1>7. CASE PreDrops(t)
  BY <1>7 DEF PreDrops
<1> HIDE DEF WatchInv
<1> QED BY <1>1, <1>2, <1>3, <1>4, <1>5, <1>6, <1>7 DEF PreStep

\* The steps of timers, disconnecting threads and the environment.
LEMMA OthersKeepWatch ==
  ASSUME WatchInv,
         \/ \E k \in Keys : TimerFires(k) \/ Expires(k)
         \/ DeletePreSyncP2pMap \/ AppExitCloses \/ DisconnectDfs
         \/ Disconnected \/ PeerGoes \/ PeerReturns
         \/ UNCHANGED vars
  PROVE  WatchInv'
<1>1. ASSUME NEW k \in Keys, TimerFires(k) PROVE WatchInv'
  BY <1>1 DEF TimerFires, map, threads, WatchInv, RefsWatched
<1>2. ASSUME NEW k \in Keys, Expires(k) PROVE WatchInv'
  BY <1>2 DEF Expires, PasteComplete, threads, WatchInv, RefsWatched
<1>3. CASE \/ DeletePreSyncP2pMap \/ AppExitCloses \/ DisconnectDfs
           \/ Disconnected \/ PeerGoes \/ PeerReturns \/ UNCHANGED vars
  BY <1>3, FewerRefsWatched
     DEF DeletePreSyncP2pMap, AppExitCloses, DisconnectDfs, Disconnected, PeerGoes, PeerReturns,
         vars, map, threads, timers
<1> QED BY <1>1, <1>2, <1>3

\* No reference is forgotten: whatever is cancelled, expires, fails or dies, every
\* reference of p2pMap_ has a timer armed or fired for it, a presync thread that
\* will settle it, or a client that took it over with pasteStart.
THEOREM EveryRefWatched == Spec => []RefsWatched
<1>1. Init => WatchInv
  BY DEF Init, WatchInv, RefsWatched
<1>2. WatchInv /\ [Next]_vars => WatchInv'
  BY PasteKeepsWatch, PreKeepsWatch, OthersKeepWatch DEF Next
<1>3. WatchInv => RefsWatched
  BY DEF WatchInv
<1> QED BY <1>1, <1>2, <1>3, PTL DEF Spec
=============================================================================
