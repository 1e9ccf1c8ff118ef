----------------------------- MODULE ClipStore -----------------------------
(***************************************************************************)
(* The clip store of PasteboardService: the per-user maps clips_,          *)
(* delayGetters_, entryGetters_, copyTime_ and clipChangeCount_, the       *)
(* setting_ flag and the data_expiration timers, with the threads that     *)
(* work on them without a common lock:                                     *)
(*   Writers   IPC threads in SaveData (copy)                              *)
(*   Readers   IPC threads in GetLocalData (paste)                         *)
(*   Clearers  IPC and event threads in ClearInner                         *)
(*   Agers     detached threads in ClearAgedData, started by the timer     *)
(*   Fetchers  detached threads of GetRemotePasteData storing a peer's clip*)
(* and the deaths of the applications that promised delayed content.       *)
(* Every ConcurrentMap operation is one step; everything a thread does     *)
(* between two of them touches only its own variables.                     *)
(***************************************************************************)
EXTENDS Integers, FiniteSets

CONSTANTS
  Users,        \* user (account) ids
  Writers, Readers, Clearers, Agers, Fetchers,   \* threads
  NoClip,       \* clips_ holds nothing for the user
  Shapes,       \* the kinds of local copies: records [delay, rec]
  CountMod,     \* clipChangeCount_ counts modulo CountMod (2^32 in the code)
  MaxCopies,    \* bound: no copy starts once a user has had this many
  MaxTime,      \* bound: the boot clock stops at this millisecond
  MaxDeaths     \* bound: at most this many applications die

ASSUME UsersAssumption == Users # {}
ASSUME ShapesAssumption == Shapes \subseteq [delay : BOOLEAN, rec : BOOLEAN]
ASSUME CountModAssumption == CountMod \in Nat \ {0}
ASSUME BoundsAssumption == MaxCopies \in Nat /\ MaxTime \in Nat /\ MaxDeaths \in Nat

(***************************************************************************)
(* A clip abstracts PasteData to                                           *)
(*   copy    the number of the copy it descends from, per user             *)
(*   delay   IsDelayData(): the content is still with the copying app      *)
(*   rec     IsDelayRecord(): record entries are fetched on demand         *)
(*   from    whose content it holds: the copy whose getter (or sender)     *)
(*           supplied it, 0 while the content is missing                   *)
(*   remote  IsRemote(): it came from a peer device                        *)
(* The entries of delayed records are no part of it: copying a PasteData   *)
(* copies the pointers to them, so every copy of a clip shares the entries *)
(* of the clip it descends from, and filling one fills them all.           *)
(***************************************************************************)
Clip == [copy : Nat, delay : BOOLEAN, rec : BOOLEAN, from : Nat, remote : BOOLEAN]

ASSUME NoClipAssumption == NoClip \notin Clip

VARIABLES
  setting,       \* setting_
  clips,         \* clips_
  installs,      \* history: how many clips were inserted for each user
  changeCount,   \* clipChangeCount_
  delayGetters,  \* delayGetters_: the copy whose getter is registered, or 0
  entryGetters,  \* entryGetters_: likewise
  watched,       \* getters with a death recipient attached
  obits,         \* death notices sent and not yet delivered
  dead,          \* <<user, copy>> whose owning application died
  filled,        \* entries with a value: <<user, copy, the copy whose getter gave it>>
  copyTime,      \* copyTime_: boot time of the copy, 0 when absent
  timer,         \* is the data_expiration timer of the user armed
  clock,         \* the boot clock, in ms
  wr, rd, cl, ag, fe   \* the threads

store == <<clips, installs, changeCount, copyTime, timer>>
getters == <<delayGetters, entryGetters, watched, obits, dead, filled>>
threads == <<wr, rd, cl, ag, fe>>
vars == <<setting, store, getters, clock, threads>>

NoShape == [delay |-> FALSE, rec |-> FALSE]
IdleWriter(u) == [pc |-> "idle", user |-> u, shape |-> NoShape, copy |-> 0]
BlankClip == [copy |-> 0, delay |-> FALSE, rec |-> FALSE, from |-> 0, remote |-> FALSE]
IdleReader(u) ==
  [pc |-> "idle", user |-> u, found |-> BlankClip, data |-> BlankClip, time |-> 0, getter |-> 0]
Idle(u) == [pc |-> "idle", user |-> u]
SomeUser == CHOOSE u \in Users : TRUE

Init ==
  /\ setting = FALSE
  /\ clips = [u \in Users |-> NoClip]
  /\ installs = [u \in Users |-> 0]
  /\ changeCount = [u \in Users |-> 0]
  /\ delayGetters = [u \in Users |-> 0]
  /\ entryGetters = [u \in Users |-> 0]
  /\ watched = {} /\ obits = {} /\ dead = {} /\ filled = {}
  /\ copyTime = [u \in Users |-> 0]
  /\ timer = [u \in Users |-> FALSE]
  /\ clock = 1
  /\ wr = [w \in Writers |-> IdleWriter(SomeUser)]
  /\ rd = [r \in Readers |-> IdleReader(SomeUser)]
  /\ cl = [c \in Clearers |-> Idle(SomeUser)]
  /\ ag = [a \in Agers |-> Idle(SomeUser)]
  /\ fe = [f \in Fetchers |-> Idle(SomeUser)]

WriterGoes(w, pc) == wr' = [wr EXCEPT ![w].pc = pc]
ReaderGoes(r, pc) == rd' = [rd EXCEPT ![r].pc = pc]
FetcherGoes(f, pc) == fe' = [fe EXCEPT ![f].pc = pc]

-----------------------------------------------------------------------------
(* SaveData *)

\* setting_.exchange(true); a writer that finds it set returns TASK_PROCESSING
\* and changes nothing.
SaveBegin(w, u, s) ==
  /\ wr[w].pc = "idle"
  /\ ~setting
  /\ installs[u] < MaxCopies
  /\ setting' = TRUE
  /\ wr' = [wr EXCEPT ![w] = [pc |-> "prepare", user |-> u, shape |-> s, copy |-> 0]]
  /\ UNCHANGED <<store, getters, clock, rd, cl, ag, fe>>

\* The early returns after the exchange: no valid user (line 2446) or the data,
\* once split for the web view, exceeds the local capacity (line 2462).
SaveRefused(w) ==
  /\ wr[w].pc = "prepare"
  /\ setting' = FALSE
  /\ wr' = [wr EXCEPT ![w] = IdleWriter(SomeUser)]
  /\ UNCHANGED <<store, getters, clock, rd, cl, ag, fe>>

SaveAccepted(w) ==
  /\ wr[w].pc = "prepare"
  /\ WriterGoes(w, "rmDelay")
  /\ UNCHANGED <<setting, store, getters, clock, rd, cl, ag, fe>>

\* RemovePasteData, first map: the death recipient is detached and the getter
\* erased under the map's lock.
RemoveDelayGetter(w) ==
  LET u == wr[w].user IN
  /\ wr[w].pc = "rmDelay"
  /\ delayGetters' = [delayGetters EXCEPT ![u] = 0]
  /\ watched' = watched \ {<<"delay", u, delayGetters[u]>>}
  /\ WriterGoes(w, "rmEntry")
  /\ UNCHANGED <<setting, store, entryGetters, obits, dead, filled, clock, rd, cl, ag, fe>>

\* Mutant: RemovePasteData overlooks the second map.
EntryGetterKept(w) ==
  /\ wr[w].pc = "rmEntry"
  /\ WriterGoes(w, "insert")
  /\ UNCHANGED <<setting, store, getters, clock, rd, cl, ag, fe>>

RemoveEntryGetter(w) ==
  LET u == wr[w].user IN
  /\ wr[w].pc = "rmEntry"
  /\ entryGetters' = [entryGetters EXCEPT ![u] = 0]
  /\ watched' = watched \ {<<"entry", u, entryGetters[u]>>}
  /\ WriterGoes(w, "insert")
  /\ UNCHANGED <<setting, store, delayGetters, obits, dead, filled, clock, rd, cl, ag, fe>>

\* clips_.InsertOrAssign with the clip that SetPasteDataInfo stamped.
LocalClip(n, s) ==
  [copy |-> n, delay |-> s.delay, rec |-> s.rec, remote |-> FALSE,
   from |-> IF s.delay THEN 0 ELSE n]

InsertClip(w) ==
  LET u == wr[w].user
      n == installs[u] + 1
  IN
  /\ wr[w].pc = "insert"
  /\ clips' = [clips EXCEPT ![u] = LocalClip(n, wr[w].shape)]
  /\ installs' = [installs EXCEPT ![u] = n]
  /\ wr' = [wr EXCEPT ![w] = [@ EXCEPT !.pc = "count", !.copy = n]]
  /\ UNCHANGED <<setting, changeCount, copyTime, timer, getters, clock, rd, cl, ag, fe>>

\* IncreaseChangeCount: one atomic Compute, wrapping to 0 after the largest value.
Increased(n) == IF n = CountMod - 1 THEN 0 ELSE n + 1

AfterDelay(s) == IF s.rec THEN "watchEntry" ELSE "time"
AfterCount(s) == IF s.delay THEN "watchDelay" ELSE AfterDelay(s)

IncreaseChangeCount(w) ==
  /\ wr[w].pc = "count"
  /\ changeCount' = [changeCount EXCEPT ![wr[w].user] = Increased(@)]
  /\ WriterGoes(w, AfterCount(wr[w].shape))
  /\ UNCHANGED <<setting, clips, installs, copyTime, timer, getters, clock, rd, cl, ag, fe>>

\* HandleDelayDataAndRecord: AddDeathRecipient, which does nothing on a dead
\* object, then the map insertion.
Watch(kind, u, n) == IF <<u, n>> \in dead THEN {} ELSE {<<kind, u, n>>}

WatchDelayGetter(w) ==
  /\ wr[w].pc = "watchDelay"
  /\ watched' = watched \cup Watch("delay", wr[w].user, wr[w].copy)
  /\ WriterGoes(w, "addDelay")
  /\ UNCHANGED <<setting, store, delayGetters, entryGetters, obits, dead, filled, clock,
                 rd, cl, ag, fe>>

AddDelayGetter(w) ==
  /\ wr[w].pc = "addDelay"
  /\ delayGetters' = [delayGetters EXCEPT ![wr[w].user] = wr[w].copy]
  /\ WriterGoes(w, AfterDelay(wr[w].shape))
  /\ UNCHANGED <<setting, store, entryGetters, watched, obits, dead, filled, clock,
                 rd, cl, ag, fe>>

WatchEntryGetter(w) ==
  /\ wr[w].pc = "watchEntry"
  /\ watched' = watched \cup Watch("entry", wr[w].user, wr[w].copy)
  /\ WriterGoes(w, "addEntry")
  /\ UNCHANGED <<setting, store, delayGetters, entryGetters, obits, dead, filled, clock,
                 rd, cl, ag, fe>>

AddEntryGetter(w) ==
  /\ wr[w].pc = "addEntry"
  /\ entryGetters' = [entryGetters EXCEPT ![wr[w].user] = wr[w].copy]
  /\ WriterGoes(w, "time")
  /\ UNCHANGED <<setting, store, delayGetters, watched, obits, dead, filled, clock,
                 rd, cl, ag, fe>>

SetCopyTime(w) ==
  /\ wr[w].pc = "time"
  /\ copyTime' = [copyTime EXCEPT ![wr[w].user] = clock]
  /\ WriterGoes(w, "timer")
  /\ UNCHANGED <<setting, clips, installs, changeCount, timer, getters, clock,
                 rd, cl, ag, fe>>

\* SetDataExpirationTimer replaces an armed timer of the same user; a task that
\* has fired already runs on in its own thread.
SetDataExpirationTimer(w) ==
  /\ wr[w].pc = "timer"
  /\ timer' = [timer EXCEPT ![wr[w].user] = TRUE]
  /\ WriterGoes(w, "publish")
  /\ UNCHANGED <<setting, clips, installs, changeCount, copyTime, getters, clock,
                 rd, cl, ag, fe>>

\* The clip is handed to SetDistributedData and the observers are told, unless
\* it is delayed; then the flag is released.
SaveEnd(w) ==
  /\ wr[w].pc = "publish"
  /\ setting' = FALSE
  /\ wr' = [wr EXCEPT ![w] = IdleWriter(SomeUser)]
  /\ UNCHANGED <<store, getters, clock, rd, cl, ag, fe>>

-----------------------------------------------------------------------------
(* GetLocalData *)

\* A reader that finds no clip returns NO_DATA_ERROR and changes nothing.
ReadFind(r, u) ==
  /\ rd[r].pc = "idle"
  /\ clips[u] # NoClip
  /\ rd' = [rd EXCEPT ![r] = [@ EXCEPT !.pc = "time", !.user = u, !.found = clips[u]]]
  /\ UNCHANGED <<setting, store, getters, clock, wr, cl, ag, fe>>

ReadTime(r) ==
  LET t == copyTime[rd[r].user] IN
  /\ rd[r].pc = "time"
  /\ t # 0
  /\ rd' = [rd EXCEPT ![r] = [@ EXCEPT !.pc = "check", !.time = t]]
  /\ UNCHANGED <<setting, store, getters, clock, wr, cl, ag, fe>>

\* What the reader still has to fetch follows from the clip it found.
AfterTake(c) == IF c.rec THEN "findEntry" ELSE "recheck"
AfterCheck(c) == IF c.delay THEN "takeDelay" ELSE AfterTake(c)

\* IsDataValid under the shared lock, then the copy of the clip.
ReadCheck(r) ==
  /\ rd[r].pc = "check"
  /\ copyTime[rd[r].user] # 0
  /\ rd' = [rd EXCEPT ![r] = [@ EXCEPT !.pc = AfterCheck(rd[r].found), !.data = rd[r].found]]
  /\ UNCHANGED <<setting, store, getters, clock, wr, cl, ag, fe>>

\* GetLocalData's error returns: no copy time at line 1728 or 1757, the clip
\* has aged (IsDataAged), or the screen state or the share option forbids it.
ReadFails(r) ==
  /\ \/ rd[r].pc = "check"
     \/ rd[r].pc \in {"time", "recheck"} /\ copyTime[rd[r].user] = 0
  /\ rd' = [rd EXCEPT ![r] = IdleReader(SomeUser)]
  /\ UNCHANGED <<setting, store, getters, clock, wr, cl, ag, fe>>

\* GetDelayPasteData takes the getter out of the map: it can be asked once.
TakeDelayGetter(r) ==
  LET u == rd[r].user
      g == delayGetters[u]
  IN
  /\ rd[r].pc = "takeDelay"
  /\ delayGetters' = [delayGetters EXCEPT ![u] = 0]
  /\ rd' = [rd EXCEPT ![r] =
       [@ EXCEPT !.pc = IF g = 0 THEN AfterTake(rd[r].found) ELSE "callDelay", !.getter = g]]
  /\ UNCHANGED <<setting, store, entryGetters, watched, obits, dead, filled, clock,
                 wr, cl, ag, fe>>

\* What the application of copy g may supply: its content, or nothing when it is
\* dead, the call fails or the content does not fit.
Supplied(u, g) == IF <<u, g>> \in dead THEN {0} ELSE {0, g}

\* A PasteData made from what the application supplied for copy n.
Answer(n, v) == [copy |-> n, delay |-> FALSE, rec |-> FALSE, from |-> v, remote |-> FALSE]

\* The call to the application, whose answer replaces the reader's data
\* altogether, and the detaching of the death recipient after it.
CallDelayGetter(r, v) ==
  LET u == rd[r].user
      g == rd[r].getter
  IN
  /\ rd[r].pc = "callDelay"
  /\ v \in Supplied(u, g)
  /\ watched' = watched \ {<<"delay", u, g>>}
  /\ rd' = [rd EXCEPT ![r] = [@ EXCEPT !.pc = AfterTake(rd[r].found), !.getter = 0,
                                        !.data = Answer(rd[r].data.copy, v)]]
  /\ UNCHANGED <<setting, store, delayGetters, entryGetters, obits, dead, filled, clock,
                 wr, cl, ag, fe>>

\* The delayed records of copy n have an entry without a value.
EmptyEntry(u, n) == \A x \in filled : <<x[1], x[2]>> # <<u, n>>

\* GetDelayPasteRecord leaves the entry getter registered, and asks it only
\* when the data has delayed records with an empty entry.
FindEntryGetter(r) ==
  LET u == rd[r].user
      g == entryGetters[u]
  IN
  /\ rd[r].pc = "findEntry"
  /\ rd' = [rd EXCEPT ![r] =
       [@ EXCEPT !.pc = IF g # 0 /\ rd[r].data.rec /\ EmptyEntry(u, rd[r].data.copy)
                        THEN "callEntry" ELSE "recheck",
                 !.getter = g]]
  /\ UNCHANGED <<setting, store, getters, clock, wr, cl, ag, fe>>

\* The entry of copy n takes the value that the getter of copy v supplied,
\* whatever it held by then; without an answer it stays as it is.
Filled(u, n, v) ==
  IF v = 0 THEN filled
  ELSE {x \in filled : <<x[1], x[2]>> # <<u, n>>} \cup {<<u, n, v>>}

CallEntryGetter(r, v) ==
  LET u == rd[r].user IN
  /\ rd[r].pc = "callEntry"
  /\ v \in Supplied(u, rd[r].getter)
  /\ filled' = Filled(u, rd[r].data.copy, v)
  /\ rd' = [rd EXCEPT ![r] = [@ EXCEPT !.pc = "recheck", !.getter = 0]]
  /\ UNCHANGED <<setting, store, delayGetters, entryGetters, watched, obits, dead,
                 clock, wr, cl, ag, fe>>

ReadRecheck(r) ==
  LET t == copyTime[rd[r].user] IN
  /\ rd[r].pc = "recheck"
  /\ t # 0
  /\ IF t = rd[r].time
     THEN ReaderGoes(r, "update")
     ELSE rd' = [rd EXCEPT ![r] = IdleReader(SomeUser)]
  /\ UNCHANGED <<setting, store, getters, clock, wr, cl, ag, fe>>

\* UpdateClipOnRead: ComputeIfPresent stores the reader's data over a clip that
\* is delayed or has delayed records, and leaves any other clip alone.
Pending(c) == c.delay \/ c.rec

\* Mutant: InsertOrAssign in place of ComputeIfPresent.
ClipStoredOnRead(r) ==
  /\ rd[r].pc = "update"
  /\ clips' = [clips EXCEPT ![rd[r].user] = rd[r].data]
  /\ rd' = [rd EXCEPT ![r] = IdleReader(SomeUser)]
  /\ UNCHANGED <<setting, installs, changeCount, copyTime, timer, getters, clock,
                 wr, cl, ag, fe>>

UpdateClipOnRead(r) ==
  LET u == rd[r].user IN
  /\ rd[r].pc = "update"
  /\ clips' = IF clips[u] # NoClip /\ Pending(clips[u])
              THEN [clips EXCEPT ![u] = rd[r].data] ELSE clips
  /\ rd' = [rd EXCEPT ![r] = IdleReader(SomeUser)]
  /\ UNCHANGED <<setting, installs, changeCount, copyTime, timer, getters, clock,
                 wr, cl, ag, fe>>

-----------------------------------------------------------------------------
(* ClearInner and ClearAgedData *)

\* A clearer that finds no clip erases nothing.  The copy time, the getters and
\* the timer are left as they are.
ClearFind(c, u) ==
  /\ cl[c].pc = "idle"
  /\ clips[u] # NoClip
  /\ cl' = [cl EXCEPT ![c] = [pc |-> "erase", user |-> u]]
  /\ UNCHANGED <<setting, store, getters, clock, wr, rd, ag, fe>>

ClearErase(c) ==
  /\ cl[c].pc = "erase"
  /\ clips' = [clips EXCEPT ![cl[c].user] = NoClip]
  /\ cl' = [cl EXCEPT ![c] = Idle(SomeUser)]
  /\ UNCHANGED <<setting, installs, changeCount, copyTime, timer, getters, clock,
                 wr, rd, ag, fe>>

\* The expiration task starts a detached thread; from here on setting the timer
\* anew no longer stops it.
TimerFires(a, u) ==
  /\ timer[u]
  /\ ag[a].pc = "idle"
  /\ timer' = [timer EXCEPT ![u] = FALSE]
  /\ ag' = [ag EXCEPT ![a] = [pc |-> "find", user |-> u]]
  /\ UNCHANGED <<setting, clips, installs, changeCount, copyTime, getters, clock,
                 wr, rd, cl, fe>>

AgeFind(a) ==
  /\ ag[a].pc = "find"
  /\ ag' = [ag EXCEPT ![a].pc = IF clips[ag[a].user] = NoClip THEN "time" ELSE "erase"]
  /\ UNCHANGED <<setting, store, getters, clock, wr, rd, cl, fe>>

AgeErase(a) ==
  /\ ag[a].pc = "erase"
  /\ clips' = [clips EXCEPT ![ag[a].user] = NoClip]
  /\ ag' = [ag EXCEPT ![a].pc = "time"]
  /\ UNCHANGED <<setting, installs, changeCount, copyTime, timer, getters, clock,
                 wr, rd, cl, fe>>

AgeTime(a) ==
  /\ ag[a].pc = "time"
  /\ copyTime' = [copyTime EXCEPT ![ag[a].user] = 0]
  /\ ag' = [ag EXCEPT ![a] = Idle(SomeUser)]
  /\ UNCHANGED <<setting, clips, installs, changeCount, timer, getters, clock,
                 wr, rd, cl, fe>>

-----------------------------------------------------------------------------
(* The thread of GetRemotePasteData that stores what a peer sent: like         *)
(* SaveData it inserts, counts, stamps and arms the timer, but it neither takes *)
(* setting_ nor removes the getters of the clip it replaces.                   *)

RemoteClip(n, rec) ==
  [copy |-> n, delay |-> FALSE, rec |-> rec, remote |-> TRUE, from |-> n]

RemoteInsert(f, u, rec) ==
  LET n == installs[u] + 1 IN
  /\ fe[f].pc = "idle"
  /\ installs[u] < MaxCopies
  /\ clips' = [clips EXCEPT ![u] = RemoteClip(n, rec)]
  /\ installs' = [installs EXCEPT ![u] = n]
  /\ fe' = [fe EXCEPT ![f] = [pc |-> "count", user |-> u]]
  /\ UNCHANGED <<setting, changeCount, copyTime, timer, getters, clock, wr, rd, cl, ag>>

RemoteCount(f) ==
  /\ fe[f].pc = "count"
  /\ changeCount' = [changeCount EXCEPT ![fe[f].user] = Increased(@)]
  /\ FetcherGoes(f, "time")
  /\ UNCHANGED <<setting, clips, installs, copyTime, timer, getters, clock, wr, rd, cl, ag>>

RemoteTime(f) ==
  /\ fe[f].pc = "time"
  /\ copyTime' = [copyTime EXCEPT ![fe[f].user] = clock]
  /\ FetcherGoes(f, "timer")
  /\ UNCHANGED <<setting, clips, installs, changeCount, timer, getters, clock,
                 wr, rd, cl, ag>>

\* Mutant: a clip from a peer gets no expiration timer.
RemoteUntimed(f) ==
  /\ fe[f].pc = "timer"
  /\ fe' = [fe EXCEPT ![f] = Idle(SomeUser)]
  /\ UNCHANGED <<setting, store, getters, clock, wr, rd, cl, ag>>

RemoteTimer(f) ==
  /\ fe[f].pc = "timer"
  /\ timer' = [timer EXCEPT ![fe[f].user] = TRUE]
  /\ fe' = [fe EXCEPT ![f] = Idle(SomeUser)]
  /\ UNCHANGED <<setting, clips, installs, changeCount, copyTime, getters, clock,
                 wr, rd, cl, ag>>

-----------------------------------------------------------------------------
(* The environment: applications die, death notices arrive, time passes. *)

OwnerDies(u, n) ==
  /\ n \in 1..installs[u]
  /\ <<u, n>> \notin dead
  /\ Cardinality(dead) < MaxDeaths
  /\ dead' = dead \cup {<<u, n>>}
  /\ obits' = obits \cup {x \in watched : x[2] = u /\ x[3] = n}
  /\ watched' = {x \in watched : ~(x[2] = u /\ x[3] = n)}
  /\ UNCHANGED <<setting, store, delayGetters, entryGetters, filled, clock, threads>>

\* NotifyDelayGetterDied erases whatever getter the user has by now.
DelayGetterDied(u, n) ==
  /\ <<"delay", u, n>> \in obits
  /\ obits' = obits \ {<<"delay", u, n>>}
  /\ delayGetters' = [delayGetters EXCEPT ![u] = 0]
  /\ UNCHANGED <<setting, store, entryGetters, watched, dead, filled, clock, threads>>

EntryGetterDied(u, n) ==
  /\ <<"entry", u, n>> \in obits
  /\ obits' = obits \ {<<"entry", u, n>>}
  /\ entryGetters' = [entryGetters EXCEPT ![u] = 0]
  /\ UNCHANGED <<setting, store, delayGetters, watched, dead, filled, clock, threads>>

Tick ==
  /\ clock < MaxTime
  /\ clock' = clock + 1
  /\ UNCHANGED <<setting, store, getters, threads>>

-----------------------------------------------------------------------------
WriterStep(w) ==
  \/ SaveAccepted(w) \/ SaveRefused(w)
  \/ RemoveDelayGetter(w) \/ RemoveEntryGetter(w)
  \/ InsertClip(w) \/ IncreaseChangeCount(w)
  \/ WatchDelayGetter(w) \/ AddDelayGetter(w)
  \/ WatchEntryGetter(w) \/ AddEntryGetter(w)
  \/ SetCopyTime(w) \/ SetDataExpirationTimer(w) \/ SaveEnd(w)

ReaderStep(r) ==
  \/ ReadTime(r) \/ ReadCheck(r) \/ ReadFails(r)
  \/ TakeDelayGetter(r) \/ FindEntryGetter(r)
  \/ \E v \in {0, rd[r].getter} : CallDelayGetter(r, v) \/ CallEntryGetter(r, v)
  \/ ReadRecheck(r) \/ UpdateClipOnRead(r)

AgerStep(a) == AgeFind(a) \/ AgeErase(a) \/ AgeTime(a)

FetcherStep(f) == RemoteCount(f) \/ RemoteTime(f) \/ RemoteTimer(f)

Next ==
  \/ \E w \in Writers, u \in Users, s \in Shapes : SaveBegin(w, u, s)
  \/ \E w \in Writers : WriterStep(w)
  \/ \E r \in Readers, u \in Users : ReadFind(r, u)
  \/ \E r \in Readers : ReaderStep(r)
  \/ \E c \in Clearers, u \in Users : ClearFind(c, u)
  \/ \E c \in Clearers : ClearErase(c)
  \/ \E a \in Agers, u \in Users : TimerFires(a, u)
  \/ \E a \in Agers : AgerStep(a)
  \/ \E f \in Fetchers, u \in Users, rec \in BOOLEAN : RemoteInsert(f, u, rec)
  \/ \E f \in Fetchers : FetcherStep(f)
  \/ \E u \in Users : \E n \in 1..installs[u] :
       OwnerDies(u, n) \/ DelayGetterDied(u, n) \/ EntryGetterDied(u, n)
  \/ Tick

Spec == Init /\ [][Next]_vars

-----------------------------------------------------------------------------
(* Properties *)

WriterPCs ==
  {"idle", "prepare", "rmDelay", "rmEntry", "insert", "count", "watchDelay",
   "addDelay", "watchEntry", "addEntry", "time", "timer", "publish"}
ReaderPCs ==
  {"idle", "time", "check", "takeDelay", "callDelay", "findEntry", "callEntry",
   "recheck", "update"}

Writer == [pc : WriterPCs, user : Users, shape : [delay : BOOLEAN, rec : BOOLEAN], copy : Nat]
Reader ==
  [pc : ReaderPCs, user : Users, found : Clip, data : Clip, time : Nat, getter : Nat]

\* Every variable has the shape the code gives it.
TypeOK ==
  /\ setting \in BOOLEAN
  /\ clips \in [Users -> Clip \cup {NoClip}]
  /\ installs \in [Users -> Nat]
  /\ changeCount \in [Users -> 0..(CountMod - 1)]
  /\ delayGetters \in [Users -> Nat]
  /\ entryGetters \in [Users -> Nat]
  /\ watched \subseteq {"delay", "entry"} \X Users \X Nat
  /\ obits \subseteq {"delay", "entry"} \X Users \X Nat
  /\ dead \subseteq Users \X Nat
  /\ filled \subseteq Users \X Nat \X Nat
  /\ copyTime \in [Users -> Nat]
  /\ timer \in [Users -> BOOLEAN]
  /\ clock \in Nat
  /\ wr \in [Writers -> Writer]
  /\ rd \in [Readers -> Reader]
  /\ cl \in [Clearers -> [pc : {"idle", "erase"}, user : Users]]
  /\ ag \in [Agers -> [pc : {"idle", "find", "erase", "time"}, user : Users]]
  /\ fe \in [Fetchers -> [pc : {"idle", "count", "time", "timer"}, user : Users]]

Saving(w) == wr[w].pc # "idle"

\* setting_ excludes concurrent copies and is never leaked: it is set exactly
\* while one thread is inside SaveData, whichever way that thread leaves it.
SettingOwned ==
  /\ setting <=> \E w \in Writers : Saving(w)
  /\ \A w1, w2 \in Writers : Saving(w1) /\ Saving(w2) => w1 = w2

\* A writer or fetcher that has stored a clip for u and has not armed the timer.
ArmingWriter(w, u) ==
  /\ wr[w].user = u
  /\ wr[w].pc \in {"count", "watchDelay", "addDelay", "watchEntry", "addEntry", "time", "timer"}
ArmingFetcher(f, u) == fe[f].user = u /\ fe[f].pc \in {"count", "time", "timer"}
Expiring(a, u) == ag[a].user = u /\ ag[a].pc \in {"find", "erase"}
Attended(u) ==
  \/ timer[u]
  \/ \E w \in Writers : ArmingWriter(w, u)
  \/ \E f \in Fetchers : ArmingFetcher(f, u)
  \/ \E a \in Agers : Expiring(a, u)

\* No clip outlives its expiration unattended: while a user has a clip, whoever
\* stored, resolved or raced with it, the expiration timer is armed, about to be
\* armed by the thread that stored the clip, or already expiring the clip.
ExpiryArmed == \A u \in Users : clips[u] # NoClip => Attended(u)

\* Threads that stored a clip for u and have not counted it yet.
Uncounted(u) ==
  Cardinality({w \in Writers : wr[w].pc = "count" /\ wr[w].user = u})
    + Cardinality({f \in Fetchers : fe[f].pc = "count" /\ fe[f].user = u})

\* The NDK header tells applications that a change count of 0 "means initial
\* value or invalid value", so that no action is required: once a clip was
\* stored and counted for the user the count should not be 0.
ZeroOnlyInitially ==
  \A u \in Users : installs[u] > 0 /\ Uncounted(u) = 0 => changeCount[u] # 0

\* The copies whose getters (or senders) supplied what clip c of user u holds.
Suppliers(u, c) ==
  ({c.from} \cup {x[3] : x \in {y \in filled : y[1] = u /\ y[2] = c.copy}}) \ {0}

\* Neither the board nor a paste ever combines a local clip with content that was
\* promised for an older copy: the getters a reader can reach were registered by
\* the copy it found or by a later one, because SaveData removes the old ones
\* before it inserts.
NeverOlderPayload ==
  /\ \A r \in Readers :
       rd[r].pc # "idle" /\ ~rd[r].data.remote =>
         \A n \in Suppliers(rd[r].user, rd[r].data) : n >= rd[r].data.copy
  /\ \A u \in Users :
       clips[u] # NoClip /\ ~clips[u].remote =>
         \A n \in Suppliers(u, clips[u]) : n >= clips[u].copy

\* The store implements the abstract board.
Board == INSTANCE Clipboard WITH board <- clips, last <- installs
BoardSpec == Board!Spec

=============================================================================
