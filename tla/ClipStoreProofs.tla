-------------------------- MODULE ClipStoreProofs --------------------------
(***************************************************************************)
(* Theorems about ClipStore, for any sets of users and threads and any     *)
(* bounds.                                                                 *)
(***************************************************************************)
EXTENDS ClipStore, TLAPS

\* The idle threads of Init and of every return belong to some user.
LEMMA SomeUserIsUser == SomeUser \in Users
  BY UsersAssumption DEF SomeUser

\* IncreaseChangeCount stays within the width of the counter.
LEMMA IncreasedType ==
  ASSUME NEW k \in 0..(CountMod - 1) PROVE Increased(k) \in 0..(CountMod - 1)
  BY CountModAssumption DEF Increased

\* A reader that returns is again a reader.
LEMMA IdleReaderType == IdleReader(SomeUser) \in Reader
  BY SomeUserIsUser DEF IdleReader, BlankClip, Clip, Reader, ReaderPCs

\* The initial state is well typed.
LEMMA TypeInit == Init => TypeOK
<1> SUFFICES ASSUME Init PROVE TypeOK
  OBVIOUS
<1> USE SomeUserIsUser DEF Init
<1>1. wr \in [Writers -> Writer]
  BY DEF IdleWriter, NoShape, Writer, WriterPCs
<1>2. rd \in [Readers -> Reader]
  BY DEF IdleReader, BlankClip, Clip, Reader, ReaderPCs
<1>3. cl \in [Clearers -> [pc : {"idle", "erase"}, user : Users]]
  BY DEF Idle
<1>4. ag \in [Agers -> [pc : {"idle", "find", "erase", "time"}, user : Users]]
  BY DEF Idle
<1>5. fe \in [Fetchers -> [pc : {"idle", "count", "time", "timer"}, user : Users]]
  BY DEF Idle
<1>6. changeCount \in [Users -> 0..(CountMod - 1)]
  BY CountModAssumption
<1> QED
  BY <1>1, <1>2, <1>3, <1>4, <1>5, <1>6 DEF TypeOK

\* Every step of every thread keeps the state well typed.
LEMMA TypeStep == TypeOK /\ [Next]_vars => TypeOK'
<1> SUFFICES ASSUME TypeOK, [Next]_vars PROVE TypeOK'
  OBVIOUS
<1>t1. setting \in BOOLEAN
  BY DEF TypeOK
<1>t2. clips \in [Users -> Clip \cup {NoClip}]
  BY DEF TypeOK
<1>t3. installs \in [Users -> Nat]
  BY DEF TypeOK
<1>t4. changeCount \in [Users -> 0..(CountMod - 1)]
  BY DEF TypeOK
<1>t5. delayGetters \in [Users -> Nat]
  BY DEF TypeOK
<1>t6. entryGetters \in [Users -> Nat]
  BY DEF TypeOK
<1>t7. copyTime \in [Users -> Nat]
  BY DEF TypeOK
<1>t8. timer \in [Users -> BOOLEAN]
  BY DEF TypeOK
<1>t9. clock \in Nat
  BY DEF TypeOK
<1>t10. wr \in [Writers -> Writer]
  BY DEF TypeOK
<1>t11. rd \in [Readers -> Reader]
  BY DEF TypeOK
<1>t12. cl \in [Clearers -> [pc : {"idle", "erase"}, user : Users]]
  BY DEF TypeOK
<1>t13. ag \in [Agers -> [pc : {"idle", "find", "erase", "time"}, user : Users]]
  BY DEF TypeOK
<1>t14. fe \in [Fetchers -> [pc : {"idle", "count", "time", "timer"}, user : Users]]
  BY DEF TypeOK
<1>t15. watched \subseteq {"delay", "entry"} \X Users \X Nat
  BY DEF TypeOK
<1>t16. obits \subseteq {"delay", "entry"} \X Users \X Nat
  BY DEF TypeOK
<1>t17. dead \subseteq Users \X Nat
  BY DEF TypeOK
<1>1. ASSUME NEW w \in Writers, NEW u \in Users, NEW s \in Shapes, SaveBegin(w, u, s) PROVE TypeOK'
  <2>1. wr' \in [Writers -> Writer]
    BY <1>t10, <1>1, ShapesAssumption DEF SaveBegin, Writer, WriterPCs
  <2> QED
    BY <1>1, <2>1 DEF SaveBegin, TypeOK, store, getters, threads
<1>2. ASSUME NEW w \in Writers, SaveAccepted(w) PROVE TypeOK'
  <2>1. wr' \in [Writers -> Writer]
    BY <1>t10, <1>2 DEF SaveAccepted, WriterGoes, Writer, WriterPCs
  <2> QED
    BY <1>2, <2>1 DEF SaveAccepted, TypeOK, store, getters, threads
<1>3. ASSUME NEW w \in Writers, SaveRefused(w) PROVE TypeOK'
  <2>1. wr' \in [Writers -> Writer]
    BY <1>t10, <1>3, SomeUserIsUser DEF SaveRefused, Writer, WriterPCs, IdleWriter, NoShape
  <2> QED
    BY <1>3, <2>1 DEF SaveRefused, TypeOK, store, getters, threads
<1>4. ASSUME NEW w \in Writers, RemoveDelayGetter(w) PROVE TypeOK'
  <2>1. wr' \in [Writers -> Writer]
    BY <1>t10, <1>4 DEF RemoveDelayGetter, WriterGoes, Writer, WriterPCs
  <2>2. watched' \subseteq {"delay", "entry"} \X Users \X Nat
    BY <1>t15, <1>4 DEF RemoveDelayGetter
  <2>3. delayGetters' \in [Users -> Nat]
    BY <1>t5, <1>4 DEF RemoveDelayGetter
  <2> QED
    BY <1>4, <2>1, <2>2, <2>3 DEF RemoveDelayGetter, TypeOK, store, getters, threads
<1>5. ASSUME NEW w \in Writers, RemoveEntryGetter(w) PROVE TypeOK'
  <2>1. wr' \in [Writers -> Writer]
    BY <1>t10, <1>5 DEF RemoveEntryGetter, WriterGoes, Writer, WriterPCs
  <2>2. watched' \subseteq {"delay", "entry"} \X Users \X Nat
    BY <1>t15, <1>5 DEF RemoveEntryGetter
  <2>3. entryGetters' \in [Users -> Nat]
    BY <1>t6, <1>5 DEF RemoveEntryGetter
  <2> QED
    BY <1>5, <2>1, <2>2, <2>3 DEF RemoveEntryGetter, TypeOK, store, getters, threads
<1>6. ASSUME NEW w \in Writers, InsertClip(w) PROVE TypeOK'
  <2>1. wr' \in [Writers -> Writer]
    <3>1. wr[w] \in Writer
      BY <1>t10, <1>6
    <3>2. [wr[w] EXCEPT !.pc = "count", !.copy = installs[wr[w].user] + 1] \in Writer
      <4>1. installs[wr[w].user] + 1 \in Nat
        BY <3>1, <1>t3 DEF Writer
      <4> QED
        BY <3>1, <4>1 DEF Writer, WriterPCs
    <3> QED
      BY <1>t10, <3>2, <1>6 DEF InsertClip
  <2>2. clips' \in [Users -> Clip \cup {NoClip}]
    BY <1>t2, <1>t10, <1>t3, <1>6 DEF InsertClip, LocalClip, Clip, Writer
  <2>3. installs' \in [Users -> Nat]
    BY <1>t3, <1>t10, <1>6 DEF InsertClip, Writer
  <2> QED
    BY <1>6, <2>1, <2>2, <2>3 DEF InsertClip, TypeOK, store, getters, threads
<1>7. ASSUME NEW w \in Writers, IncreaseChangeCount(w) PROVE TypeOK'
  <2>1. wr' \in [Writers -> Writer]
    BY <1>t10, <1>7 DEF IncreaseChangeCount, WriterGoes, Writer, WriterPCs, AfterCount, AfterDelay
  <2>2. changeCount' \in [Users -> 0..(CountMod - 1)]
    BY <1>t4, <1>7, IncreasedType DEF IncreaseChangeCount
  <2> QED
    BY <1>7, <2>1, <2>2 DEF IncreaseChangeCount, TypeOK, store, getters, threads
<1>8. ASSUME NEW w \in Writers, WatchDelayGetter(w) PROVE TypeOK'
  <2>1. wr' \in [Writers -> Writer]
    BY <1>t10, <1>8 DEF WatchDelayGetter, WriterGoes, Writer, WriterPCs
  <2>2. watched' \subseteq {"delay", "entry"} \X Users \X Nat
    BY <1>t15, <1>t10, <1>t3, <1>8 DEF WatchDelayGetter, Watch, Writer
  <2> QED
    BY <1>8, <2>1, <2>2 DEF WatchDelayGetter, TypeOK, store, getters, threads
<1>9. ASSUME NEW w \in Writers, AddDelayGetter(w) PROVE TypeOK'
  <2>1. wr' \in [Writers -> Writer]
    BY <1>t10, <1>9 DEF AddDelayGetter, WriterGoes, Writer, WriterPCs, AfterDelay
  <2>2. delayGetters' \in [Users -> Nat]
    BY <1>t5, <1>t10, <1>9 DEF AddDelayGetter, Writer
  <2> QED
    BY <1>9, <2>1, <2>2 DEF AddDelayGetter, TypeOK, store, getters, threads
<1>10. ASSUME NEW w \in Writers, WatchEntryGetter(w) PROVE TypeOK'
  <2>1. wr' \in [Writers -> Writer]
    BY <1>t10, <1>10 DEF WatchEntryGetter, WriterGoes, Writer, WriterPCs
  <2>2. watched' \subseteq {"delay", "entry"} \X Users \X Nat
    BY <1>t15, <1>t10, <1>t3, <1>10 DEF WatchEntryGetter, Watch, Writer
  <2> QED
    BY <1>10, <2>1, <2>2 DEF WatchEntryGetter, TypeOK, store, getters, threads
<1>11. ASSUME NEW w \in Writers, AddEntryGetter(w) PROVE TypeOK'
  <2>1. wr' \in [Writers -> Writer]
    BY <1>t10, <1>11 DEF AddEntryGetter, WriterGoes, Writer, WriterPCs
  <2>2. entryGetters' \in [Users -> Nat]
    BY <1>t6, <1>t10, <1>11 DEF AddEntryGetter, Writer
  <2> QED
    BY <1>11, <2>1, <2>2 DEF AddEntryGetter, TypeOK, store, getters, threads
<1>12. ASSUME NEW w \in Writers, SetCopyTime(w) PROVE TypeOK'
  <2>1. wr' \in [Writers -> Writer]
    BY <1>t10, <1>12 DEF SetCopyTime, WriterGoes, Writer, WriterPCs
  <2>2. copyTime' \in [Users -> Nat]
    BY <1>t7, <1>t9, <1>12 DEF SetCopyTime
  <2> QED
    BY <1>12, <2>1, <2>2 DEF SetCopyTime, TypeOK, store, getters, threads
<1>13. ASSUME NEW w \in Writers, SetDataExpirationTimer(w) PROVE TypeOK'
  <2>1. wr' \in [Writers -> Writer]
    BY <1>t10, <1>13 DEF SetDataExpirationTimer, WriterGoes, Writer, WriterPCs
  <2>2. timer' \in [Users -> BOOLEAN]
    BY <1>t8, <1>13 DEF SetDataExpirationTimer
  <2> QED
    BY <1>13, <2>1, <2>2 DEF SetDataExpirationTimer, TypeOK, store, getters, threads
<1>14. ASSUME NEW w \in Writers, SaveEnd(w) PROVE TypeOK'
  <2>1. wr' \in [Writers -> Writer]
    BY <1>t10, <1>14, SomeUserIsUser DEF SaveEnd, Writer, WriterPCs, IdleWriter, NoShape
  <2> QED
    BY <1>14, <2>1 DEF SaveEnd, TypeOK, store, getters, threads
<1>15. ASSUME NEW r \in Readers, NEW u \in Users, ReadFind(r, u) PROVE TypeOK'
  <2>1. rd' \in [Readers -> Reader]
    <3>1. rd[r] \in Reader
      BY <1>t11, <1>15
    <3>2. [rd[r] EXCEPT !.pc = "time", !.user = u, !.found = clips[u]] \in Reader
      BY <3>1, <1>t11, <1>t2, <1>15 DEF Reader, ReaderPCs, ReadFind
    <3> QED
      BY <1>t11, <3>2, <1>15 DEF ReadFind
  <2> QED
    BY <1>15, <2>1 DEF ReadFind, TypeOK, store, getters, threads
<1>16. ASSUME NEW r \in Readers, ReadTime(r) PROVE TypeOK'
  <2>1. rd' \in [Readers -> Reader]
    <3>1. rd[r] \in Reader
      BY <1>t11, <1>16
    <3>2. [rd[r] EXCEPT !.pc = "check", !.time = copyTime[rd[r].user]] \in Reader
      BY <3>1, <1>t11, <1>t7, <1>16 DEF Reader, ReaderPCs, ReadTime
    <3> QED
      BY <1>t11, <3>2, <1>16 DEF ReadTime
  <2> QED
    BY <1>16, <2>1 DEF ReadTime, TypeOK, store, getters, threads
<1>17. ASSUME NEW r \in Readers, ReadCheck(r) PROVE TypeOK'
  <2>1. rd' \in [Readers -> Reader]
    <3>1. rd[r] \in Reader
      BY <1>t11, <1>17
    <3>2. [rd[r] EXCEPT !.pc = AfterCheck(rd[r].found), !.data = rd[r].found] \in Reader
      BY <3>1, <1>t11, <1>17 DEF Reader, ReaderPCs, AfterCheck, AfterTake
    <3> QED
      BY <1>t11, <3>2, <1>17 DEF ReadCheck
  <2> QED
    BY <1>17, <2>1 DEF ReadCheck, TypeOK, store, getters, threads
<1>18. ASSUME NEW r \in Readers, ReadFails(r) PROVE TypeOK'
  <2>1. rd' \in [Readers -> Reader]
    BY <1>t11, <1>18, SomeUserIsUser DEF ReadFails, Reader, ReaderPCs, IdleReader, BlankClip, Clip
  <2> QED
    BY <1>18, <2>1 DEF ReadFails, TypeOK, store, getters, threads
<1>19. ASSUME NEW r \in Readers, TakeDelayGetter(r) PROVE TypeOK'
  <2>1. rd' \in [Readers -> Reader]
    <3>1. rd[r] \in Reader
      BY <1>t11, <1>19
    <3>2. [rd[r] EXCEPT !.pc = IF delayGetters[rd[r].user] = 0 THEN AfterTake(rd[r].found)
                               ELSE "callDelay",
                     !.getter = delayGetters[rd[r].user]] \in Reader
      BY <3>1, <1>t11, <1>t5, <1>19 DEF Reader, ReaderPCs, AfterTake
    <3> QED
      BY <1>t11, <3>2, <1>19 DEF TakeDelayGetter
  <2>2. delayGetters' \in [Users -> Nat]
    BY <1>t5, <1>19 DEF TakeDelayGetter
  <2> QED
    BY <1>19, <2>1, <2>2 DEF TakeDelayGetter, TypeOK, store, getters, threads
<1>20. ASSUME NEW r \in Readers, FindEntryGetter(r) PROVE TypeOK'
  <2>1. rd' \in [Readers -> Reader]
    <3>1. rd[r] \in Reader
      BY <1>t11, <1>20
    <3>2. [rd[r] EXCEPT !.pc = IF /\ entryGetters[rd[r].user] # 0
                                  /\ rd[r].data.rec
                                  /\ EmptyEntry(rd[r].user, rd[r].data.copy)
                               THEN "callEntry" ELSE "recheck",
                     !.getter = entryGetters[rd[r].user]] \in Reader
      BY <3>1, <1>t11, <1>t6, <1>20 DEF Reader, ReaderPCs
    <3> QED
      BY <1>t11, <3>2, <1>20 DEF FindEntryGetter
  <2> QED
    BY <1>20, <2>1 DEF FindEntryGetter, TypeOK, store, getters, threads
<1>21. ASSUME NEW r \in Readers, ReadRecheck(r) PROVE TypeOK'
  <2>1. rd' \in [Readers -> Reader]
    <3>1. CASE copyTime[rd[r].user] = rd[r].time
      BY <1>t11, <1>21, <3>1 DEF ReadRecheck, ReaderGoes, Reader, ReaderPCs
    <3>2. CASE copyTime[rd[r].user] # rd[r].time
      BY <1>t11, <1>21, <3>2, IdleReaderType DEF ReadRecheck
    <3> QED
      BY <3>1, <3>2
  <2> QED
    BY <1>21, <2>1 DEF ReadRecheck, TypeOK, store, getters, threads
<1>22. ASSUME NEW r \in Readers, UpdateClipOnRead(r) PROVE TypeOK'
  <2>1. rd' \in [Readers -> Reader]
    BY <1>t11, <1>22, SomeUserIsUser DEF UpdateClipOnRead, Reader, ReaderPCs, IdleReader, BlankClip, Clip
  <2>2. clips' \in [Users -> Clip \cup {NoClip}]
    BY <1>t2, <1>t11, <1>22 DEF UpdateClipOnRead, Reader
  <2> QED
    BY <1>22, <2>1, <2>2 DEF UpdateClipOnRead, TypeOK, store, getters, threads
<1>23. ASSUME NEW r \in Readers, NEW v \in {0, rd[r].getter}, CallDelayGetter(r, v) PROVE TypeOK'
  <2>1. rd' \in [Readers -> Reader]
    <3>1. rd[r] \in Reader
      BY <1>t11, <1>23
    <3>2. [rd[r] EXCEPT !.pc = AfterTake(rd[r].found), !.getter = 0,
                     !.data = Answer(rd[r].data.copy, v)] \in Reader
      <4>1. Answer(rd[r].data.copy, v) \in Clip
        BY <3>1, <1>23 DEF Answer, Clip, Reader
      <4>2. AfterTake(rd[r].found) \in ReaderPCs
        BY DEF AfterTake, ReaderPCs
      <4> QED
        BY <3>1, <4>1, <4>2 DEF Reader
    <3> QED
      BY <1>t11, <3>2, <1>23 DEF CallDelayGetter
  <2>2. watched' \subseteq {"delay", "entry"} \X Users \X Nat
    BY <1>t15, <1>23 DEF CallDelayGetter
  <2> QED
    BY <1>23, <2>1, <2>2 DEF CallDelayGetter, TypeOK, store, getters, threads
<1>24. ASSUME NEW r \in Readers, NEW v \in {0, rd[r].getter}, CallEntryGetter(r, v) PROVE TypeOK'
  <2>1. rd' \in [Readers -> Reader]
    <3>1. rd[r] \in Reader
      BY <1>t11, <1>24
    <3>2. [rd[r] EXCEPT !.pc = "recheck", !.getter = 0] \in Reader
      BY <3>1 DEF Reader, ReaderPCs
    <3> QED
      BY <1>t11, <3>2, <1>24 DEF CallEntryGetter
  <2>2. filled' \subseteq Users \X Nat \X Nat
    <3>1. rd[r].user \in Users /\ rd[r].data.copy \in Nat /\ v \in Nat
      BY <1>t11, <1>24 DEF Reader, Clip
    <3>2. filled \subseteq Users \X Nat \X Nat
      BY DEF TypeOK
    <3> QED
      BY <3>1, <3>2, <1>24 DEF CallEntryGetter, Filled
  <2> QED
    BY <1>24, <2>1, <2>2 DEF CallEntryGetter, TypeOK, store, getters, threads
<1>25. ASSUME NEW c \in Clearers, NEW u \in Users, ClearFind(c, u) PROVE TypeOK'
  <2>1. cl' \in [Clearers -> [pc : {"idle", "erase"}, user : Users]]
    BY <1>t12, <1>25 DEF ClearFind
  <2> QED
    BY <1>25, <2>1 DEF ClearFind, TypeOK, store, getters, threads
<1>26. ASSUME NEW c \in Clearers, ClearErase(c) PROVE TypeOK'
  <2>1. cl' \in [Clearers -> [pc : {"idle", "erase"}, user : Users]]
    BY <1>t12, <1>26, SomeUserIsUser DEF ClearErase, Idle
  <2>2. clips' \in [Users -> Clip \cup {NoClip}]
    BY <1>t2, <1>26 DEF ClearErase
  <2> QED
    BY <1>26, <2>1, <2>2 DEF ClearErase, TypeOK, store, getters, threads
<1>27. ASSUME NEW a \in Agers, NEW u \in Users, TimerFires(a, u) PROVE TypeOK'
  <2>1. ag' \in [Agers -> [pc : {"idle", "find", "erase", "time"}, user : Users]]
    BY <1>t13, <1>27 DEF TimerFires
  <2>2. timer' \in [Users -> BOOLEAN]
    BY <1>t8, <1>27 DEF TimerFires
  <2> QED
    BY <1>27, <2>1, <2>2 DEF TimerFires, TypeOK, store, getters, threads
<1>28. ASSUME NEW a \in Agers, AgeFind(a) PROVE TypeOK'
  <2>1. ag' \in [Agers -> [pc : {"idle", "find", "erase", "time"}, user : Users]]
    BY <1>t13, <1>28 DEF AgeFind
  <2> QED
    BY <1>28, <2>1 DEF AgeFind, TypeOK, store, getters, threads
<1>29. ASSUME NEW a \in Agers, AgeErase(a) PROVE TypeOK'
  <2>1. ag' \in [Agers -> [pc : {"idle", "find", "erase", "time"}, user : Users]]
    BY <1>t13, <1>29 DEF AgeErase
  <2>2. clips' \in [Users -> Clip \cup {NoClip}]
    BY <1>t2, <1>29 DEF AgeErase
  <2> QED
    BY <1>29, <2>1, <2>2 DEF AgeErase, TypeOK, store, getters, threads
<1>30. ASSUME NEW a \in Agers, AgeTime(a) PROVE TypeOK'
  <2>1. ag' \in [Agers -> [pc : {"idle", "find", "erase", "time"}, user : Users]]
    BY <1>t13, <1>30, SomeUserIsUser DEF AgeTime, Idle
  <2>2. copyTime' \in [Users -> Nat]
    BY <1>t7, <1>30 DEF AgeTime
  <2> QED
    BY <1>30, <2>1, <2>2 DEF AgeTime, TypeOK, store, getters, threads
<1>31. ASSUME NEW f \in Fetchers, NEW u \in Users, NEW rec \in BOOLEAN,
               RemoteInsert(f, u, rec) PROVE TypeOK'
  <2>1. fe' \in [Fetchers -> [pc : {"idle", "count", "time", "timer"}, user : Users]]
    BY <1>t14, <1>31 DEF RemoteInsert
  <2>2. clips' \in [Users -> Clip \cup {NoClip}]
    BY <1>t2, <1>t3, <1>31 DEF RemoteInsert, RemoteClip, Clip
  <2>3. installs' \in [Users -> Nat]
    BY <1>t3, <1>31 DEF RemoteInsert
  <2> QED
    BY <1>31, <2>1, <2>2, <2>3 DEF RemoteInsert, TypeOK, store, getters, threads
<1>32. ASSUME NEW f \in Fetchers, RemoteCount(f) PROVE TypeOK'
  <2>1. fe' \in [Fetchers -> [pc : {"idle", "count", "time", "timer"}, user : Users]]
    BY <1>t14, <1>32 DEF RemoteCount, FetcherGoes
  <2>2. changeCount' \in [Users -> 0..(CountMod - 1)]
    BY <1>t4, <1>32, IncreasedType DEF RemoteCount
  <2> QED
    BY <1>32, <2>1, <2>2 DEF RemoteCount, TypeOK, store, getters, threads
<1>33. ASSUME NEW f \in Fetchers, RemoteTime(f) PROVE TypeOK'
  <2>1. fe' \in [Fetchers -> [pc : {"idle", "count", "time", "timer"}, user : Users]]
    BY <1>t14, <1>33 DEF RemoteTime, FetcherGoes
  <2>2. copyTime' \in [Users -> Nat]
    BY <1>t7, <1>t9, <1>33 DEF RemoteTime
  <2> QED
    BY <1>33, <2>1, <2>2 DEF RemoteTime, TypeOK, store, getters, threads
<1>34. ASSUME NEW f \in Fetchers, RemoteTimer(f) PROVE TypeOK'
  <2>1. fe' \in [Fetchers -> [pc : {"idle", "count", "time", "timer"}, user : Users]]
    BY <1>t14, <1>34, SomeUserIsUser DEF RemoteTimer, Idle
  <2>2. timer' \in [Users -> BOOLEAN]
    BY <1>t8, <1>34 DEF RemoteTimer
  <2> QED
    BY <1>34, <2>1, <2>2 DEF RemoteTimer, TypeOK, store, getters, threads
<1>35. ASSUME NEW u \in Users, NEW n \in 1..installs[u], OwnerDies(u, n) PROVE TypeOK'
  <2>1. watched' \subseteq {"delay", "entry"} \X Users \X Nat
    BY <1>t15, <1>35 DEF OwnerDies
  <2>2. obits' \subseteq {"delay", "entry"} \X Users \X Nat
    BY <1>t16, <1>t15, <1>35 DEF OwnerDies
  <2>3. dead' \subseteq Users \X Nat
    BY <1>t17, <1>t3, <1>35 DEF OwnerDies
  <2> QED
    BY <1>35, <2>1, <2>2, <2>3 DEF OwnerDies, TypeOK, store, getters, threads
<1>36. ASSUME NEW u \in Users, NEW n \in 1..installs[u], DelayGetterDied(u, n) PROVE TypeOK'
  <2>1. obits' \subseteq {"delay", "entry"} \X Users \X Nat
    BY <1>t16, <1>36 DEF DelayGetterDied
  <2>2. delayGetters' \in [Users -> Nat]
    BY <1>t5, <1>36 DEF DelayGetterDied
  <2> QED
    BY <1>36, <2>1, <2>2 DEF DelayGetterDied, TypeOK, store, getters, threads
<1>37. ASSUME NEW u \in Users, NEW n \in 1..installs[u], EntryGetterDied(u, n) PROVE TypeOK'
  <2>1. obits' \subseteq {"delay", "entry"} \X Users \X Nat
    BY <1>t16, <1>37 DEF EntryGetterDied
  <2>2. entryGetters' \in [Users -> Nat]
    BY <1>t6, <1>37 DEF EntryGetterDied
  <2> QED
    BY <1>37, <2>1, <2>2 DEF EntryGetterDied, TypeOK, store, getters, threads
<1>38. CASE Tick
  BY <1>38 DEF Tick, TypeOK, store, getters, threads
<1>39. CASE UNCHANGED vars
  BY <1>39 DEF vars, TypeOK, store, getters, threads
<1> QED
  BY <1>1, <1>2, <1>3, <1>4, <1>5, <1>6, <1>7, <1>8, <1>9, <1>10, <1>11, <1>12, <1>13, <1>14, <1>15, <1>16, <1>17, <1>18, <1>19, <1>20, <1>21, <1>22, <1>23, <1>24, <1>25, <1>26, <1>27, <1>28, <1>29, <1>30, <1>31, <1>32, <1>33, <1>34, <1>35, <1>36, <1>37, <1>38, <1>39
  DEF Next, WriterStep, ReaderStep, AgerStep, FetcherStep

\* ClipStore keeps every variable in the shape the code gives it.
THEOREM TypeCorrect == Spec => []TypeOK
  BY TypeInit, TypeStep, PTL DEF Spec

-----------------------------------------------------------------------------
(* setting_ *)

\* setting_ and the writers inside SaveData change together: SaveBegin enters
\* only when the flag is clear, and each way out clears it.
LEMMA SettingStep == TypeOK /\ SettingOwned /\ [Next]_vars => SettingOwned'
<1> SUFFICES ASSUME TypeOK, SettingOwned, [Next]_vars PROVE SettingOwned'
  OBVIOUS
<1>t. wr \in [Writers -> Writer] /\ setting \in BOOLEAN
  BY DEF TypeOK
<1> USE <1>t DEF SettingOwned, Saving, Writer
<1>1. ASSUME NEW w \in Writers, NEW u \in Users, NEW s \in Shapes, SaveBegin(w, u, s) PROVE SettingOwned'
  BY <1>1 DEF SaveBegin
<1>2. ASSUME NEW w \in Writers, SaveAccepted(w) PROVE SettingOwned'
  BY <1>2 DEF SaveAccepted, WriterGoes
<1>3. ASSUME NEW w \in Writers, SaveRefused(w) PROVE SettingOwned'
  BY <1>3 DEF SaveRefused, IdleWriter, NoShape
<1>4. ASSUME NEW w \in Writers, RemoveDelayGetter(w) PROVE SettingOwned'
  BY <1>4 DEF RemoveDelayGetter, WriterGoes
<1>5. ASSUME NEW w \in Writers, RemoveEntryGetter(w) PROVE SettingOwned'
  BY <1>5 DEF RemoveEntryGetter, WriterGoes
<1>6. ASSUME NEW w \in Writers, InsertClip(w) PROVE SettingOwned'
  BY <1>6 DEF InsertClip
<1>7. ASSUME NEW w \in Writers, IncreaseChangeCount(w) PROVE SettingOwned'
  BY <1>7 DEF IncreaseChangeCount, WriterGoes, AfterCount, AfterDelay
<1>8. ASSUME NEW w \in Writers, WatchDelayGetter(w) PROVE SettingOwned'
  BY <1>8 DEF WatchDelayGetter, WriterGoes
<1>9. ASSUME NEW w \in Writers, AddDelayGetter(w) PROVE SettingOwned'
  BY <1>9 DEF AddDelayGetter, WriterGoes, AfterDelay
<1>10. ASSUME NEW w \in Writers, WatchEntryGetter(w) PROVE SettingOwned'
  BY <1>10 DEF WatchEntryGetter, WriterGoes
<1>11. ASSUME NEW w \in Writers, AddEntryGetter(w) PROVE SettingOwned'
  BY <1>11 DEF AddEntryGetter, WriterGoes
<1>12. ASSUME NEW w \in Writers, SetCopyTime(w) PROVE SettingOwned'
  BY <1>12 DEF SetCopyTime, WriterGoes
<1>13. ASSUME NEW w \in Writers, SetDataExpirationTimer(w) PROVE SettingOwned'
  BY <1>13 DEF SetDataExpirationTimer, WriterGoes
<1>14. ASSUME NEW w \in Writers, SaveEnd(w) PROVE SettingOwned'
  BY <1>14 DEF SaveEnd, IdleWriter, NoShape
<1>15. ASSUME UNCHANGED <<setting, wr>> PROVE SettingOwned'
  BY <1>15
<1> QED
  BY <1>1, <1>2, <1>3, <1>4, <1>5, <1>6, <1>7, <1>8, <1>9, <1>10, <1>11, <1>12, <1>13, <1>14, <1>15
  DEF Next, WriterStep, ReaderStep, AgerStep, FetcherStep, ReadFind, ReadTime, ReadCheck, ReadFails, TakeDelayGetter, FindEntryGetter, ReadRecheck, UpdateClipOnRead, CallDelayGetter, CallEntryGetter, ClearFind, ClearErase, TimerFires, AgeFind, AgeErase, AgeTime, RemoteInsert, RemoteCount, RemoteTime, RemoteTimer, OwnerDies, DelayGetterDied, EntryGetterDied, Tick,
      vars, threads

\* setting_ is set exactly while one thread is inside SaveData.
THEOREM SettingIsOwned == Spec => []SettingOwned
<1>1. Init => SettingOwned
  BY DEF Init, SettingOwned, Saving, IdleWriter
<1> QED
  BY <1>1, TypeInit, TypeStep, SettingStep, PTL DEF Spec

-----------------------------------------------------------------------------
(* Expiration *)

\* A clip is attended after every step: inserting it makes the inserting thread
\* responsible, that thread ends by arming the timer, the timer ends by starting
\* an ager, and an ager that saw the clip erases it.
LEMMA ExpiryStep == TypeOK /\ ExpiryArmed /\ [Next]_vars => ExpiryArmed'
<1> SUFFICES ASSUME TypeOK, ExpiryArmed, [Next]_vars PROVE ExpiryArmed'
  OBVIOUS
<1>t. /\ wr \in [Writers -> Writer]
      /\ clips \in [Users -> Clip \cup {NoClip}]
      /\ timer \in [Users -> BOOLEAN]
      /\ ag \in [Agers -> [pc : {"idle", "find", "erase", "time"}, user : Users]]
      /\ fe \in [Fetchers -> [pc : {"idle", "count", "time", "timer"}, user : Users]]
  BY DEF TypeOK
<1> USE <1>t DEF ExpiryArmed, Attended, ArmingWriter, ArmingFetcher, Expiring, Writer
<1>1. ASSUME NEW w \in Writers, NEW u \in Users, NEW s \in Shapes, SaveBegin(w, u, s) PROVE ExpiryArmed'
  BY <1>1 DEF SaveBegin, store
<1>2. ASSUME NEW w \in Writers, SaveAccepted(w) PROVE ExpiryArmed'
  BY <1>2 DEF SaveAccepted, WriterGoes, store
<1>3. ASSUME NEW w \in Writers, SaveRefused(w) PROVE ExpiryArmed'
  BY <1>3 DEF SaveRefused, IdleWriter, store
<1>4. ASSUME NEW w \in Writers, RemoveDelayGetter(w) PROVE ExpiryArmed'
  BY <1>4 DEF RemoveDelayGetter, WriterGoes, store
<1>5. ASSUME NEW w \in Writers, RemoveEntryGetter(w) PROVE ExpiryArmed'
  BY <1>5 DEF RemoveEntryGetter, WriterGoes, store
<1>6. ASSUME NEW w \in Writers, InsertClip(w) PROVE ExpiryArmed'
  BY <1>6 DEF InsertClip
<1>7. ASSUME NEW w \in Writers, IncreaseChangeCount(w) PROVE ExpiryArmed'
  BY <1>7 DEF IncreaseChangeCount, WriterGoes, AfterCount, AfterDelay
<1>8. ASSUME NEW w \in Writers, WatchDelayGetter(w) PROVE ExpiryArmed'
  BY <1>8 DEF WatchDelayGetter, WriterGoes, store
<1>9. ASSUME NEW w \in Writers, AddDelayGetter(w) PROVE ExpiryArmed'
  BY <1>9 DEF AddDelayGetter, WriterGoes, AfterDelay, store
<1>10. ASSUME NEW w \in Writers, WatchEntryGetter(w) PROVE ExpiryArmed'
  BY <1>10 DEF WatchEntryGetter, WriterGoes, store
<1>11. ASSUME NEW w \in Writers, AddEntryGetter(w) PROVE ExpiryArmed'
  BY <1>11 DEF AddEntryGetter, WriterGoes, store
<1>12. ASSUME NEW w \in Writers, SetCopyTime(w) PROVE ExpiryArmed'
  BY <1>12 DEF SetCopyTime, WriterGoes
<1>13. ASSUME NEW w \in Writers, SetDataExpirationTimer(w) PROVE ExpiryArmed'
  BY <1>13 DEF SetDataExpirationTimer, WriterGoes
<1>14. ASSUME NEW w \in Writers, SaveEnd(w) PROVE ExpiryArmed'
  BY <1>14 DEF SaveEnd, IdleWriter, store
<1>15. ASSUME NEW r \in Readers, UpdateClipOnRead(r) PROVE ExpiryArmed'
  BY <1>15 DEF UpdateClipOnRead
<1>16. ASSUME NEW c \in Clearers, ClearErase(c) PROVE ExpiryArmed'
  BY <1>16 DEF ClearErase
<1>17. ASSUME NEW a \in Agers, NEW u \in Users, TimerFires(a, u) PROVE ExpiryArmed'
  <2>1. Attended(u)'
    <3>1. Expiring(a, u)'
      BY <1>17 DEF TimerFires
    <3> QED
      BY <3>1
  <2>2. ASSUME NEW v \in Users \ {u}, Attended(v) PROVE Attended(v)'
    <3>1. \A b \in Agers : Expiring(b, v) => Expiring(b, v)'
      BY <1>17 DEF TimerFires
    <3> QED
      BY <1>17, <2>2, <3>1 DEF TimerFires
  <2> QED
    BY <1>17, <2>1, <2>2 DEF TimerFires
<1>18. ASSUME NEW a \in Agers, AgeFind(a) PROVE ExpiryArmed'
  BY <1>18 DEF AgeFind, store
<1>19. ASSUME NEW a \in Agers, AgeErase(a) PROVE ExpiryArmed'
  BY <1>19 DEF AgeErase
<1>20. ASSUME NEW a \in Agers, AgeTime(a) PROVE ExpiryArmed'
  BY <1>20 DEF AgeTime, Idle
<1>21. ASSUME NEW f \in Fetchers, NEW u \in Users, NEW rec \in BOOLEAN,
               RemoteInsert(f, u, rec) PROVE ExpiryArmed'
  BY <1>21 DEF RemoteInsert
<1>22. ASSUME NEW f \in Fetchers, RemoteCount(f) PROVE ExpiryArmed'
  <2>1. \A g \in Fetchers, u \in Users : ArmingFetcher(g, u) => ArmingFetcher(g, u)'
    BY <1>22 DEF RemoteCount, FetcherGoes
  <2> QED
    BY <1>22, <2>1 DEF RemoteCount
<1>23. ASSUME NEW f \in Fetchers, RemoteTime(f) PROVE ExpiryArmed'
  <2>1. \A g \in Fetchers, u \in Users : ArmingFetcher(g, u) => ArmingFetcher(g, u)'
    BY <1>23 DEF RemoteTime, FetcherGoes
  <2> QED
    BY <1>23, <2>1 DEF RemoteTime
<1>24. ASSUME NEW f \in Fetchers, RemoteTimer(f) PROVE ExpiryArmed'
  BY <1>24 DEF RemoteTimer, Idle
<1>25. ASSUME UNCHANGED <<clips, timer, wr, ag, fe>> PROVE ExpiryArmed'
  BY <1>25
<1> HIDE <1>t DEF ExpiryArmed, Attended, ArmingWriter, ArmingFetcher, Expiring, Writer
<1> QED
  BY <1>1, <1>2, <1>3, <1>4, <1>5, <1>6, <1>7, <1>8, <1>9, <1>10, <1>11, <1>12, <1>13, <1>14, <1>15, <1>16, <1>17, <1>18, <1>19, <1>20, <1>21, <1>22, <1>23, <1>24, <1>25
  DEF Next, WriterStep, ReaderStep, AgerStep, FetcherStep, ReadFind, ReadTime, ReadCheck, ReadFails, TakeDelayGetter, FindEntryGetter, ReadRecheck, CallDelayGetter, CallEntryGetter, ClearFind, OwnerDies, DelayGetterDied, EntryGetterDied, Tick,
      vars, store, threads

\* No clip is ever left without somebody who will expire it.
THEOREM EveryClipExpires == Spec => []ExpiryArmed
<1>1. Init => ExpiryArmed
  BY DEF Init, ExpiryArmed
<1> QED
  BY <1>1, TypeInit, TypeStep, ExpiryStep, PTL DEF Spec

-----------------------------------------------------------------------------
(* The abstract board *)

Holding == {"takeDelay", "callDelay", "findEntry", "callEntry", "recheck", "update"}

\* Every clip in the map, and every clip or copy of a clip in a reader's hands,
\* descends from a copy that was made for its user.
CopiesKnown ==
  /\ \A u \in Users : clips[u] # NoClip => clips[u].copy \in 1..installs[u]
  /\ \A r \in Readers : rd[r].pc # "idle" => rd[r].found.copy \in 1..installs[rd[r].user]
  /\ \A r \in Readers : rd[r].pc \in Holding => rd[r].data.copy = rd[r].found.copy

\* Readers carry the copy number they found through the whole read.
LEMMA CopiesStep == TypeOK /\ CopiesKnown /\ [Next]_vars => CopiesKnown'
<1> SUFFICES ASSUME TypeOK, CopiesKnown, [Next]_vars PROVE CopiesKnown'
  OBVIOUS
<1>t. /\ clips \in [Users -> Clip \cup {NoClip}]
      /\ installs \in [Users -> Nat]
      /\ wr \in [Writers -> Writer]
      /\ rd \in [Readers -> Reader]
  BY DEF TypeOK
<1> USE <1>t DEF CopiesKnown, Holding, Reader
<1>1. ASSUME NEW w \in Writers, InsertClip(w) PROVE CopiesKnown'
  BY <1>1 DEF InsertClip, LocalClip, Clip, Writer
<1>2. ASSUME NEW f \in Fetchers, NEW u \in Users, NEW rec \in BOOLEAN,
               RemoteInsert(f, u, rec) PROVE CopiesKnown'
  BY <1>2 DEF RemoteInsert, RemoteClip, Clip
<1>3. ASSUME NEW r \in Readers, NEW u \in Users, ReadFind(r, u) PROVE CopiesKnown'
  BY <1>3 DEF ReadFind, store
<1>4. ASSUME NEW r \in Readers, ReadTime(r) PROVE CopiesKnown'
  BY <1>4 DEF ReadTime, store
<1>5. ASSUME NEW r \in Readers, ReadCheck(r) PROVE CopiesKnown'
  BY <1>5 DEF ReadCheck, store, AfterCheck, AfterTake
<1>6. ASSUME NEW r \in Readers, ReadFails(r) PROVE CopiesKnown'
  BY <1>6 DEF ReadFails, store, IdleReader
<1>7. ASSUME NEW r \in Readers, TakeDelayGetter(r) PROVE CopiesKnown'
  BY <1>7 DEF TakeDelayGetter, store, AfterTake
<1>8. ASSUME NEW r \in Readers, FindEntryGetter(r) PROVE CopiesKnown'
  BY <1>8 DEF FindEntryGetter, store
<1>9. ASSUME NEW r \in Readers, NEW v \in {0, rd[r].getter}, CallDelayGetter(r, v) PROVE CopiesKnown'
  BY <1>9 DEF CallDelayGetter, store, AfterTake, Answer
<1>10. ASSUME NEW r \in Readers, NEW v \in {0, rd[r].getter}, CallEntryGetter(r, v) PROVE CopiesKnown'
  BY <1>10 DEF CallEntryGetter, store, Clip
<1>11. ASSUME NEW r \in Readers, ReadRecheck(r) PROVE CopiesKnown'
  BY <1>11 DEF ReadRecheck, store, IdleReader, ReaderGoes
<1>12. ASSUME NEW r \in Readers, UpdateClipOnRead(r) PROVE CopiesKnown'
  BY <1>12 DEF UpdateClipOnRead, IdleReader, Pending
<1>13. ASSUME NEW c \in Clearers, ClearErase(c) PROVE CopiesKnown'
  BY <1>13 DEF ClearErase, Clip
<1>14. ASSUME NEW a \in Agers, AgeErase(a) PROVE CopiesKnown'
  BY <1>14 DEF AgeErase, Clip
<1>15. ASSUME UNCHANGED <<clips, installs, rd>> PROVE CopiesKnown'
  BY <1>15
<1> HIDE <1>t DEF CopiesKnown, Holding, Reader
<1> QED
  BY <1>1, <1>2, <1>3, <1>4, <1>5, <1>6, <1>7, <1>8, <1>9, <1>10, <1>11, <1>12, <1>13, <1>14, <1>15
  DEF Next, WriterStep, ReaderStep, AgerStep, FetcherStep, SaveBegin, SaveAccepted, SaveRefused, RemoveDelayGetter, RemoveEntryGetter, IncreaseChangeCount, WatchDelayGetter, AddDelayGetter, WatchEntryGetter, AddEntryGetter, SetCopyTime, SetDataExpirationTimer, SaveEnd, ClearFind, TimerFires, AgeFind, AgeTime, RemoteCount, RemoteTime, RemoteTimer, OwnerDies, DelayGetterDied, EntryGetterDied, Tick,
      vars, store, threads

\* Every step of the store is a step of the abstract board or leaves it alone.
LEMMA BoardStep ==
  TypeOK /\ CopiesKnown /\ [Next]_vars => [Board!Next]_(Board!vars)
<1> SUFFICES ASSUME TypeOK, CopiesKnown, [Next]_vars PROVE [Board!Next]_(Board!vars)
  OBVIOUS
<1>t. /\ clips \in [Users -> Clip \cup {NoClip}]
      /\ installs \in [Users -> Nat]
      /\ wr \in [Writers -> Writer]
      /\ rd \in [Readers -> Reader]
      /\ cl \in [Clearers -> [pc : {"idle", "erase"}, user : Users]]
      /\ ag \in [Agers -> [pc : {"idle", "find", "erase", "time"}, user : Users]]
  BY DEF TypeOK
<1> USE DEF Board!Next, Board!vars, Board!OnlyUser
<1>1. ASSUME NEW w \in Writers, InsertClip(w) PROVE Board!Next
  <2>1. wr[w].user \in Users /\ LocalClip(installs[wr[w].user] + 1, wr[w].shape) \in Clip
    BY <1>t DEF Writer, LocalClip, Clip
  <2>2. Board!Copy(wr[w].user)
    BY <1>t, <1>1, <2>1, NoClipAssumption DEF InsertClip, LocalClip, Board!Copy
  <2> QED
    BY <2>1, <2>2
<1>2. ASSUME NEW f \in Fetchers, NEW u \in Users, NEW rec \in BOOLEAN,
             RemoteInsert(f, u, rec) PROVE Board!Next
  <2>1. RemoteClip(installs[u] + 1, rec) \in Clip
    BY <1>t DEF RemoteClip, Clip
  <2>2. Board!Copy(u)
    BY <1>t, <1>2, <2>1, NoClipAssumption DEF RemoteInsert, RemoteClip, Board!Copy
  <2> QED
    BY <2>2
<1>3. ASSUME NEW r \in Readers, UpdateClipOnRead(r) PROVE [Board!Next]_(Board!vars)
  <2> DEFINE u == rd[r].user
  <2>1. u \in Users /\ rd[r].data \in Clip
    BY <1>t DEF Reader
  <2>2. rd[r].data.copy \in 1..installs[u]
    BY <1>3 DEF UpdateClipOnRead, CopiesKnown, Holding
  <2>3. CASE clips[u] # NoClip /\ Pending(clips[u])
    <3>1. Board!Resolve(u)
      BY <1>t, <1>3, <2>1, <2>2, <2>3, NoClipAssumption
      DEF UpdateClipOnRead, Board!Resolve, Board!Pending, Pending
    <3> QED
      BY <2>1, <3>1
  <2>4. CASE ~(clips[u] # NoClip /\ Pending(clips[u]))
    BY <1>3, <2>4 DEF UpdateClipOnRead
  <2> QED
    BY <2>3, <2>4
<1>4. ASSUME NEW c \in Clearers, ClearErase(c) PROVE Board!Next
  <2>1. cl[c].user \in Users
    BY <1>t
  <2>2. Board!Erase(cl[c].user)
    BY <1>t, <1>4, <2>1 DEF ClearErase, Board!Erase
  <2> QED
    BY <2>1, <2>2
<1>5. ASSUME NEW a \in Agers, AgeErase(a) PROVE Board!Next
  <2>1. ag[a].user \in Users
    BY <1>t
  <2>2. Board!Erase(ag[a].user)
    BY <1>t, <1>5, <2>1 DEF AgeErase, Board!Erase
  <2> QED
    BY <2>1, <2>2
<1>6. ASSUME UNCHANGED <<clips, installs>> PROVE UNCHANGED Board!vars
  BY <1>6
<1> HIDE DEF Board!Next, Board!vars, Board!OnlyUser
<1> QED
  BY <1>1, <1>2, <1>3, <1>4, <1>5, <1>6
  DEF Next, WriterStep, ReaderStep, AgerStep, FetcherStep, SaveBegin, SaveAccepted, SaveRefused, RemoveDelayGetter, RemoveEntryGetter, IncreaseChangeCount, WatchDelayGetter, AddDelayGetter, WatchEntryGetter, AddEntryGetter, SetCopyTime, SetDataExpirationTimer, SaveEnd, ReadFind, ReadTime, ReadCheck, ReadFails, TakeDelayGetter, FindEntryGetter, ReadRecheck, CallDelayGetter, CallEntryGetter, ClearFind, TimerFires, AgeFind, AgeTime, RemoteCount, RemoteTime, RemoteTimer, OwnerDies, DelayGetterDied, EntryGetterDied, Tick,
      vars, store

\* ClipStore implements the abstract Clipboard, whatever its threads interleave.
THEOREM StoreImplementsBoard == Spec => BoardSpec
<1>1. Init => Board!Init /\ CopiesKnown
  BY DEF Init, Board!Init, CopiesKnown, Holding, IdleReader
<1> QED
  BY <1>1, TypeInit, TypeStep, CopiesStep, BoardStep, PTL DEF Spec, BoardSpec, Board!Spec
-----------------------------------------------------------------------------
(* Promised content *)

\* The clips that a thread can still combine with an answer: the one on the
\* board and those that readers found.
Held(u) ==
  {c \in {clips[u]} : c # NoClip}
    \cup {rd[r].found : r \in {q \in Readers : rd[q].pc # "idle" /\ rd[q].user = u}}

\* The writer has stored its clip and may still register a getter for it.
RegisteringPCs == {"count", "watchDelay", "addDelay", "watchEntry", "addEntry"}
Registering(w, u) ==
  /\ wr[w].user = u
  /\ wr[w].pc \in RegisteringPCs

\* What is known of a clip c held for u: its copy was made; only local clips
\* are delayed; and if it is local itself, it has no content of an older copy,
\* neither of the two getters nor an entry's value is older, and no getter that
\* is still to be registered is.
Sound(u, c) ==
  /\ c.copy \in 1..installs[u]
  /\ c.delay => ~c.remote
  /\ ~c.remote =>
       /\ c.from = 0 \/ c.from >= c.copy
       /\ delayGetters[u] = 0 \/ delayGetters[u] >= c.copy
       /\ entryGetters[u] = 0 \/ entryGetters[u] >= c.copy
       /\ \A w \in Writers : Registering(w, u) => wr[w].copy >= c.copy
       /\ \A x \in filled : x[1] = u /\ x[2] = c.copy => x[3] >= c.copy

HeldSound ==
  \A u \in Users : \A c \in Held(u) :
    Sound(u, c) /\ \A d \in Held(u) : c.copy = d.copy => c.remote = d.remote

\* Only copies that were made have entries.
FilledKnown == \A x \in filled : x[2] <= installs[x[1]]

\* What a reader may hold at each point: a getter is taken for a clip that is
\* not newer than it, and the data differs from the clip found in its content
\* only.
ReaderSound(x) ==
  /\ x.pc \in {"idle", "time", "check"} => x.data = BlankClip
  /\ x.pc \in {"takeDelay", "callDelay"} => x.found.delay
  /\ x.pc = "callDelay" => x.getter >= x.found.copy
  /\ x.pc = "callEntry" /\ ~x.found.remote => x.getter >= x.found.copy
  /\ x.pc \in Holding =>
       /\ x.data.copy = x.found.copy /\ x.data.remote = x.found.remote
       /\ x.data.delay => ~x.data.remote
       /\ ~x.data.remote => x.data.from = 0 \/ x.data.from >= x.data.copy

\* RemovePasteData comes before the insertion, and no other copy runs between.
GettersRemoved ==
  \A w \in Writers :
    /\ wr[w].pc \in {"rmEntry", "insert"} => delayGetters[wr[w].user] = 0
    /\ wr[w].pc = "insert" => entryGetters[wr[w].user] = 0

PayloadInv ==
  /\ TypeOK /\ SettingOwned
  /\ HeldSound /\ FilledKnown /\ GettersRemoved
  /\ \A r \in Readers : ReaderSound(rd[r])

\* Held clips are clips.
LEMMA HeldTyped ==
  ASSUME TypeOK, NEW u \in Users, NEW c \in Held(u)
  PROVE  c \in Clip /\ c.copy \in Nat /\ c.from \in Nat
  BY DEF TypeOK, Held, Reader, Clip

\* Steps that bring no new clip into play, fill no entry and register no getter.
LEMMA HeldFrame ==
  ASSUME HeldSound, UNCHANGED <<installs, filled>>,
         \A u \in Users :
           /\ Held(u)' \subseteq Held(u)
           /\ delayGetters'[u] \in {0, delayGetters[u]}
           /\ entryGetters'[u] \in {0, entryGetters[u]}
           /\ \A w \in Writers :
                Registering(w, u)' => Registering(w, u) /\ wr'[w].copy = wr[w].copy
  PROVE  HeldSound'
<1> SUFFICES ASSUME NEW u \in Users, NEW c \in Held(u)'
             PROVE  Sound(u, c)' /\ \A d \in Held(u)' : c.copy = d.copy => c.remote = d.remote
  BY DEF HeldSound
<1>1. c \in Held(u) /\ Sound(u, c)
  BY DEF HeldSound
<1>2. \A d \in Held(u)' : c.copy = d.copy => c.remote = d.remote
  BY <1>1 DEF HeldSound
<1>3. Sound(u, c)'
  BY <1>1 DEF Sound
<1> QED
  BY <1>2, <1>3

\* A reader step that keeps its clip, or drops it, brings none into play.
LEMMA ReaderHolds ==
  ASSUME TypeOK, NEW r \in Readers, NEW x, rd' = [rd EXCEPT ![r] = x], UNCHANGED clips,
         x.pc = "idle" \/ (rd[r].pc # "idle" /\ x.user = rd[r].user /\ x.found = rd[r].found)
  PROVE  \A u \in Users : Held(u)' \subseteq Held(u)
<1>1. \A q \in Readers : rd'[q] = IF q = r THEN x ELSE rd[q]
  BY DEF TypeOK
<1> SUFFICES ASSUME NEW u \in Users, NEW c \in Held(u)' PROVE c \in Held(u)
  OBVIOUS
<1>2. CASE c = clips[u] /\ c # NoClip
  BY <1>2 DEF Held
<1>3. ASSUME NEW q \in Readers, rd'[q].pc # "idle", rd'[q].user = u, c = rd'[q].found
      PROVE  c \in Held(u)
  BY <1>1, <1>3 DEF Held
<1> QED
  BY <1>2, <1>3 DEF Held

\* The initial state has no clips, getters or entries.
LEMMA PayloadInit == Init => PayloadInv
<1> SUFFICES ASSUME Init PROVE PayloadInv
  OBVIOUS
<1>1. TypeOK
  BY TypeInit
<1>2. SettingOwned
  BY DEF Init, SettingOwned, Saving, IdleWriter
<1>3. \A u \in Users : Held(u) = {}
  BY DEF Init, Held, IdleReader
<1>4. HeldSound /\ FilledKnown
  BY <1>3 DEF HeldSound, FilledKnown, Init
<1>5. GettersRemoved
  BY DEF GettersRemoved, Init, IdleWriter
<1>6. \A r \in Readers : ReaderSound(rd[r])
  <2>1. \A r \in Readers : rd[r].pc = "idle" /\ rd[r].data = BlankClip
    BY DEF Init, IdleReader
  <2> QED
    BY <2>1 DEF ReaderSound, Holding
<1> QED
  BY <1>1, <1>2, <1>4, <1>5, <1>6 DEF PayloadInv

\* The steps of a writer other than storing the clip and registering a getter.
LEMMA PayloadQuietWriter ==
  ASSUME PayloadInv, NEW w \in Writers,
         \/ \E u \in Users, s \in Shapes : SaveBegin(w, u, s)
         \/ SaveAccepted(w) \/ SaveRefused(w) \/ RemoveDelayGetter(w) \/ RemoveEntryGetter(w)
         \/ IncreaseChangeCount(w) \/ WatchDelayGetter(w) \/ WatchEntryGetter(w)
         \/ SetCopyTime(w) \/ SetDataExpirationTimer(w) \/ SaveEnd(w)
  PROVE  HeldSound' /\ GettersRemoved'
<1> USE DEF PayloadInv
<1>1. /\ wr \in [Writers -> Writer] /\ delayGetters \in [Users -> Nat] /\ entryGetters \in [Users -> Nat]
      /\ wr[w] \in Writer /\ wr[w].user \in Users
  BY DEF TypeOK, Writer
<1>2. UNCHANGED <<clips, installs, filled, rd>>
  BY DEF SaveBegin, SaveAccepted, SaveRefused, RemoveDelayGetter, RemoveEntryGetter,
     IncreaseChangeCount, WatchDelayGetter, WatchEntryGetter, SetCopyTime,
     SetDataExpirationTimer, SaveEnd, store, getters
<1>3. \A u \in Users : Held(u)' = Held(u)
  BY <1>2 DEF Held
<1>4. \E x : /\ wr' = [wr EXCEPT ![w] = x]
             /\ \A u \in Users : x.user = u /\ x.pc \in RegisteringPCs =>
                  Registering(w, u) /\ x.copy = wr[w].copy
             /\ x.pc = "rmEntry" => RemoveDelayGetter(w) /\ x.user = wr[w].user
             /\ x.pc = "insert" => RemoveEntryGetter(w) /\ x.user = wr[w].user
  <2>1. ASSUME NEW u \in Users, NEW s \in Shapes, SaveBegin(w, u, s) PROVE <1>4!:
    <3> DEFINE x == [pc |-> "prepare", user |-> u, shape |-> s, copy |-> 0]
    <3>1. wr' = [wr EXCEPT ![w] = x] /\ x.pc = "prepare"
      BY <2>1 DEF SaveBegin
    <3> HIDE DEF x
    <3> QED
      BY <3>1 DEF RegisteringPCs
  <2>2. CASE SaveRefused(w) \/ SaveEnd(w)
    BY <2>2 DEF SaveRefused, SaveEnd, IdleWriter, RegisteringPCs
  <2>3. ASSUME NEW pc, WriterGoes(w, pc),
               pc \in RegisteringPCs =>
                 wr[w].pc \in RegisteringPCs,
               pc = "rmEntry" => RemoveDelayGetter(w), pc = "insert" => RemoveEntryGetter(w)
        PROVE  <1>4!:
    <3> DEFINE x == [wr[w] EXCEPT !.pc = pc]
    <3>1. x.pc = pc /\ x.user = wr[w].user /\ x.copy = wr[w].copy
      BY <1>1 DEF Writer
    <3>2. wr' = [wr EXCEPT ![w] = x]
      BY <2>3 DEF WriterGoes
    <3> HIDE DEF x
    <3> QED
      BY <2>3, <3>1, <3>2 DEF Registering, RegisteringPCs
  <2>4. CASE SaveAccepted(w)
    BY <2>3, <2>4 DEF SaveAccepted, RegisteringPCs
  <2>5. CASE RemoveDelayGetter(w)
    BY <2>3, <2>5 DEF RemoveDelayGetter, RegisteringPCs
  <2>6. CASE RemoveEntryGetter(w)
    BY <2>3, <2>6 DEF RemoveEntryGetter, RegisteringPCs
  <2>7. CASE IncreaseChangeCount(w)
    BY <2>3, <2>7 DEF IncreaseChangeCount, AfterCount, AfterDelay, RegisteringPCs
  <2>8. CASE WatchDelayGetter(w)
    BY <2>3, <2>8 DEF WatchDelayGetter, RegisteringPCs
  <2>9. CASE WatchEntryGetter(w)
    BY <2>3, <2>9 DEF WatchEntryGetter, RegisteringPCs
  <2>10. CASE SetCopyTime(w) \/ SetDataExpirationTimer(w)
    BY <2>3, <2>10 DEF SetCopyTime, SetDataExpirationTimer, RegisteringPCs
  <2> QED
    BY <2>1, <2>2, <2>4, <2>5, <2>6, <2>7, <2>8, <2>9, <2>10
<1>5. PICK x :
        /\ wr' = [wr EXCEPT ![w] = x]
        /\ \A u \in Users : x.user = u /\ x.pc \in RegisteringPCs =>
             Registering(w, u) /\ x.copy = wr[w].copy
        /\ x.pc = "rmEntry" => RemoveDelayGetter(w) /\ x.user = wr[w].user
        /\ x.pc = "insert" => RemoveEntryGetter(w) /\ x.user = wr[w].user
  BY <1>4
<1>6. \A v \in Writers : wr'[v] = IF v = w THEN x ELSE wr[v]
  BY <1>1, <1>5
<1>7. \A u \in Users : /\ delayGetters'[u] \in {0, delayGetters[u]}
                       /\ entryGetters'[u] \in {0, entryGetters[u]}
  <2>1. CASE RemoveDelayGetter(w)
    BY <1>1, <2>1 DEF RemoveDelayGetter
  <2>2. CASE RemoveEntryGetter(w)
    BY <1>1, <2>2 DEF RemoveEntryGetter
  <2>3. CASE UNCHANGED <<delayGetters, entryGetters>>
    BY <2>3
  <2> QED
    BY <2>1, <2>2, <2>3 DEF SaveBegin, SaveAccepted, SaveRefused, IncreaseChangeCount,
       WatchDelayGetter, WatchEntryGetter, SetCopyTime, SetDataExpirationTimer, SaveEnd, getters
<1>8. \A u \in Users, v \in Writers :
        Registering(v, u)' => Registering(v, u) /\ wr'[v].copy = wr[v].copy
  <2> SUFFICES ASSUME NEW u \in Users, NEW v \in Writers, Registering(v, u)'
               PROVE  Registering(v, u) /\ wr'[v].copy = wr[v].copy
    OBVIOUS
  <2>1. CASE v = w
    <3>1. wr'[v] = x
      BY <1>6, <2>1
    <3> QED
      BY <1>5, <2>1, <3>1 DEF Registering, RegisteringPCs
  <2>2. CASE v # w
    BY <1>6, <2>2 DEF Registering, RegisteringPCs
  <2> QED
    BY <2>1, <2>2
<1>9. HeldSound'
  BY <1>2, <1>3, <1>7, <1>8, HeldFrame
<1>11. wr'[w] = x
  BY <1>6
<1>10. GettersRemoved'
  <2> SUFFICES ASSUME NEW v \in Writers
               PROVE  /\ wr'[v].pc \in {"rmEntry", "insert"} => delayGetters'[wr'[v].user] = 0
                      /\ wr'[v].pc = "insert" => entryGetters'[wr'[v].user] = 0
    BY DEF GettersRemoved
  <2>1. CASE v # w
    <3>1. wr'[v] = wr[v] /\ wr[v].user \in Users
      BY <1>1, <1>6, <2>1 DEF Writer
    <3> QED
      BY <1>7, <3>1 DEF GettersRemoved
  <2>2. CASE v = w /\ RemoveDelayGetter(w)
    <3>1. delayGetters'[wr[w].user] = 0 /\ ~RemoveEntryGetter(w)
      BY <1>1, <2>2 DEF RemoveDelayGetter, RemoveEntryGetter
    <3> QED
      BY <1>5, <1>11, <2>2, <3>1
  <2>3. CASE v = w /\ RemoveEntryGetter(w)
    <3>1. entryGetters'[wr[w].user] = 0 /\ delayGetters'[wr[w].user] = 0 /\ ~RemoveDelayGetter(w)
      BY <1>1, <2>3 DEF RemoveEntryGetter, RemoveDelayGetter, GettersRemoved
    <3> QED
      BY <1>5, <1>11, <2>3, <3>1
  <2>4. CASE v = w /\ ~RemoveDelayGetter(w) /\ ~RemoveEntryGetter(w)
    BY <1>5, <1>11, <2>4
  <2> QED
    BY <2>1, <2>2, <2>3, <2>4
<1> QED
  BY <1>9, <1>10

\* Registering a getter: the newest local clip is the one it was promised for.
LEMMA PayloadRegister ==
  ASSUME PayloadInv, NEW w \in Writers, AddDelayGetter(w) \/ AddEntryGetter(w)
  PROVE  HeldSound' /\ GettersRemoved'
<1> USE DEF PayloadInv
<1> DEFINE k == wr[w].user
           n == wr[w].copy
<1>1. /\ wr \in [Writers -> Writer] /\ delayGetters \in [Users -> Nat] /\ entryGetters \in [Users -> Nat]
      /\ wr[w] \in Writer /\ k \in Users /\ n \in Nat
  BY DEF TypeOK, Writer
<1>2. UNCHANGED <<clips, installs, filled, rd>> /\ Registering(w, k)
  BY DEF AddDelayGetter, AddEntryGetter, store, Registering, RegisteringPCs
<1>3. \A u \in Users : Held(u)' = Held(u)
  BY <1>2 DEF Held
<1>4. \A v \in Writers \ {w} : wr'[v] = wr[v] /\ wr[v].pc = "idle"
  <2>1. Saving(w)
    BY DEF AddDelayGetter, AddEntryGetter, Saving
  <2>2. \A v \in Writers \ {w} : wr[v].pc = "idle"
    BY <2>1 DEF SettingOwned, Saving
  <2>3. \A v \in Writers \ {w} : wr'[v] = wr[v]
    BY <1>1 DEF AddDelayGetter, AddEntryGetter, WriterGoes
  <2> QED
    BY <2>2, <2>3
<1>5. /\ wr'[w].user = k /\ wr'[w].copy = n
      /\ wr'[w].pc \in {"watchEntry", "time"}
  BY <1>1 DEF AddDelayGetter, AddEntryGetter, WriterGoes, AfterDelay, Writer
<1>6. \A u \in Users : /\ delayGetters'[u] = delayGetters[u] \/ (u = k /\ delayGetters'[u] = n)
                       /\ entryGetters'[u] = entryGetters[u] \/ (u = k /\ entryGetters'[u] = n)
  BY <1>1 DEF AddDelayGetter, AddEntryGetter
<1> HIDE DEF k, n
<1>7. HeldSound'
  <2> SUFFICES ASSUME NEW u \in Users, NEW c \in Held(u)'
               PROVE  Sound(u, c)' /\ \A d \in Held(u)' : c.copy = d.copy => c.remote = d.remote
    BY DEF HeldSound
  <2>1. c \in Held(u) /\ Sound(u, c) /\ \A d \in Held(u)' : c.copy = d.copy => c.remote = d.remote
    BY <1>3 DEF HeldSound
  <2>2. u = k /\ ~c.remote => n >= c.copy
    BY <1>2, <2>1 DEF Sound, n
  <2>3. \A v \in Writers : Registering(v, u)' => v = w /\ u = k
    BY <1>4, <1>5 DEF Registering, RegisteringPCs
  <2>4. ~c.remote => \A v \in Writers : Registering(v, u)' => wr'[v].copy >= c.copy
    BY <1>5, <2>2, <2>3
  <2>5. Sound(u, c)'
    BY <1>2, <1>6, <2>1, <2>2, <2>4 DEF Sound
  <2> QED
    BY <2>1, <2>5
<1>8. GettersRemoved'
  BY <1>4, <1>5 DEF GettersRemoved
<1> QED
  BY <1>7, <1>8

\* A new clip comes into play with a copy number of its own.
LEMMA PayloadInsert ==
  ASSUME PayloadInv, TypeOK', NEW k \in Users, NEW c0 \in Clip, c0.copy = installs[k] + 1,
         clips' = [clips EXCEPT ![k] = c0], installs' = [installs EXCEPT ![k] = installs[k] + 1],
         UNCHANGED <<delayGetters, entryGetters, filled, rd>>,
         Sound(k, c0)',
         \A u \in Users, v \in Writers :
           Registering(v, u)' => \/ Registering(v, u) /\ wr'[v].copy = wr[v].copy
                                 \/ u = k /\ wr'[v].copy = installs[k] + 1
  PROVE  HeldSound' /\ FilledKnown'
<1> USE DEF PayloadInv
<1>1. /\ installs \in [Users -> Nat] /\ clips \in [Users -> Clip \cup {NoClip}]
      /\ filled \subseteq Users \X Nat \X Nat
  BY DEF TypeOK
<1>2. \A u \in Users : Held(u)' \subseteq Held(u) \cup (IF u = k THEN {c0} ELSE {})
  BY <1>1 DEF Held
<1>3. \A u \in Users : installs[u] \in Nat /\ installs'[u] = IF u = k THEN installs[u] + 1 ELSE installs[u]
  BY <1>1
<1>4. \A u \in Users : \A c \in Held(u) : c.copy \in Nat /\ c.copy <= installs[u]
  BY <1>3 DEF HeldSound, Sound
<1>5. \A u \in Users : \A c \in Held(u) : Sound(u, c)'
  <2> SUFFICES ASSUME NEW u \in Users, NEW c \in Held(u) PROVE Sound(u, c)'
    OBVIOUS
  <2>1. Sound(u, c)
    BY DEF HeldSound
  <2>2. c.copy \in 1..installs'[u]
    BY <1>3, <2>1 DEF Sound
  <2>3. ~c.remote => \A v \in Writers : Registering(v, u)' => wr'[v].copy >= c.copy
    BY <1>3, <1>4, <2>1 DEF Sound
  <2> QED
    BY <2>1, <2>2, <2>3 DEF Sound
<1>6. HeldSound'
  <2> SUFFICES ASSUME NEW u \in Users, NEW c \in Held(u)'
               PROVE  Sound(u, c)' /\ \A d \in Held(u)' : c.copy = d.copy => c.remote = d.remote
    BY DEF HeldSound
  <2>1. Sound(u, c)'
    BY <1>2, <1>5
  <2>2. ASSUME NEW d \in Held(u)', c.copy = d.copy PROVE c.remote = d.remote
    <3>1. CASE c \in Held(u) /\ d \in Held(u)
      BY <2>2, <3>1 DEF HeldSound
    <3>2. CASE u = k /\ (c = c0 \/ d = c0)
      BY <1>2, <1>3, <1>4, <2>2, <3>2
    <3> QED
      BY <1>2, <3>1, <3>2
  <2> QED
    BY <2>1, <2>2
<1>7. FilledKnown'
  <2> SUFFICES ASSUME NEW x \in filled PROVE x[2] <= installs'[x[1]]
    BY DEF FilledKnown
  <2>1. x[1] \in Users /\ x[2] \in Nat /\ x[2] <= installs[x[1]]
    BY <1>1 DEF FilledKnown
  <2> QED
    BY <1>3, <2>1
<1> QED
  BY <1>6, <1>7

\* SaveData inserts when both getters of the user are gone.
LEMMA PayloadCopy ==
  ASSUME PayloadInv, TypeOK', NEW w \in Writers, InsertClip(w)
  PROVE  HeldSound' /\ FilledKnown' /\ GettersRemoved'
<1> USE DEF PayloadInv
<1>0. PICK k \in Users : k = wr[w].user
  BY DEF TypeOK, Writer
<1> DEFINE n == installs[k] + 1
<1>1. /\ wr \in [Writers -> Writer] /\ installs \in [Users -> Nat] /\ wr[w] \in Writer
      /\ n \in Nat /\ installs[k] \in Nat /\ filled \subseteq Users \X Nat \X Nat
  BY DEF TypeOK
<1>c. PICK c0 \in Clip : c0 = LocalClip(n, wr[w].shape)
  BY <1>1 DEF LocalClip, Clip, Writer
<1>2. /\ wr[w].pc = "insert"
      /\ clips' = [clips EXCEPT ![k] = c0] /\ installs' = [installs EXCEPT ![k] = installs[k] + 1]
      /\ wr' = [wr EXCEPT ![w] = [wr[w] EXCEPT !.pc = "count", !.copy = n]]
      /\ UNCHANGED <<delayGetters, entryGetters, filled, rd>>
  BY <1>0, <1>1, <1>c DEF InsertClip, getters
<1>3. /\ c0 \in Clip /\ c0.copy = n /\ c0.remote = FALSE /\ c0.from \in {0, n}
  BY <1>1, <1>c DEF LocalClip, Clip, Writer
<1>4. /\ wr'[w].pc = "count" /\ wr'[w].user = k /\ wr'[w].copy = n
      /\ \A v \in Writers \ {w} : wr'[v] = wr[v] /\ wr[v].pc = "idle"
  <2>1. \A v \in Writers \ {w} : wr[v].pc = "idle"
    BY <1>2 DEF SettingOwned, Saving
  <2>2. [wr[w] EXCEPT !.pc = "count", !.copy = n].user = k
    BY <1>0, <1>1 DEF Writer
  <2>3. [wr[w] EXCEPT !.pc = "count", !.copy = n].pc = "count" /\ [wr[w] EXCEPT !.pc = "count", !.copy = n].copy = n
    BY <1>1 DEF Writer
  <2> QED
    BY <1>1, <1>2, <2>1, <2>2, <2>3
<1>5. delayGetters[k] = 0 /\ entryGetters[k] = 0
  BY <1>0, <1>2 DEF GettersRemoved
<1> HIDE DEF n
<1>6. \A u \in Users, v \in Writers : Registering(v, u)' => v = w /\ u = k
  BY <1>4 DEF Registering, RegisteringPCs
<1>7. Sound(k, c0)'
  <2>1. c0.copy \in 1..installs'[k]
    BY <1>1, <1>2, <1>3 DEF n
  <2>3. \A x \in filled' : x[1] = k /\ x[2] = c0.copy => x[3] >= c0.copy
    <3> SUFFICES ASSUME NEW x \in filled, x[1] = k, x[2] = n PROVE FALSE
      BY <1>2, <1>3
    <3> QED
      BY <1>1 DEF FilledKnown, n
  <2>4. c0.from = 0 \/ c0.from >= c0.copy
    BY <1>1, <1>3
  <2>5. \A v \in Writers : Registering(v, k)' => wr'[v].copy >= c0.copy
    BY <1>1, <1>3, <1>4, <1>6
  <2> QED
    BY <1>2, <1>3, <1>5, <2>1, <2>3, <2>4, <2>5 DEF Sound
<1>8. HeldSound' /\ FilledKnown'
  <2>1. \A u \in Users, v \in Writers :
          Registering(v, u)' => \/ Registering(v, u) /\ wr'[v].copy = wr[v].copy
                                \/ u = k /\ wr'[v].copy = installs[k] + 1
    BY <1>4, <1>6 DEF n
  <2> HIDE DEF PayloadInv
  <2> QED
    BY <1>2, <1>3, <1>7, <2>1, PayloadInsert DEF n
<1>9. GettersRemoved'
  BY <1>4 DEF GettersRemoved
<1> QED
  BY <1>8, <1>9

\* A peer's clip leaves the getters of the local clip it replaces in place; the
\* property is not about it.
LEMMA PayloadRemote ==
  ASSUME PayloadInv, TypeOK', NEW f \in Fetchers, NEW k \in Users, NEW rec \in BOOLEAN,
         RemoteInsert(f, k, rec)
  PROVE  HeldSound' /\ FilledKnown'
<1> USE DEF PayloadInv
<1> DEFINE n == installs[k] + 1
<1>1. installs \in [Users -> Nat] /\ installs[k] \in Nat
  BY DEF TypeOK
<1>r. RemoteClip(n, rec) \in Clip
  BY <1>1 DEF RemoteClip, Clip
<1>c. PICK c0 \in Clip : c0 = RemoteClip(n, rec)
  BY <1>r
<1>2. c0 \in Clip /\ c0.copy = n /\ c0.remote = TRUE /\ c0.delay = FALSE
  BY <1>1, <1>c DEF RemoteClip, Clip
<1>3. /\ clips' = [clips EXCEPT ![k] = c0] /\ installs' = [installs EXCEPT ![k] = installs[k] + 1]
      /\ UNCHANGED <<delayGetters, entryGetters, filled, rd, wr>>
  BY <1>c DEF RemoteInsert, getters
<1>4. c0.copy \in 1..installs'[k]
  BY <1>1, <1>2, <1>3
<1>5. \A u \in Users, v \in Writers : Registering(v, u)' => Registering(v, u) /\ wr'[v].copy = wr[v].copy
  BY <1>3 DEF Registering, RegisteringPCs
<1>6. Sound(k, c0)'
  BY <1>2, <1>4 DEF Sound
<1> HIDE DEF PayloadInv
<1> QED
  BY <1>2, <1>3, <1>5, <1>6, PayloadInsert

\* A reader's step, given its new record x.
LEMMA PayloadReader ==
  ASSUME PayloadInv, NEW r \in Readers, NEW x, rd' = [rd EXCEPT ![r] = x], ReaderSound(x),
         x.pc = "idle" \/ (rd[r].pc # "idle" /\ x.user = rd[r].user /\ x.found = rd[r].found),
         UNCHANGED <<clips, installs, filled, wr, entryGetters>>,
         \A u \in Users : delayGetters'[u] \in {0, delayGetters[u]}
  PROVE  /\ HeldSound' /\ FilledKnown' /\ GettersRemoved'
         /\ \A q \in Readers : ReaderSound(rd[q])'
<1> USE DEF PayloadInv
<1>1. \A u \in Users : Held(u)' \subseteq Held(u)
  BY ReaderHolds
<1>2. \A u \in Users, w \in Writers :
        Registering(w, u)' => Registering(w, u) /\ wr'[w].copy = wr[w].copy
  BY DEF Registering
<1>3. HeldSound'
  BY <1>1, <1>2, HeldFrame
<1>4. FilledKnown'
  BY DEF FilledKnown
<1>5. GettersRemoved'
  BY DEF GettersRemoved, TypeOK, Writer
<1>6. \A q \in Readers : rd'[q] = IF q = r THEN x ELSE rd[q]
  BY DEF TypeOK
<1>7. \A q \in Readers : ReaderSound(rd[q])'
  <2> SUFFICES ASSUME NEW q \in Readers PROVE ReaderSound(rd'[q])
    BY DEF ReaderSound
  <2> QED
    BY <1>6
<1> QED
  BY <1>3, <1>4, <1>5, <1>7

\* The reader's steps that change neither the board nor an entry.
LEMMA PayloadLook ==
  ASSUME PayloadInv, NEW r \in Readers,
         \/ ReadTime(r) \/ ReadCheck(r) \/ ReadFails(r) \/ TakeDelayGetter(r) \/ FindEntryGetter(r)
         \/ \E v \in {0, rd[r].getter} : CallDelayGetter(r, v)
         \/ ReadRecheck(r)
  PROVE  /\ HeldSound' /\ FilledKnown' /\ GettersRemoved'
         /\ \A q \in Readers : ReaderSound(rd[q])'
<1>0. /\ rd \in [Readers -> Reader] /\ rd[r] \in Reader /\ ReaderSound(rd[r])
      /\ rd[r].found \in Clip /\ rd[r].data \in Clip /\ rd[r].user \in Users
      /\ delayGetters \in [Users -> Nat] /\ entryGetters \in [Users -> Nat]
      /\ rd[r].found.copy \in Nat
  BY DEF PayloadInv, TypeOK, Reader, Clip
<1>1. rd[r].pc # "idle" => Sound(rd[r].user, rd[r].found)
  <2> SUFFICES ASSUME rd[r].pc # "idle" PROVE Sound(rd[r].user, rd[r].found)
    OBVIOUS
  <2>1. rd[r].found \in Held(rd[r].user)
    BY DEF Held
  <2> QED
    BY <1>0, <2>1 DEF PayloadInv, HeldSound
<1>2. UNCHANGED <<clips, installs, filled, wr, entryGetters>>
  BY DEF ReadTime, ReadCheck, ReadFails, TakeDelayGetter, FindEntryGetter, CallDelayGetter,
     ReadRecheck, store, getters
<1>3. \A u \in Users : delayGetters'[u] \in {0, delayGetters[u]}
  BY <1>0 DEF ReadTime, ReadCheck, ReadFails, TakeDelayGetter, FindEntryGetter, CallDelayGetter,
     ReadRecheck, getters
<1>4. ASSUME NEW x, rd' = [rd EXCEPT ![r] = x], ReaderSound(x),
             x.pc = "idle" \/ (rd[r].pc # "idle" /\ x.user = rd[r].user /\ x.found = rd[r].found)
      PROVE  /\ HeldSound' /\ FilledKnown' /\ GettersRemoved'
             /\ \A q \in Readers : ReaderSound(rd[q])'
  BY <1>2, <1>3, <1>4, PayloadReader
<1>5. CASE rd' = [rd EXCEPT ![r] = IdleReader(SomeUser)]
  <2>1. IdleReader(SomeUser).pc = "idle" /\ IdleReader(SomeUser).data = BlankClip
    BY DEF IdleReader
  <2>2. ReaderSound(IdleReader(SomeUser))
    BY <2>1 DEF ReaderSound, Holding
  <2> QED
    BY <1>4, <1>5, <2>1, <2>2
<1>6. CASE ReadTime(r)
  <2> DEFINE x == [rd[r] EXCEPT !.pc = "check", !.time = copyTime[rd[r].user]]
  <2>1. x.pc = "check" /\ x.user = rd[r].user /\ x.found = rd[r].found /\ x.data = rd[r].data
    BY <1>0 DEF Reader
  <2>2. rd[r].pc = "time" /\ rd' = [rd EXCEPT ![r] = x]
    BY <1>6 DEF ReadTime
  <2> HIDE DEF x
  <2>3. ReaderSound(x)
    BY <1>0, <2>1, <2>2 DEF ReaderSound, Holding
  <2> QED
    BY <1>4, <2>1, <2>2, <2>3
<1>7. CASE ReadCheck(r)
  <2> DEFINE x == [rd[r] EXCEPT !.pc = AfterCheck(rd[r].found), !.data = rd[r].found]
  <2>1. /\ x.pc = AfterCheck(rd[r].found) /\ x.user = rd[r].user /\ x.found = rd[r].found
        /\ x.data = rd[r].found
    BY <1>0 DEF Reader
  <2>2. rd[r].pc = "check" /\ rd' = [rd EXCEPT ![r] = x]
    BY <1>7 DEF ReadCheck
  <2> HIDE DEF x
  <2>3. x.pc \in {"takeDelay", "findEntry", "recheck"} /\ (x.pc = "takeDelay" => x.found.delay)
    BY <2>1 DEF AfterCheck, AfterTake
  <2>4. ReaderSound(x)
    BY <1>1, <2>1, <2>2, <2>3 DEF ReaderSound, Holding, Sound
  <2> QED
    BY <1>4, <2>1, <2>2, <2>4
<1>8. CASE TakeDelayGetter(r)
  <2> DEFINE g == delayGetters[rd[r].user]
             p == IF g = 0 THEN AfterTake(rd[r].found) ELSE "callDelay"
             x == [rd[r] EXCEPT !.pc = p, !.getter = g]
  <2>1. /\ x.pc = p /\ x.user = rd[r].user /\ x.found = rd[r].found
        /\ x.data = rd[r].data /\ x.getter = g
    BY <1>0 DEF Reader
  <2>2. rd[r].pc = "takeDelay" /\ rd' = [rd EXCEPT ![r] = x]
    BY <1>8 DEF TakeDelayGetter
  <2>3. p \in {"findEntry", "recheck"} \/ (p = "callDelay" /\ g # 0)
    BY DEF AfterTake
  <2>4. rd[r].found.delay /\ ~rd[r].found.remote /\ (g # 0 => g >= rd[r].found.copy)
    BY <1>0, <1>1, <2>2 DEF ReaderSound, Sound
  <2> HIDE DEF x, p, g
  <2>5. ReaderSound(x)
    BY <1>0, <2>1, <2>2, <2>3, <2>4 DEF ReaderSound, Holding
  <2> QED
    BY <1>4, <2>1, <2>2, <2>5
<1>9. CASE FindEntryGetter(r)
  <2> DEFINE g == entryGetters[rd[r].user]
             p == IF g # 0 /\ rd[r].data.rec /\ EmptyEntry(rd[r].user, rd[r].data.copy)
                  THEN "callEntry" ELSE "recheck"
             x == [rd[r] EXCEPT !.pc = p, !.getter = g]
  <2>1. /\ x.pc = p /\ x.user = rd[r].user /\ x.found = rd[r].found
        /\ x.data = rd[r].data /\ x.getter = g
    BY <1>0 DEF Reader
  <2>2. rd[r].pc = "findEntry" /\ rd' = [rd EXCEPT ![r] = x]
    BY <1>9 DEF FindEntryGetter
  <2>3. p = "recheck" \/ (p = "callEntry" /\ g # 0)
    OBVIOUS
  <2>4. ~rd[r].found.remote /\ g # 0 => g >= rd[r].found.copy
    BY <1>1, <2>2 DEF Sound
  <2> HIDE DEF x, p, g
  <2>5. ReaderSound(x)
    BY <1>0, <2>1, <2>2, <2>3, <2>4 DEF ReaderSound, Holding
  <2> QED
    BY <1>4, <2>1, <2>2, <2>5
<1>10. ASSUME NEW v \in {0, rd[r].getter}, CallDelayGetter(r, v)
       PROVE  /\ HeldSound' /\ FilledKnown' /\ GettersRemoved'
              /\ \A q \in Readers : ReaderSound(rd[q])'
  <2> DEFINE p == AfterTake(rd[r].found)
             a == Answer(rd[r].data.copy, v)
             x == [rd[r] EXCEPT !.pc = p, !.getter = 0, !.data = a]
  <2>1. x.pc = p /\ x.user = rd[r].user /\ x.found = rd[r].found /\ x.data = a
    BY <1>0 DEF Reader
  <2>2. rd[r].pc = "callDelay" /\ rd' = [rd EXCEPT ![r] = x]
    BY <1>10 DEF CallDelayGetter
  <2>3. a.copy = rd[r].data.copy /\ a.remote = FALSE /\ a.delay = FALSE /\ a.from = v
    BY DEF Answer
  <2>4. p \in {"findEntry", "recheck"}
    BY DEF AfterTake
  <2>5. /\ rd[r].data.copy = rd[r].found.copy /\ ~rd[r].found.remote
        /\ rd[r].getter >= rd[r].found.copy
    BY <1>0, <1>1, <2>2 DEF ReaderSound, Holding, Sound
  <2>6. rd[r].found.remote \in BOOLEAN
    BY <1>0 DEF Clip
  <2> HIDE DEF x, p, a
  <2>7. ReaderSound(x)
    BY <2>1, <2>3, <2>4, <2>5, <2>6 DEF ReaderSound, Holding
  <2> QED
    BY <1>4, <2>1, <2>2, <2>7
<1>11. CASE ReaderGoes(r, "update") /\ rd[r].pc = "recheck"
  <2> DEFINE x == [rd[r] EXCEPT !.pc = "update"]
  <2>1. /\ x.pc = "update" /\ x.user = rd[r].user /\ x.found = rd[r].found
        /\ x.data = rd[r].data
    BY <1>0 DEF Reader
  <2>2. rd' = [rd EXCEPT ![r] = x]
    BY <1>11 DEF ReaderGoes
  <2> HIDE DEF x
  <2>3. ReaderSound(x)
    BY <1>0, <1>11, <2>1 DEF ReaderSound, Holding
  <2> QED
    BY <1>4, <1>11, <2>1, <2>2, <2>3
<1> QED
  BY <1>5, <1>6, <1>7, <1>8, <1>9, <1>10, <1>11 DEF ReadFails, ReadRecheck

\* A paste starts with the clip on the board.
LEMMA PayloadFind ==
  ASSUME PayloadInv, NEW r \in Readers, NEW k \in Users, ReadFind(r, k)
  PROVE  /\ HeldSound' /\ FilledKnown' /\ GettersRemoved'
         /\ \A q \in Readers : ReaderSound(rd[q])'
<1> USE DEF PayloadInv
<1> DEFINE x == [rd[r] EXCEPT !.pc = "time", !.user = k, !.found = clips[k]]
<1>1. rd \in [Readers -> Reader] /\ rd[r] \in Reader
  BY DEF TypeOK
<1>2. x.pc = "time" /\ x.user = k /\ x.found = clips[k] /\ x.data = rd[r].data
  BY <1>1 DEF Reader
<1>3. /\ rd' = [rd EXCEPT ![r] = x] /\ rd[r].pc = "idle" /\ clips[k] # NoClip
      /\ UNCHANGED <<clips, installs, filled, wr, delayGetters, entryGetters>>
  BY DEF ReadFind, store, getters
<1> HIDE DEF x
<1>4. \A q \in Readers : rd'[q] = IF q = r THEN x ELSE rd[q]
  BY <1>1, <1>3
<1>5. \A u \in Users : Held(u)' \subseteq Held(u)
  <2> SUFFICES ASSUME NEW u \in Users, NEW c \in Held(u)' PROVE c \in Held(u)
    OBVIOUS
  <2>1. CASE c = clips[u] /\ c # NoClip
    BY <2>1 DEF Held
  <2>2. ASSUME NEW q \in Readers, rd'[q].pc # "idle", rd'[q].user = u, c = rd'[q].found
        PROVE  c \in Held(u)
    BY <1>2, <1>3, <1>4, <2>2 DEF Held
  <2> QED
    BY <1>3, <2>1, <2>2 DEF Held
<1>6. \A u \in Users, w \in Writers :
        Registering(w, u)' => Registering(w, u) /\ wr'[w].copy = wr[w].copy
  BY <1>3 DEF Registering
<1>7. HeldSound'
  BY <1>3, <1>5, <1>6, HeldFrame
<1>8. FilledKnown' /\ GettersRemoved'
  BY <1>3 DEF FilledKnown, GettersRemoved
<1>9. ReaderSound(x)
  <2>1. x.data = BlankClip
    BY <1>2, <1>3 DEF ReaderSound
  <2> QED
    BY <1>2, <2>1 DEF ReaderSound, Holding
<1>10. \A q \in Readers : ReaderSound(rd'[q])
  BY <1>4, <1>9
<1> QED
  BY <1>7, <1>8, <1>10 DEF ReaderSound

\* An entry is filled by a getter that is not older than the clip, if the clip
\* is local; a local and a peer's clip do not share entries.
LEMMA PayloadFill ==
  ASSUME PayloadInv, NEW r \in Readers, NEW v \in {0, rd[r].getter}, CallEntryGetter(r, v)
  PROVE  /\ HeldSound' /\ FilledKnown' /\ GettersRemoved'
         /\ \A q \in Readers : ReaderSound(rd[q])'
<1> USE DEF PayloadInv
<1>0. PICK k \in Users : k = rd[r].user
  BY DEF TypeOK, Reader
<1> DEFINE x == [rd[r] EXCEPT !.pc = "recheck", !.getter = 0]
           n == rd[r].found.copy
<1>1. /\ rd \in [Readers -> Reader] /\ rd[r] \in Reader /\ rd[r].found \in Clip
      /\ filled \subseteq Users \X Nat \X Nat /\ n \in Nat
  BY DEF TypeOK, Reader, Clip
<1>2. /\ x.pc = "recheck" /\ x.user = rd[r].user /\ x.found = rd[r].found
      /\ x.data = rd[r].data
  BY <1>1 DEF Reader
<1>3. /\ rd' = [rd EXCEPT ![r] = x] /\ rd[r].pc = "callEntry"
      /\ UNCHANGED <<clips, installs, wr, delayGetters, entryGetters>>
      /\ filled' = Filled(k, rd[r].data.copy, v)
  BY <1>0 DEF CallEntryGetter, store
<1> HIDE DEF x
<1>4. /\ rd[r].data.copy = n /\ rd[r].found \in Held(k) /\ Sound(k, rd[r].found)
      /\ ~rd[r].found.remote => rd[r].getter >= n
  <2>1. rd[r].found \in Held(k)
    BY <1>0, <1>3 DEF Held
  <2> QED
    BY <1>0, <1>3, <2>1 DEF ReaderSound, Holding, HeldSound
<1>5. \A u \in Users : Held(u)' \subseteq Held(u)
  BY <1>2, <1>3, ReaderHolds
<1>6. ASSUME NEW y \in filled' PROVE y \in filled \/ (v # 0 /\ y = <<k, n, v>>)
  BY <1>3, <1>4 DEF Filled
<1> HIDE DEF n
<1>7. HeldSound'
  <2> SUFFICES ASSUME NEW u \in Users, NEW c \in Held(u)'
               PROVE  Sound(u, c)' /\ \A d \in Held(u)' : c.copy = d.copy => c.remote = d.remote
    BY DEF HeldSound
  <2>1. c \in Held(u) /\ Sound(u, c) /\ \A d \in Held(u)' : c.copy = d.copy => c.remote = d.remote
    BY <1>5 DEF HeldSound
  <2>2. \A w \in Writers : Registering(w, u)' => Registering(w, u) /\ wr'[w].copy = wr[w].copy
    BY <1>3 DEF Registering
  <2>3. ASSUME ~c.remote, NEW y \in filled', y[1] = u, y[2] = c.copy PROVE y[3] >= c.copy
    <3>1. CASE y \in filled
      BY <2>1, <2>3, <3>1 DEF Sound
    <3>2. CASE v # 0 /\ y = <<k, n, v>>
      <4>1. u = k /\ c.copy = n /\ y[3] = rd[r].getter
        BY <2>3, <3>2
      <4>2. c.remote = rd[r].found.remote
        BY <1>4, <2>1, <4>1 DEF HeldSound, n
      <4> QED
        BY <1>4, <2>3, <4>1, <4>2
    <3> QED
      BY <1>6, <3>1, <3>2
  <2>4. Sound(u, c)'
    BY <1>3, <2>1, <2>2, <2>3 DEF Sound
  <2> QED
    BY <2>1, <2>4
<1>8. FilledKnown'
  <2> SUFFICES ASSUME NEW y \in filled' PROVE y[2] <= installs[y[1]]
    BY <1>3 DEF FilledKnown
  <2>1. n <= installs[k]
    BY <1>4 DEF Sound, n, TypeOK
  <2> QED
    BY <1>6, <2>1 DEF FilledKnown
<1>9. GettersRemoved'
  BY <1>3 DEF GettersRemoved
<1>10. ReaderSound(x)
  BY <1>2, <1>3 DEF ReaderSound, Holding
<1>11. \A q \in Readers : ReaderSound(rd'[q])
  <2>1. \A q \in Readers : rd'[q] = IF q = r THEN x ELSE rd[q]
    BY <1>1, <1>3
  <2> QED
    BY <1>10, <2>1
<1> QED
  BY <1>7, <1>8, <1>9, <1>11 DEF ReaderSound

\* What a reader puts back on the board descends from the clip it found.
LEMMA PayloadUpdate ==
  ASSUME PayloadInv, TypeOK', NEW r \in Readers, UpdateClipOnRead(r)
  PROVE  /\ HeldSound' /\ FilledKnown' /\ GettersRemoved'
         /\ \A q \in Readers : ReaderSound(rd[q])'
<1> USE DEF PayloadInv
<1>0. PICK k \in Users : k = rd[r].user
  BY DEF TypeOK, Reader
<1>1. PICK a \in Clip : a = rd[r].data
  BY DEF TypeOK, Reader
<1>2. /\ rd \in [Readers -> Reader] /\ rd[r] \in Reader /\ rd[r].found \in Clip
      /\ clips \in [Users -> Clip \cup {NoClip}]
  BY DEF TypeOK, Reader
<1>3. /\ rd' = [rd EXCEPT ![r] = IdleReader(SomeUser)] /\ rd[r].pc = "update"
      /\ clips' = [clips EXCEPT ![k] = a] \/ clips' = clips
      /\ UNCHANGED <<installs, wr, delayGetters, entryGetters, filled>>
  BY <1>0, <1>1 DEF UpdateClipOnRead, getters
<1>4. /\ \A q \in Readers : rd'[q] = IF q = r THEN IdleReader(SomeUser) ELSE rd[q]
      /\ IdleReader(SomeUser).pc = "idle" /\ IdleReader(SomeUser).data = BlankClip
  BY <1>2, <1>3 DEF IdleReader
<1>5. \A u \in Users : \A c \in Held(u)' : c \in Held(u) \/ (u = k /\ c = a)
  <2> SUFFICES ASSUME NEW u \in Users, NEW c \in Held(u)' PROVE c \in Held(u) \/ (u = k /\ c = a)
    OBVIOUS
  <2>1. CASE c = clips'[u] /\ c # NoClip
    <3>1. clips'[u] = clips[u] \/ (u = k /\ clips'[u] = a)
      BY <1>2, <1>3
    <3> QED
      BY <2>1, <3>1 DEF Held
  <2>2. ASSUME NEW q \in Readers, rd'[q].pc # "idle", rd'[q].user = u, c = rd'[q].found
        PROVE  c \in Held(u)
    BY <1>4, <2>2 DEF Held
  <2> QED
    BY <2>1, <2>2 DEF Held
<1>6. rd[r].found \in Held(k)
  BY <1>0, <1>3 DEF Held
<1>7. /\ a.copy = rd[r].found.copy /\ a.remote = rd[r].found.remote
      /\ a.delay => ~a.remote
      /\ ~a.remote => a.from = 0 \/ a.from >= a.copy
  BY <1>1, <1>3 DEF ReaderSound, Holding
<1>8. Sound(k, a)
  BY <1>6, <1>7 DEF HeldSound, Sound
<1>9. \A d \in Held(k) : d.copy = a.copy => d.remote = a.remote
  BY <1>6, <1>7 DEF HeldSound
<1>10. HeldSound'
  <2> SUFFICES ASSUME NEW u \in Users, NEW c \in Held(u)'
               PROVE  Sound(u, c)' /\ \A d \in Held(u)' : c.copy = d.copy => c.remote = d.remote
    BY DEF HeldSound
  <2>1. Sound(u, c)
    BY <1>5, <1>8 DEF HeldSound
  <2>2. \A w \in Writers : Registering(w, u)' => Registering(w, u) /\ wr'[w].copy = wr[w].copy
    BY <1>3 DEF Registering
  <2>3. Sound(u, c)'
    BY <1>3, <2>1, <2>2 DEF Sound
  <2>4. ASSUME NEW d \in Held(u)', c.copy = d.copy PROVE c.remote = d.remote
    BY <1>5, <1>9, <2>4 DEF HeldSound
  <2> QED
    BY <2>3, <2>4
<1>11. FilledKnown' /\ GettersRemoved'
  BY <1>3 DEF FilledKnown, GettersRemoved
<1>12. ReaderSound(IdleReader(SomeUser))
  BY <1>4 DEF ReaderSound, Holding
<1>13. \A q \in Readers : ReaderSound(rd'[q])
  BY <1>4, <1>12
<1> QED
  BY <1>10, <1>11, <1>13 DEF ReaderSound

\* Everything else: clips and getters only go away.
LEMMA PayloadAway ==
  ASSUME PayloadInv, UNCHANGED <<installs, filled, wr, rd>>,
         \A u \in Users : /\ clips'[u] \in {NoClip, clips[u]}
                          /\ delayGetters'[u] \in {0, delayGetters[u]}
                          /\ entryGetters'[u] \in {0, entryGetters[u]}
  PROVE  /\ HeldSound' /\ FilledKnown' /\ GettersRemoved'
         /\ \A q \in Readers : ReaderSound(rd[q])'
<1> USE DEF PayloadInv
<1>1. \A u \in Users : Held(u)' \subseteq Held(u)
  BY DEF Held
<1>2. \A u \in Users, w \in Writers :
        Registering(w, u)' => Registering(w, u) /\ wr'[w].copy = wr[w].copy
  BY DEF Registering
<1>3. HeldSound'
  BY <1>1, <1>2, HeldFrame
<1>4. GettersRemoved'
  BY DEF GettersRemoved, TypeOK, Writer
<1>5. FilledKnown' /\ \A q \in Readers : ReaderSound(rd[q])'
  BY DEF FilledKnown, ReaderSound
<1> QED
  BY <1>3, <1>4, <1>5

\* Every step keeps the invariant.
LEMMA PayloadStep == PayloadInv /\ [Next]_vars => PayloadInv'
<1> SUFFICES ASSUME PayloadInv, [Next]_vars
             PROVE  /\ HeldSound' /\ FilledKnown' /\ GettersRemoved'
                    /\ \A q \in Readers : ReaderSound(rd[q])'
  BY TypeStep, SettingStep DEF PayloadInv
<1> DEFINE Kept == /\ HeldSound' /\ FilledKnown' /\ GettersRemoved'
                   /\ \A q \in Readers : ReaderSound(rd[q])'
<1>0. TypeOK /\ TypeOK'
  BY TypeStep DEF PayloadInv
<1>1. ASSUME NEW w \in Writers,
             WriterStep(w) \/ \E u \in Users, s \in Shapes : SaveBegin(w, u, s)
      PROVE  Kept
  <2>1. UNCHANGED rd
    BY <1>1 DEF WriterStep, SaveBegin, SaveAccepted, SaveRefused, RemoveDelayGetter, RemoveEntryGetter,
       InsertClip, IncreaseChangeCount, WatchDelayGetter, AddDelayGetter, WatchEntryGetter,
       AddEntryGetter, SetCopyTime, SetDataExpirationTimer, SaveEnd
  <2>2. \A q \in Readers : ReaderSound(rd[q])'
    BY <2>1 DEF PayloadInv, ReaderSound
  <2>3. CASE InsertClip(w)
    BY <1>0, <2>2, <2>3, PayloadCopy
  <2>4. CASE ~InsertClip(w)
    <3>1. UNCHANGED <<installs, filled>>
      BY <1>1, <2>4 DEF WriterStep, SaveBegin, SaveAccepted, SaveRefused, RemoveDelayGetter,
         RemoveEntryGetter, IncreaseChangeCount, WatchDelayGetter, AddDelayGetter,
         WatchEntryGetter, AddEntryGetter, SetCopyTime, SetDataExpirationTimer, SaveEnd,
         store, getters
    <3>2. FilledKnown'
      BY <3>1 DEF PayloadInv, FilledKnown
    <3>3. HeldSound' /\ GettersRemoved'
      BY <1>1, <2>4, PayloadQuietWriter, PayloadRegister DEF WriterStep
    <3> QED
      BY <2>2, <3>2, <3>3
  <2> QED
    BY <2>3, <2>4
<1>2. ASSUME NEW r \in Readers, ReaderStep(r) PROVE Kept
  BY <1>0, <1>2, PayloadLook, PayloadFill, PayloadUpdate DEF ReaderStep
<1>3. ASSUME NEW r \in Readers, NEW u \in Users, ReadFind(r, u) PROVE Kept
  BY <1>3, PayloadFind
<1>4. ASSUME NEW f \in Fetchers, NEW u \in Users, NEW rec \in BOOLEAN, RemoteInsert(f, u, rec)
      PROVE  Kept
  <2>1. UNCHANGED <<wr, rd, delayGetters, entryGetters>>
    BY <1>4 DEF RemoteInsert, getters
  <2>2. GettersRemoved' /\ \A q \in Readers : ReaderSound(rd[q])'
    BY <2>1 DEF PayloadInv, GettersRemoved, ReaderSound
  <2> QED
    BY <1>0, <1>4, <2>2, PayloadRemote
<1>5. ASSUME UNCHANGED <<installs, filled, wr, rd>>,
             \A u \in Users : /\ clips'[u] \in {NoClip, clips[u]}
                              /\ delayGetters'[u] \in {0, delayGetters[u]}
                              /\ entryGetters'[u] \in {0, entryGetters[u]}
      PROVE  Kept
  BY <1>5, PayloadAway
<1> HIDE DEF Kept
<1>6. ASSUME NEW c \in Clearers, ClearErase(c) PROVE Kept
  BY <1>0, <1>5, <1>6 DEF TypeOK, ClearErase, getters
<1>7. ASSUME NEW a \in Agers, AgeErase(a) PROVE Kept
  BY <1>0, <1>5, <1>7 DEF TypeOK, AgeErase, getters
<1>8. ASSUME NEW u \in Users, NEW n \in 1..installs[u], DelayGetterDied(u, n) PROVE Kept
  BY <1>0, <1>5, <1>8 DEF TypeOK, DelayGetterDied, store, threads
<1>9. ASSUME NEW u \in Users, NEW n \in 1..installs[u], EntryGetterDied(u, n) PROVE Kept
  BY <1>0, <1>5, <1>9 DEF TypeOK, EntryGetterDied, store, threads
<1>10. ASSUME UNCHANGED <<clips, installs, filled, wr, rd, delayGetters, entryGetters>>
       PROVE  Kept
  BY <1>5, <1>10
<1>11. ASSUME Tick \/ UNCHANGED vars PROVE Kept
  BY <1>10, <1>11 DEF Tick, vars, store, getters, threads
<1>12. ASSUME NEW c \in Clearers, NEW u \in Users, ClearFind(c, u) PROVE Kept
  BY <1>10, <1>12 DEF ClearFind, store, getters
<1>13. ASSUME NEW a \in Agers, NEW u \in Users, TimerFires(a, u) PROVE Kept
  BY <1>10, <1>13 DEF TimerFires, getters
<1>14. ASSUME NEW a \in Agers, AgeFind(a) \/ AgeTime(a) PROVE Kept
  BY <1>10, <1>14 DEF AgeFind, AgeTime, store, getters
<1>15. ASSUME NEW f \in Fetchers, FetcherStep(f) PROVE Kept
  BY <1>10, <1>15 DEF FetcherStep, RemoteCount, RemoteTime, RemoteTimer, getters
<1>16. ASSUME NEW u \in Users, NEW n \in 1..installs[u], OwnerDies(u, n) PROVE Kept
  BY <1>10, <1>16 DEF OwnerDies, store, threads
<1>17. Kept
  BY <1>1, <1>2, <1>3, <1>4, <1>6, <1>7, <1>8, <1>9, <1>11, <1>12, <1>13, <1>14, <1>15, <1>16
  DEF Next, AgerStep
<1> QED
  BY <1>17 DEF Kept

\* Sound clips have no older suppliers.
LEMMA SoundSuppliers ==
  ASSUME PayloadInv, NEW u \in Users, NEW c \in Clip, ~c.remote, c.from = 0 \/ c.from >= c.copy,
         \A x \in filled : x[1] = u /\ x[2] = c.copy => x[3] >= c.copy,
         NEW n \in Suppliers(u, c)
  PROVE  n >= c.copy
<1>1. CASE n = c.from /\ n # 0
  BY <1>1
<1>2. ASSUME NEW x \in filled, x[1] = u, x[2] = c.copy, n = x[3] PROVE n >= c.copy
  BY <1>2
<1> QED
  BY <1>1, <1>2 DEF Suppliers

\* Neither the board nor a paste combines a local clip with content promised for
\* an older copy, however copies, pastes, clears, expirations, a peer's clips and
\* deaths interleave.
THEOREM NoOlderPayload == Spec => []NeverOlderPayload
<1>1. PayloadInv => NeverOlderPayload
  <2> SUFFICES ASSUME PayloadInv PROVE NeverOlderPayload
    OBVIOUS
  <2>1. ASSUME NEW u \in Users, clips[u] # NoClip, ~clips[u].remote, NEW n \in Suppliers(u, clips[u])
        PROVE  n >= clips[u].copy
    <3>1. clips[u] \in Held(u) /\ clips[u] \in Clip
      BY <2>1 DEF Held, PayloadInv, TypeOK
    <3>2. Sound(u, clips[u])
      BY <3>1 DEF PayloadInv, HeldSound
    <3> QED
      BY <2>1, <3>1, <3>2, SoundSuppliers DEF Sound
  <2>2. ASSUME NEW r \in Readers, rd[r].pc # "idle", ~rd[r].data.remote,
               NEW n \in Suppliers(rd[r].user, rd[r].data)
        PROVE  n >= rd[r].data.copy
    <3> DEFINE u == rd[r].user
    <3>1. rd[r] \in Reader /\ u \in Users /\ rd[r].data \in Clip /\ ReaderSound(rd[r])
      BY DEF PayloadInv, TypeOK, Reader
    <3>2. rd[r].found \in Held(u)
      BY <2>2 DEF Held
    <3>3. Sound(u, rd[r].found)
      BY <3>1, <3>2 DEF PayloadInv, HeldSound
    <3>4. CASE rd[r].pc \in Holding
      BY <2>2, <3>1, <3>3, <3>4, SoundSuppliers DEF Sound, ReaderSound
    <3>5. CASE rd[r].pc \in {"time", "check"}
      <4>1. rd[r].data.copy = 0 /\ rd[r].data.from = 0
        BY <3>1, <3>5 DEF ReaderSound, BlankClip
      <4>2. n \in Nat
        BY <2>2, <4>1 DEF Suppliers, PayloadInv, TypeOK
      <4> QED
        BY <4>1, <4>2
    <3> QED
      BY <2>2, <3>1, <3>4, <3>5 DEF Reader, ReaderPCs, Holding
  <2> QED
    BY <2>1, <2>2 DEF NeverOlderPayload
<1> QED
  BY <1>1, PayloadInit, PayloadStep, PTL DEF Spec
=============================================================================
