--------------------------- MODULE BindingsProofs ---------------------------
(***************************************************************************)
(* The models of the application's side that MCBindings puts side by side, *)
(* each proved for any number of observers, calls, getters and pastes.     *)
(***************************************************************************)
EXTENDS ApiCalls, ProgressPaste, DataObjects, ObserverHandles, SequenceTheorems, TLAPS

-----------------------------------------------------------------------------
(* ObserverHandles.                                                        *)

HandlesSpec == HandlesInit /\ [][HandlesNext]_handleVars

Observer == [by : Bindings, cb : Callbacks, type : Types, thread : AppThreads]

\* An observer of napi or taihe whose thread has ended.
Deserted(o) == observers[o].by # "ndk" /\ observers[o].thread \in endedThreads

\* The client library has an observer under the type its binding made it for, so that
\* whoever takes it back with that type takes all of it back; and what it has is listed
\* unless it was asked for in vain or its thread is no more.
HandlesInv ==
  /\ observers \in Seq(Observer)
  /\ lists \subseteq DOMAIN observers
  /\ \A s \in observerSet : \E o \in DOMAIN observers : s = <<o, observers[o].type>>
  /\ \A s \in observerSet : s[1] \in lists \cup stuck \/ Deserted(s[1])
  /\ \A o \in lists : observers[o].by = "ndk" => pasteboard

\* Observers that are taken back with the type they have may leave the lists.
LEMMA TakenBack ==
  ASSUME HandlesInv, NEW out \in SUBSET lists, NEW taken,
         taken = {<<o, observers[o].type>> : o \in out},
         Unsubscribe(taken), lists' = lists \ out, UNCHANGED <<observers, endedThreads>>,
         \A o \in lists' : observers[o].by = "ndk" => pasteboard'
  PROVE  HandlesInv'
<1>1. PICK failed \in SUBSET taken :
        /\ observerSet' = observerSet \ (taken \ failed)
        /\ stuck' = stuck \cup {t[1] : t \in failed}
  BY DEF Unsubscribe
<1>2. ASSUME NEW s \in observerSet' PROVE s[1] \in lists' \cup stuck' \/ Deserted(s[1])
  <2>1. PICK o \in DOMAIN observers : s = <<o, observers[o].type>>
    BY <1>1, <1>2 DEF HandlesInv
  <2>2. s[1] = o /\ (s[1] \in lists \cup stuck \/ Deserted(s[1]))
    BY <1>1, <1>2, <2>1 DEF HandlesInv
  <2>3. CASE o \in out
    <3>1. s \in taken
      BY <2>1, <2>3
    <3> QED
      BY <1>1, <1>2, <3>1
  <2> QED
    BY <1>1, <2>2, <2>3
<1>3. \A s \in observerSet' : (s[1] \in lists \cup stuck \/ Deserted(s[1]))'
  BY <1>2 DEF Deserted
<1>4. (\A s \in observerSet : \E o \in DOMAIN observers : s = <<o, observers[o].type>>)'
  BY <1>1 DEF HandlesInv
<1>5. (observers \in Seq(Observer) /\ lists \subseteq DOMAIN observers)'
  BY DEF HandlesInv
<1> QED
  BY <1>3, <1>4, <1>5 DEF HandlesInv

LEMMA HandlesStep == HandlesInv /\ [HandlesNext]_handleVars => HandlesInv'
<1> SUFFICES ASSUME HandlesInv, [HandlesNext]_handleVars PROVE HandlesInv'
  OBVIOUS
<1>1. ASSUME NEW t \in AppThreads, NEW b \in Bindings, NEW cb \in Callbacks, NEW type \in Types,
             On(t, b, cb, type)
      PROVE  HandlesInv'
  <2> DEFINE new == [by |-> b, cb |-> cb, type |-> type, thread |-> t]
             n == Len(observers) + 1
  <2>1. /\ observers' = Append(observers, new) /\ lists' = lists \cup {n}
        /\ UNCHANGED <<stuck, endedThreads, pasteboard>>
        /\ observerSet' \subseteq observerSet \cup {<<n, type>>} /\ (b = "ndk" => pasteboard)
    BY <1>1 DEF On, Subscribe
  <2>2. new \in Observer /\ new.type = type /\ new.by = b
    BY DEF Observer
  <2> HIDE DEF new
  <2>3. /\ observers' \in Seq(Observer) /\ DOMAIN observers' = 1 .. n /\ observers'[n] = new
        /\ DOMAIN observers = 1 .. Len(observers) /\ Len(observers) \in Nat
        /\ \A o \in DOMAIN observers : observers'[o] = observers[o]
    BY <2>1, <2>2 DEF HandlesInv
  <2> HIDE DEF n
  <2>4. n \in DOMAIN observers' /\ DOMAIN observers \subseteq DOMAIN observers'
    BY <2>3 DEF n
  <2>5. \A s \in observerSet' : \E o \in DOMAIN observers' : s = <<o, observers'[o].type>>
    BY <2>1, <2>2, <2>3, <2>4 DEF HandlesInv
  <2>6. ASSUME NEW s \in observerSet' PROVE (s[1] \in lists \cup stuck \/ Deserted(s[1]))'
    <3>1. CASE s = <<n, type>>
      BY <2>1, <3>1
    <3>2. CASE s \in observerSet
      <4>1. s[1] \in DOMAIN observers
        BY <3>2 DEF HandlesInv
      <4> QED
        BY <2>1, <2>3, <3>2, <4>1 DEF HandlesInv, Deserted
    <3> QED
      BY <2>1, <3>1, <3>2
  <2>7. \A o \in lists' : observers'[o].by = "ndk" => pasteboard'
    BY <2>1, <2>2, <2>3 DEF HandlesInv
  <2> QED
    BY <2>1, <2>3, <2>4, <2>5, <2>6, <2>7 DEF HandlesInv
<1>2. ASSUME NEW t \in AppThreads, NEW b \in Bindings, NEW cb \in Callbacks, NEW type \in Types,
             Off(t, b, cb, type)
      PROVE  HandlesInv'
  <2>1. PICK o \in Found(t, b, cb, type) : lists' = lists \ {o} /\ Unsubscribe({<<o, type>>})
    BY <1>2 DEF Off
  <2>2. o \in lists /\ observers[o].type = type /\ UNCHANGED <<observers, endedThreads, pasteboard>>
    BY <1>2 DEF Off, Found, Seen
  <2>3. {<<o, type>>} = {<<x, observers[x].type>> : x \in {o}}
    BY <2>2
  <2>4. \A x \in lists' : observers[x].by = "ndk" => pasteboard'
    BY <2>1, <2>2 DEF HandlesInv
  <2> QED
    BY <2>1, <2>2, <2>3, <2>4, TakenBack
<1>3. ASSUME NEW t \in AppThreads, NEW b \in Bindings, NEW type \in Types, OffAll(t, b, type)
      PROVE  HandlesInv'
  <2>1. Listed(t, b, type) \X {type} = {<<x, observers[x].type>> : x \in Listed(t, b, type)}
    BY DEF Listed
  <2>2. Listed(t, b, type) \in SUBSET lists
    BY DEF Listed, Seen
  <2>3. \A x \in lists' : observers[x].by = "ndk" => pasteboard'
    BY <1>3 DEF HandlesInv, OffAll
  <2> QED
    BY <1>3, <2>1, <2>2, <2>3, TakenBack DEF OffAll
<1>4. ASSUME NEW t \in AppThreads, NEW cb \in Callbacks, NEW type \in Types, NdkUnsubscribe(t, cb, type)
      PROVE  HandlesInv'
  <2>1. PICK o \in Found(t, "ndk", cb, type) :
          /\ lists' = lists \ {o}
          /\ IF observers[o].type = type
             THEN Unsubscribe({<<o, type>>})
             ELSE stuck' = stuck \cup {o} /\ UNCHANGED observerSet
    BY <1>4 DEF NdkUnsubscribe
  <2>2. o \in lists /\ UNCHANGED <<observers, endedThreads, pasteboard>>
    BY <1>4 DEF NdkUnsubscribe, Found, Seen
  <2>3. \A x \in lists' : observers[x].by = "ndk" => pasteboard'
    BY <2>1, <2>2 DEF HandlesInv
  <2>4. CASE observers[o].type = type
    <3>1. {<<o, type>>} = {<<x, observers[x].type>> : x \in {o}}
      BY <2>4
    <3> QED
      BY <2>1, <2>2, <2>3, <2>4, <3>1, TakenBack
  <2>5. CASE observers[o].type # type
    BY <2>1, <2>2, <2>3, <2>5 DEF HandlesInv, Deserted
  <2> QED
    BY <2>4, <2>5
<1>5. CASE OH_Pasteboard_Destroy
  <2> DEFINE all == {o \in lists : observers[o].by = "ndk"}
  <2>1. all \in SUBSET lists
    OBVIOUS
  <2>2. \A x \in lists' : observers[x].by = "ndk" => pasteboard'
    BY <1>5 DEF OH_Pasteboard_Destroy
  <2> QED
    BY <1>5, <2>1, <2>2, TakenBack DEF OH_Pasteboard_Destroy
<1>6. ASSUME NEW cb \in Callbacks, OH_PasteboardObserver_Destroy(cb) PROVE HandlesInv'
  BY <1>6 DEF OH_PasteboardObserver_Destroy, HandlesInv, Deserted
<1>7. ASSUME NEW t \in AppThreads, AppThreadEnds(t) PROVE HandlesInv'
  <2>1. /\ endedThreads' = endedThreads \cup {t}
        /\ lists' = {o \in lists : observers[o].by = "ndk" \/ observers[o].thread # t}
        /\ UNCHANGED <<observers, observerSet, stuck, pasteboard>>
    BY <1>7 DEF AppThreadEnds
  <2> QED
    BY <2>1 DEF HandlesInv, Deserted
<1>8. CASE UNCHANGED handleVars
  BY <1>8 DEF handleVars, HandlesInv, Deserted
<1> QED
  BY <1>1, <1>2, <1>3, <1>4, <1>5, <1>6, <1>7, <1>8 DEF HandlesNext

\* Whatever an application subscribes, takes back and destroys, on any number of threads,
\* and whichever of the calls fail, every observer the client library has is in the lists
\* of the thread that subscribed it (localObservers_, remoteObservers_) or of the C
\* pasteboard, or was asked for in vain, or its thread has ended.
THEOREM ObserversKnown == HandlesSpec => []NoOrphans
<1>1. HandlesInit => HandlesInv
  BY DEF HandlesInit, HandlesInv
<1>2. HandlesInv => NoOrphans
  <2> SUFFICES ASSUME HandlesInv, NEW s \in observerSet, s[1] \notin stuck
               PROVE  IF observers[s[1]].by = "ndk" THEN s[1] \in lists /\ pasteboard
                      ELSE observers[s[1]].thread \in endedThreads \/ s[1] \in Seen(observers[s[1]].thread)
    BY DEF NoOrphans
  <2>1. s[1] \in lists \/ Deserted(s[1])
    BY DEF HandlesInv
  <2> QED
    BY <2>1 DEF HandlesInv, Deserted, Seen
<1> QED
  BY <1>1, <1>2, HandlesStep, PTL DEF HandlesSpec

-----------------------------------------------------------------------------
(* ApiCalls.                                                               *)

ApiSpec == ApiInit /\ [][ApiNext]_apiVars

Getters == {"none", "entry", "unified"}

\* What the functions of all bindings have in common.  A set that keeps its getter does
\* so when it went well; one that waits a limited time keeps it only then; and a set that
\* gives up waiting tells its caller so.
ApiShape(a) ==
  /\ a.how \in {"async", "limited", "direct"}
  /\ a.op.outcomes \subseteq Outcomes
  /\ a.op.getters \subseteq Getters
  /\ a.op.kind = "set" /\ a.how = "limited" => "timeout" \in a.errors
  /\ "unified" \in a.op.getters => a.op.kind = "set" /\ "ok" \in a.keeps
  /\ a.keeps # {} => a.op.kind = "set"
  /\ a.keeps # {} /\ a.how # "async" => a.keeps = {"ok"}

LEMMA NapiShape == \A a \in NapiCalls : ApiShape(a)
  BY DEF NapiCalls, ApiShape, Async, Limited, Direct, Call, Op, WithGetter, Keeping,
     Outcomes, Getters, Timeout, Failures, SetPasteData, SetUnifiedData,
     GetPasteData, GetUnifiedData, GetRecordValueByType, Clear, GetChangeCount,
     HasPasteData, HasRemoteData, HasDataType, GetMimeTypes, DetectPatterns,
     IsRemoteData, GetDataSource, PasteStart, PasteComplete, SetAppShareOptions,
     RemoveAppShareOptions, NapiClear, NapiHasPasteData, NapiHasRemoteData,
     NapiGetPasteData, NapiGetData, NapiSetPasteData, NapiSetData,
     NapiGetUnifiedData, NapiGetUnifiedDataSync, NapiSetUnifiedData,
     NapiSetUnifiedDataSync, NapiSetAppShareOptions, NapiRemoveAppShareOptions,
     NapiIsRemoteData, NapiGetDataSource, NapiGetMimeTypes, NapiGetChangeCount,
     NapiHasDataType, NapiDetectPatterns, NapiClearDataSync, NapiGetDataSync,
     NapiSetDataSync, NapiHasDataSync, NapiGetDataWithProgress, NapiGetRecordData,
     NapiGetPrimaryHtml, NapiGetPrimaryPixelMap, NapiGetPrimaryText,
     NapiGetPrimaryUri, NapiPasteStart, NapiPasteComplete

LEMMA TaiheShape == \A a \in TaiheCalls : ApiShape(a)
  BY DEF TaiheCalls, ApiShape, Async, Limited, Direct, Call, Op, WithGetter,
     Outcomes, Getters, Timeout, Busy, SetPasteData, SetUnifiedData, GetPasteData,
     GetUnifiedData, GetRecordValueByType, Clear, GetChangeCount, HasPasteData,
     HasRemoteData, HasDataType, GetMimeTypes, DetectPatterns, IsRemoteData,
     GetDataSource, PasteStart, PasteComplete, SetAppShareOptions,
     RemoveAppShareOptions, TaiheClearDataSync, TaiheClearDataImpl,
     TaiheGetDataSync, TaiheGetDataImpl, TaiheHasDataSync, TaiheHasDataImpl,
     TaiheHasRemoteData, TaiheHasDataType, TaiheSetDataSync, TaiheSetDataImpl,
     TaiheGetMimeTypesImpl, TaiheIsRemoteData, TaiheGetDataSource,
     TaiheGetUnifiedDataImpl, TaiheGetUnifiedDataSync, TaiheSetUnifiedDataImpl,
     TaiheSetUnifiedDataSync, TaiheSetAppShareOptions, TaiheRemoveAppShareOptions,
     TaiheDetectPatternsImpl, TaiheGetChangeCount, TaiheGetHtmlText,
     TaiheGetPlainText, TaiheGetUri, TaiheGetPixelMap, TaiheGetRecordValueByType,
     TaiheGetDataWithProgressImpl, TaihePasteStart, TaihePasteComplete

LEMMA NdkShape == \A a \in NdkCalls : ApiShape(a)
  BY DEF NdkCalls, ApiShape, Async, Direct, Call, Op, Outcomes, Getters, Failures,
     SetPasteData, SetUdsdData, GetPasteData, GetUdsdData,
     GetUnifiedDataWithProgress, Clear, GetChangeCount, HasPasteData, HasRemoteData,
     HasDataType, HasUtdType, GetMimeTypes, IsRemoteData, GetDataSource,
     SyncDelayedData, NdkGetChangeCount, NdkIsRemoteData, NdkGetDataSource,
     NdkGetMimeTypes, NdkHasType, NdkHasUtdType, NdkHasData, NdkHasRemoteData,
     NdkGetData, NdkGetDataWithProgress, NdkSetData, NdkClearData,
     NdkSyncDelayedDataAsync

LEMMA CjShape == \A a \in CjCalls : ApiShape(a)
  BY DEF CjCalls, ApiShape, Direct, Call, Op, Outcomes, Getters, Failures,
     SetPasteData, GetPasteData, GetRecordValueByType, Clear, HasPasteData,
     HasDataType, IsRemoteData, GetDataSource, CjSetData, CjGetData, CjHasData,
     CjClearData, CjIsRemoteData, CjHasDataType, CjGetDataSource, CjGetPrimaryText,
     CjGetPrimaryHtml, CjGetPrimaryUri, CjGetPrimaryPixelMap

LEMMA ApisShaped == \A a \in Apis : ApiShape(a)
  BY NapiShape, TaiheShape, NdkShape, CjShape DEF Apis

CallRec == [api : Apis, getter : Getters, at : {"queued", "getting", "ran", "over"},
            result : Outcomes \cup {"none"}, told : {"nothing", "done", "error"}]

WorkRec == [of : Nat, by : Nat,
            uv : {"pooled", "posted", "cancelled", "running", "noscope", "over", "refused"},
            waiting : BOOLEAN, complete : BOOLEAN, clean : BOOLEAN, value : BOOLEAN,
            freed : Nat, usedFreed : BOOLEAN]

ApiTypeOK ==
  /\ calls \in Seq(CallRec) /\ Len(calls) <= MaxCalls
  /\ works \in Seq(WorkRec)
  /\ app \in Nat /\ board \in 0 .. Len(calls)

\* A worker is of a call that was made, and a getter only runs for a paste.
WorksOfCalls ==
  \A w \in DOMAIN works :
    /\ works[w].of \in DOMAIN calls
    /\ works[w].by # 0 => /\ works[w].by \in DOMAIN calls
                          /\ calls[works[w].by].api.op.kind \in {"get", "fetch"}

\* The worker k of a getter of kind g: whether it is freed or marked as complete by its place
\* in the queue (uv) and by whether a thread still waits for it.
WorkOK(k, g) ==
  /\ k.uv = "refused" => ~k.waiting /\ k.freed = 1
  /\ k.uv # "refused" => ~k.usedFreed
  /\ k.uv \in {"pooled", "posted", "running", "noscope", "cancelled"}
       => ~k.complete /\ ~k.value /\ k.freed = 0
  /\ k.uv = "pooled" => k.waiting /\ ~k.clean
  /\ k.uv = "cancelled" => ~k.waiting /\ ~k.clean
  /\ k.uv \in {"posted", "running", "noscope"} => (k.clean <=> ~k.waiting)
  /\ k.uv = "over" /\ k.waiting => k.complete /\ ~k.clean /\ k.freed = 0
  /\ k.uv = "over" /\ ~k.waiting
       => k.freed = IF k.value /\ ~k.clean /\ g = "entry" THEN 0 ELSE 1

WorksInv ==
  /\ ApiTypeOK /\ WorksOfCalls
  /\ \A w \in DOMAIN works : WorkOK(works[w], calls[works[w].of].getter)

Sets(c) == calls[c].api.op.kind = "set"
Fulfilled(c) == Over(c) /\ calls[c].told = "done"

\* A set that was told anything before it has ended was told that its time was up, and only
\* sets that may have one have a getter.
CallsOK ==
  \A c \in DOMAIN calls :
    /\ Sets(c) /\ calls[c].told # "nothing" /\ ~Over(c) => calls[c].told = "error"
    /\ calls[c].getter \in calls[c].api.op.getters

BoardOK ==
  board # 0 => Sets(board) /\ calls[board].result = "ok" /\ calls[board].at \in {"ran", "over"}

\* While the application waits in a set that has gone well, the clip on the clipboard is
\* not one of a set it was told about before.
AppWaits ==
  app \in DOMAIN calls /\ Sets(app) /\ calls[app].result = "ok" /\ calls[app].told = "nothing"
    => board = 0 \/ ~Fulfilled(board)

GetterKept ==
  board # 0 /\ Fulfilled(board) /\ calls[board].getter = "unified"
    => delayGetter = board \/ board \in replaced

ApiInv == WorksInv /\ CallsOK /\ BoardOK /\ AppWaits /\ GetterKept

\* A step that forgets no call and changes neither the function nor the getter of one.
CallsKept ==
  /\ calls' \in Seq(CallRec) /\ Len(calls) <= Len(calls') /\ Len(calls') <= MaxCalls
  /\ \A c \in DOMAIN calls : calls'[c].api = calls[c].api /\ calls'[c].getter = calls[c].getter

LEMMA CallUpdated ==
  ASSUME ApiTypeOK, NEW c \in DOMAIN calls, NEW new \in CallRec, calls' = [calls EXCEPT ![c] = new],
         new.api = calls[c].api, new.getter = calls[c].getter
  PROVE  /\ CallsKept /\ DOMAIN calls' = DOMAIN calls /\ calls'[c] = new
         /\ \A d \in DOMAIN calls : d # c => calls'[d] = calls[d]
<1>1. calls' \in Seq(CallRec) /\ Len(calls') = Len(calls)
  BY ExceptSeq DEF ApiTypeOK
<1>2. \A d \in DOMAIN calls : calls'[d] = IF d = c THEN new ELSE calls[d]
  OBVIOUS
<1>3. CallsKept
  BY <1>1, <1>2 DEF CallsKept, ApiTypeOK
<1> QED
  BY <1>1, <1>2, <1>3

LEMMA SameCalls == ASSUME ApiTypeOK, UNCHANGED calls PROVE CallsKept
  BY DEF ApiTypeOK, CallsKept

LEMMA WorksKept ==
  ASSUME WorksInv, CallsKept, UNCHANGED works, app' \in Nat, board' \in 0 .. Len(calls')
  PROVE  WorksInv'
<1>1. ApiTypeOK' /\ DOMAIN calls \subseteq DOMAIN calls'
  BY DEF WorksInv, ApiTypeOK, CallsKept
<1>2. \A w \in DOMAIN works : works[w].of \in DOMAIN calls
  BY DEF WorksInv, WorksOfCalls
<1>3. WorksOfCalls'
  BY <1>1 DEF WorksInv, WorksOfCalls, CallsKept
<1>4. \A w \in DOMAIN works : WorkOK(works[w], calls'[works[w].of].getter)
  BY <1>2 DEF WorksInv, CallsKept
<1> QED
  BY <1>1, <1>3, <1>4 DEF WorksInv

LEMMA WorkUpdated ==
  ASSUME WorksInv, CallsKept, app' \in Nat, UNCHANGED board,
         NEW w \in DOMAIN works, NEW new \in WorkRec, works' = [works EXCEPT ![w] = new],
         new.of = works[w].of, new.by = works[w].by, WorkOK(new, calls[new.of].getter)
  PROVE  WorksInv'
<1>1. works' \in Seq(WorkRec) /\ DOMAIN works' = DOMAIN works
  BY ExceptSeq DEF WorksInv, ApiTypeOK
<1>2. ApiTypeOK' /\ DOMAIN calls \subseteq DOMAIN calls'
  BY <1>1 DEF WorksInv, ApiTypeOK, CallsKept
<1>3. \A v \in DOMAIN works : works'[v] = IF v = w THEN new ELSE works[v]
  OBVIOUS
<1>4. \A v \in DOMAIN works : works'[v].of = works[v].of /\ works'[v].by = works[v].by
  BY <1>3
<1>5. \A v \in DOMAIN works : works[v].of \in DOMAIN calls
  BY DEF WorksInv, WorksOfCalls
<1>9. \A v \in DOMAIN works' : works'[v].by # 0 =>
        works'[v].by \in DOMAIN calls /\ calls[works'[v].by].api.op.kind \in {"get", "fetch"}
  BY <1>1, <1>4 DEF WorksInv, WorksOfCalls
<1>6. WorksOfCalls'
  BY <1>1, <1>2, <1>4, <1>5, <1>9 DEF WorksOfCalls, CallsKept
<1>7. \A v \in DOMAIN works : WorkOK(works'[v], calls[works'[v].of].getter)
  BY <1>3 DEF WorksInv
<1>8. \A v \in DOMAIN works : WorkOK(works'[v], calls'[works'[v].of].getter)
  BY <1>4, <1>5, <1>7 DEF CallsKept
<1> QED
  BY <1>1, <1>2, <1>6, <1>8 DEF WorksInv

LEMMA WorkAdded ==
  ASSUME WorksInv, CallsKept, app' \in Nat, UNCHANGED board,
         NEW new \in WorkRec, works' = Append(works, new), WorkOK(new, calls[new.of].getter),
         new.of \in DOMAIN calls,
         new.by # 0 => new.by \in DOMAIN calls /\ calls[new.by].api.op.kind \in {"get", "fetch"}
  PROVE  WorksInv'
<1>1. /\ works' \in Seq(WorkRec) /\ DOMAIN works' = DOMAIN works \cup {Len(works) + 1}
      /\ \A v \in DOMAIN works' : IF v \in DOMAIN works THEN works'[v] = works[v] ELSE works'[v] = new
  BY DEF WorksInv, ApiTypeOK
<1>2. ApiTypeOK' /\ DOMAIN calls \subseteq DOMAIN calls'
  BY <1>1 DEF WorksInv, ApiTypeOK, CallsKept
<1>3. \A v \in DOMAIN works' : works'[v].of \in DOMAIN calls
  BY <1>1 DEF WorksInv, WorksOfCalls
<1>4. \A v \in DOMAIN works' : works'[v].by # 0 =>
        works'[v].by \in DOMAIN calls /\ calls[works'[v].by].api.op.kind \in {"get", "fetch"}
  BY <1>1 DEF WorksInv, WorksOfCalls
<1>7. WorksOfCalls'
  BY <1>2, <1>3, <1>4 DEF WorksOfCalls, CallsKept
<1>5. \A v \in DOMAIN works' : WorkOK(works'[v], calls[works'[v].of].getter)
  BY <1>1 DEF WorksInv
<1>6. \A v \in DOMAIN works' : WorkOK(works'[v], calls'[works'[v].of].getter)
  BY <1>3, <1>5 DEF CallsKept
<1> QED
  BY <1>2, <1>7, <1>6 DEF WorksInv

LEMMA UsedWork ==
  ASSUME NEW k \in WorkRec
  PROVE  /\ Used(k) \in WorkRec /\ (k.freed = 0 /\ ~k.usedFreed => ~Used(k).usedFreed)
         /\ Used(k).of = k.of /\ Used(k).by = k.by /\ Used(k).uv = k.uv /\ Used(k).waiting = k.waiting
         /\ Used(k).complete = k.complete /\ Used(k).clean = k.clean /\ Used(k).value = k.value
         /\ Used(k).freed = k.freed
<1> DEFINE used == k.usedFreed \/ k.freed > 0
<1>1. used \in BOOLEAN
  OBVIOUS
<1>2. k.freed \in Nat /\ (k.freed = 0 /\ ~k.usedFreed => ~used)
  BY DEF WorkRec
<1>3. Used(k) = [k EXCEPT !.usedFreed = used]
  BY DEF Used
<1> HIDE DEF used
<1> QED
  BY <1>1, <1>2, <1>3 DEF WorkRec

LEMMA WorkStepSound ==
  ASSUME WorksInv, NEW w \in DOMAIN works, WorkStep(w) PROVE WorksInv'
<1> DEFINE k == works[w]
           g == calls[k.of].getter
<1>1. k \in WorkRec /\ WorkOK(k, g) /\ ApiTypeOK /\ (k.by # 0 => k.by \in DOMAIN calls)
  BY ElementOfSeq DEF WorksInv, ApiTypeOK, WorksOfCalls
<1>2. Used(k) \in WorkRec /\ (k.freed = 0 /\ ~k.usedFreed => ~Used(k).usedFreed)
      /\ Used(k).of = k.of /\ Used(k).by = k.by /\ Used(k).uv = k.uv /\ Used(k).waiting = k.waiting
      /\ Used(k).complete = k.complete /\ Used(k).clean = k.clean /\ Used(k).value = k.value
      /\ Used(k).freed = k.freed
  BY <1>1, UsedWork
<1>3. ASSUME NEW new \in WorkRec, Update(w, new), UNCHANGED board, CallsKept, app' \in Nat,
             new.of = k.of, new.by = k.by, WorkOK(new, g)
      PROVE  WorksInv'
  BY <1>3, WorkUpdated DEF Update
<1>4. ASSUME Resume(w) PROVE CallsKept
  <2>1. CASE k.by = 0
    BY <1>1, <1>4, <2>1, SameCalls DEF Resume
  <2>2. CASE k.by # 0
    <3> DEFINE call == calls[k.by]
               new == [call EXCEPT !.at = "ran", !.result = "ok"]
    <3>1. call \in CallRec
      BY <1>1, <2>2, ElementOfSeq DEF ApiTypeOK
    <3>2. new \in CallRec /\ new.api = call.api /\ new.getter = call.getter
      BY <3>1 DEF CallRec, Outcomes
    <3>3. calls' = [calls EXCEPT ![k.by] = new]
      BY <1>4, <2>2 DEF Resume
    <3> HIDE DEF new
    <3> QED
      BY <1>1, <2>2, <3>2, <3>3, CallUpdated
  <2> QED
    BY <2>1, <2>2
<1>5. app \in Nat
  BY <1>1 DEF ApiTypeOK
<1>6. CASE PoolRuns(w)
  <2> DEFINE new == [k EXCEPT !.uv = "posted"]
  <2>1. new \in WorkRec /\ new.of = k.of /\ new.by = k.by /\ WorkOK(new, g)
    BY <1>1, <1>6 DEF PoolRuns, WorkRec, WorkOK
  <2>2. Update(w, new) /\ UNCHANGED <<board, calls, app>>
    BY <1>6 DEF PoolRuns
  <2> QED
    BY <1>1, <1>3, <1>5, <2>1, <2>2, SameCalls
<1>7. CASE LoopCancelled(w)
  <2> DEFINE u == Used(k)
             over == [u EXCEPT !.uv = "over"]
             new == Freed(over)
  <2>0. u \in WorkRec
    BY <1>2
  <2> HIDE DEF u
  <2>4. /\ over \in WorkRec /\ over.of = u.of /\ over.by = u.by /\ over.uv = "over" /\ over.freed = u.freed
        /\ over.waiting = u.waiting /\ over.complete = u.complete /\ over.clean = u.clean
        /\ over.value = u.value /\ over.usedFreed = u.usedFreed
    BY <2>0 DEF WorkRec
  <2>2. Update(w, new) /\ UNCHANGED <<board, calls, app>> /\ k.uv = "cancelled"
    BY <1>7 DEF LoopCancelled, u
  <2> HIDE DEF over
  <2>1. /\ new \in WorkRec /\ new.of = u.of /\ new.by = u.by /\ new.uv = "over" /\ new.freed = u.freed + 1
        /\ new.waiting = u.waiting /\ new.complete = u.complete /\ new.clean = u.clean /\ new.value = u.value
        /\ new.usedFreed = u.usedFreed
    BY <2>4 DEF Freed, WorkRec
  <2> HIDE DEF new
  <2>3. WorkOK(new, g)
    BY <1>1, <1>2, <2>1, <2>2 DEF WorkOK, u
  <2> QED
    BY <1>1, <1>2, <1>3, <1>5, <2>1, <2>2, <2>3, SameCalls DEF u
<1>8. CASE LoopCalls(w)
  <2>1. ASSUME NEW uv \in {"running", "noscope"} PROVE
          /\ [Used(k) EXCEPT !.uv = uv] \in WorkRec
          /\ [Used(k) EXCEPT !.uv = uv].of = k.of /\ [Used(k) EXCEPT !.uv = uv].by = k.by
          /\ WorkOK([Used(k) EXCEPT !.uv = uv], g)
    <3> DEFINE u == Used(k)
               new == [u EXCEPT !.uv = uv]
    <3>0. u \in WorkRec
      BY <1>2
    <3> HIDE DEF u
    <3>1. /\ new \in WorkRec /\ new.of = u.of /\ new.by = u.by /\ new.uv = uv /\ new.freed = u.freed
          /\ new.waiting = u.waiting /\ new.complete = u.complete /\ new.clean = u.clean /\ new.value = u.value
          /\ new.usedFreed = u.usedFreed
      BY <3>0 DEF WorkRec
    <3> HIDE DEF new
    <3>2. k.uv = "posted"
      BY <1>8 DEF LoopCalls
    <3>3. WorkOK(new, g)
      BY <1>1, <1>2, <3>1, <3>2 DEF WorkOK, u
    <3> QED
      BY <1>2, <3>1, <3>3 DEF new, u
  <2>2. /\ UNCHANGED <<board, calls>> /\ app' \in {InGetter, app}
        /\ \E uv \in {"running", "noscope"} : Update(w, [Used(k) EXCEPT !.uv = uv])
    BY <1>8 DEF LoopCalls
  <2>3. app' \in Nat
    BY <1>5, <2>2, ApiAssumption DEF InGetter
  <2> QED
    BY <1>1, <1>3, <2>1, <2>2, <2>3, SameCalls
<1>9. CASE GetterReturns(w)
  <2>1. PICK v \in BOOLEAN :
          LET done == [Used(k) EXCEPT !.uv = "over", !.complete = TRUE, !.value = v]
          IN Update(w, IF done.clean THEN Freed(done) ELSE done)
    BY <1>9 DEF GetterReturns
  <2> DEFINE u == Used(k)
             done == [u EXCEPT !.uv = "over", !.complete = TRUE, !.value = v]
             new == IF done.clean THEN Freed(done) ELSE done
  <2>2. u \in WorkRec /\ Update(w, new) /\ UNCHANGED <<board, calls>> /\ app' = 0 /\ k.uv = "running"
    BY <1>2, <1>9, <2>1 DEF GetterReturns
  <2> HIDE DEF u
  <2>3. /\ done \in WorkRec /\ done.of = u.of /\ done.by = u.by /\ done.uv = "over" /\ done.freed = u.freed
        /\ done.waiting = u.waiting /\ done.complete = TRUE /\ done.clean = u.clean /\ done.value = v
        /\ done.usedFreed = u.usedFreed
    BY <2>2 DEF WorkRec
  <2> HIDE DEF done
  <2>4. /\ new \in WorkRec /\ new.of = u.of /\ new.by = u.by /\ new.uv = "over"
        /\ new.freed = IF done.clean THEN done.freed + 1 ELSE done.freed
        /\ new.waiting = u.waiting /\ new.complete = TRUE /\ new.clean = u.clean /\ new.value = v
        /\ new.usedFreed = u.usedFreed
    BY <2>3 DEF WorkRec, Freed
  <2> HIDE DEF new
  <2>5. WorkOK(new, g)
    BY <1>1, <1>2, <2>2, <2>3, <2>4 DEF WorkOK, u
  <2> QED
    BY <1>1, <1>2, <1>3, <2>2, <2>4, <2>5, SameCalls DEF u
<1>10. CASE WaitEnds(w)
  <2> DEFINE u == Used(k)
             done == [u EXCEPT !.waiting = FALSE]
             new == IF done.value /\ calls[done.of].getter = "entry" THEN done ELSE Freed(done)
  <2>2. u \in WorkRec /\ Update(w, new) /\ Resume(w) /\ UNCHANGED <<board, app>> /\ k.waiting /\ k.complete
    BY <1>2, <1>10 DEF WaitEnds
  <2> HIDE DEF u
  <2>3. /\ done \in WorkRec /\ done.of = u.of /\ done.by = u.by /\ done.uv = u.uv /\ done.freed = u.freed
        /\ done.waiting = FALSE /\ done.complete = u.complete /\ done.clean = u.clean /\ done.value = u.value
        /\ done.usedFreed = u.usedFreed
    BY <2>2 DEF WorkRec
  <2> HIDE DEF done
  <2>4. /\ new \in WorkRec /\ new.of = u.of /\ new.by = u.by /\ new.uv = u.uv
        /\ new.freed = IF done.value /\ calls[done.of].getter = "entry" THEN u.freed ELSE u.freed + 1
        /\ new.waiting = FALSE /\ new.complete = u.complete /\ new.clean = u.clean /\ new.value = u.value
        /\ new.usedFreed = u.usedFreed
    BY <2>3 DEF WorkRec, Freed
  <2> HIDE DEF new
  <2>5. k.uv = "over" /\ done.of = k.of
    BY <1>1, <1>2, <2>2, <2>3 DEF WorkOK, WorkRec, u
  <2>6. WorkOK(new, g)
    BY <1>1, <1>2, <2>2, <2>3, <2>4, <2>5 DEF WorkOK, u
  <2> QED
    BY <1>2, <1>3, <1>4, <1>5, <2>2, <2>4, <2>6 DEF u
<1>11. CASE GetterTimeout(w)
  <2> DEFINE u == Used(k)
             new == [u EXCEPT !.waiting = FALSE, !.uv = IF @ = "pooled" THEN "cancelled" ELSE @,
                              !.clean = k.uv # "pooled"]
  <2>2. /\ u \in WorkRec /\ Update(w, new) /\ Resume(w) /\ UNCHANGED <<board, app>>
        /\ k.waiting /\ ~k.complete /\ k.uv # "running"
    BY <1>2, <1>11 DEF GetterTimeout
  <2> HIDE DEF u
  <2>3. /\ new \in WorkRec /\ new.of = u.of /\ new.by = u.by
        /\ new.uv = (IF u.uv = "pooled" THEN "cancelled" ELSE u.uv) /\ new.freed = u.freed
        /\ new.waiting = FALSE /\ new.complete = u.complete /\ (new.clean <=> k.uv # "pooled")
        /\ new.value = u.value /\ new.usedFreed = u.usedFreed
    BY <2>2 DEF WorkRec
  <2> HIDE DEF new
  <2>4. k.uv \in {"pooled", "posted", "noscope"}
    BY <1>1, <2>2 DEF WorkOK, WorkRec
  <2>5. WorkOK(new, g)
    BY <1>1, <1>2, <2>2, <2>3, <2>4 DEF WorkOK, u
  <2> QED
    BY <1>2, <1>3, <1>4, <1>5, <2>2, <2>3, <2>5 DEF u
<1> QED
  BY <1>6, <1>7, <1>8, <1>9, <1>10, <1>11 DEF WorkStep

LEMMA NewWorkSound ==
  ASSUME WorksInv, board # 0, NEW by \in Nat, NEW new, new = NewWork(by) \/ new = RefusedWork(by)
  PROVE  /\ new \in WorkRec /\ new.of = board /\ new.by = by /\ board \in DOMAIN calls
         /\ \A g : WorkOK(new, g)
<1> DEFINE n == NewWork(by)
           r == RefusedWork(by)
<1>1. /\ n \in WorkRec /\ n.of = board /\ n.by = by /\ n.uv = "pooled" /\ n.waiting /\ ~n.complete
      /\ ~n.clean /\ ~n.value /\ n.freed = 0 /\ ~n.usedFreed
  BY DEF NewWork, WorkRec, WorksInv, ApiTypeOK
<1>2. r = [n EXCEPT !.uv = "refused", !.waiting = FALSE, !.freed = 1, !.usedFreed = TRUE]
  BY DEF RefusedWork
<1>3. board \in DOMAIN calls
  BY DEF WorksInv, ApiTypeOK
<1> HIDE DEF n, r
<1>4. r \in WorkRec /\ r.of = n.of /\ r.by = n.by /\ r.uv = "refused" /\ r.waiting = FALSE /\ r.freed = 1
  BY <1>1, <1>2 DEF WorkRec
<1>5. \A g : WorkOK(n, g) /\ WorkOK(r, g)
  BY <1>1, <1>4 DEF WorkOK
<1> QED
  BY <1>1, <1>3, <1>4, <1>5 DEF n, r

LEMMA AskSound ==
  ASSUME WorksInv, CallsKept, board # 0, NEW by \in Nat, UNCHANGED <<app, board>>,
         NEW new, new = NewWork(by) \/ new = RefusedWork(by), works' = Append(works, new),
         by # 0 => by \in DOMAIN calls /\ calls[by].api.op.kind \in {"get", "fetch"}
  PROVE  WorksInv'
<1>1. app' \in Nat
  BY DEF WorksInv, ApiTypeOK
<1>2. /\ new \in WorkRec /\ new.of = board /\ new.by = by /\ board \in DOMAIN calls
      /\ WorkOK(new, calls[new.of].getter)
  BY NewWorkSound
<1> QED
  BY <1>1, <1>2, WorkAdded

\* A step that leaves the sets, the clipboard and the kept getter alone.
LEMMA PromisesKept ==
  ASSUME ApiInv, CallsKept, DOMAIN calls' = DOMAIN calls,
         \A c \in DOMAIN calls : Sets(c) => calls'[c] = calls[c],
         app' = app \/ app' \notin DOMAIN calls, UNCHANGED <<board, delayGetter, replaced>>
  PROVE  (CallsOK /\ BoardOK /\ AppWaits /\ GetterKept)'
<1> USE DEF Sets, Over, Fulfilled
<1>1. \A c \in DOMAIN calls : Sets(c)' <=> Sets(c)
  BY DEF CallsKept
<1>2. board # 0 => board \in DOMAIN calls /\ calls'[board] = calls[board]
  BY DEF ApiInv, WorksInv, ApiTypeOK, BoardOK
<1>3. CallsOK'
  BY <1>1 DEF ApiInv, CallsOK, CallsKept
<1>4. BoardOK' /\ GetterKept'
  BY <1>2 DEF ApiInv, BoardOK, GetterKept
<1>5. AppWaits'
  BY <1>1, <1>2 DEF ApiInv, AppWaits
<1> QED
  BY <1>3, <1>4, <1>5

LEMMA StartSound == ASSUME ApiInv, NEW a \in Apis, Start(a) PROVE ApiInv'
<1> USE DEF Sets, Over, Fulfilled
<1>1. PICK g \in a.op.getters :
        calls' = Append(calls, [api |-> a, getter |-> g, at |-> "queued", result |-> "none",
                                told |-> "nothing"])
  BY DEF Start
<1> DEFINE new == [api |-> a, getter |-> g, at |-> "queued", result |-> "none", told |-> "nothing"]
           n == Len(calls) + 1
<1>2. g \in Getters
  BY ApisShaped DEF ApiShape
<1>3. new \in CallRec /\ new.api = a /\ new.getter = g /\ new.result = "none" /\ new.told = "nothing"
  BY <1>2 DEF CallRec
<1> HIDE DEF new
<1>4. /\ calls' \in Seq(CallRec) /\ Len(calls') = n /\ calls'[n] = new
      /\ \A c \in DOMAIN calls : c \in DOMAIN calls' /\ calls'[c] = calls[c]
      /\ DOMAIN calls' = DOMAIN calls \cup {n} /\ Len(calls) \in Nat
  BY <1>1, <1>3 DEF ApiInv, WorksInv, ApiTypeOK, new
<1>5. /\ Len(calls) < MaxCalls /\ app' \in {0, n} /\ app' \in Nat
      /\ UNCHANGED <<board, works, delayGetter, replaced>>
  BY <1>4 DEF Start
<1>6. CallsKept
  BY <1>4, <1>5, ApiAssumption DEF CallsKept
<1>7. board' \in 0 .. Len(calls') /\ (board # 0 => board \in DOMAIN calls)
  BY <1>4, <1>5 DEF ApiInv, WorksInv, ApiTypeOK
<1>8. WorksInv'
  BY <1>5, <1>6, <1>7, WorksKept DEF ApiInv
<1> HIDE DEF n
<1>9. CallsOK'
  BY <1>1, <1>3, <1>4 DEF ApiInv, CallsOK
<1>10. BoardOK' /\ GetterKept'
  BY <1>4, <1>5, <1>7 DEF ApiInv, BoardOK, GetterKept
<1>11. AppWaits'
  <2>1. 0 \notin DOMAIN calls'
    BY <1>4
  <2> QED
    BY <1>3, <1>4, <1>5, <2>1 DEF AppWaits
<1> QED
  BY <1>8, <1>9, <1>10, <1>11 DEF ApiInv

LEMMA RunSound == ASSUME ApiInv, NEW c \in DOMAIN calls, Run(c) PROVE ApiInv'
<1> USE DEF Sets, Over, Fulfilled
<1> DEFINE k == calls[c]
<1>1. PICK r \in k.api.op.outcomes :
        /\ calls' = [calls EXCEPT ![c].at = "ran", ![c].result = r]
        /\ board' = CASE k.api.op.kind = "set" /\ r = "ok" -> c
                      [] k.api.op.kind = "clear" -> 0
                      [] OTHER -> board
  BY DEF Run
<1>2. k \in CallRec /\ ApiTypeOK
  BY ElementOfSeq DEF ApiInv, WorksInv, ApiTypeOK
<1>3. r \in Outcomes
  BY <1>2, ApisShaped DEF CallRec, ApiShape
<1> DEFINE new == [k EXCEPT !.at = "ran", !.result = r]
<1>4. /\ new \in CallRec /\ new.api = k.api /\ new.getter = k.getter /\ new.at = "ran"
      /\ new.result = r /\ new.told = k.told
  BY <1>2, <1>3 DEF CallRec
<1>5. calls' = [calls EXCEPT ![c] = new]
  BY <1>1
<1> HIDE DEF new
<1>6. /\ CallsKept /\ DOMAIN calls' = DOMAIN calls /\ calls'[c] = new
      /\ \A d \in DOMAIN calls : d # c => calls'[d] = calls[d]
  BY <1>2, <1>4, <1>5, CallUpdated
<1>7. UNCHANGED <<app, delayGetter, works, replaced>> /\ k.at = "queued"
  BY DEF Run
<1>8. (Sets(c) /\ r = "ok" /\ board' = c) \/ (~(Sets(c) /\ r = "ok") /\ board' \in {0, board})
  BY <1>1
<1>9. board # c /\ (board # 0 => board \in DOMAIN calls) /\ 0 \notin DOMAIN calls
  BY <1>2, <1>7 DEF ApiInv, BoardOK, ApiTypeOK
<1>10. WorksInv'
  <2>1. board' \in 0 .. Len(calls') /\ app' \in Nat
    BY <1>2, <1>6, <1>7, <1>8 DEF ApiTypeOK, CallsKept
  <2> QED
    BY <1>6, <1>7, <2>1, WorksKept DEF ApiInv
<1>11. CallsOK'
  BY <1>4, <1>6, <1>7 DEF ApiInv, CallsOK
<1>12. BoardOK' /\ GetterKept'
  BY <1>4, <1>6, <1>7, <1>8, <1>9 DEF ApiInv, BoardOK, GetterKept
<1>13. AppWaits'
  BY <1>4, <1>6, <1>7, <1>8, <1>9 DEF ApiInv, AppWaits
<1> QED
  BY <1>10, <1>11, <1>12, <1>13 DEF ApiInv

LEMMA AnswerSound == ASSUME ApiInv, NEW c \in DOMAIN calls, Answer(c) PROVE ApiInv'
<1> USE DEF Sets, Over, Fulfilled
<1> DEFINE k == calls[c]
           new == [k EXCEPT !.at = "over", !.told = Told(c, k.result)]
<1>0. k \in CallRec /\ ApiTypeOK
  BY ElementOfSeq DEF ApiInv, WorksInv, ApiTypeOK
<1>1. k \in CallRec /\ ApiTypeOK /\ ApiShape(k.api)
  BY <1>0, ApisShaped DEF CallRec
<1>2. Told(c, k.result) \in {"done", "error"}
  BY DEF Told
<1>3. /\ new \in CallRec /\ new.api = k.api /\ new.getter = k.getter /\ new.at = "over"
      /\ new.result = k.result
  BY <1>1, <1>2 DEF CallRec
<1>4. calls' = [calls EXCEPT ![c] = new]
  BY DEF Answer
<1> HIDE DEF new
<1>5. /\ CallsKept /\ DOMAIN calls' = DOMAIN calls /\ calls'[c] = new
      /\ \A d \in DOMAIN calls : d # c => calls'[d] = calls[d]
  BY <1>1, <1>3, <1>4, CallUpdated
<1>6. /\ UNCHANGED <<board, works>> /\ app' = 0 /\ k.told = "nothing"
      /\ app = IF k.api.how = "async" THEN 0 ELSE c
  BY DEF Answer
<1>7. IF k.result \in k.api.keeps
      THEN /\ delayGetter' = IF k.getter = "unified" THEN c ELSE 0
           /\ replaced' = IF k.api.how = "async" THEN replaced \cup {delayGetter} ELSE replaced
      ELSE UNCHANGED <<delayGetter, replaced>>
  BY DEF Answer, Keep
<1>8. (board # 0 => board \in DOMAIN calls) /\ 0 \notin DOMAIN calls
  BY <1>1 DEF ApiTypeOK
<1>9. WorksInv'
  <2>1. board' \in 0 .. Len(calls') /\ app' \in Nat
    BY <1>1, <1>5, <1>6 DEF ApiTypeOK, CallsKept
  <2> QED
    BY <1>5, <1>6, <2>1, WorksKept DEF ApiInv
<1>10. CallsOK' /\ BoardOK' /\ AppWaits'
  <2>1. CallsOK'
    BY <1>3, <1>5 DEF ApiInv, CallsOK
  <2>2. BoardOK'
    BY <1>3, <1>5, <1>6, <1>8 DEF ApiInv, BoardOK
  <2> QED
    BY <1>5, <1>6, <1>8, <2>1, <2>2 DEF AppWaits
<1>11. GetterKept'
  <2> SUFFICES ASSUME board # 0, Fulfilled(board)', calls'[board].getter = "unified"
               PROVE  delayGetter' = board \/ board \in replaced'
    BY <1>6 DEF GetterKept
  <2>1. CASE board = c
    <3>1. k.getter = "unified" /\ k.result = "ok" /\ "ok" \in k.api.keeps
      BY <1>1, <1>3, <1>5, <2>1 DEF ApiInv, BoardOK, CallsOK, ApiShape
    <3> QED
      BY <1>7, <2>1, <3>1
  <2>2. CASE board # c
    <3>1. (delayGetter = board \/ board \in replaced) /\ Fulfilled(board)
      BY <1>5, <1>6, <1>8, <2>2 DEF ApiInv, GetterKept
    <3>2. CASE k.api.how = "async" \/ k.result \notin k.api.keeps
      BY <1>7, <3>1, <3>2
    <3>3. CASE k.api.how # "async" /\ k.result \in k.api.keeps
      <4>1. app = c /\ Sets(c) /\ k.result = "ok"
        BY <1>1, <1>6, <3>3 DEF ApiShape
      <4> QED
        BY <1>6, <3>1, <4>1 DEF ApiInv, AppWaits
    <3> QED
      BY <3>2, <3>3
  <2> QED
    BY <2>1, <2>2
<1> QED
  BY <1>9, <1>10, <1>11 DEF ApiInv

LEMMA ThreadSound == ASSUME ApiInv, NEW c \in DOMAIN calls, SyncTimeout(c) \/ ThreadEnds(c) PROVE ApiInv'
<1> USE DEF Sets, Over, Fulfilled
<1> DEFINE k == calls[c]
<1>0. k \in CallRec /\ ApiTypeOK
  BY ElementOfSeq DEF ApiInv, WorksInv, ApiTypeOK
<1>1. k \in CallRec /\ ApiTypeOK /\ ApiShape(k.api)
  BY <1>0, ApisShaped DEF CallRec
<1>2. (board # 0 => board \in DOMAIN calls) /\ 0 \notin DOMAIN calls
  BY <1>1 DEF ApiTypeOK
<1>3. CASE SyncTimeout(c)
  <2> DEFINE new == [k EXCEPT !.told = Told(c, "timeout")]
  <2>1. Told(c, "timeout") \in {"done", "error"} /\ (Sets(c) => Told(c, "timeout") = "error")
    BY <1>1, <1>3 DEF Told, SyncTimeout, ApiShape
  <2>2. /\ new \in CallRec /\ new.api = k.api /\ new.getter = k.getter /\ new.at = k.at
        /\ new.result = k.result /\ new.told = Told(c, "timeout")
    BY <1>1, <2>1 DEF CallRec
  <2>3. calls' = [calls EXCEPT ![c] = new]
    BY <1>3 DEF SyncTimeout, Set
  <2> HIDE DEF new
  <2>4. /\ CallsKept /\ DOMAIN calls' = DOMAIN calls /\ calls'[c] = new
        /\ \A d \in DOMAIN calls : d # c => calls'[d] = calls[d]
    BY <1>1, <2>2, <2>3, CallUpdated
  <2>5. UNCHANGED <<board, works, delayGetter, replaced>> /\ app' = 0 /\ k.at # "over"
    BY <1>3 DEF SyncTimeout, Waiting
  <2>6. board' \in 0 .. Len(calls') /\ app' \in Nat
    BY <1>1, <2>4, <2>5 DEF ApiTypeOK, CallsKept
  <2>7. WorksInv'
    BY <2>4, <2>5, <2>6, WorksKept DEF ApiInv
  <2>8. CallsOK' /\ BoardOK' /\ AppWaits' /\ GetterKept'
    BY <1>2, <2>1, <2>2, <2>4, <2>5 DEF ApiInv, CallsOK, BoardOK, AppWaits, GetterKept
  <2> QED
    BY <2>7, <2>8 DEF ApiInv
<1>4. CASE ThreadEnds(c)
  <2> DEFINE new == [k EXCEPT !.at = "over"]
  <2>2. /\ new \in CallRec /\ new.api = k.api /\ new.getter = k.getter /\ new.at = "over"
        /\ new.result = k.result /\ new.told = k.told
    BY <1>1 DEF CallRec
  <2>3. calls' = [calls EXCEPT ![c] = new]
    BY <1>4 DEF ThreadEnds, Set
  <2> HIDE DEF new
  <2>4. /\ CallsKept /\ DOMAIN calls' = DOMAIN calls /\ calls'[c] = new
        /\ \A d \in DOMAIN calls : d # c => calls'[d] = calls[d]
    BY <1>1, <2>2, <2>3, CallUpdated
  <2>5. UNCHANGED <<app, board, works, delayGetter, replaced>> /\ k.at = "ran" /\ k.told # "nothing"
    BY <1>4 DEF ThreadEnds
  <2>6. board' \in 0 .. Len(calls') /\ app' \in Nat
    BY <1>1, <2>4, <2>5 DEF ApiTypeOK, CallsKept
  <2>7. WorksInv'
    BY <2>4, <2>5, <2>6, WorksKept DEF ApiInv
  <2>8. Sets(c) => k.told = "error"
    BY <2>5 DEF ApiInv, CallsOK
  <2>9. CallsOK' /\ BoardOK'
    BY <1>2, <2>2, <2>4, <2>5 DEF ApiInv, CallsOK, BoardOK
  <2>10. AppWaits' /\ GetterKept'
    BY <1>2, <2>2, <2>4, <2>5, <2>8 DEF ApiInv, BoardOK, AppWaits, GetterKept
  <2> QED
    BY <2>7, <2>9, <2>10 DEF ApiInv
<1> QED
  BY <1>3, <1>4

LEMMA RunGetterSound == ASSUME ApiInv, NEW c \in DOMAIN calls, RunGetter(c) PROVE ApiInv'
<1> DEFINE k == calls[c]
           new == [k EXCEPT !.at = "getting"]
<1>1. k \in CallRec /\ ApiTypeOK
  BY ElementOfSeq DEF ApiInv, WorksInv, ApiTypeOK
<1>8. c \in Nat /\ c # 0
  BY <1>1 DEF ApiTypeOK
<1>2. new \in CallRec /\ new.api = k.api /\ new.getter = k.getter
  BY <1>1 DEF CallRec
<1>3. calls' = [calls EXCEPT ![c] = new]
  BY DEF RunGetter, Set
<1> HIDE DEF new
<1>4. /\ CallsKept /\ DOMAIN calls' = DOMAIN calls
      /\ \A d \in DOMAIN calls : d # c => calls'[d] = calls[d]
  BY <1>1, <1>2, <1>3, CallUpdated
<1>5. /\ UNCHANGED <<app, board, delayGetter, replaced>> /\ board # 0
      /\ k.api.op.kind \in {"get", "fetch"} /\ works' = Append(works, NewWork(c))
  BY DEF RunGetter, Ask, Delayed
<1>6. WorksInv'
  BY <1>4, <1>5, <1>8, AskSound DEF ApiInv
<1>7. \A d \in DOMAIN calls : Sets(d) => calls'[d] = calls[d]
  BY <1>4, <1>5 DEF Sets
<1> QED
  BY <1>4, <1>5, <1>6, <1>7, PromisesKept DEF ApiInv

LEMMA WorkKeepsPromises == ASSUME ApiInv, NEW w \in DOMAIN works, WorkStep(w) PROVE ApiInv'
<1>1. WorksInv' /\ ApiTypeOK
  BY WorkStepSound DEF ApiInv, WorksInv
<1>2. (app' = app \/ app' \notin DOMAIN calls) /\ UNCHANGED <<board, delayGetter, replaced>>
  <2>1. InGetter \notin DOMAIN calls /\ 0 \notin DOMAIN calls
    BY <1>1, ApiAssumption DEF ApiTypeOK, InGetter
  <2> QED
    BY <2>1 DEF WorkStep, PoolRuns, LoopCancelled, LoopCalls, GetterReturns, WaitEnds, GetterTimeout
<1>3. UNCHANGED calls \/ Resume(w)
  BY DEF WorkStep, PoolRuns, LoopCancelled, LoopCalls, GetterReturns, WaitEnds, GetterTimeout
<1>4. CASE UNCHANGED calls
  BY <1>1, <1>2, <1>4, SameCalls, PromisesKept DEF ApiInv
<1>5. CASE calls' # calls
  <2> DEFINE b == works[w].by
             k == calls[b]
             new == [k EXCEPT !.at = "ran", !.result = "ok"]
  <2>1. b # 0 /\ calls' = [calls EXCEPT ![b] = new]
    BY <1>3, <1>5 DEF Resume
  <2>2. b \in DOMAIN calls /\ k.api.op.kind \in {"get", "fetch"}
    BY <2>1 DEF ApiInv, WorksInv, WorksOfCalls
  <2>3. k \in CallRec
    BY <1>1, <2>2, ElementOfSeq DEF ApiTypeOK
  <2>4. new \in CallRec /\ new.api = k.api /\ new.getter = k.getter
    BY <2>3 DEF CallRec, Outcomes
  <2> HIDE DEF new
  <2>5. /\ CallsKept /\ DOMAIN calls' = DOMAIN calls
        /\ \A d \in DOMAIN calls : d # b => calls'[d] = calls[d]
    BY <1>1, <2>1, <2>2, <2>4, CallUpdated
  <2>6. \A d \in DOMAIN calls : Sets(d) => calls'[d] = calls[d]
    BY <2>2, <2>5 DEF Sets
  <2> QED
    BY <1>1, <1>2, <2>5, <2>6, PromisesKept DEF ApiInv
<1> QED
  BY <1>4, <1>5

LEMMA ApiStep == ApiInv /\ [ApiNext]_apiVars => ApiInv'
<1> SUFFICES ASSUME ApiInv, [ApiNext]_apiVars PROVE ApiInv'
  OBVIOUS
<1>1. ApiTypeOK
  BY DEF ApiInv, WorksInv
<1>2. CASE OtherSets
  <2>1. UNCHANGED <<calls, app, works>> /\ board' = 0 /\ CallsKept
    BY <1>1, <1>2, SameCalls DEF OtherSets
  <2>2. app' \in Nat /\ board' \in 0 .. Len(calls')
    BY <1>1, <2>1 DEF ApiTypeOK
  <2>3. WorksInv'
    BY <2>1, <2>2, WorksKept DEF ApiInv
  <2> QED
    BY <2>1, <2>3 DEF ApiInv, CallsOK, BoardOK, AppWaits, GetterKept, Sets, Over
<1>3. CASE OtherPastes \/ QueueRefused
  <2>1. UNCHANGED <<calls, app, board, delayGetter, replaced>> /\ board # 0 /\ CallsKept
    BY <1>1, <1>3, SameCalls DEF OtherPastes, QueueRefused, Delayed, Ask
  <2>2. works' = Append(works, NewWork(0)) \/ works' = Append(works, RefusedWork(0))
    BY <1>3 DEF OtherPastes, QueueRefused, Ask
  <2>3. WorksInv'
    BY <2>1, <2>2, AskSound DEF ApiInv
  <2> QED
    BY <2>1, <2>3, PromisesKept DEF ApiInv
<1>4. CASE UNCHANGED apiVars
  <2>1. UNCHANGED <<calls, app, board, works, delayGetter, replaced>> /\ CallsKept
    BY <1>1, <1>4, SameCalls DEF apiVars
  <2>2. app' \in Nat /\ board' \in 0 .. Len(calls')
    BY <1>1, <2>1 DEF ApiTypeOK
  <2> QED
    BY <2>1, <2>2, WorksKept, PromisesKept DEF ApiInv
<1> QED
  BY <1>2, <1>3, <1>4, StartSound, RunSound, RunGetterSound, AnswerSound, ThreadSound,
     WorkKeepsPromises DEF ApiNext, CallStep

LEMMA ApiStart == ApiInit => ApiInv
  BY ApiAssumption
     DEF ApiInit, ApiInv, WorksInv, ApiTypeOK, WorksOfCalls, CallsOK, BoardOK, AppWaits, GetterKept

\* The worker of a getter is freed by the last of the two threads that share it, whenever the
\* time is up and however the loop is scheduled (PasteboardDelayGetterImpl::GetUnifiedData,
\* EntryGetterImpl::GetValueByType, uv_cancel), and is not used after that.
THEOREM FreedOnce == ApiSpec => []WorkFreedOnce
<1>1. ApiInv => WorkFreedOnce
  <2> SUFFICES ASSUME ApiInv, NEW w \in DOMAIN works
               PROVE  LET k == works[w]
                      IN /\ k.freed <= 1
                         /\ k.usedFreed => k.uv = "refused"
                         /\ k.uv = "over" /\ ~k.waiting
                              => k.freed = IF k.value /\ ~k.clean /\ calls[k.of].getter = "entry"
                                           THEN 0 ELSE 1
    BY DEF WorkFreedOnce
  <2>1. works[w] \in WorkRec /\ WorkOK(works[w], calls[works[w].of].getter)
    BY ElementOfSeq DEF ApiInv, WorksInv, ApiTypeOK
  <2> QED
    BY <2>1 DEF WorkOK, WorkRec
<1> QED
  BY <1>1, ApiStart, ApiStep, PTL DEF ApiSpec

\* The getter of a clip whose copying was told a success lives as long as that clip is on the
\* clipboard, unless an asynchronous set has taken its place (NapiSetUnifiedData,
\* NapiSetUnifiedDataSync, delayGetter_).
THEOREM GetterLives == ApiSpec => []PromisedGetterAlive
<1>1. ApiInv => PromisedGetterAlive
  <2> SUFFICES ASSUME ApiInv, NEW c \in DOMAIN calls, board = c, Over(c), calls[c].told = "done",
                      calls[c].getter # "none"
               PROVE  GetterAlive(c) \/ c \in replaced
    BY DEF PromisedGetterAlive
  <2>1. calls[c] \in CallRec /\ c # 0
    BY ElementOfSeq DEF ApiInv, WorksInv, ApiTypeOK
  <2>2. calls[c].getter \in {"entry", "unified"}
    BY <2>1 DEF CallRec, Getters
  <2> QED
    BY <2>1, <2>2 DEF ApiInv, GetterKept, Fulfilled, GetterAlive
<1> QED
  BY <1>1, ApiStart, ApiStep, PTL DEF ApiSpec

-----------------------------------------------------------------------------
(* DataObjects.                                                            *)

ObjectsSpec == ObjectsInit /\ [][ObjectsNext]_objectVars

HeapRec == [id : Nat, getter : Nat]
ClipRec == [records : Seq(Nat), last : Nat, loose : BOOLEAN]

\* No two records of a clip have the same number, and the next number is a new one.
Numbered(clip, recs) ==
  /\ \A i, j \in DOMAIN clip.records :
       recs[clip.records[i]].id = recs[clip.records[j]].id => i = j
  /\ \A i \in DOMAIN clip.records : recs[clip.records[i]].id <= clip.last

ClipOK(clip, recs) ==
  /\ \A i \in DOMAIN clip.records : clip.records[i] \in DOMAIN recs
  /\ ~clip.loose => Numbered(clip, recs)

ObjectsInv ==
  /\ heap \in Seq(HeapRec) /\ clips \in Seq(ClipRec)
  /\ \A c \in DOMAIN clips : ClipOK(clips[c], heap)

\* A clip only depends on the numbers of its own records.
LEMMA ClipUntouched ==
  ASSUME NEW clip, NEW recs, NEW recs2, ClipOK(clip, recs), DOMAIN recs \subseteq DOMAIN recs2,
         \A i \in DOMAIN clip.records : recs2[clip.records[i]].id = recs[clip.records[i]].id
  PROVE  ClipOK(clip, recs2)
  BY DEF ClipOK, Numbered

LEMMA RecordMade ==
  ASSUME ObjectsInv, NEW g \in Nat
  PROVE  /\ NewRecord(g) \in Seq(HeapRec) /\ Fresh \in DOMAIN NewRecord(g) /\ Fresh \in Nat
         /\ \A c \in DOMAIN clips : ClipOK(clips[c], NewRecord(g))
         /\ \A c \in DOMAIN clips : \A i \in DOMAIN clips[c].records : clips[c].records[i] # Fresh
         /\ Len(NewRecord(g)) = Fresh
<1> DEFINE new == [id |-> 0, getter |-> g]
<1>1. new \in HeapRec
  BY DEF HeapRec
<1> HIDE DEF new
<1>2. /\ Append(heap, new) \in Seq(HeapRec) /\ DOMAIN Append(heap, new) = 1 .. Len(heap) + 1
      /\ Len(Append(heap, new)) = Len(heap) + 1
      /\ DOMAIN heap = 1 .. Len(heap) /\ Len(heap) \in Nat
      /\ \A r \in DOMAIN heap : Append(heap, new)[r] = heap[r]
  BY <1>1 DEF ObjectsInv
<1>3. NewRecord(g) = Append(heap, new)
  BY DEF NewRecord, new
<1>4. \A c \in DOMAIN clips : \A i \in DOMAIN clips[c].records : clips[c].records[i] \in DOMAIN heap
  BY DEF ObjectsInv, ClipOK
<1>5. DOMAIN heap \subseteq DOMAIN NewRecord(g) /\ Fresh \notin DOMAIN heap
  BY <1>2, <1>3 DEF Fresh
<1>6. ASSUME NEW c \in DOMAIN clips PROVE ClipOK(clips[c], NewRecord(g))
  BY <1>2, <1>3, <1>4, <1>5, ClipUntouched DEF ObjectsInv
<1> QED
  BY <1>2, <1>3, <1>4, <1>5, <1>6 DEF Fresh

\* r has been added to clip, whose records are in recs: the number it is given is one that
\* no record of the clip has.
Added(added, clip, r, recs) ==
  /\ added[1] \in ClipRec /\ added[2] \in Seq(HeapRec) /\ DOMAIN added[2] = DOMAIN recs
  /\ \A i \in DOMAIN added[1].records : added[1].records[i] \in DOMAIN recs
  /\ (\A i \in DOMAIN clip.records : clip.records[i] # r) => ClipOK(added[1], added[2])
  /\ \A k \in DOMAIN recs : k # r => added[2][k] = recs[k]

LEMMA AddRecordSound ==
  ASSUME NEW clip \in ClipRec, NEW recs \in Seq(HeapRec), NEW r \in DOMAIN recs, ClipOK(clip, recs)
  PROVE  Added(AddRecord(clip, r, recs), clip, r, recs)
<1> DEFINE n == clip.last + 1
           list == <<r>> \o clip.records
           one == [clip EXCEPT !.last = @ + 1, !.records = <<r>> \o @]
           rec == [recs[r] EXCEPT !.id = n]
           two == [recs EXCEPT ![r] = rec]
<1>1. AddRecord(clip, r, recs)[1] = one /\ AddRecord(clip, r, recs)[2] = two
  BY DEF AddRecord
<1>2. clip.records \in Seq(Nat) /\ clip.last \in Nat /\ n \in Nat /\ r \in Nat /\ recs[r] \in HeapRec
  BY ElementOfSeq DEF ClipRec
<1>3. rec \in HeapRec /\ rec.id = n
  BY <1>2 DEF HeapRec
<1> HIDE DEF rec
<1>4. /\ two \in Seq(HeapRec) /\ DOMAIN two = DOMAIN recs /\ two[r] = rec
      /\ \A k \in DOMAIN recs : k # r => two[k] = recs[k]
  BY <1>3, ExceptSeq
<1> HIDE DEF two
<1>5. /\ list \in Seq(Nat) /\ DOMAIN list = 1 .. Len(clip.records) + 1 /\ list[1] = r
      /\ \A i \in DOMAIN list : i # 1 => i - 1 \in DOMAIN clip.records /\ list[i] = clip.records[i - 1]
      /\ DOMAIN clip.records = 1 .. Len(clip.records) /\ Len(clip.records) \in Nat
  BY <1>2
<1> HIDE DEF list
<1>6. one \in ClipRec /\ one.records = list /\ one.last = n /\ one.loose = clip.loose
  BY <1>2, <1>5 DEF ClipRec, list
<1> HIDE DEF one, n
<1>7. \A i \in DOMAIN one.records : one.records[i] \in DOMAIN two
  BY <1>4, <1>5, <1>6 DEF ClipOK
<1>8. ASSUME ~clip.loose, \A i \in DOMAIN clip.records : clip.records[i] # r PROVE Numbered(one, two)
  <2>1. Numbered(clip, recs)
    BY <1>8 DEF ClipOK
  <2>2. \A i \in DOMAIN clip.records : clip.records[i] \in DOMAIN recs /\ clip.records[i] # r
    BY <1>8 DEF ClipOK
  <2>3. \A i \in DOMAIN clip.records : recs[clip.records[i]].id \in Nat
    <3>0. \A k \in DOMAIN recs : recs[k] \in HeapRec
      BY ElementOfSeq
    <3>1. \A k \in DOMAIN recs : recs[k].id \in Nat
      BY <3>0 DEF HeapRec
    <3> QED
      BY <2>2, <3>1
  <2>4. \A i \in DOMAIN list : i # 1 => /\ two[list[i]].id = recs[clip.records[i - 1]].id
                                       /\ i - 1 \in DOMAIN clip.records
    BY <1>4, <1>5, <2>2
  <2>5. two[list[1]].id = n
    BY <1>3, <1>4, <1>5
  <2>6. \A i \in DOMAIN list : i # 1 => two[list[i]].id < n
    <3>1. \A i \in DOMAIN clip.records : recs[clip.records[i]].id < n
      BY <1>2, <2>1, <2>3 DEF Numbered, n
    <3> QED
      BY <2>4, <3>1
  <2>7. \A i \in DOMAIN list : two[list[i]].id <= n
    BY <1>2, <2>3, <2>4, <2>5, <2>6
  <2>8. ASSUME NEW i \in DOMAIN list, NEW j \in DOMAIN list, two[list[i]].id = two[list[j]].id PROVE i = j
    <3>1. CASE i = 1 \/ j = 1
      BY <1>2, <2>5, <2>6, <2>8, <3>1
    <3>2. CASE i # 1 /\ j # 1
      <4>1. i - 1 = j - 1
        BY <2>1, <2>4, <2>8, <3>2 DEF Numbered
      <4> QED
        BY <1>5, <4>1
    <3> QED
      BY <3>1, <3>2
  <2> QED
    BY <1>6, <2>7, <2>8 DEF Numbered
<1>9. (\A i \in DOMAIN clip.records : clip.records[i] # r) => ClipOK(one, two)
  BY <1>6, <1>7, <1>8 DEF ClipOK
<1> QED
  BY <1>1, <1>4, <1>6, <1>7, <1>9 DEF Added

LEMMA ClipPut ==
  ASSUME ObjectsInv, heap' \in Seq(HeapRec), \A d \in DOMAIN clips : ClipOK(clips[d], heap'),
         NEW new \in ClipRec, ClipOK(new, heap'),
         \/ clips' = Append(clips, new)
         \/ \E c \in DOMAIN clips : clips' = [clips EXCEPT ![c] = new]
  PROVE  ObjectsInv'
<1>1. CASE clips' = Append(clips, new)
  <2>1. /\ clips' \in Seq(ClipRec)
        /\ \A d \in DOMAIN clips' : (d \in DOMAIN clips /\ clips'[d] = clips[d]) \/ clips'[d] = new
    BY <1>1 DEF ObjectsInv
  <2> QED
    BY <2>1 DEF ObjectsInv
<1>2. ASSUME NEW c \in DOMAIN clips, clips' = [clips EXCEPT ![c] = new] PROVE ObjectsInv'
  <2>1. /\ clips' \in Seq(ClipRec) /\ DOMAIN clips' = DOMAIN clips
        /\ \A d \in DOMAIN clips : clips'[d] = IF d = c THEN new ELSE clips[d]
    BY <1>2, ExceptSeq DEF ObjectsInv
  <2> QED
    BY <2>1 DEF ObjectsInv
<1> QED
  BY <1>1, <1>2

\* A new record in a clip, which may be a new one.
LEMMA InstallSound ==
  ASSUME ObjectsInv, NEW g \in Nat, NEW c \in 1 .. Len(clips) + 1,
         NEW clip, clip = IF c \in DOMAIN clips THEN clips[c] ELSE EmptyClip,
         Install(c, AddRecord(clip, Fresh, NewRecord(g)))
  PROVE  ObjectsInv'
<1> DEFINE added == AddRecord(clip, Fresh, NewRecord(g))
<1>1. /\ NewRecord(g) \in Seq(HeapRec) /\ Fresh \in DOMAIN NewRecord(g)
      /\ \A d \in DOMAIN clips : ClipOK(clips[d], NewRecord(g))
      /\ \A d \in DOMAIN clips : \A i \in DOMAIN clips[d].records : clips[d].records[i] # Fresh
  BY RecordMade
<1>2. clip \in ClipRec /\ ClipOK(clip, NewRecord(g)) /\ \A i \in DOMAIN clip.records : clip.records[i] # Fresh
  <2>1. CASE c \in DOMAIN clips
    BY <1>1, <2>1, ElementOfSeq DEF ObjectsInv
  <2>2. CASE c \notin DOMAIN clips
    BY <2>2 DEF EmptyClip, ClipRec, ClipOK, Numbered
  <2> QED
    BY <2>1, <2>2
<1>3. /\ added[1] \in ClipRec /\ added[2] \in Seq(HeapRec) /\ DOMAIN added[2] = DOMAIN NewRecord(g)
      /\ ClipOK(added[1], added[2])
      /\ \A k \in DOMAIN NewRecord(g) : k # Fresh => added[2][k] = NewRecord(g)[k]
  BY <1>1, <1>2, AddRecordSound DEF Added
<1>4. /\ heap' = added[2]
      /\ clips' = IF c > Len(clips) THEN Append(clips, added[1]) ELSE [clips EXCEPT ![c] = added[1]]
  BY DEF Install
<1> HIDE DEF added
<1>5. ASSUME NEW d \in DOMAIN clips PROVE ClipOK(clips[d], heap')
  <2>1. \A i \in DOMAIN clips[d].records : heap'[clips[d].records[i]].id = NewRecord(g)[clips[d].records[i]].id
    BY <1>1, <1>3, <1>4 DEF ClipOK
  <2> QED
    BY <1>1, <1>3, <1>4, <2>1, ClipUntouched
<1>6. \/ clips' = Append(clips, added[1])
      \/ c \in DOMAIN clips /\ clips' = [clips EXCEPT ![c] = added[1]]
  BY <1>4 DEF ObjectsInv
<1> QED
  BY <1>3, <1>4, <1>5, <1>6, ClipPut

LEMMA AddSameSound ==
  ASSUME ObjectsInv, NEW c \in DOMAIN clips, NEW r \in DOMAIN heap, AddSameRecord(c, r) PROVE ObjectsInv'
<1> DEFINE added == AddRecord(clips[c], r, heap)
           shared == IF InClip(r) = {} THEN {} ELSE InClip(r) \cup {c}
           Clip(k) == IF k = c THEN added[1] ELSE clips[k]
           Loose(k) == Clip(k).loose \/ k \in shared
           New(k) == [Clip(k) EXCEPT !.loose = Loose(k)]
<1>1. heap \in Seq(HeapRec) /\ clips[c] \in ClipRec /\ ClipOK(clips[c], heap)
  BY ElementOfSeq DEF ObjectsInv
<1>2. /\ added[1] \in ClipRec /\ added[2] \in Seq(HeapRec) /\ DOMAIN added[2] = DOMAIN heap
      /\ \A i \in DOMAIN added[1].records : added[1].records[i] \in DOMAIN heap
      /\ (\A i \in DOMAIN clips[c].records : clips[c].records[i] # r) => ClipOK(added[1], added[2])
      /\ \A k \in DOMAIN heap : k # r => added[2][k] = heap[k]
  BY <1>1, AddRecordSound DEF Added
<1>3. heap' = added[2] /\ clips' = [k \in DOMAIN clips |-> New(k)]
  BY DEF AddSameRecord
<1> HIDE DEF added
<1>4. \A k \in DOMAIN clips : Clip(k) \in ClipRec
  BY <1>2, ElementOfSeq DEF ObjectsInv
<1>5. \A k \in DOMAIN clips : k \notin InClip(r) => \A i \in DOMAIN clips[k].records : clips[k].records[i] # r
  BY DEF InClip, ToSet
<1>6. ASSUME NEW k \in DOMAIN clips PROVE New(k) \in ClipRec /\ ClipOK(New(k), heap')
  <2> DEFINE clip == Clip(k)
             loose == Loose(k)
             new == [clip EXCEPT !.loose = loose]
  <2>1. clip \in ClipRec /\ loose \in BOOLEAN /\ New(k) = new
    BY <1>4
  <2>2. /\ \A i \in DOMAIN clip.records : clip.records[i] \in DOMAIN heap'
        /\ ~loose => ClipOK(clip, heap') /\ ~clip.loose
    <3>1. CASE k = c
      <4>1. ~loose => InClip(r) = {}
        BY <3>1
      <4> QED
        BY <1>2, <1>3, <1>5, <3>1, <4>1
    <3>2. CASE k # c
      <4>1. clip = clips[k] /\ ClipOK(clip, heap)
        BY <3>2 DEF ObjectsInv
      <4>2. ~loose => k \notin InClip(r) /\ ~clip.loose
        BY <3>2
      <4> HIDE DEF loose, clip
      <4>3. ASSUME k \notin InClip(r) PROVE ClipOK(clip, heap')
        <5>1. \A i \in DOMAIN clip.records : heap'[clip.records[i]].id = heap[clip.records[i]].id
          BY <1>2, <1>3, <1>5, <4>1, <4>3 DEF ClipOK
        <5> QED
          BY <1>2, <1>3, <4>1, <5>1, ClipUntouched
      <4> QED
        BY <1>2, <1>3, <4>1, <4>2, <4>3 DEF ClipOK
    <3> QED
      BY <3>1, <3>2
  <2> HIDE DEF clip, loose
  <2>3. new \in ClipRec /\ new.records = clip.records /\ new.last = clip.last /\ new.loose = loose
    BY <2>1 DEF ClipRec
  <2> HIDE DEF new
  <2>4. ClipOK(new, heap')
    BY <2>2, <2>3 DEF ClipOK, Numbered
  <2> QED
    BY <2>1, <2>3, <2>4
<1> HIDE DEF New
<1>7. clips' \in Seq(ClipRec) /\ DOMAIN clips' = DOMAIN clips
  <2>1. DOMAIN clips = 1 .. Len(clips) /\ Len(clips) \in Nat
    BY DEF ObjectsInv
  <2> QED
    BY <1>3, <1>6, <2>1
<1> QED
  BY <1>2, <1>3, <1>6, <1>7 DEF ObjectsInv

LEMMA RemoveAtPlaces ==
  ASSUME NEW S, NEW s \in Seq(S), NEW i \in 1 .. Len(s)
  PROVE  /\ RemoveAt(s, i) \in Seq(S)
         /\ Len(RemoveAt(s, i)) = Len(s) - 1
         /\ \A k \in 1 .. Len(s) - 1 : RemoveAt(s, i)[k] = s[IF k < i THEN k ELSE k + 1]
<1> PICK l \in Nat : l = Len(s)
  OBVIOUS
<1>1. i \in Nat /\ i >= 1 /\ i <= l /\ \A k \in 1 .. l : s[k] \in S
  BY ElementOfSeq
<1>0. PICK a, b, r : a = SubSeq(s, 1, i - 1) /\ b = SubSeq(s, i + 1, l) /\ r = RemoveAt(s, i)
  OBVIOUS
<1>2. a \in Seq(S) /\ Len(a) = i - 1 /\ \A k \in 1 .. i - 1 : a[k] = s[k]
  BY <1>0, <1>1, SubSeqProperties
<1>3. b \in Seq(S) /\ Len(b) = l - i /\ \A k \in 1 .. l - i : b[k] = s[i + k]
  BY <1>0, <1>1, SubSeqProperties
<1>4. r = a \o b
  BY <1>0 DEF RemoveAt
<1>5. /\ a \o b \in Seq(S) /\ Len(a \o b) = Len(a) + Len(b)
      /\ \A k \in 1 .. Len(a) + Len(b) : (a \o b)[k] = IF k <= Len(a) THEN a[k] ELSE b[k - Len(a)]
  BY <1>2, <1>3, ConcatProperties
<1>6. /\ r \in Seq(S) /\ Len(r) = l - 1 /\ Len(a) + Len(b) = l - 1
      /\ \A k \in 1 .. l - 1 : r[k] = IF k <= i - 1 THEN a[k] ELSE b[k - (i - 1)]
  <2>1. Len(a) + Len(b) = l - 1
    BY <1>1, <1>2, <1>3
  <2>2. r \in Seq(S) /\ Len(r) = l - 1
    BY <1>4, <1>5, <2>1
  <2>3. \A k \in 1 .. l - 1 : r[k] = IF k <= Len(a) THEN a[k] ELSE b[k - Len(a)]
    BY <1>4, <1>5, <2>1
  <2> QED
    BY <1>2, <2>1, <2>2, <2>3
<1>7. ASSUME NEW k \in 1 .. l - 1 PROVE r[k] = s[IF k < i THEN k ELSE k + 1]
  <2>1. r[k] = IF k <= i - 1 THEN a[k] ELSE b[k - (i - 1)]
    BY <1>6
  <2>2. CASE k < i
    BY <1>1, <1>2, <2>1, <2>2
  <2>3. CASE ~(k < i)
    <3> PICK m \in 1 .. l - i : m = k - (i - 1)
      BY <1>1, <2>3
    <3>1. i + m = k + 1 /\ ~(k <= i - 1)
      BY <1>1, <2>3
    <3>2. r[k] = b[m] /\ b[m] = s[i + m]
      BY <1>3, <2>1, <3>1
    <3> QED
      BY <2>3, <3>1, <3>2
  <2> QED
    BY <2>2, <2>3
<1> QED
  BY <1>0, <1>6, <1>7

LEMMA RemoveSound ==
  ASSUME ObjectsInv, NEW c \in DOMAIN clips, NEW i \in DOMAIN clips[c].records, RemoveRecordAt(c, i)
  PROVE  ObjectsInv'
<1> DEFINE clip == clips[c]
           s == clip.records
           list == RemoveAt(s, i)
           new == [clip EXCEPT !.records = list]
<1>1. clip \in ClipRec /\ ClipOK(clip, heap) /\ heap \in Seq(HeapRec)
  BY ElementOfSeq DEF ObjectsInv
<1>2. s \in Seq(Nat) /\ DOMAIN s = 1 .. Len(s) /\ Len(s) \in Nat /\ i \in 1 .. Len(s)
  BY <1>1 DEF ClipRec
<1>3. clips' = [clips EXCEPT ![c] = new] /\ UNCHANGED heap
  BY DEF RemoveRecordAt
<1> HIDE DEF s
<1>4. /\ list \in Seq(Nat) /\ DOMAIN list = 1 .. Len(s) - 1
      /\ \A j \in 1 .. Len(s) - 1 : list[j] = s[IF j < i THEN j ELSE j + 1]
  <2>1. /\ list \in Seq(Nat) /\ Len(list) = Len(s) - 1
        /\ \A j \in 1 .. Len(s) - 1 : list[j] = s[IF j < i THEN j ELSE j + 1]
    BY <1>2, RemoveAtPlaces
  <2> HIDE DEF list
  <2> QED
    BY <2>1
<1> HIDE DEF list
<1>5. new \in ClipRec /\ new.records = list /\ new.last = clip.last /\ new.loose = clip.loose
  BY <1>1, <1>4 DEF ClipRec
<1> HIDE DEF new
<1> DEFINE Old(j) == IF j < i THEN j ELSE j + 1
<1>6. /\ \A j \in DOMAIN list : Old(j) \in DOMAIN s /\ list[j] = s[Old(j)]
      /\ \A j, k \in DOMAIN list : Old(j) = Old(k) => j = k
  <2>1. PICK n \in Nat : n = Len(s)
    BY <1>2
  <2>2. \A j \in 1 .. n - 1 : Old(j) \in 1 .. n /\ \A k \in 1 .. n - 1 : Old(j) = Old(k) => j = k
    BY <1>2, <2>1
  <2>3. \A j \in 1 .. n - 1 : list[j] = s[Old(j)]
    BY <1>4, <2>1
  <2> HIDE DEF Old
  <2> QED
    BY <1>2, <1>4, <2>1, <2>2, <2>3
<1> HIDE DEF Old
<1>7. ClipOK(new, heap)
  BY <1>1, <1>5, <1>6 DEF ClipOK, Numbered, s
<1>8. \A d \in DOMAIN clips : ClipOK(clips[d], heap)
  BY DEF ObjectsInv
<1> QED
  BY <1>1, <1>3, <1>5, <1>7, <1>8, ClipPut

\* A clip with a record that was put in by ReplaceRecordAt is loose.
LEMMA ReplaceSound ==
  ASSUME ObjectsInv, NEW c \in DOMAIN clips, NEW i \in DOMAIN clips[c].records,
         heap' \in Seq(HeapRec), DOMAIN heap \subseteq DOMAIN heap',
         \A d \in DOMAIN clips : ClipOK(clips[d], heap'),
         NEW r \in DOMAIN heap', ReplaceRecordAt(c, i, r)
  PROVE  ObjectsInv'
<1> DEFINE clip == clips[c]
           list == ReplaceAt(clip.records, i, r)
           new == [clip EXCEPT !.records = list, !.loose = TRUE]
<1>1. clip \in ClipRec /\ ClipOK(clip, heap') /\ r \in Nat
  BY ElementOfSeq DEF ObjectsInv
<1>2. clip.records \in Seq(Nat)
  BY <1>1 DEF ClipRec
<1>3. clips' = [clips EXCEPT ![c] = new]
  BY DEF ReplaceRecordAt
<1>4. /\ list \in Seq(Nat) /\ DOMAIN list = DOMAIN clip.records
      /\ \A j \in DOMAIN list : list[j] = IF j = i THEN r ELSE clip.records[j]
  BY <1>1, <1>2, ExceptSeq DEF ReplaceAt
<1> HIDE DEF list
<1>5. new \in ClipRec /\ new.records = list /\ new.loose = TRUE
  BY <1>1, <1>4 DEF ClipRec
<1> HIDE DEF new
<1>6. ClipOK(new, heap')
  BY <1>1, <1>4, <1>5 DEF ClipOK
<1> QED
  BY <1>3, <1>5, <1>6, ClipPut

LEMMA PasteSound == ASSUME ObjectsInv, NEW c \in DOMAIN clips, GetData(c) PROVE ObjectsInv'
<1> DEFINE clip == clips[c]
           s == clip.records
           n == Len(s)
           copies == [i \in 1 .. n |-> [id |-> heap[s[i]].id, getter |-> 0]]
           list == [i \in 1 .. n |-> Len(heap) + i]
           new == [clip EXCEPT !.records = list]
<1>1. clip \in ClipRec /\ ClipOK(clip, heap) /\ heap \in Seq(HeapRec) /\ Len(heap) \in Nat
  BY ElementOfSeq DEF ObjectsInv
<1>2. s \in Seq(Nat) /\ DOMAIN s = 1 .. n /\ n \in Nat
  BY <1>1 DEF ClipRec
<1>3. heap' = heap \o copies /\ clips' = Append(clips, new)
  BY DEF GetData
<1>4. ASSUME NEW i \in 1 .. n PROVE [id |-> heap[s[i]].id, getter |-> 0] \in HeapRec
  <2>1. s[i] \in DOMAIN heap
    BY <1>1, <1>2 DEF ClipOK
  <2>2. heap[s[i]] \in HeapRec
    BY <1>1, <2>1, ElementOfSeq
  <2> QED
    BY <2>2 DEF HeapRec
<1> HIDE DEF s, n
<1>5. copies \in Seq(HeapRec) /\ Len(copies) = n /\ \A i \in 1 .. n : copies[i].id = heap[s[i]].id
  BY <1>2, <1>4
<1>6. list \in Seq(Nat) /\ DOMAIN list = 1 .. n /\ \A i \in 1 .. n : list[i] = Len(heap) + i
  BY <1>1, <1>2
<1> HIDE DEF copies, list
<1>7. new \in ClipRec /\ new.records = list /\ new.last = clip.last /\ new.loose = clip.loose
  BY <1>1, <1>6 DEF ClipRec
<1> HIDE DEF new
<1>8. /\ heap' \in Seq(HeapRec) /\ DOMAIN heap' = 1 .. Len(heap) + n
      /\ \A r \in DOMAIN heap : r \in DOMAIN heap' /\ heap'[r] = heap[r]
      /\ \A i \in 1 .. n : list[i] \in DOMAIN heap' /\ heap'[list[i]] = copies[i]
  <2>1. /\ heap' \in Seq(HeapRec) /\ Len(heap') = Len(heap) + n
        /\ \A i \in 1 .. Len(heap) + n : heap'[i] = IF i <= Len(heap) THEN heap[i] ELSE copies[i - Len(heap)]
    BY <1>1, <1>3, <1>5, ConcatProperties
  <2>2. \A i \in 1 .. n : (Len(heap) + i) - Len(heap) = i /\ Len(heap) + i \in 1 .. Len(heap) + n
                          /\ ~(Len(heap) + i <= Len(heap))
    BY <1>1, <1>2
  <2>3. \A i \in 1 .. n : list[i] \in 1 .. Len(heap) + n /\ heap'[list[i]] = copies[i]
    BY <1>6, <2>1, <2>2
  <2>4. \A r \in DOMAIN heap : r \in 1 .. Len(heap) + n /\ r <= Len(heap)
    BY <1>1, <1>2
  <2> QED
    BY <2>1, <2>3, <2>4
<1>9. \A d \in DOMAIN clips : ClipOK(clips[d], heap')
  <2>1. ASSUME NEW d \in DOMAIN clips PROVE ClipOK(clips[d], heap')
    <3>1. ClipOK(clips[d], heap)
      BY DEF ObjectsInv
    <3>2. \A i \in DOMAIN clips[d].records : heap'[clips[d].records[i]].id = heap[clips[d].records[i]].id
      BY <1>8, <3>1 DEF ClipOK
    <3> QED
      BY <1>8, <3>1, <3>2, ClipUntouched
  <2> QED
    BY <2>1
<1>10. ClipOK(new, heap')
  <2>1. \A i \in 1 .. n : heap'[list[i]].id = heap[s[i]].id
    BY <1>5, <1>8
  <2> QED
    BY <1>1, <1>2, <1>6, <1>7, <1>8, <2>1 DEF ClipOK, Numbered, s
<1> QED
  BY <1>3, <1>7, <1>8, <1>9, <1>10, ClipPut

LEMMA ObjectsStep == ObjectsInv /\ [ObjectsNext]_objectVars => ObjectsInv'
<1> SUFFICES ASSUME ObjectsInv, [ObjectsNext]_objectVars PROVE ObjectsInv'
  OBVIOUS
<1>1. Len(heap) \in Nat /\ Len(clips) \in Nat /\ DOMAIN clips = 1 .. Len(clips)
  BY DEF ObjectsInv
<1>2. 0 \in Nat /\ Own \subseteq Nat
  BY <1>1 DEF Own, Fresh
<1>3. \A r \in DOMAIN heap : heap[r].getter \in Nat
  <2>1. \A r \in DOMAIN heap : heap[r] \in HeapRec
    BY ElementOfSeq DEF ObjectsInv
  <2> QED
    BY <2>1 DEF HeapRec
<1>4. CASE CreateRecord
  <2>1. PICK g \in Nat : heap' = NewRecord(g)
    BY <1>2, <1>4 DEF CreateRecord
  <2> QED
    BY <1>4, <2>1, RecordMade DEF CreateRecord, ObjectsInv
<1>5. CASE CreateData
  <2>1. PICK g \in Nat : Install(Len(clips) + 1, AddRecord(EmptyClip, Fresh, NewRecord(g)))
    BY <1>2, <1>5 DEF CreateData
  <2>2. Len(clips) + 1 \in 1 .. Len(clips) + 1 /\ Len(clips) + 1 \notin DOMAIN clips
    BY <1>1
  <2> QED
    BY <2>1, <2>2, InstallSound
<1>6. ASSUME NEW c \in DOMAIN clips, NEW g \in Nat, Install(c, AddRecord(clips[c], Fresh, NewRecord(g)))
      PROVE  ObjectsInv'
  <2>1. c \in 1 .. Len(clips) + 1
    BY <1>1
  <2> QED
    BY <1>6, <2>1, InstallSound
<1>7. ASSUME NEW c \in DOMAIN clips, AddNewRecord(c) PROVE ObjectsInv'
  BY <1>2, <1>6, <1>7 DEF AddNewRecord
<1>8. ASSUME NEW c \in DOMAIN clips, NEW r \in DOMAIN heap, NapiAddRecord(c, r) PROVE ObjectsInv'
  BY <1>3, <1>6, <1>8 DEF NapiAddRecord
<1>9. ASSUME NEW c \in DOMAIN clips, NEW i \in DOMAIN clips[c].records, NEW r \in DOMAIN heap,
             NapiReplaceRecord(c, i, r)
      PROVE  ObjectsInv'
  <2>1. heap' = NewRecord(heap[r].getter) /\ ReplaceRecordAt(c, i, Fresh)
    BY <1>9 DEF NapiReplaceRecord
  <2>2. /\ heap' \in Seq(HeapRec) /\ Fresh \in DOMAIN heap' /\ Len(heap') = Fresh
        /\ \A d \in DOMAIN clips : ClipOK(clips[d], heap')
    BY <1>3, <2>1, RecordMade
  <2>3. DOMAIN heap \subseteq DOMAIN heap'
    BY <1>1, <2>2 DEF Fresh, ObjectsInv
  <2> QED
    BY <2>1, <2>2, <2>3, ReplaceSound
<1>10. ASSUME NEW c \in DOMAIN clips, NEW i \in DOMAIN clips[c].records, NEW r \in DOMAIN heap,
              ReplaceBySame(c, i, r)
       PROVE  ObjectsInv'
  <2>1. UNCHANGED heap /\ ReplaceRecordAt(c, i, r)
    BY <1>10 DEF ReplaceBySame
  <2>2. heap' \in Seq(HeapRec) /\ r \in DOMAIN heap' /\ \A d \in DOMAIN clips : ClipOK(clips[d], heap')
    BY <2>1 DEF ObjectsInv
  <2> QED
    BY <2>1, <2>2, ReplaceSound
<1>11. CASE UNCHANGED objectVars
  BY <1>11 DEF objectVars, ObjectsInv
<1> QED
  BY <1>4, <1>5, <1>7, <1>8, <1>9, <1>10, <1>11, AddSameSound, RemoveSound, PasteSound DEF ObjectsNext

\* The number of a record leads back to it and to its getter (PasteData::GetRecordById, the
\* entry getters of SetData), for clips of any length and after any calls, in every clip
\* whose records were numbered by AddRecord and are in no other.
THEOREM NumbersAreUnique == ObjectsSpec => []NumbersLeadBack
<1>1. ObjectsInit => ObjectsInv
  BY DEF ObjectsInit, ObjectsInv
<1>2. ObjectsInv => NumbersLeadBack
  <2> SUFFICES ASSUME ObjectsInv, NEW c \in DOMAIN clips, ~clips[c].loose,
                      NEW i \in DOMAIN clips[c].records
               PROVE  LET r == clips[c].records[i]
                      IN /\ GetRecordById(clips[c], heap[r].id) = r
                         /\ heap[r].getter # 0 => EntryGetter(clips[c], heap[r].id) = heap[r].getter
    BY DEF NumbersLeadBack
  <2> DEFINE s == clips[c].records
             r == s[i]
             found == {j \in DOMAIN s : heap[s[j]].id = heap[r].id}
             got == {j \in DOMAIN s : heap[s[j]].id = heap[r].id /\ heap[s[j]].getter # 0}
  <2>1. \A j \in DOMAIN s : heap[s[j]].id = heap[r].id => j = i
    BY DEF ObjectsInv, ClipOK, Numbered
  <2>2. found = {i} /\ (heap[r].getter # 0 => got = {i})
    BY <2>1
  <2>3. clips[c] \in ClipRec
    BY ElementOfSeq DEF ObjectsInv
  <2>4. i \in Nat
    BY <2>3 DEF ClipRec
  <2>5. Min({i}) = i
    BY <2>4 DEF Min
  <2>6. GetRecordById(clips[c], heap[r].id) = r
    BY <2>2, <2>5 DEF GetRecordById
  <2>7. heap[r].getter # 0 => EntryGetter(clips[c], heap[r].id) = heap[r].getter
    BY <2>2, <2>5 DEF EntryGetter
  <2> QED
    BY <2>6, <2>7
<1> QED
  BY <1>1, <1>2, ObjectsStep, PTL DEF ObjectsSpec

-----------------------------------------------------------------------------
(* ProgressPaste.                                                          *)

ProgressSpec == ProgressInit /\ [][ProgressNext]_progressVars

\* k is a record with the fields of NoPaste.
Fields == {"pc", "to", "skip", "clip", "fate", "processed", "value", "copied", "ret",
           "result", "heard", "fell", "early", "alone", "disturbed"}
Shape(k) == k = [f \in Fields |-> k[f]]

\* A later record of the clip had a copy of its own.
Hidden(k, i) ==
  \E j \in DOMAIN k.fate : j > i /\ k.clip[j] # "text" /\ k.fate[j] \in {"there", "left", "cancelled"}

\* The clip is a sequence, and each of its records has a fate.
Files(k) ==
  /\ Len(k.clip) \in Nat /\ DOMAIN k.clip = 1 .. Len(k.clip)
  /\ DOMAIN k.fate = DOMAIN k.clip /\ k.processed \in Nat

\* Every copy that has failed is hidden by a later one.
AllHidden(k) == \A i \in DOMAIN k.fate : k.fate[i] = "failed" => Hidden(k, i)

\* Only the records up to the current one have a fate, and the result that CopyFileData
\* has so far is that of a failed copy unless a later copy has replaced it.
FilesOK(k) ==
  /\ Files(k)
  /\ k.pc \notin {"copy", "copying", "finish", "over"} => \A i \in DOMAIN k.fate : k.fate[i] = "here"
  /\ k.pc = "copying" => k.processed + 1 \in DOMAIN k.clip /\ k.clip[k.processed + 1] # "text"
  /\ k.pc \in {"copy", "copying"}
       => /\ \A i \in DOMAIN k.fate : i > k.processed => k.fate[i] = "here"
          /\ k.ret = "error" \/ AllHidden(k)
  /\ k.pc = "finish" /\ k.ret = "ok" => AllHidden(k)
  /\ k.pc # "over" => k.result = "none"
  /\ k.result = "ok" => AllHidden(k)

FilesInv ==
  /\ paste = [p \in Pastes |-> paste[p]]
  /\ \A p \in Pastes : Shape(paste[p]) /\ FilesOK(paste[p])

\* What FilesOK looks at.
SameFiles(k, l) ==
  /\ l.pc = k.pc /\ l.clip = k.clip /\ l.fate = k.fate
  /\ l.processed = k.processed /\ l.ret = k.ret /\ l.result = k.result

\* What a record does about telling changes nothing of its files.
LEMMA FilesUntouched ==
  ASSUME NEW k, NEW l, SameFiles(k, l), FilesOK(k)
  PROVE  FilesOK(l)
BY DEF SameFiles, FilesOK, Files, AllHidden, Hidden

\* The state of one paste is replaced by one that is as it should be.
LEMMA PasteReplaced ==
  ASSUME FilesInv, NEW p \in Pastes, NEW new, Shape(new), FilesOK(new),
         paste' = [paste EXCEPT ![p] = new]
  PROVE  FilesInv'
<1>1. paste' = [q \in Pastes |-> IF q = p THEN new ELSE paste[q]]
  BY DEF FilesInv
<1>2. paste' = [q \in Pastes |-> paste'[q]]
  BY <1>1
<1>3. \A q \in Pastes : Shape(paste'[q]) /\ FilesOK(paste'[q])
  BY <1>1 DEF FilesInv
<1> QED
  BY <1>2, <1>3 DEF FilesInv

\* So is it when the listener of a paste is told as well.
LEMMA PasteTold ==
  ASSUME FilesInv, NEW p \in Pastes, NEW new, Shape(new), FilesOK(new), NEW percentage,
         paste' = UpdateProgress(p, new, percentage)
  PROVE  FilesInv'
<1> PICK h : h = Hearer(p)
  OBVIOUS
<1> DEFINE pastes == [paste EXCEPT ![p] = new]
<1> PICK fell : fell = (pastes[h].fell \/ percentage < pastes[h].heard)
  OBVIOUS
<1> DEFINE told(k) == [k EXCEPT !.heard = percentage, !.fell = fell]
<1>1. CASE paste' = pastes
  BY <1>1, PasteReplaced
<1>2. CASE paste' = [pastes EXCEPT ![h] = told(pastes[h])]
  <2>1. pastes = [q \in Pastes |-> IF q = p THEN new ELSE paste[q]]
    BY DEF FilesInv
  <2>2. \A q \in Pastes : Shape(pastes[q]) /\ FilesOK(pastes[q])
    BY <2>1 DEF FilesInv
  <2> HIDE DEF pastes
  <2>3. pastes = [q \in Pastes |-> pastes[q]]
    BY <2>1
  <2>4. ASSUME NEW k, Shape(k)
        PROVE  Shape(told(k)) /\ SameFiles(k, told(k))
    BY <2>4 DEF Shape, Fields, SameFiles
  <2> HIDE DEF told
  <2>5. paste' = [q \in Pastes |-> IF q = h THEN told(pastes[h]) ELSE pastes[q]]
    BY <1>2, <2>3
  <2>6. \A q \in Pastes : FilesOK(told(pastes[q]))
    BY <2>2, <2>4, FilesUntouched
  <2>7. \A q \in Pastes : Shape(paste'[q]) /\ FilesOK(paste'[q])
    BY <2>2, <2>4, <2>5, <2>6
  <2>8. paste' = [q \in Pastes |-> paste'[q]]
    BY <2>5
  <2> QED
    BY <2>7, <2>8 DEF FilesInv
<1> QED
  BY <1>1, <1>2 DEF UpdateProgress

\* A paste that goes on to another place, with its clip and the fates as they are.
LEMMA PasteGoesOn ==
  ASSUME FilesInv, NEW p \in Pastes, NEW new, Shape(new),
         new.clip = paste[p].clip, new.fate = paste[p].fate, new.result = paste[p].result,
         new.processed = paste[p].processed \/ new.processed = 0,
         paste[p].pc \in {"none", "check", "start", "service", "smooth", "after", "without"},
         new.pc \in {"check", "start", "service", "smooth", "after", "without", "copy", "finish"}
  PROVE  FilesOK(new)
<1>1. \A i \in DOMAIN new.fate : new.fate[i] = "here"
  BY DEF FilesInv, FilesOK, Files
<1>2. AllHidden(new)
  BY <1>1 DEF AllHidden
<1> QED
  BY <1>1, <1>2 DEF FilesInv, FilesOK, Files

\* Back in the binding a paste may say "ok" when no failed copy is left unhidden.
LEMMA GivenBack ==
  ASSUME FilesInv, NEW p \in Pastes, NEW result, GiveBack(p, result),
         result = "ok" => AllHidden(paste[p])
  PROVE  FilesInv'
<1> PICK k : k = paste[p]
  OBVIOUS
<1> DEFINE new == [k EXCEPT !.pc = "over", !.result = result, !.processed = 0, !.value = 0, !.ret = "ok"]
<1>1. paste' = [paste EXCEPT ![p] = new]
  BY DEF GiveBack, FilesInv
<1>2. Shape(k) /\ FilesOK(k)
  BY DEF FilesInv
<1>3. Shape(new) /\ new.pc = "over" /\ new.result = result /\ new.processed = 0
      /\ new.clip = k.clip /\ new.fate = k.fate
  BY <1>2 DEF Shape, Fields
<1> HIDE DEF new
<1>4. AllHidden(k) => AllHidden(new)
  BY <1>3 DEF AllHidden, Hidden
<1>5. FilesOK(new)
  BY <1>2, <1>3, <1>4 DEF FilesOK, Files
<1> QED
  BY <1>1, <1>3, <1>5, PasteReplaced

\* A turn of a waiting loop.
LEMMA TurnTaken ==
  ASSUME FilesInv, NEW p \in Pastes, NEW limit, NEW step, NEW full, NEW next \in {"after", "finish"},
         paste[p].pc \in {"smooth", "without"}, Turn(p, limit, step, full, next)
  PROVE  FilesInv'
<1> PICK k : k = paste[p]
  OBVIOUS
<1> PICK early : early = (k.early \/ (full = 100 /\ limit < 100))
  OBVIOUS
<1> PICK up : up = k.value + step
  OBVIOUS
<1> DEFINE ended == [k EXCEPT !.pc = next]
           told == [ended EXCEPT !.early = early]
           raised == [k EXCEPT !.value = up]
<1>1. Shape(k) /\ FilesOK(k)
  BY DEF FilesInv
<1>2. Shape(ended) /\ ended.pc = next /\ ended.clip = k.clip /\ ended.fate = k.fate
      /\ ended.result = k.result /\ ended.processed = k.processed /\ ended.early = k.early
  BY <1>1 DEF Shape, Fields
<1>3. Shape(raised) /\ SameFiles(k, raised)
  BY <1>1 DEF Shape, Fields, SameFiles
<1>4. \/ paste' = [paste EXCEPT ![p] = ended]
      \/ paste' = UpdateProgress(p, told, full)
      \/ paste' = UpdateProgress(p, raised, up)
  BY <1>2 DEF Turn
<1> HIDE DEF ended, raised
<1>5. Shape(told) /\ SameFiles(ended, told)
  BY <1>2 DEF Shape, Fields, SameFiles
<1> HIDE DEF told
<1>6. FilesOK(ended)
  BY <1>2, PasteGoesOn
<1>7. FilesOK(told) /\ FilesOK(raised)
  BY <1>1, <1>3, <1>5, <1>6, FilesUntouched
<1> QED
  BY <1>2, <1>3, <1>4, <1>5, <1>6, <1>7, PasteReplaced, PasteTold

\* b is at a record of its clip that has no fate yet.
AtRecord(b, i) ==
  /\ Shape(b) /\ b.result = "none"
  /\ Files(b)
  /\ i = b.processed + 1 /\ i \in DOMAIN b.clip
  /\ \A j \in DOMAIN b.fate : j >= i => b.fate[j] = "here"

\* The fate of the current record is decided: a failed copy leaves its error, and forgetting
\* an earlier error takes a copy that was made, left out or cancelled.
LEMMA FateDecided ==
  ASSUME NEW b, NEW i, AtRecord(b, i), NEW fate,
         \/ b.ret = "error"
         \/ fate # "failed" /\ AllHidden(b)
         \/ b.clip[i] # "text" /\ fate \in {"there", "left", "cancelled"}
  PROVE  Shape(Decide(b, i, fate)) /\ FilesOK(Decide(b, i, fate))
<1> PICK fates : fates = [b.fate EXCEPT ![i] = fate]
  OBVIOUS
<1> DEFINE new == [b EXCEPT !.pc = "copy", !.processed = i, !.copied = 0, !.fate = fates]
<1>1. Decide(b, i, fate) = new
  BY DEF Decide, AtRecord, Files, Shape, Fields
<1>2. Shape(new) /\ new.pc = "copy" /\ new.processed = i /\ new.fate = fates
      /\ new.clip = b.clip /\ new.ret = b.ret /\ new.result = b.result
  BY DEF AtRecord, Files, Shape, Fields
<1> HIDE DEF new
<1>3. i \in Nat /\ i \in DOMAIN b.fate /\ b.fate[i] = "here"
  BY DEF AtRecord, Files
<1>4. DOMAIN fates = DOMAIN b.fate /\ \A j \in DOMAIN b.fate : fates[j] = IF j = i THEN fate ELSE b.fate[j]
  BY DEF AtRecord, Files
<1>5. \A j \in DOMAIN fates : j > i => fates[j] = "here"
  BY <1>3, <1>4 DEF AtRecord, Files
<1>6. ASSUME AllHidden(b), fate # "failed"
      PROVE  AllHidden(new)
  <2> SUFFICES ASSUME NEW j \in DOMAIN new.fate, new.fate[j] = "failed"
               PROVE  Hidden(new, j)
    BY DEF AllHidden
  <2>1. j \in DOMAIN b.fate /\ b.fate[j] = "failed"
    BY <1>2, <1>4, <1>6
  <2>2. PICK h \in DOMAIN b.fate : h > j /\ b.clip[h] # "text" /\ b.fate[h] \in {"there", "left", "cancelled"}
    BY <1>6, <2>1 DEF AllHidden, Hidden
  <2>3. h \in DOMAIN new.fate /\ new.fate[h] = b.fate[h] /\ new.clip[h] = b.clip[h]
    BY <1>2, <1>3, <1>4, <2>2
  <2> QED
    BY <2>2, <2>3 DEF Hidden
<1>7. ASSUME b.clip[i] # "text", fate \in {"there", "left", "cancelled"}
      PROVE  AllHidden(new)
  <2> SUFFICES ASSUME NEW j \in DOMAIN new.fate, new.fate[j] = "failed"
               PROVE  Hidden(new, j)
    BY DEF AllHidden
  <2>1. j \in Nat /\ j < i
    BY <1>2, <1>3, <1>4, <1>7 DEF AtRecord, Files
  <2> QED
    BY <1>2, <1>3, <1>4, <1>7, <2>1 DEF Hidden
<1>8. new.ret = "error" \/ AllHidden(new)
  BY <1>2, <1>6, <1>7
<1>9. new.result = "none" /\ Files(new)
  BY <1>2, <1>3, <1>4 DEF AtRecord, Files
<1>10. FilesOK(new)
  BY <1>2, <1>5, <1>8, <1>9 DEF FilesOK, Files
<1> QED
  BY <1>1, <1>2, <1>10

\* Where a paste that copies files is, and with another result of its last copy.
LEMMA CurrentRecord ==
  ASSUME FilesInv, NEW p \in Pastes, paste[p].pc \in {"copy", "copying"},
         Current(p) \in DOMAIN paste[p].clip, NEW ret
  PROVE  /\ AtRecord(paste[p], Current(p))
         /\ paste[p].ret = "error" \/ AllHidden(paste[p])
         /\ AtRecord([paste[p] EXCEPT !.ret = ret], Current(p))
         /\ [paste[p] EXCEPT !.ret = ret].ret = ret
         /\ [paste[p] EXCEPT !.ret = ret].clip = paste[p].clip
<1> PICK k : k = paste[p]
  OBVIOUS
<1> DEFINE new == [k EXCEPT !.ret = ret]
<1>1. Shape(k) /\ FilesOK(k)
  BY DEF FilesInv
<1>2. k.processed \in Nat /\ Current(p) = k.processed + 1
  BY <1>1 DEF FilesOK, Files, Current
<1>3. AtRecord(k, Current(p)) /\ (k.ret = "error" \/ AllHidden(k))
  BY <1>1, <1>2 DEF FilesOK, AtRecord, Files
<1>4. Shape(new) /\ new.ret = ret /\ new.clip = k.clip /\ new.fate = k.fate
      /\ new.processed = k.processed /\ new.result = k.result
  BY <1>1 DEF Shape, Fields
<1> HIDE DEF new
<1>5. AtRecord(new, Current(p))
  BY <1>3, <1>4 DEF AtRecord, Files
<1> QED
  BY <1>3, <1>4, <1>5 DEF new

\* What ShouldKeepRecord makes of a copy that has returned.
LEMMA RecordKept ==
  ASSUME FilesInv, NEW p \in Pastes, paste[p].pc = "copying", NEW ret \in {"ok", "error", "stopped"}
  PROVE  Shape(ShouldKeepRecord(p, ret)) /\ FilesOK(ShouldKeepRecord(p, ret))
<1> PICK k : k = paste[p]
  OBVIOUS
<1> PICK i : i = Current(p)
  OBVIOUS
<1> PICK new : new = [k EXCEPT !.ret = ret]
  OBVIOUS
<1>1. i \in DOMAIN k.clip /\ k.clip[i] # "text"
  BY DEF FilesInv, FilesOK, Files, Current
<1>2. AtRecord(new, i) /\ new.ret = ret /\ new.clip = k.clip
  BY <1>1, CurrentRecord
<1> PICK ok : ok = [k EXCEPT !.ret = "ok"]
  OBVIOUS
<1>3. AtRecord(ok, i) /\ ok.clip = k.clip /\ [new EXCEPT !.ret = "ok"] = ok
  <2>1. AtRecord(ok, i) /\ ok.clip = k.clip
    BY <1>1, CurrentRecord
  <2>2. Shape(k)
    BY DEF FilesInv
  <2>3. [new EXCEPT !.ret = "ok"] = ok
    BY <2>2 DEF Shape, Fields
  <2> QED
    BY <2>1, <2>3
<1>4. \/ ShouldKeepRecord(p, ret) = Decide(new, i, "there")
      \/ ShouldKeepRecord(p, ret) = Decide(ok, i, "left")
      \/ ShouldKeepRecord(p, ret) = Decide(new, i, "cancelled")
      \/ ret = "error" /\ ShouldKeepRecord(p, ret) = Decide(new, i, "failed")
  BY <1>3 DEF ShouldKeepRecord
<1>5. Shape(Decide(new, i, "there")) /\ FilesOK(Decide(new, i, "there"))
  BY <1>1, <1>2, FateDecided
<1>6. Shape(Decide(ok, i, "left")) /\ FilesOK(Decide(ok, i, "left"))
  BY <1>1, <1>3, FateDecided
<1>7. Shape(Decide(new, i, "cancelled")) /\ FilesOK(Decide(new, i, "cancelled"))
  BY <1>1, <1>2, FateDecided
<1>8. ret = "error" => Shape(Decide(new, i, "failed")) /\ FilesOK(Decide(new, i, "failed"))
  BY <1>1, <1>2, FateDecided
<1> QED
  BY <1>4, <1>5, <1>6, <1>7, <1>8

\* A paste is asked for, its clip one of a request.
LEMMA PasteBegun ==
  ASSUME FilesInv, NEW p \in Pastes, Begin(p)
  PROVE  FilesInv'
<1> PICK r \in Requests :
      paste' = [q \in Pastes |->
                  IF q = p THEN [NoPaste EXCEPT !.pc = "check", !.to = r.to, !.skip = r.skip, !.clip = r.clip,
                                    !.fate = [i \in DOMAIN r.clip |-> "here"],
                                    !.alone = \A o \in Pastes : ~Active(o)]
                  ELSE [paste[q] EXCEPT !.alone = @ /\ ~Active(q)]]
  BY DEF Begin
<1> PICK alone : alone = (\A o \in Pastes : ~Active(o))
  OBVIOUS
<1> PICK fates : fates = [i \in DOMAIN r.clip |-> "here"]
  OBVIOUS
<1> DEFINE new == [NoPaste EXCEPT !.pc = "check", !.to = r.to, !.skip = r.skip, !.clip = r.clip,
                                  !.fate = fates, !.alone = alone]
           other(q) == [paste[q] EXCEPT !.alone = @ /\ ~Active(q)]
<1>1. paste' = [q \in Pastes |-> IF q = p THEN new ELSE other(q)]
  OBVIOUS
<1>2. Shape(new) /\ new.pc = "check" /\ new.clip = r.clip /\ new.fate = fates
      /\ new.processed = 0 /\ new.ret = "ok" /\ new.result = "none"
  BY DEF NoPaste, Shape, Fields
<1>3. ASSUME NEW q \in Pastes
      PROVE  Shape(other(q)) /\ FilesOK(other(q))
  <2> PICK k : k = paste[q]
    OBVIOUS
  <2> PICK b : b = (k.alone /\ ~Active(q))
    OBVIOUS
  <2>1. Shape(k) /\ FilesOK(k)
    BY DEF FilesInv
  <2>2. other(q) = [k EXCEPT !.alone = b]
    OBVIOUS
  <2>3. Shape([k EXCEPT !.alone = b]) /\ SameFiles(k, [k EXCEPT !.alone = b])
    BY <2>1 DEF Shape, Fields, SameFiles
  <2> QED
    BY <2>1, <2>2, <2>3, FilesUntouched
<1> HIDE DEF new, other
<1>4. Files(new)
  <2>1. r.clip \in Seq({"file", "picture", "text"})
    BY ProgressAssumption
  <2>2. Len(r.clip) \in Nat /\ DOMAIN r.clip = 1 .. Len(r.clip)
    BY <2>1, LenProperties
  <2>3. DOMAIN fates = DOMAIN r.clip
    OBVIOUS
  <2>4. 0 \in Nat
    OBVIOUS
  <2> QED
    BY <1>2, <2>2, <2>3, <2>4, Zenon DEF Files
<1>5. \A i \in DOMAIN new.fate : new.fate[i] = "here"
  BY <1>2
<1>6. FilesOK(new)
  BY <1>2, <1>4, <1>5 DEF FilesOK
<1>7. \A q \in Pastes : Shape(paste'[q]) /\ FilesOK(paste'[q])
  BY <1>1, <1>2, <1>3, <1>6
<1>8. paste' = [q \in Pastes |-> paste'[q]]
  BY <1>1
<1> QED
  BY <1>7, <1>8 DEF FilesInv

\* Every step of every paste, and every signal, keeps the fates and the result in agreement.
LEMMA FilesStep ==
  ASSUME FilesInv, [ProgressNext]_progressVars
  PROVE  FilesInv'
<1>1. CASE UNCHANGED progressVars
  BY <1>1 DEF progressVars, FilesInv
<1>2. ASSUME NEW p \in Pastes, PasteStep(p)
      PROVE  FilesInv'
  <2> PICK k : k = paste[p]
    OBVIOUS
  <2>0. Shape(k) /\ FilesOK(k)
    BY DEF FilesInv
  <2>1. CASE CheckProgressParam(p)
    <3>1. CASE GiveBack(p, "processing")
      BY <3>1, GivenBack
    <3>2. CASE paste' = [paste EXCEPT ![p].pc = "start"]
      <4> DEFINE new == [k EXCEPT !.pc = "start"]
      <4>1. paste' = [paste EXCEPT ![p] = new] /\ k.pc = "check"
        BY <2>1, <3>2 DEF FilesInv, CheckProgressParam
      <4>2. Shape(new) /\ new.pc = "start" /\ new.clip = k.clip /\ new.fate = k.fate
            /\ new.result = k.result /\ new.processed = k.processed
        BY <2>0 DEF Shape, Fields
      <4> HIDE DEF new
      <4> QED
        BY <4>1, <4>2, PasteGoesOn, PasteReplaced
    <3> QED
      BY <2>1, <3>1, <3>2 DEF CheckProgressParam
  <2>2. CASE StartPaste(p)
    <3> DEFINE new == [k EXCEPT !.pc = "service"]
    <3>1. paste' = [paste EXCEPT ![p] = new] /\ k.pc = "start"
      BY <2>2 DEF FilesInv, StartPaste
    <3>2. Shape(new) /\ new.pc = "service" /\ new.clip = k.clip /\ new.fate = k.fate
          /\ new.result = k.result /\ new.processed = k.processed
      BY <2>0 DEF Shape, Fields
    <3> HIDE DEF new
    <3> QED
      BY <3>1, <3>2, PasteGoesOn, PasteReplaced
  <2>3. CASE GetPasteDataFromService(p)
    <3>1. CASE GiveBack(p, "failed")
      BY <3>1, GivenBack
    <3>2. CASE paste' = [paste EXCEPT ![p].pc = IF paste[p].clip = <<>> THEN "after" ELSE "smooth"]
      <4> PICK next \in {"after", "smooth"} : next = IF k.clip = <<>> THEN "after" ELSE "smooth"
        OBVIOUS
      <4> DEFINE new == [k EXCEPT !.pc = next]
      <4>1. paste' = [paste EXCEPT ![p] = new] /\ k.pc = "service"
        BY <2>3, <3>2 DEF FilesInv, GetPasteDataFromService
      <4>2. Shape(new) /\ new.pc = next /\ new.clip = k.clip /\ new.fate = k.fate
            /\ new.result = k.result /\ new.processed = k.processed
        BY <2>0 DEF Shape, Fields
      <4> HIDE DEF new
      <4> QED
        BY <4>1, <4>2, PasteGoesOn, PasteReplaced
    <3> QED
      BY <2>3, <3>1, <3>2 DEF GetPasteDataFromService
  <2>4. CASE ProgressSmoothToTwentyPercent(p)
    BY <2>4, TurnTaken DEF ProgressSmoothToTwentyPercent
  <2>5. CASE ProgressAfterTwentyPercent(p)
    <3> DEFINE none == [k EXCEPT !.pc = "finish", !.ret = "nodata"]
               copy == [k EXCEPT !.pc = "copy", !.processed = 0]
               without == [k EXCEPT !.pc = "without", !.value = 20]
    <3>1. k.pc = "after" /\ (\/ paste' = [paste EXCEPT ![p] = none]
                             \/ paste' = [paste EXCEPT ![p] = copy]
                             \/ paste' = [paste EXCEPT ![p] = without])
      BY <2>5 DEF FilesInv, ProgressAfterTwentyPercent
    <3>2. Shape(none) /\ none.pc = "finish" /\ none.clip = k.clip /\ none.fate = k.fate
          /\ none.result = k.result /\ none.processed = k.processed
      BY <2>0 DEF Shape, Fields
    <3>3. Shape(copy) /\ copy.pc = "copy" /\ copy.clip = k.clip /\ copy.fate = k.fate
          /\ copy.result = k.result /\ copy.processed = 0
      BY <2>0 DEF Shape, Fields
    <3>4. Shape(without) /\ without.pc = "without" /\ without.clip = k.clip /\ without.fate = k.fate
          /\ without.result = k.result /\ without.processed = k.processed
      BY <2>0 DEF Shape, Fields
    <3> HIDE DEF none, copy, without
    <3> QED
      BY <3>1, <3>2, <3>3, <3>4, PasteGoesOn, PasteReplaced
  <2>6. CASE SetProgressWithoutFile(p)
    BY <2>6, TurnTaken DEF SetProgressWithoutFile
  <2>7. CASE Finish(p)
    <3> PICK result : result = IF remoteTask THEN "abnormal" ELSE paste[p].ret
      OBVIOUS
    <3>1. GiveBack(p, result) /\ k.pc = "finish"
      BY <2>7 DEF Finish
    <3>2. result = "ok" => AllHidden(paste[p])
      BY <2>0, <3>1 DEF FilesOK
    <3> QED
      BY <3>1, <3>2, GivenBack
  <2>8. CASE NextRecord(p)
    <3> PICK i : i = Current(p)
      OBVIOUS
    <3> DEFINE copying == [k EXCEPT !.pc = "copying"]
    <3>1. k.pc = "copy" /\ i \in DOMAIN k.clip /\ i = k.processed + 1
      BY <2>0, <2>8 DEF NextRecord, Current, FilesOK, Files
    <3>2. AtRecord(k, i) /\ (k.ret = "error" \/ AllHidden(k))
      BY <3>1, CurrentRecord
    <3>3. \/ paste' = [paste EXCEPT ![p] = Decide(k, i, "cancelled")]
          \/ paste' = [paste EXCEPT ![p] = Decide(k, i, "left")]
          \/ k.clip[i] # "text" /\ paste' = [paste EXCEPT ![p] = copying]
      BY <2>8 DEF NextRecord
    <3>4. \A fate \in {"cancelled", "left"} : Shape(Decide(k, i, fate)) /\ FilesOK(Decide(k, i, fate))
      BY <3>2, FateDecided
    <3>5. Shape(copying) /\ copying.pc = "copying" /\ copying.clip = k.clip /\ copying.fate = k.fate
          /\ copying.ret = k.ret /\ copying.result = k.result /\ copying.processed = k.processed
      BY <2>0 DEF Shape, Fields
    <3> HIDE DEF copying
    <3>6. AllHidden(k) => AllHidden(copying)
      BY <3>5 DEF AllHidden, Hidden
    <3>7. k.clip[i] # "text" => FilesOK(copying)
      BY <2>0, <3>1, <3>5, <3>6 DEF FilesOK, Files
    <3> QED
      BY <3>3, <3>4, <3>5, <3>7, PasteReplaced
  <2>9. CASE SkipExisting(p)
    <3> PICK i : i = Current(p)
      OBVIOUS
    <3>1. k.pc = "copy" /\ i \in DOMAIN k.clip
      BY <2>0, <2>9 DEF SkipExisting, Current, FilesOK, Files
    <3>2. AtRecord(k, i) /\ (k.ret = "error" \/ AllHidden(k))
      BY <3>1, CurrentRecord
    <3>3. Shape(Decide(k, i, "skipped")) /\ FilesOK(Decide(k, i, "skipped"))
      BY <3>2, FateDecided
    <3> QED
      BY <2>9, <3>3, PasteReplaced DEF SkipExisting
  <2>10. CASE HandleProgress(p)
    <3> DEFINE new == [k EXCEPT !.copied = @ + 50]
    <3>1. \/ paste' = [paste EXCEPT ![p] = new]
          \/ \E percentage : paste' = UpdateProgress(p, new, percentage)
      BY <2>10 DEF HandleProgress
    <3>2. Shape(new) /\ SameFiles(k, new)
      BY <2>0 DEF Shape, Fields, SameFiles
    <3> HIDE DEF new
    <3>3. FilesOK(new)
      BY <2>0, <3>2, FilesUntouched
    <3> QED
      BY <3>1, <3>2, <3>3, PasteReplaced, PasteTold
  <2>11. CASE CopyFile(p)
    <3>1. k.pc = "copying" /\ \E ret \in {"ok", "error", "stopped"} :
                                paste' = [paste EXCEPT ![p] = ShouldKeepRecord(p, ret)]
      BY <2>11 DEF CopyFile
    <3> QED
      BY <3>1, RecordKept, PasteReplaced
  <2>12. CASE CopyDone(p)
    <3> PICK ret : ret = IF k.ret = "error" THEN "copyfailed" ELSE "ok"
      OBVIOUS
    <3> DEFINE new == [k EXCEPT !.pc = "finish", !.ret = ret]
    <3>1. k.pc = "copy" /\ paste' = UpdateProgress(p, new, 100)
      BY <2>12 DEF CopyDone
    <3>2. Shape(new) /\ new.pc = "finish" /\ new.ret = ret /\ new.clip = k.clip /\ new.fate = k.fate
          /\ new.result = k.result /\ new.processed = k.processed
      BY <2>0 DEF Shape, Fields
    <3> HIDE DEF new
    <3>3. AllHidden(k) => AllHidden(new)
      BY <3>2 DEF AllHidden, Hidden
    <3>4. FilesOK(new)
      BY <2>0, <3>1, <3>2, <3>3 DEF FilesOK, Files
    <3> QED
      BY <3>1, <3>2, <3>4, PasteTold
  <2> QED
    BY <1>2, <2>1, <2>2, <2>3, <2>4, <2>5, <2>6, <2>7, <2>8, <2>9, <2>10, <2>11, <2>12 DEF PasteStep
<1>3. CASE Signal
  <2> DEFINE signalled(q) == [paste[q] EXCEPT !.disturbed = @ \/ paste[q].pc # "over"]
  <2>1. paste' = [q \in Pastes |-> signalled(q)]
    BY <1>3 DEF Signal
  <2>2. ASSUME NEW q \in Pastes
        PROVE  Shape(signalled(q)) /\ FilesOK(signalled(q))
    <3> PICK k : k = paste[q]
      OBVIOUS
    <3> PICK b : b = (k.disturbed \/ k.pc # "over")
      OBVIOUS
    <3>1. Shape(k) /\ FilesOK(k)
      BY DEF FilesInv
    <3>2. signalled(q) = [k EXCEPT !.disturbed = b]
      OBVIOUS
    <3>3. Shape([k EXCEPT !.disturbed = b]) /\ SameFiles(k, [k EXCEPT !.disturbed = b])
      BY <3>1 DEF Shape, Fields, SameFiles
    <3> QED
      BY <3>1, <3>2, <3>3, FilesUntouched
  <2> HIDE DEF signalled
  <2>3. \A q \in Pastes : Shape(paste'[q]) /\ FilesOK(paste'[q])
    BY <2>1, <2>2
  <2>4. paste' = [q \in Pastes |-> paste'[q]]
    BY <2>1
  <2> QED
    BY <2>3, <2>4 DEF FilesInv
<1> QED
  BY <1>1, <1>2, <1>3, PasteBegun DEF ProgressNext

(* A paste that tells its caller "ok" has left out no file whose copy      *)
(* failed, unless the result of a later copy has replaced the error, for   *)
(* any number of pastes that run at once and share the flags.              *)
THEOREM FilesArrive == ProgressSpec => []FilesComplete
<1>1. ProgressInit => FilesInv
  <2> SUFFICES ASSUME ProgressInit PROVE FilesInv
    OBVIOUS
  <2>1. paste = [p \in Pastes |-> NoPaste]
    BY DEF ProgressInit
  <2>2. Shape(NoPaste)
    BY DEF Shape, Fields, NoPaste
  <2>3. FilesOK(NoPaste)
    BY DEF NoPaste, FilesOK, Files
  <2> QED
    BY <2>1, <2>2, <2>3 DEF FilesInv
<1>2. FilesInv => FilesComplete
  BY DEF FilesInv, FilesOK, AllHidden, Hidden, FilesComplete
<1> QED
  BY <1>1, <1>2, FilesStep, PTL DEF ProgressSpec

\* The loop that raises value by step ends exactly at limit.
Leads(value, limit, step) == value <= limit /\ \E n \in Nat : limit - value = n * step

\* A number without remainder is a multiple.
LEMMA Divides ==
  ASSUME NEW a \in Nat, NEW step \in Nat \ {0}, a % step = 0
  PROVE  \E n \in Nat : a = n * step
<1>1. a \div step \in Nat
  OBVIOUS
<1>2. a = step * (a \div step) + (a % step)
  OBVIOUS
<1> QED
  BY <1>1, <1>2

\* A turn of the loop does not miss the limit.
LEMMA LeadsOn ==
  ASSUME NEW value \in Nat, NEW limit \in Nat, NEW step \in Nat \ {0},
         Leads(value, limit, step), value < limit
  PROVE  Leads(value + step, limit, step)
<1>1. PICK n \in Nat : limit - value = n * step
  BY DEF Leads
<1>2. n # 0
  BY <1>1
<1>3. n - 1 \in Nat /\ n * step = (n - 1) * step + step /\ (n - 1) * step >= 0
  BY <1>2
<1> QED
  BY <1>1, <1>3 DEF Leads

\* ProgressSmoothToTwentyPercent ends at 20, and SetProgressWithoutFile, which starts from
\* there, at 100.
LEMMA LeadsFromStart ==
  /\ Leads(0, 20, UPDATE_PERCENT)
  /\ Leads(20, 100, UPDATE_PERCENT_WITHOUT_FILE)
<1>1. \E n \in Nat : 20 = n * UPDATE_PERCENT
  BY ProgressAssumption, Divides
<1>2. \E n \in Nat : 80 = n * UPDATE_PERCENT_WITHOUT_FILE
  BY ProgressAssumption, Divides
<1> QED
  BY <1>1, <1>2 DEF Leads

\* What HandleProgress tells when copied of the record after processed has arrived.
Clamped(all) == IF all > 100 THEN 100 ELSE all
ToldAt(processed, copied, size) == OnProgressNotify(Clamped((processed * 100 + copied) \div size))

\* Division does not turn the order round.
LEMMA DivMonotone ==
  ASSUME NEW a \in Nat, NEW b \in Nat, a <= b, NEW n \in Nat \ {0}
  PROVE  a \div n <= b \div n
OBVIOUS

\* OnProgressNotify is monotonic and stays between 20 and 100.
LEMMA ToldMonotone ==
  ASSUME NEW a \in Nat, NEW b \in Nat, a <= b
  PROVE  /\ OnProgressNotify(Clamped(a)) \in Nat /\ OnProgressNotify(Clamped(b)) \in Nat
         /\ 20 <= OnProgressNotify(Clamped(a)) /\ OnProgressNotify(Clamped(b)) <= 100
         /\ OnProgressNotify(Clamped(a)) <= OnProgressNotify(Clamped(b))
BY DEF OnProgressNotify, Clamped

\* What HandleProgress tells does not fall from one record to the next.
LEMMA ToldRises ==
  ASSUME NEW processed \in Nat, NEW copied \in Nat, NEW p2 \in Nat, NEW c2 \in Nat,
         NEW size \in Nat \ {0},
         processed * 100 + copied <= p2 * 100 + c2
  PROVE  /\ ToldAt(processed, copied, size) \in Nat /\ ToldAt(p2, c2, size) \in Nat
         /\ 20 <= ToldAt(processed, copied, size) /\ ToldAt(p2, c2, size) <= 100
         /\ ToldAt(processed, copied, size) <= ToldAt(p2, c2, size)
<1> DEFINE a == processed * 100 + copied
           b == p2 * 100 + c2
<1>1. a \in Nat /\ b \in Nat /\ a <= b
  OBVIOUS
<1> HIDE DEF a, b
<1>2. a \div size \in Nat /\ b \div size \in Nat
  BY <1>1
<1>3. a \div size <= b \div size
  BY <1>1, DivMonotone
<1> QED
  BY <1>2, <1>3, ToldMonotone DEF ToldAt, a, b

\* Before the first percentage can be told.
Unheard == {"none", "check", "start", "service"}

HeardTypes(k) ==
  /\ k.to \in Listeners \cup {"none"} /\ (k.pc # "none" => k.to \in Listeners)
  /\ k.pc \in Unheard \cup {"smooth", "after", "without", "copy", "copying", "finish", "over"}
  /\ k.heard \in Nat /\ k.value \in Nat /\ k.copied \in {0, 50, 100}
  /\ k.alone \in BOOLEAN /\ k.disturbed \in BOOLEAN /\ k.fell \in BOOLEAN /\ k.early \in BOOLEAN

Started(p) == paste[p].pc \notin {"none", "check", "start"}

\* While a paste is alone no other one runs; napi's slot holds a paste that runs, the
\* dialog's key one that was started; and where the key is not that of a paste with the
\* dialog, neither this paste nor the one of the key was alone.
Sharing ==
  /\ \A p, q \in Pastes : Active(p) /\ Active(q) /\ paste[p].alone => p = q
  /\ listener # 0 => listener \in Pastes /\ Active(listener) /\ paste[listener].to = "napi"
  /\ \A p \in Pastes : Active(p) /\ paste[p].alone /\ paste[p].to = "napi" => listener = p
  /\ progressKey # 0 => progressKey \in Pastes /\ Started(progressKey)
  /\ \A p \in Pastes :
       Active(p) /\ Started(p) /\ paste[p].to = "dialog"
         => /\ progressKey # 0
            /\ progressKey # p => ~paste[p].alone /\ ~paste[progressKey].alone

Uris(k) == \E i \in DOMAIN k.clip : k.clip[i] # "text"
Silent(k) == k.heard = 0 /\ ~k.fell /\ ~k.early /\ k.value = 0

\* What holds of a paste by the place it has reached, with the flags and recordSize_ as
\* they are then, if nothing has interfered with it.
HeardOK(k, task, cancel, size) ==
  /\ k.fell => k.early
  /\ k.pc \in Unheard => Silent(k)
  /\ k.pc \notin {"none", "check", "over"} => ~cancel
  /\ k.pc \in Unheard \cup {"smooth", "after", "without"} => k.copied = 0
  /\ k.pc = "smooth" => Leads(k.value, 20, UPDATE_PERCENT) /\ k.heard <= k.value /\ ~k.early
  /\ k.pc = "after" => k.heard <= 20 \/ (k.early /\ ~Uris(k))
  /\ k.pc = "without" => /\ Leads(k.value, 100, UPDATE_PERCENT_WITHOUT_FILE) /\ k.value >= 20
                         /\ k.heard <= k.value \/ k.early
                         /\ task \/ k.value = 20 \/ k.to = "taihe" \/ k.heard = k.value
  /\ k.pc \in {"copy", "copying"} => /\ size = Len(k.clip) /\ size # 0
                                     /\ k.heard <= ToldAt(k.processed, k.copied, size)
  /\ k.pc = "finish" /\ k.ret = "ok" /\ k.to # "taihe" => task \/ k.heard = 100
  /\ k.result = "ok" /\ k.to # "taihe" => k.heard = 100

Free(k) == k.alone /\ ~k.disturbed

HeardInv ==
  /\ FilesInv
  /\ \A p \in Pastes : HeardTypes(paste[p])
  /\ Sharing
  /\ \A p \in Pastes : Free(paste[p]) => HeardOK(paste[p], remoteTask, needCancel, recordSize)

\* The state of a paste after its listener was told, if it is one that is followed.
Tells(new, percentage) ==
  IF Free(new) /\ new.to # "taihe"
  THEN [new EXCEPT !.heard = percentage, !.fell = new.fell \/ percentage < new.heard]
  ELSE new

\* What is told of a paste reaches no other one that is followed.
LEMMA OwnProgress ==
  ASSUME HeardInv, NEW p \in Pastes, Active(p), Started(p), NEW new,
         new.alone = paste[p].alone, new.disturbed = paste[p].disturbed, new.to = paste[p].to,
         NEW percentage
  PROVE  UpdateProgress(p, new, percentage) = [paste EXCEPT ![p] = Tells(new, percentage)]
<1> DEFINE pastes == [paste EXCEPT ![p] = new]
           h == Hearer(p)
<1>1. p # 0
  BY ProgressAssumption
<1>2. paste[p].to \in Listeners
  BY DEF HeardInv, HeardTypes, Active
<1>3. pastes = [q \in Pastes |-> IF q = p THEN new ELSE paste[q]]
  BY DEF HeardInv, FilesInv
<1>4. CASE Free(paste[p]) /\ paste[p].to # "taihe"
  <2>1. h = p
    BY <1>1, <1>2, <1>4 DEF HeardInv, Sharing, Hearer, Listeners, Free
  <2>2. UpdateProgress(p, new, percentage)
          = [pastes EXCEPT ![p] = [pastes[p] EXCEPT !.heard = percentage,
                                     !.fell = pastes[p].fell \/ percentage < pastes[p].heard]]
    BY <1>1, <1>4, <2>1 DEF UpdateProgress, Undisturbed, Free
  <2>3. pastes[p] = new
    BY <1>3
  <2>4. Tells(new, percentage) = [new EXCEPT !.heard = percentage, !.fell = new.fell \/ percentage < new.heard]
    BY <1>4 DEF Tells, Free
  <2>5. UpdateProgress(p, new, percentage) = [pastes EXCEPT ![p] = Tells(new, percentage)]
    BY <2>2, <2>3, <2>4
  <2> QED
    BY <1>3, <2>5 DEF HeardInv, FilesInv
<1>5. CASE ~(Free(paste[p]) /\ paste[p].to # "taihe")
  <2>1. h = 0 \/ ~Undisturbed(h)
    <3>1. CASE paste[p].to = "taihe"
      BY <3>1 DEF Hearer
    <3>2. CASE paste[p].to = "ndk"
      BY <1>5, <3>2 DEF Hearer, Free, Undisturbed
    <3>3. CASE paste[p].to = "napi"
      BY <1>5, <3>3 DEF Hearer, Free, Undisturbed, HeardInv, Sharing
    <3>4. CASE paste[p].to = "dialog"
      BY <1>5, <3>4 DEF Hearer, Free, Undisturbed, HeardInv, Sharing
    <3> QED
      BY <1>2, <3>1, <3>2, <3>3, <3>4 DEF Listeners
  <2>2. UpdateProgress(p, new, percentage) = pastes
    BY <2>1 DEF UpdateProgress
  <2>3. Tells(new, percentage) = new
    BY <1>5 DEF Tells, Free
  <2> QED
    BY <2>2, <2>3
<1> QED
  BY <1>4, <1>5

\* How a paste may go from one place to another, and what becomes of the slot and the key.
Going(p, new) ==
  /\ new.alone = paste[p].alone /\ new.disturbed = paste[p].disturbed /\ new.to = paste[p].to
  /\ new.pc # "none" /\ (paste[p].pc = "check" => new.pc \in {"start", "over"})
  /\ paste[p].pc # "check" => new.pc \notin {"check", "start"}
  /\ listener' = IF new.pc = "over" /\ new.to = "napi" THEN 0 ELSE listener
  /\ progressKey' = IF paste[p].pc = "start" /\ new.to = "dialog" THEN p ELSE progressKey
  /\ paste[p].pc = "start" => new.pc # "over"

\* No step of a paste lets another one that is alone share the slot or the key.
LEMMA SharingKept ==
  ASSUME HeardInv, NEW p \in Pastes, Active(p), NEW new, Going(p, new),
         paste' = [paste EXCEPT ![p] = new]
  PROVE  Sharing'
<1>1. p # 0
  BY ProgressAssumption
<1>2. paste' = [q \in Pastes |-> IF q = p THEN new ELSE paste[q]]
  BY DEF HeardInv, FilesInv
<1>3. \A q \in Pastes : /\ paste'[q].alone = paste[q].alone /\ paste'[q].to = paste[q].to
                        /\ Active(q)' => Active(q)
                        /\ q # p => (Active(q)' = Active(q)) /\ (Started(q)' = Started(q))
                        /\ Started(q) => Started(q)'
  BY <1>2 DEF Active, Started, Going
<1>4. (\A r, q \in Pastes : Active(r) /\ Active(q) /\ paste[r].alone => r = q)'
  BY <1>3 DEF HeardInv, Sharing
<1>5. (listener # 0 => listener \in Pastes /\ Active(listener) /\ paste[listener].to = "napi")'
  <2> SUFFICES ASSUME listener' # 0
               PROVE  listener' \in Pastes /\ Active(listener)' /\ paste'[listener'].to = "napi"
    OBVIOUS
  <2>1. listener' = listener /\ listener \in Pastes /\ Active(listener) /\ paste[listener].to = "napi"
    BY DEF Going, HeardInv, Sharing
  <2>2. listener = p => new.pc # "over" /\ new.pc # "none"
    BY <2>1 DEF Going
  <2> QED
    BY <1>2, <1>3, <2>1, <2>2 DEF Active
<1>6. (\A r \in Pastes : Active(r) /\ paste[r].alone /\ paste[r].to = "napi" => listener = r)'
  <2> SUFFICES ASSUME NEW r \in Pastes, Active(r)', paste'[r].alone, paste'[r].to = "napi"
               PROVE  listener' = r
    OBVIOUS
  <2>1. Active(r) /\ paste[r].alone /\ paste[r].to = "napi"
    BY <1>3
  <2>2. r = p /\ listener = r
    BY <2>1 DEF HeardInv, Sharing
  <2>3. new.pc # "over"
    BY <1>2, <2>2 DEF Active
  <2> QED
    BY <2>2, <2>3 DEF Going
<1>7. (progressKey # 0 => progressKey \in Pastes /\ Started(progressKey))'
  <2>1. CASE progressKey' = progressKey
    BY <1>3, <2>1 DEF HeardInv, Sharing
  <2>2. CASE progressKey' = p /\ paste[p].pc = "start"
    BY <1>2, <2>2 DEF Going, Started
  <2> QED
    BY <2>1, <2>2 DEF Going
<1>8. ASSUME NEW r \in Pastes, Active(r)', Started(r)', paste'[r].to = "dialog"
      PROVE  /\ progressKey' # 0
             /\ progressKey' # r => ~paste'[r].alone /\ ~paste'[progressKey'].alone
  <2>1. Active(r) /\ paste[r].to = "dialog"
    BY <1>3, <1>8
  <2>2. CASE progressKey' = progressKey /\ ~(paste[p].pc = "start" /\ new.to = "dialog")
    <3>1. Started(r)
      BY <1>2, <1>3, <1>8, <2>1, <2>2 DEF Started, Going, Active
    <3> QED
      BY <1>3, <2>1, <2>2, <3>1 DEF HeardInv, Sharing
  <2>3. CASE progressKey' = p /\ paste[p].pc = "start" /\ new.to = "dialog"
    <3>1. r # p => ~paste[r].alone /\ ~paste[p].alone
      BY <2>1 DEF HeardInv, Sharing
    <3> QED
      BY <1>1, <1>3, <2>3, <3>1
  <2> QED
    BY <2>2, <2>3 DEF Going
<1> QED
  BY <1>4, <1>5, <1>6, <1>7, <1>8 DEF Sharing

\* A step of one paste: the others are as they were, and the flags are of no importance to
\* those that do not run.
LEMMA HeardReplaced ==
  ASSUME HeardInv, FilesInv', NEW p \in Pastes, Active(p), NEW new, Going(p, new), HeardTypes(new),
         Free(new) => HeardOK(new, remoteTask', needCancel', recordSize'),
         paste' = [paste EXCEPT ![p] = new]
  PROVE  HeardInv'
<1>1. paste' = [q \in Pastes |-> IF q = p THEN new ELSE paste[q]]
  BY DEF HeardInv, FilesInv
<1>2. \A q \in Pastes : HeardTypes(paste'[q])
  BY <1>1 DEF HeardInv
<1>3. ASSUME NEW q \in Pastes, Free(paste'[q])
      PROVE  HeardOK(paste'[q], remoteTask', needCancel', recordSize')
  <2>1. CASE q = p
    BY <1>1, <1>3, <2>1
  <2>2. CASE q # p
    <3>1. paste'[q] = paste[q]
      BY <1>1, <2>2
    <3>2. HeardOK(paste[q], remoteTask, needCancel, recordSize)
      BY <1>3, <3>1 DEF HeardInv
    <3>3. paste[q].pc \in {"none", "over"}
      BY <1>3, <2>2, <3>1 DEF HeardInv, Sharing, Free, Active
    <3>4. HeardOK(paste[q], remoteTask', needCancel', recordSize')
      BY <3>2, <3>3 DEF HeardOK
    <3> QED
      BY <3>1, <3>4
  <2> QED
    BY <2>1, <2>2
<1> QED
  BY <1>2, <1>3, SharingKept DEF HeardInv

\* What Tells changes.
LEMMA ToldFields ==
  ASSUME NEW new, Shape(new), HeardTypes(new), NEW percentage \in Nat
  PROVE  LET t == Tells(new, percentage)
         IN /\ Shape(t) /\ HeardTypes(t) /\ (Free(t) <=> Free(new))
            /\ \A f \in Fields \ {"heard", "fell"} : t[f] = new[f]
            /\ Free(new) /\ new.to # "taihe" => t.heard = percentage /\ (t.fell => new.fell \/ percentage < new.heard)
            /\ ~(Free(new) /\ new.to # "taihe") => t = new
<1>1. CASE ~(Free(new) /\ new.to # "taihe")
  BY <1>1 DEF Tells
<1>2. CASE Free(new) /\ new.to # "taihe"
  <2>1. PICK fell \in BOOLEAN : fell = (new.fell \/ percentage < new.heard)
    OBVIOUS
  <2> DEFINE t == [new EXCEPT !.heard = percentage, !.fell = fell]
  <2>2. Tells(new, percentage) = t
    BY <1>2, <2>1 DEF Tells
  <2>3. Shape(t) /\ t.heard = percentage /\ t.fell = fell
    BY DEF Shape, Fields
  <2>4. \A f \in Fields \ {"heard", "fell"} : t[f] = new[f]
    BY DEF Shape, Fields
  <2> HIDE DEF t
  <2>5. /\ t.to = new.to /\ t.pc = new.pc /\ t.value = new.value /\ t.copied = new.copied
        /\ t.alone = new.alone /\ t.disturbed = new.disturbed /\ t.early = new.early
    BY <2>4 DEF Fields
  <2>6. HeardTypes(t)
    BY <2>1, <2>3, <2>5 DEF HeardTypes
  <2> QED
    BY <1>2, <2>1, <2>2, <2>3, <2>4, <2>5, <2>6 DEF Free
<1> QED
  BY <1>1, <1>2

\* Two states of a paste that agree but in the fields C.
AlikeBut(k, new, C) == Shape(new) /\ \A f \in Fields \ C : new[f] = k[f]

\* Back in the binding.
LEMMA HeardGivenBack ==
  ASSUME HeardInv, FilesInv', NEW p \in Pastes, Active(p), paste[p].pc # "start", NEW result,
         GiveBack(p, result), progressKey' = progressKey,
         Free(paste[p]) /\ result = "ok" /\ paste[p].to # "taihe" => paste[p].heard = 100
  PROVE  HeardInv'
<1>1. PICK k : k = paste[p]
  OBVIOUS
<1> DEFINE new == [k EXCEPT !.pc = "over", !.result = result, !.processed = 0, !.value = 0, !.ret = "ok"]
<1>2. Shape(k) /\ HeardTypes(k) /\ (Free(k) => HeardOK(k, remoteTask, needCancel, recordSize))
  BY <1>1 DEF HeardInv, FilesInv
<1>3. paste' = [paste EXCEPT ![p] = new]
  BY <1>1 DEF GiveBack, HeardInv, FilesInv
<1>4. /\ new.pc = "over" /\ new.result = result /\ new.value = 0
      /\ new.to = k.to /\ new.heard = k.heard /\ new.copied = k.copied /\ new.alone = k.alone
      /\ new.disturbed = k.disturbed /\ new.fell = k.fell /\ new.early = k.early
  BY <1>2 DEF Shape, Fields
<1> HIDE DEF new
<1>5. HeardTypes(new)
  BY <1>1, <1>2, <1>4 DEF HeardTypes, Active
<1>6. Going(p, new)
  BY <1>1, <1>4 DEF Going, GiveBack
<1>7. ASSUME Free(new)
      PROVE  HeardOK(new, remoteTask', needCancel', recordSize')
  <2>1. Free(k)
    BY <1>4, <1>7 DEF Free
  <2>2. (k.fell => k.early) /\ (result = "ok" /\ k.to # "taihe" => k.heard = 100)
    BY <1>1, <1>2, <2>1 DEF HeardOK
  <2> QED
    BY <1>4, <2>2 DEF HeardOK, Unheard
<1> QED
  BY <1>3, <1>5, <1>6, <1>7, HeardReplaced

\* A paste goes on to another place, silently.
LEMMA HeardGoesOn ==
  ASSUME HeardInv, FilesInv', NEW p \in Pastes, Active(p), NEW new,
         paste' = [paste EXCEPT ![p] = new], listener' = listener,
         AlikeBut(paste[p], new, {"pc", "value", "processed", "ret", "copied", "fate"}),
         HeardTypes(new),
         Free(new) => HeardOK(new, remoteTask', needCancel', recordSize'),
         new.pc \notin {"none", "check", "over"}, new.pc = "start" <=> paste[p].pc = "check",
         progressKey' = IF paste[p].pc = "start" /\ new.to = "dialog" THEN p ELSE progressKey
  PROVE  HeardInv'
<1>1. Going(p, new)
  BY DEF Going, AlikeBut, Fields
<1> QED
  BY <1>1, HeardReplaced

\* A paste goes on and tells percentage.
LEMMA HeardTold ==
  ASSUME HeardInv, FilesInv', NEW p \in Pastes, Active(p), Started(p), NEW new, NEW percentage,
         Free(new) => percentage \in Nat,
         paste' = UpdateProgress(p, new, percentage), UNCHANGED <<listener, progressKey>>,
         AlikeBut(paste[p], new, {"pc", "value", "early", "ret", "copied"}), HeardTypes(new),
         Free(new) => HeardOK(Tells(new, percentage), remoteTask', needCancel', recordSize'),
         new.pc \notin {"none", "check", "over", "start"}
  PROVE  HeardInv'
<1>1. PICK t : t = Tells(new, percentage)
  OBVIOUS
<1>2. new.alone = paste[p].alone /\ new.disturbed = paste[p].disturbed /\ new.to = paste[p].to /\ Shape(new)
  BY DEF AlikeBut, Fields
<1>3. paste' = [paste EXCEPT ![p] = t]
  BY <1>1, <1>2, OwnProgress
<1>4. /\ HeardTypes(t) /\ (Free(t) <=> Free(new))
      /\ t.pc = new.pc /\ t.alone = new.alone /\ t.disturbed = new.disturbed /\ t.to = new.to
  <2>1. CASE Free(new)
    BY <1>1, <1>2, <2>1, ToldFields DEF Fields
  <2>2. CASE ~Free(new)
    BY <1>1, <2>2 DEF Tells
  <2> QED
    BY <2>1, <2>2
<1>5. Going(p, t)
  BY <1>2, <1>4 DEF Going, Started
<1> QED
  BY <1>1, <1>3, <1>4, <1>5, HeardReplaced

\* One turn of the loop up to 20; 100 is told early to a paste without files.
LEMMA SmoothHeard ==
  ASSUME HeardInv, FilesInv', NEW p \in Pastes, ProgressSmoothToTwentyPercent(p)
  PROVE  HeardInv'
<1>1. PICK k : k = paste[p]
  OBVIOUS
<1>2. PICK full : full = IF HasUri(p) THEN 20 ELSE 100
  OBVIOUS
<1>3. PICK early \in BOOLEAN : early = (k.early \/ full = 100)
  OBVIOUS
<1>4. PICK up : up = k.value + UPDATE_PERCENT
  OBVIOUS
<1>5. Shape(k) /\ HeardTypes(k) /\ (Free(k) => HeardOK(k, remoteTask, needCancel, recordSize)) /\ k.pc = "smooth"
  BY <1>1 DEF HeardInv, FilesInv, ProgressSmoothToTwentyPercent
<1>6. Active(p) /\ Started(p) /\ UNCHANGED <<listener, progressKey, remoteTask, needCancel, recordSize>>
  BY <1>1, <1>5 DEF Active, Started, ProgressSmoothToTwentyPercent, flags
<1> DEFINE ended == [k EXCEPT !.pc = "after"]
           told == [k EXCEPT !.pc = "after", !.early = early]
           raised == [k EXCEPT !.value = up]
<1>7. \/ paste' = [paste EXCEPT ![p] = ended]
      \/ paste' = UpdateProgress(p, told, full)
      \/ k.value < 20 /\ paste' = UpdateProgress(p, raised, up)
  <2>1. Turn(p, 20, UPDATE_PERCENT, full, "after")
    BY <1>2 DEF ProgressSmoothToTwentyPercent
  <2>2. ended.early = k.early
    BY <1>5 DEF Shape, Fields
  <2>3. [ended EXCEPT !.early = early] = told
    BY <1>5 DEF Shape, Fields
  <2>4. early = (ended.early \/ (full = 100 /\ 20 < 100))
    BY <1>3, <2>2
  <2>5. k.value \in Nat
    BY <1>5 DEF HeardTypes
  <2> HIDE DEF ended, told, raised
  <2>6. \/ paste' = [paste EXCEPT ![p] = ended]
        \/ paste' = UpdateProgress(p, [ended EXCEPT !.early = early], full)
        \/ k.value < 20 /\ paste' = UpdateProgress(p, raised, up)
    BY <1>1, <1>4, <2>1, <2>4, <2>5 DEF Turn, ended, raised
  <2> QED
    BY <2>3, <2>6
<1>8. AlikeBut(k, ended, {"pc"}) /\ ended.pc = "after"
  BY <1>5 DEF AlikeBut, Shape, Fields
<1>9. AlikeBut(k, told, {"pc", "early"}) /\ told.pc = "after" /\ told.early = early
  BY <1>5 DEF AlikeBut, Shape, Fields
<1>10. AlikeBut(k, raised, {"value"}) /\ raised.value = up
  BY <1>5 DEF AlikeBut, Shape, Fields
<1> HIDE DEF ended, told, raised
<1>11. UPDATE_PERCENT \in Nat \ {0} /\ up \in Nat /\ full \in {20, 100} /\ (full = 100 <=> ~HasUri(p))
  BY <1>2, <1>4, <1>5, ProgressAssumption DEF HeardTypes
<1>12. CASE paste' = [paste EXCEPT ![p] = ended]
  <2>1. HeardTypes(ended)
    BY <1>5, <1>8 DEF HeardTypes, AlikeBut, Fields
  <2>2. Free(ended) => HeardOK(ended, remoteTask', needCancel', recordSize')
    BY <1>5, <1>6, <1>8 DEF HeardOK, AlikeBut, Fields, Free, Leads, HeardTypes, Unheard
  <2> QED
    BY <1>1, <1>5, <1>6, <1>8, <1>12, <2>1, <2>2, HeardGoesOn DEF AlikeBut
<1>13. CASE paste' = UpdateProgress(p, told, full)
  <2>1. HeardTypes(told)
    BY <1>5, <1>9 DEF HeardTypes, AlikeBut, Fields
  <2>2. ASSUME Free(told)
        PROVE  HeardOK(Tells(told, full), remoteTask', needCancel', recordSize')
    <3>1. PICK t : t = Tells(told, full)
      OBVIOUS
    <3>9. /\ \A f \in Fields \ {"heard", "fell"} : t[f] = told[f]
          /\ t.heard = full \/ (told.to = "taihe" /\ t.heard = told.heard)
          /\ t.fell => told.fell \/ (full < told.heard)
      BY <1>9, <1>11, <2>1, <2>2, <3>1, ToldFields DEF AlikeBut
    <3>2. /\ t.pc = "after" /\ t.early = early /\ t.copied = k.copied /\ t.result = k.result
          /\ t.to = k.to /\ t.clip = k.clip /\ told.heard = k.heard /\ told.fell = k.fell
          /\ t.heard = full \/ t.heard = k.heard
          /\ t.fell => k.fell \/ (full < k.heard)
      BY <1>9, <1>11, <2>1, <2>2, <3>1, <3>9 DEF AlikeBut, Fields
    <3>3. HeardOK(k, remoteTask, needCancel, recordSize)
      BY <1>5, <1>9, <2>2 DEF AlikeBut, Fields, Free
    <3>4. ~needCancel /\ k.copied = 0 /\ k.heard <= 20 /\ k.heard \in Nat /\ ~k.early /\ ~k.fell /\ k.result # "ok"
      BY <1>1, <1>5, <3>3 DEF HeardOK, Leads, HeardTypes, HeardInv, FilesInv, FilesOK
    <3>5. Uris(k) <=> HasUri(p)
      BY <1>1 DEF Uris, HasUri
    <3>6. ~t.fell /\ (t.heard <= 20 \/ (t.early /\ ~Uris(t)))
      <4>1. ~t.fell
        BY <1>11, <3>2, <3>4
      <4>2. Uris(t) <=> HasUri(p)
        BY <3>2, <3>5 DEF Uris
      <4>3. CASE full = 20
        BY <3>2, <3>4, <4>1, <4>3
      <4>4. CASE full = 100
        BY <1>3, <1>11, <3>2, <4>1, <4>2, <4>4
      <4> QED
        BY <1>11, <4>3, <4>4
    <3> QED
      BY <1>6, <3>1, <3>2, <3>4, <3>6 DEF HeardOK, Unheard
  <2> QED
    BY <1>1, <1>5, <1>6, <1>9, <1>11, <1>13, <2>1, <2>2, HeardTold DEF AlikeBut
<1>14. CASE k.value < 20 /\ paste' = UpdateProgress(p, raised, up)
  <2>1. HeardTypes(raised) /\ raised.pc = "smooth"
    BY <1>5, <1>10, <1>11 DEF HeardTypes, AlikeBut, Fields
  <2>2. ASSUME Free(raised)
        PROVE  HeardOK(Tells(raised, up), remoteTask', needCancel', recordSize')
    <3>1. PICK t : t = Tells(raised, up)
      OBVIOUS
    <3>9. /\ \A f \in Fields \ {"heard", "fell"} : t[f] = raised[f]
          /\ t.heard = up \/ (raised.to = "taihe" /\ t.heard = raised.heard)
          /\ t.fell => raised.fell \/ (up < raised.heard)
      BY <1>10, <1>11, <2>1, <2>2, <3>1, ToldFields DEF AlikeBut
    <3>2. /\ t.pc = "smooth" /\ t.early = k.early /\ t.copied = k.copied /\ t.result = k.result
          /\ t.to = k.to /\ t.value = up /\ raised.heard = k.heard /\ raised.fell = k.fell
          /\ t.heard = up \/ t.heard = k.heard
          /\ t.fell => k.fell \/ (up < k.heard)
      BY <1>10, <1>11, <2>1, <2>2, <3>1, <3>9 DEF AlikeBut, Fields
    <3>3. HeardOK(k, remoteTask, needCancel, recordSize)
      BY <1>5, <1>10, <2>2 DEF AlikeBut, Fields, Free
    <3>4. ~needCancel /\ k.copied = 0 /\ ~k.early /\ ~k.fell /\ k.result # "ok"
      BY <1>1, <1>5, <3>3 DEF HeardOK, HeardInv, FilesInv, FilesOK
    <3>5. k.heard <= k.value /\ k.heard \in Nat /\ k.value \in Nat /\ Leads(k.value, 20, UPDATE_PERCENT)
      BY <1>5, <3>3 DEF HeardOK, HeardTypes
    <3>6. Leads(up, 20, UPDATE_PERCENT) /\ k.heard < up
      BY <1>4, <1>11, <1>14, <3>5, LeadsOn
    <3>7. t.heard <= up /\ ~t.fell
      BY <1>11, <3>2, <3>4, <3>5, <3>6
    <3> QED
      BY <1>6, <3>1, <3>2, <3>4, <3>6, <3>7 DEF HeardOK, Unheard
  <2> QED
    BY <1>1, <1>5, <1>6, <1>10, <1>11, <1>14, <2>1, <2>2, HeardTold DEF AlikeBut
<1> QED
  BY <1>7, <1>12, <1>13, <1>14

\* One turn of the loop up to 100: at its end 100 was told, unless a timeout came.
LEMMA WithoutHeard ==
  ASSUME HeardInv, FilesInv', NEW p \in Pastes, SetProgressWithoutFile(p)
  PROVE  HeardInv'
<1>1. PICK k : k = paste[p]
  OBVIOUS
<1>2. PICK up : up = k.value + UPDATE_PERCENT_WITHOUT_FILE
  OBVIOUS
<1>3. Shape(k) /\ HeardTypes(k) /\ (Free(k) => HeardOK(k, remoteTask, needCancel, recordSize)) /\ k.pc = "without"
  BY <1>1 DEF HeardInv, FilesInv, SetProgressWithoutFile
<1>4. Active(p) /\ Started(p) /\ UNCHANGED <<listener, progressKey, remoteTask, needCancel, recordSize>>
  BY <1>1, <1>3 DEF Active, Started, SetProgressWithoutFile, flags
<1> DEFINE ended == [k EXCEPT !.pc = "finish"]
           raised == [k EXCEPT !.value = up]
<1>5. AlikeBut(k, ended, {"pc"}) /\ ended.pc = "finish"
  BY <1>3 DEF AlikeBut, Shape, Fields
<1>6. AlikeBut(k, raised, {"value"}) /\ raised.value = up
  BY <1>3 DEF AlikeBut, Shape, Fields
<1>7. k.value \in Nat /\ k.heard \in Nat /\ k.early \in BOOLEAN
  BY <1>3 DEF HeardTypes
<1>8. UPDATE_PERCENT_WITHOUT_FILE \in Nat \ {0} /\ up \in Nat
  BY <1>2, <1>7, ProgressAssumption
<1>9. \/ (k.value >= 100 \/ remoteTask \/ needCancel) /\ paste' = [paste EXCEPT ![p] = ended]
      \/ paste' = UpdateProgress(p, ended, 100)
      \/ k.value < 100 /\ paste' = UpdateProgress(p, raised, up)
  <2>1. Turn(p, 100, UPDATE_PERCENT_WITHOUT_FILE, 100, "finish")
    BY DEF SetProgressWithoutFile
  <2>2. PICK early : early = (ended.early \/ (100 = 100 /\ 100 < 100))
    OBVIOUS
  <2>3. early = ended.early
    <3>1. ended.early = k.early
      BY <1>5 DEF AlikeBut, Fields
    <3>2. ~(100 < 100)
      OBVIOUS
    <3> QED
      BY <1>7, <2>2, <3>1, <3>2, Zenon
  <2>4. [ended EXCEPT !.early = early] = ended
    BY <2>3, <1>5 DEF AlikeBut, Shape, Fields
  <2> HIDE DEF ended, raised
  <2>5. \/ (k.value >= 100 \/ remoteTask \/ needCancel) /\ paste' = [paste EXCEPT ![p] = ended]
        \/ paste' = UpdateProgress(p, [ended EXCEPT !.early = early], 100)
        \/ k.value < 100 /\ paste' = UpdateProgress(p, raised, up)
    BY <1>1, <1>2, <1>7, <2>1, <2>2 DEF Turn, ended, raised
  <2> QED
    BY <2>4, <2>5
<1> HIDE DEF ended, raised
<1>10. ASSUME Free(k)
       PROVE  /\ ~needCancel /\ k.copied = 0 /\ (k.fell => k.early) /\ k.result # "ok"
              /\ Leads(k.value, 100, UPDATE_PERCENT_WITHOUT_FILE) /\ k.value >= 20 /\ k.value <= 100
              /\ k.heard <= k.value \/ k.early
              /\ remoteTask \/ k.value = 20 \/ k.to = "taihe" \/ k.heard = k.value
  BY <1>1, <1>3, <1>10 DEF HeardOK, Leads, HeardInv, FilesInv, FilesOK
<1>11. HeardTypes(ended) /\ (Free(ended) <=> Free(k))
  BY <1>3, <1>5 DEF HeardTypes, AlikeBut, Fields, Free
<1>12. CASE (k.value >= 100 \/ remoteTask \/ needCancel) /\ paste' = [paste EXCEPT ![p] = ended]
  <2>1. ASSUME Free(ended)
        PROVE  HeardOK(ended, remoteTask', needCancel', recordSize')
    <3>1. remoteTask \/ k.to = "taihe" \/ k.heard = 100
      BY <1>7, <1>10, <1>11, <1>12, <2>1
    <3>2. /\ ended.early = k.early /\ ended.fell = k.fell /\ ended.to = k.to /\ ended.heard = k.heard
          /\ ended.result = k.result
      BY <1>5 DEF AlikeBut, Fields
    <3> QED
      BY <1>4, <1>5, <1>10, <1>11, <2>1, <3>1, <3>2 DEF HeardOK, Unheard
  <2> QED
    BY <1>1, <1>3, <1>4, <1>5, <1>11, <1>12, <2>1, HeardGoesOn DEF AlikeBut
<1>13. CASE paste' = UpdateProgress(p, ended, 100)
  <2>1. ASSUME Free(ended)
        PROVE  HeardOK(Tells(ended, 100), remoteTask', needCancel', recordSize')
    <3>1. PICK t : t = Tells(ended, 100)
      OBVIOUS
    <3>9. /\ \A f \in Fields \ {"heard", "fell"} : t[f] = ended[f]
          /\ t.heard = 100 \/ (ended.to = "taihe" /\ t.heard = ended.heard)
          /\ t.fell => ended.fell \/ (100 < ended.heard)
      BY <1>5, <1>11, <2>1, <3>1, ToldFields DEF AlikeBut
    <3>2. /\ t.pc = "finish" /\ t.early = k.early /\ t.result = k.result
          /\ t.to = k.to /\ ended.heard = k.heard /\ ended.fell = k.fell
          /\ t.heard = 100 \/ t.to = "taihe"
          /\ t.fell => k.fell \/ (100 < k.heard)
      BY <1>5, <1>11, <2>1, <3>1, <3>9 DEF AlikeBut, Fields
    <3>3. 100 < k.heard => k.early
      BY <1>7, <1>10, <1>11, <2>1
    <3> QED
      BY <1>4, <1>10, <1>11, <2>1, <3>1, <3>2, <3>3 DEF HeardOK, Unheard
  <2> QED
    BY <1>1, <1>3, <1>4, <1>5, <1>11, <1>13, <2>1, HeardTold DEF AlikeBut
<1>14. CASE k.value < 100 /\ paste' = UpdateProgress(p, raised, up)
  <2>1. HeardTypes(raised) /\ raised.pc = "without" /\ (Free(raised) <=> Free(k))
    BY <1>3, <1>6, <1>8 DEF HeardTypes, AlikeBut, Fields, Free
  <2>2. ASSUME Free(raised)
        PROVE  HeardOK(Tells(raised, up), remoteTask', needCancel', recordSize')
    <3>1. PICK t : t = Tells(raised, up)
      OBVIOUS
    <3>9. /\ \A f \in Fields \ {"heard", "fell"} : t[f] = raised[f]
          /\ t.heard = up \/ (raised.to = "taihe" /\ t.heard = raised.heard)
          /\ t.fell => raised.fell \/ (up < raised.heard)
      BY <1>6, <1>8, <2>1, <2>2, <3>1, ToldFields DEF AlikeBut
    <3>2. /\ t.pc = "without" /\ t.early = k.early /\ t.copied = k.copied /\ t.result = k.result
          /\ t.to = k.to /\ t.value = up /\ raised.heard = k.heard /\ raised.fell = k.fell
          /\ t.heard = up \/ (t.to = "taihe" /\ t.heard = k.heard)
          /\ t.fell => k.fell \/ (up < k.heard)
      BY <1>6, <1>8, <2>1, <2>2, <3>1, <3>9 DEF AlikeBut, Fields
    <3>3. Leads(up, 100, UPDATE_PERCENT_WITHOUT_FILE) /\ up >= 20 /\ k.value < up
      BY <1>2, <1>7, <1>8, <1>10, <1>14, <2>1, <2>2, LeadsOn
    <3>4. (up < k.heard => k.early) /\ (k.heard <= up \/ k.early)
      BY <1>7, <1>8, <1>10, <2>1, <2>2, <3>3
    <3>5. t.heard <= up \/ t.early
      BY <1>8, <3>2, <3>4
    <3>6. t.fell => t.early
      BY <1>10, <2>1, <2>2, <3>2, <3>4
    <3> QED
      BY <1>4, <1>10, <2>1, <2>2, <3>1, <3>2, <3>3, <3>5, <3>6 DEF HeardOK, Unheard
  <2> QED
    BY <1>1, <1>3, <1>4, <1>6, <1>8, <1>14, <2>1, <2>2, HeardTold DEF AlikeBut
<1> QED
  BY <1>9, <1>12, <1>13, <1>14

\* What comes after the loop up to 20.
LEMMA AfterHeard ==
  ASSUME HeardInv, FilesInv', NEW p \in Pastes, ProgressAfterTwentyPercent(p)
  PROVE  HeardInv'
<1>1. PICK k : k = paste[p]
  OBVIOUS
<1>2. /\ Shape(k) /\ HeardTypes(k) /\ (Free(k) => HeardOK(k, remoteTask, needCancel, recordSize))
      /\ k.pc = "after" /\ k.result = "none" /\ Files(k)
  BY <1>1 DEF HeardInv, FilesInv, FilesOK, ProgressAfterTwentyPercent
<1>3. Active(p) /\ Started(p) /\ UNCHANGED <<listener, progressKey, remoteTask, needCancel>>
  BY <1>1, <1>2 DEF Active, Started, ProgressAfterTwentyPercent
<1> DEFINE none == [k EXCEPT !.pc = "finish", !.ret = "nodata"]
           copy == [k EXCEPT !.pc = "copy", !.processed = 0]
           without == [k EXCEPT !.pc = "without", !.value = 20]
<1>4. \/ paste' = [paste EXCEPT ![p] = none]
      \/ HasUri(p) /\ recordSize' = Len(k.clip) /\ paste' = [paste EXCEPT ![p] = copy]
      \/ paste' = [paste EXCEPT ![p] = without]
  BY <1>1 DEF HeardInv, FilesInv, ProgressAfterTwentyPercent
<1>5. AlikeBut(k, none, {"pc", "ret"}) /\ none.pc = "finish" /\ none.ret = "nodata"
  BY <1>2 DEF AlikeBut, Shape, Fields
<1>6. AlikeBut(k, copy, {"pc", "processed"}) /\ copy.pc = "copy" /\ copy.processed = 0
  BY <1>2 DEF AlikeBut, Shape, Fields
<1>7. AlikeBut(k, without, {"pc", "value"}) /\ without.pc = "without" /\ without.value = 20
  BY <1>2 DEF AlikeBut, Shape, Fields
<1> HIDE DEF none, copy, without
<1>8. CASE paste' = [paste EXCEPT ![p] = none]
  <2>1. HeardTypes(none)
    BY <1>2, <1>5 DEF HeardTypes, AlikeBut, Fields
  <2>2. Free(none) => HeardOK(none, remoteTask', needCancel', recordSize')
    BY <1>2, <1>3, <1>5 DEF HeardOK, AlikeBut, Fields, Free, Unheard
  <2> QED
    BY <1>1, <1>2, <1>3, <1>5, <1>8, <2>1, <2>2, HeardGoesOn DEF AlikeBut
<1>9. CASE HasUri(p) /\ recordSize' = Len(k.clip) /\ paste' = [paste EXCEPT ![p] = copy]
  <2>1. HeardTypes(copy)
    BY <1>2, <1>6 DEF HeardTypes, AlikeBut, Fields
  <2>2. ASSUME Free(copy)
        PROVE  HeardOK(copy, remoteTask', needCancel', recordSize')
    <3>1. Uris(k) /\ Len(k.clip) \in Nat \ {0}
      BY <1>1, <1>2, <1>9 DEF Uris, HasUri, Files
    <3>2. /\ copy.fell = k.fell /\ copy.early = k.early /\ copy.copied = k.copied /\ copy.heard = k.heard
          /\ copy.clip = k.clip /\ copy.result = k.result /\ Free(k)
      BY <1>6, <2>2 DEF AlikeBut, Fields, Free
    <3>3. (k.fell => k.early) /\ ~needCancel /\ k.copied = 0 /\ k.heard <= 20 /\ k.heard \in Nat
      BY <1>2, <3>1, <3>2 DEF HeardOK, HeardTypes
    <3>4. 20 <= ToldAt(0, 0, Len(k.clip)) /\ ToldAt(0, 0, Len(k.clip)) \in Nat
      <4>1. 0 \in Nat /\ 0 * 100 + 0 <= 0 * 100 + 0
        OBVIOUS
      <4> QED
        BY <3>1, <4>1, ToldRises
    <3>5. k.heard <= ToldAt(0, 0, Len(k.clip))
      BY <3>3, <3>4
    <3> QED
      BY <1>2, <1>3, <1>6, <1>9, <3>1, <3>2, <3>3, <3>5 DEF HeardOK, Unheard
  <2> QED
    BY <1>1, <1>2, <1>3, <1>6, <1>9, <2>1, <2>2, HeardGoesOn DEF AlikeBut
<1>10. CASE paste' = [paste EXCEPT ![p] = without]
  <2>1. HeardTypes(without)
    BY <1>2, <1>7 DEF HeardTypes, AlikeBut, Fields
  <2>2. ASSUME Free(without)
        PROVE  HeardOK(without, remoteTask', needCancel', recordSize')
    <3>1. /\ without.fell = k.fell /\ without.early = k.early /\ without.copied = k.copied /\ without.heard = k.heard
          /\ without.result = k.result /\ Free(k)
      BY <1>7, <2>2 DEF AlikeBut, Fields, Free
    <3>2. (k.fell => k.early) /\ ~needCancel /\ k.copied = 0 /\ (k.heard <= 20 \/ k.early)
      BY <1>2, <3>1 DEF HeardOK
    <3> QED
      BY <1>2, <1>3, <1>7, <3>1, <3>2, LeadsFromStart DEF HeardOK, Unheard
  <2> QED
    BY <1>1, <1>2, <1>3, <1>7, <1>10, <2>1, <2>2, HeardGoesOn DEF AlikeBut
<1> QED
  BY <1>4, <1>8, <1>9, <1>10

\* The fate of the current record is decided: the next one starts where it ended.
LEMMA DecidedHeard ==
  ASSUME HeardInv, FilesInv', NEW p \in Pastes, paste[p].pc \in {"copy", "copying"},
         NEW ret, NEW fate, NEW b, b = [paste[p] EXCEPT !.ret = ret],
         paste' = [paste EXCEPT ![p] = Decide(b, Current(p), fate)],
         UNCHANGED <<flags, recordSize, progressKey, listener>>
  PROVE  HeardInv'
<1>1. PICK k : k = paste[p]
  OBVIOUS
<1>2. /\ Shape(k) /\ HeardTypes(k) /\ (Free(k) => HeardOK(k, remoteTask, needCancel, recordSize))
      /\ k.result = "none" /\ Files(k)
  BY <1>1 DEF HeardInv, FilesInv, FilesOK
<1>3. PICK i : i = Current(p)
  OBVIOUS
<1>4. PICK fates : fates = [b.fate EXCEPT ![i] = fate]
  OBVIOUS
<1>5. PICK new : new = [b EXCEPT !.pc = "copy", !.processed = i, !.copied = 0, !.fate = fates]
  OBVIOUS
<1>6. Shape(b) /\ \A f \in Fields \ {"ret"} : b[f] = k[f]
  BY <1>1, <1>2 DEF Shape, Fields
<1>7. Decide(b, i, fate) = new
  BY <1>4, <1>5, <1>6 DEF Decide, Shape, Fields
<1>8. Shape(new) /\ (\A f \in Fields \ {"pc", "processed", "copied", "fate"} : new[f] = b[f])
      /\ new.pc = "copy" /\ new.processed = i /\ new.copied = 0
  BY <1>5, <1>6 DEF Shape, Fields
<1>9. AlikeBut(k, new, {"pc", "processed", "copied", "fate", "ret"})
  BY <1>6, <1>8 DEF AlikeBut
<1>10. HeardTypes(new)
  BY <1>1, <1>2, <1>8, <1>9 DEF HeardTypes, AlikeBut, Fields
<1>11. ASSUME Free(new)
       PROVE  HeardOK(new, remoteTask', needCancel', recordSize')
  <2>1. /\ new.fell = k.fell /\ new.early = k.early /\ new.heard = k.heard
        /\ new.clip = k.clip /\ new.result = k.result /\ Free(k)
    BY <1>9, <1>11 DEF AlikeBut, Fields, Free
  <2>2. /\ (k.fell => k.early) /\ ~needCancel /\ recordSize = Len(k.clip) /\ recordSize # 0
        /\ k.heard <= ToldAt(k.processed, k.copied, recordSize) /\ k.heard \in Nat
    BY <1>1, <1>2, <2>1 DEF HeardOK, HeardTypes
  <2>3. k.processed \in Nat /\ i \in Nat /\ k.copied \in Nat /\ recordSize \in Nat \ {0}
        /\ k.processed * 100 + k.copied <= i * 100 + 0
    BY <1>1, <1>2, <1>3, <2>2 DEF Files, HeardTypes, Current
  <2>4. /\ ToldAt(k.processed, k.copied, recordSize) \in Nat /\ ToldAt(i, 0, recordSize) \in Nat
        /\ ToldAt(k.processed, k.copied, recordSize) <= ToldAt(i, 0, recordSize)
    BY <2>3, ToldRises
  <2>5. k.heard <= ToldAt(i, 0, recordSize)
    BY <2>2, <2>4
  <2> QED
    BY <1>2, <1>8, <2>1, <2>2, <2>5 DEF HeardOK, Unheard, flags
<1>12. Active(p) /\ paste[p].pc \notin {"check", "start"}
  BY DEF Active
<1> QED
  BY <1>1, <1>3, <1>7, <1>8, <1>9, <1>10, <1>11, <1>12, HeardGoesOn DEF AlikeBut

\* More of the file is there.
LEMMA CopyingHeard ==
  ASSUME HeardInv, FilesInv', NEW p \in Pastes, HandleProgress(p)
  PROVE  HeardInv'
<1>1. PICK k : k = paste[p]
  OBVIOUS
<1>2. /\ Shape(k) /\ HeardTypes(k) /\ (Free(k) => HeardOK(k, remoteTask, needCancel, recordSize))
      /\ k.pc = "copying" /\ k.result = "none" /\ Files(k) /\ k.copied < 100
  BY <1>1 DEF HeardInv, FilesInv, FilesOK, HandleProgress
<1>3. Active(p) /\ Started(p) /\ UNCHANGED <<listener, progressKey, remoteTask, needCancel, recordSize>>
  BY <1>1, <1>2 DEF Active, Started, HandleProgress
<1>4. PICK copied : copied = k.copied + 50
  OBVIOUS
<1>5. PICK told : told = ToldAt(k.processed, copied, recordSize)
  OBVIOUS
<1>6. copied \in {50, 100} /\ copied \in Nat /\ k.copied \in Nat /\ k.copied <= copied /\ k.processed \in Nat /\ k.heard \in Nat
  BY <1>2, <1>4 DEF HeardTypes, Files
<1> DEFINE new == [k EXCEPT !.copied = copied]
<1>7. AlikeBut(k, new, {"copied"}) /\ new.copied = copied
  BY <1>2 DEF AlikeBut, Shape, Fields
<1>8. \/ (recordSize = 0 \/ needCancel) /\ paste' = [paste EXCEPT ![p] = new]
      \/ recordSize # 0 /\ paste' = UpdateProgress(p, new, told)
  <2>1. Current(p) - 1 = k.processed
    BY <1>1, <1>6 DEF Current
  <2> HIDE DEF new
  <2>4. TotalProgress(Current(p), new.copied) = (k.processed * 100 + copied) \div recordSize
    BY <1>7, <2>1, Zenon DEF TotalProgress
  <2>2. told = OnProgressNotify(LET all == TotalProgress(Current(p), new.copied)
                                IN IF all > 100 THEN 100 ELSE all)
    BY <1>5, <2>4, Zenon DEF ToldAt, Clamped
  <2>3. new = [paste[p] EXCEPT !.copied = @ + 50]
    BY <1>1, <1>4 DEF new
  <2> QED
    BY <2>2, <2>3 DEF HandleProgress
<1> HIDE DEF new
<1>9. HeardTypes(new)
  BY <1>2, <1>6, <1>7 DEF HeardTypes, AlikeBut, Fields
<1>10. /\ new.fell = k.fell /\ new.early = k.early /\ new.heard = k.heard /\ new.pc = "copying" /\ new.to = k.to
       /\ new.clip = k.clip /\ new.result = k.result /\ (Free(k) <=> Free(new)) /\ new.processed = k.processed
  BY <1>2, <1>7 DEF AlikeBut, Fields, Free
<1>11. ASSUME Free(k)
       PROVE  /\ (k.fell => k.early) /\ ~needCancel /\ recordSize = Len(k.clip) /\ recordSize # 0
              /\ k.heard <= told /\ told \in Nat
  <2>1. /\ (k.fell => k.early) /\ ~needCancel /\ recordSize = Len(k.clip) /\ recordSize # 0
        /\ k.heard <= ToldAt(k.processed, k.copied, recordSize)
    BY <1>2, <1>11 DEF HeardOK
  <2>2. recordSize \in Nat \ {0} /\ k.processed * 100 + k.copied <= k.processed * 100 + copied
    BY <1>2, <1>6, <2>1 DEF Files
  <2>3. /\ ToldAt(k.processed, k.copied, recordSize) \in Nat /\ told \in Nat
        /\ ToldAt(k.processed, k.copied, recordSize) <= told
    <3>1. /\ ToldAt(k.processed, k.copied, recordSize) \in Nat /\ ToldAt(k.processed, copied, recordSize) \in Nat
          /\ ToldAt(k.processed, k.copied, recordSize) <= ToldAt(k.processed, copied, recordSize)
      <4>1. k.processed \in Nat /\ k.copied \in Nat /\ copied \in Nat
        BY <1>6
      <4> QED
        BY <4>1, <2>2, ToldRises
    <3> QED
      BY <1>5, <3>1
  <2>4. k.heard <= told
    BY <1>6, <2>1, <2>3
  <2> QED
    BY <2>1, <2>3, <2>4
<1>12. CASE (recordSize = 0 \/ needCancel) /\ paste' = [paste EXCEPT ![p] = new]
  <2>1. ~Free(new)
    BY <1>10, <1>11, <1>12
  <2>2. AlikeBut(k, new, {"pc", "value", "processed", "ret", "copied", "fate"})
    BY <1>7 DEF AlikeBut
  <2> QED
    BY <1>1, <1>2, <1>3, <1>9, <1>10, <1>12, <2>1, <2>2, HeardGoesOn
<1>13. CASE recordSize # 0 /\ paste' = UpdateProgress(p, new, told)
  <2>1. ASSUME Free(new)
        PROVE  HeardOK(Tells(new, told), remoteTask', needCancel', recordSize')
    <3>1. PICK t : t = Tells(new, told)
      OBVIOUS
    <3>4. /\ \A f \in Fields \ {"heard", "fell"} : t[f] = new[f]
          /\ t.heard = told \/ t.heard = new.heard
          /\ t.fell => new.fell \/ (told < new.heard)
      BY <1>7, <1>9, <1>10, <1>11, <2>1, <3>1, ToldFields DEF AlikeBut
    <3>2. /\ t.pc = "copying" /\ t.early = k.early /\ t.copied = copied /\ t.result = k.result
          /\ t.to = k.to /\ t.clip = k.clip /\ t.processed = k.processed
          /\ t.heard = told \/ t.heard = k.heard
          /\ t.fell => k.fell \/ (told < k.heard)
      BY <1>7, <1>10, <3>4 DEF Fields
    <3>3. t.heard <= told /\ ~(told < k.heard)
      BY <1>6, <1>10, <1>11, <2>1, <3>2
    <3> QED
      BY <1>2, <1>3, <1>5, <1>10, <1>11, <2>1, <3>1, <3>2, <3>3 DEF HeardOK, Unheard
  <2>2. Free(new) => told \in Nat
    BY <1>10, <1>11
  <2>3. AlikeBut(k, new, {"pc", "value", "early", "ret", "copied"})
    BY <1>7 DEF AlikeBut
  <2> QED
    BY <1>1, <1>2, <1>3, <1>9, <1>10, <1>13, <2>1, <2>2, <2>3, HeardTold
<1> QED
  BY <1>8, <1>12, <1>13

\* All records are dealt with.
LEMMA DoneHeard ==
  ASSUME HeardInv, FilesInv', NEW p \in Pastes, CopyDone(p)
  PROVE  HeardInv'
<1>1. PICK k : k = paste[p]
  OBVIOUS
<1>2. /\ Shape(k) /\ HeardTypes(k) /\ (Free(k) => HeardOK(k, remoteTask, needCancel, recordSize))
      /\ k.pc = "copy" /\ k.result = "none" /\ Files(k)
  BY <1>1 DEF HeardInv, FilesInv, FilesOK, CopyDone
<1>3. Active(p) /\ Started(p) /\ UNCHANGED <<listener, progressKey, remoteTask, needCancel>>
  BY <1>1, <1>2 DEF Active, Started, CopyDone, flags
<1>4. PICK ret : ret = IF k.ret = "error" THEN "copyfailed" ELSE "ok"
  OBVIOUS
<1> DEFINE new == [k EXCEPT !.pc = "finish", !.ret = ret]
<1>5. paste' = UpdateProgress(p, new, 100)
  BY <1>1, <1>4 DEF CopyDone
<1>6. AlikeBut(k, new, {"pc", "ret"}) /\ new.pc = "finish"
  BY <1>2 DEF AlikeBut, Shape, Fields
<1> HIDE DEF new
<1>7. HeardTypes(new)
  BY <1>2, <1>6 DEF HeardTypes, AlikeBut, Fields
<1>8. /\ new.fell = k.fell /\ new.early = k.early /\ new.heard = k.heard /\ new.to = k.to
      /\ new.result = k.result /\ (Free(k) <=> Free(new))
  BY <1>6 DEF AlikeBut, Fields, Free
<1>9. ASSUME Free(new)
      PROVE  HeardOK(Tells(new, 100), remoteTask', needCancel', recordSize')
  <2>1. PICK t : t = Tells(new, 100)
    OBVIOUS
  <2>9. /\ \A f \in Fields \ {"heard", "fell"} : t[f] = new[f]
        /\ t.heard = 100 \/ (new.to = "taihe" /\ t.heard = new.heard)
        /\ t.fell => new.fell \/ (100 < new.heard)
    BY <1>6, <1>7, <1>8, <1>9, <2>1, ToldFields DEF AlikeBut
  <2>2. /\ t.pc = "finish" /\ t.early = k.early /\ t.result = k.result /\ t.to = k.to
        /\ t.heard = 100 \/ t.to = "taihe"
        /\ t.fell => k.fell \/ (100 < k.heard)
    BY <1>6, <1>7, <1>8, <1>9, <2>1, <2>9 DEF AlikeBut, Fields
  <2>3. /\ (k.fell => k.early) /\ ~needCancel /\ recordSize = Len(k.clip) /\ recordSize # 0
        /\ k.heard <= ToldAt(k.processed, k.copied, recordSize) /\ k.heard \in Nat
    BY <1>2, <1>8, <1>9 DEF HeardOK, HeardTypes
  <2>4. recordSize \in Nat \ {0} /\ k.processed \in Nat /\ k.copied \in Nat
        /\ k.processed * 100 + k.copied <= k.processed * 100 + k.copied
    BY <1>2, <2>3 DEF Files, HeardTypes
  <2>5. ToldAt(k.processed, k.copied, recordSize) \in Nat /\ ToldAt(k.processed, k.copied, recordSize) <= 100
    BY <2>4, ToldRises
  <2>6. ~(100 < k.heard)
    BY <2>3, <2>5
  <2> QED
    BY <1>2, <1>3, <2>1, <2>2, <2>3, <2>6 DEF HeardOK, Unheard
<1>10. AlikeBut(k, new, {"pc", "value", "early", "ret", "copied"})
  BY <1>6 DEF AlikeBut
<1> QED
  BY <1>1, <1>3, <1>5, <1>6, <1>7, <1>9, <1>10, HeardTold

\* A paste is asked for: it is alone only if no other one runs, and none that runs is alone
\* from then on.
LEMMA BegunHeard ==
  ASSUME HeardInv, FilesInv', NEW p \in Pastes, Begin(p)
  PROVE  HeardInv'
<1>1. PICK r \in Requests :
      /\ paste' = [q \in Pastes |->
                  IF q = p THEN [NoPaste EXCEPT !.pc = "check", !.to = r.to, !.skip = r.skip, !.clip = r.clip,
                                    !.fate = [i \in DOMAIN r.clip |-> "here"],
                                    !.alone = \A o \in Pastes : ~Active(o)]
                  ELSE [paste[q] EXCEPT !.alone = @ /\ ~Active(q)]]
      /\ listener' = IF r.to = "napi" /\ listener = 0 THEN p ELSE listener
  BY DEF Begin
<1>2. paste[p].pc = "none" /\ UNCHANGED <<remoteTask, needCancel, recordSize, progressKey>>
  BY DEF Begin, flags
<1>3. PICK alone \in BOOLEAN : alone = (\A o \in Pastes : ~Active(o))
  OBVIOUS
<1>4. PICK fates : fates = [i \in DOMAIN r.clip |-> "here"]
  OBVIOUS
<1> DEFINE new == [NoPaste EXCEPT !.pc = "check", !.to = r.to, !.skip = r.skip, !.clip = r.clip,
                                  !.fate = fates, !.alone = alone]
           other(q) == [paste[q] EXCEPT !.alone = @ /\ ~Active(q)]
<1>5. paste' = [q \in Pastes |-> IF q = p THEN new ELSE other(q)]
  BY <1>1, <1>3, <1>4
<1>6. /\ new.pc = "check" /\ new.to = r.to /\ new.alone = alone /\ new.heard = 0 /\ new.fell = FALSE /\ new.early = FALSE
      /\ new.value = 0 /\ new.copied = 0 /\ new.result = "none" /\ new.disturbed = FALSE
  BY DEF NoPaste
<1>7. ASSUME NEW q \in Pastes
      PROVE  /\ HeardTypes(other(q)) /\ other(q).pc = paste[q].pc /\ other(q).to = paste[q].to
             /\ other(q).alone => paste[q].alone /\ ~Active(q)
             /\ ~Active(q) => other(q) = paste[q]
  <2>1. PICK k : k = paste[q]
    OBVIOUS
  <2>2. Shape(k) /\ HeardTypes(k) /\ k.alone \in BOOLEAN
    BY <2>1 DEF HeardInv, FilesInv, HeardTypes
  <2>3. PICK b \in BOOLEAN : b = (k.alone /\ ~Active(q))
    OBVIOUS
  <2>4. other(q) = [k EXCEPT !.alone = b]
    BY <2>1, <2>3
  <2> DEFINE o == [k EXCEPT !.alone = b]
  <2>5. AlikeBut(k, o, {"alone"}) /\ o.alone = b
    BY <2>2 DEF AlikeBut, Shape, Fields
  <2>6. ~Active(q) => b = k.alone
    BY <2>2, <2>3
  <2>7. ~Active(q) => o = k
    BY <2>2, <2>6 DEF Shape, Fields
  <2> HIDE DEF o
  <2>8. HeardTypes(o)
    BY <2>2, <2>5 DEF AlikeBut, Fields, HeardTypes
  <2>9. o.pc = k.pc /\ o.to = k.to
    BY <2>5 DEF AlikeBut, Fields
  <2>10. other(q) = o
    BY <2>4 DEF o
  <2> QED
    BY <2>1, <2>3, <2>5, <2>7, <2>8, <2>9, <2>10
<1> HIDE DEF new, other
<1>8. r.to \in Listeners
  BY ProgressAssumption
<1>9. HeardTypes(new)
  <2>1. new.heard \in Nat /\ new.value \in Nat /\ new.copied \in {0, 50, 100}
    BY <1>6
  <2>2. new.alone \in BOOLEAN /\ new.disturbed \in BOOLEAN /\ new.fell \in BOOLEAN /\ new.early \in BOOLEAN
    BY <1>6, Zenon
  <2> QED
    BY <1>6, <1>8, <2>1, <2>2 DEF HeardTypes, Unheard
<1>10. \A q \in Pastes : HeardTypes(paste'[q])
  BY <1>5, <1>7, <1>9
<1>11. ASSUME NEW q \in Pastes
       PROVE  /\ q # p => (Active(q)' <=> Active(q)) /\ (Started(q)' <=> Started(q)) /\ paste'[q].to = paste[q].to
              /\ q # p => (paste'[q].alone => paste[q].alone /\ ~Active(q))
              /\ q = p => ~Active(q) /\ Active(q)' /\ ~Started(q) /\ ~Started(q)' /\ paste'[q].alone = alone
                          /\ paste'[q].to = r.to
  BY <1>2, <1>5, <1>6, <1>7 DEF Active, Started
<1>12. Sharing'
  <2>1. (\A x, q \in Pastes : Active(x) /\ Active(q) /\ paste[x].alone => x = q)'
    BY <1>3, <1>11
  <2>2. (listener # 0 => listener \in Pastes /\ Active(listener) /\ paste[listener].to = "napi")'
    BY <1>1, <1>11 DEF HeardInv, Sharing
  <2>3. (\A x \in Pastes : Active(x) /\ paste[x].alone /\ paste[x].to = "napi" => listener = x)'
    <3> SUFFICES ASSUME NEW x \in Pastes, Active(x)', paste'[x].alone, paste'[x].to = "napi"
                 PROVE  listener' = x
      OBVIOUS
    <3>1. x = p /\ alone /\ r.to = "napi"
      BY <1>11
    <3>2. listener = 0
      BY <1>3, <3>1 DEF HeardInv, Sharing
    <3> QED
      BY <1>1, <3>1, <3>2
  <2>4. (progressKey # 0 => progressKey \in Pastes /\ Started(progressKey))'
    BY <1>2, <1>11 DEF HeardInv, Sharing
  <2>5. ASSUME NEW x \in Pastes, Active(x)', Started(x)', paste'[x].to = "dialog"
        PROVE  /\ progressKey' # 0
               /\ progressKey' # x => ~paste'[x].alone /\ ~paste'[progressKey'].alone
    <3>1. x # p /\ Active(x) /\ Started(x) /\ paste[x].to = "dialog"
      BY <1>11, <2>5
    <3>2. progressKey # 0 /\ progressKey \in Pastes /\ Started(progressKey)
          /\ (progressKey # x => ~paste[x].alone /\ ~paste[progressKey].alone)
      BY <3>1 DEF HeardInv, Sharing
    <3>3. progressKey # p
      BY <1>11, <3>2
    <3> QED
      BY <1>2, <1>11, <3>1, <3>2, <3>3
  <2> QED
    BY <2>1, <2>2, <2>3, <2>4, <2>5 DEF Sharing
<1>13. ASSUME NEW q \in Pastes, Free(paste'[q])
       PROVE  HeardOK(paste'[q], remoteTask', needCancel', recordSize')
  <2>1. CASE q = p
    BY <1>5, <1>6, <2>1 DEF HeardOK, Unheard, Silent
  <2>2. CASE q # p
    <3>1. paste'[q] = other(q) /\ paste[q].alone /\ ~Active(q)
      BY <1>5, <1>7, <1>13, <2>2 DEF Free
    <3>2. paste'[q] = paste[q]
      BY <1>7, <3>1
    <3> QED
      BY <1>2, <1>13, <3>2 DEF HeardInv
  <2> QED
    BY <2>1, <2>2
<1> QED
  BY <1>10, <1>12, <1>13 DEF HeardInv

\* A signal: nothing is claimed any longer of a paste that runs.
LEMMA SignalHeard ==
  ASSUME HeardInv, FilesInv', Signal
  PROVE  HeardInv'
<1> DEFINE signalled(q) == [paste[q] EXCEPT !.disturbed = @ \/ paste[q].pc # "over"]
<1>1. paste' = [q \in Pastes |-> signalled(q)] /\ UNCHANGED <<listener, progressKey>>
  BY DEF Signal
<1>2. ASSUME NEW q \in Pastes
      PROVE  /\ HeardTypes(signalled(q)) /\ signalled(q).pc = paste[q].pc /\ signalled(q).to = paste[q].to
             /\ signalled(q).alone = paste[q].alone
             /\ Free(signalled(q)) => paste[q].pc = "over" /\ signalled(q) = paste[q]
  <2>1. PICK k : k = paste[q]
    OBVIOUS
  <2>2. Shape(k) /\ HeardTypes(k) /\ k.disturbed \in BOOLEAN
    BY <2>1 DEF HeardInv, FilesInv, HeardTypes
  <2>3. PICK b \in BOOLEAN : b = (k.disturbed \/ k.pc # "over")
    OBVIOUS
  <2> DEFINE o == [k EXCEPT !.disturbed = b]
  <2>4. signalled(q) = o
    BY <2>1, <2>3
  <2>5. AlikeBut(k, o, {"disturbed"}) /\ o.disturbed = b
    BY <2>2 DEF AlikeBut, Shape, Fields
  <2>6. ~b => k.pc = "over" /\ b = k.disturbed
    BY <2>2, <2>3
  <2>7. ~b => o = k
    BY <2>2, <2>6 DEF Shape, Fields
  <2> HIDE DEF o
  <2>8. HeardTypes(o)
    BY <2>2, <2>5 DEF AlikeBut, Fields, HeardTypes
  <2>9. o.pc = k.pc /\ o.to = k.to /\ o.alone = k.alone
    BY <2>5 DEF AlikeBut, Fields
  <2>10. Free(o) => ~b
    BY <2>5 DEF Free
  <2> QED
    BY <2>1, <2>4, <2>6, <2>7, <2>8, <2>9, <2>10
<1> HIDE DEF signalled
<1>3. \A q \in Pastes : HeardTypes(paste'[q]) /\ (Active(q)' <=> Active(q)) /\ (Started(q)' <=> Started(q))
                        /\ paste'[q].to = paste[q].to /\ paste'[q].alone = paste[q].alone
  BY <1>1, <1>2 DEF Active, Started
<1>4. Sharing'
  BY <1>1, <1>3 DEF HeardInv, Sharing
<1>5. ASSUME NEW q \in Pastes, Free(paste'[q])
      PROVE  HeardOK(paste'[q], remoteTask', needCancel', recordSize')
  <2>1. paste'[q] = paste[q] /\ paste[q].pc = "over" /\ HeardOK(paste[q], remoteTask, needCancel, recordSize)
    BY <1>1, <1>2, <1>5 DEF HeardInv
  <2> QED
    BY <2>1 DEF HeardOK, Unheard
<1> QED
  BY <1>3, <1>4, <1>5 DEF HeardInv

\* Every step of every paste, and every signal, keeps what was heard in order.
LEMMA HeardStep ==
  ASSUME HeardInv, [ProgressNext]_progressVars
  PROVE  HeardInv'
<1>0. FilesInv /\ FilesInv'
  BY FilesStep DEF HeardInv
<1>1. CASE UNCHANGED progressVars
  BY <1>1 DEF progressVars, HeardInv, FilesInv, Sharing, Active, Started
<1>2. ASSUME NEW p \in Pastes, PasteStep(p)
      PROVE  HeardInv'
  <2>1. PICK k : k = paste[p]
    OBVIOUS
  <2>2. /\ Shape(k) /\ HeardTypes(k) /\ (Free(k) => HeardOK(k, remoteTask, needCancel, recordSize))
        /\ FilesOK(k)
    BY <2>1 DEF HeardInv, FilesInv
  <2>3. CASE CheckProgressParam(p)
    <3>1. Active(p) /\ k.pc = "check" /\ UNCHANGED <<remoteTask, recordSize, progressKey>>
      BY <2>1, <2>3 DEF Active, CheckProgressParam
    <3>2. CASE GiveBack(p, "processing")
      BY <1>0, <2>1, <3>1, <3>2, HeardGivenBack
    <3>3. CASE paste' = [paste EXCEPT ![p].pc = "start"] /\ needCancel' = FALSE /\ listener' = listener
      <4> DEFINE new == [k EXCEPT !.pc = "start"]
      <4>1. paste' = [paste EXCEPT ![p] = new]
        BY <2>1, <3>3 DEF HeardInv, FilesInv
      <4>2. AlikeBut(k, new, {"pc"}) /\ new.pc = "start"
        BY <2>2 DEF AlikeBut, Shape, Fields
      <4> HIDE DEF new
      <4>3. HeardTypes(new)
        BY <2>2, <3>1, <4>2 DEF HeardTypes, AlikeBut, Fields, Unheard
      <4>4. Free(new) => HeardOK(new, remoteTask', needCancel', recordSize')
        BY <2>2, <3>1, <3>3, <4>2 DEF HeardOK, AlikeBut, Fields, Free, Unheard, Silent
      <4>5. AlikeBut(k, new, {"pc", "value", "processed", "ret", "copied", "fate"})
        BY <4>2 DEF AlikeBut
      <4> QED
        BY <1>0, <2>1, <3>1, <3>3, <4>1, <4>2, <4>3, <4>4, <4>5, HeardGoesOn
    <3> QED
      BY <2>3, <3>2, <3>3 DEF CheckProgressParam
  <2>4. CASE StartPaste(p)
    <3>1. Active(p) /\ k.pc = "start" /\ UNCHANGED <<remoteTask, needCancel, recordSize, listener>>
          /\ progressKey' = IF k.to = "dialog" THEN p ELSE progressKey
      BY <2>1, <2>4 DEF Active, StartPaste
    <3> DEFINE new == [k EXCEPT !.pc = "service"]
    <3>2. paste' = [paste EXCEPT ![p] = new]
      BY <2>1, <2>4 DEF HeardInv, FilesInv, StartPaste
    <3>3. AlikeBut(k, new, {"pc"}) /\ new.pc = "service"
      BY <2>2 DEF AlikeBut, Shape, Fields
    <3> HIDE DEF new
    <3>4. HeardTypes(new) /\ new.to = k.to
      BY <2>2, <3>1, <3>3 DEF HeardTypes, AlikeBut, Fields, Unheard
    <3>5. Free(new) => HeardOK(new, remoteTask', needCancel', recordSize')
      BY <2>2, <3>1, <3>3 DEF HeardOK, AlikeBut, Fields, Free, Unheard, Silent
    <3>6. AlikeBut(k, new, {"pc", "value", "processed", "ret", "copied", "fate"})
      BY <3>3 DEF AlikeBut
    <3> QED
      BY <1>0, <2>1, <3>1, <3>2, <3>3, <3>4, <3>5, <3>6, HeardGoesOn
  <2>5. CASE GetPasteDataFromService(p)
    <3>1. Active(p) /\ k.pc = "service" /\ UNCHANGED <<needCancel, recordSize, progressKey>>
      BY <2>1, <2>5 DEF Active, GetPasteDataFromService
    <3>2. CASE GiveBack(p, "failed")
      BY <1>0, <2>1, <3>1, <3>2, HeardGivenBack
    <3>3. CASE paste' = [paste EXCEPT ![p].pc = IF paste[p].clip = <<>> THEN "after" ELSE "smooth"]
               /\ UNCHANGED <<remoteTask, listener>>
      <4>1. PICK next \in {"after", "smooth"} : next = IF k.clip = <<>> THEN "after" ELSE "smooth"
        OBVIOUS
      <4> DEFINE new == [k EXCEPT !.pc = next]
      <4>2. paste' = [paste EXCEPT ![p] = new]
        BY <2>1, <3>3, <4>1 DEF HeardInv, FilesInv
      <4>3. AlikeBut(k, new, {"pc"}) /\ new.pc = next
        BY <2>2 DEF AlikeBut, Shape, Fields
      <4> HIDE DEF new
      <4>4. HeardTypes(new)
        BY <2>2, <3>1, <4>1, <4>3 DEF HeardTypes, AlikeBut, Fields, Unheard
      <4>5. ASSUME Free(new)
            PROVE  HeardOK(new, remoteTask', needCancel', recordSize')
        <5>1. /\ new.heard = k.heard /\ new.fell = k.fell /\ new.early = k.early /\ new.value = k.value
              /\ new.copied = k.copied /\ new.result = k.result /\ Free(k)
          BY <4>3, <4>5 DEF AlikeBut, Fields, Free
        <5>2. k.heard = 0 /\ ~k.fell /\ ~k.early /\ k.value = 0 /\ k.copied = 0 /\ ~needCancel /\ k.result # "ok"
          BY <2>2, <3>1, <5>1 DEF HeardOK, Unheard, Silent, FilesOK
        <5> QED
          BY <3>1, <4>1, <4>3, <5>1, <5>2, LeadsFromStart DEF HeardOK, Unheard
      <4>6. AlikeBut(k, new, {"pc", "value", "processed", "ret", "copied", "fate"})
        BY <4>3 DEF AlikeBut
      <4> QED
        BY <1>0, <2>1, <3>1, <3>3, <4>1, <4>2, <4>3, <4>4, <4>5, <4>6, HeardGoesOn
    <3> QED
      BY <2>5, <3>2, <3>3 DEF GetPasteDataFromService
  <2>6. CASE ProgressSmoothToTwentyPercent(p)
    BY <1>0, <2>6, SmoothHeard
  <2>7. CASE ProgressAfterTwentyPercent(p)
    BY <1>0, <2>7, AfterHeard
  <2>8. CASE SetProgressWithoutFile(p)
    BY <1>0, <2>8, WithoutHeard
  <2>9. CASE Finish(p)
    <3>1. PICK result : result = IF remoteTask THEN "abnormal" ELSE k.ret
      OBVIOUS
    <3>2. GiveBack(p, result) /\ k.pc = "finish" /\ progressKey' = progressKey /\ Active(p)
      BY <2>1, <2>9, <3>1 DEF Finish, Active
    <3>3. Free(k) /\ result = "ok" /\ k.to # "taihe" => k.heard = 100
      BY <2>2, <3>1, <3>2 DEF HeardOK
    <3> QED
      BY <1>0, <2>1, <3>2, <3>3, HeardGivenBack
  <2>10. CASE NextRecord(p)
    <3>1. k.pc = "copy" /\ UNCHANGED <<flags, recordSize, progressKey, listener>> /\ Active(p)
      BY <2>1, <2>10 DEF NextRecord, Active
    <3> DEFINE new == [k EXCEPT !.pc = "copying"]
    <3>2. k = [k EXCEPT !.ret = k.ret]
      BY <2>2 DEF Shape, Fields
    <3>3. \/ paste' = [paste EXCEPT ![p] = Decide(k, Current(p), "cancelled")]
          \/ paste' = [paste EXCEPT ![p] = Decide(k, Current(p), "left")]
          \/ paste' = [paste EXCEPT ![p] = new]
      BY <2>1, <2>10 DEF NextRecord
    <3>4. ASSUME NEW fate, paste' = [paste EXCEPT ![p] = Decide(k, Current(p), fate)]
          PROVE  HeardInv'
      <4>1. k = [paste[p] EXCEPT !.ret = k.ret] /\ paste[p].pc \in {"copy", "copying"}
        BY <2>1, <3>1, <3>2
      <4> QED
        BY <1>0, <3>1, <3>4, <4>1, DecidedHeard
    <3>5. CASE paste' = [paste EXCEPT ![p] = new]
      <4>1. AlikeBut(k, new, {"pc"}) /\ new.pc = "copying"
        BY <2>2 DEF AlikeBut, Shape, Fields
      <4> HIDE DEF new
      <4>2. HeardTypes(new)
        BY <2>2, <3>1, <4>1 DEF HeardTypes, AlikeBut, Fields, Unheard
      <4>3. ASSUME Free(new)
            PROVE  HeardOK(new, remoteTask', needCancel', recordSize')
        <5>1. /\ new.heard = k.heard /\ new.fell = k.fell /\ new.early = k.early /\ new.processed = k.processed
              /\ new.copied = k.copied /\ new.result = k.result /\ new.clip = k.clip /\ Free(k)
          BY <4>1, <4>3 DEF AlikeBut, Fields, Free
        <5> QED
          BY <2>2, <3>1, <4>1, <5>1 DEF HeardOK, Unheard, flags, FilesOK
      <4>4. AlikeBut(k, new, {"pc", "value", "processed", "ret", "copied", "fate"})
        BY <4>1 DEF AlikeBut
      <4> QED
        BY <1>0, <2>1, <3>1, <3>5, <4>1, <4>2, <4>3, <4>4, HeardGoesOn
    <3> QED
      BY <3>3, <3>4, <3>5
  <2>11. CASE SkipExisting(p)
    <3>1. k = [k EXCEPT !.ret = k.ret]
      BY <2>2 DEF Shape, Fields
    <3>2. k.pc = "copy" /\ UNCHANGED <<flags, recordSize, progressKey, listener>>
          /\ paste' = [paste EXCEPT ![p] = Decide(k, Current(p), "skipped")]
      BY <2>1, <2>11 DEF SkipExisting
    <3> QED
      BY <1>0, <2>1, <3>1, <3>2, DecidedHeard
  <2>12. CASE HandleProgress(p)
    BY <1>0, <2>12, CopyingHeard
  <2>13. CASE CopyFile(p)
    <3>1. PICK ret \in {"ok", "error", "stopped"} :
            k.pc = "copying" /\ paste' = [paste EXCEPT ![p] = ShouldKeepRecord(p, ret)]
      BY <2>1, <2>13 DEF CopyFile
    <3>2. UNCHANGED <<flags, recordSize, progressKey, listener>>
      BY <2>13 DEF CopyFile
    <3>3. PICK b : b = [k EXCEPT !.ret = ret]
      OBVIOUS
    <3>4. PICK ok : ok = [k EXCEPT !.ret = "ok"]
      OBVIOUS
    <3>5. [b EXCEPT !.ret = "ok"] = ok
      BY <2>2, <3>3, <3>4 DEF Shape, Fields
    <3>6. \E fate : \/ ShouldKeepRecord(p, ret) = Decide(b, Current(p), fate)
                    \/ ShouldKeepRecord(p, ret) = Decide(ok, Current(p), fate)
      BY <2>1, <3>3, <3>5 DEF ShouldKeepRecord
    <3> QED
      BY <1>0, <2>1, <3>1, <3>2, <3>3, <3>4, <3>6, DecidedHeard
  <2>14. CASE CopyDone(p)
    BY <1>0, <2>14, DoneHeard
  <2> QED
    BY <1>2, <2>3, <2>4, <2>5, <2>6, <2>7, <2>8, <2>9, <2>10, <2>11, <2>12, <2>13, <2>14 DEF PasteStep
<1> QED
  BY <1>0, <1>1, <1>2, BegunHeard, SignalHeard DEF ProgressNext

(* The percentages that the dialog or a listener of napi or C hears never  *)
(* fall, and a paste that ends well has heard 100, over both waiting loops *)
(* and the copying of any number of files, while other pastes share the    *)
(* flags, recordSize_ and the slots; as long as nothing interferes with    *)
(* this paste itself.  A listener of taihe hears nothing, which the        *)
(* property excepts.                                                       *)
THEOREM HeardToTheEnd == ProgressSpec => []ProgressHeard
<1>1. ProgressInit => HeardInv
  <2> SUFFICES ASSUME ProgressInit PROVE HeardInv
    OBVIOUS
  <2>1. paste = [p \in Pastes |-> NoPaste] /\ listener = 0 /\ progressKey = 0
    BY DEF ProgressInit
  <2>2. Shape(NoPaste)
    BY DEF Shape, Fields, NoPaste
  <2>3. FilesOK(NoPaste)
    BY DEF NoPaste, FilesOK, Files
  <2>4. HeardTypes(NoPaste)
    BY DEF NoPaste, HeardTypes, Unheard
  <2>5. HeardOK(NoPaste, remoteTask, needCancel, recordSize)
    BY DEF NoPaste, HeardOK, Unheard, Silent
  <2>6. NoPaste.pc = "none"
    BY DEF NoPaste
  <2>7. Sharing
    BY <2>1, <2>6 DEF Sharing, Active
  <2> QED
    BY <2>1, <2>2, <2>3, <2>4, <2>5, <2>7 DEF HeardInv, FilesInv
<1>2. HeardInv => ProgressHeard
  BY DEF HeardInv, ProgressHeard, Undisturbed, Free, HeardOK
<1> QED
  BY <1>1, <1>2, HeardStep, PTL DEF ProgressSpec

=============================================================================
