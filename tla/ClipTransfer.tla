----------------------------- MODULE ClipTransfer ----------------------------
(***************************************************************************)
(* What becomes of the content of a clip on its way from the application   *)
(* that copies it to the applications that paste it, here and on a peer    *)
(* device: every hop encodes and decodes it, html is taken apart and put   *)
(* together again, uris are converted and granted, delayed entries are     *)
(* filled in from the copying application.  Clips are replaced by newer    *)
(* ones meanwhile.  No reader is a file manager, which the limit on        *)
(* document uris does not hold for.                                        *)
(***************************************************************************)
EXTENDS ClipCodec, WebContent

CONSTANTS
    HereApps, ThereApps,   \* applications of the two devices; a token is the application
    Sessions,              \* what is copied one after the other: sequences of inputs
                           \* [clip, later, by], later the delayed values
    Versions,              \* lowest version among the peers
    NoDfs,                 \* paths of which no distributed uri can be made; when the whole
                           \* call for a clip's uris fails, none can of any path
    Sizes,                 \* how many delayed entries may still fit into a clip
    MaxRemoteDocUris,      \* MAX_REMOTE_FILE_MANAGER_URI_COUNT
    MaxSteps               \* bound on copies, pastes, fetches and syncs

Apps == HereApps \cup ThereApps
Here == "here"
There == "there"
DeviceOf(app) == IF app \in HereApps THEN Here ELSE There

ASSUME TransferAssumption ==
    HereApps \cap ThereApps = {} /\ MaxSteps \in Nat

NoClip == [NewClip EXCEPT !.pasteId = "no clip"]
NoEvent == [dataId |-> 0, isDelay |-> FALSE, dataType |-> {}, cells |-> <<>>]

VARIABLES
    clips,      \* clips_ of the service of each device
    later,      \* the values the entry getter of the stored clip gives
    event,      \* the event published with the encoded clip
    current,    \* currentEvent_ of the peer: the clip it has fetched
    version,    \* lowest version among the peers
    views,      \* the clip each application has pasted
    granted,    \* uris granted to applications
    syncing,    \* the clip SyncDelayedData still has to put back
    waiting,    \* clips as SaveData saved them, still to be published
    uses,       \* pastes, fetches and syncs so far
    copied,     \* every input copied, by the number of its clip
    unbuilt,    \* clips whose html an application was given with the pictures
                \* still out, or a device keeps without the html of its pictures, the
                \* pictures of its html or the permission of its uri
    mixed,      \* clips the peer has with values of another clip
    dropped     \* types of entries a sync found empty and took away, by clip

excuses == <<unbuilt, mixed, dropped>>
vars == <<clips, later, event, current, version, views, granted, syncing, waiting, uses, copied, excuses>>

StepsLeft == uses + Len(copied) < MaxSteps
Used == StepsLeft /\ uses' = uses + 1

OldForm == version \in {"VERSION_FOUR", "VERSION_FIVE"}
Send(c, old) == Decode(Encode(c, old).cells)

-----------------------------------------------------------------------------
\* Delayed entries.

Priority(utd) ==
    LET i == SelectInSeq(<<"general.plain-text", "general.hyperlink", "general.html", "general.file-uri",
                           "openharmony.pixel-map">>, LAMBDA x : x = utd)
    IN IF i = 0 THEN 255 ELSE i

IsEmpty(e) == e.value.kind = "none"

\* Delayed entries as <<record, entry>>, the ones asked for first in front.
Sorted(c, infos) ==
    LET key(p) == <<Priority(c.records[p[1]].entries[p[2]].utdId), c.records[p[1]].recordId>>
    IN SortedBy(infos, LAMBDA p, q : key(p)[1] < key(q)[1] \/ (key(p)[1] = key(q)[1] /\ key(p)[2] < key(q)[2]))

GetAllDelayEntryInfo(c) ==
    Sorted(c, UNION {{<<i, j>> : j \in {k \in DOMAIN c.records[i].entries : IsEmpty(c.records[i].entries[k])}} :
                     i \in {k \in DOMAIN c.records : c.records[k].isDelay}})

GetPrimaryDelayEntryInfo(c) ==
    Sorted(c, {<<i, 1>> : i \in {k \in DOMAIN c.records :
        c.records[k].isDelay /\ c.records[k].entries # <<>> /\ IsEmpty(c.records[k].entries[1])}})

\* The getter answers with the values the application has; size is what still
\* fits into the clip, an entry that does not fit stays empty.
Fill(c, infos, size) ==
    Reduce(LAMBDA x, k :
        LET i == infos[k][1]
            j == infos[k][2]
            key == <<x.records[i].recordId, x.records[i].entries[j].utdId>>
        IN IF key \in DOMAIN later /\ k <= size THEN [x EXCEPT !.records[i].entries[j].value = later[key]] ELSE x,
        c, [k \in DOMAIN infos |-> k])

HasGetter == later # <<>>

\* Copies of a clip share its entries: what before lacked and after has, x has as well.
Shared(x, before, after) ==
    IF x.dataId # before.dataId THEN x
    ELSE [x EXCEPT !.records = [i \in DOMAIN @ |-> [@[i] EXCEPT !.entries = [j \in DOMAIN @ |->
            IF /\ i \in DOMAIN before.records
               /\ \E e \in Range(before.records[i].entries) : e.utdId = @[j].utdId /\ IsEmpty(e) /\ IsEmpty(@[j])
            THEN CHOOSE e \in Range(after.records[i].entries) : e.utdId = @[j].utdId
            ELSE @[j]]]]]
Share(before, after, sync, waits) ==
    /\ syncing' = Shared(sync, before, after)
    /\ waiting' = {Shared(x, before, after) : x \in waits}

GetDelayPasteRecord(c, size) ==
    IF ~HasGetter \/ GetPrimaryDelayEntryInfo(c) = <<>> THEN c
    ELSE TakePicturesOut(Fill(c, GetPrimaryDelayEntryInfo(c), size))

GetFullDelayPasteData(c, size) ==
    IF ~HasGetter \/ GetAllDelayEntryInfo(c) = <<>> THEN c
    ELSE TakePicturesOut(Fill(c, GetAllDelayEntryInfo(c), size))

-----------------------------------------------------------------------------
\* Uris.

GetDfsUri(uri) == IF PathOf(uri) \in NoDfs THEN <<" ">> ELSE uri \o <<NetworkId, Here>>

OwnOrGranted(r, uri, bundle) == GetAuthority(uri) = bundle \/ r.hasGrantUriPermission

GenerateDistributedUri(c) ==
    [c EXCEPT !.records = [i \in DOMAIN @ |->
        [@[i] EXCEPT !.convertUri =
            LET r == c.records[i]
                uri == GetOriginUri(r)
            IN IF uri # Null /\ OwnOrGranted(r, uri, c.originAuthority) THEN GetDfsUri(uri) ELSE <<>>]]]

\* A converted uri that did not come from the peer is forgotten, unless the
\* copying application pastes its own clip.
OwnPaste(c, app) == ~c.props.isRemote /\ app = c.originAuthority
CheckUriPermission(c, app) ==
    IF OwnPaste(c, app) THEN c
    ELSE [c EXCEPT !.records = [i \in DOMAIN @ |->
            [@[i] EXCEPT !.convertUri = IF c.records[i].isConvertUriFromRemote THEN @ ELSE <<>>]]]

\* CheckRemoteFileDocsUriLimit.
TooManyDocs(uris) ==
    Len(uris) > MaxRemoteDocUris /\ \E u \in Range(uris) : StartsWith(u, {DocPrefix})

\* Mutant: the uri the record came with is granted, whatever it was converted to.
GrantOriginUris(c, app) ==
    LET wanted == {r \in Range(c.records) : /\ GetOriginUri(r) # Null
                                            /\ OwnOrGranted(r, GetOriginUri(r), c.originAuthority)
                                            /\ c.props.isRemote \/ r.uriPermission # "none"}
    IN IF OwnPaste(c, app) THEN {} ELSE {GetOriginUri(r) : r \in wanted}

UrisToGrant(c) ==
    LET uri(r) == IF r.isConvertUriFromRemote /\ r.convertUri # <<>> THEN r.convertUri
                  ELSE IF ~r.isConvertUriFromRemote THEN GetOriginUri(r) ELSE Null
        wanted == SelectSeq(c.records, LAMBDA r : /\ uri(r) # Null
                                                  /\ OwnOrGranted(r, uri(r), c.originAuthority)
                                                  /\ c.props.isRemote \/ r.uriPermission # "none"
                                                  /\ c.props.isRemote => Contains(uri(r), NetworkId))
    IN [i \in DOMAIN wanted |-> uri(wanted[i])]
GrantUris(c, app) ==
    IF OwnPaste(c, app) \/ (c.props.isRemote /\ TooManyDocs(UrisToGrant(c))) THEN {}
    ELSE Range(UrisToGrant(c))

-----------------------------------------------------------------------------
Init ==
    /\ clips = [d \in {Here, There} |-> NoClip]
    /\ later = <<>>
    /\ event = NoEvent
    /\ current = 0
    /\ version \in Versions
    /\ views = [a \in Apps |-> NoClip]
    /\ granted = {}
    /\ syncing = NoClip
    /\ waiting = {}
    /\ uses = 0
    /\ copied = <<>>
    /\ unbuilt = {} /\ mixed = {} /\ dropped = {}

\* SaveData of what arrived from the application.
Saved(c, app, id) ==
    LET owned == SetTokenId(c, app)
        info == [owned EXCEPT !.userId = 100, !.deviceId = Here, !.props.bundleName = app,
                              !.originAuthority = app, !.dataId = id,
                              !.records = [i \in DOMAIN @ |-> [@[i] EXCEPT !.dataId = id]]]
    IN TakePicturesOut(info)

Copy(input) ==
    LET sent == Send([input.clip EXCEPT !.isDelayRecord = input.later # <<>>], FALSE) IN
    /\ StepsLeft
    /\ clips' = [clips EXCEPT ![Here] = Saved(sent, input.by, Len(copied) + 1)]
    /\ waiting' = waiting \cup {clips'[Here]}
    /\ later' = input.later
    /\ copied' = Append(copied, input)
    /\ UNCHANGED <<event, current, version, views, granted, syncing, uses, excuses>>

\* Mutant: announces the types of the clip that is stored by now.
PublishTypesOfStored(c) ==
    LET needFull == c.isDelayRecord /\ version = "VERSION_FOUR"
    IN \E full \in {IF needFull THEN GetFullDelayPasteData(c, 9) ELSE c} :
          /\ event' = [dataId |-> c.dataId, isDelay |-> c.isDelayRecord /\ ~needFull,
                       dataType |-> MimeTypesOf(clips[Here]),
                       cells |-> Encode(GenerateDistributedUri(full), OldForm).cells]
          /\ waiting' = waiting \ {c}
          /\ UNCHANGED <<clips, later, current, version, views, granted, syncing, uses, copied, excuses>>

\* SetCurrentData, of the clip as it was saved: by now a newer one may be stored, and
\* the getter be that one's.  Which is published when is in DistributedSync.  Here and
\* below \E over a singleton names a value that several conjuncts use.
Publish(c) ==
    LET needFull == c.isDelayRecord /\ version = "VERSION_FOUR"
        asks == needFull /\ HasGetter /\ GetAllDelayEntryInfo(c) # <<>>
        stored == clips[Here].dataId = c.dataId
    IN \E full \in {IF needFull THEN GetFullDelayPasteData(c, 9) ELSE c} :
          /\ event' = [dataId |-> c.dataId, isDelay |-> c.isDelayRecord /\ ~needFull,
                       dataType |-> MimeTypesOf(c),
                       cells |-> Encode(GenerateDistributedUri(
                                            IF needFull THEN TakePicturesOut(full) ELSE full), OldForm).cells]
          /\ clips' = [clips EXCEPT ![Here] = IF asks /\ stored THEN full ELSE @]
          /\ Share(c, full, syncing, waiting \ {c})
          /\ mixed' = IF asks /\ ~stored THEN mixed \cup {c.dataId} ELSE mixed
          /\ UNCHANGED <<later, current, version, views, granted, uses, copied, unbuilt, dropped>>

\* What the application gets to see of the clip the service gives it.
Deliver(app, c) ==
    \E checked \in {CheckUriPermission(c, app)} :
        /\ views' = [views EXCEPT ![app] = PutPicturesBack(Send(checked, FALSE))]
        /\ granted' = granted \cup {<<app, u>> : u \in GrantUris(checked, app)}

SetLocalPasteFlag(c, app) ==
    [c EXCEPT !.isLocalPaste = ~c.props.isRemote /\ app = c.props.tokenId]

UpToDate(d) == d = Here \/ event.dataId = current

\* HasDataType: of the announced clip, or of the stored one.
\* For a type of an application's own the peer is asked for all its types.
IsBasicType(mime) == mime \in {"text/html", "text/plain", "text/uri", "pixelMap"}
HasDataType(d, mime) ==
    CASE UpToDate(d) -> mime \in MimeTypesOf(clips[d])
      [] mime \in event.dataType -> TRUE
      [] IsBasicType(mime) -> FALSE
      [] OTHER -> mime \in MimeTypesOf(Decode(event.cells))

\* HasUtdType: an announced clip is fetched first, and every record counts.
HasUtdType(d, utd) == HasUtdTypeIn(IF UpToDate(d) THEN clips[d] ELSE Decode(event.cells), utd)

\* GetLocalData: the clip is stored again with what was fetched for it.
LocalPaste(app, size) ==
    LET d == DeviceOf(app)
        c == clips[d]
    IN /\ Used
       /\ c # NoClip
       /\ UpToDate(d)
       /\ \E filled \in {IF c.isDelayRecord /\ d = Here THEN GetDelayPasteRecord(c, size) ELSE c} :
             LET named == [filled EXCEPT !.props.bundleName = app]
             IN /\ clips' = [clips EXCEPT ![d] = IF c.isDelayRecord THEN named ELSE c]
                /\ Deliver(app, SetLocalPasteFlag(named, app))
                /\ Share(c, filled, syncing, waiting)
       /\ UNCHANGED <<later, event, current, version, copied, excuses>>

\* GetDistributedDelayData: works on the stored clip itself.
DelayData(size, all) ==
    LET c == clips[Here]
        filled == IF all THEN GetFullDelayPasteData(c, size) ELSE GetDelayPasteRecord(c, size)
    IN GenerateDistributedUri(TakePicturesOut([filled EXCEPT !.props.bundleName = c.originAuthority]))

\* GetDistributedData: converted uris of records that have a uri come from the peer.
FromPeer(c) ==
    [c EXCEPT !.originAuthority = c.props.bundleName,
              !.props.isRemote = TRUE,
              !.records = [i \in DOMAIN @ |->
                  IF GetOriginUri(@[i]) = Null THEN [@[i] EXCEPT !.convertUri = <<>>]
                  ELSE [@[i] EXCEPT !.isConvertUriFromRemote = c.records[i].convertUri # <<>>]]]

RemotePaste(app, size, all) ==
    LET delay == event.isDelay /\ HasGetter IN
    /\ Used
    /\ app \in ThereApps
    /\ event.dataId # current
    /\ event.isDelay => clips[Here].dataId = event.dataId   \* or the peer answers with an error
    /\ current' = event.dataId
    /\ \E here \in {IF delay THEN DelayData(size, all) ELSE clips[Here]} :
       \E got \in {FromPeer(Decode(IF delay THEN Encode(here, OldForm).cells ELSE event.cells))} :
          /\ clips' = [clips EXCEPT ![There] = got, ![Here] = here]
          /\ Deliver(app, [got EXCEPT !.props.bundleName = app])
          /\ Share(clips[Here], here, syncing, waiting)
    /\ UNCHANGED <<later, event, version, copied, excuses>>

-----------------------------------------------------------------------------
\* Entries fetched one by one: GetRecordValueByType.

Filled(r, utd) == HasContent(GetEntry(r, utd), utd)

\* GetLocalEntryValue: the value of the entry, or what the getter gives, which
\* is kept if it fits.
HasLocalValue(r, utd) ==
    GetEntry(r, utd) # NewEntry /\ (Filled(r, utd) \/ <<r.recordId, utd>> \in DOMAIN later)
LocalValue(r, utd) ==
    IF Filled(r, utd) THEN GetEntry(r, utd).value ELSE later[<<r.recordId, utd>>]
KeepValue(c, i, utd, fits) ==
    IF Filled(c.records[i], utd) \/ ~fits THEN c
    ELSE [c EXCEPT !.records[i] = AddEntry(@, utd, EntryOf(utd, LocalValue(@, utd)))]

\* A clip of its own for one html value of clip c.
HtmlClip(c, record) ==
    SetTokenId([AddRecord(NewClip, record, TRUE) EXCEPT
                    !.originAuthority = c.originAuthority, !.props.isRemote = c.props.isRemote],
               c.props.tokenId)

\* PostProcessDelayHtmlEntry.
Rebuilt(value, c) ==
    WithContent(value, "htmlContent", GetPrimaryHtml(PutPicturesBack(c)))

\* Mutant: an entry is fetched from the stored clip whichever it is.
WantsAnyClip(app, id, utd) ==
    LET v == views[app]
        i == PositionOfId(v, id)
    IN /\ v # NoClip
       /\ i # 0
       /\ v.records[i].isDelay
       /\ GetEntry(v.records[i], utd) # NewEntry
       /\ ~Filled(v.records[i], utd)
       /\ PositionOfId(clips[DeviceOf(app)], id) # 0

\* What the application that fetches has in its hands.
Wants(app, id, utd) ==
    LET v == views[app]
        i == PositionOfId(v, id)
    IN /\ v # NoClip
       /\ i # 0
       /\ v.records[i].isDelay
       /\ GetEntry(v.records[i], utd) # NewEntry
       /\ ~Filled(v.records[i], utd)
       /\ v.records[i].dataId = clips[DeviceOf(app)].dataId
       /\ PositionOfId(clips[DeviceOf(app)], id) # 0

\* The loader puts the value into the entry of the clip the application holds.
Receives(app, id, utd, value) ==
    LET i == PositionOfId(views[app], id)
        j == SelectInSeq(views[app].records[i].entries, LAMBDA e : e.utdId = utd)
    IN views' = [views EXCEPT ![app].records[i].entries[j].value = value]

Grants(app, uris) == granted' = granted \cup {<<app, u>> : u \in uris}

\* Html that has not been taken apart is, and is given with the pictures put
\* back; html that has been is given as it is.
FetchHtml(app, id, value, c) ==
    LET html == ConvertToHtml(EntryOf("general.html", value)) IN
    IF SplitWebviewPasteData(c) = c
    THEN /\ Receives(app, id, "general.html", value)
         /\ unbuilt' = unbuilt \cup {<<app, c.dataId>>}
         /\ clips' = [clips EXCEPT ![DeviceOf(app)] = c]
         /\ UNCHANGED granted
    ELSE \E own \in {CheckUriPermission(
                TakePicturesOut(SetLocalPasteFlag(HtmlClip(c, NewHtmlRecord(html)), app)), app)} :
         /\ Receives(app, id, "general.html", Rebuilt(value, own))
         /\ clips' = [clips EXCEPT ![DeviceOf(app)] = TakePicturesOut(c)]
         /\ Grants(app, GrantUris(own, app))
         /\ UNCHANGED unbuilt

\* INVALID_URI_ERROR: the value has been kept all the same.
FetchUri(app, id, utd, value, c) ==
    IF (c.props.isRemote \/ app # c.props.tokenId) /\ ~IsValidUri(ConvertToUri(EntryOf(utd, value)), TRUE)
    THEN clips' = [clips EXCEPT ![DeviceOf(app)] = c] /\ UNCHANGED <<views, granted, unbuilt>>
    ELSE /\ Receives(app, id, utd, value)
         /\ clips' = [clips EXCEPT ![DeviceOf(app)] = CheckUriPermission(c, app)]
         /\ Grants(app, GrantUris(CheckUriPermission(c, app), app))
         /\ UNCHANGED unbuilt

FetchEntry(app, id, utd, fits) ==
    LET c == clips[DeviceOf(app)]
        i == PositionOfId(c, id)
        r == c.records[i]
        kept == KeepValue(c, i, utd, fits)
    IN /\ Used
       /\ Wants(app, id, utd)
       /\ ~c.props.isRemote \/ Filled(r, utd)
       /\ HasLocalValue(r, utd)
       /\ CASE utd = "general.html" -> FetchHtml(app, id, LocalValue(r, utd), kept)
            [] IsFileUri(utd) -> FetchUri(app, id, utd, LocalValue(r, utd), kept)
            [] OTHER -> /\ Receives(app, id, utd, LocalValue(r, utd))
                        /\ clips' = [clips EXCEPT ![DeviceOf(app)] = kept]
                        /\ UNCHANGED <<granted, unbuilt>>
       /\ UNCHANGED <<later, event, current, version, syncing, waiting, copied, mixed, dropped>>

-----------------------------------------------------------------------------
\* GetRemoteEntryValue: the clip came from the peer, and so does the entry.
\* The peer is asked about its latest event, which may be that of a newer clip.

SendEntry(e) == DecodeEntry(EncodeEntry(e))

\* ProcessDistributedDelayHtml: the clip that is sent for one html value.
DistributedHtml(c, value) ==
    LET html == ConvertToHtml(EntryOf("general.html", value))
        record == IF value.kind = "object"
                  THEN AddEntryByMimeType(NewRecord, "text/html", value) ELSE NewHtmlRecord(html)
        new == [HtmlClip(c, record) EXCEPT !.props.bundleName = c.props.bundleName]
    IN IF SplitWebviewPasteData(new) = new THEN new ELSE GenerateDistributedUri(TakePicturesOut(new))

\* ProcessRemoteDelayHtml: got is that clip as it arrives, c the clip here.
AddPictures(c, i, got) ==
    LET id == c.records[i].recordId
        extra == SelectSeq(got.records, IsExtra)
        marked == [k \in DOMAIN extra |-> [extra[k] EXCEPT
                      !.from = id, !.isConvertUriFromRemote = extra[k].convertUri # <<>>]]
    IN Reduce(LAMBDA x, r : AddRecord(x, r, TRUE),
                [c EXCEPT !.props.tag = "webview", !.records[i].from = id], marked)

\* ProcessRemoteDelayHtmlInner.
FetchRemoteHtmlInner(app, id, value, there, got, added) ==
    LET mine == SetTokenId([got EXCEPT !.originAuthority = there.originAuthority,
                                       !.props.isRemote = there.props.isRemote], there.props.tokenId)
    IN /\ Receives(app, id, "general.html", Rebuilt(value, SetLocalPasteFlag(mine, app)))
       /\ Grants(app, GrantUris(added, app))

FetchRemoteHtml(app, id, there, here, fits) ==
    \E got \in {Send(DistributedHtml(here, LocalValue(here.records[PositionOfId(here, id)], "general.html")), OldForm)} :
    LET i == PositionOfId(there, id)
        html == got.records[PositionOfId(got, 1)]
        value == GetEntry(html, "general.html").value
    IN \E kept \in {IF fits THEN [there EXCEPT !.records[i] = AddEntry(@, "general.html", EntryOf("general.html", value))]
                    ELSE there},
          split \in {IF SplitWebviewPasteData(here) = here THEN here ELSE TakePicturesOut(here)} :
       IF html.from = 0
       THEN /\ Receives(app, id, "general.html", value)
            /\ clips' = [clips EXCEPT ![Here] = split, ![There] = kept]
            /\ UNCHANGED <<granted, unbuilt>>
       ELSE \E added \in {CheckUriPermission(AddPictures(kept, i, got), app)} :
               /\ FetchRemoteHtmlInner(app, id, value, there, got, added)
               /\ clips' = [clips EXCEPT ![Here] = split, ![There] = added]
               /\ unbuilt' = IF fits THEN unbuilt ELSE unbuilt \cup {<<There, there.dataId>>}

\* ProcessDistributedDelayUri: the entry that is sent for one uri.
MaySendUri(c, id, uri) ==
    c.records[PositionOfId(c, id)].hasGrantUriPermission /\ PathOf(uri) \notin NoDfs
DistributedUri(utd, value) ==
    SendEntry(EntryOf(utd, WithContent(value, "oriUri", GetDfsUri(ConvertToUri(EntryOf(utd, value))))))

\* ProcessRemoteDelayUri; when the peer refuses, it has kept the value all the same.
FetchRemoteUri(app, id, utd, there, here, fits) ==
    LET local == LocalValue(here.records[PositionOfId(here, id)], utd)
        i == PositionOfId(there, id)
    IN \E checked \in {CheckAppUriPermission(here)}, e \in {DistributedUri(utd, local)} :
       \E converted \in {CheckUriPermission(
              [there EXCEPT !.records[i] = [(IF fits THEN AddEntry(@, utd, e) ELSE @) EXCEPT
                   !.convertUri = ConvertToUri(e), !.isConvertUriFromRemote = TRUE,
                   !.hasGrantUriPermission = TRUE]], app)} :
          /\ IF MaySendUri(checked, id, ConvertToUri(EntryOf(utd, local)))
             THEN /\ Receives(app, id, utd, e.value)
                  /\ clips' = [clips EXCEPT ![Here] = checked, ![There] = converted]
                  /\ Grants(app, GrantUris(converted, app))
             ELSE clips' = [clips EXCEPT ![Here] = checked] /\ UNCHANGED <<views, granted>>
          /\ UNCHANGED unbuilt

FetchRemoteEntry(app, id, utd, fits) ==
    LET there == clips[There]
        stored == clips[Here]
        i == PositionOfId(there, id)
    IN /\ Used
       /\ DeviceOf(app) = There
       /\ Wants(app, id, utd)
       /\ there.props.isRemote /\ ~Filled(there.records[i], utd)
       /\ stored.dataId = event.dataId
       /\ PositionOfId(stored, id) # 0
       /\ HasLocalValue(stored.records[PositionOfId(stored, id)], utd)
       /\ \E here \in {KeepValue(stored, PositionOfId(stored, id), utd, fits)} :
          CASE utd = "general.html" -> FetchRemoteHtml(app, id, there, here, fits)
            [] IsFileUri(utd) -> FetchRemoteUri(app, id, utd, there, here, fits)
            [] OTHER -> \E e \in {SendEntry(EntryOf(utd, LocalValue(stored.records[PositionOfId(stored, id)], utd)))} :
                        /\ Receives(app, id, utd, e.value)
                        /\ clips' = [clips EXCEPT ![Here] = here,
                               ![There] = IF fits THEN [@ EXCEPT !.records[i] = AddEntry(@, utd, e)] ELSE @]
                        /\ UNCHANGED <<granted, unbuilt>>
       /\ mixed' = IF there.dataId = event.dataId THEN mixed ELSE mixed \cup {there.dataId}
       /\ UNCHANGED <<later, event, current, version, syncing, waiting, copied, dropped>>

-----------------------------------------------------------------------------
\* SyncDelayedData: the copying application, before it goes away, has the
\* service fetch everything; a thread then drops what stayed empty.

SyncDelayedData(app, size) ==
    LET c == clips[Here] IN
    /\ Used
    /\ c # NoClip
    /\ app = c.props.tokenId
    /\ HasGetter /\ GetAllDelayEntryInfo(c) # <<>>   \* else nothing changes
    /\ syncing = NoClip                              \* one such thread at a time
    /\ \E full \in {GetFullDelayPasteData(c, size)} :
          clips' = [clips EXCEPT ![Here] = full] /\ Share(c, full, full, waiting)
    /\ UNCHANGED <<later, event, current, version, views, granted, copied, excuses>>

\* The thread puts back the clip as the sync left it.  The clip may have been replaced
\* meanwhile, or been given values that were fetched one by one, pictures taken out of
\* its html and permissions of its uris, which are in the stored clip only.
PutSynced ==
    LET put == RemoveEmptyEntries(syncing)
        stored == clips[Here]
        taken == UNION {Range(r.entries) : r \in Range(syncing.records)}
                 \ UNION {Range(r.entries) : r \in Range(put.records)}
        lost == \/ Len(stored.records) > Len(syncing.records)
                \/ \E i \in DOMAIN syncing.records :
                      stored.records[i].hasGrantUriPermission # syncing.records[i].hasGrantUriPermission
    IN /\ syncing # NoClip
       /\ syncing' = NoClip
       /\ IF stored.dataId = syncing.dataId
          THEN /\ clips' = [clips EXCEPT ![Here] = put]
               /\ dropped' = dropped \cup {<<put.dataId, e.mimeType>> : e \in taken}
               /\ unbuilt' = IF lost THEN unbuilt \cup ({Here, There} \X {put.dataId}) ELSE unbuilt
          ELSE UNCHANGED <<clips, dropped, unbuilt>>
       /\ UNCHANGED <<later, event, current, version, views, granted, waiting, uses, copied, mixed>>

-----------------------------------------------------------------------------
\* What applications may ask for one by one.
DelayedKeys == UNION {DOMAIN copied[id].later : id \in DOMAIN copied}

Next ==
    \/ \E session \in Sessions :
          /\ IsStrictPrefix(copied, session)
          /\ Copy(session[Len(copied) + 1])
    \/ \E c \in waiting : Publish(c)
    \/ \E app \in Apps, size \in Sizes : LocalPaste(app, size)
    \/ \E app \in ThereApps, size \in Sizes, all \in BOOLEAN : RemotePaste(app, size, all)
    \/ \E app \in Apps, key \in DelayedKeys, fits \in BOOLEAN : FetchEntry(app, key[1], key[2], fits)
    \/ \E app \in Apps, key \in DelayedKeys, fits \in BOOLEAN : FetchRemoteEntry(app, key[1], key[2], fits)
    \/ \E app \in HereApps, size \in Sizes : SyncDelayedData(app, size)
    \/ PutSynced

Spec == Init /\ [][Next]_vars

-----------------------------------------------------------------------------
\* What was copied, with the delayed entries filled in.
Original(o) ==
    [i \in DOMAIN o.clip.records |->
        Reduce(LAMBDA r, j :
            LET key == <<r.recordId, r.entries[j].utdId>>
            IN IF key \in DOMAIN o.later THEN [r EXCEPT !.entries[j].value = o.later[key]] ELSE r,
            o.clip.records[i], [j \in DOMAIN o.clip.records[i].entries |-> j])]

\* What becomes of a local picture or of a uri for application a.
PictureFor(u, a, o) ==
    CASE u \notin ExtractImgSrc({u}) -> u
      [] a # o.by /\ PathOf(u) \notin Readable -> <<>>
      [] PathOf(u) \in NoRealPath    -> WithAuthority(u, o.by) \o (IF DeviceOf(a) = Here THEN <<>> ELSE <<NetworkId, Here>>)
      [] DeviceOf(a) = Here          -> <<ImgLocal, PathOf(u)>>
      [] PathOf(u) \in NoDfs         -> <<" ">>
      [] OTHER                       -> <<ImgLocal, DistributedFiles, PathOf(u)>>

UriFor(u, a, o) ==
    CASE a = o.by \/ ~IsFile(u)     -> u
      [] GetAuthority(u) = "" \/ PathOf(u) \notin Readable -> <<>>
      [] DeviceOf(a) = Here          -> u
      [] PathOf(u) \in NoDfs         -> <<" ">>
      [] OTHER                       -> u \o <<NetworkId, Here>>

\* The text with every source replaced, written from left to right.
HtmlFor(html, a, o) ==
    Reduce(LAMBDA text, i :
        LET inside == \E s \in SplitHtmlWithImgLabel(html) : i > s.at /\ i <= s.at + Len(s.uri)
            here == {s \in SplitHtmlWithImgLabel(html) : s.at = i}
        IN text \o (IF inside THEN <<>> ELSE <<html[i]>>)
                \o (IF here = {} THEN <<>> ELSE PictureFor((CHOOSE s \in here : TRUE).uri, a, o)),
        <<>>, [i \in DOMAIN html |-> i])

\* A uri fetched later on the copying device is given unchecked, in the form made
\* for the peer if the peer was first, and to those who paste the clip then it
\* is emptied; the copying application is never given an emptied one.
LateForms(u, a, o) == {u, u \o <<NetworkId, Here>>} \cup (IF a = o.by THEN {} ELSE {<<>>})

\* A value that is delayed may still be missing.
Agrees(got, want, r) == got = want \/ (r.isDelay /\ got = Null)

SameRecord(g, w, a, o) ==
    /\ Agrees(GetPlainTextV0(g), GetPlainTextV0(w), w)
    /\ Agrees(GetPixelMapV0(g), GetPixelMapV0(w), w)
    /\ Agrees(GetWant(g), GetWant(w), w)
    /\ GetCustomData(g) = GetCustomData(w)
    /\ \/ GetHtmlTextV0(g) = Null /\ (w.isDelay \/ GetHtmlTextV0(w) = Null)
       \/ GetHtmlTextV0(g) = HtmlFor(GetHtmlTextV0(w), a, o)
       \/ <<a, g.dataId>> \in unbuilt
    /\ \/ GetUriV0(g) = Null /\ (w.isDelay \/ GetOriginUri(w) = Null)
       \/ GetUriV0(g) = UriFor(GetOriginUri(w), a, o)
       \/ w.isDelay /\ DeviceOf(a) = Here /\ GetUriV0(g) \in LateForms(GetOriginUri(w), a, o)

\* The values an application gets that asks for the first of a kind.
SamePrimaries(v, w, a, o) ==
    o.later = <<>> =>
        /\ GetPrimaryText(v) = GetPrimaryText(w)
        /\ GetPrimaryPixelMap(v) = GetPrimaryPixelMap(w)
        /\ GetPrimaryWant(v) = GetPrimaryWant(w)
        /\ GetPrimaryUri(v) = IF GetPrimaryUri(w) = Null THEN Null ELSE UriFor(GetPrimaryUri(w), a, o)

\* Whatever way a clip took (either form of the codec, the split and the merge
\* of its html, the conversion of its uris, delayed entries fetched with it,
\* one by one or by a sync) and whatever was copied meanwhile, an application
\* that pasted it holds the records that were copied, with the same texts,
\* images, wants and custom data, with every picture and uri replaced by the
\* one this reader can use or, when the copying application might not read the
\* file, emptied (PasteboardWebController, GenerateDistributedUri, DelayManager).
\* Excepted are html that was fetched after another reader had it taken apart,
\* clips with pictures of an html value that did not fit, clips that lost their
\* pictures or permissions to a sync's thread, on the copying device
\* the form of uris fetched later and, on the peer, clips with a value of
\* another clip: one fetched when that one had been published (GetRemoteEntryValue
\* asks about the latest event), or one SetCurrentData got from a newer getter.
PastedAsCopied ==
    \A a \in {x \in Apps : views[x] # NoClip} :
        LET v == views[a]
            o == copied[v.dataId]
            w == Original(o)
        IN \/ <<DeviceOf(a), v.dataId>> \in unbuilt
           \/ DeviceOf(a) = There /\ v.dataId \in mixed
           \/ /\ Len(v.records) = Len(w)
              /\ \A i \in DOMAIN w : SameRecord(v.records[i], w[i], a, o)
              /\ SamePrimaries(v, ClipOf(w), a, o)

\* The files an application finds in a clip: its uris and the pictures of its html.
FilesIn(v) ==
    LET uris == {GetUriV0(v.records[i]) : i \in DOMAIN v.records} \ {Null}
        htmls == {GetHtmlTextV0(v.records[i]) : i \in DOMAIN v.records} \ {Null}
    IN {u \in uris : IsFile(u)} \cup
       UNION {{s.uri : s \in {t \in SplitHtmlWithImgLabel(h) : Len(t.uri) > 1 /\ t.uri[1] = ImgLocal
                                                             /\ t.uri[Len(t.uri)] \in Pictures}} : h \in htmls}

\* An application can open every file that a pasted clip shows it: the file is
\* its own copy or a grant for the same path, on the same device, was given
\* (CheckUriPermission, GrantUriPermission).  Excepted are uris that this
\* device fetched later one by one, html that was given as it is, clips that
\* lost pictures or permissions as in PastedAsCopied, and remote
\* clips with document uris and, pictures included, more uris than the limit.
ReaderMayOpen ==
    \A a \in {x \in Apps : views[x] # NoClip} :
        LET v == views[a]
            mine == {g[2] : g \in {h \in granted : h[1] = a}}
            fetched == {GetUriV0(v.records[i]) : i \in {j \in DOMAIN v.records : v.records[j].isDelay}}
            sent == FromPeer(GenerateDistributedUri(Saved(ClipOf(Original(copied[v.dataId])), copied[v.dataId].by, v.dataId)))
        IN \A u \in FilesIn(v) :
            \/ a = copied[v.dataId].by
            \/ <<a, v.dataId>> \in unbuilt \/ <<DeviceOf(a), v.dataId>> \in unbuilt
            \/ DeviceOf(a) = Here /\ u \in fetched
            \/ \E g \in mine : /\ PathOf(g) = (IF Contains(u, NetworkId) \/ u[1] # ImgLocal THEN PathOf(u) ELSE u[Len(u)])
                              /\ Contains(g, NetworkId) <=> DeviceOf(a) = There
            \/ DeviceOf(a) = There /\ TooManyDocs(UrisToGrant(sent))

\* The length counted for a clip is never less than what is written, for either
\* form and in every state a stored clip goes through; a clip counted short could not
\* be sent at all (TLVWriteable::Encode with TLVCountable::Count).
EncodeFits ==
    \A d \in {Here, There} : Encode(clips[d], TRUE).ok /\ Encode(clips[d], FALSE).ok

\* What a service answers about the types of the clip a paste would get, the
\* one it has or the one a peer has announced, are the types of what was
\* copied: the records its pictures were taken out into do not show, and no
\* type is lost on the way (HasDataType, GetMimeTypes), except that of an entry
\* the thread of a sync found empty.  That is an entry which had no value when
\* the sync asked for it, even if an application was given it since: the thread
\* puts the clip back as the sync left it.
TypesAsCopied ==
    \A d \in {Here, There} :
        LET id == IF UpToDate(d) THEN clips[d].dataId ELSE event.dataId IN
        id # 0 => \A mime \in {"text/plain", "text/html", "text/uri", "text/want", "pixelMap", "app/own"} :
            /\ HasDataType(d, mime) => HasMimeType(copied[id].clip, mime)
            /\ HasMimeType(copied[id].clip, mime) =>
                  \/ HasDataType(d, mime) /\ HasUtdType(d, Convert2UtdId(UdButt, mime))
                  \/ <<id, mime>> \in dropped

=============================================================================
