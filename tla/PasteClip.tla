------------------------------ MODULE PasteClip ------------------------------
(***************************************************************************)
(* A clip (PasteData with its PasteDataProperty) as pure operators.  The   *)
(* additions keep the one parameter the service itself puts there.         *)
(***************************************************************************)
EXTENDS PasteRecord

NoToken == ""

NewProps ==
    [additions |-> [originTokenId |-> NoToken], mimeTypes |-> <<>>, tag |-> "",
     localOnly |-> FALSE, shareOption |-> "CrossDevice", tokenId |-> NoToken,
     isRemote |-> FALSE, bundleName |-> "", screenStatus |-> "default"]

NewClip ==
    [props |-> NewProps, records |-> <<>>, isDraggedData |-> FALSE, isLocalPaste |-> FALSE,
     isDelayData |-> FALSE, deviceId |-> "", pasteId |-> "", isDelayRecord |-> FALSE,
     dataId |-> 0, recordId |-> 0, userId |-> -1, originAuthority |-> ""]

\* Records given at once are numbered in their order.
ClipOf(records) ==
    [NewClip EXCEPT !.records = [i \in DOMAIN records |-> [records[i] EXCEPT !.recordId = i]],
                    !.recordId = Len(records)]

RefreshMimeProp(c) ==
    [c EXCEPT !.props.mimeTypes = [i \in DOMAIN c.records |-> GetMimeType(c.records[i])]]

\* The service appends a record, an application puts it first; the number is
\* the next one of the clip either way.
AddRecord(c, r, inService) ==
    LET new == [r EXCEPT !.recordId = c.recordId + 1]
        Put(list, x) == IF inService THEN Append(list, x) ELSE <<x>> \o list
    IN [c EXCEPT !.recordId = @ + 1,
                 !.props.mimeTypes = Put(@, GetMimeType(r)),
                 !.records = Put(@, new)]

AddHtmlRecord(c, x) == AddRecord(c, NewHtmlRecord(x), FALSE)
AddPixelMapRecord(c, x) == AddRecord(c, NewPixelMapRecord(x), FALSE)
AddWantRecord(c, x) == AddRecord(c, NewWantRecord(x), FALSE)
AddTextRecord(c, x) == AddRecord(c, NewPlainTextRecord(x), FALSE)
AddUriRecord(c, x) == AddRecord(c, NewUriRecord(x), FALSE)
AddKvRecord(c, mime, x) == AddRecord(c, NewKvRecord(mime, x), FALSE)

\* Positions count from 1 here and from 0 in the code.
RemoveRecordAt(c, i) ==
    IF i \in DOMAIN c.records THEN RefreshMimeProp([c EXCEPT !.records = RemoveAt(@, i)]) ELSE c

RemoveEmptyEntries(c) ==
    RefreshMimeProp([c EXCEPT !.records = [i \in DOMAIN @ |-> RemoveEmptyEntry(@[i])]])

\* The position of the first record with a number, 0 for none.
PositionOfId(c, id) == SelectInSeq(c.records, LAMBDA r : r.recordId = id)

\* The records the user sees: those a webview's html was split into are hidden.
Shown(c) == SelectSeq(c.records, LAMBDA r : r.from = 0 \/ r.recordId = r.from)

MimeTypesOf(c) == UNION {GetMimeTypes(Shown(c)[i]) : i \in DOMAIN Shown(c)}
HasMimeType(c, mime) == \E i \in DOMAIN c.records : mime \in GetMimeTypes(c.records[i])
HasUtdTypeIn(c, utd) == \E i \in DOMAIN c.records : utd \in GetUtdTypes(c.records[i])

\* The first record that has a value of the kind asked for.
Primary(c, Get(_)) ==
    LET having == SelectSeq(c.records, LAMBDA r : Get(r) # Null)
    IN IF having = <<>> THEN Null ELSE Get(having[1])

GetPrimaryHtml(c) == Primary(c, GetHtmlTextV0)
GetPrimaryText(c) == Primary(c, GetPlainTextV0)
GetPrimaryUri(c) == Primary(c, GetUriV0)
GetPrimaryPixelMap(c) == Primary(c, GetPixelMapV0)
GetPrimaryWant(c) == Primary(c, GetWant)

\* The token of the copying application is kept twice: as the clip's owner and
\* among the additions.  A token is a name here.
SetTokenId(c, token) ==
    [c EXCEPT !.props.tokenId = token, !.props.additions.originTokenId = token]
=============================================================================
