----------------------------- MODULE PasteRecord -----------------------------
(***************************************************************************)
(* Records and entries of a clip (PasteDataRecord, PasteDataEntry) as pure *)
(* operators.  Types and keys are names.  A text is a sequence of symbols, *)
(* and so are the bytes of custom data, an image and a want.  An           *)
(* EntryValue is its kind with what it holds: [self |-> x], or the fields  *)
(* of an object.                                                           *)
(***************************************************************************)
EXTENDS Integers, Sequences, FiniteSets, SequencesExt

-----------------------------------------------------------------------------
\* Folds and orders of one step per element, for texts of many symbols.  A
\* singleton set binds the result of a step, so that it is evaluated once.

The(set) == CHOOSE x \in set : TRUE

Reduce(op(_, _), base, seq) ==
    LET Over(s) == LET to[i \in 0 .. Len(s)] ==
                           IF i = 0 THEN base ELSE The({op(x, s[i]) : x \in {to[i - 1]}})
                   IN to[Len(s)]
    IN The({Over(s) : s \in {seq}})

SortedBy(set, Before(_, _)) ==
    LET from[rest \in SUBSET set] ==
            IF rest = {} THEN <<>>
            ELSE The({<<first>> \o from[rest \ {first}] :
                      first \in {CHOOSE x \in rest : \A y \in rest \ {x} : Before(x, y)}})
    IN The({from[s] : s \in {set}})

Listed(set) == SortedBy(set, LAMBDA x, y : TRUE)

-----------------------------------------------------------------------------
Null == <<"null">>                                \* nullptr to a text
NullMap == [k \in {Null} |-> Null]               \* nullptr to a map
NullValue == [kind |-> "null", at |-> NullMap]    \* nullptr to an EntryValue

TextValue(x) == [kind |-> "text", at |-> [self |-> x]]
NoContent == [kind |-> "none", at |-> [self |-> <<>>]]   \* std::monostate

\* The field of an object, empty when it has none of that name.
Field(v, name) == IF name \in DOMAIN v.at THEN v.at[name] ELSE <<>>

-----------------------------------------------------------------------------
\* Types.

FileUtds == {"general.file-uri", "general.file"}
IsFileUri(utd) == utd \in FileUtds

Convert2MimeType(utd) ==
    CASE utd \in {"general.plain-text", "general.hyperlink"} -> "text/plain"
      [] utd = "general.html" -> "text/html"
      [] IsFileUri(utd)       -> "text/uri"
      [] utd = "openharmony.pixel-map" -> "pixelMap"
      [] utd = "openharmony.want"      -> "text/want"
      [] OTHER -> utd

Convert2UtdId(udType, mime) ==
    CASE mime = "text/plain" -> IF udType = "general.hyperlink" THEN udType ELSE "general.plain-text"
      [] mime = "text/uri"  -> "general.file-uri"
      [] mime = "text/html" -> "general.html"
      [] mime = "text/want" -> "openharmony.want"
      [] mime = "pixelMap"  -> "openharmony.pixel-map"
      [] OTHER -> mime

\* GetUtdEnumFromUtdId of the type library: applications' own types have no number.
UdButt == "UD_BUTT"
UdTypeOf(utd) == IF utd = Convert2MimeType(utd) THEN UdButt ELSE utd

-----------------------------------------------------------------------------
\* Entries.

NewEntry == [utdId |-> "", mimeType |-> "", value |-> NoContent]
EntryOf(utd, value) == [utdId |-> utd, mimeType |-> Convert2MimeType(utd), value |-> value]

ConvertToPlainText(e) ==
    CASE e.value.kind = "text"   -> e.value.at.self
      [] e.value.kind = "object" ->
            CASE e.utdId = "general.plain-text" -> Field(e.value, "textContent")
              [] e.utdId = "general.html"       -> Field(e.value, "plainContent")
              [] OTHER                          -> Field(e.value, "url")
      [] OTHER -> Null

ConvertToHtml(e) ==
    CASE e.utdId # "general.html" -> Null
      [] e.value.kind = "text"    -> e.value.at.self
      [] e.value.kind = "object"  -> Field(e.value, "htmlContent")
      [] OTHER -> Null

ConvertToUri(e) ==
    CASE ~IsFileUri(e.utdId)     -> Null
      [] e.value.kind = "text"   -> e.value.at.self
      [] e.value.kind = "object" -> Field(e.value, "oriUri")
      [] OTHER -> Null

ConvertToWant(e) ==
    IF e.utdId = "openharmony.want" /\ e.value.kind = "want" THEN e.value.at.self ELSE Null

ConvertToPixelMap(e) ==
    CASE e.utdId # "openharmony.pixel-map" -> Null
      [] e.value.kind = "pixel"  -> e.value.at.self
      [] e.value.kind = "object" /\ Field(e.value, "uniformDataType") = <<"openharmony.pixel-map">>
            /\ "pixelMap" \in DOMAIN e.value.at -> e.value.at["pixelMap"]
      [] OTHER -> Null

\* The custom data of an entry: its key and its bytes.
NoCustomData == [key |-> <<>>, bytes |-> Null]
ConvertToCustomData(e) ==
    CASE e.value.kind = "bytes"  -> [key |-> <<e.mimeType>>, bytes |-> e.value.at.self]
      [] e.value.kind = "object" /\ "uniformDataType" \in DOMAIN e.value.at
            /\ "arrayBuffer" \in DOMAIN e.value.at -> [key |-> <<e.utdId>>, bytes |-> e.value.at["arrayBuffer"]]
      [] OTHER -> NoCustomData

HasContentByMimeType(e, mime) ==
    CASE mime = "pixelMap"   -> ConvertToPixelMap(e) # Null
      [] mime = "text/html"  -> ConvertToHtml(e) \notin {Null, <<>>}
      [] mime = "text/plain" -> ConvertToPlainText(e) \notin {Null, <<>>}
      [] mime = "text/uri"   -> ConvertToUri(e) \notin {Null, <<>>}
      [] mime = "text/want"  -> ConvertToWant(e) # Null
      [] OTHER -> ConvertToCustomData(e) # NoCustomData

HasContent(e, utd) == HasContentByMimeType(e, Convert2MimeType(utd))

-----------------------------------------------------------------------------
\* Records.

NewRecord ==
    [mimeType |-> "", htmlText |-> Null, want |-> Null, plainText |-> Null, uri |-> Null,
     convertUri |-> <<>>, pixelMap |-> Null, customData |-> NullMap, udType |-> UdButt,
     udmfValue |-> NullValue, entries |-> <<>>, dataId |-> 0, recordId |-> 0,
     isDelay |-> FALSE, from |-> 0, hasGrantUriPermission |-> FALSE,
     uriPermission |-> "none", isConvertUriFromRemote |-> FALSE]

GetMimeType(r) ==
    IF r.mimeType = "" /\ r.entries # <<>> THEN r.entries[1].mimeType ELSE r.mimeType

\* An entry of the same type, or of the other file type, is replaced.
AddEntry(r, utd, e) ==
    LET same == {i \in DOMAIN r.entries :
                    \/ r.entries[i].utdId = utd
                    \/ r.entries[i].mimeType = "text/uri" /\ e.mimeType = "text/uri"}
    IN CASE utd # e.utdId -> r
         [] same # {}     -> [r EXCEPT !.entries[CHOOSE i \in same : \A j \in same : i <= j] = e]
         [] OTHER -> [r EXCEPT !.entries = Append(@, e),
                               !.udType = IF r.entries # <<>> THEN @
                                          ELSE IF UdTypeOf(utd) = UdButt THEN "APPLICATION_DEFINED_RECORD"
                                          ELSE UdTypeOf(utd)]

AddEntryByMimeType(r, mime, value) ==
    LET utd == Convert2UtdId(UdButt, mime)
    IN AddEntry(r, utd, [utdId |-> utd, mimeType |-> mime, value |-> value])

\* Builder: the entry of the record's own type comes first.
Build(r) ==
    LET first == SelectSeq(r.entries, LAMBDA e : e.mimeType = r.mimeType)
        rest == SelectSeq(r.entries, LAMBDA e : e.mimeType # r.mimeType)
        built == Reduce(LAMBDA x, e : AddEntry(x, e.utdId, e), NewRecord, first \o rest)
    IN IF r.mimeType = "" THEN r
       ELSE [built EXCEPT !.customData = r.customData, !.mimeType = r.mimeType]

BuildOne(mime, value) ==
    Build(AddEntryByMimeType([NewRecord EXCEPT !.mimeType = mime], mime, value))

NewHtmlRecord(x) == BuildOne("text/html", TextValue(x))
NewWantRecord(x) == BuildOne("text/want", [kind |-> "want", at |-> [self |-> x]])
NewPlainTextRecord(x) == BuildOne("text/plain", TextValue(x))
NewPixelMapRecord(x) == BuildOne("pixelMap", [kind |-> "pixel", at |-> [self |-> x]])
NewUriRecord(x) == BuildOne("text/uri", TextValue(x))
NewKvRecord(mime, x) ==
    Build([NewRecord EXCEPT !.mimeType = mime, !.customData = [k \in {<<mime>>} |-> x]])

\* values: a function from mime types; mime: the record's own, "" for none.
NewMultiTypeRecord(values, mime) ==
    LET own == IF mime \in DOMAIN values THEN <<mime>> ELSE <<>>
        order == own \o Listed(DOMAIN values \ {mime})
        r == Reduce(LAMBDA x, m : LET utd == Convert2UtdId(UdButt, m)
                                    IN AddEntry(x, utd, EntryOf(utd, values[m])),
                      NewRecord, order)
    IN [r EXCEPT !.mimeType = mime]

NewMultiTypeDelayRecord(mimes) ==
    LET r == Reduce(LAMBDA x, m : AddEntryByMimeType(x, m, NoContent), NewRecord, mimes)
    IN [r EXCEPT !.isDelay = TRUE]

\* The first entry of a mime type, and what it converts to.
Convert(r, mime, legacy, To(_)) ==
    LET found == SelectSeq(r.entries, LAMBDA e : e.mimeType = mime)
    IN IF found = <<>> THEN legacy ELSE To(found[1])

GetHtmlTextV0(r) == Convert(r, "text/html", r.htmlText, ConvertToHtml)
GetPlainTextV0(r) == Convert(r, "text/plain", r.plainText, ConvertToPlainText)
GetPixelMapV0(r) == Convert(r, "pixelMap", r.pixelMap, ConvertToPixelMap)
GetOriginUri(r) == Convert(r, "text/uri", r.uri, ConvertToUri)
GetUriV0(r) == IF r.convertUri = <<>> THEN GetOriginUri(r) ELSE r.convertUri
GetWant(r) == Convert(r, "text/want", r.want, ConvertToWant)

GetMimeTypes(r) ==
    {r.entries[i].mimeType : i \in DOMAIN r.entries} \cup ({r.mimeType} \ {""})
GetUtdTypes(r) ==
    {r.entries[i].utdId : i \in DOMAIN r.entries}
    \cup (IF r.mimeType = "" THEN {} ELSE {Convert2UtdId(r.udType, r.mimeType)})

\* Custom data of the record and of its entries of applications' own types.
GetCustomData(r) ==
    (IF r.customData = NullMap THEN {} ELSE {<<k, r.customData[k]>> : k \in DOMAIN r.customData})
    \cup {<<ConvertToCustomData(r.entries[i]).key, ConvertToCustomData(r.entries[i]).bytes>> :
            i \in {j \in DOMAIN r.entries : /\ r.entries[j].mimeType = r.entries[j].utdId
                                            /\ ConvertToCustomData(r.entries[j]) # NoCustomData}}

\* The content of an entry with one field of it replaced.
WithContent(value, field, x) ==
    CASE value.kind = "text"   -> TextValue(x)
      [] value.kind = "object" -> [value EXCEPT !.at = [k \in DOMAIN @ \cup {field} |->
                                                           IF k = field THEN x ELSE @[k]]]
      [] OTHER -> value

SetUri(r, x) ==
    LET uris == {i \in DOMAIN r.entries : r.entries[i].mimeType = "text/uri"}
        i == CHOOSE j \in uris : \A k \in uris : j <= k
    IN IF uris = {} THEN AddEntryByMimeType(r, "text/uri", TextValue(x))
       ELSE [r EXCEPT !.entries[i].value =
                IF @.kind = "object" THEN WithContent(@, "oriUri", x) ELSE TextValue(x)]

\* The entry of a type as the holder of a record sees it: a file entry shows
\* the uri the record was converted to.  NewEntry when there is none.
GetEntry(r, utd) ==
    LET i == SelectInSeq(r.entries, LAMBDA e : e.utdId = utd \/ (IsFileUri(utd) /\ IsFileUri(e.utdId)))
    IN CASE i = 0 -> NewEntry
         [] i # 0 /\ IsFileUri(utd) /\ GetUriV0(r) # Null -> EntryOf(utd, TextValue(GetUriV0(r)))
         [] OTHER -> r.entries[i]

RemoveEmptyEntry(r) ==
    [r EXCEPT !.entries = SelectSeq(@, LAMBDA e : e.value.kind # "none")]

-----------------------------------------------------------------------------
\* The form that peers of older versions read: the first entry is spread over
\* the fields of the record, the others follow as entries.

Local2Remote(r) ==
    LET e == r.entries[1]
        base == [r EXCEPT !.htmlText = Null, !.want = Null, !.plainText = Null, !.uri = Null,
                          !.pixelMap = Null, !.udType = UdButt, !.udmfValue = NoContent]
        object == e.mimeType = "text/html" /\ e.value.kind = "object"
    IN IF r.entries = <<>> THEN base
       ELSE [base EXCEPT
               !.mimeType = e.mimeType,
               !.udType = UdTypeOf(e.utdId),
               !.plainText = CASE e.mimeType = "text/plain" -> ConvertToPlainText(e)
                               [] object /\ Field(e.value, "plainContent") # <<>> -> Field(e.value, "plainContent")
                               [] OTHER -> Null,
               !.want = IF e.mimeType = "text/want" THEN ConvertToWant(e) ELSE Null,
               !.uri = IF e.mimeType = "text/uri" THEN ConvertToUri(e) ELSE Null,
               !.pixelMap = IF e.mimeType = "pixelMap" THEN ConvertToPixelMap(e) ELSE Null,
               !.htmlText = IF e.mimeType = "text/html" THEN ConvertToHtml(e) ELSE Null,
               !.udmfValue = e.value,
               !.entries = Tail(@)]

\* The entry that the fields stand for, as a sequence of none or one.
Remote2Local(r) ==
    LET entry(value) == <<[utdId |-> Convert2UtdId(r.udType, r.mimeType),
                           mimeType |-> r.mimeType, value |-> value]>>
        object(fields) == [kind |-> "object", at |-> fields]
        html == [uniformDataType |-> <<"general.html">>, htmlContent |-> r.htmlText]
    IN CASE r.mimeType = "" -> <<>>
         [] r.udmfValue.kind \in {"object", "bytes"} -> entry(r.udmfValue)
         [] r.mimeType = "text/plain" /\ r.plainText # Null ->
               entry(object([uniformDataType |-> <<"general.plain-text">>, textContent |-> r.plainText]))
         [] r.mimeType = "text/html" /\ r.htmlText # Null ->
               entry(object(IF r.plainText = Null THEN html
                            ELSE [k \in DOMAIN html \cup {"plainContent"} |->
                                     IF k = "plainContent" THEN r.plainText ELSE html[k]]))
         [] r.mimeType = "text/uri" /\ r.uri # Null ->
               entry(object([uniformDataType |-> <<"general.file-uri">>, oriUri |-> r.uri]))
         [] r.mimeType = "pixelMap" /\ r.pixelMap # Null ->
               entry(object([uniformDataType |-> <<"openharmony.pixel-map">>, pixelMap |-> r.pixelMap]))
         [] r.mimeType = "text/want" /\ r.want # Null ->
               entry([kind |-> "want", at |-> [self |-> r.want]])
         [] OTHER -> <<>>

\* What DecodeTLV makes of the fields it has read.
Decoded(r) ==
    LET d == [r EXCEPT !.entries = Remote2Local(r) \o @, !.udmfValue = NullValue,
                       !.plainText = Null, !.htmlText = Null, !.uri = Null,
                       !.pixelMap = Null, !.want = Null]
    IN [d EXCEPT !.mimeType = GetMimeType(d)]
=============================================================================
