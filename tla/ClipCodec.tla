------------------------------ MODULE ClipCodec ------------------------------
(***************************************************************************)
(* The tag-length-value codec of src/framework/tlv and the classes that    *)
(* are sent with it.  A buffer is a sequence of cells: a TLVHead takes one *)
(* cell, a number, a name and a symbol of a text one each, an empty name   *)
(* or text none.  Lengths are counted in cells.                            *)
(*                                                                         *)
(* A field is tagged with its name and has one of the types that the       *)
(* overloads of Write, ReadValue and Count tell apart:                     *)
(*   basic  bool, integers, params    name   std::string that is a name    *)
(*   text   other std::string         names  vector<string>                *)
(*   ptext  shared_ptr<string>        raw    RawMem of a parcelable        *)
(*   pixel  shared_ptr<PixelMap>      map    MineCustomData, may be null   *)
(*   value  EntryValue, a variant     pvalue shared_ptr<EntryValue>        *)
(* Vectors of entries and records and the properties are written by the    *)
(* class that holds them.                                                  *)
(***************************************************************************)
EXTENDS PasteClip

-----------------------------------------------------------------------------
\* What the classes write, read and count.

EntryTypes == [utdId |-> "name", mimeType |-> "name", value |-> "value"]
EntryWrites == <<"utdId", "mimeType", "value">>
EntryReads == {"utdId", "mimeType", "value"}
EntryCounts == <<"utdId", "mimeType", "value">>

RecordTypes ==
    [mimeType |-> "name", htmlText |-> "ptext", want |-> "raw", plainText |-> "ptext",
     uri |-> "raw", convertUri |-> "text", pixelMap |-> "pixel", customData |-> "map",
     udType |-> "basic", udmfValue |-> "pvalue", entries |-> "entries",
     dataId |-> "basic", recordId |-> "basic", isDelay |-> "basic", from |-> "basic",
     hasGrantUriPermission |-> "basic"]

RecordWrites ==
    <<"mimeType", "htmlText", "want", "plainText", "uri", "convertUri", "pixelMap",
      "customData", "hasGrantUriPermission", "udType", "udmfValue", "entries", "dataId", "recordId",
      "isDelay", "from">>

RemoteRecordWrites ==
    <<"mimeType", "udType", "htmlText", "plainText", "pixelMap", "want", "uri",
      "udmfValue", "entries", "convertUri", "customData", "hasGrantUriPermission", "dataId", "recordId",
      "isDelay", "from">>

RecordReads ==
    {"mimeType", "htmlText", "want", "plainText", "uri", "convertUri", "pixelMap",
     "customData", "hasGrantUriPermission", "udType", "udmfValue", "entries", "dataId", "recordId",
     "isDelay", "from"}

RecordCounts ==
    <<"mimeType", "htmlText", "want", "plainText", "uri", "convertUri", "pixelMap",
      "customData", "hasGrantUriPermission", "udType", "udmfValue", "entries", "dataId", "recordId",
      "isDelay", "from">>

\* Mutant: the converted uri is written and not counted.
RemoteRecordCountsShort ==
    <<"mimeType", "udType", "htmlText", "plainText", "pixelMap", "want", "uri",
      "udmfValue", "entries", "customData", "hasGrantUriPermission", "dataId", "recordId",
      "isDelay", "from">>

RemoteRecordCounts ==
    <<"mimeType", "udType", "htmlText", "plainText", "pixelMap", "want", "uri",
      "udmfValue", "entries", "convertUri", "customData", "hasGrantUriPermission", "dataId", "recordId",
      "isDelay", "from">>

PropertyTypes ==
    [additions |-> "basic", mimeTypes |-> "names", tag |-> "name", localOnly |-> "basic",
     shareOption |-> "basic", tokenId |-> "basic", isRemote |-> "basic",
     bundleName |-> "name", screenStatus |-> "basic"]

PropertyWrites ==
    <<"additions", "mimeTypes", "tag", "localOnly", "shareOption", "tokenId",
      "isRemote", "bundleName", "screenStatus">>

PropertyReads ==
    {"additions", "mimeTypes", "tag", "localOnly", "shareOption", "tokenId",
     "isRemote", "bundleName", "screenStatus"}

PropertyCounts ==
    <<"additions", "mimeTypes", "tag", "localOnly", "shareOption", "tokenId",
      "isRemote", "bundleName", "screenStatus">>

ClipTypes ==
    [props |-> "props", records |-> "records", isDraggedData |-> "basic",
     isLocalPaste |-> "basic", isDelayData |-> "basic", deviceId |-> "name", pasteId |-> "name", isDelayRecord |-> "basic",
     dataId |-> "basic", recordId |-> "basic", userId |-> "basic"]

ClipWrites ==
    <<"props", "records", "isDraggedData", "isLocalPaste", "isDelayData", "deviceId",
      "pasteId", "isDelayRecord", "dataId", "recordId", "userId">>

ClipReads ==
    {"props", "records", "isDraggedData", "isLocalPaste", "isDelayData", "deviceId",
     "pasteId", "isDelayRecord", "dataId", "recordId", "userId"}

ClipCounts ==
    <<"props", "records", "isDraggedData", "isLocalPaste", "isDelayData", "deviceId",
      "pasteId", "isDelayRecord", "dataId", "recordId", "userId">>

-----------------------------------------------------------------------------
\* Writing.

Cell(x) == [tag |-> "", len |-> 0, raw |-> x]
NameCells(name) == IF name = "" THEN <<>> ELSE <<Cell(name)>>
Cells(text) == IF text = Null THEN <<>> ELSE [i \in DOMAIN text |-> Cell(text[i])]

WriteHead(tag, body) == <<[tag |-> tag, len |-> Len(body), raw |-> 0]>> \o body
WriteBasic(tag, x) == WriteHead(tag, <<Cell(x)>>)
WriteName(tag, x) == WriteHead(tag, NameCells(x))
WriteText(tag, x) == WriteHead(tag, Cells(x))
WritePointer(tag, x) == IF x = Null THEN <<>> ELSE WriteText(tag, x)
WriteVector(tag, items) ==
    WriteHead(tag, FlattenSeq([i \in DOMAIN items |-> WriteHead("item", items[i])]))

WriteMap(tag, map) ==
    WriteHead(tag, FlattenSeq([i \in 1 .. Cardinality(DOMAIN map) |->
        LET key == Listed(DOMAIN map)[i]
        IN WriteText("key", key) \o WriteText("mapped", map[key])]))

\* An object maps names to values that are variants in their turn.
WriteObject(tag, map) ==
    WriteHead(tag, FlattenSeq([i \in 1 .. Cardinality(DOMAIN map) |->
        LET key == Listed(DOMAIN map)[i]
        IN WriteName("key", key)
           \o WriteHead("mapped", WriteBasic("index", "text") \o WriteText("alternative", map[key]))]))

WriteAlternative(v) ==
    CASE v.kind = "none"   -> WriteHead("", <<>>)
      [] v.kind = "object" -> WriteObject("alternative", v.at)
      [] OTHER             -> WriteText("alternative", v.at.self)

WriteVariant(tag, v) == WriteHead(tag, WriteBasic("index", v.kind) \o WriteAlternative(v))

Write(type, tag, x) ==
    CASE type = "basic"              -> WriteBasic(tag, x)
      [] type = "name"               -> WriteName(tag, x)
      [] type \in {"text", "raw"}    -> WriteText(tag, x)
      [] type \in {"ptext", "pixel"} -> WritePointer(tag, x)
      [] type = "names"  -> WriteVector(tag, [i \in DOMAIN x |-> NameCells(x[i])])
      [] type = "map"    -> IF x = NullMap THEN <<>> ELSE WriteHead(tag, WriteMap("itemData", x))
      [] type = "value"  -> WriteVariant(tag, x)
      [] type = "pvalue" -> IF x = NullValue THEN <<>> ELSE WriteVariant(tag, x)

EncodeFields(writes, types, x) ==
    FlattenSeq([i \in DOMAIN writes |-> Write(types[writes[i]], writes[i], x[writes[i]])])

EncodeEntry(e) == EncodeFields(EntryWrites, EntryTypes, e)

\* What EncodeTLVRemote sends: the first entry spread over the fields older peers know.
OnWire(r, remote) == IF remote THEN Local2Remote(r) ELSE r

EncodeRecord(r, remote) ==
    LET writes == IF remote THEN RemoteRecordWrites ELSE RecordWrites
        Of(x) ==
            FlattenSeq([i \in DOMAIN writes |->
                IF writes[i] = "entries"
                THEN WriteVector("entries", [j \in DOMAIN x.entries |-> EncodeEntry(x.entries[j])])
                ELSE Write(RecordTypes[writes[i]], writes[i], x[writes[i]])])
    IN The({Of(x) : x \in {OnWire(r, remote)}})

EncodeClip(c, remote) ==
    FlattenSeq([i \in DOMAIN ClipWrites |->
        LET f == ClipWrites[i] IN
        CASE f = "props"   -> WriteHead(f, EncodeFields(PropertyWrites, PropertyTypes, c.props))
          [] f = "records" -> WriteVector(f, [j \in DOMAIN c.records |-> EncodeRecord(c.records[j], remote)])
          [] OTHER         -> Write(ClipTypes[f], f, c[f])])

-----------------------------------------------------------------------------
\* Counting.  Want and PixelMap alternatives are counted with one head too many.

CountBasic == 2
CountName(x) == 1 + Len(NameCells(x))
CountText(x) == 1 + Len(Cells(x))
CountParcel(x) == IF x = Null THEN 0 ELSE 1 + CountText(x)

CountMap(map) ==
    1 + MapThenSumSet(LAMBDA key : CountText(key) + CountText(map[key]), DOMAIN map)

CountObject(map) ==
    1 + MapThenSumSet(LAMBDA key : CountName(key) + 1 + CountBasic + CountText(map[key]), DOMAIN map)

CountVariant(v) ==
    1 + CountBasic +
    CASE v.kind = "none"              -> 1
      [] v.kind = "object"            -> CountObject(v.at)
      [] v.kind \in {"want", "pixel"} -> CountParcel(v.at.self)
      [] OTHER                        -> CountText(v.at.self)

Count(type, x) ==
    CASE type = "basic"           -> CountBasic
      [] type = "name"            -> CountName(x)
      [] type \in {"text", "raw"} -> CountText(x)
      [] type = "ptext"  -> IF x = Null THEN 0 ELSE CountText(x)
      [] type = "pixel"  -> CountParcel(x)
      [] type = "names"  -> Reduce(LAMBDA n, t : CountName(t) + n, 1, x)
      [] type = "map"    -> IF x = NullMap THEN 0 ELSE 1 + CountMap(x)
      [] type = "value"  -> CountVariant(x)
      [] type = "pvalue" -> IF x = NullValue THEN 0 ELSE CountVariant(x)

CountFields(counts, types, x) ==
    Reduce(LAMBDA n, f : Count(types[f], x[f]) + n, 0, counts)

CountRecord(r, remote) ==
    LET counts == IF remote THEN RemoteRecordCounts ELSE RecordCounts
        Of(x) ==
            Reduce(LAMBDA n, f : n +
                IF f = "entries"
                THEN Reduce(LAMBDA m, e : 1 + CountFields(EntryCounts, EntryTypes, e) + m, 1, x.entries)
                ELSE Count(RecordTypes[f], x[f]), 0, counts)
    IN The({Of(x) : x \in {OnWire(r, remote)}})

CountClip(c, remote) ==
    Reduce(LAMBDA n, f : n +
        CASE f = "props"   -> 1 + CountFields(PropertyCounts, PropertyTypes, c.props)
          [] f = "records" -> Reduce(LAMBDA m, r : 1 + CountRecord(r, remote) + m, 1, c.records)
          [] OTHER         -> Count(ClipTypes[f], c[f]), 0, ClipCounts)

\* The buffer has the counted length; what is not written stays zero and reads
\* as heads without tag and length.
Encode(c, remote) ==
    The({[ok |-> Len(written) <= len,
          cells |-> written \o [i \in 1 .. (len - Len(written)) |-> Cell(0)]] :
         written \in {EncodeClip(c, remote)}, len \in {CountClip(c, remote)}})

-----------------------------------------------------------------------------
\* Reading: the items of a buffer one after the other.

Items(buffer) ==
    LET Of(cells) ==
            LET from[i \in 1 .. Len(cells) + 1] ==
                    IF i > Len(cells) THEN <<>>
                    ELSE LET end == i + cells[i].len
                         IN <<[tag |-> cells[i].tag, body |-> SubSeq(cells, i + 1, end)]>> \o from[end + 1]
            IN from[1]
    IN The({Of(cells) : cells \in {buffer}})

ReadBasic(body) == body[1].raw
ReadName(body) == IF body = <<>> THEN "" ELSE body[1].raw
ReadText(body) == [i \in DOMAIN body |-> body[i].raw]
ReadParcel(body) == IF body = <<>> THEN Null ELSE ReadText(body)

ReadMap(body) ==
    LET items == Items(body)
        pairs == {i \in DOMAIN items : i % 2 = 1}
    IN [key \in {ReadText(items[i].body) : i \in pairs} |->
           LET i == CHOOSE j \in pairs : ReadText(items[j].body) = key
           IN ReadText(items[i + 1].body)]

ReadObject(body) ==
    LET items == Items(body)
        pairs == {i \in DOMAIN items : i % 2 = 1}
    IN [key \in {ReadName(items[i].body) : i \in pairs} |->
           LET i == CHOOSE j \in pairs : ReadName(items[j].body) = key
           IN ReadText(Items(items[i + 1].body)[2].body)]

ReadVariant(body) ==
    LET items == Items(body)
        kind == ReadBasic(items[1].body)
    IN CASE kind = "none"   -> [kind |-> kind, at |-> [self |-> <<>>]]
         [] kind = "object" -> [kind |-> kind, at |-> ReadObject(items[2].body)]
         [] OTHER           -> [kind |-> kind, at |-> [self |-> ReadText(items[2].body)]]

ReadValue(type, body) ==
    CASE type = "basic" -> ReadBasic(body)
      [] type = "name"  -> ReadName(body)
      [] type \in {"text", "ptext"} -> ReadText(body)
      [] type \in {"raw", "pixel"}  -> ReadParcel(body)
      [] type = "names" -> LET items == Items(body) IN [i \in DOMAIN items |-> ReadName(items[i].body)]
      [] type = "map"   -> ReadMap(Items(body)[1].body)
      [] type \in {"value", "pvalue"} -> ReadVariant(body)

\* Known tags set their field, unknown ones are skipped.
DecodeFields(reads, types, new, body) ==
    Reduce(LAMBDA x, item : IF item.tag \in reads
                              THEN [x EXCEPT ![item.tag] = ReadValue(types[item.tag], item.body)]
                              ELSE x,
             new, Items(body))

DecodeEntry(body) == DecodeFields(EntryReads, EntryTypes, NewEntry, body)

DecodeRecord(reads, body) ==
    Decoded(Reduce(LAMBDA x, item :
        CASE item.tag \notin reads  -> x
          [] item.tag = "entries" -> LET list == Items(item.body) IN
                 [x EXCEPT !.entries = [i \in DOMAIN list |-> DecodeEntry(list[i].body)]]
          [] OTHER -> [x EXCEPT ![item.tag] = ReadValue(RecordTypes[item.tag], item.body)],
        NewRecord, Items(body)))

Decode(cells) ==
    Reduce(LAMBDA x, item :
        CASE item.tag \notin ClipReads -> x
          [] item.tag = "props"   -> [x EXCEPT !.props =
                 DecodeFields(PropertyReads, PropertyTypes, NewClip.props, item.body)]
          [] item.tag = "records" -> LET list == Items(item.body) IN
                 [x EXCEPT !.records = [i \in DOMAIN list |-> DecodeRecord(RecordReads, list[i].body)]]
          [] OTHER -> [x EXCEPT ![item.tag] = ReadValue(ClipTypes[item.tag], item.body)],
        NewClip, Items(cells))
=============================================================================
