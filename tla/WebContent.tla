------------------------------ MODULE WebContent -----------------------------
(***************************************************************************)
(* PasteboardWebController and PasteboardImgExtractor: the local pictures  *)
(* of an html text are taken out into records of their own when a clip is  *)
(* stored, so that their uris can be granted and made distributed, and put *)
(* back at the same places when the clip is pasted.                        *)
(*                                                                         *)
(* A uri is a sequence of symbols: its beginning, its authority where it   *)
(* has one, a path, and the device of a distributed uri.  In an html text  *)
(* a picture is the symbol ImgSrc, the uri and the symbol ImgEnd.          *)
(*                                                                         *)
(* The ANCO broker, which is never asked for permissions, is a copying     *)
(* application that may read and write everything; a permission manager    *)
(* whose answers are too few leaves the records as one that may read       *)
(* nothing does.                                                           *)
(***************************************************************************)
EXTENDS PasteClip

CONSTANTS
    Pictures,    \* paths of pictures that exist
    Readable,    \* paths the copying application may read
    Writable,    \* paths it may write
    NoRealPath,  \* paths that have no real path for a reader
    Persistable, \* const.pasteboard.uri_persistable_permission
    ByteValues   \* how many values a byte has: 256

ASSUME WebAssumption == Writable \subseteq Readable /\ Persistable \in BOOLEAN /\ ByteValues \in Nat \ {0, 1}

ImgSrc == "<img src="
ImgEnd == ">"
ImgLocal == "file:///"
DocLocal == "file:///docs/"
FileScheme == "file://"
DocPrefix == "file://docs/"
NetworkId == "networkid="
DistributedFiles == "distributedfiles"

StartsWith(uri, symbols) == uri # <<>> /\ uri[1] \in symbols
IsFile(uri) == StartsWith(uri, {FileScheme, DocPrefix, ImgLocal, DocLocal})

GetAuthority(uri) ==
    CASE StartsWith(uri, {FileScheme}) -> uri[2]
      [] StartsWith(uri, {DocPrefix})  -> "docs"
      [] OTHER -> ""

PathOf(uri) == IF StartsWith(uri, {FileScheme}) THEN uri[3] ELSE uri[2]

-----------------------------------------------------------------------------
\* Taking the pictures out.

\* Where the sources of the pictures of a text are: offset from 0, and uri.
SplitHtmlWithImgLabel(html) ==
    LET end(i) == CHOOSE j \in i .. Len(html) : html[j] = ImgEnd /\ \A k \in i .. j - 1 : html[k] # ImgEnd
    IN {[at |-> i, uri |-> SubSeq(html, i + 1, end(i) - 1)] : i \in {k \in DOMAIN html : html[k] = ImgSrc}}

ExtractImgSrc(uris) ==
    {u \in uris : StartsWith(u, {ImgLocal, DocLocal}) /\ PathOf(u) \in Pictures}

\* An offset is kept as four bytes, the lowest first.
OffsetBytes(n) == [i \in 1 .. 4 |-> (n \div (ByteValues ^ (i - 1))) % ByteValues]
OffsetOf(bytes) == Reduce(LAMBDA n, i : n + bytes[i] * ByteValues ^ (i - 1), 0, <<1, 2, 3, 4>>)

\* One record per picture, with all its places in the text.
SplitHtml2Records(html, id) ==
    LET srcs == SplitHtmlWithImgLabel(html)
        uris == Listed(ExtractImgSrc({s.uri : s \in srcs}))
        places(u) == SortedBy({s.at : s \in {t \in srcs : t.uri = u}}, LAMBDA x, y : x < y)
        bytes(u) == FlattenSeq([i \in DOMAIN places(u) |-> OffsetBytes(places(u)[i])])
    IN [i \in DOMAIN uris |-> [NewUriRecord(uris[i]) EXCEPT
           !.customData = [k \in {uris[i]} |-> bytes(uris[i])], !.from = id]]

HtmlOf(r) == ConvertToHtml(GetEntry(r, "general.html"))

\* A record whose pictures are out is its own origin and is left alone.
SplitWebviewPasteData(c) ==
    Reduce(LAMBDA x, i :
        LET r == x.records[i]
            extra == IF HtmlOf(r) \in {Null, <<>>} THEN <<>> ELSE SplitHtml2Records(HtmlOf(r), r.recordId)
            added == Reduce(LAMBDA y, e : AddRecord(y, e, TRUE), x, extra)
        IN IF r.recordId = r.from \/ extra = <<>> THEN x
           ELSE [added EXCEPT !.records[i].from = r.recordId, !.props.tag = "webview"],
        c, [i \in DOMAIN c.records |-> i])

IsExtra(r) == r.from # 0 /\ r.recordId # r.from

\* A local uri is given the authority of the application or of the documents.
WithAuthority(uri, bundle) ==
    IF uri[1] = DocLocal THEN <<DocPrefix>> \o Tail(uri) ELSE <<FileScheme, bundle>> \o Tail(uri)

SetWebviewPasteData(c, bundle) ==
    IF c.props.tag # "webview" THEN c
    ELSE [c EXCEPT !.records = [i \in DOMAIN @ |->
            IF IsExtra(@[i]) /\ GetUriV0(@[i]) # Null /\ StartsWith(GetUriV0(@[i]), {ImgLocal, DocLocal})
            THEN SetUri(@[i], WithAuthority(GetUriV0(@[i]), bundle)) ELSE @[i]]]

\* What the permission manager says of every uri of the clip is kept with it.
CheckedUri(r) ==
    LET uri == GetOriginUri(r)
        read == IsFile(uri) /\ PathOf(uri) \in Readable
        write == Persistable /\ PathOf(uri) \in Writable
    IN CASE uri = Null -> r
         [] uri # Null /\ read -> [r EXCEPT !.hasGrantUriPermission = TRUE,
                                            !.uriPermission = IF write THEN "readwrite" ELSE "read"]
         [] OTHER -> [r EXCEPT !.hasGrantUriPermission = FALSE]

CheckAppUriPermission(c) == [c EXCEPT !.records = [i \in DOMAIN @ |-> CheckedUri(@[i])]]

\* The three are always done together.
TakePicturesOut(c) ==
    CheckAppUriPermission(SetWebviewPasteData(SplitWebviewPasteData(c), c.originAuthority))

-----------------------------------------------------------------------------
\* What the reader does with the uris.

IsValidUri(uri, granted) ==
    uri # <<>> /\ (IsFile(uri) => GetAuthority(uri) # "" /\ granted)

RemoveInvalidUri(c) ==
    IF c.isLocalPaste THEN c
    ELSE [c EXCEPT !.records = [i \in DOMAIN @ |->
            IF GetOriginUri(@[i]) = Null \/ IsValidUri(GetOriginUri(@[i]), @[i].hasGrantUriPermission)
            THEN @[i] ELSE [SetUri(@[i], <<>>) EXCEPT !.convertUri = <<>>]]]

RetainUri(c) ==
    IF ~c.isLocalPaste THEN c
    ELSE [c EXCEPT !.records = [i \in DOMAIN @ |-> [@[i] EXCEPT !.convertUri = <<>>]]]

\* The path of a file under the reader's own view of the file system, as the
\* uri "file://" makes of it.
GetRealPath(uri) ==
    <<ImgLocal>> \o (IF Contains(uri, NetworkId) THEN <<DistributedFiles>> ELSE <<>>) \o <<PathOf(uri)>>

RefreshUri(r) ==
    LET uri == GetUriV0(r)
        real == IF IsFile(uri) THEN GetRealPath(uri) ELSE uri
    IN CASE uri = Null \/ ~IsExtra(r) -> r
         [] uri # Null /\ IsExtra(r) /\ IsFile(uri) /\ PathOf(uri) \in NoRealPath -> r   \* file not exist
         [] uri # Null /\ IsExtra(r) /\ Contains(real, DistributedFiles) -> [r EXCEPT !.convertUri = real]
         [] OTHER -> SetUri(r, real)

-----------------------------------------------------------------------------
\* Putting the pictures back.

GroupRecordWithFrom(c, from) == SelectSeq(c.records, LAMBDA r : r.from = from)

\* For every place: the uri to put there and the one that is there.
ExtractContent(group) ==
    UNION {LET r == group[i] IN
           IF GetUriV0(r) = Null THEN {}
           ELSE UNION {{[at |-> OffsetOf(SubSeq(item[2], 4 * k - 3, 4 * k)), new |-> GetUriV0(r), old |-> item[1]] :
                            k \in 1 .. Len(item[2]) \div 4} : item \in GetCustomData(r)} :
           i \in {j \in DOMAIN group : HtmlOf(group[j]) \in {Null, <<>>}}}

\* Offset at counts from 0; the furthest place comes first.
ReplaceHtmlRecordContentByExtraUris(html, group) ==
    Reduce(LAMBDA text, p :
        IF p.at >= Len(text) THEN text
        ELSE SubSeq(text, 1, p.at) \o p.new \o SubSeq(text, p.at + Len(p.old) + 1, Len(text)),
        html, SortedBy(ExtractContent(group), LAMBDA p, q : p.at > q.at))

UpdateHtmlRecord(r, html) ==
    LET i == SelectInSeq(r.entries, LAMBDA e : e.utdId = "general.html")
    IN [r EXCEPT !.entries[i].value = WithContent(@, "htmlContent", html), !.from = 0]

RemoveExtraUris(c) ==
    Reduce(LAMBDA x, id : RemoveRecordAt(x, PositionOfId(x, id)), c,
        LET extra == SelectSeq(c.records, LAMBDA r : r.from > 0 /\ GetMimeType(r) = "text/uri")
        IN [i \in DOMAIN extra |-> extra[i].recordId])

MergeExtraUris2Html(c) ==
    RemoveExtraUris([c EXCEPT !.records = [i \in DOMAIN @ |->
        LET r == @[i]
            group == GroupRecordWithFrom(c, r.from)
        IN IF r.from = 0 \/ HtmlOf(r) \in {Null, <<>>} THEN r
           ELSE UpdateHtmlRecord(r, ReplaceHtmlRecordContentByExtraUris(HtmlOf(r), group))]])

RebuildWebviewPasteData(c) ==
    LET fresh == [c EXCEPT !.records = [i \in DOMAIN @ |-> RefreshUri(@[i])]]
    IN CASE c.props.tag # "webview" -> c
         [] \E i \in DOMAIN c.records : c.records[i].from > 0 -> MergeExtraUris2Html(fresh)
         [] OTHER -> fresh

\* What a reader's side does with a clip it has received.
PutPicturesBack(c) == RebuildWebviewPasteData(RemoveInvalidUri(RetainUri(c)))
=============================================================================
