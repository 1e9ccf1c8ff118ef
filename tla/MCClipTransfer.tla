--------------------------- MODULE MCClipTransfer ---------------------------
(* Clips that exercise every way of the content.                           *)
EXTENDS ClipTransfer

Pic(path) == <<ImgSrc, ImgLocal, path, ImgEnd>>
Object(fields) == [kind |-> "object", at |-> fields]

\* A picture twice, one that may not be read, a document, one on the web, one
\* that does not exist, one of which no distributed uri can be made.
Page == <<"a">> \o Pic("own") \o <<"b", ImgSrc, "http://", "web", ImgEnd>> \o Pic("secret")
        \o Pic("own") \o <<ImgSrc, DocLocal, "doc", ImgEnd, "c">> \o Pic("gone") \o Pic("nodfs")
Uri(path) == <<FileScheme, "notes", path>>
Now(records) == [clip |-> ClipOf(records), later |-> <<>>, by |-> "notes"]

Texts ==
    [clip |-> AddTextRecord(AddKvRecord(AddWantRecord(AddPixelMapRecord(AddUriRecord(AddHtmlRecord(
                  NewClip, <<"h">>), Uri("own")), <<"p">>), <<"w">>), "app/own", <<"k">>), <<"t">>),
     later |-> <<>>, by |-> "notes"]
Pages == Now(<<NewHtmlRecord(Page), NewHtmlRecord(Pic("lost")), NewPlainTextRecord(<<>>)>>)
Uris == Now(<<NewUriRecord(Uri("own")), NewUriRecord(Uri("secret")), NewUriRecord(<<DocPrefix, "doc">>),
              NewUriRecord(Uri("nodfs")), NewUriRecord(<<"http://", "web">>), NewUriRecord(<<ImgLocal, "own">>)>>)
Multi == Now(<<NewMultiTypeRecord(
    "text/html" :> Object([uniformDataType |-> <<"general.html">>, htmlContent |-> Page, plainContent |-> <<"t">>])
    @@ "text/plain" :> Object([uniformDataType |-> <<"general.plain-text">>, textContent |-> <<"t">>])
    @@ "pixelMap" :> [kind |-> "pixel", at |-> [self |-> <<"p">>]]
    @@ "app/own" :> [kind |-> "bytes", at |-> [self |-> <<"k", "k">>]], "text/html")>>)
\* More documents than may be granted of a remote clip.
Docs == Now([i \in 1 .. 4 |-> NewUriRecord(<<DocPrefix, "doc">>)])
Later(uri, html) ==
    <<1, "general.plain-text">> :> TextValue(<<"t">>)
    @@ <<1, "general.html">> :> Object([uniformDataType |-> <<"general.html">>, htmlContent |-> html])
    @@ <<1, "general.file-uri">> :> TextValue(uri)
Delayed(mimes, uri, html) ==
    [clip |-> ClipOf(<<NewMultiTypeDelayRecord(mimes)>>),
     later |-> [k \in {k \in DOMAIN Later(uri, html) : Convert2MimeType(k[2]) \in Range(mimes)} |-> Later(uri, html)[k]],
     by |-> "notes"]
DelayedText == Delayed(<<"text/html", "text/plain">>, <<>>, Pic("own") \o Pic("secret"))
DelayedFile == Delayed(<<"text/uri", "text/html">>, Uri("own"), <<"f">> \o Pic("own"))
\* One that no reader may have.
DelayedSecret == Delayed(<<"text/uri", "text/plain">>, <<ImgLocal, "secret">>, <<>>)

Text == Now(<<NewPlainTextRecord(<<"n">>)>>)

\* Clips of every shape, and delayed clips that replace, and are replaced by, others.
AllSessions ==
    {<<c>> : c \in {Texts, Pages, Uris, [Uris EXCEPT !.by = "mail"], Docs, Multi, DelayedSecret}}
    \cup {<<DelayedText, Text>>, <<DelayedText, DelayedFile>>, <<DelayedFile, DelayedText>>}

=============================================================================
