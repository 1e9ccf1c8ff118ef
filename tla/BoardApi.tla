------------------------------ MODULE BoardApi ------------------------------
(***************************************************************************)
(* The programming interfaces of the pasteboard: what each function of the *)
(* ArkTS (napi and taihe), C and Cangjie bindings asks of the client       *)
(* library, on which thread, and what it tells its caller.                 *)
(*                                                                         *)
(* An operation of the client library has the outcomes its callers can     *)
(* tell apart: ok; processing and prohibited, for TASK_PROCESSING and      *)
(* PROHIBIT_COPY; refused, for the codes that say a share option may not   *)
(* be set or removed; failed, for every other code.  An operation that     *)
(* returns an empty value when it fails only has the outcome ok.           *)
(***************************************************************************)
EXTENDS Naturals

Outcomes == {"ok", "processing", "prohibited", "refused", "failed"}
Failures == Outcomes \ {"ok"}
Busy == {"processing", "prohibited"}
Timeout == {"timeout"}

-----------------------------------------------------------------------------
(* Operations of PasteboardClient.  kind is the effect on the clipboard,   *)
(* getters what the clip may leave to be fetched from the application.     *)

Op(kind, outcomes) == [kind |-> kind, outcomes |-> outcomes, getters |-> {"none"}]
WithGetter(op, getter) == [op EXCEPT !.getters = @ \cup {getter}]

SetPasteData == Op("set", Outcomes \ {"refused"})
SetUnifiedData == SetPasteData
SetUdsdData == SetPasteData
GetPasteData == Op("get", {"ok", "processing", "failed"})
GetUnifiedData == GetPasteData
GetUdsdData == GetPasteData
GetUnifiedDataWithProgress == GetPasteData
GetRecordValueByType == Op("fetch", {"ok", "failed"})
Clear == Op("clear", {"ok"})
GetChangeCount == Op("ask", {"ok", "failed"})
HasPasteData == Op("ask", {"ok"})
HasRemoteData == Op("ask", {"ok"})
HasDataType == Op("ask", {"ok"})
HasUtdType == Op("ask", {"ok"})
GetMimeTypes == Op("ask", {"ok"})
DetectPatterns == Op("ask", {"ok"})
IsRemoteData == Op("ask", {"ok"})
GetDataSource == Op("ask", {"ok", "failed"})
PasteStart == Op("ask", {"ok"})
PasteComplete == Op("ask", {"ok"})
SetAppShareOptions == Op("ask", {"ok", "refused", "failed"})
RemoveAppShareOptions == Op("ask", {"ok", "refused", "failed"})
SyncDelayedData == Op("ask", {"ok", "failed"})

-----------------------------------------------------------------------------
(* Three ways to ask.  async: a thread of the pool runs the operation, the *)
(* application's loop hands its result to the promise or the callback.     *)
(* limited: a thread runs it while the caller waits, no longer than        *)
(* SYNC_TIMEOUT.  direct: the caller runs it.                              *)
(*                                                                         *)
(* errors are the results that the caller is told as an error; after any   *)
(* other it goes on as if all were well.  keeps are the results after      *)
(* which the getter of this call takes the place of delayGetter_.          *)

Call(how, op, errors) == [how |-> how, op |-> op, errors |-> errors, keeps |-> {}]
Async(op, errors) == Call("async", op, errors)
Limited(op, errors) == Call("limited", op, errors)
Direct(op, errors) == Call("direct", op, errors)
Keeping(call, keeps) == [call EXCEPT !.keeps = keeps]

-----------------------------------------------------------------------------
(* napi: a context whose status was not set to napi_ok rejects.            *)

NapiClear == Async(Clear, {})
NapiHasPasteData == Async(HasPasteData, {})
NapiHasRemoteData == Limited(HasRemoteData, {})
NapiGetPasteData == Async(GetPasteData, {})
NapiGetData == Async(GetPasteData, {"processing"})
NapiSetPasteData == Async(SetPasteData, {})
NapiSetData == Async(WithGetter(SetPasteData, "entry"), Failures)
NapiGetUnifiedData == Async(GetUnifiedData, {"processing"})
NapiGetUnifiedDataSync == Limited(GetUnifiedData, Timeout)

\* The status is napi_ok since the argument was unwrapped, so that a failure
\* resolves, and replaces the getter that is kept.
NapiSetUnifiedData ==
    Keeping(Async(WithGetter(SetUnifiedData, "unified"), {}), Outcomes)

\* Mutant: the getter is kept whatever came of the set.
SyncKeepsAnyway ==
    Keeping(Limited(WithGetter(SetUnifiedData, "unified"), Timeout), Outcomes)

NapiSetUnifiedDataSync ==
    Keeping(Limited(WithGetter(SetUnifiedData, "unified"), Timeout), {"ok"})

NapiSetAppShareOptions == Direct(SetAppShareOptions, {"refused"})
NapiRemoveAppShareOptions == Direct(RemoveAppShareOptions, {"refused"})
NapiIsRemoteData == Limited(IsRemoteData, Timeout)
NapiGetDataSource == Limited(GetDataSource, Timeout)
NapiGetMimeTypes == Async(GetMimeTypes, {})
NapiGetChangeCount == Limited(GetChangeCount, {})
NapiHasDataType == Limited(HasDataType, Timeout)
NapiDetectPatterns == Async(DetectPatterns, {})
NapiClearDataSync == Limited(Clear, Timeout)
NapiGetDataSync == Limited(GetPasteData, Timeout)
NapiSetDataSync == Limited(SetPasteData, Timeout)
NapiHasDataSync == Limited(HasPasteData, Timeout)
NapiGetDataWithProgress == Async(GetPasteData, Failures)
NapiGetRecordData == Async(GetRecordValueByType, {})
NapiGetPrimaryHtml == Direct(GetRecordValueByType, {})
NapiGetPrimaryPixelMap == Direct(GetRecordValueByType, {})
NapiGetPrimaryText == Direct(GetRecordValueByType, {})
NapiGetPrimaryUri == Direct(GetRecordValueByType, {})
NapiPasteStart == Direct(PasteStart, {})
NapiPasteComplete == Direct(PasteComplete, {})

NapiCalls ==
    {NapiClear, NapiHasPasteData, NapiHasRemoteData, NapiGetPasteData, NapiGetData,
     NapiSetPasteData, NapiSetData, NapiGetUnifiedData, NapiGetUnifiedDataSync,
     NapiSetUnifiedData, NapiSetUnifiedDataSync, NapiSetAppShareOptions,
     NapiRemoveAppShareOptions, NapiIsRemoteData, NapiGetDataSource, NapiGetMimeTypes,
     NapiGetChangeCount, NapiHasDataType, NapiDetectPatterns, NapiClearDataSync,
     NapiGetDataSync, NapiSetDataSync, NapiHasDataSync, NapiGetDataWithProgress,
     NapiGetRecordData, NapiGetPrimaryHtml, NapiGetPrimaryPixelMap, NapiGetPrimaryText,
     NapiGetPrimaryUri, NapiPasteStart, NapiPasteComplete}

-----------------------------------------------------------------------------
(* taihe: a function whose name ends in Impl is run by a task of the       *)
(* language runtime, which hands on its result as a promise.               *)

TaiheClearDataSync == Limited(Clear, Timeout)
TaiheClearDataImpl == Async(Clear, {})
TaiheGetDataSync == Limited(GetPasteData, Timeout)
TaiheGetDataImpl == Async(GetPasteData, {"processing"})
TaiheHasDataSync == Limited(HasPasteData, Timeout)
TaiheHasDataImpl == Async(HasPasteData, {})
TaiheHasRemoteData == Limited(HasRemoteData, {})
TaiheHasDataType == Limited(HasDataType, Timeout)
TaiheSetDataSync == Limited(SetPasteData, Timeout)
TaiheSetDataImpl == Async(WithGetter(SetPasteData, "entry"), Busy)
TaiheGetMimeTypesImpl == Async(GetMimeTypes, {})
TaiheIsRemoteData == Limited(IsRemoteData, Timeout)
TaiheGetDataSource == Limited(GetDataSource, Timeout)
TaiheGetDataWithProgressImpl == Async(GetPasteData, Failures)
TaiheGetUnifiedDataImpl == Async(GetUnifiedData, {"processing"})
TaiheGetUnifiedDataSync == Limited(GetUnifiedData, Timeout)
TaiheSetUnifiedDataImpl == Async(SetUnifiedData, Busy)
TaiheSetUnifiedDataSync == Limited(SetUnifiedData, Busy \cup Timeout)
TaiheSetAppShareOptions == Direct(SetAppShareOptions, {"refused"})
TaiheRemoveAppShareOptions == Direct(RemoveAppShareOptions, {"refused"})
TaiheDetectPatternsImpl == Async(DetectPatterns, {})
TaiheGetChangeCount == Limited(GetChangeCount, {})
TaiheGetHtmlText == Direct(GetRecordValueByType, {})
TaiheGetPlainText == Direct(GetRecordValueByType, {})
TaiheGetUri == Direct(GetRecordValueByType, {})
TaiheGetPixelMap == Direct(GetRecordValueByType, {})
TaiheGetRecordValueByType == Direct(GetRecordValueByType, {})
TaihePasteStart == Direct(PasteStart, {})
TaihePasteComplete == Direct(PasteComplete, {})

TaiheCalls ==
    {TaiheClearDataSync, TaiheClearDataImpl, TaiheGetDataSync, TaiheGetDataImpl,
     TaiheHasDataSync, TaiheHasDataImpl, TaiheHasRemoteData, TaiheHasDataType,
     TaiheSetDataSync, TaiheSetDataImpl, TaiheGetMimeTypesImpl, TaiheIsRemoteData,
     TaiheGetDataSource, TaiheGetUnifiedDataImpl, TaiheGetUnifiedDataSync,
     TaiheSetUnifiedDataImpl, TaiheSetUnifiedDataSync, TaiheSetAppShareOptions,
     TaiheRemoveAppShareOptions, TaiheDetectPatternsImpl, TaiheGetChangeCount,
     TaiheGetHtmlText, TaiheGetPlainText, TaiheGetUri, TaiheGetPixelMap,
     TaiheGetDataWithProgressImpl, TaiheGetRecordValueByType, TaihePasteStart,
     TaihePasteComplete}

-----------------------------------------------------------------------------
(* C: every function runs on its caller's thread.  A getter of a record is *)
(* a C function, called without a loop.                                    *)

NdkGetChangeCount == Direct(GetChangeCount, {})
NdkIsRemoteData == Direct(IsRemoteData, {})
NdkGetDataSource == Direct(GetDataSource, {"failed"})
NdkGetMimeTypes == Direct(GetMimeTypes, {})
NdkHasType == Direct(HasDataType, {})
NdkHasUtdType == Direct(HasUtdType, {})
NdkHasData == Direct(HasPasteData, {})
NdkHasRemoteData == Direct(HasRemoteData, {})
NdkGetData == Direct(GetUdsdData, Failures)
NdkGetDataWithProgress == Direct(GetUnifiedDataWithProgress, Failures)
NdkSetData == Direct(SetUdsdData, Failures)
NdkClearData == Direct(Clear, {})
NdkSyncDelayedDataAsync == Async(SyncDelayedData, {"failed"})

NdkCalls ==
    {NdkGetChangeCount, NdkIsRemoteData, NdkGetDataSource, NdkGetMimeTypes, NdkHasType,
     NdkHasUtdType, NdkHasData, NdkHasRemoteData, NdkGetData, NdkGetDataWithProgress, NdkSetData,
     NdkClearData, NdkSyncDelayedDataAsync}

-----------------------------------------------------------------------------
(* Cangjie: likewise; a failed SetData answers SUCCESS.                    *)

CjSetData == Direct(SetPasteData, {})
CjGetData == Direct(GetPasteData, Failures)
CjHasData == Direct(HasPasteData, {})
CjClearData == Direct(Clear, {})
CjIsRemoteData == Direct(IsRemoteData, {})
CjHasDataType == Direct(HasDataType, {})
CjGetDataSource == Direct(GetDataSource, {})
CjGetPrimaryText == Direct(GetRecordValueByType, {})
CjGetPrimaryHtml == Direct(GetRecordValueByType, {})
CjGetPrimaryUri == Direct(GetRecordValueByType, {})
CjGetPrimaryPixelMap == Direct(GetRecordValueByType, {})

CjCalls ==
    {CjSetData, CjGetData, CjHasData, CjClearData, CjIsRemoteData, CjHasDataType,
     CjGetDataSource, CjGetPrimaryText, CjGetPrimaryHtml, CjGetPrimaryUri,
     CjGetPrimaryPixelMap}

=============================================================================
