---------------------------- MODULE ProgressPaste ----------------------------
(***************************************************************************)
(* Pastes with progress: GetDataWithProgress of the client library, the    *)
(* copying of the files of a clip to the application's directory, the      *)
(* signals of the progress dialog, and how each binding is told of the     *)
(* progress.  Copying one file is FileCopyManager's, which is external.    *)
(*                                                                         *)
(* Pastes run on threads of their own and share the flags isPasting_,      *)
(* remoteTask_, needCancel_ and canCancel_, the number of records, and the *)
(* slot in which napi keeps a listener.                                    *)
(***************************************************************************)
EXTENDS Integers, Sequences

CONSTANTS
    Pastes,
    Requests,     \* who is told, whether a file that is there is skipped, and the clip,
                  \* a sequence of "file", "picture" and "text"
    UPDATE_PERCENT, UPDATE_PERCENT_WITHOUT_FILE,   \* 5 and 10 in the code
    MaxSignals    \* bound on cancels and timeouts

\* Who is told: the system's dialog, or the listener of a binding.
Listeners == {"dialog", "napi", "taihe", "ndk"}

ASSUME ProgressAssumption ==
    /\ MaxSignals \in Nat /\ 0 \notin Pastes
    /\ UPDATE_PERCENT \in Nat \ {0} /\ UPDATE_PERCENT_WITHOUT_FILE \in Nat \ {0}
    /\ 20 % UPDATE_PERCENT = 0 /\ 80 % UPDATE_PERCENT_WITHOUT_FILE = 0
    /\ \A r \in Requests : r.to \in Listeners /\ r.skip \in BOOLEAN /\ r.clip \in Seq({"file", "picture", "text"})

VARIABLES
    paste,         \* each paste: where it is, its clip and what has come of it
    isPasting, remoteTask, needCancel, canCancel,
    recordSize,    \* recordSize_
    progressKey,   \* g_progressKey: the paste the dialog shows, or 0
    listener,      \* the paste whose listener is in napi's listenerMap_, or 0
    signals        \* signals so far

progressVars == <<paste, isPasting, remoteTask, needCancel, canCancel, recordSize,
                  progressKey, listener, signals>>
flags == <<isPasting, remoteTask, needCancel, canCancel>>

NoPaste == [pc |-> "none", to |-> "none", skip |-> FALSE, clip |-> <<>>, fate |-> <<>>,
            processed |-> 0, value |-> 0, copied |-> 0, ret |-> "ok",
            result |-> "none", heard |-> 0, fell |-> FALSE, early |-> FALSE, alone |-> TRUE,
            disturbed |-> FALSE]

ProgressInit ==
    /\ paste = [p \in Pastes |-> NoPaste]
    /\ isPasting = FALSE /\ remoteTask = FALSE /\ needCancel = FALSE /\ canCancel = TRUE
    /\ recordSize = 0 /\ progressKey = 0 /\ listener = 0 /\ signals = 0

Active(p) == paste[p].pc \notin {"none", "over"}
HasUri(p) == \E i \in DOMAIN paste[p].clip : paste[p].clip[i] # "text"

\* No other paste was asked for while it ran, and no signal came.
Undisturbed(p) == paste[p].alone /\ ~paste[p].disturbed

\* GetProgressByProgressInfo, and the ProgressNotify of each binding.  taihe
\* registers the parameters of a paste only when the paste is over.
Hearer(p) == CASE paste[p].to = "dialog" -> progressKey
               [] paste[p].to = "napi" -> listener
               [] paste[p].to = "ndk" -> p
               [] paste[p].to = "taihe" -> 0

\* The pastes after new has become the state of p and percentage was told.  What
\* is heard is followed for a paste that nothing else has interfered with.
UpdateProgress(p, new, percentage) ==
    LET pastes == [paste EXCEPT ![p] = new]
        h == Hearer(p)
    IN IF h = 0 \/ ~Undisturbed(h) THEN pastes
       ELSE [pastes EXCEPT ![h] = [pastes[h] EXCEPT !.heard = percentage,
                                     !.fell = pastes[h].fell \/ percentage < pastes[h].heard]]

-----------------------------------------------------------------------------
(* GetDataWithProgress.                                                    *)

\* The binding parses the parameters; AddProgressListener keeps the listener that
\* is already there.
Begin(p) ==
    /\ paste[p].pc = "none"
    /\ \A q \in Pastes : q < p => paste[q].pc # "none"   \* numbered as they are asked for
    /\ \E r \in Requests :
         /\ paste' = [q \in Pastes |->
                        IF q = p THEN [NoPaste EXCEPT !.pc = "check", !.to = r.to, !.skip = r.skip, !.clip = r.clip,
                                          !.fate = [i \in DOMAIN r.clip |-> "here"],
                                          !.alone = \A o \in Pastes : ~Active(o)]
                        ELSE [paste[q] EXCEPT !.alone = @ /\ ~Active(q)]]
         /\ listener' = IF r.to = "napi" /\ listener = 0 THEN p ELSE listener
    /\ UNCHANGED <<flags, recordSize, progressKey, signals>>

\* Back in the binding, the locals of the paste are gone; napi empties the slot, whoever's listener is in it.
GiveBack(p, result) ==
    /\ paste' = [paste EXCEPT ![p].pc = "over", ![p].result = result,
                               ![p].processed = 0, ![p].value = 0, ![p].ret = "ok"]
    /\ listener' = IF paste[p].to = "napi" THEN 0 ELSE listener

\* CheckProgressParam, before the flag is set.
CheckProgressParam(p) ==
    /\ paste[p].pc = "check"
    /\ IF isPasting
       THEN GiveBack(p, "processing") /\ UNCHANGED needCancel
       ELSE /\ paste' = [paste EXCEPT ![p].pc = "start"]
            /\ needCancel' = FALSE
            /\ UNCHANGED listener
    /\ UNCHANGED <<isPasting, remoteTask, canCancel, recordSize, progressKey, signals>>

StartPaste(p) ==
    /\ paste[p].pc = "start"
    /\ isPasting' = TRUE
    /\ progressKey' = IF paste[p].to = "dialog" THEN p ELSE progressKey
    /\ paste' = [paste EXCEPT ![p].pc = "service"]
    /\ UNCHANGED <<remoteTask, needCancel, canCancel, recordSize, listener, signals>>

GetPasteDataFromService(p) ==
    /\ paste[p].pc = "service"
    /\ \/ /\ paste' = [paste EXCEPT ![p].pc = IF paste[p].clip = <<>> THEN "after" ELSE "smooth"]
          /\ UNCHANGED <<isPasting, remoteTask, listener>>
       \/ /\ isPasting' = FALSE /\ remoteTask' = FALSE
          /\ GiveBack(p, "failed")
    /\ UNCHANGED <<needCancel, canCancel, recordSize, progressKey, signals>>

\* One turn of a loop that raises the progress while the dialog is coming up: it
\* is over at limit, on a timeout and on a cancel.  It is quick, telling full and
\* ending, before HAP_PULL_UP_TIME and after HAP_MIN_SHOW_TIME more; between the
\* two, or when the wall clock was set back, it sleeps and goes up by step.
Turn(p, limit, step, full, next) ==
    LET now == paste[p]
        ended == [now EXCEPT !.pc = next]
        up == now.value + step
    IN \E quick \in BOOLEAN :
         paste' =
            CASE now.value >= limit \/ remoteTask -> [paste EXCEPT ![p] = ended]
              [] now.value < limit /\ ~remoteTask /\ quick ->
                    UpdateProgress(p, [ended EXCEPT !.early = @ \/ (full = 100 /\ limit < 100)], full)
              [] now.value < limit /\ ~remoteTask /\ ~quick /\ needCancel -> [paste EXCEPT ![p] = ended]
              [] OTHER -> UpdateProgress(p, [now EXCEPT !.value = up], up)

ProgressSmoothToTwentyPercent(p) ==
    /\ paste[p].pc = "smooth"
    /\ Turn(p, 20, UPDATE_PERCENT, IF HasUri(p) THEN 20 ELSE 100, "after")
    /\ UNCHANGED <<flags, recordSize, progressKey, listener, signals>>

ProgressAfterTwentyPercent(p) ==
    /\ paste[p].pc = "after"
    /\ IF paste[p].clip = <<>>
       THEN /\ paste' = [paste EXCEPT ![p].pc = "finish", ![p].ret = "nodata"]
            /\ UNCHANGED <<canCancel, recordSize>>
       ELSE IF HasUri(p)
       THEN /\ paste' = [paste EXCEPT ![p].pc = "copy", ![p].processed = 0]
            /\ canCancel' = TRUE /\ recordSize' = Len(paste[p].clip)
       ELSE /\ paste' = [paste EXCEPT ![p].pc = "without", ![p].value = 20]
            /\ UNCHANGED <<canCancel, recordSize>>
    /\ UNCHANGED <<isPasting, remoteTask, needCancel, progressKey, listener, signals>>

SetProgressWithoutFile(p) ==
    /\ paste[p].pc = "without"
    /\ Turn(p, 100, UPDATE_PERCENT_WITHOUT_FILE, 100, "finish")
    /\ UNCHANGED <<flags, recordSize, progressKey, listener, signals>>

Finish(p) ==
    /\ paste[p].pc = "finish"
    /\ GiveBack(p, IF remoteTask THEN "abnormal" ELSE paste[p].ret)
    /\ remoteTask' = FALSE /\ isPasting' = FALSE
    /\ UNCHANGED <<needCancel, canCancel, recordSize, progressKey, signals>>

-----------------------------------------------------------------------------
(* CopyPasteData.  fate says of each record whether it is still here, was  *)
(* left alone, is there, or was taken out of the clip and why.             *)

Current(p) == paste[p].processed + 1
Decide(new, i, fate) ==
    [new EXCEPT !.pc = "copy", !.processed = i, !.copied = 0, !.fate[i] = fate]

NextRecord(p) ==
    /\ paste[p].pc = "copy" /\ paste[p].processed < Len(paste[p].clip)
    /\ LET i == Current(p)
           new == paste[p]
       IN paste' = [paste EXCEPT ![p] =
            CASE needCancel -> Decide(new, i, "cancelled")
              [] ~needCancel /\ new.clip[i] = "text" -> Decide(new, i, "left")
              [] OTHER -> [new EXCEPT !.pc = "copying"]]
    /\ UNCHANGED <<flags, recordSize, progressKey, listener, signals>>

\* InitCopyInfo finds the file at the destination and FILE_SKIP is asked for.
SkipExisting(p) ==
    /\ paste[p].pc = "copy" /\ paste[p].processed < Len(paste[p].clip) /\ ~needCancel
    /\ paste[p].skip /\ paste[p].clip[Current(p)] # "text"
    /\ paste' = [paste EXCEPT ![p] = Decide(paste[p], Current(p), "skipped")]
    /\ UNCHANGED <<flags, recordSize, progressKey, listener, signals>>

OnProgressNotify(percentage) == (percentage * 8) \div 10 + 20

\* Mutant: the progress of the current file is told as that of the whole.
TotalOfOne(i, percentage) == percentage

TotalProgress(i, percentage) == ((i - 1) * 100 + percentage) \div recordSize

\* FileCopyManager reports more of the file: HandleProgress.  A thread asks for a
\* cancel, which may be refused.
HandleProgress(p) ==
    /\ paste[p].pc = "copying" /\ paste[p].copied < 100
    /\ LET new == [paste[p] EXCEPT !.copied = @ + 50]
       IN IF recordSize = 0
          THEN paste' = [paste EXCEPT ![p] = new] /\ UNCHANGED canCancel
          ELSE IF needCancel /\ canCancel
          THEN paste' = [paste EXCEPT ![p] = new] /\ canCancel' \in BOOLEAN
          ELSE /\ paste' = UpdateProgress(p, new,
                               OnProgressNotify(LET all == TotalProgress(Current(p), new.copied)
                                                IN IF all > 100 THEN 100 ELSE all))
               /\ UNCHANGED canCancel
    /\ UNCHANGED <<isPasting, remoteTask, needCancel, recordSize, progressKey, listener, signals>>

\* Mutant: the clip keeps every record and forgets the error, as for pictures.
KeepFailed(p, ret) ==
    IF needCancel THEN Decide([paste[p] EXCEPT !.ret = ret], Current(p), "cancelled")
    ELSE Decide([paste[p] EXCEPT !.ret = "ok"], Current(p), IF ret = "ok" THEN "there" ELSE "failed")

\* The record after Copy has returned ret.  A copy that was stopped is one a cancel has
\* left out, also when another paste has reset needCancel_ since.
ShouldKeepRecord(p, ret) ==
    LET new == [paste[p] EXCEPT !.ret = ret]
        i == Current(p)
    IN CASE ret = "ok" /\ ~needCancel -> Decide(new, i, "there")
         [] ret # "ok" /\ ~needCancel /\ new.clip[i] = "picture" ->
               Decide([new EXCEPT !.ret = "ok"], i, "left")
         [] needCancel -> Decide(new, i, "cancelled")
         [] OTHER -> Decide(new, i, IF ret = "stopped" THEN "cancelled" ELSE "failed")

\* A cancelled copy answers DFS_CANCEL_SUCCESS, which counts as ok.
CopyFile(p) ==
    /\ paste[p].pc = "copying"
    /\ \/ paste[p].copied = 100 /\ paste' = [paste EXCEPT ![p] = ShouldKeepRecord(p, "ok")]
       \/ paste' = [paste EXCEPT ![p] = ShouldKeepRecord(p, "error")]
       \/ ~canCancel /\ paste' = [paste EXCEPT ![p] = ShouldKeepRecord(p, "stopped")]
    /\ UNCHANGED <<flags, recordSize, progressKey, listener, signals>>

CopyDone(p) ==
    /\ paste[p].pc = "copy" /\ paste[p].processed = Len(paste[p].clip)
    /\ paste' = UpdateProgress(p, [paste[p] EXCEPT !.pc = "finish",
                                      !.ret = IF @ = "error" THEN "copyfailed" ELSE "ok"], 100)
    /\ recordSize' = 0
    /\ UNCHANGED <<flags, progressKey, listener, signals>>

-----------------------------------------------------------------------------
(* HandleSignalValue: the dialog's user cancels, or the dialog reports a   *)
(* timeout, or an application calls Cancel; all of it may come late, when  *)
(* another paste has begun.                                                *)
Signal ==
    /\ signals < MaxSignals /\ signals' = signals + 1
    /\ \E p \in Pastes : paste[p].pc # "none"
    /\ \/ needCancel' = TRUE /\ UNCHANGED remoteTask
       \/ /\ \E p \in Pastes : paste[p].to = "dialog"
          /\ remoteTask' = TRUE /\ UNCHANGED needCancel
    /\ paste' = [p \in Pastes |-> [paste[p] EXCEPT !.disturbed = @ \/ paste[p].pc # "over"]]
    /\ UNCHANGED <<isPasting, canCancel, recordSize, progressKey, listener>>

PasteStep(p) ==
    \/ CheckProgressParam(p) \/ StartPaste(p) \/ GetPasteDataFromService(p)
    \/ ProgressSmoothToTwentyPercent(p) \/ ProgressAfterTwentyPercent(p)
    \/ SetProgressWithoutFile(p) \/ Finish(p)
    \/ NextRecord(p) \/ SkipExisting(p) \/ HandleProgress(p) \/ CopyFile(p) \/ CopyDone(p)

ProgressNext ==
    \/ \E p \in Pastes : Begin(p) \/ PasteStep(p)
    \/ Signal

-----------------------------------------------------------------------------
(* The percentages that a paste's listener hears do not fall, and the last *)
(* one of a paste of the dialog, napi or C that ends well is 100, also     *)
(* over the change from waiting for the dialog to copying files one after  *)
(* the other, unless the paste ran while another was asked for, was        *)
(* signalled, or is without files and was told finished just before        *)
(* HAP_PULL_UP_TIME.  Nothing is promised to a listener of taihe, which    *)
(* hears nothing: GetDataWithProgressImpl registers its parameters only    *)
(* after the paste, and ForwardProgressNotify finds none until then.       *)
ProgressHeard ==
    \A p \in Pastes :
        LET k == paste[p]
        IN Undisturbed(p)
             => /\ k.fell => k.early
                /\ k.result = "ok" /\ k.to # "taihe" => k.heard = 100

(* A paste that is told it went well has every file of its clip at the     *)
(* destination, but for those that were there already and those a cancel   *)
(* has left out; a copy that failed is hidden by a later one that did not. *)
FilesComplete ==
    \A p \in Pastes :
        paste[p].result = "ok" =>
            \A i \in DOMAIN paste[p].fate :
                paste[p].fate[i] = "failed" =>
                    \E j \in DOMAIN paste[p].fate :
                        /\ j > i /\ paste[p].clip[j] # "text"
                        /\ paste[p].fate[j] \in {"there", "left", "cancelled"}

=============================================================================
