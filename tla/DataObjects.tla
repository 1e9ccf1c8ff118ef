---------------------------- MODULE DataObjects ----------------------------
(***************************************************************************)
(* Clips and records as an application builds them through the bindings:   *)
(* objects on a heap, of which a clip holds references.  The numbers that  *)
(* records are given decide which record, and which of the application's   *)
(* getters, a later paste is given.  Values and types are in PasteRecord.  *)
(***************************************************************************)
EXTENDS Naturals, SequencesExt

CONSTANTS MaxRecords, MaxClips, MaxNumber   \* bounds on records and clips made, and recordId_

ASSUME ObjectsAssumption == MaxRecords \in Nat /\ MaxClips \in Nat /\ MaxNumber \in Nat

VARIABLES
    heap,    \* records: recordId_, and the record whose entry getter it has, or 0
    clips    \* clips: references to records, recordId_, and whether it is loose

objectVars == <<heap, clips>>

ObjectsInit == heap = <<>> /\ clips = <<>>

Room == Len(heap) < MaxRecords
Fresh == Len(heap) + 1
InClip(r) == {c \in DOMAIN clips : r \in ToSet(clips[c].records)}

-----------------------------------------------------------------------------
(* PasteData.                                                              *)

\* Mutant: a record is numbered by its place.
AddByPlace(clip, r, recs) ==
    <<[clip EXCEPT !.records = <<r>> \o @], [recs EXCEPT ![r].id = Len(clip.records) + 1]>>

\* The clip and the records when r is added, outside of the service at the front.
AddRecord(clip, r, recs) ==
    <<[clip EXCEPT !.last = @ + 1, !.records = <<r>> \o @], [recs EXCEPT ![r].id = clip.last + 1]>>

EmptyClip == [records |-> <<>>, last |-> 0, loose |-> FALSE]

GetRecordById(clip, id) ==
    LET found == {i \in DOMAIN clip.records : heap[clip.records[i]].id = id}
    IN IF found = {} THEN 0 ELSE clip.records[Min(found)]

\* SetData of napi and taihe: emplace keeps the first getter of a number.
EntryGetter(clip, id) ==
    LET found == {i \in DOMAIN clip.records :
                     heap[clip.records[i]].id = id /\ heap[clip.records[i]].getter # 0}
    IN IF found = {} THEN 0 ELSE heap[clip.records[Min(found)]].getter

-----------------------------------------------------------------------------
(* Making records and clips.                                               *)

NewRecord(getter) == Append(heap, [id |-> 0, getter |-> getter])
Own == {0, Fresh}   \* without a getter, or with one of its own

CreateRecord ==
    /\ Room
    /\ \E g \in Own : heap' = NewRecord(g)
    /\ UNCHANGED clips

\* The clip c, or one that is made, with a new record in it.
Install(c, added) ==
    /\ clips' = IF c > Len(clips) THEN Append(clips, added[1]) ELSE [clips EXCEPT ![c] = added[1]]
    /\ heap' = added[2]

CreateData ==
    /\ Room /\ Len(clips) < MaxClips
    /\ \E g \in Own : Install(Len(clips) + 1, AddRecord(EmptyClip, Fresh, NewRecord(g)))

\* AddTextRecord and its like.
AddNewRecord(c) ==
    /\ Room /\ clips[c].last < MaxNumber
    /\ Install(c, AddRecord(clips[c], Fresh, NewRecord(0)))

\* napi: ParseRecord makes another record, which has the getter of the first.
NapiAddRecord(c, r) ==
    /\ Room /\ clips[c].last < MaxNumber
    /\ Install(c, AddRecord(clips[c], Fresh, NewRecord(heap[r].getter)))

\* taihe and Cangjie: the record itself, which may be in a clip already and is
\* given its number in this one.
AddSameRecord(c, r) ==
    LET added == AddRecord(clips[c], r, heap)
        shared == IF InClip(r) = {} THEN {} ELSE InClip(r) \cup {c}
    IN /\ clips[c].last < MaxNumber
       /\ heap' = added[2]
       /\ clips' = [k \in DOMAIN clips |->
                       LET clip == IF k = c THEN added[1] ELSE clips[k]
                       IN [clip EXCEPT !.loose = @ \/ k \in shared]]

-----------------------------------------------------------------------------
(* Changing clips.                                                         *)

RemoveRecordAt(c, i) ==
    /\ clips' = [clips EXCEPT ![c].records = RemoveAt(@, i)]
    /\ UNCHANGED heap

\* A replacement keeps whatever number it has.
ReplaceRecordAt(c, i, r) ==
    clips' = [clips EXCEPT ![c].records = ReplaceAt(@, i, r), ![c].loose = TRUE]

NapiReplaceRecord(c, i, r) ==
    /\ Room
    /\ heap' = NewRecord(heap[r].getter)
    /\ ReplaceRecordAt(c, i, Fresh)

ReplaceBySame(c, i, r) ==
    /\ ReplaceRecordAt(c, i, r)
    /\ UNCHANGED heap

\* The clip is copied and pasted: records of their own with the same numbers, and
\* without getters, in a clip that goes on numbering where the first stopped.
GetData(c) ==
    LET n == Len(clips[c].records)
    IN /\ Len(clips) < MaxClips /\ Len(heap) + n <= MaxRecords
       /\ heap' = heap \o [i \in 1 .. n |-> [id |-> heap[clips[c].records[i]].id, getter |-> 0]]
       /\ clips' = Append(clips, [clips[c] EXCEPT !.records = [i \in 1 .. n |-> Len(heap) + i]])

ObjectsNext ==
    \/ CreateRecord \/ CreateData
    \/ \E c \in DOMAIN clips :
         \/ AddNewRecord(c) \/ GetData(c)
         \/ \E r \in DOMAIN heap : NapiAddRecord(c, r) \/ AddSameRecord(c, r)
         \/ \E i \in DOMAIN clips[c].records :
              \/ RemoveRecordAt(c, i)
              \/ \E r \in DOMAIN heap : NapiReplaceRecord(c, i, r) \/ ReplaceBySame(c, i, r)

-----------------------------------------------------------------------------
(* The number of a record leads the service back to that record and the    *)
(* application to that record's getter, after any adding, removing and     *)
(* pasting, unless a record of the clip was put in by ReplaceRecordAt, or  *)
(* was given a number twice because it is in two clips or twice in one.    *)
NumbersLeadBack ==
    \A c \in DOMAIN clips :
        ~clips[c].loose =>
            \A i \in DOMAIN clips[c].records :
                LET r == clips[c].records[i]
                IN /\ GetRecordById(clips[c], heap[r].id) = r
                   /\ heap[r].getter # 0 => EntryGetter(clips[c], heap[r].id) = heap[r].getter

=============================================================================
