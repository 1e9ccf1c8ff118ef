----------------------------- MODULE MCBindings -----------------------------
(***************************************************************************)
(* One instance of each of the four models of the application's side.      *)
(* They share no state, so that the order of steps of different models is  *)
(* of no importance: a behaviour follows one of them, chosen at the start, *)
(* and the other three stay in their initial states.                       *)
(***************************************************************************)
EXTENDS ApiCalls, ProgressPaste, DataObjects, ObserverHandles

VARIABLE part

vars == <<part, apiVars, progressVars, objectVars, handleVars>>

Request(to, skip, clip) == [to |-> to, skip |-> skip, clip |-> clip]

\* Text; a file and a picture of html, which are skipped when they are there; two
\* files; and nothing.
SomeRequests ==
    {Request("ndk", FALSE, <<"text">>),
     Request("dialog", TRUE, <<"file", "picture">>),
     Request("napi", FALSE, <<"file", "file">>),
     Request("taihe", FALSE, <<>>)}

Init ==
    /\ ApiInit /\ ProgressInit /\ ObjectsInit /\ HandlesInit
    /\ part \in {"calls", "progress", "objects", "observers"}

Next ==
    /\ UNCHANGED part
    /\ \/ part = "calls" /\ ApiNext /\ UNCHANGED <<progressVars, objectVars, handleVars>>
       \/ part = "progress" /\ ProgressNext /\ UNCHANGED <<apiVars, objectVars, handleVars>>
       \/ part = "objects" /\ ObjectsNext /\ UNCHANGED <<apiVars, progressVars, handleVars>>
       \/ part = "observers" /\ HandlesNext /\ UNCHANGED <<apiVars, progressVars, objectVars>>

Spec == Init /\ [][Next]_vars /\ ApiFairness

=============================================================================
