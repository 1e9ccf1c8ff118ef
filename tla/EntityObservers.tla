-------------------------- MODULE EntityObservers --------------------------
(***************************************************************************)
(* Entity recognition (pasteboard_service.cpp): observers ask to be told   *)
(* of the addresses found in copied text up to a length; each copy's text  *)
(* is analysed on a thread of its own, later.                              *)
(***************************************************************************)
EXTENDS Naturals, FiniteSets, SequencesExt

CONSTANTS Procs, Lengths, Sizes,     \* processes; expected lengths; sizes of a record's text
          MAX_RECOGNITION_LENGTH, MAX_ENTITY_OBSERVER_COUNT,
          MaxHandles, MaxTexts       \* observer objects; copies

ASSUME EntityAssumption ==
    /\ Lengths \subseteq Nat /\ Sizes \subseteq Nat
    /\ {MAX_RECOGNITION_LENGTH, MAX_ENTITY_OBSERVER_COUNT, MaxHandles, MaxTexts} \subseteq Nat

VARIABLES
    entityObservers,  \* entityObserverMap_: per process a list of length and observer
    current,          \* the observer a process last subscribed for a length, 0 if none
    handles,          \* observers made so far
    texts, tasks,     \* copies so far; texts that wait to be analysed: number and size
    heard             \* the last notification: observers, lengths, size

entityVars == <<entityObservers, current, handles, texts, tasks, heard>>

EntityInit ==
    /\ entityObservers = [p \in Procs |-> <<>>]
    /\ current = [p \in Procs |-> [n \in Lengths |-> 0]]
    /\ handles = 0 /\ texts = 0 /\ tasks = {} /\ heard = {}

-----------------------------------------------------------------------------
(* Subscriptions.                                                          *)

Info(n, handle) == [expectedDataLength |-> n, observer |-> handle]
PlaceOf(list, n) == {i \in DOMAIN list : list[i].expectedDataLength = n}

Subscribes(p, n, list) ==
    /\ handles < MaxHandles /\ handles' = handles + 1
    /\ entityObservers' = [entityObservers EXCEPT ![p] = list]
    /\ current' = IF list = entityObservers[p] THEN current
                  ELSE [current EXCEPT ![p][n] = handles + 1]
    /\ UNCHANGED <<texts, tasks, heard>>

\* Mutant: an observer for the same length is added to the list.
SubscribeAnother(p, n) ==
    /\ n <= MAX_RECOGNITION_LENGTH
    /\ Len(entityObservers[p]) < MAX_ENTITY_OBSERVER_COUNT
    /\ Subscribes(p, n, Append(entityObservers[p], Info(n, handles + 1)))

\* One that is there for the type and the length is replaced, whatever the limit.
SubscribeEntityObserver(p, n) ==
    LET list == entityObservers[p]
    IN  /\ n <= MAX_RECOGNITION_LENGTH
        /\ \/ /\ PlaceOf(list, n) # {}
              /\ Subscribes(p, n, [i \in DOMAIN list |->
                                     IF i \in PlaceOf(list, n) THEN Info(n, handles + 1) ELSE list[i]])
           \/ /\ PlaceOf(list, n) = {}
              /\ Subscribes(p, n, IF Len(list) >= MAX_ENTITY_OBSERVER_COUNT THEN list
                                  ELSE Append(list, Info(n, handles + 1)))

\* The object passed is not compared.
UnsubscribeEntityObserver(p, n) ==
    /\ \E i \in PlaceOf(entityObservers[p], n) :
          entityObservers' = [entityObservers EXCEPT ![p] = RemoveAt(@, i)]
    /\ current' = [current EXCEPT ![p][n] = 0]
    /\ UNCHANGED <<handles, texts, tasks, heard>>

\* AppExit.
ProcessExits(p) ==
    /\ entityObservers[p] # <<>>
    /\ entityObservers' = [entityObservers EXCEPT ![p] = <<>>]
    /\ current' = [current EXCEPT ![p] = [n \in Lengths |-> 0]]
    /\ UNCHANGED <<handles, texts, tasks, heard>>

-----------------------------------------------------------------------------
(* Copies and their analysis.                                              *)

\* The limit is looked at before a record is added, and not after the last one.
AddText(limit, size, more) ==
    IF size.over \/ size.n > limit THEN [n |-> 0, over |-> TRUE] ELSE [size EXCEPT !.n = @ + more]

GetAllPrimaryText(records) ==
    FoldLeft(LAMBDA size, more : AddText(MAX_RECOGNITION_LENGTH, size, more),
             [n |-> 0, over |-> FALSE], records).n

\* After SaveData, also when it has failed.
RecognizePasteData(records, inApp) ==
    /\ texts < MaxTexts /\ texts' = texts + 1
    /\ \E p \in Procs : entityObservers[p] # <<>>
    /\ LET size == GetAllPrimaryText(records)
       IN tasks' = IF inApp \/ size = 0 THEN tasks ELSE tasks \cup {[text |-> texts', size |-> size]}
    /\ UNCHANGED <<entityObservers, current, handles, heard>>

\* A process that has lost the permission since is passed over.
NotifyEntityObservers(size, permitted) ==
    UNION {{[current |-> current[p][o.expectedDataLength], observer |-> o.observer,
             length |-> o.expectedDataLength, size |-> size] :
                o \in {o \in Range(entityObservers[p]) : size \in 0 .. o.expectedDataLength}} :
           p \in permitted}

\* entityRecognizeMutex_ orders the threads somehow; the engine may fail or find nothing.
ExtractEntity == BOOLEAN

OnRecognizePasteData(task) ==
    /\ task \in tasks /\ tasks' = tasks \ {task}
    /\ \E found \in ExtractEntity, permitted \in SUBSET Procs :
          heard' = IF found THEN NotifyEntityObservers(task.size, permitted) ELSE {}
    /\ UNCHANGED <<entityObservers, current, handles, texts>>

EntityNext ==
    \/ \E p \in Procs :
          \/ \E n \in Lengths : SubscribeEntityObserver(p, n) \/ UnsubscribeEntityObserver(p, n)
          \/ ProcessExits(p)
    \/ \E records \in UNION {[1..k -> Sizes] : k \in 1..2}, inApp \in BOOLEAN :
          RecognizePasteData(records, inApp)
    \/ \E task \in tasks : OnRecognizePasteData(task)

-----------------------------------------------------------------------------
\* Whoever is told of an entity is the observer its process last subscribed for its length
\* and has not unsubscribed, the text is no longer than it asked for and within
\* MAX_RECOGNITION_LENGTH, even though GetAllPrimaryText may return a longer one
\* (SubscribeEntityObserver, NotifyEntityObservers).
LatestObserverTold ==
    \A h \in heard : /\ h.observer = h.current
                     /\ h.size <= h.length /\ h.size <= MAX_RECOGNITION_LENGTH

=============================================================================
