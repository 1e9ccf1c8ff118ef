-------------------------- MODULE ObserverHandles --------------------------
(***************************************************************************)
(* How the bindings keep the observers of an application: each of them     *)
(* wraps a callback in an observer of its own, gives that to the client    *)
(* library, and must find it again when the callback is taken back.        *)
(***************************************************************************)
EXTENDS Naturals, Sequences

CONSTANTS
    Callbacks,
    AppThreads,    \* the threads of the application that use a binding
    MaxObservers   \* bound on observers ever made

ASSUME HandlesAssumption == MaxObservers \in Nat

Types == {"local", "remote"}
Bindings == {"napi", "taihe", "ndk"}

VARIABLES
    observers,    \* every observer made: its binding, callback, type and thread
    lists,        \* the observers that the localObservers_ and remoteObservers_ of a
                  \* thread, or the observers_ of the C pasteboard, still know
    observerSet,  \* observerSet_ of the client library: observers with a type
    stuck,        \* observers that the client library was asked in vain to forget
    pasteboard,        \* whether the C pasteboard is there
    gone,         \* C observers that were destroyed
    endedThreads  \* threads of the application that have ended

handleVars == <<observers, lists, observerSet, stuck, pasteboard, gone, endedThreads>>

HandlesInit ==
    /\ observers = <<>> /\ lists = {} /\ observerSet = {} /\ stuck = {}
    /\ pasteboard = TRUE /\ gone = {} /\ endedThreads = {}

\* What thread t of the application sees of the lists: those of napi and taihe are
\* thread_local, the C pasteboard is the same for all.
Seen(t) == {o \in lists : observers[o].by = "ndk" \/ observers[o].thread = t}

\* GetObserver: a C pasteboard has one observer for a callback, whatever its type.
Found(t, b, cb, type) ==
    {o \in Seen(t) : /\ observers[o].by = b /\ observers[o].cb = cb
                     /\ b # "ndk" => observers[o].type = type}

Listed(t, b, type) == {o \in Seen(t) : observers[o].by = b /\ observers[o].type = type}

-----------------------------------------------------------------------------
(* Client library: either call may fail for want of a service.             *)

Subscribe(o, type) ==
    \/ observerSet' = observerSet \cup {<<o, type>>}
    \/ UNCHANGED observerSet

\* taken: the observers and the types they are taken back with.
Unsubscribe(taken) ==
    \E failed \in SUBSET taken :
        /\ observerSet' = observerSet \ (taken \ failed)
        /\ stuck' = stuck \cup {t[1] : t \in failed}

-----------------------------------------------------------------------------
\* On and OnRemoteUpdate; OH_Pasteboard_Subscribe.  A failed subscription is kept.
On(t, b, cb, type) ==
    /\ Len(observers) < MaxObservers
    /\ b = "ndk" => pasteboard /\ cb \notin gone
    /\ Found(t, b, cb, type) = {}
    /\ observers' = Append(observers, [by |-> b, cb |-> cb, type |-> type, thread |-> t])
    /\ lists' = lists \cup {Len(observers) + 1}
    /\ Subscribe(Len(observers) + 1, type)
    /\ UNCHANGED <<stuck, pasteboard, gone, endedThreads>>

\* Off and OffRemoteUpdate with a callback.
Off(t, b, cb, type) ==
    /\ b # "ndk"
    /\ \E o \in Found(t, b, cb, type) :
         /\ lists' = lists \ {o}
         /\ Unsubscribe({<<o, type>>})
    /\ UNCHANGED <<observers, pasteboard, gone, endedThreads>>

\* Mutant: the list is emptied, the first observer only is taken back.
OffFirst(t, b, type) ==
    /\ b # "ndk" /\ Listed(t, b, type) # {}
    /\ \E o \in Listed(t, b, type) : Unsubscribe({<<o, type>>})
    /\ lists' = lists \ Listed(t, b, type)
    /\ UNCHANGED <<observers, pasteboard, gone, endedThreads>>

\* Without a callback, all of this thread.
OffAll(t, b, type) ==
    /\ b # "ndk" /\ Listed(t, b, type) # {}
    /\ Unsubscribe(Listed(t, b, type) \X {type})
    /\ lists' = lists \ Listed(t, b, type)
    /\ UNCHANGED <<observers, pasteboard, gone, endedThreads>>

\* OH_Pasteboard_Unsubscribe: with the type it is given, which may not be the one
\* the observer was subscribed with.
NdkUnsubscribe(t, cb, type) ==
    /\ pasteboard
    /\ \E o \in Found(t, "ndk", cb, type) :
         /\ lists' = lists \ {o}
         /\ IF observers[o].type = type
            THEN Unsubscribe({<<o, type>>})
            ELSE stuck' = stuck \cup {o} /\ UNCHANGED observerSet
    /\ UNCHANGED <<observers, pasteboard, gone, endedThreads>>

OH_Pasteboard_Destroy ==
    LET all == {o \in lists : observers[o].by = "ndk"}
    IN /\ pasteboard /\ pasteboard' = FALSE
       /\ lists' = lists \ all
       /\ Unsubscribe({<<o, observers[o].type>> : o \in all})
       /\ UNCHANGED <<observers, gone, endedThreads>>

\* Subscribed or not.
OH_PasteboardObserver_Destroy(cb) ==
    /\ cb \notin gone /\ gone' = gone \cup {cb}
    /\ UNCHANGED <<observers, lists, observerSet, stuck, pasteboard, endedThreads>>

\* The lists of the thread are destroyed with it; nothing takes their observers back.
AppThreadEnds(t) ==
    /\ endedThreads' = endedThreads \cup {t}
    /\ lists' = {o \in lists : observers[o].by = "ndk" \/ observers[o].thread # t}
    /\ UNCHANGED <<observers, observerSet, stuck, pasteboard, gone>>

HandlesNext ==
    \/ \E t \in AppThreads \ endedThreads :
         \/ \E b \in Bindings, cb \in Callbacks, type \in Types : On(t, b, cb, type) \/ Off(t, b, cb, type)
         \/ \E b \in Bindings, type \in Types : OffAll(t, b, type)
         \/ \E cb \in Callbacks, type \in Types : NdkUnsubscribe(t, cb, type)
         \/ OH_Pasteboard_Destroy
         \/ \E cb \in Callbacks : OH_PasteboardObserver_Destroy(cb)
         \/ AppThreadEnds(t)

-----------------------------------------------------------------------------
(* No observer is left with the client library that no one has a way to    *)
(* take back, and whose callback would be called for ever: the thread that *)
(* subscribed it has it in its lists as long as it lives, and the C        *)
(* pasteboard has it until it is destroyed, which takes it back.  Excepted *)
(* are an observer that was taken back while the service was not there, or *)
(* by a C application that named another type than it had subscribed with; *)
(* and those of napi and taihe whose thread has ended, since the lists are *)
(* thread_local and nothing empties them at its end.                       *)
NoOrphans ==
    \A s \in observerSet :
        LET o == s[1]
        IN \/ o \in stuck
           \/ IF observers[o].by = "ndk" THEN o \in lists /\ pasteboard
              ELSE observers[o].thread \in endedThreads \/ o \in Seen(observers[o].thread)

=============================================================================
