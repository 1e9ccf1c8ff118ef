---------------------------- MODULE ServiceClient ----------------------------
(***************************************************************************)
(* The client library's connection to the pasteboard service and its       *)
(* observers, over crashes of the service and of clients: the proxy that   *)
(* PasteboardServiceLoader caches, PasteboardClient's list of observers,   *)
(* the listener that subscribes them again at a restarted service, and the *)
(* observer maps of the service.                                           *)
(*                                                                         *)
(* A client has three threads: the application's, the one that delivers    *)
(* notices of the system ability manager, and the one that delivers the    *)
(* answer to a load request.  Bits of an observer type are maps.           *)
(***************************************************************************)
EXTENDS Integers, Sequences, FiniteSets

CONSTANTS
    Clients, Observers,
    Types,          \* observer types that are asked for, sets of maps
    MaxObservers,   \* MAX_OBSERVER_COUNT
    MaxStops, MaxCalls   \* bounds on stops of the service and calls of a client

Maps == {"local", "remote", "event"}
Threads == {"app", "samgr", "load"}
Ops == {"Subscribe", "Unsubscribe", "UnsubscribeAll", "DetachPasteboard"}

ASSUME ClientAssumption ==
    /\ \A type \in Types : type = {"event"} \/ type \subseteq Maps \ {"event"}
    /\ MaxObservers \in Nat /\ MaxStops \in Nat /\ MaxCalls \in Nat

Idle == [pc |-> "idle", op |-> "none", type |-> {}, obs |-> "none", proxy |-> 0,
         left |-> {}, ok |-> FALSE, todo |-> {}]

VARIABLES
    sa,            \* which incarnation of the service is running, 0 for none
    stops, calls,
    registered,    \* <<map, client, observer>> in the observer maps of the service
    clients,       \* clients_: whose death the service will hear of
    alive,
    haps,          \* clients that are applications, the others are trusted services
    proxy,         \* pasteboardServiceProxy_, an incarnation or 0
    holder,        \* the thread that has instanceLock_, or "none"
    constructing,  \* constructing_
    loading,       \* a load request is not answered yet
    watched,       \* incarnations that have this client's death recipient
    died,          \* a death notice of the service is under way
    observerSet,   \* observerSet_: <<type, observer>>
    listening,     \* isSubscribeSa_
    hasDied,       \* hasDied_ of the listener
    notices,       \* notices of the ability manager under way
    at,            \* where each thread is
    promised,      \* observers whose Subscribe has returned true
    lost           \* what has gone wrong for a client, see the properties

service == <<sa, stops, registered, clients>>
loader == <<proxy, holder, constructing, loading, watched, died>>
client == <<observerSet, listening, hasDied, notices>>
ghosts == <<promised, lost>>
vars == <<service, haps, calls, alive, loader, client, at, ghosts>>

Init ==
    /\ sa = 0 /\ stops = 0 /\ registered = {} /\ clients = {}
    /\ haps \in SUBSET Clients
    /\ calls = [c \in Clients |-> 0]
    /\ alive = [c \in Clients |-> TRUE]
    /\ proxy = [c \in Clients |-> 0]
    /\ holder = [c \in Clients |-> "none"]
    /\ constructing = [c \in Clients |-> FALSE]
    /\ loading = [c \in Clients |-> FALSE]
    /\ watched = [c \in Clients |-> {}]
    /\ died = [c \in Clients |-> FALSE]
    /\ observerSet = [c \in Clients |-> {}]
    /\ listening = [c \in Clients |-> FALSE]
    /\ hasDied = [c \in Clients |-> FALSE]
    /\ notices = [c \in Clients |-> <<>>]
    /\ at = [c \in Clients |-> [t \in Threads |-> Idle]]
    /\ promised = [c \in Clients |-> {}]
    /\ lost = [c \in Clients |-> {}]

Go(c, t, pc) == at' = [at EXCEPT ![c][t].pc = pc]
Return(c, t) == at' = [at EXCEPT ![c][t] = Idle]
Blame(c, cause) == lost' = [lost EXCEPT ![c] = @ \cup {cause}]
Free(c) == alive[c] /\ holder[c] = "none"

-----------------------------------------------------------------------------
\* Calls of the application.

Call(c, op, type, obs) ==
    /\ alive[c] /\ at[c]["app"] = Idle
    /\ calls[c] < MaxCalls
    /\ op = "DetachPasteboard" <=> type = {}
    /\ calls' = [calls EXCEPT ![c] = @ + 1]
    /\ at' = [at EXCEPT ![c]["app"] = [Idle EXCEPT !.pc = "get", !.op = op, !.type = type, !.obs = obs]]
    /\ UNCHANGED <<haps, service, alive, loader, client, ghosts>>

-----------------------------------------------------------------------------
\* GetPasteboardService.

GetCached(c, t) ==
    /\ Free(c) /\ at[c][t].pc = "get"
    /\ proxy[c] # 0
    /\ at' = [at EXCEPT ![c][t].pc = "got", ![c][t].proxy = proxy[c]]
    /\ UNCHANGED <<haps, service, calls, alive, loader, client, ghosts>>

GetWhileLoading(c, t) ==
    /\ Free(c) /\ at[c][t].pc = "get"
    /\ proxy[c] = 0 /\ constructing[c]
    /\ Go(c, t, "wait")
    /\ UNCHANGED <<haps, service, calls, alive, loader, client, ghosts>>

\* A mutant of Connect: no death recipient is added.
ConnectUnwatched(c, t) ==
    /\ proxy' = [proxy EXCEPT ![c] = sa]
    /\ holder' = [holder EXCEPT ![c] = t]
    /\ at' = [at EXCEPT ![c][t].pc = "register", ![c][t].proxy = sa]
    /\ UNCHANGED watched

\* SetPasteboardServiceProxy up to its call of the service.
Connect(c, t) ==
    /\ watched' = [watched EXCEPT ![c] = @ \cup {sa}]
    /\ proxy' = [proxy EXCEPT ![c] = sa]
    /\ holder' = [holder EXCEPT ![c] = t]
    /\ at' = [at EXCEPT ![c][t].pc = "register", ![c][t].proxy = sa]

GetRunning(c, t) ==
    /\ Free(c) /\ at[c][t].pc = "get"
    /\ proxy[c] = 0 /\ ~constructing[c] /\ sa # 0
    /\ Connect(c, t)
    /\ UNCHANGED <<haps, service, calls, alive, constructing, loading, died, client, ghosts>>

GetByLoading(c, t) ==
    /\ Free(c) /\ at[c][t].pc = "get"
    /\ proxy[c] = 0 /\ ~constructing[c] /\ sa = 0
    /\ constructing' = [constructing EXCEPT ![c] = TRUE]
    /\ loading' = [loading EXCEPT ![c] = TRUE]
    /\ Go(c, t, "construct")
    /\ UNCHANGED <<haps, service, calls, alive, proxy, holder, watched, died, client, ghosts>>

\* The end of either wait: a proxy is there, or the time is up.
Waited(c, t) ==
    /\ Free(c) /\ at[c][t].pc \in {"wait", "construct"}
    /\ constructing' = [constructing EXCEPT ![c] = @ /\ at[c][t].pc = "wait"]
    /\ at' = [at EXCEPT ![c][t].pc = "got", ![c][t].proxy = proxy[c]]
    /\ UNCHANGED <<haps, service, calls, alive, proxy, holder, loading, watched, died, client, ghosts>>

\* LoadSystemAbilitySuccess and LoadSystemAbilityFail.
LoadSuccess(c) ==
    /\ Free(c) /\ loading[c] /\ sa # 0
    /\ loading' = [loading EXCEPT ![c] = FALSE]
    /\ Connect(c, "load")
    /\ UNCHANGED <<haps, service, calls, alive, constructing, died, client, ghosts>>

LoadFail(c) ==
    /\ Free(c) /\ loading[c] /\ sa = 0
    /\ loading' = [loading EXCEPT ![c] = FALSE]
    /\ proxy' = [proxy EXCEPT ![c] = 0]
    /\ UNCHANGED <<haps, service, calls, alive, holder, constructing, watched, died, client, at, ghosts>>

\* A mutant of Register: the failure returns with the lock held.
RegisterKeepsLock(c, t) ==
    /\ alive[c] /\ at[c][t].pc = "register"
    /\ IF at[c][t].proxy = sa
       THEN /\ clients' = clients \cup {c}
            /\ holder' = [holder EXCEPT ![c] = "none"]
            /\ UNCHANGED <<watched, died, lost>>
       ELSE /\ watched' = [watched EXCEPT ![c] = @ \ {at[c][t].proxy}]
            /\ died' = [died EXCEPT ![c] = FALSE]
            /\ Blame(c, "unregistered")
            /\ UNCHANGED <<clients, holder>>
    /\ IF t = "load" THEN Return(c, t) ELSE Go(c, t, "got")
    /\ UNCHANGED <<haps, sa, stops, registered, calls, alive, proxy, constructing, loading, client, promised>>

\* The rest of SetPasteboardServiceProxy: RegisterClientDeathObserver.  When
\* the call fails the proxy stays without a death recipient, and a death notice
\* that has not been taken up is dropped with it.
Register(c, t) ==
    /\ alive[c] /\ at[c][t].pc = "register"
    /\ holder' = [holder EXCEPT ![c] = "none"]
    /\ IF at[c][t].proxy = sa
       THEN clients' = clients \cup {c} /\ UNCHANGED <<watched, died, lost>>
       ELSE /\ watched' = [watched EXCEPT ![c] = @ \ {at[c][t].proxy}]
            /\ died' \in {died, [died EXCEPT ![c] = FALSE]}
            /\ Blame(c, "unregistered")
            /\ UNCHANGED clients
    /\ IF t = "load" THEN Return(c, t) ELSE Go(c, t, "got")
    /\ UNCHANGED <<haps, sa, stops, registered, calls, alive, proxy, constructing, loading, client, promised>>

\* OnRemoteSaDied.
OnRemoteSaDied(c) ==
    /\ Free(c) /\ died[c]
    /\ died' = [died EXCEPT ![c] = FALSE]
    /\ proxy' = [proxy EXCEPT ![c] = 0]
    /\ UNCHANGED <<haps, service, calls, alive, holder, constructing, loading, watched, client, at, ghosts>>

-----------------------------------------------------------------------------
\* What a call does with the proxy it has got.

\* observerSetMutex_ is held while all are subscribed again.
SetFree(c) == at[c]["samgr"].todo = {}

Unlisten(c) ==
    /\ listening' = [listening EXCEPT ![c] = FALSE]
    /\ hasDied' = [hasDied EXCEPT ![c] = FALSE]       \* a new listener is made next time
    /\ notices' = [notices EXCEPT ![c] = <<>>]

Send(c, t, call) == at' = [at EXCEPT ![c][t] = [call EXCEPT !.pc = "called", !.left = call.type]]

Subscribe(c) ==
    LET call == at[c]["app"] IN
    /\ alive[c] /\ call.pc = "got" /\ call.op = "Subscribe" /\ SetFree(c)
    /\ observerSet' = [observerSet EXCEPT ![c] = @ \cup {<<call.type, call.obs>>}]
    /\ IF call.proxy = 0 THEN Return(c, "app") ELSE Send(c, "app", call)
    /\ UNCHANGED <<haps, service, calls, alive, loader, listening, hasDied, notices, ghosts>>

Unsubscribe(c) ==
    LET call == at[c]["app"]
        rest == observerSet[c] \ {<<call.type, call.obs>>}
    IN /\ alive[c] /\ call.pc = "got" /\ call.op = "Unsubscribe" /\ SetFree(c)
       /\ call.proxy # 0
       /\ observerSet' = [observerSet EXCEPT ![c] = rest]
       /\ IF rest = {} THEN Unlisten(c) ELSE UNCHANGED <<listening, hasDied, notices>>
       /\ promised' = [promised EXCEPT ![c] = @ \ {<<call.type, call.obs>>}]
       /\ Send(c, "app", call)
       /\ UNCHANGED <<haps, service, calls, alive, loader, lost>>

\* A null callback: the client forgets every observer, of whatever type.
UnsubscribeAll(c) ==
    LET call == at[c]["app"] IN
    /\ alive[c] /\ call.pc = "got" /\ call.op = "UnsubscribeAll" /\ SetFree(c)
    /\ call.proxy # 0
    /\ observerSet' = [observerSet EXCEPT ![c] = {}]
    /\ promised' = [promised EXCEPT ![c] = {}]
    /\ IF \E x \in observerSet[c] : x[1] # call.type THEN Blame(c, "others") ELSE UNCHANGED lost
    /\ Send(c, "app", call)
    /\ UNCHANGED <<haps, service, calls, alive, loader, listening, hasDied, notices>>

Detach(c) ==
    LET call == at[c]["app"] IN
    /\ alive[c] /\ call.pc = "got" /\ call.op = "DetachPasteboard"
    /\ call.proxy # 0
    /\ Send(c, "app", call)
    /\ UNCHANGED <<haps, service, calls, alive, loader, client, ghosts>>

\* No proxy: the other calls have no effect.
GiveUp(c) ==
    LET call == at[c]["app"] IN
    /\ alive[c] /\ call.pc = "got" /\ call.op \in Ops \ {"Subscribe"}
    /\ call.proxy = 0
    /\ Return(c, "app")
    /\ UNCHANGED <<haps, service, calls, alive, loader, client, ghosts>>

\* ReleaseSaListener: the application gives up its listener and with it the restoring
\* of the observers it has; UnSubscribePasteboardSA, and once it has the lock
\* ReleaseDeathRecipient.  The cached proxy stays; a notice that has not been taken up
\* is dropped with the recipient.
ReleaseSaListener(c) ==
    /\ alive[c] /\ at[c]["app"] = Idle
    /\ calls[c] < MaxCalls
    /\ calls' = [calls EXCEPT ![c] = @ + 1]
    /\ Unlisten(c)
    /\ promised' = [promised EXCEPT ![c] = {}]
    /\ at' = [at EXCEPT ![c]["app"] = [Idle EXCEPT !.pc = "release"]]
    /\ UNCHANGED <<haps, service, alive, loader, observerSet, lost>>

ReleaseDeathRecipient(c) ==
    /\ Free(c) /\ at[c]["app"].pc = "release"
    /\ IF proxy[c] = 0 THEN UNCHANGED <<watched, died, lost>>
       ELSE /\ watched' = [watched EXCEPT ![c] = @ \ {proxy[c]}]
            /\ died' \in {died, [died EXCEPT ![c] = FALSE]}
            /\ Blame(c, "released")
    /\ Return(c, "app")
    /\ UNCHANGED <<haps, service, calls, alive, proxy, holder, constructing, loading, client, promised>>

-----------------------------------------------------------------------------
\* The service.  One bit of the type after the other, each under observerMutex_.

\* AddObserver.  Event observers are kept under the common user, the others
\* under the caller's: the limit is on what the caller has in all maps, but an
\* event observer is only held against other event observers.
Full(map, c) ==
    Cardinality({r \in registered : r[2] = c /\ (map = "event" => r[1] = map)}) >= MaxObservers

AddObserver(map, c, obs) ==
    IF Full(map, c) \/ (map = "event" /\ c \in haps) THEN registered
    ELSE registered \cup {<<map, c, obs>>}

RemoveSingleObserver(map, c, obs) == registered \ {<<map, c, obs>>}
RemoveObserverByPid(from, map, c) == {r \in from : r[1] # map \/ r[2] # c}

Adds(call) == call.op \in {"Subscribe", "Resubscribe"}

First(left) == IF "local" \in left THEN "local" ELSE IF "remote" \in left THEN "remote" ELSE "event"

\* A mutant of HandleBit: the bits are alternatives, the first is the only one.
HandleFirstBit(c, t) ==
    LET call == at[c][t]
        map == First(call.left)
    IN /\ call.pc = "called" /\ call.proxy = sa /\ call.left # {}
       /\ call.op # "DetachPasteboard"
       /\ registered' = CASE Adds(call) -> registered \cup {<<m, c, call.obs>> : m \in call.left}
                          [] OTHER -> registered \ {<<map, c, call.obs>>}
       /\ at' = [at EXCEPT ![c][t].left = {}, ![c][t].ok = Adds(call)]
       /\ UNCHANGED <<haps, sa, stops, clients, calls, alive, loader, client, ghosts>>

HandleBit(c, t) ==
    LET call == at[c][t]
        map == First(call.left)
    IN /\ call.pc = "called" /\ call.proxy = sa /\ call.left # {}
       /\ call.op # "DetachPasteboard"
       /\ registered' = CASE Adds(call) -> AddObserver(map, c, call.obs)
                          [] call.op = "Unsubscribe" -> RemoveSingleObserver(map, c, call.obs)
                          [] OTHER -> RemoveObserverByPid(registered, map, c)
       /\ at' = [at EXCEPT ![c][t].left = @ \ {map},
                           ![c][t].ok = @ \/ (Adds(call) /\ ~Full(map, c) /\ <<map, c, call.obs>> \in registered')]
       /\ IF call.op = "Resubscribe" /\ Full(map, c) /\ <<map, c, call.obs>> \notin registered THEN Blame(c, "full") ELSE UNCHANGED lost
       /\ UNCHANGED <<haps, sa, stops, clients, calls, alive, loader, client, promised>>

\* A mutant of AppExit: just the observers of local changes are removed.
AppExitLocal(c) ==
    /\ registered' = RemoveObserverByPid(registered, "local", c)
    /\ clients' = clients \ {c}

AppExit(c) ==
    /\ registered' = RemoveObserverByPid(RemoveObserverByPid(
                          RemoveObserverByPid(registered, "local", c), "remote", c), "event", c)
    /\ clients' = clients \ {c}

HandleDetach(c) ==
    LET call == at[c]["app"] IN
    /\ call.pc = "called" /\ call.proxy = sa
    /\ call.op = "DetachPasteboard"
    /\ AppExit(c)
    /\ at' = [at EXCEPT ![c]["app"].op = "none", ![c]["app"].left = {}]
    /\ Blame(c, "detached")
    /\ UNCHANGED <<haps, sa, stops, calls, alive, loader, client, promised>>

\* The death recipient of RegisterClientDeathObserver.
OnClientDied(c) ==
    /\ ~alive[c] /\ c \in clients
    /\ AppExit(c)
    /\ IF \E t \in Threads : Adds(at[c][t]) /\ at[c][t].pc = "called" THEN Blame(c, "dying") ELSE UNCHANGED lost
    /\ UNCHANGED <<haps, sa, stops, calls, alive, loader, client, at, promised>>

-----------------------------------------------------------------------------
\* The reply, or the failure of a call to a service that is gone.

Done(call) == call.pc = "called" /\ (call.proxy # sa \/ call.left = {})

SubscribePasteboardSA(c) ==
    /\ listening' = [listening EXCEPT ![c] = TRUE]
    /\ notices' = [notices EXCEPT ![c] = IF listening[c] \/ sa = 0 THEN @ ELSE Append(@, "added")]

Replied(c) ==
    LET call == at[c]["app"] IN
    /\ alive[c] /\ Done(call)
    /\ CASE call.op = "Subscribe" ->
              /\ SubscribePasteboardSA(c)
              /\ promised' = [promised EXCEPT ![c] = IF call.ok THEN @ \cup {<<call.type, call.obs>>} ELSE @]
              /\ IF call.proxy # sa /\ ~listening[c] THEN Blame(c, "missed") ELSE UNCHANGED lost
              /\ UNCHANGED hasDied
         [] call.op = "UnsubscribeAll" -> /\ Unlisten(c)
                                          /\ IF call.proxy # sa THEN Blame(c, "broken") ELSE UNCHANGED lost
                                          /\ UNCHANGED promised
         [] OTHER -> /\ IF call.proxy # sa THEN Blame(c, "broken") ELSE UNCHANGED lost
                     /\ UNCHANGED <<listening, hasDied, notices, promised>>
    /\ Return(c, "app")
    /\ UNCHANGED <<haps, service, calls, alive, loader, observerSet>>

-----------------------------------------------------------------------------
\* The listener.

\* A mutant of OnRemoveSystemAbility: the stop is not remembered.
OnRemoveForgotten(c) ==
    /\ alive[c] /\ at[c]["samgr"] = Idle
    /\ notices[c] # <<>> /\ Head(notices[c]) = "removed"
    /\ notices' = [notices EXCEPT ![c] = Tail(@)]
    /\ UNCHANGED <<haps, service, calls, alive, loader, observerSet, listening, hasDied, at, ghosts>>

OnRemoveSystemAbility(c) ==
    /\ alive[c] /\ at[c]["samgr"] = Idle
    /\ notices[c] # <<>> /\ Head(notices[c]) = "removed"
    /\ notices' = [notices EXCEPT ![c] = Tail(@)]
    /\ hasDied' = [hasDied EXCEPT ![c] = TRUE]
    /\ UNCHANGED <<haps, service, calls, alive, loader, observerSet, listening, at, ghosts>>

OnAddSystemAbility(c) ==
    /\ Free(c) /\ at[c]["samgr"] = Idle
    /\ notices[c] # <<>> /\ Head(notices[c]) = "added"
    /\ notices' = [notices EXCEPT ![c] = Tail(@)]
    /\ proxy' = [proxy EXCEPT ![c] = 0]
    /\ at' = [at EXCEPT ![c]["samgr"] = IF hasDied[c] THEN [Idle EXCEPT !.pc = "get", !.op = "Resubscribe"] ELSE @]
    /\ UNCHANGED <<haps, service, calls, alive, holder, constructing, loading, watched, died, observerSet,
                   listening, hasDied, ghosts>>

\* Resubscribe: nothing to do, or no service.
ResubscribeNone(c) ==
    LET call == at[c]["samgr"] IN
    /\ alive[c] /\ call.pc = "got"
    /\ call.proxy = 0 \/ observerSet[c] = {} \/ c \notin haps
    /\ Return(c, "samgr")
    /\ hasDied' = [hasDied EXCEPT ![c] = FALSE]
    /\ IF call.proxy = 0 THEN Blame(c, "timeout") ELSE UNCHANGED lost
    /\ UNCHANGED <<haps, service, calls, alive, loader, observerSet, listening, notices, promised>>

\* One observer after the other.
SendNext(c, todo) ==
    LET x == CHOOSE y \in todo : TRUE IN
    at' = [at EXCEPT ![c]["samgr"] = [@ EXCEPT !.pc = "called", !.type = x[1], !.obs = x[2],
                                               !.left = x[1], !.todo = todo]]

ResubscribeFirst(c) ==
    LET call == at[c]["samgr"] IN
    /\ alive[c] /\ call.pc = "got" /\ call.proxy # 0 /\ c \in haps
    /\ observerSet[c] # {}
    /\ SendNext(c, observerSet[c])
    /\ UNCHANGED <<haps, service, calls, alive, loader, client, ghosts>>

ResubscribeNext(c) ==
    LET call == at[c]["samgr"]
        rest == call.todo \ {<<call.type, call.obs>>}
    IN /\ alive[c] /\ Done(call)
       /\ IF rest # {} THEN SendNext(c, rest) /\ UNCHANGED hasDied
          ELSE Return(c, "samgr") /\ hasDied' = [hasDied EXCEPT ![c] = FALSE]
       /\ UNCHANGED <<haps, service, calls, alive, loader, observerSet, listening, notices, ghosts>>

-----------------------------------------------------------------------------
\* Starts and stops.

Tell(notice) ==
    notices' = [c \in Clients |-> IF listening[c] THEN Append(notices[c], notice) ELSE notices[c]]

SaStart ==
    /\ sa = 0
    /\ sa' = stops + 1
    /\ Tell("added")
    /\ UNCHANGED <<haps, stops, registered, clients, calls, alive, loader, observerSet, listening, hasDied, at, ghosts>>

SaStop ==
    /\ sa # 0 /\ stops < MaxStops
    /\ sa' = 0 /\ stops' = stops + 1
    /\ registered' = {} /\ clients' = {}
    /\ died' = [c \in Clients |-> died[c] \/ sa \in watched[c]]
    /\ Tell("removed")
    /\ UNCHANGED <<haps, calls, alive, proxy, holder, constructing, loading, watched, observerSet, listening,
                   hasDied, at, ghosts>>

ClientDies(c) ==
    /\ alive[c]
    /\ alive' = [alive EXCEPT ![c] = FALSE]
    /\ UNCHANGED <<haps, service, calls, loader, client, at, ghosts>>

-----------------------------------------------------------------------------
AppStep(c) == Subscribe(c) \/ Unsubscribe(c) \/ UnsubscribeAll(c) \/ Detach(c) \/ GiveUp(c) \/ Replied(c)
              \/ ReleaseDeathRecipient(c)
ListenerStep(c) == OnRemoveSystemAbility(c) \/ OnAddSystemAbility(c) \/ ResubscribeNone(c)
                   \/ ResubscribeFirst(c) \/ ResubscribeNext(c)
GetStep(c, t) == GetCached(c, t) \/ GetWhileLoading(c, t) \/ GetRunning(c, t) \/ GetByLoading(c, t)
                 \/ Waited(c, t) \/ Register(c, t)
ServiceStep(c) == (\E t \in Threads : HandleBit(c, t)) \/ HandleDetach(c) \/ OnClientDied(c)

Next ==
    \/ \E c \in Clients, op \in Ops, type \in Types \cup {{}}, obs \in Observers : Call(c, op, type, obs)
    \/ \E c \in Clients : ReleaseSaListener(c)
    \/ \E c \in Clients : AppStep(c)
    \/ \E c \in Clients : ListenerStep(c)
    \/ \E c \in Clients, t \in Threads : GetStep(c, t)
    \/ \E c \in Clients : LoadSuccess(c) \/ LoadFail(c) \/ OnRemoteSaDied(c)
    \/ \E c \in Clients : ServiceStep(c)
    \/ SaStart \/ SaStop
    \/ \E c \in Clients : ClientDies(c)

Spec == Init /\ [][Next]_vars

\* Threads run, waits end, death notices and notices of the manager arrive.
FairSpec ==
    /\ Spec
    /\ \A c \in Clients :
          /\ WF_vars(AppStep(c)) /\ WF_vars(ListenerStep(c)) /\ WF_vars(ServiceStep(c))
          /\ WF_vars(LoadSuccess(c) \/ LoadFail(c)) /\ WF_vars(OnRemoteSaDied(c))
          /\ \A t \in Threads : WF_vars(GetStep(c, t))

-----------------------------------------------------------------------------
Quiet(c) == at[c] = [t \in Threads |-> Idle] /\ notices[c] = <<>> /\ ~died[c]

\* A restart of the service gives an application its observers back
\* (PasteboardClient::Resubscribe): once nothing is under way, what Subscribe
\* returned true for is in an observer map of the running service.  Not when
\* the service stopped between answering Subscribe and the client's first
\* listening ("missed"), when the application has detached ("detached"), when
\* the listener could not get a proxy in time ("timeout"), nor when the limit
\* kept one out ("full"); and not for the observers an application had when it
\* called ReleaseSaListener.  It is for types that share no map: to unsubscribe
\* one of two that do takes the map from the other.
ObserversRestored ==
    \A c \in haps : sa # 0 /\ alive[c] /\ Quiet(c) /\ lost[c] \cap {"missed", "detached", "timeout", "full"} = {} =>
        \A x \in promised[c] : (\E map \in x[1] : <<map, c, x[2]>> \in registered)

\* The service calls no observer that the client has taken back or never had:
\* once nothing is under way, a registered one is in observerSet_.  Not after
\* an Unsubscribe of all observers of a type that made the client forget those
\* of other types too ("others"), nor after one that went to a service
\* that had stopped, while its successor got the observer from the listener
\* ("broken").
NoneUnwanted ==
    \A c \in Clients : alive[c] /\ Quiet(c) /\ lost[c] \cap {"others", "broken"} = {} =>
        \A r \in registered : r[2] = c => \E x \in observerSet[c] : r[1] \in x[1] /\ r[3] = x[2]

\* A service that is gone is not called for ever: the cached proxy is of the
\* running service, or a notice or the thread that holds the lock will clear it
\* (SetPasteboardServiceProxy, OnRemoteSaDied).  Not after a registration that
\* failed ("unregistered") nor after ReleaseSaListener ("released"), which both
\* keep the proxy and drop its death recipient.
ProxyNotStale ==
    \A c \in Clients : alive[c] /\ proxy[c] \notin {0, sa} =>
        died[c] \/ holder[c] # "none" \/ lost[c] \cap {"unregistered", "released"} # {}

\* Every call comes back, also when the service stops in the middle of it
\* (the waits of GetPasteboardService, instanceLock_, observerSetMutex_).
CallsReturn == \A c \in Clients : at[c]["app"].pc # "idle" ~> at[c]["app"].pc = "idle" \/ ~alive[c]

\* The service forgets the observers of a client that died (AppExit).  Not
\* those of a Subscribe that it is still handling then ("dying"), nor of a
\* client whose death it does not hear of, because it has detached or could
\* not register.
DeadForgotten ==
    \A c \in Clients : ~alive[c] ~> \/ lost[c] \cap {"dying", "detached", "unregistered"} # {}
                                    \/ \A r \in registered : r[2] # c
=============================================================================
