------------------------ MODULE ServiceClientProofs ------------------------
(***************************************************************************)
(* The client library's proxy and its observers, proved for any number of  *)
(* clients, observers, calls and restarts of the service.                  *)
(***************************************************************************)
EXTENDS ServiceClient, SequenceTheorems, TLAPS

-----------------------------------------------------------------------------
(* The proxy.                                                              *)

\* k is a record with the fields of Idle.
Fields == {"pc", "op", "type", "obs", "proxy", "left", "ok", "todo"}
Shape(k) == k = [f \in Fields |-> k[f]]

IsFun(f, S) == f = [x \in S |-> f[x]]
PerClient(f) == IsFun(f, Clients)

\* An incarnation that has been: the running one, or one that has stopped.
Known(n) == n \in Nat /\ (n <= stops \/ n = sa)

\* The threads of a client: one that registers with the service holds the lock, and the
\* proxy is the one it has stored.
ThreadsOK(c) ==
  /\ IsFun(at[c], Threads)
  /\ \A t \in Threads :
       /\ Shape(at[c][t]) /\ Known(at[c][t].proxy)
       /\ at[c][t].pc = "register" => holder[c] = t /\ proxy[c] = at[c][t].proxy

\* The proxy of the running service has a death recipient; that of one that has stopped
\* has its notice, or is about to fail its registration.
ProxyOK(c) ==
  /\ Known(proxy[c])
  /\ proxy[c] = sa /\ sa # 0 => sa \in watched[c] \/ lost[c] \cap {"unregistered", "released"} # {}
  /\ proxy[c] \notin {0, sa} => died[c] \/ holder[c] # "none" \/ lost[c] \cap {"unregistered", "released"} # {}

ProxyInv ==
  /\ sa \in Nat /\ stops \in Nat /\ sa \in {0, stops + 1}
  /\ PerClient(proxy) /\ PerClient(holder) /\ PerClient(watched)
  /\ PerClient(died) /\ PerClient(lost) /\ PerClient(at)
  /\ \A c \in Clients : ThreadsOK(c) /\ ProxyOK(c)

\* What has gone wrong for a client is not forgotten.
LostGrows == PerClient(lost)' /\ \A c \in Clients : lost[c] \subseteq lost'[c]

LEMMA Blamed ==
  ASSUME ProxyInv, NEW c \in Clients, NEW cause, Blame(c, cause)
  PROVE  LostGrows /\ cause \in lost'[c]
BY DEF ProxyInv, PerClient, IsFun, Blame, LostGrows

\* Thread t of client c is now at new.
Moves(c, t, new) ==
  /\ PerClient(at') /\ \A b \in Clients : IsFun(at'[b], Threads)
  /\ at'[c][t] = new
  /\ \A b \in Clients, s \in Threads : b # c \/ s # t => at'[b][s] = at[b][s]

LEMMA ThreadMoves ==
  ASSUME ProxyInv, NEW c \in Clients, NEW t \in Threads, NEW new, at' = [at EXCEPT ![c][t] = new]
  PROVE  Moves(c, t, new)
<1>1. IsFun(at, Clients) /\ IsFun(at[c], Threads)
  BY DEF ProxyInv, PerClient, ThreadsOK
<1> PICK there : there = [at[c] EXCEPT ![t] = new]
  OBVIOUS
<1>2. there = [s \in Threads |-> IF s = t THEN new ELSE at[c][s]]
  BY <1>1 DEF IsFun
<1>3. at' = [b \in Clients |-> IF b = c THEN there ELSE at[b]]
  BY <1>1 DEF IsFun
<1>4. PerClient(at')
  BY <1>3 DEF PerClient, IsFun
<1>5. ASSUME NEW b \in Clients PROVE IsFun(at'[b], Threads)
  <2>1. IsFun(there, Threads)
    BY <1>2 DEF IsFun
  <2>2. IsFun(at[b], Threads)
    BY DEF ProxyInv, ThreadsOK
  <2> QED
    BY <1>3, <2>1, <2>2
<1>6. at'[c][t] = new /\ \A b \in Clients, s \in Threads : b # c \/ s # t => at'[b][s] = at[b][s]
  BY <1>2, <1>3
<1> QED
  BY <1>4, <1>5, <1>6 DEF Moves

\* A thread goes on, not to register.
LEMMA ThreadGoesOn ==
  ASSUME ProxyInv, NEW c \in Clients, NEW t \in Threads, NEW new, Moves(c, t, new),
         Shape(new), Known(new.proxy), new.pc # "register",
         UNCHANGED <<sa, stops, proxy, holder, watched, died>>, LostGrows
  PROVE  ProxyInv'
<1>1. ASSUME NEW b \in Clients PROVE ThreadsOK(b)'
  <2>1. IsFun(at'[b], Threads)
    BY DEF Moves
  <2>2. ASSUME NEW s \in Threads
        PROVE  /\ Shape(at'[b][s]) /\ Known(at[b][s].proxy)'
               /\ at'[b][s].pc = "register" => holder'[b] = s /\ proxy'[b] = at'[b][s].proxy
    BY DEF Moves, ProxyInv, ThreadsOK, Known
  <2> QED
    BY <2>1, <2>2 DEF ThreadsOK
<1>2. ASSUME NEW b \in Clients PROVE ProxyOK(b)'
  BY DEF ProxyInv, ProxyOK, Known, LostGrows
<1> QED
  BY <1>1, <1>2 DEF ProxyInv, LostGrows, Moves, PerClient

\* A thread goes on with the proxy it has, or with the cached one, and not to register.
LEMMA CallGoesOn ==
  ASSUME ProxyInv, NEW c \in Clients, NEW t \in Threads, NEW new,
         at' = [at EXCEPT ![c][t] = new], Shape(new), new.pc # "register",
         new.proxy \in {0, at[c][t].proxy, proxy[c]},
         UNCHANGED <<sa, stops, proxy, holder, watched, died>>, LostGrows
  PROVE  ProxyInv'
<1>1. Known(new.proxy)
  BY DEF ProxyInv, ThreadsOK, ProxyOK, Known
<1> QED
  BY <1>1, ThreadMoves, ThreadGoesOn

LEMMA IdleShaped == Shape(Idle) /\ Idle.pc = "idle" /\ Idle.proxy = 0
BY DEF Shape, Fields, Idle

\* The application waits for the lock to release its death recipient.
Releasing == [Idle EXCEPT !.pc = "release"]

LEMMA ReleasingShaped ==
  /\ Shape(Releasing) /\ Releasing.pc = "release" /\ Releasing.proxy = 0 /\ Releasing.op = "none"
  /\ Releasing.type = {} /\ Releasing.left = {} /\ ~Releasing.ok
BY DEF Shape, Fields, Idle, Releasing

LEMMA ThreadReturns ==
  ASSUME ProxyInv, NEW c \in Clients, NEW t \in Threads, Return(c, t),
         UNCHANGED <<sa, stops, proxy, holder, watched, died>>, LostGrows
  PROVE  ProxyInv'
BY IdleShaped, CallGoesOn DEF Return

LEMMA ThreadGoes ==
  ASSUME ProxyInv, NEW c \in Clients, NEW t \in Threads, NEW pc, pc # "register", Go(c, t, pc),
         UNCHANGED <<sa, stops, proxy, holder, watched, died>>, LostGrows
  PROVE  ProxyInv'
<1> DEFINE new == [at[c][t] EXCEPT !.pc = pc]
<1>1. at' = [at EXCEPT ![c][t] = new]
  BY DEF Go
<1>2. Shape(at[c][t])
  BY DEF ProxyInv, ThreadsOK
<1>3. Shape(new) /\ new.pc = pc /\ new.proxy = at[c][t].proxy
  BY <1>2 DEF Shape, Fields
<1> HIDE DEF new
<1> QED
  BY <1>1, <1>3, CallGoesOn

LEMMA CallSent ==
  ASSUME ProxyInv, NEW c \in Clients, NEW t \in Threads, Send(c, t, at[c][t]),
         UNCHANGED <<sa, stops, proxy, holder, watched, died>>, LostGrows
  PROVE  ProxyInv'
<1> PICK k : k = at[c][t]
  OBVIOUS
<1> DEFINE new == [k EXCEPT !.pc = "called", !.left = k.type]
<1>1. at' = [at EXCEPT ![c][t] = new]
  BY DEF Send
<1>2. Shape(k)
  BY DEF ProxyInv, ThreadsOK
<1>3. Shape(new) /\ new.pc = "called" /\ new.proxy = k.proxy
  BY <1>2 DEF Shape, Fields
<1> HIDE DEF new
<1> QED
  BY <1>1, <1>3, CallGoesOn

LEMMA SetProxy ==
  ASSUME ProxyInv, NEW c \in Clients, NEW t \in Threads, Free(c), sa # 0, Connect(c, t),
         UNCHANGED <<sa, stops, died, lost>>
  PROVE  ProxyInv'
<1> PICK k : k = at[c][t]
  OBVIOUS
<1> DEFINE new == [k EXCEPT !.pc = "register", !.proxy = sa]
<1>1. at' = [at EXCEPT ![c][t] = new]
  BY DEF Connect
<1>2. Shape(k)
  BY DEF ProxyInv, ThreadsOK
<1>3. Shape(new) /\ new.pc = "register" /\ new.proxy = sa
  BY <1>2 DEF Shape, Fields
<1> HIDE DEF new
<1>4. Moves(c, t, new)
  BY <1>1, ThreadMoves
<1>5. /\ PerClient(proxy') /\ proxy'[c] = sa /\ \A b \in Clients : b # c => proxy'[b] = proxy[b]
      /\ PerClient(holder') /\ holder'[c] = t /\ \A b \in Clients : b # c => holder'[b] = holder[b]
      /\ PerClient(watched') /\ sa \in watched'[c] /\ \A b \in Clients : b # c => watched'[b] = watched[b]
  BY DEF Connect, ProxyInv, PerClient, IsFun
<1>6. ASSUME NEW b \in Clients PROVE ThreadsOK(b)'
  <2>1. IsFun(at'[b], Threads)
    BY <1>4 DEF Moves
  <2>2. ASSUME NEW s \in Threads
        PROVE  /\ Shape(at'[b][s]) /\ Known(at[b][s].proxy)'
               /\ at'[b][s].pc = "register" => holder'[b] = s /\ proxy'[b] = at'[b][s].proxy
    <3>1. CASE b = c /\ s = t
      BY <1>3, <1>4, <1>5, <3>1 DEF Moves, Known, ProxyInv
    <3>2. CASE b # c
      BY <1>4, <1>5, <3>2 DEF Moves, Known, ProxyInv, ThreadsOK
    <3>3. CASE b = c /\ s # t
      <4>1. at[b][s].pc # "register"
        BY <3>3 DEF ProxyInv, ThreadsOK, Free, Threads
      <4> QED
        BY <1>4, <3>3, <4>1 DEF Moves, Known, ProxyInv, ThreadsOK
    <3> QED
      BY <3>1, <3>2, <3>3
  <2> QED
    BY <2>1, <2>2 DEF ThreadsOK
<1>7. ASSUME NEW b \in Clients PROVE ProxyOK(b)'
  BY <1>5 DEF ProxyInv, ProxyOK, Known
<1> QED
  BY <1>4, <1>5, <1>6, <1>7 DEF ProxyInv, Moves, PerClient

\* The proxy is cleared by a thread that has the lock.
LEMMA ProxyCleared ==
  ASSUME ProxyInv, NEW c \in Clients, Free(c), proxy' = [proxy EXCEPT ![c] = 0],
         PerClient(died'), \A b \in Clients : b # c => died'[b] = died[b],
         UNCHANGED <<sa, stops, holder, watched, lost>>,
         UNCHANGED at \/ (\E new : Moves(c, "samgr", new) /\ Shape(new) /\ new.pc # "register" /\ new.proxy = 0)
  PROVE  ProxyInv'
<1>1. PerClient(proxy') /\ proxy'[c] = 0 /\ \A b \in Clients : b # c => proxy'[b] = proxy[b]
  BY DEF ProxyInv, PerClient, IsFun
<1>2. \A s \in Threads : at[c][s].pc # "register"
  BY DEF ProxyInv, ThreadsOK, Free, Threads
<1>3. PerClient(at') /\ \A b \in Clients : IsFun(at'[b], Threads)
  BY DEF Moves, ProxyInv, ThreadsOK
<1>4. ASSUME NEW b \in Clients, NEW s \in Threads
      PROVE  \/ at'[b][s] = at[b][s]
             \/ Shape(at'[b][s]) /\ at'[b][s].pc # "register" /\ at'[b][s].proxy = 0
  BY DEF Moves
<1>5. ASSUME NEW b \in Clients PROVE ThreadsOK(b)'
  <2>1. ASSUME NEW s \in Threads
        PROVE  /\ Shape(at'[b][s]) /\ Known(at[b][s].proxy)'
               /\ at'[b][s].pc = "register" => holder'[b] = s /\ proxy'[b] = at'[b][s].proxy
    BY <1>1, <1>2, <1>4 DEF ProxyInv, ThreadsOK, Known
  <2> QED
    BY <1>3, <2>1 DEF ThreadsOK
<1>6. ASSUME NEW b \in Clients PROVE ProxyOK(b)'
  BY <1>1 DEF ProxyInv, ProxyOK, Known
<1> QED
  BY <1>1, <1>3, <1>5, <1>6 DEF ProxyInv, PerClient

LEMMA Registered ==
  ASSUME ProxyInv, NEW c \in Clients, NEW t \in Threads, Register(c, t)
  PROVE  ProxyInv'
<1> PICK k : k = at[c][t]
  OBVIOUS
<1> PICK new : new = IF t = "load" THEN Idle ELSE [k EXCEPT !.pc = "got"]
  OBVIOUS
<1>1. Shape(k) /\ Known(k.proxy) /\ k.pc = "register" /\ holder[c] = t /\ proxy[c] = k.proxy
  BY DEF ProxyInv, ThreadsOK, Register
<1>2. at' = [at EXCEPT ![c][t] = new]
  BY DEF Register, Return, Go
<1>3. Shape(new) /\ new.pc # "register" /\ new.proxy \in {0, k.proxy}
  <2>1. CASE t = "load"
    BY <2>1, IdleShaped
  <2>2. CASE new = [k EXCEPT !.pc = "got"]
    BY <1>1, <2>2 DEF Shape, Fields
  <2> QED
    BY <2>1, <2>2
<1>4. Moves(c, t, new)
  BY <1>2, ThreadMoves
<1>5. PerClient(holder') /\ \A b \in Clients : b # c => holder'[b] = holder[b]
  BY DEF Register, ProxyInv, PerClient, IsFun
<1>6. PerClient(died') /\ \A b \in Clients : b # c => died'[b] = died[b]
  BY DEF Register, ProxyInv, PerClient, IsFun
<1>7. PerClient(watched') /\ \A b \in Clients : b # c => watched'[b] = watched[b]
  BY DEF Register, ProxyInv, PerClient, IsFun
<1>8. LostGrows /\ (k.proxy # sa => "unregistered" \in lost'[c])
  BY Blamed DEF Register, LostGrows, ProxyInv
<1>9. UNCHANGED <<sa, stops, proxy>> /\ (k.proxy = sa => UNCHANGED watched)
  BY DEF Register
<1>10. ASSUME NEW b \in Clients PROVE ThreadsOK(b)'
  <2>1. IsFun(at'[b], Threads)
    BY <1>4 DEF Moves
  <2>2. ASSUME NEW s \in Threads
        PROVE  /\ Shape(at'[b][s]) /\ Known(at[b][s].proxy)'
               /\ at'[b][s].pc = "register" => holder'[b] = s /\ proxy'[b] = at'[b][s].proxy
    <3>1. CASE b = c /\ s = t
      <4>1. at'[b][s] = new
        BY <1>4, <3>1 DEF Moves
      <4>2. Known(new.proxy)
        BY <1>1, <1>3 DEF Known, ProxyInv
      <4> QED
        BY <1>3, <1>9, <4>1, <4>2 DEF Known
    <3>2. CASE b # c
      BY <1>4, <1>5, <1>9, <3>2 DEF Moves, Known, ProxyInv, ThreadsOK
    <3>3. CASE b = c /\ s # t
      <4>1. at[b][s].pc # "register"
        BY <1>1, <3>3 DEF ProxyInv, ThreadsOK
      <4> QED
        BY <1>4, <1>9, <3>3, <4>1 DEF Moves, Known, ProxyInv, ThreadsOK
    <3> QED
      BY <3>1, <3>2, <3>3
  <2> QED
    BY <2>1, <2>2 DEF ThreadsOK
<1>11. ASSUME NEW b \in Clients PROVE ProxyOK(b)'
  <2>1. CASE b = c
    BY <1>1, <1>8, <1>9, <2>1 DEF ProxyInv, ProxyOK, Known, LostGrows
  <2>2. CASE b # c
    BY <1>5, <1>6, <1>7, <1>8, <1>9, <2>2 DEF ProxyInv, ProxyOK, Known, LostGrows
  <2> QED
    BY <2>1, <2>2
<1> QED
  BY <1>4, <1>5, <1>6, <1>7, <1>8, <1>9, <1>10, <1>11 DEF ProxyInv, Moves, LostGrows, PerClient

\* The service starts or stops, which no thread of a client notices at once.
LEMMA ServiceChanges ==
  ASSUME ProxyInv, SaStart \/ SaStop
  PROVE  ProxyInv'
<1>1. UNCHANGED <<proxy, holder, watched, at, lost>> /\ \A n : Known(n) => Known(n)'
  <2>1. UNCHANGED <<proxy, holder, watched, at, lost>>
    BY DEF SaStart, SaStop, loader, ghosts
  <2>2. stops' \in Nat /\ stops <= stops' /\ (sa <= stops' \/ sa = sa')
    BY DEF SaStart, SaStop, ProxyInv
  <2>3. ASSUME NEW n, Known(n) PROVE Known(n)'
    BY <2>2, <2>3 DEF Known, ProxyInv
  <2> QED
    BY <2>1, <2>3
<1>2. sa' \in Nat /\ stops' \in Nat /\ sa' \in {0, stops' + 1}
  BY DEF SaStart, SaStop, ProxyInv
<1>3. ASSUME NEW b \in Clients PROVE ThreadsOK(b)'
  BY <1>1 DEF ThreadsOK, ProxyInv
<1>4. CASE SaStart
  <2>1. sa = 0 /\ sa' = stops + 1 /\ UNCHANGED died
    BY <1>4 DEF SaStart, loader
  <2>2. ASSUME NEW b \in Clients PROVE ProxyOK(b)'
    BY <1>1, <2>1 DEF ProxyInv, ProxyOK, Known
  <2> QED
    BY <1>1, <1>2, <1>3, <2>1, <2>2 DEF ProxyInv, PerClient
<1>5. CASE SaStop
  <2>1. /\ sa' = 0 /\ sa # 0 /\ died' = [b \in Clients |-> died[b] \/ sa \in watched[b]]
    BY <1>5 DEF SaStop
  <2>2. \A b \in Clients : died[b] \/ sa \in watched[b] => died'[b]
    BY <2>1
  <2>3. PerClient(died')
    BY <2>1 DEF PerClient, IsFun
  <2>4. ASSUME NEW b \in Clients PROVE ProxyOK(b)'
    BY <1>1, <2>1, <2>2 DEF ProxyInv, ProxyOK, Known
  <2> QED
    BY <1>1, <1>2, <1>3, <2>3, <2>4 DEF ProxyInv, PerClient
<1> QED
  BY <1>4, <1>5

LEMMA LostKept ==
  ASSUME ProxyInv, UNCHANGED lost
  PROVE  LostGrows
BY DEF ProxyInv, LostGrows, PerClient

\* GetPasteboardService and the answers to its load request.
LEMMA ProxyGetStep ==
  ASSUME ProxyInv, NEW c \in Clients, NEW t \in Threads, GetStep(c, t)
  PROVE  ProxyInv'
<1>0. Shape(at[c][t])
  BY DEF ProxyInv, ThreadsOK
<1> DEFINE got == [at[c][t] EXCEPT !.pc = "got", !.proxy = proxy[c]]
<1>1. Shape(got) /\ got.pc = "got" /\ got.proxy = proxy[c]
  BY <1>0 DEF Shape, Fields
<1>2. CASE GetCached(c, t) \/ Waited(c, t)
  <2>1. at' = [at EXCEPT ![c][t] = got]
    <3>1. CASE GetCached(c, t)
      BY <3>1 DEF GetCached
    <3>2. CASE Waited(c, t)
      BY <3>2 DEF Waited
    <3> QED
      BY <1>2, <3>1, <3>2
  <2> HIDE DEF got
  <2>2. UNCHANGED <<sa, stops, proxy, holder, watched, died, lost>>
    BY <1>2 DEF GetCached, Waited, service, loader, ghosts
  <2> QED
    BY <1>1, <2>1, <2>2, CallGoesOn, LostKept
<1>3. CASE GetWhileLoading(c, t)
  <2>1. UNCHANGED <<sa, stops, proxy, holder, watched, died, lost>> /\ Go(c, t, "wait")
    BY <1>3 DEF GetWhileLoading, service, loader, ghosts
  <2> QED
    BY <2>1, ThreadGoes, LostKept
<1>4. CASE GetByLoading(c, t)
  <2>1. UNCHANGED <<sa, stops, proxy, holder, watched, died, lost>> /\ Go(c, t, "construct")
    BY <1>4 DEF GetByLoading, service, loader, ghosts
  <2> QED
    BY <2>1, ThreadGoes, LostKept
<1>5. CASE GetRunning(c, t)
  <2>1. UNCHANGED <<sa, stops, died, lost>>
    BY <1>5 DEF GetRunning, service, ghosts
  <2> QED
    BY <1>5, <2>1, SetProxy DEF GetRunning
<1> QED
  BY <1>2, <1>3, <1>4, <1>5, Registered DEF GetStep

LEMMA ProxyAnswerStep ==
  ASSUME ProxyInv, NEW c \in Clients, LoadSuccess(c) \/ LoadFail(c) \/ OnRemoteSaDied(c)
  PROVE  ProxyInv'
<1>1. CASE LoadSuccess(c)
  <2>1. UNCHANGED <<sa, stops, died, lost>>
    BY <1>1 DEF LoadSuccess, service, ghosts
  <2> QED
    BY <1>1, <2>1, SetProxy DEF LoadSuccess, Threads
<1>2. CASE LoadFail(c)
  <2>1. UNCHANGED <<sa, stops, holder, watched, died, lost, at>>
    BY <1>2 DEF LoadFail, service, ghosts
  <2>2. PerClient(died')
    BY <2>1 DEF ProxyInv
  <2> QED
    BY <1>2, <2>1, <2>2, ProxyCleared DEF LoadFail
<1>3. CASE OnRemoteSaDied(c)
  <2>1. UNCHANGED <<sa, stops, holder, watched, lost, at>>
    BY <1>3 DEF OnRemoteSaDied, service, ghosts
  <2>2. PerClient(died') /\ \A b \in Clients : b # c => died'[b] = died[b]
    BY <1>3 DEF OnRemoteSaDied, ProxyInv, PerClient, IsFun
  <2> QED
    BY <1>3, <2>1, <2>2, ProxyCleared DEF OnRemoteSaDied
<1> QED
  BY <1>1, <1>2, <1>3

\* The recipient is dropped, and with it a notice.
LEMMA ProxyReleased ==
  ASSUME ProxyInv, NEW c \in Clients, ReleaseDeathRecipient(c)
  PROVE  ProxyInv'
<1>1. UNCHANGED <<sa, stops, proxy, holder>> /\ Return(c, "app")
  BY DEF ReleaseDeathRecipient, service
<1>2. CASE proxy[c] = 0
  BY <1>1, <1>2, ThreadReturns, LostKept DEF ReleaseDeathRecipient, Threads
<1>3. CASE proxy[c] # 0
  <2>1. Moves(c, "app", Idle)
    BY <1>1, ThreadMoves DEF Return, Threads
  <2>2. LostGrows /\ "released" \in lost'[c]
    BY <1>3, Blamed DEF ReleaseDeathRecipient
  <2>3. /\ PerClient(watched') /\ \A b \in Clients : b # c => watched'[b] = watched[b]
        /\ PerClient(died') /\ \A b \in Clients : b # c => died'[b] = died[b]
    BY <1>3 DEF ReleaseDeathRecipient, ProxyInv, PerClient, IsFun
  <2>4. ASSUME NEW b \in Clients PROVE ThreadsOK(b)'
    <3>1. IsFun(at'[b], Threads)
      BY <2>1 DEF Moves
    <3>2. ASSUME NEW s \in Threads
          PROVE  /\ Shape(at'[b][s]) /\ Known(at[b][s].proxy)'
                 /\ at'[b][s].pc = "register" => holder'[b] = s /\ proxy'[b] = at'[b][s].proxy
      BY <1>1, <2>1, IdleShaped DEF Moves, ProxyInv, ThreadsOK, Known
    <3> QED
      BY <3>1, <3>2 DEF ThreadsOK
  <2>5. ASSUME NEW b \in Clients PROVE ProxyOK(b)'
    BY <1>1, <2>2, <2>3 DEF ProxyInv, ProxyOK, Known, LostGrows
  <2> QED
    BY <1>1, <2>1, <2>2, <2>3, <2>4, <2>5 DEF ProxyInv, LostGrows, Moves, PerClient
<1> QED
  BY <1>2, <1>3

LEMMA ProxyAppStep ==
  ASSUME ProxyInv, NEW c \in Clients, AppStep(c)
  PROVE  ProxyInv'
<1> SUFFICES ASSUME ~ReleaseDeathRecipient(c) PROVE ProxyInv'
  BY ProxyReleased
<1>1. UNCHANGED <<sa, stops, proxy, holder, watched, died>>
  BY DEF AppStep, Subscribe, Unsubscribe, UnsubscribeAll, Detach, GiveUp, Replied, service, loader
<1>2. LostGrows
  <2>1. UNCHANGED lost \/ \E cause : Blame(c, cause)
    BY DEF AppStep, Subscribe, Unsubscribe, UnsubscribeAll, Detach, GiveUp, Replied, ghosts
  <2> QED
    BY <2>1, LostKept, Blamed
<1>3. Return(c, "app") \/ Send(c, "app", at[c]["app"])
  BY DEF AppStep, Subscribe, Unsubscribe, UnsubscribeAll, Detach, GiveUp, Replied
<1> QED
  BY <1>1, <1>2, <1>3, ThreadReturns, CallSent DEF Threads

LEMMA ProxyListenerStep ==
  ASSUME ProxyInv, NEW c \in Clients, ListenerStep(c)
  PROVE  ProxyInv'
<1> PICK k : k = at[c]["samgr"]
  OBVIOUS
<1>0. Shape(k) /\ "samgr" \in Threads
  BY DEF ProxyInv, ThreadsOK, Threads
<1>1. CASE OnRemoveSystemAbility(c)
  <2>1. UNCHANGED <<sa, stops, proxy, holder, watched, died, at, lost>>
    BY <1>1 DEF OnRemoveSystemAbility, service, loader, ghosts
  <2> QED
    BY <2>1 DEF ProxyInv, ThreadsOK, ProxyOK, Known, PerClient
<1>2. CASE OnAddSystemAbility(c)
  <2> PICK new : new = IF hasDied[c] THEN [Idle EXCEPT !.pc = "get", !.op = "Resubscribe"] ELSE k
    OBVIOUS
  <2>1. Shape(new) /\ new.pc # "register" /\ new.proxy = 0
    BY <1>2, IdleShaped DEF OnAddSystemAbility, Shape, Fields
  <2>2. at' = [at EXCEPT ![c]["samgr"] = new]
    BY <1>2 DEF OnAddSystemAbility
  <2>3. Moves(c, "samgr", new)
    BY <1>0, <2>2, ThreadMoves
  <2>4. UNCHANGED <<sa, stops, holder, watched, died, lost>> /\ PerClient(died')
    BY <1>2 DEF OnAddSystemAbility, service, ghosts, ProxyInv
  <2> QED
    BY <1>2, <2>1, <2>3, <2>4, ProxyCleared DEF OnAddSystemAbility
<1>3. CASE ResubscribeNone(c) \/ ResubscribeFirst(c) \/ ResubscribeNext(c)
  <2>1. UNCHANGED <<sa, stops, proxy, holder, watched, died>>
    BY <1>3 DEF ResubscribeNone, ResubscribeFirst, ResubscribeNext, service, loader
  <2>2. LostGrows
    <3>1. UNCHANGED lost \/ Blame(c, "timeout")
      BY <1>3 DEF ResubscribeNone, ResubscribeFirst, ResubscribeNext, ghosts
    <3> QED
      BY <3>1, LostKept, Blamed
  <2>3. Return(c, "samgr") \/ \E todo : SendNext(c, todo)
    BY <1>3 DEF ResubscribeNone, ResubscribeFirst, ResubscribeNext
  <2>4. CASE Return(c, "samgr")
    BY <1>0, <2>1, <2>2, <2>4, ThreadReturns
  <2>5. ASSUME NEW todo, SendNext(c, todo) PROVE ProxyInv'
    <3> PICK type, obs : SendNext(c, todo) => at' = [at EXCEPT ![c]["samgr"] =
             [@ EXCEPT !.pc = "called", !.type = type, !.obs = obs, !.left = type, !.todo = todo]]
      BY DEF SendNext
    <3> DEFINE new == [k EXCEPT !.pc = "called", !.type = type, !.obs = obs, !.left = type, !.todo = todo]
    <3>1. at' = [at EXCEPT ![c]["samgr"] = new]
      BY <2>5
    <3>2. Shape(new) /\ new.pc = "called" /\ new.proxy = k.proxy
      BY <1>0 DEF Shape, Fields
    <3> HIDE DEF new
    <3> QED
      BY <1>0, <2>1, <2>2, <3>1, <3>2, CallGoesOn
  <2> QED
    BY <2>3, <2>4, <2>5
<1> QED
  BY <1>1, <1>2, <1>3 DEF ListenerStep

LEMMA ProxyServiceStep ==
  ASSUME ProxyInv, NEW c \in Clients, ServiceStep(c)
  PROVE  ProxyInv'
<1>1. ASSUME NEW t \in Threads, HandleBit(c, t) PROVE ProxyInv'
  <2> PICK k : k = at[c][t]
    OBVIOUS
  <2>1. PICK left, ok : at' = [at EXCEPT ![c][t].left = left, ![c][t].ok = ok]
    BY <1>1 DEF HandleBit
  <2> DEFINE new == [k EXCEPT !.left = left, !.ok = ok]
  <2>2. at' = [at EXCEPT ![c][t] = new]
    BY <2>1 DEF ProxyInv, ThreadsOK, PerClient, IsFun
  <2>3. Shape(k) /\ k.pc = "called"
    BY <1>1 DEF ProxyInv, ThreadsOK, HandleBit
  <2>4. Shape(new) /\ new.pc = "called" /\ new.proxy = k.proxy
    BY <2>3 DEF Shape, Fields
  <2> HIDE DEF new
  <2>5. UNCHANGED <<sa, stops, proxy, holder, watched, died>>
    BY <1>1 DEF HandleBit, loader
  <2>6. LostGrows
    BY <1>1, LostKept, Blamed DEF HandleBit
  <2> QED
    BY <2>2, <2>4, <2>5, <2>6, CallGoesOn
<1>2. CASE HandleDetach(c)
  <2> PICK k : k = at[c]["app"]
    OBVIOUS
  <2> DEFINE new == [k EXCEPT !.op = "none", !.left = {}]
  <2>1. at' = [at EXCEPT ![c]["app"] = new]
    BY <1>2 DEF HandleDetach
  <2>2. Shape(k) /\ k.pc = "called"
    BY <1>2 DEF ProxyInv, ThreadsOK, HandleDetach, Threads
  <2>3. Shape(new) /\ new.pc = "called" /\ new.proxy = k.proxy
    BY <2>2 DEF Shape, Fields
  <2> HIDE DEF new
  <2>4. UNCHANGED <<sa, stops, proxy, holder, watched, died>> /\ LostGrows
    BY <1>2, Blamed DEF HandleDetach, loader
  <2> QED
    BY <2>1, <2>3, <2>4, CallGoesOn DEF Threads
<1>3. CASE OnClientDied(c)
  <2>1. UNCHANGED <<sa, stops, proxy, holder, watched, died, at>>
    BY <1>3 DEF OnClientDied, loader
  <2>2. LostGrows
    BY <1>3, LostKept, Blamed DEF OnClientDied
  <2>3. \A b \in Clients : ThreadsOK(b)'
    BY <2>1 DEF ProxyInv, ThreadsOK, Known
  <2>4. \A b \in Clients : ProxyOK(b)'
    BY <2>1, <2>2 DEF ProxyInv, ProxyOK, Known, LostGrows
  <2> QED
    BY <2>1, <2>2, <2>3, <2>4 DEF ProxyInv, PerClient, LostGrows
<1> QED
  BY <1>1, <1>2, <1>3 DEF ServiceStep

\* Every step of every actor keeps ProxyInv.
LEMMA ProxyStep == ProxyInv /\ [Next]_vars => ProxyInv'
<1> SUFFICES ASSUME ProxyInv, [Next]_vars PROVE ProxyInv'
  OBVIOUS
<1>1. ASSUME NEW c \in Clients, NEW op, NEW type, NEW obs, Call(c, op, type, obs)
      PROVE  ProxyInv'
  <2> DEFINE new == [Idle EXCEPT !.pc = "get", !.op = op, !.type = type, !.obs = obs]
  <2>1. at' = [at EXCEPT ![c]["app"] = new]
    BY <1>1 DEF Call
  <2>2. Shape(new) /\ new.pc = "get" /\ new.proxy = 0
    BY IdleShaped DEF Shape, Fields
  <2> HIDE DEF new
  <2>3. UNCHANGED <<sa, stops, proxy, holder, watched, died, lost>>
    BY <1>1 DEF Call, service, loader, ghosts
  <2> QED
    BY <2>1, <2>2, <2>3, CallGoesOn, LostKept DEF Threads
<1>2. CASE UNCHANGED <<sa, stops, proxy, holder, watched, died, at, lost>>
  BY <1>2 DEF ProxyInv, ThreadsOK, ProxyOK, Known, PerClient
<1>5. ASSUME NEW c \in Clients, ReleaseSaListener(c) PROVE ProxyInv'
  <2>1. /\ at' = [at EXCEPT ![c]["app"] = Releasing]
        /\ UNCHANGED <<sa, stops, proxy, holder, watched, died, lost>>
    BY <1>5 DEF ReleaseSaListener, Releasing, service, loader
  <2> QED
    BY <2>1, ReleasingShaped, CallGoesOn, LostKept DEF Threads
<1>3. ASSUME NEW c \in Clients, ClientDies(c) PROVE ProxyInv'
  BY <1>2, <1>3 DEF ClientDies, service, loader, ghosts
<1>4. CASE UNCHANGED vars
  BY <1>2, <1>4 DEF vars, service, loader, ghosts
<1> QED
  BY <1>1, <1>3, <1>4, <1>5, ProxyAppStep, ProxyListenerStep, ProxyGetStep, ProxyAnswerStep,
     ProxyServiceStep, ServiceChanges DEF Next

LEMMA ProxyInit == Init => ProxyInv
<1> SUFFICES ASSUME Init PROVE ProxyInv
  OBVIOUS
<1>1. /\ PerClient(proxy) /\ PerClient(holder) /\ PerClient(watched)
      /\ PerClient(died) /\ PerClient(lost) /\ PerClient(at)
  BY DEF Init, PerClient, IsFun
<1>2. ASSUME NEW c \in Clients PROVE ThreadsOK(c)
  <2>1. at[c] = [t \in Threads |-> Idle] /\ sa = 0 /\ stops = 0
    BY DEF Init
  <2>2. IsFun(at[c], Threads)
    BY <2>1 DEF IsFun
  <2> QED
    BY <2>1, <2>2, IdleShaped DEF ThreadsOK, Known
<1>3. ASSUME NEW c \in Clients PROVE ProxyOK(c)
  BY DEF Init, ProxyOK, Known
<1> QED
  BY <1>1, <1>2, <1>3 DEF ProxyInv, Init

(* A client that goes on caching the proxy of a service that is gone has   *)
(* the death notice under way, or a thread that is about to find out,      *)
(* unless a registration has failed or the application has released its    *)
(* listener, whatever the order in which threads, load answers, death      *)
(* notices and restarts come.                                              *)
THEOREM ProxyFollowsService == Spec => []ProxyNotStale
<1>1. ProxyInv => ProxyNotStale
  BY DEF ProxyInv, ProxyOK, ProxyNotStale
<1> QED
  BY <1>1, ProxyInit, ProxyStep, PTL DEF Spec

-----------------------------------------------------------------------------
(* The observers.                                                          *)

Pair(x) == x = <<x[1], x[2]>>
Triple(r) == r = <<r[1], r[2], r[3]>>

\* What the listener's thread subscribes again is in observerSet_, which stays locked.
ListenerOK(k, set) ==
  /\ k.pc # "idle" => k.op = "Resubscribe"
  /\ k.pc = "called" => <<k.type, k.obs>> \in k.todo /\ k.todo \subseteq set
  /\ k.pc # "called" => k.todo = {}

\* What the application subscribes is in observerSet_ before the service is called.
AppOK(k, set) ==
  /\ k.op \in Ops \cup {"none"}
  /\ k.pc = "called" /\ k.op = "Subscribe" => <<k.type, k.obs>> \in set

\* The client wants r, or a call that takes it back is under way.
Covered(r, set) == \E x \in set : r[1] \in x[1] /\ r[3] = x[2]
TakesBack(r, k) ==
  /\ k.pc = "called" /\ k.op \in {"Unsubscribe", "UnsubscribeAll"}
  /\ k.op = "Unsubscribe" => r[3] = k.obs
  /\ r[1] \in k.type
  /\ k.proxy = sa => r[1] \in k.left

ThreadOK(k, t, set) ==
  /\ k.type \subseteq Maps /\ k.left \subseteq k.type
  /\ t = "load" => k.pc \in {"idle", "register"}
  /\ t = "samgr" => ListenerOK(k, set)
  /\ t = "app" => AppOK(k, set)

ObserversOK(c) ==
  /\ \A x \in observerSet[c] : Pair(x) /\ x[1] \subseteq Maps
  /\ \A t \in Threads : ThreadOK(at[c][t], t, observerSet[c])

WantedOK(c) ==
  alive[c] /\ lost[c] \cap {"others", "broken"} = {} =>
    \A r \in registered : r[2] = c => Covered(r, observerSet[c]) \/ TakesBack(r, at[c]["app"])

WantedInv ==
  /\ PerClient(observerSet) /\ PerClient(alive)
  /\ \A r \in registered : Triple(r)
  /\ \A c \in Clients : ObserversOK(c) /\ WantedOK(c)

\* A step is about one client.
OnlyAbout(c) ==
  /\ PerClient(observerSet') /\ PerClient(alive') /\ UNCHANGED sa
  /\ \A b \in Clients : b # c => /\ \A s \in Threads : at'[b][s] = at[b][s]
                                 /\ observerSet'[b] = observerSet[b] /\ alive'[b] = alive[b]
                                 /\ lost[b] \subseteq lost'[b]
  /\ \A r \in registered' : Triple(r) /\ (r[2] # c => r \in registered)

LEMMA OtherClients ==
  ASSUME WantedInv, NEW c \in Clients, OnlyAbout(c), ObserversOK(c)', WantedOK(c)'
  PROVE  WantedInv'
<1>1. ASSUME NEW b \in Clients, b # c PROVE ObserversOK(b)'
  BY <1>1 DEF OnlyAbout, WantedInv, ObserversOK
<1>2. ASSUME NEW b \in Clients, b # c PROVE WantedOK(b)'
  <2> SUFFICES ASSUME alive'[b], lost'[b] \cap {"others", "broken"} = {},
                      NEW r \in registered', r[2] = b
               PROVE  (Covered(r, observerSet[b]) \/ TakesBack(r, at[b]["app"]))'
    BY DEF WantedOK
  <2>1. alive[b] /\ lost[b] \cap {"others", "broken"} = {} /\ r \in registered
    BY <1>2 DEF OnlyAbout
  <2>2. Covered(r, observerSet[b]) \/ TakesBack(r, at[b]["app"])
    BY <2>1 DEF WantedInv, WantedOK
  <2>3. UNCHANGED sa /\ at'[b]["app"] = at[b]["app"] /\ observerSet'[b] = observerSet[b]
    BY <1>2 DEF OnlyAbout, Threads
  <2> QED
    BY <2>2, <2>3 DEF Covered, TakesBack
<1> QED
  BY <1>1, <1>2 DEF WantedInv, OnlyAbout

\* A thread goes on that does nothing about the observers, or whose call has come back.
LEMMA WantedThread ==
  ASSUME WantedInv, NEW c \in Clients, NEW t \in Threads, NEW new, Moves(c, t, new),
         ThreadOK(new, t, observerSet[c]), LostGrows, UNCHANGED <<sa, registered, observerSet, alive>>,
         t = "app" => (\A r : ~TakesBack(r, at[c]["app"])) \/ "broken" \in lost'[c]
  PROVE  WantedInv'
<1>1. OnlyAbout(c)
  BY DEF OnlyAbout, Moves, LostGrows, WantedInv
<1>2. ObserversOK(c)'
  <2>1. ASSUME NEW s \in Threads PROVE ThreadOK(at'[c][s], s, observerSet[c])
    BY DEF Moves, WantedInv, ObserversOK
  <2> QED
    BY <2>1 DEF WantedInv, ObserversOK
<1>3. WantedOK(c)'
  <2> SUFFICES ASSUME alive'[c], lost'[c] \cap {"others", "broken"} = {},
                      NEW r \in registered', r[2] = c
               PROVE  (Covered(r, observerSet[c]) \/ TakesBack(r, at[c]["app"]))'
    BY DEF WantedOK
  <2>1. alive[c] /\ lost[c] \cap {"others", "broken"} = {} /\ r \in registered
    BY DEF LostGrows
  <2>2. Covered(r, observerSet[c]) \/ TakesBack(r, at[c]["app"])
    BY <2>1 DEF WantedInv, WantedOK
  <2>3. TakesBack(r, at[c]["app"]) => at'[c]["app"] = at[c]["app"]
    BY DEF Moves, Threads
  <2> QED
    BY <2>2, <2>3 DEF Covered, TakesBack
<1> QED
  BY <1>1, <1>2, <1>3, OtherClients

\* No thread moves and no observer changes.
LEMMA WantedStays ==
  ASSUME WantedInv, LostGrows, UNCHANGED <<sa, registered, observerSet, alive, at>>
  PROVE  WantedInv'
<1>1. ASSUME NEW c \in Clients PROVE ObserversOK(c)'
  BY DEF WantedInv, ObserversOK
<1>2. ASSUME NEW c \in Clients PROVE WantedOK(c)'
  BY DEF WantedInv, WantedOK, LostGrows, Covered, TakesBack
<1> QED
  BY <1>1, <1>2 DEF WantedInv, PerClient

LEMMA IdleOK ==
  ASSUME NEW t, NEW set
  PROVE  ThreadOK(Idle, t, set)
BY DEF Idle, ThreadOK, ListenerOK, AppOK, Maps

\* A thread that waits for a proxy keeps its call as it is.
SameCall(k, new) ==
  new.op = k.op /\ new.type = k.type /\ new.obs = k.obs /\ new.left = k.left /\ new.todo = k.todo

LEMMA CallKept ==
  ASSUME NEW k, NEW new, NEW t, NEW set, ThreadOK(k, t, set), SameCall(k, new),
         k.pc \notin {"idle", "called"}, new.pc \notin {"idle", "called"}, t # "load"
  PROVE  ThreadOK(new, t, set)
BY DEF ThreadOK, ListenerOK, AppOK, SameCall

\* A thread in GetPasteboardService keeps its call, and returns with the proxy that is cached.
Gets(c, t, pc, p) ==
  /\ at' = [at EXCEPT ![c][t] = [at[c][t] EXCEPT !.pc = pc, !.proxy = p]]
  /\ pc = "got" => p = proxy[c]

LEMMA GetGoesOn ==
  ASSUME ProxyInv, NEW c \in Clients, NEW t \in Threads, GetStep(c, t), t # "load"
  PROVE  \E pc \in {"got", "wait", "construct", "register"} : \E p : Gets(c, t, pc, p)
<1> PICK k : k = at[c][t]
  OBVIOUS
<1>1. Shape(k) /\ (k.pc = "register" => k.proxy = proxy[c])
  BY DEF ProxyInv, ThreadsOK
<1>2. ASSUME GetCached(c, t)
      PROVE  at' = [at EXCEPT ![c][t] = [k EXCEPT !.pc = "got", !.proxy = proxy[c]]]
  BY <1>2 DEF GetCached
<1>3. ASSUME Waited(c, t)
      PROVE  at' = [at EXCEPT ![c][t] = [k EXCEPT !.pc = "got", !.proxy = proxy[c]]]
  BY <1>3 DEF Waited
<1>4. ASSUME GetRunning(c, t)
      PROVE  at' = [at EXCEPT ![c][t] = [k EXCEPT !.pc = "register", !.proxy = sa]]
  BY <1>4 DEF GetRunning, Connect
<1>5. ASSUME NEW pc \in {"got", "wait", "construct"}, Go(c, t, pc)
      PROVE  at' = [at EXCEPT ![c][t] = [k EXCEPT !.pc = pc, !.proxy = k.proxy]]
  <2>1. [k EXCEPT !.pc = pc, !.proxy = k.proxy] = [k EXCEPT !.pc = pc]
    BY <1>1 DEF Shape, Fields
  <2>2. at' = [at EXCEPT ![c][t] = [k EXCEPT !.pc = pc]]
    BY <1>5 DEF Go
  <2> QED
    BY <2>1, <2>2
<1>6. CASE GetWhileLoading(c, t)
  BY <1>5, <1>6 DEF GetWhileLoading, Gets
<1>7. CASE GetByLoading(c, t)
  BY <1>5, <1>7 DEF GetByLoading, Gets
<1>8. CASE Register(c, t)
  BY <1>1, <1>5, <1>8 DEF Register, Gets
<1> QED
  BY <1>2, <1>3, <1>4, <1>6, <1>7, <1>8 DEF GetStep, Gets

LEMMA WantedGetStep ==
  ASSUME ProxyInv, WantedInv, NEW c \in Clients, NEW t \in Threads, GetStep(c, t)
  PROVE  WantedInv'
<1> PICK k : k = at[c][t]
  OBVIOUS
<1>1. Shape(k) /\ ThreadOK(k, t, observerSet[c])
  BY DEF ProxyInv, ThreadsOK, WantedInv, ObserversOK
<1>2. UNCHANGED <<sa, registered, observerSet, alive>>
  BY DEF GetStep, GetCached, GetWhileLoading, GetRunning, GetByLoading, Waited, Register, service, client
<1>3. LostGrows
  <2>1. UNCHANGED lost \/ Blame(c, "unregistered")
    BY DEF GetStep, GetCached, GetWhileLoading, GetRunning, GetByLoading, Waited, Register, ghosts
  <2> QED
    BY <2>1, LostKept, Blamed
<1>4. k.pc \in {"get", "wait", "construct", "register"}
  BY DEF GetStep, GetCached, GetWhileLoading, GetRunning, GetByLoading, Waited, Register
<1>5. t = "app" => \A r : ~TakesBack(r, at[c]["app"])
  BY <1>4 DEF TakesBack
<1>6. CASE t = "load"
  <2>1. Register(c, t)
    BY <1>1, <1>6 DEF ThreadOK, GetStep, GetCached, GetWhileLoading, GetRunning, GetByLoading, Waited
  <2>2. Moves(c, t, Idle)
    BY <1>6, <2>1, ThreadMoves DEF Register, Return
  <2> QED
    BY <1>2, <1>3, <1>6, <2>2, IdleOK, WantedThread
<1>7. CASE t # "load"
  <2>1. PICK pc \in {"got", "wait", "construct", "register"} : \E p : Gets(c, t, pc, p)
    BY <1>7, GetGoesOn
  <2> PICK p : Gets(c, t, pc, p)
    BY <2>1
  <2> DEFINE new == [k EXCEPT !.pc = pc, !.proxy = p]
  <2>2. SameCall(k, new) /\ new.pc = pc
    BY <1>1 DEF Shape, Fields, SameCall
  <2> HIDE DEF new
  <2>3. Moves(c, t, new)
    BY ThreadMoves DEF new, Gets
  <2>4. ThreadOK(new, t, observerSet[c])
    BY <1>1, <1>4, <1>7, <2>2, CallKept
  <2> QED
    BY <1>2, <1>3, <1>5, <2>3, <2>4, WantedThread
<1> QED
  BY <1>6, <1>7

LEMMA WantedAnswerStep ==
  ASSUME ProxyInv, WantedInv, NEW c \in Clients, LoadSuccess(c) \/ LoadFail(c) \/ OnRemoteSaDied(c)
  PROVE  WantedInv'
<1>1. UNCHANGED <<sa, registered, observerSet, alive, lost>>
  BY DEF LoadSuccess, LoadFail, OnRemoteSaDied, service, client, ghosts
<1>2. CASE UNCHANGED at
  BY <1>1, <1>2, LostKept, WantedStays
<1>3. CASE LoadSuccess(c)
  <2> PICK k : k = at[c]["load"]
    OBVIOUS
  <2> DEFINE new == [k EXCEPT !.pc = "register", !.proxy = sa]
  <2>1. Shape(k) /\ ThreadOK(k, "load", observerSet[c])
    BY DEF ProxyInv, ThreadsOK, WantedInv, ObserversOK, Threads
  <2>2. SameCall(k, new) /\ new.pc = "register"
    BY <2>1 DEF Shape, Fields, SameCall
  <2>3. at' = [at EXCEPT ![c]["load"] = new]
    BY <1>3 DEF LoadSuccess, Connect
  <2> HIDE DEF new
  <2>4. Moves(c, "load", new)
    BY <2>3, ThreadMoves DEF Threads
  <2>5. ThreadOK(new, "load", observerSet[c])
    BY <2>1, <2>2 DEF ThreadOK, SameCall
  <2> QED
    BY <1>1, <2>4, <2>5, LostKept, WantedThread DEF Threads
<1> QED
  BY <1>2, <1>3 DEF LoadFail, OnRemoteSaDied

LEMMA WantedListenerStep ==
  ASSUME ProxyInv, WantedInv, NEW c \in Clients, ListenerStep(c)
  PROVE  WantedInv'
<1> PICK k : k = at[c]["samgr"]
  OBVIOUS
<1>1. Shape(k) /\ ThreadOK(k, "samgr", observerSet[c]) /\ "samgr" \in Threads
  BY DEF ProxyInv, ThreadsOK, WantedInv, ObserversOK, Threads
<1>2. UNCHANGED <<sa, registered, observerSet, alive>>
  BY DEF ListenerStep, OnRemoveSystemAbility, OnAddSystemAbility, ResubscribeNone, ResubscribeFirst,
         ResubscribeNext, service, client
<1>3. LostGrows
  <2>1. UNCHANGED lost \/ Blame(c, "timeout")
    BY DEF ListenerStep, OnRemoveSystemAbility, OnAddSystemAbility, ResubscribeNone, ResubscribeFirst,
           ResubscribeNext, ghosts
  <2> QED
    BY <2>1, LostKept, Blamed
<1>4. CASE OnRemoveSystemAbility(c)
  BY <1>2, <1>3, <1>4, WantedStays DEF OnRemoveSystemAbility
<1>5. CASE OnAddSystemAbility(c)
  <2> DEFINE get == [Idle EXCEPT !.pc = "get", !.op = "Resubscribe"]
  <2>1. ThreadOK(get, "samgr", observerSet[c])
    BY DEF Idle, ThreadOK, ListenerOK, Maps
  <2> HIDE DEF get
  <2>2. at' = [at EXCEPT ![c]["samgr"] = IF hasDied[c] THEN get ELSE k]
    BY <1>5 DEF OnAddSystemAbility, get
  <2>3. PICK new : Moves(c, "samgr", new) /\ ThreadOK(new, "samgr", observerSet[c])
    BY <1>1, <2>1, <2>2, ThreadMoves
  <2> QED
    BY <1>1, <1>2, <1>3, <2>3, WantedThread
<1>6. CASE Return(c, "samgr")
  <2>1. Moves(c, "samgr", Idle)
    BY <1>1, <1>6, ThreadMoves DEF Return
  <2> QED
    BY <1>1, <1>2, <1>3, <2>1, IdleOK, WantedThread
<1>7. ASSUME NEW todo, SendNext(c, todo), todo # {}, todo \subseteq observerSet[c], k.pc # "idle"
      PROVE  WantedInv'
  <2> PICK x : x = CHOOSE y \in todo : TRUE
    OBVIOUS
  <2>1. x \in todo
    BY <1>7
  <2>2. Pair(x) /\ x[1] \subseteq Maps
    BY <1>7, <2>1 DEF WantedInv, ObserversOK
  <2>3. PICK type, obs : type = x[1] /\ obs = x[2]
    OBVIOUS
  <2> DEFINE new == [k EXCEPT !.pc = "called", !.type = type, !.obs = obs, !.left = type, !.todo = todo]
  <2>4. at' = [at EXCEPT ![c]["samgr"] = new]
    BY <1>7, <2>3 DEF SendNext
  <2>5. /\ new.pc = "called" /\ new.type = type /\ new.obs = obs /\ new.left = type /\ new.todo = todo
        /\ new.op = k.op
    BY <1>1, Zenon DEF Shape, Fields
  <2> HIDE DEF new
  <2>6. <<new.type, new.obs>> \in new.todo
    BY <2>1, <2>2, <2>3, <2>5 DEF Pair
  <2>7. ThreadOK(new, "samgr", observerSet[c])
    BY <1>1, <1>7, <2>2, <2>3, <2>5, <2>6 DEF ThreadOK, ListenerOK
  <2>8. Moves(c, "samgr", new)
    BY <1>1, <2>4, ThreadMoves
  <2> QED
    BY <1>1, <1>2, <1>3, <2>7, <2>8, WantedThread
<1>8. CASE ResubscribeNone(c)
  BY <1>6, <1>8 DEF ResubscribeNone
<1>9. CASE ResubscribeFirst(c)
  BY <1>7, <1>9 DEF ResubscribeFirst
<1>10. CASE ResubscribeNext(c)
  <2> PICK rest : rest = k.todo \ {<<k.type, k.obs>>}
    OBVIOUS
  <2>1. rest \subseteq observerSet[c] /\ k.pc = "called"
    BY <1>1, <1>10 DEF ResubscribeNext, Done, ThreadOK, ListenerOK
  <2>2. Return(c, "samgr") \/ (rest # {} /\ SendNext(c, rest))
    BY <1>10 DEF ResubscribeNext
  <2> QED
    BY <1>6, <1>7, <2>1, <2>2
<1> QED
  BY <1>4, <1>5, <1>8, <1>9, <1>10 DEF ListenerStep

\* The application's thread changes observerSet_, which the listener's does not use then.
LEMMA SetChanges ==
  ASSUME ProxyInv, WantedInv, NEW c \in Clients, SetFree(c), NEW new, Moves(c, "app", new),
         NEW set, observerSet' = [observerSet EXCEPT ![c] = set],
         \A x \in set : Pair(x) /\ x[1] \subseteq Maps, ThreadOK(new, "app", set),
         LostGrows, UNCHANGED <<sa, registered, alive>>, at[c]["app"].pc # "called",
         \A r : lost'[c] \cap {"others", "broken"} = {} /\ Covered(r, observerSet[c])
                  => Covered(r, set) \/ TakesBack(r, new)
  PROVE  WantedInv'
<1>1. PerClient(observerSet') /\ observerSet'[c] = set /\ \A b \in Clients : b # c => observerSet'[b] = observerSet[b]
  BY DEF WantedInv, PerClient, IsFun
<1>2. OnlyAbout(c)
  BY <1>1 DEF OnlyAbout, Moves, LostGrows, WantedInv
<1>3. ObserversOK(c)'
  <2>1. ThreadOK(at'[c]["app"], "app", set)
    BY DEF Moves
  <2>2. at'[c]["samgr"] = at[c]["samgr"] /\ at'[c]["load"] = at[c]["load"]
    BY DEF Moves, Threads
  <2>3. ThreadOK(at[c]["samgr"], "samgr", observerSet[c]) /\ ThreadOK(at[c]["load"], "load", observerSet[c])
    BY DEF WantedInv, ObserversOK, Threads
  <2>4. ThreadOK(at[c]["samgr"], "samgr", set) /\ ThreadOK(at[c]["load"], "load", set)
    BY <2>3 DEF ThreadOK, ListenerOK, SetFree
  <2>5. ASSUME NEW s \in Threads PROVE ThreadOK(at'[c][s], s, set)
    BY <2>1, <2>2, <2>4 DEF Threads
  <2> QED
    BY <1>1, <2>5 DEF ObserversOK
<1>4. WantedOK(c)'
  <2> SUFFICES ASSUME alive'[c], lost'[c] \cap {"others", "broken"} = {},
                      NEW r \in registered', r[2] = c
               PROVE  (Covered(r, observerSet[c]) \/ TakesBack(r, at[c]["app"]))'
    BY DEF WantedOK
  <2>1. alive[c] /\ lost[c] \cap {"others", "broken"} = {} /\ r \in registered
    BY DEF LostGrows
  <2>2. Covered(r, observerSet[c])
    BY <2>1 DEF WantedInv, WantedOK, TakesBack
  <2>3. Covered(r, set) \/ TakesBack(r, new)
    BY <2>2
  <2>4. at'[c]["app"] = new
    BY DEF Moves
  <2> QED
    BY <1>1, <2>3, <2>4 DEF Covered, TakesBack
<1> QED
  BY <1>2, <1>3, <1>4, OtherClients

LEMMA WantedAppStep ==
  ASSUME ProxyInv, WantedInv, NEW c \in Clients, AppStep(c)
  PROVE  WantedInv'
<1> PICK k : k = at[c]["app"]
  OBVIOUS
<1> PICK sent : sent = [k EXCEPT !.pc = "called", !.left = k.type]
  OBVIOUS
<1>1. Shape(k) /\ ThreadOK(k, "app", observerSet[c]) /\ "app" \in Threads
  BY DEF ProxyInv, ThreadsOK, WantedInv, ObserversOK, Threads
<1>2. sent.pc = "called" /\ sent.left = k.type /\ sent.type = k.type /\ sent.op = k.op /\ sent.obs = k.obs
  BY <1>1 DEF Shape, Fields
<1>3. LostGrows
  <2>1. UNCHANGED lost \/ \E cause : Blame(c, cause)
    BY DEF AppStep, Subscribe, Unsubscribe, UnsubscribeAll, Detach, GiveUp, Replied, ReleaseDeathRecipient, ghosts
  <2> QED
    BY <2>1, LostKept, Blamed
<1>4. UNCHANGED <<sa, registered, alive>>
  BY DEF AppStep, Subscribe, Unsubscribe, UnsubscribeAll, Detach, GiveUp, Replied, ReleaseDeathRecipient, service
<1>5. Return(c, "app") => Moves(c, "app", Idle)
  BY <1>1, ThreadMoves DEF Return
<1>6. Send(c, "app", k) => Moves(c, "app", sent)
  BY <1>1, ThreadMoves DEF Send
<1>7. k.type \subseteq Maps /\ k.op \in Ops \cup {"none"}
  BY <1>1 DEF ThreadOK, AppOK
<1>8. CASE Subscribe(c)
  <2> PICK set : set = observerSet[c] \cup {<<k.type, k.obs>>}
    OBVIOUS
  <2>1. SetFree(c) /\ k.pc = "got" /\ observerSet' = [observerSet EXCEPT ![c] = set]
    BY <1>8 DEF Subscribe
  <2>2. \A x \in set : Pair(x) /\ x[1] \subseteq Maps
    <3>1. ASSUME NEW x \in observerSet[c] PROVE Pair(x) /\ x[1] \subseteq Maps
      BY DEF WantedInv, ObserversOK
    <3>2. Pair(<<k.type, k.obs>>) /\ <<k.type, k.obs>>[1] \subseteq Maps
      BY <1>7 DEF Pair
    <3> QED
      BY <3>1, <3>2
  <2>3. ThreadOK(sent, "app", set) /\ ThreadOK(Idle, "app", set)
    BY <1>2, <1>7, IdleOK DEF ThreadOK, AppOK
  <2>4. \A r : Covered(r, observerSet[c]) => Covered(r, set)
    BY DEF Covered
  <2>5. Moves(c, "app", Idle) \/ Moves(c, "app", sent)
    BY <1>5, <1>6, <1>8 DEF Subscribe
  <2> QED
    BY <1>3, <1>4, <2>1, <2>2, <2>3, <2>4, <2>5, SetChanges
<1>9. CASE Unsubscribe(c)
  <2> PICK set : set = observerSet[c] \ {<<k.type, k.obs>>}
    OBVIOUS
  <2>1. SetFree(c) /\ k.pc = "got" /\ k.op = "Unsubscribe" /\ observerSet' = [observerSet EXCEPT ![c] = set]
    BY <1>9 DEF Unsubscribe
  <2>2. \A x \in set : Pair(x) /\ x[1] \subseteq Maps
    BY DEF WantedInv, ObserversOK
  <2>3. ThreadOK(sent, "app", set)
    BY <1>2, <1>7, <2>1 DEF ThreadOK, AppOK
  <2>4. ASSUME NEW r, Covered(r, observerSet[c]) PROVE Covered(r, set) \/ TakesBack(r, sent)
    <3> PICK x \in observerSet[c] : r[1] \in x[1] /\ r[3] = x[2]
      BY <2>4 DEF Covered
    <3>1. CASE x \in set
      BY <3>1 DEF Covered
    <3>2. CASE x = <<k.type, k.obs>>
      <4>1. r[1] \in k.type /\ r[3] = k.obs
        BY <3>2
      <4> QED
        BY <1>2, <2>1, <4>1 DEF TakesBack
    <3> QED
      BY <3>1, <3>2
  <2>5. Moves(c, "app", sent)
    BY <1>6, <1>9 DEF Unsubscribe
  <2> QED
    BY <1>3, <1>4, <2>1, <2>2, <2>3, <2>4, <2>5, SetChanges
<1>10. CASE UnsubscribeAll(c)
  <2>1. SetFree(c) /\ k.pc = "got" /\ k.op = "UnsubscribeAll" /\ observerSet' = [observerSet EXCEPT ![c] = {}]
    BY <1>10 DEF UnsubscribeAll
  <2>2. ThreadOK(sent, "app", {})
    BY <1>2, <1>7, <2>1 DEF ThreadOK, AppOK
  <2>3. (\E x \in observerSet[c] : x[1] # k.type) => "others" \in lost'[c]
    BY <1>10, Blamed DEF UnsubscribeAll
  <2>4. ASSUME NEW r, lost'[c] \cap {"others", "broken"} = {}, Covered(r, observerSet[c]) PROVE TakesBack(r, sent)
    <3> PICK x \in observerSet[c] : r[1] \in x[1]
      BY <2>4 DEF Covered
    <3>1. r[1] \in k.type
      BY <2>3, <2>4
    <3> QED
      BY <1>2, <2>1, <3>1 DEF TakesBack
  <2>5. Moves(c, "app", sent)
    BY <1>6, <1>10 DEF UnsubscribeAll
  <2> QED
    BY <1>3, <1>4, <2>1, <2>2, <2>4, <2>5, SetChanges
<1>11. CASE Detach(c)
  <2>1. k.pc = "got" /\ k.op = "DetachPasteboard" /\ UNCHANGED observerSet /\ Moves(c, "app", sent)
    BY <1>6, <1>11 DEF Detach, client
  <2>2. ThreadOK(sent, "app", observerSet[c]) /\ \A r : ~TakesBack(r, k)
    BY <1>2, <1>7, <2>1 DEF ThreadOK, AppOK, TakesBack
  <2> QED
    BY <1>1, <1>3, <1>4, <2>1, <2>2, WantedThread
<1>12. CASE GiveUp(c)
  <2>1. k.pc = "got" /\ UNCHANGED observerSet /\ Moves(c, "app", Idle)
    BY <1>5, <1>12 DEF GiveUp, client
  <2>2. \A r : ~TakesBack(r, k)
    BY <2>1 DEF TakesBack
  <2> QED
    BY <1>1, <1>3, <1>4, <2>1, <2>2, IdleOK, WantedThread
<1>13. CASE Replied(c)
  <2>1. Done(k) /\ UNCHANGED observerSet /\ Moves(c, "app", Idle)
    BY <1>5, <1>13 DEF Replied
  <2>2. k.op \in {"Unsubscribe", "UnsubscribeAll"} /\ k.proxy # sa => "broken" \in lost'[c]
    BY <1>13, Blamed DEF Replied
  <2>3. (\A r : ~TakesBack(r, k)) \/ "broken" \in lost'[c]
    BY <2>1, <2>2 DEF TakesBack, Done
  <2> QED
    BY <1>1, <1>3, <1>4, <2>1, <2>3, IdleOK, WantedThread
<1>14. CASE ReleaseDeathRecipient(c)
  <2>1. k.pc = "release" /\ UNCHANGED observerSet /\ Moves(c, "app", Idle)
    BY <1>5, <1>14 DEF ReleaseDeathRecipient, client
  <2>2. \A r : ~TakesBack(r, k)
    BY <2>1 DEF TakesBack
  <2> QED
    BY <1>1, <1>3, <1>4, <2>1, <2>2, IdleOK, WantedThread
<1> QED
  BY <1>8, <1>9, <1>10, <1>11, <1>12, <1>13, <1>14 DEF AppStep

\* The service handles one bit of a call.
LEMMA WantedHandleBit ==
  ASSUME ProxyInv, WantedInv, NEW c \in Clients, NEW t \in Threads, HandleBit(c, t)
  PROVE  WantedInv'
<1> PICK k : k = at[c][t]
  OBVIOUS
<1> PICK map : map = First(k.left)
  OBVIOUS
<1>1. Shape(k) /\ ThreadOK(k, t, observerSet[c]) /\ k.pc = "called" /\ k.left # {} /\ k.proxy = sa
  BY DEF ProxyInv, ThreadsOK, WantedInv, ObserversOK, HandleBit
<1>2. map \in k.left /\ map \in k.type
  BY <1>1 DEF First, ThreadOK, Maps
<1>3. PICK ok : at' = [at EXCEPT ![c][t].left = @ \ {map}, ![c][t].ok = ok]
  BY DEF HandleBit
<1> PICK left : left = k.left \ {map}
  OBVIOUS
<1> DEFINE new == [k EXCEPT !.left = left, !.ok = ok]
<1>4. at' = [at EXCEPT ![c][t] = new]
  BY <1>3 DEF ProxyInv, ThreadsOK, PerClient, IsFun
<1>5. /\ new.pc = k.pc /\ new.op = k.op /\ new.type = k.type /\ new.obs = k.obs
      /\ new.todo = k.todo /\ new.proxy = k.proxy /\ new.left = left
  BY <1>1 DEF Shape, Fields
<1> HIDE DEF new
<1>6. Moves(c, t, new)
  BY <1>4, ThreadMoves
<1>7. ThreadOK(new, t, observerSet[c])
  BY <1>1, <1>5 DEF ThreadOK, ListenerOK, AppOK
<1>8. UNCHANGED <<sa, alive, observerSet>>
  BY DEF HandleBit, client
<1>9. LostGrows
  BY LostKept, Blamed DEF HandleBit
<1>10. CASE Adds(k)
  <2>1. registered' \subseteq registered \cup {<<map, c, k.obs>>}
    <3>1. registered' = AddObserver(map, c, k.obs)
      BY <1>10 DEF HandleBit, Adds
    <3> QED
      BY <3>1 DEF AddObserver
  <2>2. <<k.type, k.obs>> \in observerSet[c]
    BY <1>1, <1>10 DEF ThreadOK, ListenerOK, AppOK, Adds, Ops, Threads
  <2>3. Covered(<<map, c, k.obs>>, observerSet[c])
    BY <1>2, <2>2 DEF Covered
  <2>4. OnlyAbout(c)
    <3>1. \A r \in registered' : Triple(r) /\ (r[2] # c => r \in registered)
      BY <2>1 DEF WantedInv, Triple
    <3> QED
      BY <1>6, <1>8, <1>9, <3>1 DEF OnlyAbout, Moves, LostGrows, WantedInv
  <2>5. ObserversOK(c)'
    <3>1. ASSUME NEW s \in Threads PROVE ThreadOK(at'[c][s], s, observerSet[c])
      BY <1>6, <1>7 DEF Moves, WantedInv, ObserversOK
    <3> QED
      BY <1>8, <3>1 DEF WantedInv, ObserversOK
  <2>6. WantedOK(c)'
    <3> SUFFICES ASSUME alive'[c], lost'[c] \cap {"others", "broken"} = {},
                        NEW r \in registered', r[2] = c
                 PROVE  (Covered(r, observerSet[c]) \/ TakesBack(r, at[c]["app"]))'
      BY DEF WantedOK
    <3>1. CASE r \in registered
      <4>1. Covered(r, observerSet[c]) \/ TakesBack(r, at[c]["app"])
        BY <1>8, <1>9, <3>1 DEF WantedInv, WantedOK, LostGrows
      <4>2. TakesBack(r, at[c]["app"]) => at'[c]["app"] = at[c]["app"]
        BY <1>6, <1>10 DEF Moves, TakesBack, Adds, Threads
      <4> QED
        BY <1>8, <4>1, <4>2 DEF Covered, TakesBack
    <3>2. CASE r = <<map, c, k.obs>>
      BY <1>8, <2>3, <3>2
    <3> QED
      BY <2>1, <3>1, <3>2
  <2> QED
    BY <2>4, <2>5, <2>6, OtherClients
<1>11. CASE ~Adds(k)
  <2>1. /\ registered' \subseteq registered
        /\ k.op = "Unsubscribe" => <<map, c, k.obs>> \notin registered'
        /\ k.op = "UnsubscribeAll" => \A r \in registered' : r[1] # map \/ r[2] # c
    BY <1>11 DEF HandleBit, RemoveSingleObserver, RemoveObserverByPid
  <2>2. OnlyAbout(c)
    BY <1>6, <1>8, <1>9, <2>1 DEF OnlyAbout, Moves, LostGrows, WantedInv
  <2>3. ObserversOK(c)'
    <3>1. ASSUME NEW s \in Threads PROVE ThreadOK(at'[c][s], s, observerSet[c])
      BY <1>6, <1>7 DEF Moves, WantedInv, ObserversOK
    <3> QED
      BY <1>8, <3>1 DEF WantedInv, ObserversOK
  <2>4. WantedOK(c)'
    <3> SUFFICES ASSUME alive'[c], lost'[c] \cap {"others", "broken"} = {},
                        NEW r \in registered', r[2] = c
                 PROVE  (Covered(r, observerSet[c]) \/ TakesBack(r, at[c]["app"]))'
      BY DEF WantedOK
    <3>1. Covered(r, observerSet[c]) \/ TakesBack(r, at[c]["app"])
      BY <1>8, <1>9, <2>1 DEF WantedInv, WantedOK, LostGrows
    <3>2. CASE Covered(r, observerSet[c])
      BY <1>8, <3>2
    <3>3. CASE TakesBack(r, at[c]["app"]) /\ t # "app"
      BY <1>6, <1>8, <3>3 DEF Moves, TakesBack, Threads
    <3>4. CASE TakesBack(r, k) /\ t = "app"
      <4>1. r = <<r[1], r[2], r[3]>>
        BY <2>1 DEF WantedInv, Triple
      <4>2. r[1] # map
        BY <2>1, <3>4, <4>1 DEF TakesBack
      <4>3. TakesBack(r, new)
        BY <1>5, <3>4, <4>2 DEF TakesBack
      <4>4. at'[c]["app"] = new
        BY <1>6, <3>4 DEF Moves
      <4> QED
        BY <1>8, <4>3, <4>4 DEF TakesBack
    <3> QED
      BY <3>1, <3>2, <3>3, <3>4
  <2> QED
    BY <2>2, <2>3, <2>4, OtherClients
<1> QED
  BY <1>10, <1>11

\* The service forgets a client that detaches or has died.
LEMMA WantedExit ==
  ASSUME ProxyInv, WantedInv, NEW c \in Clients, HandleDetach(c) \/ OnClientDied(c)
  PROVE  WantedInv'
<1>1. /\ registered' \subseteq registered /\ \A r \in registered' : r[1] \in Maps => r[2] # c
      /\ UNCHANGED <<sa, alive, observerSet>>
  BY DEF HandleDetach, OnClientDied, AppExit, RemoveObserverByPid, client, Maps
<1>2. LostGrows
  BY LostKept, Blamed DEF HandleDetach, OnClientDied
<1> PICK k : k = at[c]["app"]
  OBVIOUS
<1>3. Shape(k) /\ ThreadOK(k, "app", observerSet[c])
  BY DEF ProxyInv, ThreadsOK, WantedInv, ObserversOK, Threads
<1>4. PICK new : Moves(c, "app", new) /\ ThreadOK(new, "app", observerSet[c]) /\ \A r : TakesBack(r, k) => new = k
  <2>1. CASE HandleDetach(c)
    <3> DEFINE new == [k EXCEPT !.op = "none", !.left = {}]
    <3>1. at' = [at EXCEPT ![c]["app"] = new]
      BY <2>1 DEF HandleDetach
    <3>2. new.pc = k.pc /\ new.op = "none" /\ new.type = k.type /\ new.left = {}
      BY <1>3 DEF Shape, Fields
    <3> HIDE DEF new
    <3>3. Moves(c, "app", new)
      BY <3>1, ThreadMoves DEF Threads
    <3>4. ThreadOK(new, "app", observerSet[c]) /\ \A r : ~TakesBack(r, k)
      BY <1>3, <2>1, <3>2 DEF ThreadOK, AppOK, TakesBack, HandleDetach
    <3> QED
      BY <3>3, <3>4
  <2>2. CASE OnClientDied(c)
    <3>1. UNCHANGED at
      BY <2>2 DEF OnClientDied
    <3>2. Moves(c, "app", k)
      BY <3>1 DEF Moves, ProxyInv, ThreadsOK
    <3> QED
      BY <1>3, <3>2
  <2> QED
    BY <2>1, <2>2
<1>5. OnlyAbout(c)
  BY <1>1, <1>2, <1>4 DEF OnlyAbout, Moves, LostGrows, WantedInv
<1>6. ObserversOK(c)'
  <2>1. ASSUME NEW s \in Threads PROVE ThreadOK(at'[c][s], s, observerSet[c])
    BY <1>4 DEF Moves, WantedInv, ObserversOK
  <2> QED
    BY <1>1, <2>1 DEF WantedInv, ObserversOK
<1>7. WantedOK(c)'
  <2> SUFFICES ASSUME alive'[c], lost'[c] \cap {"others", "broken"} = {},
                      NEW r \in registered', r[2] = c
               PROVE  (Covered(r, observerSet[c]) \/ TakesBack(r, at[c]["app"]))'
    BY DEF WantedOK
  <2>1. Covered(r, observerSet[c]) \/ TakesBack(r, k)
    BY <1>1, <1>2 DEF WantedInv, WantedOK, LostGrows
  <2>2. TakesBack(r, k) => at'[c]["app"] = k
    BY <1>4 DEF Moves
  <2> QED
    BY <1>1, <2>1, <2>2 DEF Covered, TakesBack
<1> QED
  BY <1>5, <1>6, <1>7, OtherClients

\* A service that starts knows no observer, and none of the calls under way is for it.
LEMMA WantedRestart ==
  ASSUME ProxyInv, WantedInv, SaStart \/ SaStop
  PROVE  WantedInv'
<1>1. UNCHANGED <<alive, observerSet, at, lost>>
  BY DEF SaStart, SaStop, ghosts
<1>2. ASSUME NEW c \in Clients PROVE ObserversOK(c)'
  BY <1>1 DEF WantedInv, ObserversOK
<1>3. CASE SaStop
  <2>1. registered' = {}
    BY <1>3 DEF SaStop
  <2>2. ASSUME NEW c \in Clients PROVE WantedOK(c)'
    BY <2>1 DEF WantedOK
  <2> QED
    BY <1>1, <1>2, <2>1, <2>2 DEF WantedInv, PerClient
<1>4. CASE SaStart
  <2>1. UNCHANGED registered /\ sa = 0 /\ sa' = stops + 1
    BY <1>4 DEF SaStart
  <2>2. ASSUME NEW c \in Clients PROVE WantedOK(c)'
    <3>1. at[c]["app"].proxy # sa'
      BY <2>1 DEF ProxyInv, ThreadsOK, Known, Threads
    <3>2. \A r : TakesBack(r, at[c]["app"]) => TakesBack(r, at[c]["app"])'
      BY <1>1, <3>1 DEF TakesBack
    <3>3. WantedOK(c)
      BY DEF WantedInv
    <3> QED
      BY <1>1, <2>1, <3>2, <3>3 DEF WantedOK
  <2> QED
    BY <1>1, <1>2, <2>1, <2>2 DEF WantedInv, PerClient
<1> QED
  BY <1>3, <1>4

\* Every step of every actor keeps WantedInv.
LEMMA WantedStep == ProxyInv /\ WantedInv /\ [Next]_vars => WantedInv'
<1> SUFFICES ASSUME ProxyInv, WantedInv, [Next]_vars PROVE WantedInv'
  OBVIOUS
<1>1. ASSUME NEW c \in Clients, NEW op \in Ops, NEW type \in Types \cup {{}}, NEW obs \in Observers,
             Call(c, op, type, obs)
      PROVE  WantedInv'
  <2> DEFINE new == [Idle EXCEPT !.pc = "get", !.op = op, !.type = type, !.obs = obs]
  <2>1. at' = [at EXCEPT ![c]["app"] = new] /\ at[c]["app"] = Idle
    BY <1>1 DEF Call
  <2>2. new.pc = "get" /\ new.op = op /\ new.type = type /\ new.left = {}
    BY DEF Idle
  <2> HIDE DEF new
  <2>3. type \subseteq Maps
    BY ClientAssumption DEF Maps
  <2>4. ThreadOK(new, "app", observerSet[c]) /\ \A r : ~TakesBack(r, at[c]["app"])
    BY <2>1, <2>2, <2>3, IdleShaped DEF ThreadOK, AppOK, TakesBack
  <2>5. Moves(c, "app", new)
    BY <2>1, ThreadMoves DEF Threads
  <2>6. UNCHANGED <<sa, registered, observerSet, alive, lost>>
    BY <1>1 DEF Call, service, client, ghosts
  <2> QED
    BY <2>4, <2>5, <2>6, LostKept, WantedThread DEF Threads
<1>4. ASSUME NEW c \in Clients, ReleaseSaListener(c) PROVE WantedInv'
  <2>1. at' = [at EXCEPT ![c]["app"] = Releasing] /\ at[c]["app"] = Idle
    BY <1>4 DEF ReleaseSaListener, Releasing
  <2>2. ThreadOK(Releasing, "app", observerSet[c]) /\ \A r : ~TakesBack(r, at[c]["app"])
    BY <2>1, ReleasingShaped, IdleShaped DEF ThreadOK, AppOK, TakesBack
  <2>3. Moves(c, "app", Releasing)
    BY <2>1, ThreadMoves DEF Threads
  <2>4. UNCHANGED <<sa, registered, observerSet, alive, lost>>
    BY <1>4 DEF ReleaseSaListener, service
  <2> QED
    BY <2>2, <2>3, <2>4, LostKept, WantedThread DEF Threads
<1>2. ASSUME NEW c \in Clients, ClientDies(c) PROVE WantedInv'
  <2>1. UNCHANGED <<sa, registered, observerSet, at, lost>>
    BY <1>2 DEF ClientDies, service, client, ghosts
  <2>2. PerClient(alive') /\ \A b \in Clients : alive'[b] => alive[b]
    BY <1>2 DEF ClientDies, WantedInv, PerClient, IsFun
  <2>3. ASSUME NEW b \in Clients PROVE ObserversOK(b)' /\ WantedOK(b)'
    BY <2>1, <2>2 DEF WantedInv, ObserversOK, WantedOK, Covered, TakesBack
  <2> QED
    BY <2>1, <2>2, <2>3 DEF WantedInv, PerClient
<1>3. CASE UNCHANGED vars
  BY <1>3, WantedStays, LostKept DEF vars, service, client, ghosts
<1> QED
  BY <1>1, <1>2, <1>3, <1>4, WantedAppStep, WantedListenerStep, WantedGetStep, WantedAnswerStep,
     WantedHandleBit, WantedExit, WantedRestart DEF Next, ServiceStep

LEMMA WantedInit == Init => WantedInv
<1> SUFFICES ASSUME Init PROVE WantedInv
  OBVIOUS
<1>1. PerClient(observerSet) /\ PerClient(alive) /\ registered = {}
  BY DEF Init, PerClient, IsFun
<1>2. ASSUME NEW c \in Clients PROVE ObserversOK(c)
  <2>1. observerSet[c] = {} /\ \A t \in Threads : at[c][t] = Idle
    BY DEF Init
  <2> QED
    BY <2>1, IdleOK DEF ObserversOK
<1> QED
  BY <1>1, <1>2 DEF WantedInv, WantedOK

(* Once nothing of a client is under way, the service calls none of its    *)
(* observers that it does not want, over restarts of the service in the    *)
(* middle of calls and while the listener subscribes all of them again.    *)
THEOREM OnlyWanted == Spec => []NoneUnwanted
<1>1. Init => ProxyInv /\ WantedInv
  BY ProxyInit, WantedInit
<1>2. WantedInv => NoneUnwanted
  <2> SUFFICES ASSUME WantedInv, NEW c \in Clients, alive[c], Quiet(c),
                      lost[c] \cap {"others", "broken"} = {}, NEW r \in registered, r[2] = c
               PROVE  Covered(r, observerSet[c])
    BY DEF NoneUnwanted, Covered
  <2>1. at[c]["app"] = Idle
    BY DEF Quiet, Threads
  <2>2. ~TakesBack(r, at[c]["app"])
    BY <2>1, IdleShaped DEF TakesBack
  <2> QED
    BY <2>2 DEF WantedInv, WantedOK
<1> QED
  BY <1>1, <1>2, ProxyStep, WantedStep, PTL DEF Spec

-----------------------------------------------------------------------------
(* Restarts.                                                               *)

\* No map is asked for by two types, so that to take back one type leaves the others.
TypesApart == \A s \in Types, u \in Types : s = u \/ s \cap u = {}

Excused == {"missed", "detached", "timeout", "full"}

\* The running service has an observer.
Standing(c, x) == \E map \in x[1] : <<map, c, x[2]>> \in registered

\* The service has stopped since, and the listener will hear of the stop before it hears of
\* the start that follows: n is the incarnation that runs, q what the listener has still to
\* hear, d hasDied_ and k its thread.
Due(n, q, d, k) ==
  IF n = 0 THEN IF q = <<>> THEN d /\ k = Idle ELSE q[Len(q)] = "removed"
  ELSE /\ q # <<>> /\ q[Len(q)] = "added"
       /\ IF Len(q) = 1 THEN d /\ k = Idle ELSE q[Len(q) - 1] = "removed"

\* The listener is about to subscribe x again at the running service.
Underway(n, q, k, x) ==
  /\ n # 0 /\ q = <<>>
  /\ \/ k.pc \in {"get", "wait", "construct", "register"}
     \/ k.pc = "got" /\ k.proxy \in {0, n}
     \/ k.pc = "called" /\ k.proxy = n /\ x \in k.todo /\ (x = <<k.type, k.obs>> => k.left = k.type)

Safe(c, x) ==
  \/ Standing(c, x)
  \/ Due(sa, notices[c], hasDied[c], at[c]["samgr"])
  \/ Underway(sa, notices[c], at[c]["samgr"], x)

\* What Subscribe returned true for.
PromisesOK(c) ==
  /\ promised[c] \subseteq observerSet[c]
  /\ promised[c] # {} => listening[c]
  /\ \A x \in promised[c] : "event" \notin x[1] /\ Safe(c, x)

\* A proxy of a service that has stopped is forgotten with the notice of the next start.
FreshOK(c) == listening[c] /\ sa # 0 /\ notices[c] = <<>> => proxy[c] \in {0, sa}

\* A call of the application that is with the service.
CallOK(c, k) ==
  k.pc = "called" =>
    /\ k.op = "UnsubscribeAll" => promised[c] = {}
    /\ k.op = "Unsubscribe" => <<k.type, k.obs>> \notin promised[c]
    /\ k.op = "Subscribe" /\ k.ok =>
         /\ "event" \notin k.type
         /\ listening[c] => Safe(c, <<k.type, k.obs>>)
         /\ ~listening[c] /\ k.proxy = sa => Standing(c, <<k.type, k.obs>>)

RestoreOK(c) ==
  alive[c] /\ lost[c] \cap Excused = {} => PromisesOK(c) /\ FreshOK(c) /\ CallOK(c, at[c]["app"])

\* A call has the type it was made with, and is made with a proxy.
CallShaped(k) ==
  /\ k.pc # "idle" /\ k.op \in {"Subscribe", "Unsubscribe", "UnsubscribeAll"} => k.type \in Types \ {{}}
  /\ k.pc = "called" => k.proxy # 0
  /\ k.pc # "called" => ~k.ok
  /\ k.pc = "called" /\ k.op = "none" => k.left = {}

\* The last notice under way tells whether the service runs.
LastNotice(q) == IF sa = 0 THEN q[Len(q)] = "removed" ELSE q[Len(q)] = "added"

RestoreTypes(c) ==
  /\ \A x \in observerSet[c] : x[1] \in Types \ {{}}
  /\ CallShaped(at[c]["app"])
  /\ c \in haps => \A o : <<"event", c, o>> \notin registered
  /\ notices[c] \in Seq({"added", "removed"})
  /\ ~listening[c] => notices[c] = <<>>
  /\ notices[c] # <<>> => LastNotice(notices[c])

RestoreInv ==
  /\ haps \subseteq Clients
  /\ PerClient(notices) /\ PerClient(listening) /\ PerClient(hasDied) /\ PerClient(promised)
  /\ \A c \in Clients : RestoreTypes(c)
  /\ \A c \in haps : RestoreOK(c)

Notices == {"added", "removed"}

\* A stop is heard of.
LEMMA StopIsDue ==
  ASSUME NEW q \in Seq(Notices), NEW d, NEW k
  PROVE  Due(0, Append(q, "removed"), d, k)
<1> PICK l \in Nat : l = Len(q)
  OBVIOUS
<1> PICK r : r = Append(q, "removed")
  OBVIOUS
<1>1. r # <<>> /\ Len(r) = l + 1 /\ r[l + 1] = "removed"
  BY DEF Notices
<1> QED
  BY <1>1 DEF Due

\* The start after it, too.
LEMMA StartIsDue ==
  ASSUME NEW q \in Seq(Notices), NEW d, NEW k, NEW n, n # 0, Due(0, q, d, k)
  PROVE  Due(n, Append(q, "added"), d, k)
<1> PICK l \in Nat : l = Len(q)
  OBVIOUS
<1> PICK r : r = Append(q, "added")
  OBVIOUS
<1>1. /\ r # <<>> /\ Len(r) = l + 1 /\ r[l + 1] = "added"
      /\ l >= 1 => r[l] = q[l]
      /\ q = <<>> <=> l = 0
  BY DEF Notices
<1>2. CASE l = 0
  BY <1>1, <1>2 DEF Due
<1>3. CASE l # 0
  <2>1. r[l] = "removed" /\ Len(r) # 1 /\ Len(r) - 1 = l
    BY <1>1, <1>3 DEF Due
  <2> QED
    BY <1>1, <2>1 DEF Due
<1> QED
  BY <1>2, <1>3

\* What is left to hear.
LEMMA Heard ==
  ASSUME NEW q \in Seq(Notices), q # <<>>
  PROVE  /\ Len(q) \in Nat /\ Len(q) >= 1 /\ Head(q) = q[1]
         /\ Tail(q) \in Seq(Notices) /\ Len(Tail(q)) = Len(q) - 1
         /\ \A i \in 1 .. Len(q) - 1 : Tail(q)[i] = q[i + 1]
         /\ Tail(q) = <<>> <=> Len(q) = 1
<1> PICK l \in Nat : l = Len(q)
  OBVIOUS
<1>1. l >= 1 /\ Head(q) = q[1]
  OBVIOUS
<1>2. PICK r : r = Tail(q)
  OBVIOUS
<1>3. r \in Seq(Notices) /\ Len(r) = l - 1 /\ \A i \in 1 .. Len(r) : r[i] = q[i + 1]
  BY <1>2, HeadTailProperties
<1>4. r = <<>> <=> Len(r) = 0
  BY <1>3
<1> QED
  BY <1>1, <1>2, <1>3, <1>4

LEMMA StopHeard ==
  ASSUME NEW q \in Seq(Notices), q # <<>>, Head(q) = "removed", NEW d, NEW k, NEW n, Due(n, q, d, k)
  PROVE  Due(n, Tail(q), TRUE, Idle)
<1> PICK l \in Nat : l = Len(q)
  OBVIOUS
<1> PICK r : r = Tail(q)
  OBVIOUS
<1>1. /\ l >= 1 /\ q[1] = "removed" /\ Len(r) = l - 1 /\ (r = <<>> <=> l = 1)
      /\ \A i \in 1 .. l - 1 : r[i] = q[i + 1]
  BY Heard
<1>2. CASE l = 1
  BY <1>1, <1>2 DEF Due
<1>3. CASE l # 1
  <2>1. l - 1 \in 1 .. l - 1 /\ (l # 2 => l - 2 \in 1 .. l - 1)
    BY <1>1, <1>3
  <2>2. r[l - 1] = q[l] /\ (l # 2 => r[l - 2] = q[l - 1])
    BY <1>1, <2>1
  <2> QED
    BY <1>1, <1>3, <2>2 DEF Due
<1> QED
  BY <1>2, <1>3

\* A start that is heard of is the one that is due, or that one is still to come.
LEMMA StartHeard ==
  ASSUME NEW q \in Seq(Notices), q # <<>>, Head(q) = "added", NEW d, NEW k, NEW n, Due(n, q, d, k)
  PROVE  /\ Tail(q) = <<>> => d /\ n # 0
         /\ Tail(q) # <<>> => \A e, j : Due(n, Tail(q), e, j)
<1> PICK l \in Nat : l = Len(q)
  OBVIOUS
<1> PICK r : r = Tail(q)
  OBVIOUS
<1>1. /\ l >= 1 /\ q[1] = "added" /\ Len(r) = l - 1 /\ (r = <<>> <=> l = 1)
      /\ \A i \in 1 .. l - 1 : r[i] = q[i + 1]
  BY Heard
<1>2. CASE l = 1
  BY <1>1, <1>2 DEF Due
<1>3. CASE l # 1
  <2>1. l - 1 \in 1 .. l - 1 /\ (l # 2 => l - 2 \in 1 .. l - 1)
    BY <1>1, <1>3
  <2>2. r[l - 1] = q[l] /\ (l # 2 => r[l - 2] = q[l - 1])
    BY <1>1, <2>1
  <2>3. n # 0 => l # 2
    BY <1>1, <1>3 DEF Due
  <2>4. ASSUME NEW e, NEW j PROVE Due(n, r, e, j)
    <3>1. CASE n = 0
      BY <1>1, <1>3, <2>2, <3>1 DEF Due
    <3>2. CASE n # 0
      <4>1. Len(r) # 1 /\ Len(r) - 1 = l - 2
        BY <1>1, <2>3, <3>2
      <4> QED
        BY <1>1, <1>3, <2>2, <2>3, <3>2, <4>1 DEF Due
    <3> QED
      BY <3>1, <3>2
  <2> QED
    BY <1>1, <1>3, <2>4
<1> QED
  BY <1>2, <1>3

\* While the listener is busy it does not matter what it is busy with.
LEMMA DueWhileBusy ==
  ASSUME NEW n, NEW q, NEW d, NEW k, k # Idle, Due(n, q, d, k), NEW e, NEW j
  PROVE  Due(n, q, e, j)
BY DEF Due

\* What keeps an observer safe is left alone.
LEMMA SafeKept ==
  ASSUME NEW c, NEW x, Safe(c, x), sa' = sa, notices'[c] = notices[c], hasDied'[c] = hasDied[c],
         at'[c]["samgr"] = at[c]["samgr"],
         \A map \in x[1] : <<map, c, x[2]>> \in registered => <<map, c, x[2]>> \in registered'
  PROVE  Safe(c, x)'
<1>1. Standing(c, x) => Standing(c, x)'
  BY DEF Standing
<1> QED
  BY <1>1 DEF Safe

\* A step that is about client c leaves what there is of the others.
SameBut(f, g, c) == IsFun(g, Clients) /\ \A b \in Clients : b # c => g[b] = f[b]

Elsewhere(c) ==
  /\ sa' = sa /\ haps' = haps /\ LostGrows
  /\ SameBut(alive, alive', c) /\ SameBut(proxy, proxy', c) /\ SameBut(observerSet, observerSet', c)
  /\ SameBut(promised, promised', c) /\ SameBut(listening, listening', c)
  /\ SameBut(hasDied, hasDied', c) /\ SameBut(notices, notices', c)
  /\ \A b \in Clients, s \in Threads : b # c => at'[b][s] = at[b][s]
  /\ \A b \in Clients : b # c => \A map, o : <<map, b, o>> \in registered' <=> <<map, b, o>> \in registered

LEMMA OneClient ==
  ASSUME RestoreInv, NEW c \in Clients, Elsewhere(c), RestoreTypes(c)', c \in haps => RestoreOK(c)'
  PROVE  RestoreInv'
<1>1. ASSUME NEW b \in Clients, b # c PROVE RestoreTypes(b)' /\ (b \in haps => RestoreOK(b)')
  <2>1. /\ sa' = sa /\ haps' = haps /\ lost[b] \subseteq lost'[b] /\ alive'[b] = alive[b] /\ proxy'[b] = proxy[b]
        /\ observerSet'[b] = observerSet[b] /\ promised'[b] = promised[b] /\ listening'[b] = listening[b]
        /\ hasDied'[b] = hasDied[b] /\ notices'[b] = notices[b]
        /\ at'[b]["app"] = at[b]["app"] /\ at'[b]["samgr"] = at[b]["samgr"]
        /\ \A map, o : <<map, b, o>> \in registered' <=> <<map, b, o>> \in registered
    BY <1>1 DEF Elsewhere, SameBut, LostGrows, Threads
  <2>2. RestoreTypes(b)'
    BY <2>1 DEF RestoreInv, RestoreTypes, LastNotice
  <2>3. ASSUME NEW x, Safe(b, x) PROVE Safe(b, x)'
    BY <2>1, <2>3, SafeKept
  <2>4. ASSUME b \in haps, alive'[b], lost'[b] \cap Excused = {}
        PROVE  PromisesOK(b)' /\ FreshOK(b)' /\ CallOK(b, at[b]["app"])'
    <3>1. PromisesOK(b) /\ FreshOK(b) /\ CallOK(b, at[b]["app"])
      BY <2>1, <2>4 DEF RestoreInv, RestoreOK
    <3>2. PromisesOK(b)'
      BY <2>1, <2>3, <3>1 DEF PromisesOK
    <3>3. FreshOK(b)'
      BY <2>1, <3>1 DEF FreshOK
    <3>4. \A x : Standing(b, x)' <=> Standing(b, x)
      BY <2>1 DEF Standing
    <3>5. CallOK(b, at[b]["app"])'
      BY <2>1, <2>3, <3>1, <3>4 DEF CallOK
    <3> QED
      BY <3>2, <3>3, <3>5
  <2> QED
    BY <2>2, <2>4 DEF RestoreOK
<1>2. haps' = haps /\ PerClient(notices') /\ PerClient(listening') /\ PerClient(hasDied') /\ PerClient(promised')
  BY DEF Elsewhere, SameBut, PerClient
<1>3. \A b \in Clients : RestoreTypes(b)' /\ (b \in haps => RestoreOK(b)')
  BY <1>1
<1> QED
  BY <1>2, <1>3 DEF RestoreInv

\* A thread goes on with observers, notices and service as they are.
LEMMA QuietStep ==
  ASSUME ProxyInv, WantedInv, RestoreInv, NEW c \in Clients, NEW t \in Threads, NEW new, Moves(c, t, new), LostGrows,
         UNCHANGED <<sa, haps, registered, observerSet, alive, listening, hasDied, notices, promised>>,
         SameBut(proxy, proxy', c), proxy'[c] \in {0, proxy[c], sa},
         t = "app" => /\ CallShaped(new)
                      /\ new.pc = "called" => new.op \notin {"Subscribe", "Unsubscribe", "UnsubscribeAll"},
         t = "samgr" => /\ at[c]["samgr"] # Idle
                        /\ \A x \in observerSet[c] : c \in haps /\ listening[c] /\ FreshOK(c) /\ Underway(sa, notices[c], at[c]["samgr"], x)
                                                       => Underway(sa, notices[c], new, x)
  PROVE  RestoreInv'
<1>1. Elsewhere(c)
  BY DEF Elsewhere, SameBut, Moves, WantedInv, RestoreInv, PerClient
<1>2. /\ t = "app" => at'[c]["app"] = new /\ at'[c]["samgr"] = at[c]["samgr"]
      /\ t = "samgr" => at'[c]["samgr"] = new /\ at'[c]["app"] = at[c]["app"]
      /\ t = "load" => at'[c]["samgr"] = at[c]["samgr"] /\ at'[c]["app"] = at[c]["app"]
      /\ t \in {"app", "samgr", "load"}
  BY DEF Moves, Threads
<1>3. RestoreTypes(c)'
  BY <1>2 DEF RestoreInv, RestoreTypes, LastNotice
<1>4. ASSUME NEW x \in observerSet[c], c \in haps, listening[c], FreshOK(c), Safe(c, x) PROVE Safe(c, x)'
  <2>1. CASE t # "samgr"
    BY <1>2, <1>4, <2>1, SafeKept
  <2>2. CASE t = "samgr"
    <3>1. CASE Standing(c, x)
      BY <3>1 DEF Safe, Standing
    <3>2. CASE Due(sa, notices[c], hasDied[c], at[c]["samgr"])
      <4>1. Due(sa, notices[c], hasDied[c], new)
        BY <2>2, <3>2, DueWhileBusy
      <4> QED
        BY <1>2, <2>2, <4>1 DEF Safe
    <3>3. CASE Underway(sa, notices[c], at[c]["samgr"], x)
      <4>1. Underway(sa, notices[c], new, x)
        BY <1>4, <2>2, <3>3
      <4> QED
        BY <1>2, <2>2, <4>1 DEF Safe
    <3> QED
      BY <1>4, <3>1, <3>2, <3>3 DEF Safe
  <2> QED
    BY <2>1, <2>2
<1>5. ASSUME c \in haps, alive'[c], lost'[c] \cap Excused = {}
      PROVE  PromisesOK(c)' /\ FreshOK(c)' /\ CallOK(c, at[c]["app"])'
  <2>1. PromisesOK(c) /\ FreshOK(c) /\ CallOK(c, at[c]["app"])
    BY <1>5 DEF RestoreInv, RestoreOK, LostGrows
  <2>2. PromisesOK(c)'
    <3>1. ASSUME NEW x \in promised[c] PROVE Safe(c, x)'
      BY <1>4, <1>5, <2>1 DEF PromisesOK
    <3> QED
      BY <2>1, <3>1 DEF PromisesOK
  <2>3. FreshOK(c)'
    BY <2>1 DEF FreshOK
  <2>4. CASE t = "app"
    <3>1. CallOK(c, at[c]["app"])'
      BY <1>2, <2>4 DEF CallOK
    <3> QED
      BY <2>2, <2>3, <3>1
  <2>5. CASE t # "app"
    <3> PICK k : k = at[c]["app"]
      OBVIOUS
    <3>0. at'[c]["app"] = k
      BY <1>2, <2>5
    <3>1. ASSUME k.pc = "called", k.op = "Subscribe" PROVE <<k.type, k.obs>> \in observerSet[c]
      BY <3>1 DEF WantedInv, ObserversOK, ThreadOK, AppOK, Threads
    <3>2. ASSUME k.pc = "called", k.op = "Subscribe", k.ok, listening[c] PROVE Safe(c, <<k.type, k.obs>>)'
      <4> PICK x \in observerSet[c] : x = <<k.type, k.obs>>
        BY <3>1, <3>2
      <4>1. Safe(c, x)
        BY <2>1, <3>2 DEF CallOK
      <4>2. Safe(c, x)'
        BY <1>4, <1>5, <2>1, <3>2, <4>1
      <4>3. \A y : Safe(c, y)' <=> Safe(c, y)'
        OBVIOUS
      <4> QED
        BY <4>2
    <3>3. \A x : Standing(c, x)' <=> Standing(c, x)
      BY DEF Standing
    <3>4. CallOK(c, k)'
      BY <2>1, <3>2, <3>3 DEF CallOK
    <3> QED
      BY <2>2, <2>3, <3>0, <3>4
  <2> QED
    BY <2>4, <2>5
<1>6. c \in haps => RestoreOK(c)'
  BY <1>5 DEF RestoreOK
<1> QED
  BY <1>1, <1>3, <1>6, OneClient

LEMMA CachedProxy ==
  ASSUME ProxyInv, NEW c \in Clients, NEW n, proxy' = [proxy EXCEPT ![c] = n]
  PROVE  SameBut(proxy, proxy', c) /\ proxy'[c] = n
BY DEF ProxyInv, PerClient, IsFun, SameBut

LEMMA RestoreGetStep ==
  ASSUME ProxyInv, WantedInv, RestoreInv, NEW c \in Clients, NEW t \in Threads, GetStep(c, t)
  PROVE  RestoreInv'
<1> PICK k : k = at[c][t]
  OBVIOUS
<1>1. Shape(k) /\ ThreadOK(k, t, observerSet[c])
  BY DEF ProxyInv, ThreadsOK, WantedInv, ObserversOK
<1>2. UNCHANGED <<sa, haps, registered, observerSet, alive, listening, hasDied, notices, promised>>
  BY DEF GetStep, GetCached, GetWhileLoading, GetRunning, GetByLoading, Waited, Register, service, client, ghosts
<1>3. LostGrows
  <2>1. UNCHANGED lost \/ Blame(c, "unregistered")
    BY DEF GetStep, GetCached, GetWhileLoading, GetRunning, GetByLoading, Waited, Register, ghosts
  <2> QED
    BY <2>1, LostKept, Blamed
<1>4. k.pc \in {"get", "wait", "construct", "register"}
  BY DEF GetStep, GetCached, GetWhileLoading, GetRunning, GetByLoading, Waited, Register
<1>5. SameBut(proxy, proxy', c) /\ proxy'[c] \in {0, proxy[c], sa}
  <2>1. UNCHANGED proxy \/ proxy' = [proxy EXCEPT ![c] = sa]
    BY DEF GetStep, GetCached, GetWhileLoading, GetRunning, GetByLoading, Waited, Register, Connect, loader
  <2>2. UNCHANGED proxy => SameBut(proxy, proxy', c)
    BY DEF ProxyInv, PerClient, SameBut
  <2> QED
    BY <2>1, <2>2, CachedProxy
<1>6. CASE t = "load"
  <2>1. Register(c, t)
    BY <1>1, <1>6 DEF ThreadOK, GetStep, GetCached, GetWhileLoading, GetRunning, GetByLoading, Waited
  <2>2. Moves(c, t, Idle)
    BY <1>6, <2>1, ThreadMoves DEF Register, Return
  <2> QED
    BY <1>2, <1>3, <1>5, <1>6, <2>2, QuietStep
<1>7. CASE t # "load"
  <2>1. PICK pc \in {"got", "wait", "construct", "register"} : \E p : Gets(c, t, pc, p)
    BY <1>7, GetGoesOn
  <2>2. PICK p : Gets(c, t, pc, p)
    BY <2>1
  <2> DEFINE new == [k EXCEPT !.pc = pc, !.proxy = p]
  <2>3. new.op = k.op /\ new.type = k.type /\ new.ok = k.ok /\ new.pc = pc /\ new.proxy = p
    BY <1>1 DEF Shape, Fields
  <2> HIDE DEF new
  <2>4. Moves(c, t, new)
    BY <2>2, ThreadMoves DEF new, Gets
  <2>5. t = "app" => CallShaped(new) /\ new.pc # "called"
    BY <1>4, <2>3 DEF RestoreInv, RestoreTypes, CallShaped
  <2>6. k # Idle
    BY <1>4, IdleShaped
  <2>7. ASSUME NEW x, listening[c], FreshOK(c), Underway(sa, notices[c], k, x) PROVE Underway(sa, notices[c], new, x)
    BY <2>2, <2>3, <2>7 DEF Underway, FreshOK, Gets
  <2> QED
    BY <1>2, <1>3, <1>5, <2>4, <2>5, <2>6, <2>7, QuietStep
<1> QED
  BY <1>6, <1>7

LEMMA RestoreAnswerStep ==
  ASSUME ProxyInv, WantedInv, RestoreInv, NEW c \in Clients, LoadSuccess(c) \/ LoadFail(c) \/ OnRemoteSaDied(c)
  PROVE  RestoreInv'
<1>1. UNCHANGED <<sa, haps, registered, observerSet, alive, lost, listening, hasDied, notices, promised>>
  BY DEF LoadSuccess, LoadFail, OnRemoteSaDied, service, client, ghosts
<1>2. SameBut(proxy, proxy', c) /\ proxy'[c] \in {0, sa}
  BY CachedProxy DEF LoadSuccess, LoadFail, OnRemoteSaDied, Connect
<1>3. PICK new : Moves(c, "load", new)
  <2>1. CASE UNCHANGED at
    BY <2>1 DEF Moves, ProxyInv, ThreadsOK
  <2>2. CASE LoadSuccess(c)
    <3>1. at' = [at EXCEPT ![c]["load"] = [at[c]["load"] EXCEPT !.pc = "register", !.proxy = sa]]
      BY <2>2 DEF LoadSuccess, Connect
    <3> QED
      BY <3>1, ThreadMoves DEF Threads
  <2> QED
    BY <2>1, <2>2 DEF LoadFail, OnRemoteSaDied
<1> QED
  BY <1>1, <1>2, <1>3, LostKept, QuietStep DEF Threads

LEMMA RestoreCall ==
  ASSUME ProxyInv, WantedInv, RestoreInv, NEW c \in Clients, NEW op \in Ops, NEW type \in Types \cup {{}},
         NEW obs \in Observers, Call(c, op, type, obs)
  PROVE  RestoreInv'
<1> DEFINE new == [Idle EXCEPT !.pc = "get", !.op = op, !.type = type, !.obs = obs]
<1>1. at' = [at EXCEPT ![c]["app"] = new] /\ (op = "DetachPasteboard" <=> type = {})
  BY DEF Call
<1>2. new.pc = "get" /\ new.op = op /\ new.type = type /\ new.ok = FALSE
  BY DEF Idle
<1> HIDE DEF new
<1>3. CallShaped(new)
  BY <1>1, <1>2 DEF CallShaped
<1>4. Moves(c, "app", new)
  BY <1>1, ThreadMoves DEF Threads
<1>5. UNCHANGED <<sa, haps, registered, observerSet, alive, lost, listening, hasDied, notices, promised, proxy>>
  BY DEF Call, service, client, ghosts, loader
<1>6. SameBut(proxy, proxy', c)
  BY <1>5 DEF ProxyInv, PerClient, SameBut
<1> QED
  BY <1>2, <1>3, <1>4, <1>5, <1>6, LostKept, QuietStep DEF Threads

LEMMA RestoreNoCall ==
  ASSUME ProxyInv, WantedInv, RestoreInv, NEW c \in Clients, Detach(c) \/ GiveUp(c)
  PROVE  RestoreInv'
<1> PICK k : k = at[c]["app"]
  OBVIOUS
<1>1. Shape(k) /\ CallShaped(k) /\ k.pc = "got"
  BY DEF ProxyInv, ThreadsOK, Threads, RestoreInv, RestoreTypes, Detach, GiveUp
<1>2. UNCHANGED <<sa, haps, registered, observerSet, alive, lost, listening, hasDied, notices, promised, proxy>>
  BY DEF Detach, GiveUp, service, client, ghosts, loader
<1>3. SameBut(proxy, proxy', c)
  BY <1>2 DEF ProxyInv, PerClient, SameBut
<1>4. CASE GiveUp(c)
  <2>1. Moves(c, "app", Idle)
    BY <1>4, ThreadMoves DEF GiveUp, Return, Threads
  <2>2. CallShaped(Idle) /\ Idle.pc # "called"
    BY DEF CallShaped, Idle
  <2> QED
    BY <1>2, <1>3, <2>1, <2>2, LostKept, QuietStep DEF Threads
<1>5. CASE Detach(c)
  <2> DEFINE new == [k EXCEPT !.pc = "called", !.left = k.type]
  <2>1. at' = [at EXCEPT ![c]["app"] = new] /\ k.op = "DetachPasteboard" /\ k.proxy # 0
    BY <1>5 DEF Detach, Send
  <2>2. new.pc = "called" /\ new.op = k.op /\ new.proxy = k.proxy
    BY <1>1 DEF Shape, Fields
  <2> HIDE DEF new
  <2>3. Moves(c, "app", new)
    BY <2>1, ThreadMoves DEF Threads
  <2>4. CallShaped(new) /\ new.op = "DetachPasteboard"
    BY <2>1, <2>2 DEF CallShaped
  <2> QED
    BY <1>2, <1>3, <2>3, <2>4, LostKept, QuietStep DEF Threads
<1> QED
  BY <1>4, <1>5

\* The listener's thread goes on, and hears a notice or forgets that there was a stop.
LEMMA ListenerGoesOn ==
  ASSUME ProxyInv, WantedInv, RestoreInv, NEW c \in Clients, NEW new, Moves(c, "samgr", new), LostGrows,
         UNCHANGED <<sa, haps, registered, observerSet, alive, listening, promised>>,
         SameBut(proxy, proxy', c), SameBut(notices, notices', c), SameBut(hasDied, hasDied', c),
         RestoreTypes(c)', FreshOK(c) => FreshOK(c)',
         \A x \in observerSet[c] :
            /\ c \in haps /\ lost'[c] \cap Excused = {} /\ listening[c] /\ FreshOK(c)
            /\ Due(sa, notices[c], hasDied[c], at[c]["samgr"]) \/ Underway(sa, notices[c], at[c]["samgr"], x)
            => Due(sa, notices'[c], hasDied'[c], new) \/ Underway(sa, notices'[c], new, x)
  PROVE  RestoreInv'
<1>1. Elsewhere(c)
  BY DEF Elsewhere, SameBut, Moves, WantedInv, RestoreInv, PerClient
<1>2. at'[c]["samgr"] = new /\ at'[c]["app"] = at[c]["app"]
  BY DEF Moves, Threads
<1>3. \A x : Standing(c, x)' <=> Standing(c, x)
  BY DEF Standing
<1>4. ASSUME NEW x \in observerSet[c], c \in haps, lost'[c] \cap Excused = {}, listening[c], FreshOK(c), Safe(c, x)
      PROVE  Safe(c, x)'
  <2>1. CASE Standing(c, x)
    BY <1>3, <2>1 DEF Safe
  <2>2. CASE Due(sa, notices'[c], hasDied'[c], new) \/ Underway(sa, notices'[c], new, x)
    BY <1>2, <2>2 DEF Safe
  <2> QED
    BY <1>4, <2>1, <2>2 DEF Safe
<1>5. ASSUME c \in haps, alive'[c], lost'[c] \cap Excused = {}
      PROVE  PromisesOK(c)' /\ FreshOK(c)' /\ CallOK(c, at[c]["app"])'
  <2>1. PromisesOK(c) /\ FreshOK(c) /\ CallOK(c, at[c]["app"])
    BY <1>5 DEF RestoreInv, RestoreOK, LostGrows
  <2>2. PromisesOK(c)'
    <3>1. ASSUME NEW x \in promised[c] PROVE Safe(c, x)'
      BY <1>4, <1>5, <2>1 DEF PromisesOK
    <3> QED
      BY <2>1, <3>1 DEF PromisesOK
  <2> PICK k : k = at[c]["app"]
    OBVIOUS
  <2>3. ASSUME k.pc = "called", k.op = "Subscribe" PROVE <<k.type, k.obs>> \in observerSet[c]
    BY <2>3 DEF WantedInv, ObserversOK, ThreadOK, AppOK, Threads
  <2>4. ASSUME k.pc = "called", k.op = "Subscribe", k.ok, listening[c] PROVE Safe(c, <<k.type, k.obs>>)'
    <3> PICK x \in observerSet[c] : x = <<k.type, k.obs>>
      BY <2>3, <2>4
    <3>1. Safe(c, x)
      BY <2>1, <2>4 DEF CallOK
    <3>2. Safe(c, x)'
      BY <1>4, <1>5, <2>1, <2>4, <3>1
    <3> QED
      BY <3>2
  <2>5. CallOK(c, k)'
    BY <1>3, <2>1, <2>4 DEF CallOK
  <2> QED
    BY <1>2, <2>1, <2>2, <2>5
<1>6. c \in haps => RestoreOK(c)'
  BY <1>5 DEF RestoreOK
<1> QED
  BY <1>1, <1>6, OneClient

\* What is left to hear ends as before.
LEMMA LastHeard ==
  ASSUME NEW q \in Seq(Notices), q # <<>>, Tail(q) # <<>>, LastNotice(q)
  PROVE  LastNotice(Tail(q))
<1> PICK l \in Nat : l = Len(q)
  OBVIOUS
<1> PICK r : r = Tail(q)
  OBVIOUS
<1>1. /\ l >= 1 /\ Len(r) = l - 1 /\ (r = <<>> <=> l = 1)
      /\ \A i \in 1 .. l - 1 : r[i] = q[i + 1]
  BY Heard
<1>2. l - 1 \in 1 .. l - 1
  BY <1>1
<1>3. r[Len(r)] = q[l]
  BY <1>1, <1>2
<1> QED
  BY <1>3 DEF LastNotice

LEMMA NoticeHeard ==
  ASSUME ProxyInv, RestoreInv, NEW c \in Clients, notices[c] # <<>>, notices' = [notices EXCEPT ![c] = Tail(@)],
         UNCHANGED <<sa, haps, registered, observerSet, listening>>, at'[c]["app"] = at[c]["app"]
  PROVE  /\ notices[c] \in Seq(Notices) /\ notices'[c] = Tail(notices[c])
         /\ SameBut(notices, notices', c) /\ RestoreTypes(c)'
         /\ LastNotice(notices[c])
<1> PICK q : q = notices[c]
  OBVIOUS
<1>1. q \in Seq(Notices) /\ LastNotice(q)
  BY DEF RestoreInv, RestoreTypes, Notices
<1>2. PICK r : r = Tail(q) 
  OBVIOUS
<1>3. notices'[c] = r /\ SameBut(notices, notices', c)
  BY <1>2 DEF RestoreInv, PerClient, IsFun, SameBut
<1>4. r \in Seq(Notices) /\ (r # <<>> => LastNotice(r))
  BY <1>1, <1>2, Heard, LastHeard
<1>5. LastNotice(r) => LastNotice(r)'
  BY <1>2 DEF LastNotice
<1>6. RestoreTypes(c)'
  <2>1. RestoreTypes(c)
    BY DEF RestoreInv
  <2>2. listening[c]
    BY <2>1 DEF RestoreTypes
  <2>3. notices'[c] \in Seq(Notices) /\ (notices'[c] # <<>> => LastNotice(notices[c])')
    BY <1>3, <1>4 DEF LastNotice
  <2> QED
    BY <2>1, <2>2, <2>3 DEF RestoreTypes, Notices
<1> QED
  BY <1>1, <1>2, <1>3, <1>6

LEMMA RestoreStopHeard ==
  ASSUME ProxyInv, WantedInv, RestoreInv, NEW c \in Clients, OnRemoveSystemAbility(c)
  PROVE  RestoreInv'
<1>1. /\ notices[c] # <<>> /\ Head(notices[c]) = "removed" /\ at[c]["samgr"] = Idle
      /\ notices' = [notices EXCEPT ![c] = Tail(@)] /\ hasDied' = [hasDied EXCEPT ![c] = TRUE]
      /\ UNCHANGED <<sa, haps, registered, observerSet, alive, listening, promised, lost, at, proxy>>
  BY DEF OnRemoveSystemAbility, service, ghosts, loader
<1>2. hasDied'[c] = TRUE /\ SameBut(hasDied, hasDied', c) /\ SameBut(proxy, proxy', c)
  BY <1>1 DEF RestoreInv, ProxyInv, PerClient, IsFun, SameBut
<1> PICK q : q = notices[c]
  OBVIOUS
<1>3. /\ q \in Seq(Notices) /\ notices'[c] = Tail(q) /\ SameBut(notices, notices', c) /\ RestoreTypes(c)'
      /\ LastNotice(q)
  BY <1>1, NoticeHeard
<1>4. Moves(c, "samgr", Idle)
  BY <1>1 DEF Moves, ProxyInv, ThreadsOK
<1>5. FreshOK(c) => FreshOK(c)'
  <2>1. Tail(q) = <<>> => sa = 0
    BY <1>1, <1>3, Heard DEF LastNotice
  <2> QED
    BY <1>1, <1>3, <2>1 DEF FreshOK
<1>6. ASSUME NEW x, Due(sa, q, hasDied[c], Idle) \/ Underway(sa, q, Idle, x) PROVE Due(sa, Tail(q), TRUE, Idle)
  <2>1. ~Underway(sa, q, Idle, x)
    BY IdleShaped DEF Underway
  <2> QED
    BY <1>1, <1>3, <1>6, <2>1, StopHeard
<1> QED
  BY <1>1, <1>2, <1>3, <1>4, <1>5, <1>6, LostKept, ListenerGoesOn

LEMMA RestoreStartHeard ==
  ASSUME ProxyInv, WantedInv, RestoreInv, NEW c \in Clients, OnAddSystemAbility(c)
  PROVE  RestoreInv'
<1> DEFINE get == [Idle EXCEPT !.pc = "get", !.op = "Resubscribe"]
<1>0. get.pc = "get"
  BY DEF Idle
<1> HIDE DEF get
<1>1. /\ notices[c] # <<>> /\ Head(notices[c]) = "added" /\ at[c]["samgr"] = Idle
      /\ notices' = [notices EXCEPT ![c] = Tail(@)] /\ proxy' = [proxy EXCEPT ![c] = 0]
      /\ UNCHANGED <<sa, haps, registered, observerSet, alive, listening, promised, lost, hasDied>>
  BY DEF OnAddSystemAbility, service, ghosts
<1>2. hasDied'[c] = hasDied[c] /\ SameBut(hasDied, hasDied', c) /\ SameBut(proxy, proxy', c) /\ proxy'[c] = 0
  BY <1>1 DEF RestoreInv, ProxyInv, PerClient, IsFun, SameBut
<1> PICK q : q = notices[c]
  OBVIOUS
<1>3. PICK new : at' = [at EXCEPT ![c]["samgr"] = new] /\ (hasDied[c] => new = get)
  BY DEF OnAddSystemAbility, get
<1>4. Moves(c, "samgr", new)
  BY <1>3, ThreadMoves DEF Threads
<1>5. /\ q \in Seq(Notices) /\ notices'[c] = Tail(q) /\ SameBut(notices, notices', c) /\ RestoreTypes(c)'
  <2>1. at'[c]["app"] = at[c]["app"]
    BY <1>4 DEF Moves, Threads
  <2> QED
    BY <1>1, <2>1, NoticeHeard
<1>6. FreshOK(c)'
  BY <1>2 DEF FreshOK
<1>7. ASSUME NEW x, Due(sa, q, hasDied[c], Idle) \/ Underway(sa, q, Idle, x)
      PROVE  Due(sa, Tail(q), hasDied[c], new) \/ Underway(sa, Tail(q), new, x)
  <2>1. ~Underway(sa, q, Idle, x)
    BY IdleShaped DEF Underway
  <2>2. /\ Tail(q) = <<>> => hasDied[c] /\ sa # 0
        /\ Tail(q) # <<>> => Due(sa, Tail(q), hasDied[c], new)
    BY <1>1, <1>5, <1>7, <2>1, StartHeard
  <2>3. CASE Tail(q) = <<>>
    BY <1>0, <1>3, <2>2, <2>3 DEF Underway
  <2> QED
    BY <2>2, <2>3
<1> QED
  BY <1>1, <1>2, <1>4, <1>5, <1>6, <1>7, LostKept, ListenerGoesOn

\* The thread sends one observer after the other.
LEMMA NextSent ==
  ASSUME ProxyInv, NEW c \in Clients, NEW todo, SendNext(c, todo)
  PROVE  \E new : /\ Moves(c, "samgr", new) /\ new.pc = "called" /\ new.proxy = at[c]["samgr"].proxy
                  /\ new.left = new.type /\ new.todo = todo
<1> PICK k : k = at[c]["samgr"]
  OBVIOUS
<1>1. Shape(k)
  BY DEF ProxyInv, ThreadsOK, Threads
<1>2. PICK type, obs : at' = [at EXCEPT ![c]["samgr"] = [k EXCEPT !.pc = "called", !.type = type, !.obs = obs,
                                                                 !.left = type, !.todo = todo]]
  BY DEF SendNext
<1> DEFINE new == [k EXCEPT !.pc = "called", !.type = type, !.obs = obs, !.left = type, !.todo = todo]
<1>3. new.pc = "called" /\ new.proxy = k.proxy /\ new.left = new.type /\ new.todo = todo
  BY <1>1, Zenon DEF Shape, Fields
<1>4. Moves(c, "samgr", new)
  BY <1>2, ThreadMoves DEF Threads
<1> QED
  BY <1>3, <1>4

LEMMA RestoreResubscribe ==
  ASSUME ProxyInv, WantedInv, RestoreInv, NEW c \in Clients,
         ResubscribeNone(c) \/ ResubscribeFirst(c) \/ ResubscribeNext(c)
  PROVE  RestoreInv'
<1> PICK k : k = at[c]["samgr"]
  OBVIOUS
<1>1. ThreadOK(k, "samgr", observerSet[c]) /\ k.pc \in {"got", "called"} /\ k # Idle
  BY IdleShaped DEF WantedInv, ObserversOK, Threads, ResubscribeNone, ResubscribeFirst, ResubscribeNext, Done
<1>2. UNCHANGED <<sa, haps, registered, observerSet, alive, listening, promised, notices, proxy>>
  BY DEF ResubscribeNone, ResubscribeFirst, ResubscribeNext, service, client, loader, ghosts
<1>3. LostGrows
  <2>1. UNCHANGED lost \/ Blame(c, "timeout")
    BY DEF ResubscribeNone, ResubscribeFirst, ResubscribeNext, ghosts
  <2> QED
    BY <2>1, LostKept, Blamed
<1>4. SameBut(proxy, proxy', c) /\ SameBut(notices, notices', c) /\ FreshOK(c)' = FreshOK(c)
  BY <1>2 DEF ProxyInv, RestoreInv, PerClient, SameBut, FreshOK
<1>5. SameBut(hasDied, hasDied', c)
  <2>1. UNCHANGED hasDied \/ hasDied' = [hasDied EXCEPT ![c] = FALSE]
    BY DEF ResubscribeNone, ResubscribeFirst, ResubscribeNext, client
  <2> QED
    BY <2>1 DEF RestoreInv, PerClient, IsFun, SameBut
<1>6. ASSUME NEW new, Moves(c, "samgr", new),
             \A x \in observerSet[c] : c \in haps /\ lost'[c] \cap Excused = {} /\ Underway(sa, notices[c], k, x)
                                         => Underway(sa, notices[c], new, x)
      PROVE  RestoreInv'
  <2>1. at'[c]["app"] = at[c]["app"]
    BY <1>6 DEF Moves, Threads
  <2>2. RestoreTypes(c)'
    BY <1>2, <2>1 DEF RestoreInv, RestoreTypes, LastNotice
  <2>3. Due(sa, notices[c], hasDied[c], k) => Due(sa, notices[c], hasDied'[c], new)
    BY <1>1, DueWhileBusy
  <2> QED
    BY <1>2, <1>3, <1>4, <1>5, <1>6, <2>2, <2>3, ListenerGoesOn
<1>7. CASE ResubscribeNone(c)
  <2>1. Moves(c, "samgr", Idle)
    BY <1>7, ThreadMoves DEF ResubscribeNone, Return, Threads
  <2>2. k.proxy = 0 => "timeout" \in lost'[c]
    BY <1>7, Blamed DEF ResubscribeNone
  <2>3. k.pc = "got" /\ (k.proxy = 0 \/ observerSet[c] = {} \/ c \notin haps)
    BY <1>7 DEF ResubscribeNone
  <2>4. ASSUME NEW x \in observerSet[c], c \in haps, lost'[c] \cap Excused = {} PROVE FALSE
    BY <2>2, <2>3, <2>4 DEF Excused
  <2> QED
    BY <1>6, <2>1, <2>4
<1>8. CASE ResubscribeFirst(c)
  <2>1. k.pc = "got" /\ k.proxy # 0 /\ SendNext(c, observerSet[c])
    BY <1>8 DEF ResubscribeFirst
  <2>2. PICK new : /\ Moves(c, "samgr", new) /\ new.pc = "called" /\ new.proxy = k.proxy
                   /\ new.left = new.type /\ new.todo = observerSet[c]
    BY <2>1, NextSent
  <2>3. ASSUME NEW x \in observerSet[c], Underway(sa, notices[c], k, x) PROVE Underway(sa, notices[c], new, x)
    BY <2>1, <2>2, <2>3 DEF Underway
  <2> QED
    BY <1>6, <2>2, <2>3
<1>9. CASE ResubscribeNext(c)
  <2> PICK rest : rest = k.todo \ {<<k.type, k.obs>>}
    OBVIOUS
  <2>1. /\ k.pc = "called" /\ (k.proxy # sa \/ k.left = {})
        /\ IF rest # {} THEN SendNext(c, rest) ELSE Return(c, "samgr")
    BY <1>9 DEF ResubscribeNext, Done
  <2>2. k.type # {}
    <3>1. <<k.type, k.obs>> \in observerSet[c]
      BY <1>1, <2>1 DEF ThreadOK, ListenerOK
    <3> QED
      BY <3>1 DEF RestoreInv, RestoreTypes
  <2>3. ASSUME NEW x, Underway(sa, notices[c], k, x) PROVE k.proxy = sa /\ sa # 0 /\ notices[c] = <<>> /\ x \in rest
    BY <2>1, <2>2, <2>3 DEF Underway
  <2>4. CASE rest # {}
    <3>1. PICK new : /\ Moves(c, "samgr", new) /\ new.pc = "called" /\ new.proxy = k.proxy
                     /\ new.left = new.type /\ new.todo = rest
      BY <2>1, <2>4, NextSent
    <3>2. ASSUME NEW x, Underway(sa, notices[c], k, x) PROVE Underway(sa, notices[c], new, x)
      BY <2>3, <3>1, <3>2 DEF Underway
    <3> QED
      BY <1>6, <3>1, <3>2
  <2>5. CASE rest = {}
    <3>1. Moves(c, "samgr", Idle)
      BY <2>1, <2>5, ThreadMoves DEF Return, Threads
    <3> QED
      BY <1>6, <2>3, <2>5, <3>1
  <2> QED
    BY <2>4, <2>5
<1> QED
  BY <1>7, <1>8, <1>9

\* The application's thread changes what the client keeps of observers and listener.
LEMMA AppChanges ==
  ASSUME ProxyInv, WantedInv, RestoreInv, NEW c \in Clients, NEW new, Moves(c, "app", new), LostGrows,
         UNCHANGED <<sa, haps, registered, alive, proxy>>,
         SameBut(observerSet, observerSet', c), SameBut(promised, promised', c), SameBut(listening, listening', c),
         SameBut(hasDied, hasDied', c), SameBut(notices, notices', c), RestoreTypes(c)',
         /\ c \in haps /\ alive[c] /\ lost'[c] \cap Excused = {}
         /\ PromisesOK(c) /\ FreshOK(c) /\ CallOK(c, at[c]["app"])
         => PromisesOK(c)' /\ FreshOK(c)' /\ CallOK(c, at[c]["app"])'
  PROVE  RestoreInv'
<1>1. Elsewhere(c)
  BY DEF Elsewhere, SameBut, Moves, WantedInv, ProxyInv, PerClient
<1>2. c \in haps => RestoreOK(c)'
  BY DEF RestoreOK, RestoreInv, LostGrows
<1> QED
  BY <1>1, <1>2, OneClient

\* A call that is sent has what it was made with.
LEMMA SentCall ==
  ASSUME ProxyInv, RestoreInv, NEW c \in Clients, Send(c, "app", at[c]["app"]), at[c]["app"].pc = "got",
         at[c]["app"].proxy # 0, at[c]["app"].op # "none"
  PROVE  \E new : /\ Moves(c, "app", new) /\ new.pc = "called" /\ new.op = at[c]["app"].op /\ ~new.ok
                  /\ new.type = at[c]["app"].type /\ new.obs = at[c]["app"].obs /\ CallShaped(new)
<1> PICK k : k = at[c]["app"]
  OBVIOUS
<1>1. Shape(k) /\ CallShaped(k)
  BY DEF ProxyInv, ThreadsOK, Threads, RestoreInv, RestoreTypes
<1> DEFINE new == [k EXCEPT !.pc = "called", !.left = k.type]
<1>2. at' = [at EXCEPT ![c]["app"] = new]
  BY DEF Send
<1>3. /\ new.pc = "called" /\ new.op = k.op /\ new.ok = k.ok /\ new.type = k.type /\ new.obs = k.obs
      /\ new.proxy = k.proxy
  BY <1>1 DEF Shape, Fields
<1> HIDE DEF new
<1>4. Moves(c, "app", new)
  BY <1>2, ThreadMoves DEF Threads
<1>5. ~new.ok
  BY <1>1, <1>3 DEF CallShaped
<1>6. CallShaped(new)
  BY <1>1, <1>3 DEF CallShaped
<1> QED
  BY <1>3, <1>4, <1>5, <1>6

LEMMA RestoreSubscribe ==
  ASSUME ProxyInv, WantedInv, RestoreInv, NEW c \in Clients, Subscribe(c)
  PROVE  RestoreInv'
<1> PICK k : k = at[c]["app"]
  OBVIOUS
<1>1. /\ k.pc = "got" /\ k.op = "Subscribe" /\ observerSet' = [observerSet EXCEPT ![c] = @ \cup {<<k.type, k.obs>>}]
      /\ UNCHANGED <<sa, haps, registered, alive, proxy, listening, hasDied, notices, promised, lost>>
  BY DEF Subscribe, service, loader, ghosts
<1>2. PICK new : /\ Moves(c, "app", new) /\ CallShaped(new)
                 /\ new.pc = "called" => new.op = "Subscribe" /\ ~new.ok
  <2>1. CASE Return(c, "app")
    <3>1. CallShaped(Idle) /\ Idle.pc # "called"
      BY DEF Idle, CallShaped
    <3> QED
      BY <2>1, <3>1, ThreadMoves DEF Return, Threads
  <2>2. CASE k.proxy # 0 /\ Send(c, "app", k)
    BY <1>1, <2>2, SentCall
  <2> QED
    BY <2>1, <2>2 DEF Subscribe
<1>3. /\ observerSet'[c] = observerSet[c] \cup {<<k.type, k.obs>>}
      /\ SameBut(observerSet, observerSet', c) /\ SameBut(promised, promised', c) /\ SameBut(listening, listening', c)
      /\ SameBut(hasDied, hasDied', c) /\ SameBut(notices, notices', c)
  BY <1>1 DEF WantedInv, RestoreInv, PerClient, IsFun, SameBut
<1>4. at'[c]["app"] = new /\ at'[c]["samgr"] = at[c]["samgr"]
  BY <1>2 DEF Moves, Threads
<1>5. RestoreTypes(c)'
  <2>1. RestoreTypes(c) /\ k.type \in Types \ {{}}
    BY <1>1 DEF RestoreInv, RestoreTypes, CallShaped
  <2>2. \A x \in observerSet'[c] : x[1] \in Types \ {{}}
    BY <1>3, <2>1 DEF RestoreTypes
  <2> QED
    BY <1>1, <1>2, <1>4, <2>1, <2>2 DEF RestoreTypes, LastNotice
<1>6. ASSUME PromisesOK(c), FreshOK(c) PROVE PromisesOK(c)' /\ FreshOK(c)' /\ CallOK(c, at[c]["app"])'
  <2>1. ASSUME NEW x \in promised[c] PROVE Safe(c, x)'
    BY <1>1, <1>4, <1>6, SafeKept DEF PromisesOK
  <2>2. PromisesOK(c)'
    BY <1>1, <1>3, <1>6, <2>1 DEF PromisesOK
  <2>3. FreshOK(c)'
    BY <1>1, <1>6 DEF FreshOK
  <2>4. CallOK(c, new)'
    BY <1>2 DEF CallOK
  <2> QED
    BY <1>4, <2>2, <2>3, <2>4
<1> QED
  BY <1>1, <1>2, <1>3, <1>5, <1>6, LostKept, AppChanges

LEMMA Unlistened ==
  ASSUME RestoreInv, NEW c \in Clients, Unlisten(c)
  PROVE  /\ ~listening'[c] /\ notices'[c] = <<>>
         /\ SameBut(listening, listening', c) /\ SameBut(hasDied, hasDied', c) /\ SameBut(notices, notices', c)
BY DEF Unlisten, RestoreInv, PerClient, IsFun, SameBut

LEMMA RestoreUnsubscribe ==
  ASSUME ProxyInv, WantedInv, RestoreInv, NEW c \in Clients, Unsubscribe(c)
  PROVE  RestoreInv'
<1> PICK k : k = at[c]["app"]
  OBVIOUS
<1> PICK rest : rest = observerSet[c] \ {<<k.type, k.obs>>}
  OBVIOUS
<1>1. /\ k.pc = "got" /\ k.op = "Unsubscribe" /\ k.proxy # 0 /\ observerSet' = [observerSet EXCEPT ![c] = rest]
      /\ promised' = [promised EXCEPT ![c] = @ \ {<<k.type, k.obs>>}] /\ Send(c, "app", k)
      /\ UNCHANGED <<sa, haps, registered, alive, proxy, lost>>
  BY DEF Unsubscribe, service, loader
<1>2. PICK new : /\ Moves(c, "app", new) /\ CallShaped(new) /\ new.pc = "called" /\ new.op = "Unsubscribe"
                 /\ new.type = k.type /\ new.obs = k.obs
  BY <1>1, SentCall
<1>3. /\ observerSet'[c] = rest /\ promised'[c] = promised[c] \ {<<k.type, k.obs>>}
      /\ SameBut(observerSet, observerSet', c) /\ SameBut(promised, promised', c)
  BY <1>1 DEF WantedInv, RestoreInv, PerClient, IsFun, SameBut
<1>4. /\ SameBut(listening, listening', c) /\ SameBut(hasDied, hasDied', c) /\ SameBut(notices, notices', c)
      /\ \/ rest = {} /\ ~listening'[c] /\ notices'[c] = <<>>
         \/ UNCHANGED <<listening, hasDied, notices>>
  <2>1. CASE rest = {} /\ Unlisten(c)
    BY <2>1, Unlistened
  <2>2. CASE UNCHANGED <<listening, hasDied, notices>>
    BY <2>2 DEF RestoreInv, PerClient, SameBut
  <2> QED
    BY <2>1, <2>2 DEF Unsubscribe
<1>5. at'[c]["app"] = new /\ at'[c]["samgr"] = at[c]["samgr"]
  BY <1>2 DEF Moves, Threads
<1>6. RestoreTypes(c)'
  <2>1. RestoreTypes(c)
    BY DEF RestoreInv
  <2>2. \A x \in observerSet'[c] : x[1] \in Types \ {{}}
    BY <1>3, <2>1 DEF RestoreTypes
  <2>3. /\ notices'[c] \in Seq({"added", "removed"}) /\ (~listening'[c] => notices'[c] = <<>>)
        /\ notices'[c] # <<>> => LastNotice(notices[c])'
    <3>1. CASE ~listening'[c] /\ notices'[c] = <<>>
      BY <3>1
    <3>2. CASE UNCHANGED <<listening, hasDied, notices>>
      <4>1. sa' = sa
        BY <1>1
      <4> QED
        BY <2>1, <3>2, <4>1 DEF RestoreTypes, LastNotice
    <3> QED
      BY <1>4, <3>1, <3>2
  <2> QED
    BY <1>1, <1>2, <1>5, <2>1, <2>2, <2>3 DEF RestoreTypes
<1>7. ASSUME PromisesOK(c), FreshOK(c) PROVE PromisesOK(c)' /\ FreshOK(c)' /\ CallOK(c, at[c]["app"])'
  <2>1. promised'[c] \subseteq rest
    BY <1>3, <1>7 DEF PromisesOK
  <2>2. ASSUME NEW x \in promised'[c] PROVE Safe(c, x)' /\ "event" \notin x[1] /\ listening'[c]
    <3>1. x \in promised[c] /\ UNCHANGED <<listening, hasDied, notices>>
      BY <1>3, <1>4, <2>1
    <3> QED
      BY <1>1, <1>5, <1>7, <3>1, SafeKept DEF PromisesOK
  <2>3. PromisesOK(c)'
    BY <1>3, <2>1, <2>2 DEF PromisesOK
  <2>4. FreshOK(c)'
    BY <1>1, <1>4, <1>7 DEF FreshOK
  <2>5. CallOK(c, new)'
    BY <1>2, <1>3 DEF CallOK
  <2> QED
    BY <1>5, <2>3, <2>4, <2>5
<1> QED
  BY <1>1, <1>2, <1>3, <1>4, <1>6, <1>7, LostKept, AppChanges

LEMMA RestoreUnsubscribeAll ==
  ASSUME ProxyInv, WantedInv, RestoreInv, NEW c \in Clients, UnsubscribeAll(c)
  PROVE  RestoreInv'
<1> PICK k : k = at[c]["app"]
  OBVIOUS
<1>1. /\ k.pc = "got" /\ k.op = "UnsubscribeAll" /\ k.proxy # 0 /\ observerSet' = [observerSet EXCEPT ![c] = {}]
      /\ promised' = [promised EXCEPT ![c] = {}] /\ Send(c, "app", k)
      /\ UNCHANGED <<sa, haps, registered, alive, proxy, listening, hasDied, notices>>
  BY DEF UnsubscribeAll, service, loader
<1>2. PICK new : Moves(c, "app", new) /\ CallShaped(new) /\ new.pc = "called" /\ new.op = "UnsubscribeAll"
  BY <1>1, SentCall
<1>3. /\ observerSet'[c] = {} /\ promised'[c] = {}
      /\ SameBut(observerSet, observerSet', c) /\ SameBut(promised, promised', c)
  BY <1>1 DEF WantedInv, RestoreInv, PerClient, IsFun, SameBut
<1>4. SameBut(listening, listening', c) /\ SameBut(hasDied, hasDied', c) /\ SameBut(notices, notices', c)
  BY <1>1 DEF RestoreInv, PerClient, SameBut
<1>5. at'[c]["app"] = new
  BY <1>2 DEF Moves
<1>6. RestoreTypes(c)'
  BY <1>1, <1>2, <1>3, <1>5 DEF RestoreInv, RestoreTypes, LastNotice
<1>7. FreshOK(c) => PromisesOK(c)' /\ FreshOK(c)' /\ CallOK(c, at[c]["app"])'
  BY <1>1, <1>2, <1>3, <1>5 DEF PromisesOK, FreshOK, CallOK
<1>8. LostGrows
  BY LostKept, Blamed DEF UnsubscribeAll
<1> QED
  BY <1>1, <1>2, <1>3, <1>4, <1>6, <1>7, <1>8, AppChanges

\* The application gives up its listener, and what it was promised.
LEMMA RestoreReleasing ==
  ASSUME ProxyInv, WantedInv, RestoreInv, NEW c \in Clients, ReleaseSaListener(c)
  PROVE  RestoreInv'
<1>1. /\ promised' = [promised EXCEPT ![c] = {}] /\ Unlisten(c) /\ at' = [at EXCEPT ![c]["app"] = Releasing]
      /\ UNCHANGED <<sa, haps, registered, alive, proxy, observerSet, lost>>
  BY DEF ReleaseSaListener, Releasing, service, loader
<1>2. Moves(c, "app", Releasing)
  BY <1>1, ThreadMoves DEF Threads
<1>3. promised'[c] = {} /\ SameBut(observerSet, observerSet', c) /\ SameBut(promised, promised', c)
  BY <1>1 DEF WantedInv, RestoreInv, PerClient, IsFun, SameBut
<1>4. /\ ~listening'[c] /\ notices'[c] = <<>>
      /\ SameBut(listening, listening', c) /\ SameBut(hasDied, hasDied', c) /\ SameBut(notices, notices', c)
  BY <1>1, Unlistened
<1>5. at'[c]["app"] = Releasing /\ CallShaped(Releasing)
  BY <1>2, ReleasingShaped DEF Moves, CallShaped
<1>6. RestoreTypes(c)'
  <2>1. RestoreTypes(c) /\ <<>> \in Seq({"added", "removed"})
    BY DEF RestoreInv
  <2> QED
    BY <1>1, <1>4, <1>5, <2>1 DEF RestoreTypes
<1>7. PromisesOK(c)' /\ FreshOK(c)' /\ CallOK(c, at[c]["app"])'
  BY <1>3, <1>4, <1>5, ReleasingShaped DEF PromisesOK, FreshOK, CallOK
<1> QED
  BY <1>1, <1>2, <1>3, <1>4, <1>6, <1>7, LostKept, AppChanges

LEMMA RestoreReleased ==
  ASSUME ProxyInv, WantedInv, RestoreInv, NEW c \in Clients, ReleaseDeathRecipient(c)
  PROVE  RestoreInv'
<1>1. UNCHANGED <<sa, haps, registered, observerSet, alive, listening, hasDied, notices, promised, proxy>>
  BY DEF ReleaseDeathRecipient, service, client
<1>2. SameBut(proxy, proxy', c)
  BY <1>1 DEF ProxyInv, PerClient, SameBut
<1>3. Moves(c, "app", Idle)
  BY ThreadMoves DEF ReleaseDeathRecipient, Return, Threads
<1>4. CallShaped(Idle) /\ Idle.pc # "called"
  BY DEF CallShaped, Idle
<1>5. LostGrows
  BY LostKept, Blamed DEF ReleaseDeathRecipient
<1> QED
  BY <1>1, <1>2, <1>3, <1>4, <1>5, QuietStep DEF Threads

\* A call comes back.  The first Subscribe that does starts the listener.
LEMMA RestoreReplied ==
  ASSUME ProxyInv, WantedInv, RestoreInv, NEW c \in Clients, Replied(c)
  PROVE  RestoreInv'
<1> PICK k : k = at[c]["app"]
  OBVIOUS
<1>1. /\ alive[c] /\ k.pc = "called" /\ Return(c, "app")
      /\ UNCHANGED <<sa, haps, registered, alive, proxy, observerSet>>
  BY DEF Replied, Done, service, loader
<1>2. CallShaped(Idle) /\ Idle.pc # "called"
  BY DEF Idle, CallShaped
<1>3. Moves(c, "app", Idle)
  BY <1>1, ThreadMoves DEF Return, Threads
<1>4. at'[c]["app"] = Idle /\ at'[c]["samgr"] = at[c]["samgr"]
  BY <1>3 DEF Moves, Threads
<1>5. LostGrows
  BY LostKept, Blamed DEF Replied
<1>6. SameBut(observerSet, observerSet', c) /\ SameBut(proxy, proxy', c)
  BY <1>1 DEF ProxyInv, WantedInv, PerClient, SameBut
<1>7. RestoreTypes(c)
  BY DEF RestoreInv
<1>8. CallOK(c, Idle)'
  BY <1>2 DEF CallOK
<1>9. CASE k.op = "Subscribe"
  <2>1. /\ listening' = [listening EXCEPT ![c] = TRUE] /\ UNCHANGED hasDied
        /\ notices' = [notices EXCEPT ![c] = IF listening[c] \/ sa = 0 THEN @ ELSE Append(@, "added")]
        /\ promised' = [promised EXCEPT ![c] = IF k.ok THEN @ \cup {<<k.type, k.obs>>} ELSE @]
        /\ k.proxy # sa /\ ~listening[c] => Blame(c, "missed")
    BY <1>9 DEF Replied, SubscribePasteboardSA
  <2>2. /\ listening'[c] /\ promised'[c] = IF k.ok THEN promised[c] \cup {<<k.type, k.obs>>} ELSE promised[c]
        /\ SameBut(listening, listening', c) /\ SameBut(promised, promised', c) /\ SameBut(hasDied, hasDied', c)
    BY <2>1 DEF RestoreInv, PerClient, IsFun, SameBut
  <2>3. /\ notices'[c] = IF listening[c] \/ sa = 0 THEN notices[c] ELSE Append(notices[c], "added")
        /\ SameBut(notices, notices', c)
    BY <2>1 DEF RestoreInv, PerClient, IsFun, SameBut
  <2>4. <<k.type, k.obs>> \in observerSet[c]
    BY <1>1, <1>9 DEF WantedInv, ObserversOK, ThreadOK, AppOK, Threads
  <2>5. ~listening[c] => notices[c] = <<>>
    BY <1>7 DEF RestoreTypes
  <2>6. /\ notices'[c] \in Seq({"added", "removed"})
        /\ notices'[c] # <<>> => LastNotice(notices[c])'
        /\ ~listening[c] /\ sa # 0 => notices'[c] # <<>>
    <3>1. CASE listening[c] \/ sa = 0
      BY <1>1, <1>7, <2>3, <3>1 DEF RestoreTypes, LastNotice
    <3>2. CASE ~listening[c] /\ sa # 0
      <4>1. notices'[c] = <<"added">>
        <5>1. Append(<<>>, "added") = <<"added">>
          OBVIOUS
        <5>2. notices'[c] = Append(notices[c], "added") /\ notices[c] = <<>>
          BY <2>3, <2>5, <3>2
        <5> QED
          BY <5>1, <5>2
      <4>2. <<"added">> # <<>> /\ <<"added">> \in Seq({"added", "removed"}) /\ <<"added">>[Len(<<"added">>)] = "added"
        OBVIOUS
      <4>3. sa' # 0
        BY <1>1, <3>2
      <4> QED
        BY <4>1, <4>2, <4>3 DEF LastNotice
    <3> QED
      BY <3>1, <3>2
  <2>7. RestoreTypes(c)'
    BY <1>1, <1>2, <1>4, <1>7, <2>2, <2>6 DEF RestoreTypes
  <2>8. ASSUME lost'[c] \cap Excused = {}, PromisesOK(c), FreshOK(c), CallOK(c, k) PROVE PromisesOK(c)' /\ FreshOK(c)'
    <3>1. CASE listening[c]
      <4>1. UNCHANGED <<hasDied, sa, registered>> /\ notices'[c] = notices[c]
        BY <1>1, <2>1, <2>3, <3>1
      <4>2. ASSUME NEW x, Safe(c, x) PROVE Safe(c, x)'
        BY <1>4, <4>1, <4>2, SafeKept
      <4>3. ASSUME NEW x \in promised'[c] PROVE x \in observerSet[c] /\ "event" \notin x[1] /\ Safe(c, x)
        <5>1. CASE x \in promised[c]
          BY <2>8, <5>1 DEF PromisesOK
        <5>2. CASE x = <<k.type, k.obs>> /\ k.ok
          BY <1>1, <1>9, <2>4, <2>8, <3>1, <5>2 DEF CallOK
        <5> QED
          BY <2>2, <5>1, <5>2
      <4>4. PromisesOK(c)'
        BY <1>1, <2>2, <4>2, <4>3 DEF PromisesOK
      <4>5. FreshOK(c)'
        BY <1>1, <2>8, <3>1, <4>1 DEF FreshOK
      <4> QED
        BY <4>4, <4>5
    <3>2. CASE ~listening[c]
      <4>1. k.proxy = sa
        BY <2>1, <2>8, <3>2, Blamed DEF Excused
      <4>2. sa # 0 /\ notices'[c] # <<>>
        <5>1. k.proxy # 0
          BY <1>1, <1>7 DEF RestoreTypes, CallShaped
        <5> QED
          BY <2>6, <3>2, <4>1, <5>1
      <4>3. promised[c] = {}
        BY <2>8, <3>2 DEF PromisesOK
      <4>4. ASSUME NEW x \in promised'[c] PROVE x \in observerSet[c] /\ "event" \notin x[1] /\ Standing(c, x)
        <5>1. x = <<k.type, k.obs>> /\ k.ok
          BY <2>2, <4>3
        <5> QED
          BY <1>1, <1>9, <2>4, <2>8, <3>2, <4>1, <5>1 DEF CallOK
      <4>5. \A x : Standing(c, x) => Safe(c, x)'
        BY <1>1 DEF Standing, Safe
      <4>6. PromisesOK(c)'
        BY <1>1, <2>2, <4>4, <4>5 DEF PromisesOK
      <4>7. FreshOK(c)'
        BY <4>2 DEF FreshOK
      <4> QED
        BY <4>6, <4>7
    <3> QED
      BY <3>1, <3>2
  <2> QED
    BY <1>1, <1>3, <1>4, <1>5, <1>6, <1>8, <2>2, <2>3, <2>7, <2>8, AppChanges
<1>10. CASE k.op = "UnsubscribeAll"
  <2>1. Unlisten(c) /\ UNCHANGED promised
    BY <1>10 DEF Replied
  <2>2. /\ ~listening'[c] /\ notices'[c] = <<>>
        /\ SameBut(listening, listening', c) /\ SameBut(hasDied, hasDied', c) /\ SameBut(notices, notices', c)
    BY <2>1, Unlistened
  <2>3. SameBut(promised, promised', c)
    BY <2>1 DEF RestoreInv, PerClient, SameBut
  <2>4. RestoreTypes(c)'
    <3>1. <<>> \in Seq({"added", "removed"})
      OBVIOUS
    <3> QED
      BY <1>1, <1>2, <1>4, <1>7, <2>2, <3>1 DEF RestoreTypes
  <2>5. ASSUME CallOK(c, k) PROVE PromisesOK(c)' /\ FreshOK(c)'
    BY <1>1, <1>10, <2>1, <2>2, <2>5 DEF CallOK, PromisesOK, FreshOK
  <2> QED
    BY <1>1, <1>3, <1>4, <1>5, <1>6, <1>8, <2>2, <2>3, <2>4, <2>5, AppChanges
<1>11. CASE k.op \notin {"Subscribe", "UnsubscribeAll"}
  <2>1. UNCHANGED <<listening, hasDied, notices, promised>>
    BY <1>11 DEF Replied
  <2> QED
    BY <1>1, <1>2, <1>3, <1>5, <1>6, <2>1, QuietStep DEF Threads
<1> QED
  BY <1>9, <1>10, <1>11

\* The service handles one bit of a call.
LEMMA BitHandled ==
  ASSUME ProxyInv, WantedInv, RestoreInv, NEW c \in Clients, NEW t \in Threads, HandleBit(c, t),
         NEW k, k = at[c][t]
  PROVE  \E new : /\ Moves(c, t, new) /\ new.pc = k.pc /\ new.op = k.op /\ new.type = k.type /\ new.obs = k.obs
                  /\ new.todo = k.todo /\ new.proxy = k.proxy
                  /\ new.ok => k.ok \/ (Adds(k) /\ <<First(k.left), c, k.obs>> \in registered')
<1>1. Shape(k)
  BY DEF ProxyInv, ThreadsOK
<1> PICK map : map = First(k.left)
  OBVIOUS
<1> PICK left : left = k.left \ {map}
  OBVIOUS
<1>2. PICK ok : ok = (k.ok \/ (Adds(k) /\ ~Full(map, c) /\ <<map, c, k.obs>> \in registered'))
  OBVIOUS
<1> DEFINE new == [k EXCEPT !.left = left, !.ok = ok]
<1>3. at' = [at EXCEPT ![c][t].left = left, ![c][t].ok = ok]
  BY <1>2 DEF HandleBit
<1>4. at' = [at EXCEPT ![c][t] = new]
  BY <1>3 DEF ProxyInv, ThreadsOK, PerClient, IsFun
<1>5. /\ new.pc = k.pc /\ new.op = k.op /\ new.type = k.type /\ new.obs = k.obs
      /\ new.todo = k.todo /\ new.proxy = k.proxy /\ new.ok = ok
  BY <1>1 DEF Shape, Fields
<1> HIDE DEF new
<1>6. Moves(c, t, new)
  BY <1>4, ThreadMoves
<1>7. ok => k.ok \/ (Adds(k) /\ <<map, c, k.obs>> \in registered')
  BY <1>2
<1> QED
  BY <1>5, <1>6, <1>7

\* What the service does with its maps for one bit.
LEMMA MapsHandled ==
  ASSUME WantedInv, RestoreInv, NEW c \in Clients, NEW t \in Threads, HandleBit(c, t), NEW k, k = at[c][t],
         NEW map, map = First(k.left)
  PROVE  /\ map \in k.type /\ k.pc = "called" /\ k.proxy = sa /\ k.left # {}
         /\ \A b \in Clients : b # c => \A m, o : <<m, b, o>> \in registered' <=> <<m, b, o>> \in registered
         /\ c \in haps => \A o : <<"event", c, o>> \in registered' => <<"event", c, o>> \in registered
         /\ Adds(k) => registered \subseteq registered'
         /\ k.op = "Unsubscribe" => registered' = registered \ {<<map, c, k.obs>>}
         /\ UNCHANGED <<sa, haps, alive, proxy, observerSet, listening, hasDied, notices, promised>>
<1>1. k.pc = "called" /\ k.proxy = sa /\ k.left # {} /\ ThreadOK(k, t, observerSet[c])
  BY DEF HandleBit, WantedInv, ObserversOK
<1>2. map \in k.type
  BY <1>1 DEF First, ThreadOK, Maps
<1>3. UNCHANGED <<sa, haps, alive, proxy, observerSet, listening, hasDied, notices, promised>>
  BY DEF HandleBit, loader, client
<1>4. CASE Adds(k)
  <2>1. registered' = registered \/ (registered' = registered \cup {<<map, c, k.obs>>} /\ ~(map = "event" /\ c \in haps))
    <3>1. registered' = AddObserver(map, c, k.obs)
      BY <1>4 DEF HandleBit, Adds
    <3> QED
      BY <3>1 DEF AddObserver
  <2>2. k.op # "Unsubscribe"
    BY <1>4 DEF Adds
  <2> QED
    BY <1>1, <1>2, <1>3, <2>1, <2>2
<1>5. CASE ~Adds(k) /\ k.op = "Unsubscribe"
  <2>1. registered' = registered \ {<<map, c, k.obs>>}
    BY <1>5 DEF HandleBit, RemoveSingleObserver
  <2> QED
    BY <1>1, <1>2, <1>3, <1>5, <2>1
<1>6. CASE ~Adds(k) /\ k.op # "Unsubscribe"
  <2>1. registered' = {r \in registered : r[1] # map \/ r[2] # c}
    BY <1>6 DEF HandleBit, RemoveObserverByPid
  <2> QED
    BY <1>1, <1>2, <1>3, <1>6, <2>1
<1> QED
  BY <1>4, <1>5, <1>6

LEMMA RestoreAppBit ==
  ASSUME TypesApart, ProxyInv, WantedInv, RestoreInv, NEW c \in Clients, HandleBit(c, "app")
  PROVE  RestoreInv'
<1> PICK k : k = at[c]["app"]
  OBVIOUS
<1> PICK map : map = First(k.left)
  OBVIOUS
<1>1. "app" \in Threads
  BY DEF Threads
<1>2. /\ map \in k.type /\ k.pc = "called" /\ k.proxy = sa /\ k.left # {}
      /\ \A b \in Clients : b # c => \A m, o : <<m, b, o>> \in registered' <=> <<m, b, o>> \in registered
      /\ c \in haps => \A o : <<"event", c, o>> \in registered' => <<"event", c, o>> \in registered
      /\ Adds(k) => registered \subseteq registered'
      /\ k.op = "Unsubscribe" => registered' = registered \ {<<map, c, k.obs>>}
      /\ UNCHANGED <<sa, haps, alive, proxy, observerSet, listening, hasDied, notices, promised>>
  BY <1>1, MapsHandled
<1>3. PICK new : /\ Moves(c, "app", new) /\ new.pc = k.pc /\ new.op = k.op /\ new.type = k.type /\ new.obs = k.obs
                 /\ new.todo = k.todo /\ new.proxy = k.proxy
                 /\ new.ok => k.ok \/ (Adds(k) /\ <<map, c, k.obs>> \in registered')
  BY <1>1, BitHandled
<1>4. LostGrows
  BY LostKept, Blamed DEF HandleBit
<1>5. Elsewhere(c)
  BY <1>2, <1>3, <1>4 DEF Elsewhere, SameBut, Moves, WantedInv, RestoreInv, ProxyInv, PerClient
<1>6. at'[c]["app"] = new /\ at'[c]["samgr"] = at[c]["samgr"]
  BY <1>3 DEF Moves, Threads
<1>7. CallShaped(k) /\ AppOK(k, observerSet[c]) /\ RestoreTypes(c)
  BY <1>1 DEF RestoreInv, RestoreTypes, WantedInv, ObserversOK, ThreadOK
<1>8. k.op \in {"Subscribe", "Unsubscribe", "UnsubscribeAll"} /\ k.type \in Types \ {{}}
  BY <1>2, <1>7 DEF CallShaped, AppOK, Ops, HandleBit
<1>9. RestoreTypes(c)'
  <2>1. CallShaped(new)
    BY <1>2, <1>3, <1>7, <1>8 DEF CallShaped
  <2> QED
    BY <1>2, <1>6, <1>7, <2>1 DEF RestoreTypes, LastNotice
<1>10. ASSUME c \in haps, PromisesOK(c), FreshOK(c), CallOK(c, k)
       PROVE  PromisesOK(c)' /\ FreshOK(c)' /\ CallOK(c, new)'
  <2>1. FreshOK(c)'
    BY <1>2, <1>10 DEF FreshOK
  <2>2. ASSUME NEW x, Safe(c, x),
               \A m \in x[1] : <<m, c, x[2]>> \in registered => <<m, c, x[2]>> \in registered'
        PROVE  Safe(c, x)'
    BY <1>2, <1>6, <2>2, SafeKept
  <2>3. CASE k.op = "Subscribe"
    <3>1. registered \subseteq registered'
      BY <1>2, <2>3 DEF Adds
    <3>2. PromisesOK(c)'
      BY <1>2, <1>10, <2>2, <3>1 DEF PromisesOK
    <3>3. \A x : Standing(c, x) => Standing(c, x)'
      BY <3>1 DEF Standing
    <3>4. ASSUME k.ok
          PROVE  /\ "event" \notin k.type /\ (listening[c] => Safe(c, <<k.type, k.obs>>)')
                 /\ ~listening[c] => Standing(c, <<k.type, k.obs>>)'
      <4>1. PICK x : x = <<k.type, k.obs>>
        OBVIOUS
      <4>2. "event" \notin k.type /\ (listening[c] => Safe(c, x)) /\ (~listening[c] => Standing(c, x))
        BY <1>2, <1>10, <2>3, <3>4, <4>1 DEF CallOK
      <4>3. (listening[c] => Safe(c, x)') /\ (~listening[c] => Standing(c, x)')
        BY <2>2, <3>1, <3>3, <4>2
      <4> QED
        BY <4>1, <4>2, <4>3
    <3>5. ASSUME <<map, c, k.obs>> \in registered'
          PROVE  "event" \notin k.type /\ Safe(c, <<k.type, k.obs>>)' /\ Standing(c, <<k.type, k.obs>>)'
      <4>1. map # "event"
        BY <1>2, <1>7, <1>10, <3>5 DEF RestoreTypes
      <4>2. "event" \notin k.type
        BY <1>2, <1>8, <4>1, ClientAssumption
      <4>3. PICK x : x = <<k.type, k.obs>>
        OBVIOUS
      <4>4. Standing(c, x)'
        BY <1>2, <3>5, <4>3 DEF Standing
      <4>5. Safe(c, x)'
        BY <4>4 DEF Safe
      <4> QED
        BY <4>2, <4>3, <4>4, <4>5
    <3>6. CallOK(c, new)'
      BY <1>2, <1>3, <2>3, <3>4, <3>5 DEF CallOK
    <3> QED
      BY <2>1, <3>2, <3>6
  <2>4. CASE k.op = "Unsubscribe"
    <3>1. <<k.type, k.obs>> \notin promised[c]
      BY <1>2, <1>10, <2>4 DEF CallOK
    <3>2. ASSUME NEW x \in promised[c] PROVE Safe(c, x)'
      <4>1. x \in observerSet[c] /\ Safe(c, x)
        BY <1>10 DEF PromisesOK
      <4>2. x = <<x[1], x[2]>> /\ x[1] \in Types
        BY <1>7, <4>1 DEF RestoreTypes, WantedInv, ObserversOK, Pair
      <4>3. ASSUME NEW m \in x[1] PROVE <<m, c, x[2]>> # <<map, c, k.obs>>
        <5> SUFFICES ASSUME m = map, x[2] = k.obs PROVE FALSE
          OBVIOUS
        <5>1. x[1] = k.type
          BY <1>2, <1>8, <4>2 DEF TypesApart
        <5> QED
          BY <3>1, <4>2, <5>1
      <4> QED
        BY <1>2, <2>2, <2>4, <4>1, <4>3
    <3>3. PromisesOK(c)'
      BY <1>2, <1>10, <3>2 DEF PromisesOK
    <3>4. CallOK(c, new)'
      BY <1>2, <1>3, <2>4, <3>1 DEF CallOK
    <3> QED
      BY <2>1, <3>3, <3>4
  <2>5. CASE k.op = "UnsubscribeAll"
    <3>1. promised[c] = {}
      BY <1>2, <1>10, <2>5 DEF CallOK
    <3>2. PromisesOK(c)'
      BY <1>2, <3>1 DEF PromisesOK
    <3>3. CallOK(c, new)'
      BY <1>2, <1>3, <2>5, <3>1 DEF CallOK
    <3> QED
      BY <2>1, <3>2, <3>3
  <2> QED
    BY <1>8, <2>3, <2>4, <2>5
<1>11. c \in haps => RestoreOK(c)'
  BY <1>2, <1>4, <1>6, <1>10 DEF RestoreInv, RestoreOK, LostGrows
<1> QED
  BY <1>5, <1>9, <1>11, OneClient

LEMMA RestoreListenerBit ==
  ASSUME ProxyInv, WantedInv, RestoreInv, NEW c \in Clients, HandleBit(c, "samgr")
  PROVE  RestoreInv'
<1> PICK k : k = at[c]["samgr"]
  OBVIOUS
<1> PICK map : map = First(k.left)
  OBVIOUS
<1>1. "samgr" \in Threads
  BY DEF Threads
<1>2. /\ map \in k.type /\ k.pc = "called" /\ k.proxy = sa /\ k.left # {}
      /\ \A b \in Clients : b # c => \A m, o : <<m, b, o>> \in registered' <=> <<m, b, o>> \in registered
      /\ c \in haps => \A o : <<"event", c, o>> \in registered' => <<"event", c, o>> \in registered
      /\ Adds(k) => registered \subseteq registered'
      /\ UNCHANGED <<sa, haps, alive, proxy, observerSet, listening, hasDied, notices, promised>>
  BY <1>1, MapsHandled
<1>3. PICK new : /\ Moves(c, "samgr", new) /\ new.pc = k.pc /\ new.op = k.op /\ new.type = k.type /\ new.obs = k.obs
                 /\ new.todo = k.todo /\ new.proxy = k.proxy
                 /\ new.ok => k.ok \/ (Adds(k) /\ <<map, c, k.obs>> \in registered')
  BY <1>1, BitHandled
<1>4. LostGrows
  BY LostKept, Blamed DEF HandleBit
<1>5. Elsewhere(c)
  BY <1>2, <1>3, <1>4 DEF Elsewhere, SameBut, Moves, WantedInv, RestoreInv, ProxyInv, PerClient
<1>6. at'[c]["samgr"] = new /\ at'[c]["app"] = at[c]["app"]
  BY <1>3 DEF Moves, Threads
<1>7. ListenerOK(k, observerSet[c]) /\ RestoreTypes(c)
  BY <1>1 DEF RestoreInv, WantedInv, ObserversOK, ThreadOK
<1>8. k.op = "Resubscribe" /\ k # Idle /\ Adds(k) /\ registered \subseteq registered'
  BY <1>2, <1>7, IdleShaped DEF ListenerOK, Adds
<1>9. RestoreTypes(c)'
  BY <1>2, <1>6, <1>7 DEF RestoreTypes, LastNotice
<1>10. ASSUME c \in haps, map # "event", lost'[c] \cap Excused = {} PROVE <<map, c, k.obs>> \in registered'
  <2>1. ~Full(map, c) \/ <<map, c, k.obs>> \in registered
    BY <1>8, <1>10, Blamed DEF HandleBit, Excused
  <2>2. registered' = AddObserver(map, c, k.obs)
    BY <1>8 DEF HandleBit
  <2> QED
    BY <1>8, <1>10, <2>1, <2>2 DEF AddObserver
<1>11. ASSUME NEW x, c \in haps, lost'[c] \cap Excused = {}, "event" \notin x[1], Safe(c, x) PROVE Safe(c, x)'
  <2>1. Standing(c, x) => Standing(c, x)'
    BY <1>8 DEF Standing
  <2>2. Due(sa, notices[c], hasDied[c], k) => Due(sa, notices[c], hasDied[c], new)
    BY <1>8, DueWhileBusy
  <2>3. CASE Underway(sa, notices[c], k, x) /\ x # <<k.type, k.obs>>
    <3>1. Underway(sa, notices[c], new, x)
      BY <1>2, <1>3, <2>3 DEF Underway
    <3> QED
      BY <1>2, <1>6, <3>1 DEF Safe
  <2>4. CASE x = <<k.type, k.obs>>
    <3>1. map \in x[1] /\ k.obs = x[2]
      BY <1>2, <2>4
    <3>2. Standing(c, x)'
      BY <1>10, <1>11, <3>1 DEF Standing
    <3> QED
      BY <3>2 DEF Safe
  <2> QED
    BY <1>2, <1>6, <1>11, <2>1, <2>2, <2>3, <2>4 DEF Safe
<1>12. ASSUME c \in haps, lost'[c] \cap Excused = {}, PromisesOK(c), FreshOK(c), CallOK(c, at[c]["app"])
       PROVE  PromisesOK(c)' /\ FreshOK(c)' /\ CallOK(c, at[c]["app"])'
  <2>1. FreshOK(c)'
    BY <1>2, <1>12 DEF FreshOK
  <2>2. PromisesOK(c)'
    BY <1>2, <1>11, <1>12 DEF PromisesOK
  <2> PICK j : j = at[c]["app"]
    OBVIOUS
  <2>3. PICK x : x = <<j.type, j.obs>>
    OBVIOUS
  <2>4. ASSUME j.pc = "called", j.op = "Subscribe", j.ok
        PROVE  /\ "event" \notin j.type /\ (listening[c] => Safe(c, x)')
               /\ ~listening[c] /\ j.proxy = sa => Standing(c, x)'
    <3>1. /\ "event" \notin j.type /\ (listening[c] => Safe(c, x))
          /\ ~listening[c] /\ j.proxy = sa => Standing(c, x)
      BY <1>12, <2>3, <2>4 DEF CallOK
    <3>2. Standing(c, x) => Standing(c, x)'
      BY <1>8 DEF Standing
    <3>3. "event" \notin x[1]
      BY <2>3, <3>1
    <3> QED
      BY <1>11, <1>12, <3>1, <3>2, <3>3
  <2>5. CallOK(c, j)'
    BY <1>2, <1>12, <2>3, <2>4 DEF CallOK
  <2> QED
    BY <1>6, <2>1, <2>2, <2>5
<1>13. c \in haps => RestoreOK(c)'
  BY <1>2, <1>4, <1>6, <1>12 DEF RestoreInv, RestoreOK, LostGrows
<1> QED
  BY <1>5, <1>9, <1>13, OneClient

\* The service forgets a client that detaches or has died.
LEMMA RestoreExit ==
  ASSUME ProxyInv, WantedInv, RestoreInv, NEW c \in Clients, HandleDetach(c) \/ OnClientDied(c)
  PROVE  RestoreInv'
<1>1. /\ registered' \subseteq registered /\ \A r \in registered : r[2] # c => r \in registered'
      /\ UNCHANGED <<sa, haps, alive, proxy, observerSet, listening, hasDied, notices, promised>>
  BY DEF HandleDetach, OnClientDied, AppExit, RemoveObserverByPid, client, loader
<1>2. \A b \in Clients : b # c => \A m, o : <<m, b, o>> \in registered' <=> <<m, b, o>> \in registered
  BY <1>1
<1>3. LostGrows
  BY LostKept, Blamed DEF HandleDetach, OnClientDied
<1> PICK k : k = at[c]["app"]
  OBVIOUS
<1>4. Shape(k) /\ CallShaped(k)
  BY DEF ProxyInv, ThreadsOK, RestoreInv, RestoreTypes, Threads
<1>5. PICK new : Moves(c, "app", new) /\ CallShaped(new)
  <2>1. CASE HandleDetach(c)
    <3> DEFINE new == [k EXCEPT !.op = "none", !.left = {}]
    <3>1. at' = [at EXCEPT ![c]["app"] = new] /\ k.pc = "called"
      BY <2>1 DEF HandleDetach
    <3>2. new.pc = k.pc /\ new.op = "none" /\ new.left = {} /\ new.proxy = k.proxy
      BY <1>4 DEF Shape, Fields
    <3> HIDE DEF new
    <3>3. Moves(c, "app", new)
      BY <3>1, ThreadMoves DEF Threads
    <3>4. CallShaped(new)
      BY <1>4, <3>1, <3>2 DEF CallShaped
    <3> QED
      BY <3>3, <3>4
  <2>2. CASE OnClientDied(c)
    <3>1. Moves(c, "app", k)
      BY <2>2 DEF OnClientDied, Moves, ProxyInv, ThreadsOK
    <3> QED
      BY <1>4, <3>1
  <2> QED
    BY <2>1, <2>2
<1>6. Elsewhere(c)
  BY <1>1, <1>2, <1>3, <1>5 DEF Elsewhere, SameBut, Moves, WantedInv, RestoreInv, ProxyInv, PerClient
<1>7. at'[c]["app"] = new
  BY <1>5 DEF Moves
<1>8. RestoreTypes(c)'
  BY <1>1, <1>5, <1>7 DEF RestoreInv, RestoreTypes, LastNotice
<1>9. ~alive'[c] \/ "detached" \in lost'[c]
  BY <1>1, Blamed DEF HandleDetach, OnClientDied
<1>10. RestoreOK(c)'
  BY <1>9 DEF RestoreOK, Excused
<1> QED
  BY <1>6, <1>8, <1>10, OneClient

LEMMA RestoreDeath ==
  ASSUME ProxyInv, WantedInv, RestoreInv, NEW c \in Clients, ClientDies(c)
  PROVE  RestoreInv'
<1>1. /\ alive' = [alive EXCEPT ![c] = FALSE]
      /\ UNCHANGED <<sa, haps, registered, at, lost, proxy, observerSet, listening, hasDied, notices, promised>>
  BY DEF ClientDies, service, client, loader, ghosts
<1>2. ~alive'[c] /\ SameBut(alive, alive', c)
  BY <1>1 DEF WantedInv, PerClient, IsFun, SameBut
<1>3. Elsewhere(c)
  BY <1>1, <1>2, LostKept DEF Elsewhere, SameBut, WantedInv, RestoreInv, ProxyInv, PerClient
<1>4. RestoreTypes(c)' /\ RestoreOK(c)'
  BY <1>1, <1>2 DEF RestoreInv, RestoreTypes, LastNotice, RestoreOK
<1> QED
  BY <1>3, <1>4, OneClient

\* The service starts or stops.
LEMMA RestoreRestart ==
  ASSUME ProxyInv, WantedInv, RestoreInv, SaStart \/ SaStop
  PROVE  RestoreInv'
<1>1. UNCHANGED <<haps, alive, at, lost, proxy, observerSet, listening, hasDied, promised>>
  BY DEF SaStart, SaStop, loader, ghosts
<1>2. PICK notice : /\ Tell(notice)
                    /\ \/ SaStart /\ notice = "added" /\ sa = 0 /\ sa' = stops + 1 /\ UNCHANGED registered
                       \/ SaStop /\ notice = "removed" /\ sa' = 0 /\ registered' = {}
  BY DEF SaStart, SaStop
<1>3. /\ IsFun(notices', Clients)
      /\ \A c \in Clients : notices'[c] = IF listening[c] THEN Append(notices[c], notice) ELSE notices[c]
  BY <1>2 DEF Tell, IsFun
<1>4. sa' # 0 => SaStart
  BY <1>2
<1>5. SaStart => sa' # 0
  BY <1>2 DEF SaStart, ProxyInv
<1>6. ASSUME NEW c \in Clients, listening[c]
      PROVE  /\ notices'[c] \in Seq(Notices) /\ notices'[c] # <<>> /\ LastNotice(notices[c])'
             /\ sa' # 0 => \A d, k : Due(0, notices[c], d, k) => Due(sa', notices'[c], d, k)
             /\ sa' = 0 => \A d, k : Due(sa', notices'[c], d, k)
  <2> PICK q : q = notices[c]
    OBVIOUS
  <2>1. q \in Seq(Notices)
    BY DEF RestoreInv, RestoreTypes, Notices
  <2>2. notice \in Notices /\ notices'[c] = Append(q, notice) /\ (IF sa' = 0 THEN notice = "removed" ELSE notice = "added")
    BY <1>2, <1>3, <1>4, <1>5, <1>6 DEF Notices
  <2>3. PICK r : r = Append(q, notice)
    OBVIOUS
  <2>4. r \in Seq(Notices) /\ r # <<>> /\ r[Len(r)] = notice
    BY <2>1, <2>2, <2>3 DEF Notices
  <2>5. LastNotice(notices[c])'
    BY <2>2, <2>3, <2>4 DEF LastNotice
  <2>6. sa' # 0 => \A d, k : Due(0, q, d, k) => Due(sa', Append(q, "added"), d, k)
    BY <2>1, StartIsDue
  <2>7. \A d, k : Due(0, Append(q, "removed"), d, k)
    BY <2>1, StopIsDue
  <2> QED
    BY <2>2, <2>3, <2>4, <2>5, <2>6, <2>7
<1>7. ASSUME NEW c \in Clients PROVE RestoreTypes(c)'
  <2>1. CASE listening[c]
    BY <1>1, <1>2, <1>6, <2>1 DEF RestoreInv, RestoreTypes, Notices
  <2>2. CASE ~listening[c]
    BY <1>1, <1>2, <1>3, <2>2 DEF RestoreInv, RestoreTypes
  <2> QED
    BY <2>1, <2>2
<1>8. ASSUME NEW c \in Clients, NEW x, listening[c], Safe(c, x) PROVE Safe(c, x)'
  <2>1. CASE sa' = 0
    <3>1. Due(sa', notices'[c], hasDied[c], at[c]["samgr"])
      BY <1>6, <1>8, <2>1
    <3> QED
      BY <1>1, <3>1 DEF Safe
  <2>2. CASE sa' # 0
    <3>1. sa = 0 /\ UNCHANGED registered
      BY <1>4, <2>2 DEF SaStart
    <3>2. Standing(c, x) => Standing(c, x)'
      BY <3>1 DEF Standing
    <3>3. ~Underway(sa, notices[c], at[c]["samgr"], x)
      BY <3>1 DEF Underway
    <3>4. Due(sa, notices[c], hasDied[c], at[c]["samgr"]) => Due(sa', notices'[c], hasDied[c], at[c]["samgr"])
      BY <1>6, <1>8, <2>2, <3>1
    <3> QED
      BY <1>1, <1>8, <3>2, <3>3, <3>4 DEF Safe
  <2> QED
    BY <2>1, <2>2
<1>9. ASSUME NEW c \in haps, alive'[c], lost'[c] \cap Excused = {}
      PROVE  PromisesOK(c)' /\ FreshOK(c)' /\ CallOK(c, at[c]["app"])'
  <2> PICK k : k = at[c]["app"]
    OBVIOUS
  <2>1. c \in Clients /\ PromisesOK(c) /\ FreshOK(c) /\ CallOK(c, k)
    BY <1>1, <1>9 DEF RestoreInv, RestoreOK
  <2>2. PromisesOK(c)'
    BY <1>1, <1>8, <2>1 DEF PromisesOK
  <2>3. FreshOK(c)'
    BY <1>1, <1>6, <2>1 DEF FreshOK
  <2>4. k.pc = "called" => k.proxy # sa'
    <3>1. CASE sa' = 0
      BY <2>1, <3>1 DEF RestoreInv, RestoreTypes, CallShaped
    <3>2. CASE SaStart
      <4>1. sa = 0 /\ sa' = stops + 1
        BY <3>2 DEF SaStart
      <4> QED
        BY <2>1, <4>1 DEF ProxyInv, ThreadsOK, Known, Threads
    <3> QED
      BY <1>4, <3>1, <3>2
  <2>5. PICK x : x = <<k.type, k.obs>>
    OBVIOUS
  <2>6. ASSUME k.pc = "called", k.op = "Subscribe", k.ok PROVE "event" \notin k.type /\ (listening[c] => Safe(c, x)')
    BY <1>8, <2>1, <2>5, <2>6 DEF CallOK
  <2>7. CallOK(c, k)'
    BY <1>1, <2>1, <2>4, <2>5, <2>6 DEF CallOK
  <2> QED
    BY <1>1, <2>2, <2>3, <2>7
<1>10. ASSUME NEW c \in haps PROVE RestoreOK(c)'
  BY <1>9 DEF RestoreOK
<1> QED
  BY <1>1, <1>3, <1>7, <1>10 DEF RestoreInv, PerClient

LEMMA RestoreStays ==
  ASSUME ProxyInv, WantedInv, RestoreInv, UNCHANGED vars
  PROVE  RestoreInv'
<1>1. UNCHANGED <<sa, haps, alive, at, lost, proxy, registered, observerSet, listening, hasDied, notices, promised>>
  BY DEF vars, service, client, loader, ghosts
<1>2. ASSUME NEW c \in Clients PROVE RestoreTypes(c)'
  BY <1>1 DEF RestoreInv, RestoreTypes, LastNotice
<1>3. ASSUME NEW c, NEW x PROVE (Safe(c, x)' <=> Safe(c, x)) /\ (Standing(c, x)' <=> Standing(c, x))
  BY <1>1 DEF Safe, Standing
<1>4. ASSUME NEW c \in haps PROVE RestoreOK(c)'
  <2>1. (PromisesOK(c) => PromisesOK(c)') /\ (FreshOK(c) => FreshOK(c)')
    BY <1>1, <1>3 DEF PromisesOK, FreshOK
  <2>2. CallOK(c, at[c]["app"]) => CallOK(c, at[c]["app"])'
    BY <1>1, <1>3 DEF CallOK
  <2> QED
    BY <1>1, <2>1, <2>2 DEF RestoreInv, RestoreOK
<1> QED
  BY <1>1, <1>2, <1>4 DEF RestoreInv, PerClient

\* Every step of every actor keeps RestoreInv.
LEMMA RestoreStep ==
  ASSUME TypesApart, ProxyInv, WantedInv, RestoreInv, [Next]_vars
  PROVE  RestoreInv'
<1>1. ASSUME NEW c \in Clients, AppStep(c) PROVE RestoreInv'
  BY <1>1, RestoreSubscribe, RestoreUnsubscribe, RestoreUnsubscribeAll, RestoreNoCall, RestoreReplied,
     RestoreReleased DEF AppStep
<1>2. ASSUME NEW c \in Clients, ListenerStep(c) PROVE RestoreInv'
  BY <1>2, RestoreStopHeard, RestoreStartHeard, RestoreResubscribe DEF ListenerStep
<1>3. ASSUME NEW c \in Clients, NEW t \in Threads, HandleBit(c, t) PROVE RestoreInv'
  <2>1. t # "load"
    BY <1>3 DEF HandleBit, WantedInv, ObserversOK, ThreadOK
  <2> QED
    BY <1>3, <2>1, RestoreAppBit, RestoreListenerBit DEF Threads
<1>4. ASSUME NEW c \in Clients, ServiceStep(c) PROVE RestoreInv'
  BY <1>3, <1>4, RestoreExit DEF ServiceStep
<1> QED
  BY <1>1, <1>2, <1>4, RestoreCall, RestoreReleasing, RestoreGetStep, RestoreAnswerStep, RestoreRestart, RestoreDeath, RestoreStays
     DEF Next

LEMMA RestoreInit ==
  ASSUME Init
  PROVE  RestoreInv
<1>1. PerClient(notices) /\ PerClient(listening) /\ PerClient(hasDied) /\ PerClient(promised) /\ haps \subseteq Clients
  BY DEF Init, PerClient, IsFun
<1>2. CallShaped(Idle) /\ Idle.pc # "called"
  BY DEF Idle, CallShaped
<1>3. ASSUME NEW c \in Clients
      PROVE  /\ notices[c] = <<>> /\ observerSet[c] = {} /\ promised[c] = {} /\ at[c]["app"] = Idle
             /\ registered = {} /\ sa = 0
  BY DEF Init, Threads
<1>4. ASSUME NEW c \in Clients PROVE RestoreTypes(c)
  <2>1. <<>> \in Seq({"added", "removed"})
    OBVIOUS
  <2> QED
    BY <1>2, <1>3, <2>1 DEF RestoreTypes
<1>5. ASSUME NEW c \in haps PROVE RestoreOK(c)
  BY <1>1, <1>2, <1>3 DEF RestoreOK, PromisesOK, FreshOK, CallOK
<1> QED
  BY <1>1, <1>4, <1>5 DEF RestoreInv

(* A restart of the service gives an application its observers back: once  *)
(* nothing of it is under way, the running service has what Subscribe      *)
(* returned true for, however stops, starts, their notices, the listener   *)
(* that subscribes all again and the application's own calls interleave,   *)
(* but for the four cases the property names.  It needs that no two types  *)
(* share a map, as with callers that ask for local, remote and event       *)
(* changes each by itself: with types that do, to take one back takes a    *)
(* map from the other.                                                     *)
THEOREM ObserversComeBack ==
  ASSUME TypesApart
  PROVE  Spec => []ObserversRestored
<1>1. Init => ProxyInv /\ WantedInv /\ RestoreInv
  BY ProxyInit, WantedInit, RestoreInit
<1>2. ProxyInv /\ WantedInv /\ RestoreInv /\ [Next]_vars => (ProxyInv /\ WantedInv /\ RestoreInv)'
  BY ProxyStep, WantedStep, RestoreStep
<1>3. RestoreInv => ObserversRestored
  <2> SUFFICES ASSUME RestoreInv, NEW c \in haps, sa # 0, alive[c], Quiet(c), lost[c] \cap Excused = {},
                      NEW x \in promised[c]
               PROVE  Standing(c, x)
    BY DEF ObserversRestored, Standing, Excused
  <2>1. at[c]["samgr"] = Idle /\ notices[c] = <<>>
    BY DEF Quiet, Threads
  <2>2. Safe(c, x)
    BY DEF RestoreInv, RestoreOK, PromisesOK
  <2>3. ~Underway(sa, notices[c], Idle, x) /\ ~Due(sa, notices[c], hasDied[c], Idle)
    BY <2>1, IdleShaped DEF Underway, Due
  <2> QED
    BY <2>1, <2>2, <2>3 DEF Safe
<1> QED
  BY <1>1, <1>2, <1>3, PTL DEF Spec

====
