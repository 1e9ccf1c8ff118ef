--------------------- MODULE DisposableObserversProofs ---------------------
(***************************************************************************)
(* DisposableManager calls an observer at most once and loses none, for    *)
(* any number of processes, threads, copies and subscriptions.             *)
(*                                                                         *)
(* The argument is that a subscription is in one place at a time: with the *)
(* thread that will list it, in the list, or with the copy that took it,   *)
(* and in none of them once it is called.                                  *)
(***************************************************************************)
EXTENDS DisposableObservers, TLAPS

Told(c) == copy[c].mismatched \cup copy[c].matched

\* Each kind of place holds a subscription once ...
OncePerKind ==
  /\ \A t, u \in Threads : thread[t].sub = thread[u].sub /\ thread[t].sub # 0 => t = u
  /\ \A p, q \in Pids : list[p] = list[q] /\ list[p] # 0 => p = q
  /\ \A c, d \in Copiers : \A n \in Subs : n \in Told(c) /\ n \in Told(d) => c = d
  /\ \A c \in Copiers : copy[c].mismatched \cap copy[c].matched = {}

\* ... and no two kinds hold the same one.
OneKind ==
  /\ \A t \in Threads, p \in Pids : thread[t].sub = list[p] => list[p] = 0
  /\ \A t \in Threads, c \in Copiers : thread[t].sub \notin Told(c)
  /\ \A p \in Pids, c \in Copiers : list[p] \notin Told(c)

\* A subscription that is in some place was made and not yet called.
Uncalled ==
  /\ \A t \in Threads : thread[t].sub <= subs /\ (thread[t].sub # 0 => answers[thread[t].sub] = 0)
  /\ \A p \in Pids : list[p] <= subs /\ (list[p] # 0 => answers[list[p]] = 0)
  /\ \A c \in Copiers : \A n \in Told(c) : n <= subs /\ answers[n] = 0
  /\ \A n \in Subs : n > subs => answers[n] = 0

PlaceInv == TypeOK /\ OncePerKind /\ OneKind /\ Uncalled /\ CalledAtMostOnce

LEMMA PlaceInit == Init => PlaceInv
<1> SUFFICES ASSUME Init PROVE PlaceInv
  OBVIOUS
<1>0. NoPid \in Pids
  BY PidsAssumption DEF NoPid
<1>1. TypeOK
  BY <1>0, BoundsAssumption DEF Init, TypeOK, Idle, NoCopy, Subs
<1>2. OncePerKind /\ OneKind /\ Uncalled
  BY BoundsAssumption DEF Init, OncePerKind, OneKind, Uncalled, Told, Idle, NoCopy, Subs
<1>3. CalledAtMostOnce
  BY DEF Init, CalledAtMostOnce
<1> QED
  BY <1>1, <1>2, <1>3 DEF PlaceInv

LEMMA PlaceSubscribe ==
  ASSUME PlaceInv, NEW t \in Threads, NEW p \in Pids, Subscribe(t, p)
  PROVE  PlaceInv'
<1> USE DEF PlaceInv
<1>1. TypeOK'
  BY BoundsAssumption DEF TypeOK, Subscribe, Subs
<1>2. OncePerKind'
  BY BoundsAssumption DEF TypeOK, Subscribe, OncePerKind, Uncalled, Told, Subs
<1>3. OneKind'
  BY BoundsAssumption DEF TypeOK, Subscribe, OneKind, Uncalled, Told, Subs
<1>4. Uncalled'
  BY BoundsAssumption DEF TypeOK, Subscribe, Uncalled, Told, Subs
<1>5. CalledAtMostOnce'
  BY DEF Subscribe, CalledAtMostOnce
<1> QED
  BY <1>1, <1>2, <1>3, <1>4, <1>5

LEMMA PlaceInsert ==
  ASSUME PlaceInv, NEW t \in Threads, Insert(t)
  PROVE  PlaceInv'
<1> USE DEF PlaceInv
<1>0. NoPid \in Pids
  BY PidsAssumption DEF NoPid
<1>a. thread[t].pid \in Pids /\ thread[t].sub \in Subs
  BY BoundsAssumption DEF TypeOK, Insert, Subs
<1>b. {list[thread[t].pid]} \ {0} \subseteq Subs
  BY <1>a, BoundsAssumption DEF TypeOK, Subs
<1>c. thread' \in [Threads -> [pid : Pids, sub : 0..MaxSubs]]
  BY <1>0, BoundsAssumption DEF TypeOK, Insert, Idle
<1>1. TypeOK'
  BY <1>a, <1>b, <1>c, BoundsAssumption DEF TypeOK, Insert, Subs
<1>2. OncePerKind'
  BY DEF TypeOK, Insert, OncePerKind, OneKind, Told, Idle
<1>3. OneKind'
  BY DEF TypeOK, Insert, OncePerKind, OneKind, Told, Idle, Subs
<1>4. Uncalled'
  BY BoundsAssumption DEF TypeOK, Insert, Uncalled, Told, Idle
<1>5. CalledAtMostOnce'
  BY DEF Insert, CalledAtMostOnce
<1> QED
  BY <1>1, <1>2, <1>3, <1>4, <1>5

LEMMA PlaceExpire ==
  ASSUME PlaceInv, NEW p \in Pids, Expire(p)
  PROVE  PlaceInv'
<1> USE DEF PlaceInv
<1>0. list[p] \in 0..MaxSubs /\ answers \in [Subs -> Nat]
  BY DEF TypeOK
<1>1. CASE list[p] = 0
  <2>1. list' = list /\ answers' = answers /\ thread' = thread /\ copy' = copy /\ subs' = subs
    BY <1>1 DEF Expire, TypeOK
  <2>2. TypeOK'
    BY <2>1 DEF TypeOK, Expire
  <2> QED
    BY <2>1, <2>2 DEF OncePerKind, OneKind, Uncalled, CalledAtMostOnce, Told
<1>2. CASE list[p] # 0
  <2>1. list[p] \in Subs /\ answers[list[p]] = 0
    BY <1>0, <1>2, BoundsAssumption DEF Uncalled, Subs
  <2>2. answers' = [answers EXCEPT ![list[p]] = 1]
    BY <1>2, <2>1 DEF Expire, Answered
  <2>3. TypeOK'
    BY <2>1, <2>2, BoundsAssumption DEF TypeOK, Expire
  <2>4. OncePerKind'
    BY DEF TypeOK, Expire, OncePerKind, Told
  <2>5. OneKind'
    BY BoundsAssumption DEF TypeOK, Expire, OneKind, Told, Subs
  <2>6. Uncalled'
    BY <2>1, <2>2, <1>2, BoundsAssumption DEF TypeOK, Expire, OncePerKind, OneKind, Uncalled, Told, Subs
  <2>7. CalledAtMostOnce'
    BY <2>2, <1>0 DEF CalledAtMostOnce
  <2> QED
    BY <2>3, <2>4, <2>5, <2>6, <2>7
<1> QED
  BY <1>1, <1>2

LEMMA PlaceAppExit ==
  ASSUME PlaceInv, NEW p \in Pids, AppExit(p)
  PROVE  PlaceInv'
<1> USE DEF PlaceInv
<1>0. {list[p]} \ {0} \subseteq Subs
  BY BoundsAssumption DEF TypeOK, Subs
<1>a. list' \in [Pids -> 0..MaxSubs] /\ dropped' \subseteq Subs /\ alive' \subseteq Pids
  BY <1>0, BoundsAssumption DEF TypeOK, AppExit
<1>1. TypeOK'
  BY <1>a DEF TypeOK, AppExit, Subs
<1>2. OncePerKind'
  BY DEF TypeOK, AppExit, OncePerKind, Told
<1>3. OneKind'
  BY BoundsAssumption DEF TypeOK, AppExit, OneKind, Told, Subs
<1>4. Uncalled'
  BY BoundsAssumption DEF TypeOK, AppExit, Uncalled, Told, Subs
<1>5. CalledAtMostOnce'
  BY DEF AppExit, CalledAtMostOnce
<1> QED
  BY <1>1, <1>2, <1>3, <1>4, <1>5

LEMMA PlaceTakeAll ==
  ASSUME PlaceInv, NEW c \in Copiers, NEW w \in Windows, TakeAll(c, w)
  PROVE  PlaceInv'
<1> USE DEF PlaceInv
<1>0. Listed \subseteq Subs /\ ForWindow(w) \subseteq Listed
  BY BoundsAssumption DEF TypeOK, Listed, ForWindow, Subs
<1>1. TypeOK'
  BY <1>0, BoundsAssumption DEF TypeOK, TakeAll
<1>a. /\ Told(c)' = Listed
      /\ \A d \in Copiers \ {c} : Told(d)' = Told(d)
      /\ copy'[c].mismatched \cap copy'[c].matched = {}
      /\ \A d \in Copiers \ {c} : copy'[d] = copy[d]
  BY <1>0 DEF TypeOK, TakeAll, Told
<1>b. \A n \in Listed : n # 0 /\ \E p \in Pids : n = list[p]
  BY DEF Listed
<1>2. OncePerKind'
  <2>1. \A d \in Copiers : \A n \in Subs : ~(n \in Listed /\ n \in Told(d))
    BY <1>b DEF OneKind
  <2>2. \A d, e \in Copiers : \A n \in Subs : n \in Told(d)' /\ n \in Told(e)' => d = e
    BY <1>a, <2>1 DEF OncePerKind
  <2>3. \A d \in Copiers : copy'[d].mismatched \cap copy'[d].matched = {}
    BY <1>a DEF OncePerKind
  <2>4. thread' = thread /\ list' = [p \in Pids |-> 0] /\ subs' = subs /\ Subs' = Subs
    BY DEF TakeAll, Subs
  <2> QED
    BY <2>2, <2>3, <2>4 DEF OncePerKind, Told
<1>3. OneKind'
  <2>1. thread' = thread /\ list' = [p \in Pids |-> 0]
    BY DEF TakeAll
  <2>2. \A t \in Threads, d \in Copiers : thread[t].sub \notin Told(d)'
    BY <1>a, <1>b DEF OneKind
  <2>3. \A d \in Copiers : 0 \notin Told(d)'
    BY <1>1, BoundsAssumption DEF TypeOK, Told, Subs
  <2> QED
    BY <2>1, <2>2, <2>3 DEF OneKind
<1>4. Uncalled'
  <2>1. \A d \in Copiers : \A n \in Told(d)' : n <= subs /\ answers[n] = 0
    BY <1>a, <1>b DEF Uncalled
  <2>2. thread' = thread /\ list' = [p \in Pids |-> 0] /\ subs' = subs /\ answers' = answers
    BY DEF TakeAll
  <2> QED
    BY <2>1, <2>2 DEF Uncalled, TypeOK, Subs
<1>5. CalledAtMostOnce'
  BY DEF TakeAll, CalledAtMostOnce
<1> QED
  BY <1>1, <1>2, <1>3, <1>4, <1>5

\* Both deliveries of a copy take one subscription out of its hands and call it.
LEMMA PlaceDeliver ==
  ASSUME PlaceInv, NEW c \in Copiers, NEW n \in Subs,
         ProcessNoMatchInfo(c, n) \/ ProcessMatchedInfo(c, n)
  PROVE  PlaceInv'
<1> USE DEF PlaceInv
<1>1. n \in Told(c) /\ answers[n] = 0
  BY DEF ProcessNoMatchInfo, ProcessMatchedInfo, Told, Uncalled
<1>2. answers' = [answers EXCEPT ![n] = 1]
  BY <1>1 DEF ProcessNoMatchInfo, ProcessMatchedInfo, Answered
<1>3. UNCHANGED <<subs, target, thread, list, armed, expiring, alive, replaced, dropped, untimed>>
  BY DEF ProcessNoMatchInfo, ProcessMatchedInfo
<1>4. /\ copy' \in [Copiers -> [mismatched : SUBSET Subs, matched : SUBSET Subs]]
      /\ \A d \in Copiers \ {c} : copy'[d] = copy[d]
      /\ copy'[c].mismatched \subseteq copy[c].mismatched
      /\ copy'[c].matched \subseteq copy[c].matched
      /\ n \notin copy'[c].mismatched \cup copy'[c].matched
  BY DEF ProcessNoMatchInfo, ProcessMatchedInfo, TypeOK, OncePerKind
<1>5. TypeOK'
  BY <1>2, <1>3, <1>4, BoundsAssumption DEF TypeOK, Subs
<1>6. \A d \in Copiers : Told(d)' \subseteq Told(d) /\ n \notin Told(d)'
  BY <1>1, <1>4 DEF Told, OncePerKind
<1>7. OncePerKind'
  BY <1>3, <1>4, <1>6 DEF OncePerKind, Subs
<1>8. OneKind'
  BY <1>3, <1>6 DEF OneKind
<1>9. Uncalled'
  <2>1. \A t \in Threads : thread[t].sub # n
    BY <1>1 DEF OneKind
  <2>2. \A p \in Pids : list[p] # n
    BY <1>1 DEF OneKind
  <2>3. n <= subs
    BY <1>1 DEF Uncalled
  <2>4. \A m \in Subs : m # n => answers'[m] = answers[m]
    BY <1>2 DEF TypeOK
  <2>5. /\ \A t \in Threads : thread[t].sub # 0 => thread[t].sub \in Subs
        /\ \A p \in Pids : list[p] # 0 => list[p] \in Subs
        /\ \A d \in Copiers : Told(d) \subseteq Subs
    BY BoundsAssumption DEF TypeOK, Subs, Told
  <2>6. \A d \in Copiers : \A m \in Told(d)' : m <= subs /\ answers'[m] = 0
    BY <1>6, <2>4, <2>5 DEF Uncalled
  <2>7. \A m \in Subs : m > subs => answers'[m] = 0
    BY <2>3, <2>4, BoundsAssumption DEF Uncalled, TypeOK, Subs
  <2> QED
    BY <1>3, <2>1, <2>2, <2>4, <2>5, <2>6, <2>7 DEF Uncalled, Subs
<1>10. CalledAtMostOnce'
  BY <1>2, <1>5 DEF CalledAtMostOnce, TypeOK, Subs
<1> QED
  BY <1>5, <1>7, <1>8, <1>9, <1>10

LEMMA PlaceStep == PlaceInv /\ [Next]_vars => PlaceInv'
<1> SUFFICES ASSUME PlaceInv, [Next]_vars PROVE PlaceInv'
  OBVIOUS
<1>1. ASSUME NEW t \in Threads, Insert(t) \/ \E p \in Pids : Subscribe(t, p) PROVE PlaceInv'
  BY <1>1, PlaceInsert, PlaceSubscribe
<1>2. ASSUME NEW p \in Pids, TimerFires(p) PROVE PlaceInv'
  BY <1>2 DEF PlaceInv, TimerFires, TypeOK, OncePerKind, OneKind, Uncalled, CalledAtMostOnce, Told,
              Subs
<1>3. ASSUME NEW p \in Pids, Expire(p) \/ AppExit(p) PROVE PlaceInv'
  BY <1>3, PlaceExpire, PlaceAppExit
<1>4. ASSUME NEW c \in Copiers, CopyStep(c) \/ \E w \in Windows : TakeAll(c, w) PROVE PlaceInv'
  BY <1>4, PlaceDeliver, PlaceTakeAll DEF CopyStep
<1>5. CASE UNCHANGED vars
  BY <1>5 DEF vars, PlaceInv, TypeOK, OncePerKind, OneKind, Uncalled, CalledAtMostOnce, Told, Subs
<1> QED
  BY <1>1, <1>2, <1>3, <1>4, <1>5 DEF Next

\* Whatever copies, time limits, exits and new subscriptions race for an
\* observer of DisposableManager, OnTextReceived is called on it at most once.
THEOREM CalledOnce == Spec => []CalledAtMostOnce
<1>1. PlaceInv => CalledAtMostOnce
  BY DEF PlaceInv
<1> QED
  BY <1>1, PlaceInit, PlaceStep, PTL DEF Spec

\* No step of DisposableManager forgets a subscription: until it is called,
\* replaced or dropped, a thread, the list or a copy holds it.
THEOREM NoneForgotten == Spec => []NoneLost
<1>1. Init => NoneLost
  BY DEF Init, NoneLost
<1>2. PlaceInv /\ NoneLost /\ [Next]_vars => NoneLost'
  <2> SUFFICES ASSUME PlaceInv, NoneLost, [Next]_vars, NEW n \in 1..subs'
               PROVE  Accounted(n)'
    BY DEF NoneLost
  <2> USE DEF PlaceInv, Accounted, Inserting, Waiting, BeingTold
  <2>0. subs \in Nat /\ n \in Nat /\ n > 0
    BY DEF TypeOK
  <2>1. ASSUME NEW t \in Threads, NEW p \in Pids, Subscribe(t, p)
        PROVE  Accounted(n)'
    <3>1. CASE n = subs + 1
      BY <2>1, <3>1 DEF Subscribe, TypeOK
    <3>2. CASE n # subs + 1
      <4>1. n \in 1..subs
        BY <2>0, <2>1, <3>2 DEF Subscribe
      <4> QED
        BY <2>0, <2>1, <4>1 DEF Subscribe, TypeOK, NoneLost
    <3> QED
      BY <3>1, <3>2
  <2>2. ASSUME NEW t \in Threads, Insert(t)
        PROVE  Accounted(n)'
    BY <2>0, <2>2 DEF Insert, TypeOK, NoneLost
  <2>3. ASSUME NEW p \in Pids, TimerFires(p)
        PROVE  Accounted(n)'
    BY <2>3 DEF TimerFires, NoneLost
  <2>4. ASSUME NEW p \in Pids, Expire(p)
        PROVE  Accounted(n)'
    <3>1. n \in 1..subs /\ n \in Subs /\ Accounted(n)
      BY <2>4, BoundsAssumption DEF Expire, NoneLost, TypeOK, Subs
    <3>2. CASE list[p] = n
      BY <2>0, <2>4, <3>1, <3>2 DEF Expire, Answered, TypeOK
    <3>3. CASE list[p] # n
      <4>1. answers'[n] = answers[n]
        BY <2>4, <3>1, <3>3 DEF Expire, Answered, TypeOK
      <4> QED
        BY <2>4, <3>1, <3>3, <4>1 DEF Expire, TypeOK
    <3> QED
      BY <3>2, <3>3
  <2>5. ASSUME NEW p \in Pids, AppExit(p)
        PROVE  Accounted(n)'
    BY <2>0, <2>5 DEF AppExit, TypeOK, NoneLost
  <2>6. ASSUME NEW c \in Copiers, CopyStep(c)
        PROVE  Accounted(n)'
    <3>1. PICK m \in Subs : ProcessNoMatchInfo(c, m) \/ ProcessMatchedInfo(c, m)
      BY <2>6 DEF CopyStep
    <3>a. subs' = subs
      BY <3>1 DEF ProcessNoMatchInfo, ProcessMatchedInfo
    <3>b. n \in 1..subs /\ n \in Subs
      BY <3>a, BoundsAssumption DEF TypeOK, Subs
    <3>2. n \in Subs /\ Accounted(n)
      BY <3>b DEF NoneLost
    <3>3. CASE m = n
      BY <3>1, <3>2, <3>3 DEF ProcessNoMatchInfo, ProcessMatchedInfo, Answered, TypeOK
    <3>4. CASE m # n
      <4>1. answers'[n] = answers[n]
        BY <3>1, <3>2, <3>4 DEF ProcessNoMatchInfo, ProcessMatchedInfo, Answered, TypeOK
      <4>2. BeingTold(n) => BeingTold(n)'
        BY <3>1, <3>4 DEF ProcessNoMatchInfo, ProcessMatchedInfo, TypeOK
      <4> QED
        BY <3>1, <3>2, <4>1, <4>2 DEF ProcessNoMatchInfo, ProcessMatchedInfo
    <3> QED
      BY <3>3, <3>4
  <2>7. ASSUME NEW c \in Copiers, NEW w \in Windows, TakeAll(c, w)
        PROVE  Accounted(n)'
    <3>1. n \in Listed => n \in copy'[c].mismatched \cup copy'[c].matched
      BY <2>7 DEF TakeAll, TypeOK
    <3>2. ~BeingTold(n) \/ BeingTold(n)'
      BY <2>7 DEF TakeAll, TypeOK, NoCopy
    <3>3. Waiting(n) => n \in Listed
      BY <2>0 DEF Listed
    <3> QED
      BY <2>7, <3>1, <3>2, <3>3 DEF TakeAll, NoneLost
  <2>8. CASE UNCHANGED vars
    BY <2>8 DEF vars, NoneLost
  <2> QED
    BY <2>1, <2>2, <2>3, <2>4, <2>5, <2>6, <2>7, <2>8 DEF Next
<1> QED
  BY <1>1, <1>2, PlaceInit, PlaceStep, PTL DEF Spec
=============================================================================
