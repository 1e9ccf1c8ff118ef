----------------------- MODULE DistributedSyncProofs -----------------------
(***************************************************************************)
(* Theorems about DistributedSync, for any number of copies and timeouts.  *)
(***************************************************************************)
EXTENDS DistributedSync, SequenceTheorems, TLAPS

\* A number is its quotient and its remainder.
LEMMA Quotient ==
  ASSUME NEW c \in Nat, NEW k \in Nat, k > 0
  PROVE  c \div k \in Int /\ c % k \in Int /\ c = k * (c \div k) + (c % k)
  OBVIOUS

\* Different events that bear the same seqId are a whole round of it apart.
LEMMA SeqIdRound ==
  ASSUME NEW d \in Nat, NEW e \in Nat, SeqId(d) = SeqId(e)
  PROVE  d = e \/ Lapped(d, e)
<1> DEFINE m == SeqMod
<1>1. m \in Nat /\ m > 0
  BY SeqModAssumption
<1>2. /\ d \div m \in Int /\ d = m * (d \div m) + (d % m)
      /\ e \div m \in Int /\ e = m * (e \div m) + (e % m)
  BY <1>1, Quotient
<1>3. d % m = e % m /\ d % m \in Int
  BY <1>1, Quotient DEF SeqId
<1>4. PICK p \in Int, q \in Int, x \in Int : d = m * p + x /\ e = m * q + x
  <2>1. d = m * (d \div m) + (d % m) /\ e = m * (e \div m) + (d % m)
    BY <1>2, <1>3
  <2> QED
    BY <1>2, <1>3, <2>1, Zenon
<1> HIDE DEF m
<1>5. d - e = m * (p - q) /\ e - d = m * (q - p)
  BY <1>1, <1>4
<1>6. CASE p = q
  BY <1>4, <1>6
<1>7. CASE p > q
  <2>1. PICK k \in Int : k = p - q /\ k >= 1 /\ d - e = m * k
    BY <1>5, <1>7
  <2>2. m * k >= m
    BY <1>1, <2>1
  <2> QED
    BY <2>1, <2>2 DEF Lapped, m
<1>8. CASE q > p
  <2>1. PICK k \in Int : k = q - p /\ k >= 1 /\ e - d = m * k
    BY <1>5, <1>8
  <2>2. m * k >= m
    BY <1>1, <2>1
  <2> QED
    BY <2>1, <2>2 DEF Lapped, m
<1> QED
  BY <1>4, <1>6, <1>7, <1>8

\* What the lock of setDistributedMemory_ protects.  The events are numbers of
\* copies made; a loop is running exactly when isRunning says so; while it runs
\* there is data to publish and it belongs to the latest event; when none runs,
\* the data is gone and the latest event is the one taken last, or a round of
\* seqId away from it.
MemoryInv ==
  /\ copies \in Event
  /\ waiting \subseteq 1..copies
  /\ latestEvent \in 0..copies
  /\ currentEvent \in 0..copies
  /\ isRunning \in BOOLEAN
  /\ isRunning => latestData = latestEvent /\ latestEvent # 0
  /\ ~isRunning => /\ latestData = 0
                   /\ currentEvent = latestEvent \/ Lapped(currentEvent, latestEvent)
  /\ isRunning <=> loop.pc # "none"

\* The memory stays consistent through every step: registration and the loop's
\* last look happen under one lock, so no event falls between them.
LEMMA MemoryStep ==
  ASSUME MemoryInv, [Next]_vars PROVE MemoryInv'
<1> USE BoundsAssumption DEF MemoryInv, Event, memory
<1>1. CASE SetDistributedData
  BY <1>1 DEF SetDistributedData
<1>2. CASE CopyStaysLocal
  BY <1>2 DEF CopyStaysLocal
<1>3. ASSUME NEW e \in waiting, RegisterLatest(e) PROVE MemoryInv'
  <2>1. e \in 1..copies
    BY <1>3
  <2>2. (isRunning <=> loop.pc # "none")'
    BY <1>3 DEF RegisterLatest
  <2> QED
    BY <1>3, <2>1, <2>2 DEF RegisterLatest
<1>4. CASE LoopStops
  <2>1. latestData # 0
    BY <1>4 DEF LoopStops
  <2>2. SeqId(currentEvent) = SeqId(latestEvent) /\ currentEvent \in Nat /\ latestEvent \in Nat
    BY <1>4, <2>1 DEF LoopStops, NothingNewer
  <2>3. currentEvent = latestEvent \/ Lapped(currentEvent, latestEvent)
    BY <2>2, SeqIdRound
  <2>4. (currentEvent = latestEvent \/ Lapped(currentEvent, latestEvent))'
    BY <1>4, <2>3 DEF LoopStops, Lapped
  <2> QED
    BY <1>4, <2>4 DEF LoopStops, NoLoop
<1>5. CASE LoopStartsInner
  BY <1>5 DEF LoopStartsInner
<1>6. CASE LoopAnswered \/ LoopTimesOut
  <2>1. loop.pc = "wait" /\ loop'.pc # "none"
    BY <1>6 DEF LoopAnswered, LoopTimesOut
  <2> QED
    BY <1>6, <2>1 DEF LoopAnswered, LoopTimesOut
<1>7. ASSUME NEW i \in DOMAIN inner, InnerTakes(i) PROVE MemoryInv'
  BY <1>7 DEF InnerTakes
<1>8. ASSUME NEW i \in DOMAIN inner, InnerFindsNothing(i) \/ InnerPublishes(i) \/ InnerFails(i)
      PROVE MemoryInv'
  <2>1. UNCHANGED <<copies, waiting, memory, loop>>
    BY <1>8 DEF InnerFindsNothing, InnerPublishes, InnerFails
  <2> QED
    BY <2>1
<1>9. CASE UNCHANGED vars
  BY <1>9 DEF vars
<1> QED
  BY <1>1, <1>2, <1>3, <1>4, <1>5, <1>6, <1>7, <1>8, <1>9 DEF Next, LoopStep, InnerStep

\* No copy that was registered for the peers is forgotten by the loop
\* (SetCurrentDistributedData), for any number of copies and any width of seqId: when no
\* loop runs the latest one was taken, unless it is a round of seqId away from the one
\* that was.
THEOREM NothingStranded == Spec => []NoEventStranded
<1>1. ASSUME Init PROVE MemoryInv
  <2>1. loop.pc = "none"
    BY <1>1 DEF Init, NoLoop
  <2>2. copies \in Event /\ waiting \subseteq 1..copies
    BY <1>1, BoundsAssumption DEF Init, Event
  <2>3. latestEvent \in 0..copies /\ currentEvent \in 0..copies
    BY <1>1 DEF Init
  <2>4. ~isRunning /\ isRunning \in BOOLEAN /\ latestData = 0 /\ currentEvent = latestEvent
    BY <1>1 DEF Init
  <2> QED
    BY <2>1, <2>2, <2>3, <2>4 DEF MemoryInv
<1>2. MemoryInv /\ [Next]_vars => MemoryInv'
  BY MemoryStep
<1>3. MemoryInv => NoEventStranded
  BY DEF MemoryInv, NoEventStranded
<1> QED
  BY <1>1, <1>2, <1>3, PTL DEF Spec

-----------------------------------------------------------------------------
(* The order of the published copies.                                      *)

Inner == [pc : {"take", "send", "ended"}, event : Nat, data : Nat]
Publication == [event : Nat, inTime : BOOLEAN]

\* Every event is registered at most once, and only registered ones are taken.
RegisteredOnce ==
  /\ copies \in Nat /\ waiting \subseteq 1..copies
  /\ registered \in Seq(1..copies)
  /\ \A a \in 1..Len(registered) : registered[a] \notin waiting
  /\ \A a, b \in 1..Len(registered) : registered[a] = registered[b] => a = b
  /\ latestEvent \in Nat
  /\ latestEvent = IF Len(registered) = 0 THEN 0 ELSE registered[Len(registered)]
  /\ latestData \in {0, latestEvent}
  /\ currentEvent \in Nat
  /\ currentEvent # 0 => \E a \in 1..Len(registered) : registered[a] = currentEvent

LoopTyped ==
  /\ loop \in [pc : {"none", "check", "wait"}, isNeedCheck : BOOLEAN, inner : Nat]
  /\ isRunning \in BOOLEAN /\ (isRunning <=> loop.pc # "none")
  /\ loop.pc = "wait" => loop.isNeedCheck /\ loop.inner \in 1..Len(inner)
  /\ inner \in Seq(Inner)
  /\ answered \subseteq 1..Len(inner)
  /\ \A i \in answered : inner[i].pc = "ended"

\* Only registered events are published, and some event was taken before.
PublishedTyped ==
  /\ published \in Seq(Publication)
  /\ \A i \in 1..Len(inner) : inner[i].pc = "send" =>
       currentEvent # 0 /\ \E a \in 1..Len(registered) : registered[a] = inner[i].data
  /\ \A j \in 1..Len(published) :
       currentEvent # 0 /\ \E a \in 1..Len(registered) : registered[a] = published[j].event

\* The j-th publication was made in time, of the event registered a-th.
PublishedAt(j, a) == published[j].inTime /\ published[j].event = registered[a]

\* What was published in time is not newer than what was taken last, by whatever thread.
TakenIsNewest ==
  \A j \in 1..Len(published), a, b \in 1..Len(registered) :
    PublishedAt(j, a) /\ currentEvent = registered[b] => a <= b

\* The loop is about to start its first thread, or waits for one that has not yet taken
\* the latest event.
BeforeTake ==
  \/ loop.pc = "check" /\ ~loop.isNeedCheck
  \/ loop.pc = "wait" /\ inner[loop.inner].pc = "take"

\* What it will take was not published in time before.
LatestIsFresh ==
  BeforeTake =>
    \A j \in 1..Len(published), a \in 1..Len(registered) : PublishedAt(j, a) => a < Len(registered)

\* What the thread the loop waits for is about to publish is newer than what was published
\* in time, and not newer than what was taken last.
NextIsNewer ==
  loop.pc = "wait" /\ inner[loop.inner].pc = "send" =>
    \A c \in 1..Len(registered) : registered[c] = inner[loop.inner].data =>
      /\ \A b \in 1..Len(registered) : currentEvent = registered[b] => c <= b
      /\ \A j \in 1..Len(published), a \in 1..Len(registered) : PublishedAt(j, a) => a < c

Ordered ==
  \A j, k \in 1..Len(published), a, b \in 1..Len(registered) :
    j < k /\ PublishedAt(j, a) /\ PublishedAt(k, b) => a < b

OrderInv ==
  RegisteredOnce /\ LoopTyped /\ PublishedTyped /\ TakenIsNewest /\ LatestIsFresh /\ NextIsNewer /\ Ordered

LEMMA OrderInit == Init => OrderInv
<1> SUFFICES ASSUME Init PROVE OrderInv
  OBVIOUS
<1>1. RegisteredOnce
  <2>1. copies \in Nat /\ waiting \subseteq 1..copies
    BY DEF Init
  <2>2. registered \in Seq(1..copies) /\ Len(registered) = 0
    BY DEF Init
  <2> QED
    BY <2>1, <2>2 DEF Init, RegisteredOnce
<1>2. LoopTyped
  <2>1. loop \in [pc : {"none", "check", "wait"}, isNeedCheck : BOOLEAN, inner : Nat] /\ loop.pc = "none"
    BY DEF Init, NoLoop
  <2>2. inner \in Seq(Inner) /\ answered = {} /\ isRunning = FALSE
    BY DEF Init
  <2> QED
    BY <2>1, <2>2 DEF LoopTyped
<1>3. Len(inner) = 0 /\ Len(published) = 0 /\ published \in Seq(Publication)
  BY DEF Init
<1>4. PublishedTyped /\ TakenIsNewest /\ LatestIsFresh /\ Ordered
  BY <1>3 DEF PublishedTyped, TakenIsNewest, LatestIsFresh, Ordered
<1>5. NextIsNewer
  BY DEF Init, NoLoop, NextIsNewer
<1> QED
  BY <1>1, <1>2, <1>4, <1>5 DEF OrderInv

\* A copy that is stamped and not registered changes nothing of the order.
LEMMA OrderCopies ==
  ASSUME OrderInv, copies' = copies + 1, waiting' \subseteq waiting \cup {copies + 1},
         UNCHANGED <<registered, memory, loop, inner, answered, published>>
  PROVE  OrderInv'
<1> USE DEF OrderInv, memory
<1>1. copies \in Nat /\ waiting \subseteq 1..copies /\ registered \in Seq(1..copies)
  BY DEF RegisteredOnce
<1>2. \A a \in 1..Len(registered) : registered[a] \in 1..copies
  BY <1>1, ElementOfSeq
<1>3. 1..copies \subseteq 1..(copies + 1) /\ copies + 1 \notin 1..copies
  BY <1>1
<1>4. registered' \in Seq(1..copies')
  BY <1>1, <1>3
<1>5. waiting' \subseteq 1..copies' /\ \A a \in 1..Len(registered) : registered[a] \notin waiting'
  BY <1>1, <1>2, <1>3 DEF RegisteredOnce
<1>6. RegisteredOnce'
  BY <1>1, <1>4, <1>5 DEF RegisteredOnce
<1>7. LoopTyped' /\ PublishedTyped'
  BY DEF LoopTyped, PublishedTyped
<1>8. TakenIsNewest' /\ LatestIsFresh' /\ NextIsNewer' /\ Ordered'
  BY DEF TakenIsNewest, LatestIsFresh, BeforeTake, NextIsNewer, Ordered, PublishedAt
<1> QED
  BY <1>6, <1>7, <1>8

\* Steps of the loop.
LEMMA OrderLoop ==
  ASSUME OrderInv, LoopStep \/ LoopTimesOut
  PROVE  OrderInv'
<1> USE DEF OrderInv, memory
<1>0. /\ UNCHANGED <<copies, waiting, registered, published, currentEvent, latestEvent>>
      /\ latestData' \in {0, latestData}
  BY DEF LoopStep, LoopStops, LoopStartsInner, LoopAnswered, LoopTimesOut
<1>1. RegisteredOnce'
  BY <1>0 DEF RegisteredOnce
<1>2. TakenIsNewest' /\ Ordered'
  BY <1>0 DEF TakenIsNewest, Ordered, PublishedAt
<1>3. CASE LoopStops
  <2>1. LoopTyped' /\ PublishedTyped'
    BY <1>0, <1>3 DEF LoopTyped, PublishedTyped, LoopStops, NoLoop
  <2>2. LatestIsFresh' /\ NextIsNewer'
    BY <1>3 DEF LoopStops, NoLoop, LatestIsFresh, BeforeTake, NextIsNewer
  <2> QED
    BY <1>1, <1>2, <2>1, <2>2
<1>4. CASE LoopStartsInner
  <2> DEFINE new == [pc |-> "take", event |-> 0, data |-> 0]
  <2>1. inner \in Seq(Inner) /\ new \in Inner /\ inner' = Append(inner, new) /\ Len(inner) \in Nat
    BY <1>4 DEF LoopStartsInner, LoopTyped, Inner
  <2> HIDE DEF new
  <2>2. /\ inner' \in Seq(Inner) /\ Len(inner') = Len(inner) + 1
        /\ \A i \in 1..Len(inner) : inner'[i] = inner[i]
        /\ inner'[Len(inner) + 1] = new
    BY <2>1, AppendProperties
  <2>3. new.pc = "take"
    BY DEF new
  <2>4. /\ loop.pc = "check" /\ ~NothingNewer
        /\ loop' = [pc |-> "wait", isNeedCheck |-> TRUE, inner |-> Len(inner) + 1]
        /\ UNCHANGED <<isRunning, answered>>
    BY <1>4 DEF LoopStartsInner
  <2>5. LoopTyped'
    BY <2>1, <2>2, <2>4 DEF LoopTyped
  <2>6. \A i \in 1..Len(inner') : i = Len(inner) + 1 \/ i \in 1..Len(inner)
    BY <2>1, <2>2
  <2>7. PublishedTyped'
    <3>1. \A i \in 1..Len(inner') : inner'[i].pc = "send" => i \in 1..Len(inner) /\ inner'[i] = inner[i]
      BY <2>2, <2>3, <2>6
    <3> QED
      BY <1>0, <3>1 DEF PublishedTyped
  <2>8. inner'[loop'.inner].pc = "take"
    BY <2>2, <2>3, <2>4
  <2>9. LatestIsFresh'
    <3> SUFFICES ASSUME NEW j \in 1..Len(published), NEW a \in 1..Len(registered), PublishedAt(j, a)
                 PROVE  a < Len(registered)
      BY <1>0 DEF LatestIsFresh, PublishedAt
    <3>1. CASE ~loop.isNeedCheck
      BY <2>4, <3>1 DEF LatestIsFresh, BeforeTake
    <3>2. CASE loop.isNeedCheck
      <4>1. currentEvent # latestEvent /\ Len(registered) \in Nat
        BY <2>4, <3>2 DEF NothingNewer, RegisteredOnce
      <4>2. PICK b \in 1..Len(registered) : registered[b] = currentEvent
        BY DEF PublishedTyped, RegisteredOnce
      <4>3. a <= b
        BY <4>2 DEF TakenIsNewest
      <4>4. b # Len(registered)
        BY <4>1, <4>2 DEF RegisteredOnce
      <4> QED
        BY <4>1, <4>2, <4>3, <4>4
    <3> QED
      BY <3>1, <3>2
  <2>10. NextIsNewer'
    BY <2>8 DEF NextIsNewer
  <2> QED
    BY <1>1, <1>2, <2>5, <2>7, <2>9, <2>10
<1>5. CASE LoopAnswered \/ LoopTimesOut
  <2>1. loop.pc = "wait" /\ UNCHANGED <<inner, answered, isRunning>>
        /\ loop' = [pc |-> "check", isNeedCheck |-> loop.isNeedCheck, inner |-> 0]
    BY <1>5 DEF LoopAnswered, LoopTimesOut
  <2>2. LoopTyped' /\ PublishedTyped'
    BY <1>0, <2>1 DEF LoopTyped, PublishedTyped
  <2>3. loop'.isNeedCheck /\ loop'.pc = "check"
    BY <2>1 DEF LoopTyped
  <2>4. LatestIsFresh' /\ NextIsNewer'
    BY <2>3 DEF LatestIsFresh, BeforeTake, NextIsNewer
  <2> QED
    BY <1>1, <1>2, <2>2, <2>4
<1> QED
  BY <1>3, <1>4, <1>5 DEF LoopStep

LEMMA OrderRegister ==
  ASSUME OrderInv, NEW e \in waiting, RegisterLatest(e)
  PROVE  OrderInv'
<1> USE DEF OrderInv
<1>1. /\ waiting' = waiting \ {e} /\ registered' = Append(registered, e)
      /\ latestEvent' = e /\ latestData' = e /\ isRunning' = TRUE
      /\ loop' = IF isRunning THEN loop ELSE [pc |-> "check", isNeedCheck |-> FALSE, inner |-> 0]
      /\ UNCHANGED <<copies, currentEvent, inner, answered, published>>
  BY DEF RegisterLatest
<1>2. copies \in Nat /\ e \in 1..copies /\ registered \in Seq(1..copies) /\ Len(registered) \in Nat
  BY DEF RegisteredOnce
<1> DEFINE n == Len(registered)
<1>3. /\ registered' \in Seq(1..copies) /\ Len(registered') = n + 1
      /\ \A a \in 1..n : registered'[a] = registered[a]
      /\ registered'[n + 1] = e
  BY <1>1, <1>2, AppendProperties
<1>4. \A a \in 1..n : registered[a] # e
  BY DEF RegisteredOnce
<1>5. \A a \in 1..(n + 1) : a \in 1..n \/ a = n + 1
  BY <1>2
<1>6. /\ currentEvent # e
      /\ \A j \in 1..Len(published) : published[j].event # e
      /\ \A i \in 1..Len(inner) : inner[i].pc = "send" => inner[i].data # e
  <2>1. e # 0
    BY <1>2
  <2>2. ASSUME currentEvent = e PROVE FALSE
    <3>1. \E a \in 1..n : registered[a] = e
      BY <2>1, <2>2 DEF RegisteredOnce
    <3> QED
      BY <1>4, <3>1
  <2>3. ASSUME NEW j \in 1..Len(published), published[j].event = e PROVE FALSE
    <3>1. \E a \in 1..n : registered[a] = e
      BY <2>3 DEF PublishedTyped
    <3> QED
      BY <1>4, <3>1
  <2>4. ASSUME NEW i \in 1..Len(inner), inner[i].pc = "send", inner[i].data = e PROVE FALSE
    <3>1. \E a \in 1..n : registered[a] = e
      BY <2>4 DEF PublishedTyped
    <3> QED
      BY <1>4, <3>1
  <2> QED
    BY <2>2, <2>3, <2>4
<1>7. \A a \in 1..(n + 1) : registered'[a] # e => a \in 1..n /\ registered'[a] = registered[a]
  BY <1>3, <1>5
<1>8. n \in Nat /\ 1..n \subseteq 1..(n + 1)
  BY <1>2
<1> HIDE DEF n
<1>9. RegisteredOnce'
  <2>1. \A a \in 1..Len(registered') : registered'[a] \notin waiting'
    <3> SUFFICES ASSUME NEW a \in 1..(n + 1) PROVE registered'[a] \notin waiting \ {e}
      BY <1>1, <1>3
    <3> QED
      BY <1>3, <1>5 DEF RegisteredOnce, n
  <2>2. ASSUME NEW a \in 1..Len(registered'), NEW b \in 1..Len(registered'), registered'[a] = registered'[b]
        PROVE  a = b
    <3>1. a \in 1..(n + 1) /\ b \in 1..(n + 1)
      BY <1>3
    <3>2. CASE a \in 1..n /\ b \in 1..n
      BY <1>3, <2>2, <3>2 DEF RegisteredOnce, n
    <3>3. CASE a = n + 1 \/ b = n + 1
      <4>1. registered'[a] = e /\ registered'[b] = e
        BY <1>3, <2>2, <3>3
      <4> QED
        BY <1>3, <1>4, <1>5, <3>1, <4>1
    <3> QED
      BY <1>5, <3>1, <3>2, <3>3
  <2>3. currentEvent # 0 => \E a \in 1..Len(registered') : registered'[a] = currentEvent
    BY <1>3, <1>8 DEF RegisteredOnce, n
  <2>4. Len(registered') # 0 /\ latestEvent' = registered'[Len(registered')] /\ e \in Nat
    BY <1>1, <1>2, <1>3, <1>8
  <2> QED
    BY <1>1, <1>3, <2>1, <2>2, <2>3, <2>4 DEF RegisteredOnce
<1>10. LoopTyped'
  <2>1. CASE isRunning
    BY <1>1, <2>1 DEF LoopTyped
  <2>2. CASE ~isRunning
    BY <1>1, <2>2 DEF LoopTyped
  <2> QED
    BY <2>1, <2>2 DEF LoopTyped
<1>11. PublishedTyped'
  <2>1. ASSUME NEW v, \E a \in 1..n : registered[a] = v
        PROVE  \E a \in 1..Len(registered') : registered'[a] = v
    BY <1>3, <1>8, <2>1
  <2> QED
    BY <1>1, <2>1 DEF PublishedTyped, n
<1>12. \A j \in 1..Len(published'), a \in 1..Len(registered') :
         PublishedAt(j, a)' => a \in 1..n /\ PublishedAt(j, a)
  BY <1>1, <1>3, <1>6, <1>7 DEF PublishedAt
<1>13. TakenIsNewest'
  <2>1. \A b \in 1..Len(registered') :
          currentEvent' = registered'[b] => b \in 1..n /\ currentEvent = registered[b]
    BY <1>1, <1>3, <1>6, <1>7
  <2> QED
    BY <1>1, <1>12, <2>1 DEF TakenIsNewest, n
<1>14. LatestIsFresh'
  <2>1. \A j \in 1..Len(published'), a \in 1..Len(registered') : PublishedAt(j, a)' => a < Len(registered')
    BY <1>3, <1>8, <1>12
  <2> QED
    BY <2>1 DEF LatestIsFresh
<1>15. NextIsNewer'
  <2> SUFFICES ASSUME loop'.pc = "wait", inner'[loop'.inner].pc = "send", NEW c \in 1..Len(registered'),
                      registered'[c] = inner'[loop'.inner].data
               PROVE  /\ \A b \in 1..Len(registered') : currentEvent' = registered'[b] => c <= b
                      /\ \A j \in 1..Len(published'), a \in 1..Len(registered') : PublishedAt(j, a)' => a < c
    BY DEF NextIsNewer
  <2>1. isRunning /\ loop' = loop /\ loop.inner \in 1..Len(inner)
    BY <1>1 DEF LoopTyped
  <2>2. c \in 1..n /\ registered[c] = inner[loop.inner].data
    BY <1>1, <1>3, <1>6, <1>7, <2>1
  <2>3. \A b \in 1..Len(registered') : currentEvent' = registered'[b] => c <= b
    BY <1>1, <1>3, <1>6, <1>7, <2>1, <2>2 DEF NextIsNewer, n
  <2>4. \A j \in 1..Len(published'), a \in 1..Len(registered') : PublishedAt(j, a)' => a < c
    BY <1>1, <1>12, <2>1, <2>2 DEF NextIsNewer, n
  <2> QED
    BY <2>3, <2>4
<1>16. Ordered'
  BY <1>1, <1>12 DEF Ordered, n
<1> QED
  BY <1>9, <1>10, <1>11, <1>13, <1>14, <1>15, <1>16

\* Ending thread i touches nothing but its own state.
LEMMA EndedInner ==
  ASSUME inner \in Seq(Inner), NEW i \in 1..Len(inner), inner' = [inner EXCEPT ![i].pc = "ended"]
  PROVE  /\ inner' \in Seq(Inner) /\ Len(inner') = Len(inner)
         /\ \A m \in 1..Len(inner) : /\ inner'[m].pc = IF m = i THEN "ended" ELSE inner[m].pc
                                     /\ inner'[m].data = inner[m].data
<1> DEFINE new == [inner[i] EXCEPT !.pc = "ended"]
<1>1. inner[i] \in Inner
  BY ElementOfSeq
<1>2. new \in Inner /\ new.pc = "ended" /\ new.data = inner[i].data
  BY <1>1 DEF Inner
<1>3. inner' = [inner EXCEPT ![i] = new]
  OBVIOUS
<1> HIDE DEF new
<1>4. /\ inner' \in Seq(Inner) /\ Len(inner') = Len(inner)
      /\ \A m \in 1..Len(inner) : inner'[m] = IF m = i THEN new ELSE inner[m]
  BY <1>2, <1>3
<1> QED
  BY <1>2, <1>4

\* A thread ends without publishing.
LEMMA OrderEnds ==
  ASSUME OrderInv, NEW i \in 1..Len(inner), Ends(i),
         UNCHANGED <<copies, waiting, registered, memory, loop, published>>
  PROVE  OrderInv'
<1> USE DEF OrderInv, memory
<1>1. inner \in Seq(Inner) /\ inner' = [inner EXCEPT ![i].pc = "ended"] /\ answered' = answered \cup {i}
  BY DEF Ends, LoopTyped
<1>2. /\ inner' \in Seq(Inner) /\ Len(inner') = Len(inner)
      /\ \A m \in 1..Len(inner) : /\ inner'[m].pc = IF m = i THEN "ended" ELSE inner[m].pc
                                  /\ inner'[m].data = inner[m].data
  BY <1>1, EndedInner
<1>3. RegisteredOnce'
  BY DEF RegisteredOnce
<1>4. LoopTyped' /\ PublishedTyped'
  BY <1>1, <1>2 DEF LoopTyped, PublishedTyped
<1>5. loop.pc = "wait" => loop.inner \in 1..Len(inner)
  BY DEF LoopTyped
<1>6. LatestIsFresh' /\ NextIsNewer'
  BY <1>2, <1>5 DEF LatestIsFresh, BeforeTake, NextIsNewer, PublishedAt
<1>7. TakenIsNewest' /\ Ordered'
  BY DEF TakenIsNewest, Ordered, PublishedAt
<1> QED
  BY <1>3, <1>4, <1>6, <1>7

LEMMA OrderTakes ==
  ASSUME OrderInv, NEW i \in 1..Len(inner), InnerTakes(i)
  PROVE  OrderInv'
<1> USE DEF OrderInv
<1> DEFINE new == [pc |-> "send", event |-> latestEvent, data |-> latestData]
<1>1. /\ inner \in Seq(Inner) /\ inner[i].pc = "take" /\ latestData # 0 /\ currentEvent' = latestEvent
      /\ inner' = [inner EXCEPT ![i] = new]
      /\ UNCHANGED <<copies, waiting, registered, latestEvent, latestData, isRunning, loop,
                     answered, published>>
  BY DEF InnerTakes, LoopTyped
<1>2. latestData = latestEvent /\ latestEvent \in Nat /\ new \in Inner
  BY <1>1 DEF RegisteredOnce, Inner
<1>3. new.pc = "send" /\ new.data = latestEvent
  BY <1>2
<1> HIDE DEF new
<1>4. /\ inner' \in Seq(Inner) /\ Len(inner') = Len(inner)
      /\ \A m \in 1..Len(inner) : inner'[m] = IF m = i THEN new ELSE inner[m]
  BY <1>1, <1>2
<1>5. /\ Len(registered) \in Nat /\ Len(registered) # 0 /\ registered[Len(registered)] = latestEvent
      /\ Len(registered) \in 1..Len(registered)
  BY <1>1, <1>2 DEF RegisteredOnce
<1>6. \E a \in 1..Len(registered) : registered[a] = latestEvent
  BY <1>5
<1>7. RegisteredOnce'
  BY <1>1, <1>2, <1>6 DEF RegisteredOnce
<1>8. LoopTyped'
  <2>1. i \notin answered
    BY <1>1 DEF LoopTyped
  <2> QED
    BY <1>1, <1>4, <2>1 DEF LoopTyped
<1>9. PublishedTyped'
  <2>1. currentEvent' # 0
    BY <1>1, <1>2
  <2> QED
    BY <1>1, <1>3, <1>4, <1>6, <2>1 DEF PublishedTyped
<1>10. \A b \in 1..Len(registered) : registered[b] = latestEvent => b = Len(registered)
  BY <1>5 DEF RegisteredOnce
<1>11. TakenIsNewest'
  BY <1>1, <1>5, <1>10 DEF TakenIsNewest, PublishedAt
<1>12. loop.pc = "wait" => loop.inner \in 1..Len(inner)
  BY DEF LoopTyped
<1>13. LatestIsFresh'
  <2>1. BeforeTake' => BeforeTake
    BY <1>1, <1>3, <1>4, <1>12 DEF BeforeTake
  <2> QED
    BY <1>1, <2>1 DEF LatestIsFresh, PublishedAt
<1>14. NextIsNewer'
  <2>1. CASE loop.pc = "wait" /\ loop.inner = i
    <3>1. BeforeTake
      BY <1>1, <2>1 DEF BeforeTake
    <3>2. inner'[loop'.inner].data = latestEvent
      BY <1>1, <1>3, <1>4, <2>1
    <3> QED
      BY <1>1, <1>5, <1>10, <3>1, <3>2 DEF NextIsNewer, LatestIsFresh, PublishedAt
  <2>2. CASE loop.pc = "wait" /\ loop.inner # i
    <3>1. inner'[loop'.inner] = inner[loop.inner]
      BY <1>1, <1>4, <1>12, <2>2
    <3> QED
      BY <1>1, <1>5, <1>10, <3>1 DEF NextIsNewer, PublishedAt
  <2>3. CASE loop.pc # "wait"
    BY <1>1, <2>3 DEF NextIsNewer
  <2> QED
    BY <2>1, <2>2, <2>3
<1>15. Ordered'
  BY <1>1 DEF Ordered, PublishedAt
<1> QED
  BY <1>7, <1>8, <1>9, <1>11, <1>13, <1>14, <1>15

LEMMA OrderPublishes ==
  ASSUME OrderInv, NEW i \in 1..Len(inner), InnerPublishes(i)
  PROVE  OrderInv'
<1> USE DEF OrderInv, memory
<1> DEFINE new == [event |-> inner[i].data, inTime |-> InTime(i)]
           x == inner[i].data
           n == Len(published)
<1>1. /\ inner \in Seq(Inner) /\ inner[i].pc = "send"
      /\ inner' = [inner EXCEPT ![i].pc = "ended"] /\ answered' = answered \cup {i}
      /\ published' = Append(published, new)
      /\ UNCHANGED <<copies, waiting, registered, memory, loop>>
  BY DEF InnerPublishes, Ends, LoopTyped
<1>2. /\ inner' \in Seq(Inner) /\ Len(inner') = Len(inner)
      /\ \A m \in 1..Len(inner) : /\ inner'[m].pc = IF m = i THEN "ended" ELSE inner[m].pc
                                  /\ inner'[m].data = inner[m].data
  BY <1>1, EndedInner
<1>3. /\ new \in Publication /\ new.event = x /\ new.inTime = InTime(i)
      /\ published \in Seq(Publication) /\ n \in Nat
  <2>1. inner[i] \in Inner
    BY <1>1, ElementOfSeq
  <2> QED
    BY <2>1 DEF Inner, Publication, InTime, PublishedTyped
<1> HIDE DEF new
<1>4. /\ published' \in Seq(Publication) /\ Len(published') = n + 1
      /\ \A j \in 1..n : published'[j] = published[j]
      /\ published'[n + 1] = new
  BY <1>1, <1>3, AppendProperties
<1>5. \A j \in 1..(n + 1) : j \in 1..n \/ j = n + 1
  BY <1>3
<1> HIDE DEF x, n
<1>6. RegisteredOnce'
  BY <1>1 DEF RegisteredOnce
<1>7. LoopTyped'
  BY <1>1, <1>2 DEF LoopTyped
<1>8. PublishedTyped'
  <2>1. currentEvent # 0 /\ \E a \in 1..Len(registered) : registered[a] = x
    BY <1>1 DEF PublishedTyped, x
  <2>2. \A j \in 1..Len(published') : \E a \in 1..Len(registered) : registered[a] = published'[j].event
    BY <1>3, <1>4, <1>5, <2>1 DEF PublishedTyped, n
  <2> QED
    BY <1>1, <1>2, <1>4, <2>1, <2>2 DEF PublishedTyped
<1>9. \A j \in 1..n, a \in 1..Len(registered) : PublishedAt(j, a)' => PublishedAt(j, a)
  BY <1>1, <1>4 DEF PublishedAt
<1>10. \A j \in 1..(n + 1), a \in 1..Len(registered) :
         j = n + 1 /\ PublishedAt(j, a)' => registered[a] = x /\ InTime(i)
  BY <1>1, <1>3, <1>4 DEF PublishedAt
<1>11. \A a \in 1..Len(registered) : a \in Int
  BY DEF RegisteredOnce
\* What is published now in time is newer than all that was, and taken.
<1>12. ASSUME InTime(i), NEW c \in 1..Len(registered), registered[c] = x
       PROVE  /\ \A b \in 1..Len(registered) : currentEvent = registered[b] => c <= b
              /\ \A j \in 1..n, a \in 1..Len(registered) : PublishedAt(j, a) => a < c
  BY <1>1, <1>12 DEF InTime, NextIsNewer, x, n
<1>13. TakenIsNewest'
  <2> SUFFICES ASSUME NEW j \in 1..(n + 1), NEW a \in 1..Len(registered), NEW b \in 1..Len(registered),
                      PublishedAt(j, a)', currentEvent = registered[b]
               PROVE  a <= b
    BY <1>1, <1>4 DEF TakenIsNewest
  <2>1. CASE j \in 1..n
    BY <1>9, <2>1 DEF TakenIsNewest, n
  <2>2. CASE j = n + 1
    BY <1>10, <1>12, <2>2
  <2> QED
    BY <1>5, <2>1, <2>2
<1>14. LatestIsFresh' /\ NextIsNewer'
  <2>1. CASE InTime(i)
    <3>1. loop'.pc = "wait" /\ inner'[loop'.inner].pc = "ended"
      BY <1>1, <1>2, <2>1 DEF InTime
    <3> QED
      BY <3>1 DEF LatestIsFresh, BeforeTake, NextIsNewer
  <2>2. CASE ~InTime(i)
    <3>1. \A j \in 1..Len(published'), a \in 1..Len(registered) : PublishedAt(j, a)' => j \in 1..n /\ PublishedAt(j, a)
      BY <1>4, <1>5, <1>9, <1>10, <2>2
    <3>2. loop.pc = "wait" => loop.inner \in 1..Len(inner) /\ loop.inner # i
      BY <2>2 DEF InTime, LoopTyped
    <3>3. loop.pc = "wait" => /\ inner'[loop'.inner].pc = inner[loop.inner].pc
                              /\ inner'[loop'.inner].data = inner[loop.inner].data
      BY <1>1, <1>2, <3>2
    <3>4. LatestIsFresh'
      BY <1>1, <3>1, <3>3 DEF LatestIsFresh, BeforeTake, n
    <3>5. NextIsNewer'
      BY <1>1, <3>1, <3>3 DEF NextIsNewer, n
    <3> QED
      BY <3>4, <3>5
  <2> QED
    BY <2>1, <2>2
<1>15. Ordered'
  <2> SUFFICES ASSUME NEW j \in 1..(n + 1), NEW k \in 1..(n + 1),
                      NEW a \in 1..Len(registered), NEW b \in 1..Len(registered),
                      j < k, PublishedAt(j, a)', PublishedAt(k, b)'
               PROVE  a < b
    BY <1>1, <1>4 DEF Ordered
  <2>1. j \in 1..n /\ PublishedAt(j, a)
    BY <1>3, <1>9 DEF n
  <2>2. CASE k \in 1..n
    BY <1>9, <2>1, <2>2 DEF Ordered, n
  <2>3. CASE k = n + 1
    BY <1>10, <1>12, <2>1, <2>3
  <2> QED
    BY <1>5, <2>2, <2>3
<1> QED
  BY <1>6, <1>7, <1>8, <1>13, <1>14, <1>15

LEMMA OrderStep == OrderInv /\ [Next]_vars => OrderInv'
<1> SUFFICES ASSUME OrderInv, [Next]_vars PROVE OrderInv'
  OBVIOUS
<1>1. CASE SetDistributedData \/ CopyStaysLocal
  <2>1. /\ copies' = copies + 1 /\ waiting' \subseteq waiting \cup {copies + 1}
        /\ UNCHANGED <<registered, memory, loop, inner, answered, published>>
    BY <1>1 DEF SetDistributedData, CopyStaysLocal
  <2> QED
    BY <2>1, OrderCopies
<1>2. ASSUME NEW e \in waiting, RegisterLatest(e) PROVE OrderInv'
  BY <1>2, OrderRegister
<1>3. CASE LoopStep \/ LoopTimesOut
  BY <1>3, OrderLoop
<1>4. ASSUME NEW i \in DOMAIN inner, InnerStep(i) PROVE OrderInv'
  <2>1. i \in 1..Len(inner)
    BY DEF OrderInv, LoopTyped
  <2>2. CASE InnerFindsNothing(i) \/ InnerFails(i)
    <3>1. Ends(i) /\ UNCHANGED <<copies, waiting, registered, memory, loop, published>>
      BY <2>2 DEF InnerFindsNothing, InnerFails
    <3> QED
      BY <2>1, <3>1, OrderEnds
  <2> QED
    BY <1>4, <2>1, <2>2, OrderTakes, OrderPublishes DEF InnerStep
<1>5. CASE UNCHANGED vars
  <2>1. RegisteredOnce' /\ LoopTyped' /\ PublishedTyped'
    BY <1>5 DEF vars, memory, OrderInv, RegisteredOnce, LoopTyped, PublishedTyped
  <2>2. TakenIsNewest' /\ LatestIsFresh' /\ NextIsNewer' /\ Ordered'
    BY <1>5 DEF vars, memory, OrderInv, TakenIsNewest, LatestIsFresh, BeforeTake, NextIsNewer, Ordered, PublishedAt
  <2> QED
    BY <2>1, <2>2 DEF OrderInv
<1> QED
  BY <1>1, <1>2, <1>3, <1>4, <1>5 DEF Next

LEMMA OrderMeansPositions == OrderInv => PublishedInOrder
<1> SUFFICES ASSUME OrderInv, NEW j \in DOMAIN published, NEW k \in DOMAIN published, j < k,
                    published[j].inTime, published[k].inTime
             PROVE  Position(published[j].event) < Position(published[k].event)
  BY DEF PublishedInOrder
<1>1. j \in 1..Len(published) /\ k \in 1..Len(published) /\ DOMAIN registered = 1..Len(registered)
  BY DEF OrderInv, RegisteredOnce, PublishedTyped
<1>2. PICK a \in 1..Len(registered) : registered[a] = published[j].event
  BY <1>1 DEF OrderInv, PublishedTyped
<1>3. PICK b \in 1..Len(registered) : registered[b] = published[k].event
  BY <1>1 DEF OrderInv, PublishedTyped
<1>4. \A c, d \in 1..Len(registered) : registered[c] = registered[d] => c = d
  BY DEF OrderInv, RegisteredOnce
<1>5. Position(published[j].event) = a
  BY <1>1, <1>2, <1>4 DEF Position
<1>6. Position(published[k].event) = b
  BY <1>1, <1>3, <1>4 DEF Position
<1>7. a < b
  BY <1>1, <1>2, <1>3 DEF OrderInv, Ordered, PublishedAt
<1> QED
  BY <1>5, <1>6, <1>7

\* What is handed to the plugin within its interval comes in the order in which the copies
\* were registered (SetCurrentDistributedData, SetCurrentData), each copy at most once: for
\* any number of copies and of overrun intervals, whenever the overrun threads go on, and
\* also when sequence numbers wrap.
THEOREM InOrder == Spec => []PublishedInOrder
  BY OrderInit, OrderStep, OrderMeansPositions, PTL DEF Spec

=============================================================================
