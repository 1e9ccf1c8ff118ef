----------------------------- MODULE UseReports -----------------------------
(***************************************************************************)
(* How copies and pastes are counted and reported once a day               *)
(* (hiview_adapter.cpp, calculate_time_consuming.cpp, and the calls in     *)
(* pasteboard_service.cpp).  Uses overlap: each counts its application     *)
(* under one lock and its duration under another, and the daily thread     *)
(* reports and empties the tables in between.                              *)
(***************************************************************************)
EXTENDS Integers, FiniteSets, FiniteSetsExt, Sequences, Bags

CONSTANTS Bundles, TextSizes,        \* applications; sizes of the text of a clip
          TOTAL_APP_NUMBERS,         \* applications in a report
          Ticks, MaxTime,            \* steps of the clock in ms
          MaxUses, MaxUsers, MaxReports

ASSUME ReportsAssumption ==
    /\ TextSizes \subseteq Nat /\ Ticks \subseteq Nat
    /\ {TOTAL_APP_NUMBERS, MaxTime, MaxUses, MaxUsers, MaxReports} \subseteq Nat

VARIABLES
    clock, lastTime_,  \* GetCurrentTimeMicros; CalculateTimeConsuming::lastTime_, shared by all
    uses, made,        \* the copy or paste each thread is at and how far it has got; their number
    counted, measured, \* history: uses counted, per operation; durations measured
    behaviour,         \* the three ...PasteboardBehaviour_ tables
    timeStat,          \* the three ...TimeConsumingStat_ tables: how often each cell was met
    daily,             \* the daily thread
    reports,           \* what ReportBehaviour has written: those in the report, those beyond it
    timesTold          \* what ReportStatisticEvent has written

reportsVars == <<clock, lastTime_, uses, made, counted, measured, behaviour, timeStat, daily, reports, timesTold>>

Ops == {"copy", "paste", "remotePaste"}
Idle == [at |-> "idle"]
NoCounts == [op \in Ops |-> EmptyBag]

ReportsInit ==
    /\ clock = 0 /\ lastTime_ = 0 /\ uses = [t \in 1..MaxUsers |-> Idle] /\ made = 0
    /\ counted = NoCounts /\ measured = EmptyBag
    /\ behaviour = NoCounts /\ timeStat = NoCounts
    /\ daily = "off" /\ reports = {} /\ timesTold = NoCounts

-----------------------------------------------------------------------------
(* A use.                                                                  *)

Is(u, place) == uses[u].at = place
Moves(u, place) == uses' = [uses EXCEPT ![u].at = place]

\* SaveData and GetData: when they begin; setting_ keeps copies apart.
SetBeginTime(u, op, bundle) ==
    /\ Is(u, "idle") /\ made < MaxUses /\ made' = made + 1
    /\ op = "copy" => "copy" \notin {uses[t].op : t \in {t \in DOMAIN uses : uses[t].at # "idle"}}
    /\ uses' = [uses EXCEPT ![u] = [op |-> op, bundle |-> bundle, at |-> "begun", end |-> 0]]
    /\ lastTime_' = clock
    /\ UNCHANGED <<clock, counted, measured, behaviour, timeStat, daily, reports, timesTold>>

\* An operation that is refused or fails is not counted.
Fails(u) ==
    /\ Is(u, "begun") /\ uses' = [uses EXCEPT ![u] = Idle]
    /\ UNCHANGED <<clock, lastTime_, made, counted, measured, behaviour, timeStat, daily, reports, timesTold>>

ReportPasteboardBehaviour(u) ==
    /\ Is(u, "begun") /\ Moves(u, "counted")
    /\ behaviour' = [behaviour EXCEPT ![uses[u].op] = @ (+) SetToBag({uses[u].bundle})]
    /\ counted' = [counted EXCEPT ![uses[u].op] = @ (+) SetToBag({uses[u].bundle})]
    /\ UNCHANGED <<clock, lastTime_, made, measured, timeStat, daily, reports, timesTold>>

\* The constructor, called when the work is over, forgets when it began.
CalculateTimeConsuming(u) ==
    /\ Is(u, "counted") /\ Moves(u, "timed")
    /\ lastTime_' = 0
    /\ UNCHANGED <<clock, made, counted, measured, behaviour, timeStat, daily, reports, timesTold>>

\* The destructor reads the clock, compares it with lastTime_ and then reads lastTime_ again.
EndTime(u) ==
    /\ Is(u, "timed")
    /\ uses' = [uses EXCEPT ![u].at = "ended", ![u].end = clock]
    /\ UNCHANGED <<clock, lastTime_, made, counted, measured, behaviour, timeStat, daily, reports, timesTold>>

CompareTimes(u) ==
    /\ Is(u, "ended")
    /\ uses' = [uses EXCEPT ![u] = IF @.end < lastTime_ THEN Idle ELSE [@ EXCEPT !.at = "measured"]]
    /\ UNCHANGED <<clock, lastTime_, made, counted, measured, behaviour, timeStat, daily, reports, timesTold>>

\* Levels are taken from remainders, not from quotients.
CalculateData(size) ==
    LET kb == size % 1024
        Level(bounds, n) == Cardinality({b \in bounds : b <= n})
    IN IF kb = 0 THEN Level({100, 500}, size) ELSE 3 + Level({5, 10, 50}, kb)

\* The difference is unsigned: 2^64 leaves 116 when divided by 500.
CalculateTime(end, begin) ==
    LET rest == IF end >= begin THEN (end - begin) % 500 ELSE (116 + end - begin) % 500
    IN  IF rest <= 9 THEN rest ELSE 10

\* dataMap_ and timeMap_: levels by the names the events give them, in the same order.
InitDataMap == [level \in 0..6 |-> level]
InitTimeMap == [level \in 0..10 |-> level]

\* A table that is missing is first filled with zeros.
ReportTimeConsumingStatistic(u, size) ==
    /\ Is(u, "measured") /\ uses' = [uses EXCEPT ![u] = Idle]
    /\ measured' = measured (+) SetToBag({uses[u].op})
    /\ LET cell == <<InitDataMap[CalculateData(size)], InitTimeMap[CalculateTime(uses[u].end, lastTime_)]>>
       IN timeStat' = [timeStat EXCEPT ![uses[u].op] = @ (+) SetToBag({cell})]
    /\ UNCHANGED <<clock, lastTime_, made, counted, behaviour, daily, reports, timesTold>>

\* SetPasteDataDot and GetPasteDataDot: the history kept for dumps is left out.
Dot(u) ==
    \/ ReportPasteboardBehaviour(u) \/ CalculateTimeConsuming(u) \/ EndTime(u) \/ CompareTimes(u)
    \/ \E size \in TextSizes : ReportTimeConsumingStatistic(u, size)

-----------------------------------------------------------------------------
(* The daily thread.                                                       *)

\* OnStart; once per process.
StartTimerThread ==
    /\ daily = "off" /\ daily' = "asleep"
    /\ UNCHANGED <<clock, lastTime_, uses, made, counted, measured, behaviour, timeStat, reports, timesTold>>

\* The most used applications; std::sort leaves the order of equals open.
Tops(table) ==
    LET n == IF Cardinality(DOMAIN table) < TOTAL_APP_NUMBERS THEN Cardinality(DOMAIN table)
             ELSE TOTAL_APP_NUMBERS
    IN {top \in SUBSET DOMAIN table :
          Cardinality(top) = n /\ \A b \in top, c \in DOMAIN table \ top : table[b] >= table[c]}

ReportBehaviour(op) ==
    {[op |-> op, day |-> Cardinality(reports), top |-> [b \in top |-> behaviour[op][b]],
      left |-> [b \in DOMAIN behaviour[op] \ top |-> behaviour[op][b]]] : top \in Tops(behaviour[op])}

\* Three tables, one lock.
Invoke(emptied) ==
    /\ daily = "asleep" /\ daily' = "between"
    /\ Cardinality(reports) < MaxReports
    /\ \E told \in {f \in [Ops -> UNION {ReportBehaviour(op) : op \in Ops}] :
                      \A op \in Ops : f[op] \in ReportBehaviour(op)} :
          reports' = reports \cup {told[op] : op \in {p \in Ops : DOMAIN behaviour[p] # {}}}
    /\ behaviour' = [op \in Ops |-> IF op \in emptied THEN EmptyBag ELSE behaviour[op]]
    /\ UNCHANGED <<clock, lastTime_, uses, made, counted, measured, timeStat, timesTold>>

\* Mutant: the table of remote pastes is not emptied.
InvokeKeepsRemote == Invoke({"copy", "paste"})

InvokePasteBoardBehaviour == Invoke(Ops)

ReportStatisticEvent(op) == timesTold[op] (+) timeStat[op]

InvokeTimeConsuming ==
    /\ daily = "between" /\ daily' = "asleep"
    /\ timesTold' = [op \in Ops |-> ReportStatisticEvent(op)]
    /\ timeStat' = NoCounts
    /\ UNCHANGED <<clock, lastTime_, uses, made, counted, measured, behaviour, reports>>

GetCurrentTimeMicros ==
    /\ \E t \in Ticks : clock + t <= MaxTime /\ clock' = clock + t
    /\ UNCHANGED <<lastTime_, uses, made, counted, measured, behaviour, timeStat, daily, reports, timesTold>>

ReportsNext ==
    \/ \E u \in DOMAIN uses :
          \/ \E op \in Ops, b \in Bundles : SetBeginTime(u, op, b)
          \/ Fails(u) \/ Dot(u)
    \/ StartTimerThread \/ InvokePasteBoardBehaviour \/ InvokeTimeConsuming
    \/ GetCurrentTimeMicros

-----------------------------------------------------------------------------
Told(op, b, r) == IF r.op = op THEN CopiesIn(b, r.top) + CopiesIn(b, r.left) ELSE 0

\* However the uses and the daily thread interleave, each use is counted for its application
\* once, in one report or in the table for the next; an application beyond the report's end
\* was used no more than those in it; and each duration is told once or waits in its table.
ReportsAddUp ==
    /\ \A op \in Ops, b \in Bundles :
          CopiesIn(b, counted[op])
            = CopiesIn(b, behaviour[op]) + MapThenSumSet(LAMBDA r : Told(op, b, r), reports)
    /\ \A r \in reports : \A b \in DOMAIN r.left :
          /\ Cardinality(DOMAIN r.top) = TOTAL_APP_NUMBERS
          /\ \A c \in DOMAIN r.top : r.top[c] >= r.left[b]
    /\ \A op \in Ops :
          CopiesIn(op, measured) = BagCardinality(timesTold[op]) + BagCardinality(timeStat[op])

=============================================================================
