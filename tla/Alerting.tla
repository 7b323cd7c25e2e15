------------------------------ MODULE Alerting ------------------------------
(***************************************************************************)
(* Alerts on blockchain events (src/src/modules/notifications/services):   *)
(* deduplication, rules, throttle and the counters of analytics.  The      *)
(* Redis subscriber starts a handler for each message without waiting for  *)
(* the one before, so handlers interleave at every Redis call.  One rule   *)
(* and one destination account: each pair has throttle keys of its own.    *)
(***************************************************************************)
EXTENDS Integers, FiniteSets

CONSTANTS
    AlertEvents,   \* the events of the stream: id, type, amount and the hash of
                   \* the fields generateEventFingerprint looks at
    Handlers,      \* handlers that may run at the same time
    MAX_PER_HOUR, MAX_PER_DAY,
    MaxMessages,   \* bound on messages
    MaxTicks,      \* bound on the hours that pass
    MaxAlertErrors \* bound on Redis errors

VARIABLES
    exactKeys,     \* events with a live dedupe key
    similarKeys,   \* fingerprints with a live dedupe key
    cooling,       \* the last alert is younger than the cooldown
    hourCount, dayCount,
    handlers,      \* what each running handler does next
    alerted,       \* history: alerts of each event in its dedupe window
    cooled,        \* history: alerts since the cooldown last ended
    messages, ticks, alertErrors,
    alertStats     \* the counters analytics keeps

vars == <<exactKeys, similarKeys, cooling, hourCount, dayCount, handlers, alerted, cooled,
          messages, ticks, alertErrors, alertStats>>

\* The rule "Large Value Transfer": payments above a threshold (10000 in the
\* code).  Rules are about different event types: no event matches two.
LargeTransfer == [type |-> "payment", above |-> 1]

\* evaluateConditions: AND over "equals" and "greater_than".
Triggers(e) == e.type = LargeTransfer.type /\ e.amount > LargeTransfer.above

Metrics == {"processed", "deduplicated", "throttled", "errors"}

TypeOK ==
    /\ exactKeys \subseteq AlertEvents
    /\ hourCount \in Nat /\ dayCount \in Nat
    /\ alertStats \in [Metrics -> 0 .. MaxMessages]

Free == [pc |-> "free"]
Goto(h, pc) == handlers' = [handlers EXCEPT ![h].pc = pc]
Done(h, metric) ==
    /\ handlers' = [handlers EXCEPT ![h] = Free]
    /\ alertStats' = [alertStats EXCEPT ![metric] = @ + 1]

throttleVars == <<cooling, hourCount, dayCount, cooled, alerted>>
dedupeVars == <<exactKeys, similarKeys>>
boundVars == <<messages, ticks, alertErrors>>

Init ==
    /\ exactKeys = {} /\ similarKeys = {}
    /\ cooling = FALSE /\ hourCount = 0 /\ dayCount = 0
    /\ handlers = [h \in Handlers |-> Free]
    /\ alerted = [e \in AlertEvents |-> 0] /\ cooled = 0
    /\ messages = 0 /\ ticks = 0 /\ alertErrors = 0
    /\ alertStats = [m \in Metrics |-> 0]

\* A message arrives; the poller publishes an event again after a restart.
HandleEvent(h, e) ==
    /\ handlers[h].pc = "free" /\ messages < MaxMessages
    /\ messages' = messages + 1
    /\ handlers' = [handlers EXCEPT ![h] = [pc |-> "exact", event |-> e]]
    /\ UNCHANGED <<dedupeVars, throttleVars, ticks, alertErrors, alertStats>>

IsExactDuplicate(h) ==
    /\ handlers[h].pc = "exact"
    /\ IF handlers[h].event \in exactKeys
       THEN Done(h, "deduplicated")
       ELSE Goto(h, "similar") /\ UNCHANGED alertStats
    /\ UNCHANGED <<dedupeVars, throttleVars, boundVars>>

IsSimilarDuplicate(h) ==
    /\ handlers[h].pc = "similar"
    /\ IF handlers[h].event.print \in similarKeys
       THEN Done(h, "deduplicated")
       ELSE Goto(h, "record") /\ UNCHANGED alertStats
    /\ UNCHANGED <<dedupeVars, throttleVars, boundVars>>

\* recordEvent, then the rules, which need no Redis.
RecordEvent(h) ==
    LET e == handlers[h].event IN
    /\ handlers[h].pc = "record"
    /\ exactKeys' = exactKeys \cup {e}
    /\ similarKeys' = similarKeys \cup {e.print}
    /\ IF Triggers(e)
       THEN Goto(h, "cooldown") /\ UNCHANGED alertStats
       ELSE Done(h, "processed")
    /\ UNCHANGED <<throttleVars, boundVars>>

\* A throttled alert: the event still counts as processed.
Throttle(h) ==
    /\ handlers' = [handlers EXCEPT ![h] = Free]
    /\ alertStats' = [alertStats EXCEPT !["throttled"] = @ + 1, !["processed"] = @ + 1]

IsInCooldown(h) ==
    /\ handlers[h].pc = "cooldown"
    /\ IF cooling THEN Throttle(h) ELSE Goto(h, "hourly") /\ UNCHANGED alertStats
    /\ UNCHANGED <<dedupeVars, throttleVars, boundVars>>

ExceedsHourlyLimit(h) ==
    /\ handlers[h].pc = "hourly"
    /\ IF hourCount >= MAX_PER_HOUR THEN Throttle(h) ELSE Goto(h, "daily") /\ UNCHANGED alertStats
    /\ UNCHANGED <<dedupeVars, throttleVars, boundVars>>

ExceedsDailyLimit(h) ==
    /\ handlers[h].pc = "daily"
    /\ IF dayCount >= MAX_PER_DAY THEN Throttle(h) ELSE Goto(h, "last") /\ UNCHANGED alertStats
    /\ UNCHANGED <<dedupeVars, throttleVars, boundVars>>

\* recordNotificationSent: first the time of the alert ...
RecordLast(h) ==
    /\ handlers[h].pc = "last"
    /\ cooling' = TRUE
    /\ Goto(h, "count")
    /\ UNCHANGED <<dedupeVars, hourCount, dayCount, cooled, alerted, boundVars, alertStats>>

\* Mutant: the handler does not end, and sends its alert again.
RecordAndRepeat(h) ==
    /\ handlers[h].pc = "count"
    /\ hourCount' = hourCount + 1 /\ dayCount' = dayCount + 1
    /\ cooled' = cooled + 1
    /\ alerted' = [alerted EXCEPT ![handlers[h].event] = @ + 1]
    /\ Goto(h, "last") /\ UNCHANGED alertStats
    /\ UNCHANGED <<dedupeVars, cooling, boundVars>>

\* ... then the two counters; the alert is sent.
RecordCounts(h) ==
    /\ handlers[h].pc = "count"
    /\ hourCount' = hourCount + 1 /\ dayCount' = dayCount + 1
    /\ cooled' = cooled + 1
    /\ alerted' = [alerted EXCEPT ![handlers[h].event] = @ + 1]
    /\ Done(h, "processed")
    /\ UNCHANGED <<dedupeVars, cooling, boundVars>>

\* A Redis call fails: the error is counted and the event is given up.
ProcessingError(h) ==
    /\ handlers[h].pc # "free" /\ alertErrors < MaxAlertErrors
    /\ alertErrors' = alertErrors + 1
    /\ Done(h, "errors")
    /\ UNCHANGED <<dedupeVars, throttleVars, messages, ticks>>

\* Time: the cooldown ends, or an hour passes and with it the dedupe windows,
\* the cooldown and the hourly key; no handler takes that long.
CooldownEnds ==
    /\ cooling /\ \A h \in Handlers : handlers[h].pc \notin {"last", "count"}
    /\ cooling' = FALSE /\ cooled' = 0
    /\ UNCHANGED <<dedupeVars, hourCount, dayCount, alerted, handlers, boundVars, alertStats>>

HourEnds ==
    /\ ticks < MaxTicks
    /\ ticks' = ticks + 1
    /\ \A h \in Handlers : handlers[h].pc = "free"
    /\ exactKeys' = {} /\ similarKeys' = {} /\ alerted' = [e \in AlertEvents |-> 0]
    /\ cooling' = FALSE /\ cooled' = 0 /\ hourCount' = 0
    /\ UNCHANGED <<dayCount, handlers, messages, alertErrors, alertStats>>

Next ==
    \/ \E h \in Handlers :
        \/ \E e \in AlertEvents : HandleEvent(h, e)
        \/ IsExactDuplicate(h) \/ IsSimilarDuplicate(h) \/ RecordEvent(h)
        \/ IsInCooldown(h) \/ ExceedsHourlyLimit(h) \/ ExceedsDailyLimit(h)
        \/ RecordLast(h) \/ RecordCounts(h)
        \/ ProcessingError(h)
    \/ CooldownEnds \/ HourEnds

Spec == Init /\ [][Next]_vars

-----------------------------------------------------------------------------
Over == Cardinality(Handlers) - 1

\* The checks are not atomic with the counts, so handlers that run together can
\* pass a limit together, but the excess is never more than the other handlers:
\* this bounds alerts per hour, per day, per cooldown and per event in its
\* dedupe window (isDuplicate, shouldSendNotification).
AlertsAreBounded ==
    /\ hourCount <= MAX_PER_HOUR + Over
    /\ dayCount <= MAX_PER_DAY + Over
    /\ cooled <= 1 + Over
    /\ \A e \in AlertEvents : alerted[e] <= 1 + Over
=============================================================================
