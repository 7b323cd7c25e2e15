----------------------------- MODULE MCServices -----------------------------
(***************************************************************************)
(* The services behind the requests: disputes, marketplace orders, alerts, *)
(* contract versions, scheduled reports, event streams, the analytics      *)
(* pipeline, the plan of a batch and the recovery from a reorganization.   *)
(* They share no state; part is the one a behaviour is about, and the      *)
(* others keep their initial state.                                        *)
(***************************************************************************)
EXTENDS Integers, Sequences, FiniteSets, TLC

CONSTANTS Parties, Arbitrators, Experts, Generalists, MAX_ACTIVE, MAX_PER_MONTH,
          DisputeCallers, MaxDisputes, MaxDecisions, MaxDisputeFaults
VARIABLES disputes, loads, paid, owed, decided, appeals, disputeCalls, disputesOverlap,
          disputeFaults
disputeVars ==
    <<disputes, loads, paid, owed, decided, appeals, disputeCalls, disputesOverlap,
      disputeFaults>>
D == INSTANCE Disputes

\* "none" is the arbitrator of a dispute that has none.
ASSUME DisputeAssumption ==
    /\ IsFiniteSet(DisputeCallers) /\ "none" \notin Arbitrators
    /\ MAX_ACTIVE \in Nat /\ MaxDisputes \in Nat

CONSTANTS OrderIds, Prices, Offers, Cancellers, MaxMoves, MaxJobs
VARIABLES listing, marketOrders, market, job, cancels, seen, cancelled, overtaken, moves,
          jobs
orderVars ==
    <<listing, marketOrders, market, job, cancels, seen, cancelled, overtaken, moves, jobs>>
O == INSTANCE Marketplace

ASSUME OrderAssumption ==
    /\ Prices \subseteq Nat
    /\ Offers \subseteq [type : {"limit", "stop_loss", "trailing_stop", "market"},
                        side : {"buy", "sell"}, price : Nat, stop : Nat]

CONSTANTS AlertEvents, Handlers, MAX_PER_HOUR, MAX_PER_DAY, MaxMessages, MaxTicks,
          MaxAlertErrors
VARIABLES exactKeys, similarKeys, cooling, hourCount, dayCount, handlers, alerted, cooled,
          messages, ticks, alertErrors, alertStats
alertVars ==
    <<exactKeys, similarKeys, cooling, hourCount, dayCount, handlers, alerted, cooled,
      messages, ticks, alertErrors, alertStats>>
A == INSTANCE Alerting

ASSUME AlertAssumption ==
    /\ IsFiniteSet(Handlers) /\ Handlers # {}
    /\ MAX_PER_HOUR \in Nat /\ MAX_PER_DAY \in Nat /\ MaxMessages \in Nat

CONSTANTS Contracts, Kinds, Upgraders, MaxRegistrations
VARIABLES registry, typeIndex, stateful, cached, onChain, upgrades, registrations, live,
          retyped
contractVars ==
    <<registry, typeIndex, stateful, cached, onChain, upgrades, registrations, live,
      retyped>>
C == INSTANCE ContractRegistry

\* "none" is the type of an id that is not registered.
ASSUME ContractAssumption == "none" \notin Kinds

CONSTANTS StartDays, MaxScheduleChanges, MaxRuns, MaxReportFaults
VARIABLES today, report, request, runner, delivered, scheduleChanges, reportRuns,
          reportFaults, reportsCrossed
reportVars ==
    <<today, report, request, runner, delivered, scheduleChanges, reportRuns,
      reportFaults, reportsCrossed>>
R == INSTANCE ScheduledReports

\* The calendar has a month after any run of its first two years.
ASSUME ReportAssumption == StartDays \subseteq 0 .. (R!FirstOf(24) - 1)

CONSTANTS Clients, EventTypes, BUFFER_MAX, MaxSubscriptions, MaxEvents, MaxPerTransaction
VARIABLES connected, subscriptions, clientIndex, numbered, received, since, evicted
streamVars == <<connected, subscriptions, clientIndex, numbered, received, since, evicted>>
F == INSTANCE EventFanout

\* The buffer holds an event.
ASSUME StreamAssumption == BUFFER_MAX \in Nat \ {0} /\ MaxEvents \in Nat

CONSTANTS UNITS, CUTOFF, MaxPipelineJobs, MaxPipelineFaults
VARIABLES pipelineJobs, activeJobs, metricRows, sameMillisecond, overrun, pipelineFaults
pipelineVars ==
    <<pipelineJobs, activeJobs, metricRows, sameMillisecond, overrun, pipelineFaults>>
J == INSTANCE DataPipeline

ASSUME PipelineAssumption == UNITS \in Nat \ {0} /\ CUTOFF \in Nat

CONSTANTS NLegs, MaxCalls
VARIABLES calls, inDegree, queue, result, layerMap, pc
planVars == <<calls, inDegree, queue, result, layerMap, pc>>
G == INSTANCE TransactionGraph WITH N <- NLegs

ASSUME PlanAssumption == NLegs \in Nat /\ MaxCalls \in Nat

CONSTANTS MaxLedger, MaxReorgs, MaxDepth, MaxBackfillLedgers
VARIABLES reorgChain, forks, valid, last, pending, stream, check, disturbed
reorgVars == <<reorgChain, forks, valid, last, pending, stream, check, disturbed>>
H == INSTANCE ReorgHandler WITH chain <- reorgChain

ASSUME ReorgAssumption ==
    MaxLedger \in Nat /\ MaxReorgs \in Nat /\ MaxDepth \in Nat /\ MaxBackfillLedgers \in Nat

Offer(type, side, price, stop) == [type |-> type, side |-> side, price |-> price, stop |-> stop]

\* Every type of order, on both sides of the market where they differ.
MC_Offers ==
    {Offer("limit", "buy", 1, 0), Offer("limit", "sell", 2, 0),
     Offer("stop_loss", "sell", 1, 1), Offer("stop_loss", "buy", 2, 0),
     Offer("trailing_stop", "buy", 0, 2), Offer("market", "buy", 0, 0)}

AlertEvent(id, amount, print) ==
    [id |-> id, type |-> "payment", amount |-> amount, print |-> print]

\* Two events alike, a larger one, and one under the threshold.
MC_AlertEvents ==
    {AlertEvent(1, 2, "p"), AlertEvent(2, 2, "p"), AlertEvent(3, 3, "q"), AlertEvent(4, 1, "r")}

\* The days of the year around which months and weeks end.
MC_StartDays == {0, 27, 30, 58, 364}

VARIABLE part

vars ==
    <<disputeVars, orderVars, alertVars, contractVars, reportVars, streamVars, pipelineVars,
      planVars, reorgVars, part>>

Init ==
    /\ part \in {"disputes", "orders", "alerts", "contracts", "reports", "streams",
        "pipeline", "plan", "reorg"}
    /\ D!Init
    /\ O!Init /\ (part # "orders" => market = 1)
    /\ A!Init
    /\ C!Init /\ (part # "contracts" => stateful = {})
    /\ R!Init /\ (part # "reports" => today = 0)
    /\ F!Init
    /\ J!Init
    /\ G!Init /\ (part # "plan" => \A p \in DOMAIN calls : calls[p] = 0)
    /\ H!Init

Next ==
    \/ /\ part = "disputes" /\ D!Next
       /\ UNCHANGED <<orderVars, alertVars, contractVars, reportVars,
                    streamVars, pipelineVars, planVars, reorgVars, part>>
    \/ /\ part = "orders" /\ O!Next
       /\ UNCHANGED <<disputeVars, alertVars, contractVars, reportVars,
                    streamVars, pipelineVars, planVars, reorgVars, part>>
    \/ /\ part = "alerts" /\ A!Next
       /\ UNCHANGED <<disputeVars, orderVars, contractVars, reportVars,
                    streamVars, pipelineVars, planVars, reorgVars, part>>
    \/ /\ part = "contracts" /\ C!Next
       /\ UNCHANGED <<disputeVars, orderVars, alertVars, reportVars,
                    streamVars, pipelineVars, planVars, reorgVars, part>>
    \/ /\ part = "reports" /\ R!Next
       /\ UNCHANGED <<disputeVars, orderVars, alertVars, contractVars,
                    streamVars, pipelineVars, planVars, reorgVars, part>>
    \/ /\ part = "streams" /\ F!Next
       /\ UNCHANGED <<disputeVars, orderVars, alertVars, contractVars,
                    reportVars, pipelineVars, planVars, reorgVars, part>>
    \/ /\ part = "pipeline" /\ J!Next
       /\ UNCHANGED <<disputeVars, orderVars, alertVars, contractVars,
                    reportVars, streamVars, planVars, reorgVars, part>>
    \/ /\ part = "plan" /\ G!Next
       /\ UNCHANGED <<disputeVars, orderVars, alertVars, contractVars,
                    reportVars, streamVars, pipelineVars, reorgVars, part>>
    \/ /\ part = "reorg" /\ H!Next
       /\ UNCHANGED <<disputeVars, orderVars, alertVars, contractVars,
                    reportVars, streamVars, pipelineVars, planVars, part>>

Spec == Init /\ [][Next]_vars

\* Callers, orders and clients are interchangeable.  Each of these sets is the
\* same two model values, which keeps the group small.
Symmetry == Permutations(DisputeCallers)

-----------------------------------------------------------------------------
\* Every decision is enforced once, and the load of an arbitrator covers the
\* open disputes (dispute-enforcement.service.ts, arbitrator.service.ts).
DisputesAreSound == part = "disputes" => D!TypeOK /\ D!DecisionsEnforced /\ D!LoadsAreCovered

\* An order is triggered at a price it was due at, and a cancelled one stays
\* cancelled (evaluateOrderTrigger, cancelOrder).
OrdersAreSound == part = "orders" => O!TypeOK /\ O!TriggeredWasDue /\ O!CancelStands

\* No more alerts than the limits allow (notification-throttle.service.ts).
AlertsAreBounded == part = "alerts" => A!TypeOK /\ A!AlertsAreBounded

\* One active version of each type of contract (contract-registry.service.ts).
OneActiveVersion == part = "contracts" => C!TypeOK /\ C!OneActiveVersion

\* A report is sent once for each due date, on the days of its schedule
\* (processScheduledReports, calculateNextRun).
ReportsAreOnTime == part = "reports" => R!TypeOK /\ R!OncePerDueDate /\ R!NextRunIsCron

\* A client has every event of its subscription since it subscribed, in order
\* (event-buffer.service.ts, subscription-manager.service.ts).
StreamIsWhole == part = "streams" => F!TypeOK /\ F!StreamIsWhole

\* A job of the pipeline handles each unit once (data-pipeline.service.ts).
JobsAreExact == part = "pipeline" => J!TypeOK /\ J!JobsAreExact

\* Every leg is planned, after what it depends on and in the earliest layer
\* (topologicalSort, buildExecutionLayers).
PlanIsRight == part = "plan" => G!TypeOK /\ G!EveryLegPlanned /\ G!LayersAreTight

\* After a recovery the valid rows are those of the chain, and what was
\* backfilled is committed (reorg-handler.service.ts).
RecoveryIsSound == part = "reorg" => H!TypeOK /\ H!RecoveryIsExact /\ H!BackfillIsCommitted

\* Only a change of the chain starts a recovery (handleReorg).
NoFalseAlarm == H!NoFalseAlarm
=============================================================================
