---------------------------- MODULE Marketplace -----------------------------
(***************************************************************************)
(* Orders on a listing (marketplace/): created, cancelled, and triggered   *)
(* by the order-monitoring job when the market price reaches them.  The    *)
(* job works through a list it read at its start; a cancel reads and saves *)
(* in two steps, as a trigger does.  One listing.                          *)
(***************************************************************************)
EXTENDS Integers, FiniteSets

CONSTANTS
    OrderIds,
    Prices,           \* market prices
    Offers,           \* what orders ask for: type, side, price and stop price, 0
                      \* where there is none
    Cancellers,       \* cancel requests that may run at the same time
    MaxMoves,         \* bound on price movements
    MaxJobs           \* bound on runs of the job

VARIABLES
    listing,          \* the listing's status
    marketOrders,     \* the orders
    market,           \* the price the oracle reports
    job,              \* the run of the job under way
    cancels,          \* the cancel requests: the order each has read
    seen,             \* history: prices since each order was created
    cancelled,        \* history: orders whose cancel was answered
    overtaken,        \* history: orders cancelled and triggered at the same time
    moves, jobs

vars == <<listing, marketOrders, market, job, cancels, seen, cancelled, overtaken, moves, jobs>>
historyVars == <<seen, cancelled, overtaken>>

OrderStatus == {"none", "pending", "triggered", "cancelled"}
NoOrder == [status |-> "none"]
NoJob == [pc |-> "idle"]
NoCancel == [pc |-> "idle"]

TypeOK ==
    /\ \A o \in OrderIds : marketOrders[o].status \in OrderStatus
    /\ market \in Prices /\ listing \in {"active", "cancelled"}

Init ==
    /\ listing = "active" /\ market \in Prices
    /\ marketOrders = [o \in OrderIds |-> NoOrder]
    /\ job = NoJob /\ cancels = [k \in Cancellers |-> NoCancel]
    /\ seen = [o \in OrderIds |-> {}] /\ cancelled = {} /\ overtaken = {}
    /\ moves = 0 /\ jobs = 0

\* createOrder asks a limit or stop-loss order for a price; the stop price, which
\* the monitor looks at, may be missing.
CreateOrder(o, dto) ==
    /\ marketOrders[o].status = "none" /\ listing = "active"
    /\ dto.type \in {"limit", "stop_loss"} => dto.price # 0
    /\ marketOrders' = [marketOrders EXCEPT ![o] =
           [status |-> "pending", type |-> dto.type, side |-> dto.side, price |-> dto.price, stop |-> dto.stop]]
    /\ seen' = [seen EXCEPT ![o] = {market}]
    /\ UNCHANGED <<listing, market, job, cancels, cancelled, overtaken, moves, jobs>>

\* Orders of a cancelled listing stay and are still monitored.
Cancel ==
    /\ listing = "active" /\ listing' = "cancelled"
    /\ UNCHANGED <<marketOrders, market, job, cancels, historyVars, moves, jobs>>

PriceMoves(p) ==
    /\ p # market /\ moves < MaxMoves
    /\ moves' = moves + 1 /\ market' = p
    /\ seen' = [o \in OrderIds |-> IF marketOrders[o].status = "none" THEN {} ELSE seen[o] \cup {p}]
    /\ UNCHANGED <<listing, marketOrders, job, cancels, cancelled, overtaken, jobs>>

\* cancelOrder: only a pending order.
CancelRead(k, o) ==
    /\ cancels[k].pc = "idle" /\ marketOrders[o].status = "pending"
    /\ cancels' = [cancels EXCEPT ![k] = [pc |-> "save", order |-> o]]
    /\ overtaken' = IF job.pc = "save" /\ job.order = o THEN overtaken \cup {o} ELSE overtaken
    /\ UNCHANGED <<listing, marketOrders, market, job, seen, cancelled, moves, jobs>>

CancelSave(k) ==
    LET o == cancels[k].order IN
    /\ cancels[k].pc = "save"
    /\ marketOrders' = [marketOrders EXCEPT ![o].status = "cancelled"]
    /\ cancelled' = cancelled \cup {o}
    /\ cancels' = [cancels EXCEPT ![k] = NoCancel]
    /\ UNCHANGED <<listing, market, job, seen, overtaken, moves, jobs>>

\* evaluateOrderTrigger: what price sets an order off.
Trigger(order) == IF order.type \in {"stop_loss", "trailing_stop"} THEN order.stop ELSE order.price

\* Mutant: the sides of a stop are swapped.
EvaluateSwapped(order, p) ==
    /\ order.type # "market" /\ Trigger(order) > 0
    /\ IF order.side = "buy" THEN p <= Trigger(order) ELSE p >= Trigger(order)

EvaluateOrderTrigger(order, p) ==
    /\ order.type # "market" /\ Trigger(order) > 0
    /\ IF (order.type = "limit") = (order.side = "buy") THEN p <= Trigger(order)
       ELSE p >= Trigger(order)

\* checkPendingOrders: the pending orders, and the price once for all of them;
\* without a price of the pools the listing's own is taken.
CheckPendingOrders ==
    /\ job.pc = "idle" /\ jobs < MaxJobs
    /\ \E o \in OrderIds : marketOrders[o].status = "pending"
    /\ jobs' = jobs + 1
    /\ job' = [pc |-> "scan", price |-> market,
               left |-> {o \in OrderIds : marketOrders[o].status = "pending"
                                          /\ marketOrders[o].type # "market"}]
    /\ UNCHANGED <<listing, marketOrders, market, cancels, historyVars, moves>>

\* triggerOrder reads the order again and refuses one that is not pending: the
\* error ends the whole run, with the orders it had not come to.
TriggerRead(o) ==
    /\ job.pc = "scan" /\ o \in job.left /\ EvaluateOrderTrigger(marketOrders[o], job.price)
    /\ IF marketOrders[o].status = "pending"
       THEN job' = [pc |-> "save", price |-> job.price, left |-> job.left, order |-> o]
       ELSE job' = NoJob
    /\ overtaken' = IF \E k \in Cancellers : cancels[k].pc = "save" /\ cancels[k].order = o
                    THEN overtaken \cup {o} ELSE overtaken
    /\ UNCHANGED <<listing, marketOrders, market, cancels, seen, cancelled, moves, jobs>>

TriggerSave ==
    /\ job.pc = "save"
    /\ marketOrders' = [marketOrders EXCEPT ![job.order].status = "triggered"]
    /\ job' = [pc |-> "scan", price |-> job.price, left |-> job.left \ {job.order}]
    /\ UNCHANGED <<listing, market, cancels, historyVars, moves, jobs>>

Skip(o) ==
    /\ job.pc = "scan" /\ o \in job.left /\ ~EvaluateOrderTrigger(marketOrders[o], job.price)
    /\ job' = [job EXCEPT !.left = @ \ {o}]
    /\ UNCHANGED <<listing, marketOrders, market, cancels, historyVars, moves, jobs>>

JobDone ==
    /\ job.pc = "scan" /\ job.left = {} /\ job' = NoJob
    /\ UNCHANGED <<listing, marketOrders, market, cancels, historyVars, moves, jobs>>

Next ==
    \/ \E o \in OrderIds, dto \in Offers : CreateOrder(o, dto)
    \/ Cancel
    \/ \E p \in Prices : PriceMoves(p)
    \/ \E k \in Cancellers : CancelSave(k) \/ \E o \in OrderIds : CancelRead(k, o)
    \/ CheckPendingOrders \/ TriggerSave \/ JobDone
    \/ \E o \in OrderIds : TriggerRead(o) \/ Skip(o)

Spec == Init /\ [][Next]_vars

-----------------------------------------------------------------------------
\* An order is triggered only if the market was at a price it names since it was
\* created, also when the job acts on a price read earlier: a buy limit at or
\* below it, a sell limit at or above it, a stop the other way round.
TriggeredWasDue ==
    \A o \in OrderIds : marketOrders[o].status = "triggered" =>
        LET order == marketOrders[o] IN
        CASE order.type = "limit" /\ order.side = "buy"  -> \E p \in seen[o] : p <= order.price
          [] order.type = "limit" /\ order.side = "sell" -> \E p \in seen[o] : p >= order.price
          [] order.type # "limit" /\ order.side = "buy"  -> \E p \in seen[o] : p >= order.stop
          [] order.type # "limit" /\ order.side = "sell" -> \E p \in seen[o] : p <= order.stop

\* A cancel that was answered is not undone by the job, which may have listed the
\* order before; only a cancel and a trigger that read the order together may.
CancelStands == \A o \in cancelled \ overtaken : marketOrders[o].status = "cancelled"
=============================================================================
