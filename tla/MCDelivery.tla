----------------------------- MODULE MCDelivery -----------------------------
(***************************************************************************)
(* What passes between the application and the outside: webhook            *)
(* deliveries, notifications, queued calls of Horizon and the events of    *)
(* contracts.  They share no state; part is the one a behaviour is about,  *)
(* and the others keep their initial state.                                *)
(***************************************************************************)
EXTENDS Integers, Sequences, FiniteSets

CONSTANTS MaxRetries, MaxDeliveries, MaxHookFaults
VARIABLES hookStatus, hookRows, chains, sent, hookTotals, hookFaults
hookVars == <<hookStatus, hookRows, chains, sent, hookTotals, hookFaults>>
W == INSTANCE WebhookDelivery

ASSUME HookAssumption == MaxRetries \in Nat /\ MaxDeliveries \in Nat

CONSTANTS Couriers, MAX_RETRIES, MaxNotes, MaxNoteFaults
VARIABLES notes, preference, couriers, taken, noteFaults, notesCrossed
noteVars == <<notes, preference, couriers, taken, noteFaults, notesCrossed>>
N == INSTANCE Notifications

ASSUME NoteAssumption == MAX_RETRIES \in Nat \ {0} /\ MaxNotes \in Nat

CONSTANTS GatewayRequests, QUEUE_MAX, CONCURRENT_MAX, POOL_MIN, POOL_MAX, PER_MINUTE,
          BURST_LIMIT, MaxMinutes
VARIABLES waitingLine, progress, conns, holds, activeRequests, windowCount, submitted, minutes
gatewayVars ==
    <<waitingLine, progress, conns, holds, activeRequests, windowCount, submitted, minutes>>
G == INSTANCE StellarGateway

\* The pool opens poolSizeMin connections and may have poolSizeMax.
ASSUME GatewayAssumption ==
    /\ CONCURRENT_MAX \in Nat /\ POOL_MIN \in Nat /\ POOL_MAX \in Nat /\ POOL_MIN <= POOL_MAX
    /\ IsFiniteSet(GatewayRequests)

CONSTANTS PAGE_LIMIT, MAX_PAGES, MaxLedgers, MaxPerLedger, MaxIndexFaults
VARIABLES chain, watching, asking, cursor, poll, stored, indexed, from, cut, torn,
          indexFaults
eventVars ==
    <<chain, watching, asking, cursor, poll, stored, indexed, from, cut, torn, indexFaults>>
E == INSTANCE ContractEvents

\* A page holds an event; the first ledger is there from the start.
ASSUME EventAssumption ==
    PAGE_LIMIT \in Nat \ {0} /\ MaxLedgers \in Nat \ {0} /\ MaxPerLedger \in Nat

VARIABLE part

vars == <<hookVars, noteVars, gatewayVars, eventVars, part>>

Init ==
    /\ part \in {"webhooks", "notifications", "gateway", "contract events"}
    /\ W!Init /\ N!Init /\ G!Init /\ E!Init

Next ==
    \/ part = "webhooks" /\ W!Next /\ UNCHANGED <<noteVars, gatewayVars, eventVars, part>>
    \/ part = "notifications" /\ N!Next /\ UNCHANGED <<hookVars, gatewayVars, eventVars, part>>
    \/ part = "gateway" /\ G!Next /\ UNCHANGED <<hookVars, noteVars, eventVars, part>>
    \/ part = "contract events" /\ E!Next /\ UNCHANGED <<hookVars, noteVars, gatewayVars, part>>

\* A promise that is resolved is continued by the event loop, timers fire, and
\* every call of HTTP, Horizon or the database answers or fails.  A component that
\* the behaviour is not about stays in its initial state, where none of these
\* steps is enabled.
Fairness ==
    /\ W!Fairness
    /\ \A k \in Couriers : WF_noteVars(N!Step(k))
    /\ \A r \in GatewayRequests : WF_gatewayVars(G!Step(r))
    /\ WF_gatewayVars(G!ProcessQueue)

FairSpec == Init /\ [][Next]_vars /\ Fairness

-----------------------------------------------------------------------------
\* A webhook is sent no more often than its retries allow and counted once, and
\* a notification stored as SENT was taken by its provider
\* (executeDelivery, deliverWithRetry).
OutcomeIsTrue == W!TypeOK /\ W!RetriesAreBounded /\ N!TypeOK /\ N!OutcomeIsTrue

\* No connection of the pool is used by two requests, lost or leaked
\* (acquire and release in stellar-connection-pool.service.ts).
ConnectionsAreExclusive == G!TypeOK /\ G!ConnectionsAreExclusive

\* What lies behind the cursor is indexed (contract-event-indexer.service.ts).
IndexedBeforeCursor == part = "contract events" => E!TypeOK /\ E!IndexedBeforeCursor

\* Without faults, every webhook delivery and every notification that has begun
\* ends as delivered or failed (executeDelivery, deliverWithRetry).
DeliveriesSettle == W!DeliveriesSettle /\ N!NotesSettle

\* Every queued request to Horizon is answered (processQueue, acquire).
RequestsAnswered == G!RequestsAnswered
=============================================================================
