-------------------------- MODULE WebhookDelivery --------------------------
(***************************************************************************)
(* Webhooks (src/src/modules/webhooks): a platform event becomes a         *)
(* delivery for an active subscription, and a chain of attempts sends it   *)
(* with retries that exist only as timers of the process.  A manual retry  *)
(* starts a second chain for the same row beside the first; each works on  *)
(* its own copy of the row.  A step runs from one await to the next.       *)
(*                                                                         *)
(* One subscription.  Payloads, signatures and headers are left out, and   *)
(* so is the length of the delays.                                         *)
(***************************************************************************)
EXTENDS Integers, Sequences, FiniteSets, FiniteSetsExt

CONSTANTS
    MaxRetries,         \* maxRetries of the subscription
    MaxDeliveries,      \* bound on the events delivered
    MaxHookFaults       \* bound on database errors and ends of the process

VARIABLES
    hookStatus,     \* status of the subscription
    hookRows,       \* webhook_deliveries: [status, attemptNumber]
    chains,         \* the chains of each delivery: 1 the event's, 2 a manual retry's
    sent,           \* requests that left the process, for each delivery
    hookTotals,     \* totalDeliveries and totalFailures
    hookFaults

vars == <<hookStatus, hookRows, chains, sent, hookTotals, hookFaults>>

WebhookStatus == {"active", "inactive", "paused", "deleted"}
WebhookDeliveryStatus == {"pending", "success", "failed", "retrying"}
Delivery == [status : WebhookDeliveryStatus, attemptNumber : 0..(MaxRetries + 1)]
WebhookSubscription == [ok : Nat, failed : Nat]

Ids == 1..MaxDeliveries
Both == {1, 2}
Steps == {"none", "start", "fetch", "ok", "okStats", "failed", "timer", "failedStats", "done"}

TypeOK ==
    /\ hookStatus \in WebhookStatus
    /\ hookRows \in Seq(Delivery)
    /\ chains \in [Ids -> [Both -> [at : Steps, n : 0..(MaxRetries + 1)]]]
    /\ hookTotals \in WebhookSubscription

Unborn == [at |-> "none", n |-> 0]

Init ==
    /\ hookStatus = "active" /\ hookRows = <<>>
    /\ chains = [d \in Ids |-> [k \in Both |-> Unborn]]
    /\ sent = [d \in Ids |-> 0]
    /\ hookTotals = [ok |-> 0, failed |-> 0] /\ hookFaults = 0

Goto(d, k, step) == chains' = [chains EXCEPT ![d][k].at = step]
At(d, k, step) == chains[d][k].at = step

----------------------------------------------------------------------------
(* Subscription and events *)

\* update, pause, resume and remove of the subscription.
SetStatus(status) ==
    /\ hookStatus # "deleted" /\ hookStatus # status
    /\ hookStatus' = status
    /\ UNCHANGED <<hookRows, chains, sent, hookTotals, hookFaults>>

\* processEvent and deliverEvent: a row for the subscription if it is active,
\* and a chain nobody waits for.
DeliverEvent ==
    /\ hookStatus = "active"
    /\ Len(hookRows) < MaxDeliveries
    /\ hookRows' = Append(hookRows, [status |-> "pending", attemptNumber |-> 0])
    /\ chains' = [chains EXCEPT ![Len(hookRows) + 1][1].at = "start"]
    /\ UNCHANGED <<hookStatus, sent, hookTotals, hookFaults>>

\* retryDelivery, of a delivery in any state while the subscription exists.
RetryDelivery(d) ==
    /\ hookStatus # "deleted"
    /\ d <= Len(hookRows) /\ At(d, 2, "none")
    /\ hookRows' = [hookRows EXCEPT ![d] = [status |-> "pending", attemptNumber |-> 0]]
    /\ Goto(d, 2, "start")
    /\ UNCHANGED <<hookStatus, sent, hookTotals, hookFaults>>

----------------------------------------------------------------------------
(* executeDelivery *)

\* A save of the chain's copy of the row.
SaveRow(d, status, n) ==
    hookRows' = [hookRows EXCEPT ![d] = [status |-> status, attemptNumber |-> n]]

SaveRetrying(d, k) ==
    /\ At(d, k, "start")
    /\ SaveRow(d, "retrying", chains[d][k].n)
    /\ Goto(d, k, "fetch")
    /\ UNCHANGED <<hookStatus, sent, hookTotals, hookFaults>>

\* The POST: answered with success, or with an error or not at all.
Fetch(d, k, ok) ==
    /\ At(d, k, "fetch")
    /\ sent' = [sent EXCEPT ![d] = @ + 1]
    /\ Goto(d, k, IF ok THEN "ok" ELSE "failed")
    /\ UNCHANGED <<hookStatus, hookRows, hookTotals, hookFaults>>

SaveSuccess(d, k) ==
    /\ At(d, k, "ok")
    /\ SaveRow(d, "success", chains[d][k].n)
    /\ Goto(d, k, "okStats")
    /\ UNCHANGED <<hookStatus, sent, hookTotals, hookFaults>>

\* The statistics of the subscription, by increments in the database.
SaveStats(d, k) ==
    /\ \/ At(d, k, "okStats") /\ hookTotals' = [hookTotals EXCEPT !.ok = @ + 1]
       \/ At(d, k, "failedStats") /\ hookTotals' = [hookTotals EXCEPT !.failed = @ + 1]
    /\ Goto(d, k, "done")
    /\ UNCHANGED <<hookStatus, hookRows, sent, hookFaults>>

\* Mutant: the last failure leaves the row as it is.
AttemptFailedQuiet(d, k) ==
    LET n == chains[d][k].n IN
    /\ At(d, k, "failed")
    /\ SaveRow(d, "retrying", n + 1)
    /\ chains' = [chains EXCEPT ![d][k] =
          [at |-> IF n < MaxRetries THEN "timer" ELSE "failedStats", n |-> n + 1]]
    /\ UNCHANGED <<hookStatus, sent, hookTotals, hookFaults>>

\* The catch block: another attempt later, or the end.
AttemptFailed(d, k) ==
    LET n == chains[d][k].n IN
    /\ At(d, k, "failed")
    /\ SaveRow(d, IF n < MaxRetries THEN "retrying" ELSE "failed", n + 1)
    /\ chains' = [chains EXCEPT ![d][k] =
          [at |-> IF n < MaxRetries THEN "timer" ELSE "failedStats", n |-> n + 1]]
    /\ UNCHANGED <<hookStatus, sent, hookTotals, hookFaults>>

\* The timer fires: whatever has become of the subscription or of the row.
RetryTimer(d, k) ==
    /\ At(d, k, "timer")
    /\ Goto(d, k, "start")
    /\ UNCHANGED <<hookStatus, hookRows, sent, hookTotals, hookFaults>>

\* A statement of the database fails.  Inside the try block that counts as a
\* failed attempt, also after the endpoint has accepted; in the catch block it
\* ends the chain.
DatabaseError(d, k) ==
    /\ hookFaults < MaxHookFaults
    /\ hookFaults' = hookFaults + 1
    /\ \/ chains[d][k].at \in {"start", "ok", "okStats"} /\ Goto(d, k, "failed")
       \/ chains[d][k].at \in {"failed", "failedStats"} /\ Goto(d, k, "done")
    /\ UNCHANGED <<hookStatus, hookRows, sent, hookTotals>>

\* The process ends: chains and timers are gone.
Crash ==
    /\ hookFaults < MaxHookFaults
    /\ hookFaults' = hookFaults + 1
    /\ chains' = [d \in Ids |-> [k \in Both |->
                    IF At(d, k, "none") THEN Unborn ELSE [chains[d][k] EXCEPT !.at = "done"]]]
    /\ UNCHANGED <<hookStatus, hookRows, sent, hookTotals>>

Step(d, k) ==
    \/ SaveRetrying(d, k) \/ SaveSuccess(d, k) \/ SaveStats(d, k)
    \/ AttemptFailed(d, k) \/ RetryTimer(d, k)
    \/ \E ok \in BOOLEAN : Fetch(d, k, ok)

Next ==
    \/ \E status \in WebhookStatus : SetStatus(status)
    \/ DeliverEvent
    \/ \E d \in Ids : RetryDelivery(d)
    \/ \E d \in Ids, k \in Both : Step(d, k) \/ DatabaseError(d, k)
    \/ Crash

Spec == Init /\ [][Next]_vars

\* The promises and timers of the event loop: a chain that can go on does.
Fairness == \A d \in Ids, k \in Both : WF_vars(Step(d, k))

FairSpec == Spec /\ Fairness

----------------------------------------------------------------------------
(* Properties *)

ChainsOf(d) == {k \in Both : ~At(d, k, "none")}

\* However chains overlap and whatever fails, a delivery is sent at most
\* maxRetries + 1 times for each chain started, and without faults the totals
\* of the subscription count every chain that has ended, once
\* (executeDelivery's attemptNumber and statistics).
RetriesAreBounded ==
    /\ \A d \in Ids : sent[d] <= (MaxRetries + 1) * Cardinality(ChainsOf(d))
    /\ hookFaults = 0 =>
          hookTotals.ok + hookTotals.failed
             = Cardinality({p \in Ids \X Both : At(p[1], p[2], "done")})

\* Without faults every delivery ends as delivered or failed and stays so,
\* manual retries beside running chains included (executeDelivery).
DeliveriesSettle ==
    <>[](hookFaults = 0 =>
            \A d \in 1..Len(hookRows) : hookRows[d].status \in {"success", "failed"})
=============================================================================
