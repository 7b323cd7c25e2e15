---------------------------- MODULE RateLimiting ----------------------------
(***************************************************************************)
(* The global rate limiter (rate-limiting/): the window kept in Redis, the *)
(* guard with its per-route override, and the quota of a tier, kept in the *)
(* database and cached in memory.  One key and one tier; each route has a  *)
(* window of its own, "plain" without and "decorated" with                 *)
(* @RateLimitConfig.  A window is WINDOW units of time long.               *)
(***************************************************************************)
EXTENDS Integers, FiniteSets, FiniteSetsExt

CONSTANTS
    WINDOW,           \* windowSizeSeconds
    Quotas,           \* the values of maxRequests an administrator sets
    OVERRIDE,         \* maxRequests of the decorator
    Admins,           \* requests that change the quota
    MaxTime, MaxChecks, MaxQuotaChanges

VARIABLES
    strategy,         \* sliding_window or fixed_window; never changes
    clock,
    windowSets,       \* of each route: how many entries have each time
    passed,           \* history: requests let through, since the quota changed
    storedQuota, disabled, \* the row of the tier; -1 stands for unlimited
    quotaCache,       \* the quota in memory
    admins,           \* what each administrator's request does next
    checks, quotaChanges

vars == <<strategy, clock, windowSets, passed, storedQuota, disabled, quotaCache, admins, checks, quotaChanges>>
quotaVars == <<strategy, storedQuota, disabled, quotaCache, admins, quotaChanges>>

Routes == {"plain", "decorated"}
Times == 0 .. MaxTime
Unlimited == -1
Infinity == 1000
Empty == [r \in Routes |-> [t \in Times |-> 0]]
Total(counts, times) == MapThenSumSet(LAMBDA t : counts[t], times)

TypeOK ==
    /\ windowSets \in [Routes -> [Times -> Nat]] /\ passed \in [Routes -> [Times -> Nat]]
    /\ quotaCache \in Quotas \cup {0, Infinity}

Init ==
    /\ strategy \in {"sliding_window", "fixed_window"}
    /\ clock = 0 /\ windowSets = Empty /\ passed = Empty
    /\ storedQuota \in Quotas /\ disabled = FALSE /\ quotaCache = storedQuota
    /\ admins = [a \in Admins |-> "idle"]
    /\ checks = 0 /\ quotaChanges = 0

\* The times whose entries are gone when a check runs: one window old and older,
\* or before the block the time falls into.
Expired(t) ==
    IF strategy = "sliding_window" THEN {u \in Times : u <= t - WINDOW}
    ELSE {u \in Times : u < (t \div WINDOW) * WINDOW}

\* slidingWindowCheck and fixedWindowCheck: drop, add, count; a request that is
\* turned away has been added too.
Window(route) ==
    [t \in Times |-> IF t \in Expired(clock) THEN 0
                     ELSE windowSets[route][t] + (IF t = clock THEN 1 ELSE 0)]

\* Mutant: the request itself is not counted.
AllowedOneMore(route, count) ==
    LET remaining == Max({0, quotaCache - count})
        used == quotaCache - remaining
    IN IF route = "plain" THEN count <= quotaCache + 1 ELSE OVERRIDE - used > 0

\* The guard: the override is applied to what the tier's check reports, in which
\* the requests used are never more than the tier's own quota.
Allowed(route, count) ==
    LET remaining == Max({0, quotaCache - count})
        used == quotaCache - remaining
    IN IF route = "plain" THEN count <= quotaCache ELSE OVERRIDE - used > 0

CanActivate(route) ==
    /\ checks < MaxChecks /\ quotaCache # Infinity
    /\ checks' = checks + 1
    /\ windowSets' = [windowSets EXCEPT ![route] = Window(route)]
    /\ passed' = IF Allowed(route, Total(Window(route), Times))
                 THEN [passed EXCEPT ![route][clock] = @ + 1] ELSE passed
    /\ UNCHANGED <<quotaVars, clock>>

\* An unlimited tier: nothing is counted and the override is passed over.
CanActivateUnlimited(route) ==
    /\ checks < MaxChecks /\ quotaCache = Infinity
    /\ checks' = checks + 1
    /\ passed' = [passed EXCEPT ![route][clock] = @ + 1]
    /\ UNCHANGED <<quotaVars, clock, windowSets>>

ClearKey(route) ==
    /\ \E t \in Times : windowSets[route][t] > 0
    /\ windowSets' = [windowSets EXCEPT ![route] = Empty[route]]
    /\ passed' = [passed EXCEPT ![route] = Empty[route]]
    /\ UNCHANGED <<quotaVars, clock, checks>>

\* upsertConfig: save the row, then load every row again.
UpsertConfig(a, quota, off) ==
    /\ admins[a] = "idle" /\ quotaChanges < MaxQuotaChanges
    /\ quotaChanges' = quotaChanges + 1
    /\ storedQuota' = quota /\ disabled' = off
    /\ admins' = [admins EXCEPT ![a] = "load"]
    /\ UNCHANGED <<strategy, clock, windowSets, passed, quotaCache, checks>>

\* normaliseStoredMaxRequests, and 0 for a disabled tier.
Effective(quota, off) == IF off THEN 0 ELSE IF quota <= Unlimited THEN Infinity ELSE quota

LoadConfigFromDb(a) ==
    /\ admins[a] = "load"
    /\ quotaCache' = Effective(storedQuota, disabled)
    /\ passed' = IF quotaCache' = quotaCache THEN passed ELSE Empty
    /\ admins' = [admins EXCEPT ![a] = "idle"]
    /\ UNCHANGED <<strategy, clock, windowSets, storedQuota, disabled, checks, quotaChanges>>

\* A failed load keeps the old quotas.
LoadFails(a) ==
    /\ admins[a] = "load"
    /\ admins' = [admins EXCEPT ![a] = "idle"]
    /\ UNCHANGED <<strategy, clock, windowSets, passed, storedQuota, disabled, quotaCache, checks, quotaChanges>>

Tick ==
    /\ clock < MaxTime
    /\ clock' = clock + 1
    /\ UNCHANGED <<quotaVars, windowSets, passed, checks>>

Next ==
    \/ \E route \in Routes : CanActivate(route) \/ CanActivateUnlimited(route) \/ ClearKey(route)
    \/ \E a \in Admins :
        \/ \E quota \in Quotas \cup {Unlimited}, off \in BOOLEAN : UpsertConfig(a, quota, off)
        \/ LoadConfigFromDb(a) \/ LoadFails(a)
    \/ Tick

Spec == Init /\ [][Next]_vars

-----------------------------------------------------------------------------
\* The spans of time a strategy bounds: every window, or every block.
Spans ==
    IF strategy = "sliding_window" THEN {t .. t + WINDOW - 1 : t \in 0 .. MaxTime - WINDOW + 1}
    ELSE {k * WINDOW .. Min({MaxTime, (k + 1) * WINDOW - 1}) : k \in 0 .. MaxTime \div WINDOW}

\* No span of time lets more requests through than the quota, wherever it begins
\* (check: "avoids the burst at window boundary problem"); a route with an
\* override below the quota lets through no more than the override.
QuotaHolds ==
    \A span \in Spans :
        /\ Total(passed["plain"], span) <= quotaCache
        /\ OVERRIDE <= quotaCache /\ quotaCache # Infinity => Total(passed["decorated"], span) <= OVERRIDE
=============================================================================
