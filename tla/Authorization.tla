--------------------------- MODULE Authorization ----------------------------
(***************************************************************************)
(* The authorization framework (authorization/): permissions from roles    *)
(* and from delegations with an approval chain and an expiry, policies     *)
(* that restrict them, thresholds that follow the market, and the trail of *)
(* decisions.  All of it lives in the memory of one process and no handler *)
(* waits, so each is one step; what matters is their order and the clock.  *)
(***************************************************************************)
EXTENDS Integers, Sequences, FiniteSets, FiniteSetsExt

CONSTANTS
    People,
    AuthRequests,     \* what is asked: subject, roles, permission, amount, daily, token
    Chains,           \* approval chains a delegator may ask for
    Policies,         \* policies an administrator may register
    Markets,          \* volatility and liquidity, in percent
    BASE_MIN, BASE_MAX, \* minAmount and maxAmount of the threshold configuration
    MaxDelegations, MaxHour, MaxTrail,
    MaxActions        \* bound on the actions counted at any time

VARIABLES
    delegations,      \* the delegations, in order of creation
    policies,         \* the registered policies
    counters,         \* actions recorded of each person, and since when
    trail,            \* the decisions
    hour,
    everRevoked       \* history: delegations that were revoked

vars == <<delegations, policies, counters, trail, hour, everRevoked>>

Permissions == {"trade", "sign"}
RoleNames == {"trader", "custodian", "admin"}
Ids == 1 .. Len(delegations)
NoCounter == [count |-> 0, since |-> 0]
WINDOW_HOURS == 1

TypeOK ==
    /\ \A d \in Ids : delegations[d].status \in {"pending", "active", "revoked", "expired"}
    /\ policies \subseteq Policies
    /\ \A e \in 1 .. Len(trail) : trail[e].decision \in {"allow", "deny"}

Init ==
    /\ delegations = <<>> /\ policies = {} /\ trail = <<>>
    /\ counters = [p \in People |-> NoCounter]
    /\ hour = 0 /\ everRevoked = {}

-----------------------------------------------------------------------------
\* Two permissions stand for those a trader has and those a custodian has.
RolePermissions(role) ==
    CASE role = "trader" -> {"trade"} [] role = "custodian" -> {"sign"} [] OTHER -> Permissions

PermissionsFor(roles) == UNION {RolePermissions(role) : role \in roles}

\* The person the permission goes to is dropped from the chain, which may leave
\* nobody to approve.
CreateDelegation(from, to, chain, expires) ==
    /\ Len(delegations) < MaxDelegations
    /\ from # to /\ expires > hour
    /\ delegations' = Append(delegations,
           [from |-> from, to |-> to, expires |-> expires,
            chain |-> chain \ {to}, approvals |-> {},
            status |-> IF chain \ {to} = {} THEN "active" ELSE "pending"])
    /\ UNCHANGED <<policies, counters, trail, hour, everRevoked>>

IsExpired(d) == delegations[d].expires <= hour

\* Mutant: a revoked delegation may still be approved.
ApproveRevoked(d, p) ==
    /\ p \in delegations[d].chain
    /\ LET approvals == delegations[d].approvals \cup {p} IN
       delegations' = [delegations EXCEPT ![d].approvals = approvals,
                          ![d].status = IF delegations[d].chain \subseteq approvals THEN "active" ELSE @]
    /\ UNCHANGED <<policies, counters, trail, hour, everRevoked>>

\* An approval of an expired delegation is refused, and marks it expired.
ApproveDelegation(d, p) ==
    /\ delegations[d].status # "revoked"
    /\ IF delegations[d].status = "expired" \/ IsExpired(d)
       THEN delegations' = [delegations EXCEPT ![d].status = "expired"]
       ELSE /\ p \in delegations[d].chain
            /\ LET approvals == delegations[d].approvals \cup {p} IN
               delegations' = [delegations EXCEPT ![d].approvals = approvals,
                                  ![d].status = IF delegations[d].chain \subseteq approvals THEN "active" ELSE @]
    /\ UNCHANGED <<policies, counters, trail, hour, everRevoked>>

RevokeDelegation(d, p) ==
    /\ p = delegations[d].from \/ p \in delegations[d].chain
    /\ delegations' = [delegations EXCEPT ![d].status = "revoked"]
    /\ everRevoked' = everRevoked \cup {d}
    /\ UNCHANGED <<policies, counters, trail, hour>>

\* activePermissionsFor: the delegations that count, and the mark it leaves on
\* those it finds expired.  A delegation is of the permission to sign.
ActiveFor(p) == {d \in Ids : delegations[d].to = p /\ delegations[d].status = "active"}
Delegated(p) == IF \E d \in ActiveFor(p) : ~IsExpired(d) THEN {"sign"} ELSE {}
MarkExpired(p) ==
    [d \in Ids |-> IF d \in ActiveFor(p) /\ IsExpired(d)
                   THEN [delegations[d] EXCEPT !.status = "expired"] ELSE delegations[d]]

-----------------------------------------------------------------------------
RegisterPolicy(policy) ==
    /\ policy \notin policies /\ policies' = policies \cup {policy}
    /\ UNCHANGED <<delegations, counters, trail, hour, everRevoked>>

RemovePolicy(policy) ==
    /\ policy \in policies /\ policies' = policies \ {policy}
    /\ UNCHANGED <<delegations, counters, trail, hour, everRevoked>>

RecordAction(p) ==
    /\ MapThenSumSet(LAMBDA q : counters[q].count, People) < MaxActions
    /\ counters' = [counters EXCEPT ![p] =
           IF @.count = 0 \/ hour - @.since >= WINDOW_HOURS THEN [count |-> 1, since |-> hour]
           ELSE [@ EXCEPT !.count = @ + 1]]
    /\ UNCHANGED <<delegations, policies, trail, hour, everRevoked>>

RecentActions(p) == IF hour - counters[p].since >= WINDOW_HOURS THEN 0 ELSE counters[p].count

TimeWindow(c) ==
    CASE c.start = c.end -> TRUE
      [] c.start < c.end -> c.start <= hour /\ hour < c.end
      [] OTHER -> c.start <= hour \/ hour < c.end

TransactionLimit(c, req) == req.amount <= c.max /\ req.daily <= c.maxDaily

TokenRestriction(c, req) ==
    /\ req.token \notin c.denied
    /\ c.allowed = {} \/ req.token \in c.allowed

MatchesCondition(c, req) ==
    CASE c.type = "time-window"       -> TimeWindow(c)
      [] c.type = "transaction-limit" -> TransactionLimit(c, req)
      [] c.type = "token-restriction" -> TokenRestriction(c, req)
      [] c.type = "rate-limit"        -> RecentActions(req.subject) < c.max

\* The policies for a role of the request, all of whose conditions hold.
Matched(req) ==
    {policy \in policies :
        /\ policy.roles = {} \/ policy.roles \cap req.roles # {}
        /\ \A c \in policy.conditions : MatchesCondition(c, req)}

\* A denying policy that matches wins; without one the answer is yes.
Evaluate(req) == \A policy \in Matched(req) : policy.effect # "deny"

-----------------------------------------------------------------------------
Record(req, allowed, delegated) ==
    trail' = Append(trail, [subject |-> req.subject, permission |-> req.permission, amount |-> req.amount,
                            decision |-> IF allowed THEN "allow" ELSE "deny",
                            viaDelegation |-> delegated])

Authorize(req) ==
    LET fromRole == req.permission \in PermissionsFor(req.roles)
        fromDelegation == req.permission \in Delegated(req.subject)
    IN /\ Len(trail) < MaxTrail
       /\ delegations' = MarkExpired(req.subject)
       /\ Record(req, (fromRole \/ fromDelegation) /\ Evaluate(req), ~fromRole /\ fromDelegation)
       /\ UNCHANGED <<policies, counters, hour, everRevoked>>

\* calculate: the ceiling, rounded; volatility takes up to three quarters of it
\* away and thin liquidity adds up to a quarter.
Ceiling(m) ==
    LET scaled == BASE_MAX * (400 - 3 * m.volatility) * (500 - m.liquidity)
    IN (scaled + 80000) \div 160000

IsWithinLimits(amount, m) == BASE_MIN <= amount /\ amount <= Max({BASE_MIN, Ceiling(m)})

\* An amount outside the limits of the market is turned down before anything
\* else is looked at, the expiry of delegations included.
AuthorizeWithThresholds(req, m) ==
    /\ Len(trail) < MaxTrail
    /\ IF ~IsWithinLimits(req.amount, m)
       THEN Record(req, FALSE, FALSE) /\ UNCHANGED <<delegations, policies, counters, hour, everRevoked>>
       ELSE Authorize(req)

Tick ==
    /\ hour < MaxHour /\ hour' = hour + 1
    /\ UNCHANGED <<delegations, policies, counters, trail, everRevoked>>

Next ==
    \/ \E from, to \in People, chain \in Chains, expires \in 1 .. MaxHour :
        CreateDelegation(from, to, chain, expires)
    \/ \E d \in Ids, p \in People : ApproveDelegation(d, p) \/ RevokeDelegation(d, p)
    \/ \E policy \in Policies : RegisterPolicy(policy) \/ RemovePolicy(policy)
    \/ \E p \in People : RecordAction(p)
    \/ \E req \in AuthRequests :
        Authorize(req) \/ \E m \in Markets : AuthorizeWithThresholds(req, m)
    \/ Tick

Spec == Init /\ [][Next]_vars

-----------------------------------------------------------------------------
\* A decision that lets somebody act on a delegation finds one to that person
\* which its whole chain has approved, which has not run out and which nobody ever
\* revoked: neither a late approval nor an expiry nobody noticed brings one back.
DelegationIsLive ==
    [][\A e \in (1 .. Len(trail')) \ (1 .. Len(trail)) :
          trail'[e].decision = "allow" /\ trail'[e].viaDelegation =>
              \E d \in Ids :
                  /\ delegations[d].to = trail'[e].subject
                  /\ delegations[d].chain \subseteq delegations[d].approvals
                  /\ delegations[d].expires > hour
                  /\ d \notin everRevoked]_vars
=============================================================================
