------------------------------ MODULE MCAccess ------------------------------
(***************************************************************************)
(* Who may do what: logins, sessions, multisig accounts, wallets, identity *)
(* checks, delegated permissions and rate limits.  The components share no *)
(* state; part is the one a behaviour is about, and the others keep their  *)
(* initial state, so the states of the run are the sum of theirs.          *)
(***************************************************************************)
EXTENDS Integers, Sequences, FiniteSets, FiniteSetsExt

CONSTANTS Callers, MAX_FAILURES, CHALLENGE_MAX, MaxChallenges, MaxCallCrashes
VARIABLES challenges, failCount, lockKey, quota, loginCalls, accepted, lockLost
loginVars == <<challenges, failCount, lockKey, quota, loginCalls, accepted, lockLost>>
L == INSTANCE LoginChecks

\* The limits of auth-rate-limiter.service.ts are numbers, and it takes a
\* failure to lock an account.
ASSUME LoginAssumption == MAX_FAILURES \in Nat \ {0} /\ CHALLENGE_MAX \in Nat

CONSTANTS SessionCallers, MaxTokens, MaxResets, MaxSessionCrashes
VARIABLES registered, password, refreshTokens, resetTokens, apiKey, sessionCalls,
          sessionCrashes
sessionVars ==
    <<registered, password, refreshTokens, resetTokens, apiKey, sessionCalls,
      sessionCrashes>>
S == INSTANCE Sessions

CONSTANTS Keys, Setups, MAX_SIGNERS, PoolCallers, MaxPooled, MaxLostAnswers
VARIABLES account, pool, poolCalls, unchecked, lostAnswers
poolVars == <<account, pool, poolCalls, unchecked, lostAnswers>>
P == INSTANCE MultisigPool

\* The weights and thresholds of a request are numbers, for known keys.
ASSUME PoolAssumption ==
    /\ IsFiniteSet(Keys) /\ "master" \in Keys
    /\ \A dto \in Setups :
         /\ dto.high \in Nat /\ DOMAIN dto.weights \subseteq Keys
         /\ \A k \in DOMAIN dto.weights : dto.weights[k] \in Nat

CONSTANTS WalletIds, WalletCallers, MaxWalletWrites
VARIABLES wallets, walletCalls, removed, walletVersion, overlapped
walletVars == <<wallets, walletCalls, removed, walletVersion, overlapped>>
W == INSTANCE Wallets

CONSTANTS KycCallers, MaxKycWrites
VARIABLES kyc, documents, flags, blockScore, kycCalls, kycWrites, granted, everVerified,
          blockOrder, kycOverlap, kycCut
kycVars ==
    <<kyc, documents, flags, blockScore, kycCalls, kycWrites, granted, everVerified,
      blockOrder, kycOverlap, kycCut>>
K == INSTANCE Compliance

CONSTANTS People, AuthRequests, Chains, Policies, Markets, BASE_MIN, BASE_MAX,
          MaxDelegations, MaxHour, MaxTrail, MaxActions
VARIABLES delegations, policies, counters, trail, hour, everRevoked
permissionVars == <<delegations, policies, counters, trail, hour, everRevoked>>
Z == INSTANCE Authorization

CONSTANTS WINDOW, Quotas, OVERRIDE, Admins, MaxTime, MaxChecks, MaxQuotaChanges
VARIABLES strategy, clock, windowSets, passed, storedQuota, disabled, quotaCache, admins,
          checks, quotaChanges
quotaVars ==
    <<strategy, clock, windowSets, passed, storedQuota, disabled, quotaCache, admins,
      checks, quotaChanges>>
Q == INSTANCE RateLimiting

\* Windows and quotas are numbers, and no run of the model makes so many checks
\* that it reaches the number that stands for an unlimited quota.
ASSUME QuotaAssumption ==
    /\ WINDOW \in Nat \ {0} /\ Quotas \subseteq Nat /\ OVERRIDE \in Nat
    /\ MaxTime \in Nat /\ MaxChecks \in Nat /\ MaxChecks <= Q!Infinity

\* Setups of signers: a second key with a high threshold, two keys, a key that
\* is removed, and the master key without weight.
MC_Setups ==
    {[weights |-> [k \in {"a"} |-> 1], high |-> 2],
     [weights |-> [k \in {"a", "b"} |-> 1], high |-> 0],
     [weights |-> [k \in {"a"} |-> 0], high |-> 1],
     [weights |-> [k \in {"master"} |-> 0], high |-> 1]}

\* Requests under and over the limit of MC_Policies, by two roles.
MC_AuthRequests ==
    {[subject |-> p, roles |-> {ra[1]}, permission |-> "sign", amount |-> ra[2], daily |-> 0,
      token |-> "xlm"] : p \in People, ra \in {<<"trader", 1>>, <<"trader", 6>>, <<"custodian", 6>>}}

MC_Chains == SUBSET People \ {People}

\* One policy for everybody, and one for traders; all types of conditions.
MC_Policies ==
    {[effect |-> "deny", roles |-> {},
      conditions |-> {[type |-> "transaction-limit", max |-> 5, maxDaily |-> 9],
                      [type |-> "rate-limit", max |-> 1]}],
     [effect |-> "deny", roles |-> {"trader"},
      conditions |-> {[type |-> "time-window", start |-> 1, end |-> 0],
                      [type |-> "token-restriction", denied |-> {}, allowed |-> {"xlm"}]}]}

MC_Markets == {[volatility |-> 100, liquidity |-> 100]}

VARIABLE part

vars ==
    <<loginVars, sessionVars, poolVars, walletVars, kycVars, permissionVars, quotaVars,
      part>>

Init ==
    /\ part \in {"logins", "sessions", "multisig", "wallets", "kyc", "permissions",
        "quotas"}
    /\ L!Init
    /\ S!Init
    /\ P!Init
    /\ W!Init
    /\ K!Init
    /\ Z!Init
    /\ Q!Init /\ (part # "quotas" => strategy = "sliding_window" /\ storedQuota = 1)

Next ==
    \/ /\ part = "logins" /\ L!Next
       /\ UNCHANGED <<sessionVars, poolVars, walletVars, kycVars, permissionVars,
                    quotaVars, part>>
    \/ /\ part = "sessions" /\ S!Next
       /\ UNCHANGED <<loginVars, poolVars, walletVars, kycVars, permissionVars, quotaVars,
                    part>>
    \/ /\ part = "multisig" /\ P!Next
       /\ UNCHANGED <<loginVars, sessionVars, walletVars, kycVars, permissionVars,
                    quotaVars, part>>
    \/ /\ part = "wallets" /\ W!Next
       /\ UNCHANGED <<loginVars, sessionVars, poolVars, kycVars, permissionVars,
                    quotaVars, part>>
    \/ /\ part = "kyc" /\ K!Next
       /\ UNCHANGED <<loginVars, sessionVars, poolVars, walletVars, permissionVars,
                    quotaVars, part>>
    \/ /\ part = "permissions" /\ Z!Next
       /\ UNCHANGED <<loginVars, sessionVars, poolVars, walletVars, kycVars, quotaVars,
                    part>>
    \/ /\ part = "quotas" /\ Q!Next
       /\ UNCHANGED <<loginVars, sessionVars, poolVars, walletVars, kycVars,
                    permissionVars, part>>

Spec == Init /\ [][Next]_vars

-----------------------------------------------------------------------------
\* A wallet challenge logs in once and not when superseded, and failures at the
\* limit lock the account (verifyChallenge, recordFailure).
LoginsAreSafe == part = "logins" => L!TypeOK /\ L!ChallengeUsedOnce /\ L!LockoutArmed

\* A confirmed password reset leaves no older session (confirmPasswordReset).
ResetEndsSessions == part = "sessions" => S!TypeOK /\ S!ResetEndsSessions

\* A dead credential never authenticates again (refreshAccessToken, validate).
DeadStaysDead == S!DeadStaysDead

\* The pool shows a transaction as what it is on the ledger and in its
\* signatures, and checked changes of signers leave an account that can still
\* be changed (addSignature, broadcast, setupMultisig, rotateSigners).
MultisigIsSound == part = "multisig" => P!TypeOK /\ P!PoolIsHonest /\ P!AccountStaysUsable

\* One primary wallet, and no removed one comes back (wallet.service.ts).
WalletsAreSound == part = "wallets" => W!TypeOK /\ W!WalletsAreSound

\* A level was earned by the documents it needs, and a block stands until it is
\* lifted (compliance.service.ts).
KycIsSound == part = "kyc" => K!TypeOK /\ K!LevelIsEarned /\ K!BlockStands

\* Only a live delegation with its approvals gives a permission
\* (findActiveDelegation, approve, revoke).
DelegationIsLive == Z!DelegationIsLive

\* No window lets more requests pass than its quota (checkRateLimit).
QuotaHolds == part = "quotas" => Q!TypeOK /\ Q!QuotaHolds
=============================================================================
