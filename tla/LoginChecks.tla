---------------------------- MODULE LoginChecks ----------------------------
(***************************************************************************)
(* What stands before a session (src/src/modules/auth): the lockout of     *)
(* AuthRateLimiterService around login, and the challenge of               *)
(* StellarAuthService with its quota and its purge.  The session itself is *)
(* in Sessions.                                                            *)
(*                                                                         *)
(* Every request is a call of a caller's slot; a step of a call runs from  *)
(* one await to the next.  Challenges of one key are numbered in the order *)
(* of insertion: "unused" until "used", "expired" or "deleted".            *)
(***************************************************************************)
EXTENDS Integers, Sequences, FiniteSets, FiniteSetsExt

CONSTANTS
    Callers,        \* the requests in flight at a time
    MAX_FAILURES,   \* failures that lock an account
    CHALLENGE_MAX,  \* challenges a key may ask for in a window
    MaxChallenges,  \* bound on the challenges inserted
    MaxCallCrashes  \* bound on the calls that end between two steps

VARIABLES
    challenges,     \* stellar_auth_challenges: statuses
    failCount,      \* auth:fail:<email> in Redis
    lockKey,        \* auth:lock:<email> in Redis
    quota,          \* auth:stellar-challenge:key:<key> in Redis
    loginCalls,     \* the calls in flight
    accepted,       \* history: [nonce, superseded] of every wallet login
    lockLost        \* calls that ended between two steps

redis == <<failCount, lockKey, quota>>
vars == <<challenges, failCount, lockKey, quota, loginCalls, accepted, lockLost>>

StellarAuthChallenge == {"unused", "used", "expired", "deleted"}

TypeOK ==
    /\ challenges \in Seq(StellarAuthChallenge)
    /\ failCount \in Nat /\ lockKey \in BOOLEAN
    /\ quota \in 0..(CHALLENGE_MAX + 1)

NoCall == [at |-> "idle", id |-> 0, newer |-> {}]

Init ==
    /\ challenges = <<>>
    /\ failCount = 0 /\ lockKey = FALSE /\ quota = 0
    /\ loginCalls = [c \in Callers |-> NoCall]
    /\ accepted = <<>> /\ lockLost = 0

At(c, step) == loginCalls[c].at = step

\* A request reaches the service: a call starts at step, about challenge id.
Start(c, step, id) ==
    /\ At(c, "idle")
    /\ loginCalls' = [loginCalls EXCEPT ![c] =
          [at |-> step, id |-> id,
           newer |-> {n \in DOMAIN challenges : n > id /\ challenges[n] = "unused"}]]

Goto(c, step) == loginCalls' = [loginCalls EXCEPT ![c].at = step]
Finish(c) == loginCalls' = [loginCalls EXCEPT ![c] = NoCall]

----------------------------------------------------------------------------
(* Password login *)

\* login up to isLockedOut; a Redis error counts as not locked, which is the
\* other answer of an attempt at an unlocked account.
LoginCheck(c) ==
    /\ ~lockKey
    /\ Start(c, "compare", 0)
    /\ UNCHANGED <<challenges, redis, accepted, lockLost>>

\* The user is read and the password compared with the stored hash.
LoginCompare(c, right) ==
    /\ At(c, "compare")
    /\ loginCalls' = [loginCalls EXCEPT ![c].at = IF right THEN "clear" ELSE "count"]
    /\ UNCHANGED <<challenges, redis, accepted, lockLost>>

\* recordFailure, first command: the counter; the limit asks for a second.
RecordFailure(c) ==
    /\ At(c, "count")
    /\ failCount' = failCount + 1
    /\ IF failCount + 1 >= MAX_FAILURES THEN Goto(c, "lock") ELSE Finish(c)
    /\ UNCHANGED <<challenges, lockKey, quota, accepted, lockLost>>

\* recordFailure, second command: the lock.
SetLock(c) ==
    /\ At(c, "lock")
    /\ lockKey' = TRUE
    /\ Finish(c)
    /\ UNCHANGED <<challenges, failCount, quota, accepted, lockLost>>

\* clearFailures deletes both keys, a lock set since the check included.
ClearFailures(c) ==
    /\ At(c, "clear")
    /\ failCount' = 0 /\ lockKey' = FALSE
    /\ Finish(c)
    /\ UNCHANGED <<challenges, quota, accepted, lockLost>>

\* The keys expire.  The counter's window is shorter than the lock and starts
\* before it, so a lock does not expire while its counter stands.
RedisExpires ==
    /\ \/ failCount > 0 /\ failCount' = 0 /\ UNCHANGED <<lockKey, quota>>
       \/ lockKey /\ failCount < MAX_FAILURES /\ lockKey' = FALSE /\ UNCHANGED <<failCount, quota>>
       \/ quota > 0 /\ quota' = 0 /\ UNCHANGED <<failCount, lockKey>>
    /\ UNCHANGED <<challenges, loginCalls, accepted, lockLost>>

----------------------------------------------------------------------------
(* Wallet login *)

\* stellarChallenge: the quota, which counts refused requests as well (capped
\* where the count stops mattering), then createChallenge, which leaves the
\* older challenges alone.
StellarChallenge ==
    /\ Len(challenges) < MaxChallenges
    /\ quota' = Min({quota + 1, CHALLENGE_MAX + 1})
    /\ challenges' = IF quota + 1 > CHALLENGE_MAX THEN challenges ELSE Append(challenges, "unused")
    /\ UNCHANGED <<failCount, lockKey, loginCalls, accepted, lockLost>>

\* verifyChallenge up to its transaction.
VerifyFind(c, n) ==
    /\ challenges[n] = "unused"
    /\ Start(c, "rowLock", n)
    /\ UNCHANGED <<challenges, redis, accepted, lockLost>>

Locked(n) == \E c \in Callers : loginCalls[c].id = n /\ loginCalls[c].at \in {"newest", "consume"}

\* SELECT ... FOR UPDATE, once no other transaction holds the row, and the
\* checks of the locked row.
VerifyLock(c) ==
    /\ At(c, "rowLock")
    /\ ~Locked(loginCalls[c].id)
    /\ IF challenges[loginCalls[c].id] = "unused" THEN Goto(c, "newest") ELSE Finish(c)
    /\ UNCHANGED <<challenges, redis, accepted, lockLost>>

\* Mutant: any challenge passes.
VerifyAny(c, valid) ==
    /\ At(c, "newest")
    /\ IF valid THEN Goto(c, "consume") ELSE Finish(c)
    /\ UNCHANGED <<challenges, redis, accepted, lockLost>>

\* Only the newest challenge not used passes, with a valid signature.
VerifyNewest(c, valid) ==
    /\ At(c, "newest")
    /\ IF valid /\ loginCalls[c].id = Max({n \in DOMAIN challenges : challenges[n] \in {"unused", "expired"}})
       THEN Goto(c, "consume") ELSE Finish(c)
    /\ UNCHANGED <<challenges, redis, accepted, lockLost>>

\* UPDATE ... WHERE "isUsed" = false, and the commit; the user is found or
\* created, and tokens are issued (Sessions).
VerifyConsume(c) ==
    LET n == loginCalls[c].id IN
    /\ At(c, "consume")
    /\ IF challenges[n] \in {"unused", "expired"}
       THEN /\ challenges' = [challenges EXCEPT ![n] = "used"]
            /\ accepted' = Append(accepted, [nonce |-> n,
                  superseded |-> \E k \in loginCalls[c].newer : challenges[k] = "unused"])
            /\ Finish(c)
       ELSE Finish(c) /\ UNCHANGED <<challenges, accepted>>
    /\ UNCHANGED <<redis, lockLost>>

----------------------------------------------------------------------------
(* Time and failures *)

\* Challenges expire in the order they were issued.
ChallengeExpires(n) ==
    /\ challenges[n] = "unused"
    /\ \A k \in 1..(n - 1) : challenges[k] # "unused"
    /\ challenges' = [challenges EXCEPT ![n] = "expired"]
    /\ UNCHANGED <<redis, loginCalls, accepted, lockLost>>

\* cleanupExpiredCredentials: the DELETE waits for a row that a transaction
\* has locked.
PurgeChallenges ==
    /\ \A n \in DOMAIN challenges : Locked(n) => challenges[n] = "unused"
    /\ \E n \in DOMAIN challenges : challenges[n] \in {"expired", "used"}
    /\ challenges' = [n \in DOMAIN challenges |->
                        IF challenges[n] = "unused" THEN "unused" ELSE "deleted"]
    /\ UNCHANGED <<redis, loginCalls, accepted, lockLost>>

\* A call ends between two of its steps: an error of Redis, which is logged
\* and swallowed, or of the database, or the end of the process.
CallEnds(c) ==
    /\ lockLost < MaxCallCrashes
    /\ ~At(c, "idle")
    /\ lockLost' = lockLost + 1
    /\ Finish(c)
    /\ UNCHANGED <<challenges, redis, accepted>>

Next ==
    \/ \E c \in Callers :
          \/ LoginCheck(c) \/ RecordFailure(c) \/ SetLock(c) \/ ClearFailures(c)
          \/ \E right \in BOOLEAN : LoginCompare(c, right)
          \/ VerifyLock(c) \/ VerifyConsume(c)
          \/ \E valid \in BOOLEAN : VerifyNewest(c, valid)
          \/ CallEnds(c)
    \/ \E n \in DOMAIN challenges :
          ChallengeExpires(n) \/ \E c \in Callers : VerifyFind(c, n)
    \/ StellarChallenge \/ RedisExpires \/ PurgeChallenges

Spec == Init /\ [][Next]_vars

----------------------------------------------------------------------------
(* Properties *)

\* A challenge logs in once, over two requests with the same signed nonce and
\* the purge, and never when a newer challenge, issued before the request
\* came, was still there to be used (verifyChallenge's transaction).
ChallengeUsedOnce ==
    /\ \A i, j \in DOMAIN accepted : accepted[i].nonce = accepted[j].nonce => i = j
    /\ \A i \in DOMAIN accepted : ~accepted[i].superseded

\* A counter at the limit has locked the account, or the request that
\* counted it is about to (recordFailure's two commands).
LockoutArmed ==
    (lockLost = 0 /\ failCount >= MAX_FAILURES) =>
        lockKey \/ \E c \in Callers : At(c, "lock")
=============================================================================
