--------------------------- MODULE StellarGateway ---------------------------
(***************************************************************************)
(* The gateway to Horizon (stellar/gateway): a bounded queue, a bounded    *)
(* number of requests at work, a pool of connections they take, wait for   *)
(* and give back, and a rate limiter.  One client.  JavaScript runs a step *)
(* up to its next await without interruption.                              *)
(***************************************************************************)
EXTENDS Integers, Sequences, SequencesExt, FiniteSets

CONSTANTS
    GatewayRequests,  \* the requests of a behaviour
    QUEUE_MAX, CONCURRENT_MAX, POOL_MIN, POOL_MAX, PER_MINUTE, BURST_LIMIT,
    MaxMinutes        \* bound on rate limit windows

VARIABLES
    waitingLine,      \* the queue
    progress,         \* what became of each request
    conns,            \* the pool: the connections and whether each is in use
    holds,            \* the connection of a request, 0 when it has none
    activeRequests,
    windowCount,      \* requests of the client in its window
    submitted,        \* requests whose transaction reached the network
    minutes

vars == <<waitingLine, progress, conns, holds, activeRequests, windowCount, submitted, minutes>>

\* Every operation takes its connection first and gives it back when the call
\* ends, well or not.
States == {"new", "queued", "waiting", "calling", "done", "refused", "failed"}
ConnIds == 1 .. POOL_MAX
Absent == "absent"
PoolSize == Cardinality({c \in ConnIds : conns[c] # Absent})
IdleConns == {c \in ConnIds : conns[c] = "idle"}

TypeOK ==
    /\ progress \in [GatewayRequests -> States]
    /\ conns \in [ConnIds -> {Absent, "idle", "busy"}]
    /\ holds \in [GatewayRequests -> 0 .. POOL_MAX]
    /\ activeRequests \in 0 .. CONCURRENT_MAX

Init ==
    /\ waitingLine = <<>>
    /\ progress = [r \in GatewayRequests |-> "new"]
    /\ conns = [c \in ConnIds |-> IF c <= POOL_MIN THEN "idle" ELSE Absent]
    /\ holds = [r \in GatewayRequests |-> 0]
    /\ activeRequests = 0 /\ windowCount = 0 /\ submitted = {} /\ minutes = 0

Becomes(r, state) == progress' = [progress EXCEPT ![r] = state]

Enqueue(r) ==
    /\ progress[r] = "new"
    /\ IF Len(waitingLine) >= QUEUE_MAX
       THEN Becomes(r, "refused") /\ UNCHANGED waitingLine
       ELSE Becomes(r, "queued") /\ waitingLine' = Append(waitingLine, r)
    /\ UNCHANGED <<conns, holds, activeRequests, windowCount, submitted, minutes>>

\* acquireConnection: an idle connection, else a new one, else wait.
Acquire(r, c) ==
    /\ \/ conns[c] = "idle"
       \/ conns[c] = Absent /\ IdleConns = {} /\ PoolSize < POOL_MAX
    /\ conns' = [conns EXCEPT ![c] = "busy"]
    /\ holds' = [holds EXCEPT ![r] = c]
    /\ Becomes(r, "calling")

AwaitConnection(r) ==
    /\ IdleConns = {} /\ PoolSize >= POOL_MAX
    /\ Becomes(r, "waiting")
    /\ UNCHANGED <<conns, holds>>

\* One pass of the loop of processQueue.
ProcessQueue ==
    /\ waitingLine # <<>> /\ activeRequests < CONCURRENT_MAX
    /\ waitingLine' = Tail(waitingLine)
    /\ activeRequests' = activeRequests + 1
    /\ LET r == Head(waitingLine) IN
          (\E c \in ConnIds : Acquire(r, c)) \/ AwaitConnection(r)
    /\ UNCHANGED <<windowCount, submitted, minutes>>

\* Mutant: the connection is not marked when the wait ends.
FoundUnmarked(r) ==
    /\ progress[r] = "waiting"
    /\ \E c \in ConnIds : conns[c] = "idle" /\ holds' = [holds EXCEPT ![r] = c]
    /\ Becomes(r, "calling")
    /\ UNCHANGED <<waitingLine, conns, activeRequests, windowCount, submitted, minutes>>

\* The interval of a waiting request finds a connection that was given back.
FoundConnection(r) ==
    /\ progress[r] = "waiting"
    /\ \E c \in ConnIds :
          /\ conns[c] = "idle"
          /\ conns' = [conns EXCEPT ![c] = "busy"]
          /\ holds' = [holds EXCEPT ![r] = c]
    /\ Becomes(r, "calling")
    /\ UNCHANGED <<waitingLine, activeRequests, windowCount, submitted, minutes>>

Release(r) ==
    /\ conns' = [conns EXCEPT ![holds[r]] = IF @ = Absent THEN @ ELSE "idle"]
    /\ holds' = [holds EXCEPT ![r] = 0]
    /\ activeRequests' = activeRequests - 1

\* executeWithMonitoring checks the limits once Horizon has answered: a request
\* over them was sent all the same and is reported as refused.
Limited == windowCount >= PER_MINUTE \/ activeRequests >= BURST_LIMIT

Answered(r) ==
    /\ progress[r] = "calling"
    /\ Release(r)
    /\ Becomes(r, IF Limited THEN "refused" ELSE "done")
    /\ windowCount' = IF windowCount >= PER_MINUTE THEN windowCount ELSE windowCount + 1
    /\ UNCHANGED <<waitingLine, minutes>>

\* getTransaction reads in the same way.
GetAccount(r) == Answered(r) /\ UNCHANGED submitted

\* A settlement loads the account and builds the payment, which it never signs or
\* submits: the hash it answers with is made up.
ExecuteSettlement(r) == Answered(r) /\ UNCHANGED submitted

SubmitTransaction(r) == Answered(r) /\ submitted' = submitted \cup {r}

\* The answer to a submit that reached the network may be lost.
SubmitLost(r) ==
    /\ progress[r] = "calling"
    /\ Release(r)
    /\ Becomes(r, "failed")
    /\ submitted' = submitted \cup {r}
    /\ UNCHANGED <<waitingLine, windowCount, minutes>>

\* Mutant: the error path forgets the connection.
FailsHolding(r) ==
    /\ progress[r] = "calling"
    /\ activeRequests' = activeRequests - 1
    /\ Becomes(r, "failed")
    /\ UNCHANGED <<waitingLine, conns, holds, windowCount, submitted, minutes>>

HorizonFails(r) ==
    /\ progress[r] = "calling"
    /\ Release(r)
    /\ Becomes(r, "failed")
    /\ UNCHANGED <<waitingLine, windowCount, submitted, minutes>>

\* cleanupIdleConnections: one idle or old connection, never below the minimum.
CleanupIdle(c) ==
    /\ conns[c] = "idle" /\ PoolSize > POOL_MIN
    /\ conns' = [conns EXCEPT ![c] = Absent]
    /\ UNCHANGED <<waitingLine, progress, holds, activeRequests, windowCount, submitted, minutes>>

\* The minute is over: cleanupOldWindows, or the next check, starts another.
WindowEnds ==
    /\ windowCount > 0 /\ minutes < MaxMinutes
    /\ windowCount' = 0 /\ minutes' = minutes + 1
    /\ UNCHANGED <<waitingLine, progress, conns, holds, activeRequests, submitted>>

\* An administrator clears the queue; requests at work go on.
ClearQueue ==
    /\ waitingLine # <<>>
    /\ progress' = [r \in GatewayRequests |->
                       IF r \in Range(waitingLine) THEN "refused" ELSE progress[r]]
    /\ waitingLine' = <<>>
    /\ UNCHANGED <<conns, holds, activeRequests, windowCount, submitted, minutes>>

Next ==
    \/ \E r \in GatewayRequests :
        \/ Enqueue(r) \/ FoundConnection(r) \/ HorizonFails(r)
        \/ GetAccount(r) \/ ExecuteSettlement(r) \/ SubmitTransaction(r) \/ SubmitLost(r)
    \/ ProcessQueue \/ ClearQueue \/ WindowEnds
    \/ \E c \in ConnIds : CleanupIdle(c)

Spec == Init /\ [][Next]_vars

\* The intervals keep firing and Horizon answers or its client times out.
Step(r) ==
    \/ FoundConnection(r) \/ HorizonFails(r)
    \/ GetAccount(r) \/ ExecuteSettlement(r) \/ SubmitTransaction(r) \/ SubmitLost(r)

-----------------------------------------------------------------------------
\* No connection is used by two requests or lost: those in use are exactly the
\* ones held by requests at work, one each, and every slot counted as active has
\* a request in it, so neither leaks through waits, failures and cleanups.
ConnectionsAreExclusive ==
    LET calling == {r \in GatewayRequests : progress[r] = "calling"}
        waiting == {r \in GatewayRequests : progress[r] = "waiting"}
    IN /\ \A r, s \in calling : r # s => holds[r] # holds[s]
       /\ {holds[r] : r \in calling} = {c \in ConnIds : conns[c] = "busy"}
       /\ Cardinality(calling \cup waiting) = activeRequests
       /\ PoolSize >= POOL_MIN

\* Every request that is queued gets an answer: it reaches a slot and a
\* connection however many wait, fail or are cleaned up before it.
RequestsAnswered ==
    \A r \in GatewayRequests :
        progress[r] = "queued" ~> progress[r] \in {"done", "refused", "failed"}
=============================================================================
