---------------------------- MODULE HorizonStream ----------------------------
(***************************************************************************)
(* The SSE connection to Horizon's ledger stream                           *)
(* (src/src/modules/blockchain-indexer/services/horizon-stream.service.ts):*)
(* start, stop and resetCursor with their awaits, one stream loop per      *)
(* connection, and the reconnect timer.                                    *)
(*                                                                         *)
(* A paging token is the number of the ledger it belongs to, and "now" on  *)
(* a cold start is left to LedgerIndexer.  An abort ends a loop at once:   *)
(* the rejection is a microtask, it runs before the next network event and *)
(* finds that the loop's controller is no longer the current one.          *)
(***************************************************************************)
EXTENDS Integers, FiniteSets

CONSTANTS
    Slots,      \* calls of start and resetCursor that may be awaiting at the same time
    Overlap,    \* whether start may be called while an earlier start still awaits
    Resets,     \* the ledgers resetCursor may be called with
    MaxLedger,  \* bound on the ledgers that close
    MaxCalls,   \* bound on the calls of start, stop and resetCursor
    MaxFaults   \* bound on failed fetches, ended streams and failed writes

ASSUME StreamAssumption ==
    /\ Overlap \in BOOLEAN
    /\ MaxLedger \in Nat /\ MaxCalls \in Nat /\ MaxFaults \in Nat
    /\ Resets \subseteq 0..MaxLedger

VARIABLES
    stopping,       \* stopping
    reconnectTimer, \* whether reconnectTimer is set
    current,        \* currentController, as the number of its connection; 0 for null
    connected,      \* connected
    cursor,         \* cursor
    attempts,       \* reconnectAttempts
    loop,           \* the stream loops that run: number |-> [pc, from]
    opened,         \* connections opened so far
    call,           \* Slots -> the call that awaits
    token,          \* stream_ledger_cursor in indexer_state
    closed,         \* the last ledger that closed
    calls, faults,
    torn            \* history: whether a resetCursor has failed after it moved the cursor

vars == <<stopping, reconnectTimer, current, connected, cursor, attempts, loop, opened,
          call, token, closed, calls, faults, torn>>

\* A slot without a call.
NoCall == [op |-> "none", token |-> 0]

Tokens == 0..MaxLedger

Live == DOMAIN loop

Init ==
    /\ stopping = FALSE /\ reconnectTimer = FALSE /\ current = 0 /\ connected = FALSE
    /\ cursor = 0 /\ attempts = 0
    /\ loop = [k \in {} |-> NoCall] /\ opened = 0
    /\ call = [s \in Slots |-> NoCall]
    /\ token \in Tokens /\ closed = token
    /\ calls = 0 /\ faults = 0 /\ torn = FALSE

----------------------------------------------------------------------------
(* Connections *)

\* The loops without number k.
Without(k) == [j \in Live \ {k} |-> loop[j]]

\* connect: a new controller and a loop that asks for the ledgers after c.
Connect(c, others) ==
    \/ /\ stopping
       /\ loop' = others
       /\ UNCHANGED <<current, opened>>
    \/ /\ ~stopping
       /\ opened' = opened + 1
       /\ current' = opened + 1
       /\ loop' = [j \in DOMAIN others \cup {opened + 1} |->
                     IF j = opened + 1 THEN [pc |-> "fetch", from |-> c] ELSE others[j]]

----------------------------------------------------------------------------
(* Calls *)

Called == calls < MaxCalls /\ calls' = calls + 1

Starting == \E s \in Slots : call[s].op \in {"start", "started"}

\* Mutant: the guard forgets the timer that is already set.
StartDespiteTimer(s) ==
    /\ Called
    /\ call[s] = NoCall /\ (Overlap \/ ~Starting)
    /\ current = 0
    /\ stopping' = FALSE
    /\ attempts' = 0
    /\ call' = [call EXCEPT ![s] = [op |-> "start", token |-> 0]]
    /\ UNCHANGED <<reconnectTimer, current, connected, cursor, loop, opened, token, closed,
                   faults, torn>>

\* start: nothing when a connection or a timer exists; else read the state.
Start(s) ==
    /\ Called
    /\ call[s] = NoCall /\ (Overlap \/ ~Starting)
    /\ current = 0 /\ ~reconnectTimer
    /\ stopping' = FALSE
    /\ attempts' = 0
    /\ call' = [call EXCEPT ![s] = [op |-> "start", token |-> 0]]
    /\ UNCHANGED <<reconnectTimer, current, connected, cursor, loop, opened, token, closed,
                   faults, torn>>

\* The read of the paging token, made while start awaits.
GetLedgerPagingToken(s) ==
    /\ call[s].op = "start"
    /\ call' = [call EXCEPT ![s] = [op |-> "started", token |-> token]]
    /\ UNCHANGED <<stopping, reconnectTimer, current, connected, cursor, attempts, loop,
                   opened, token, closed, calls, faults, torn>>

\* start after its await.
StartConnect(s) ==
    /\ call[s].op = "started"
    /\ cursor' = call[s].token
    /\ Connect(call[s].token, loop)
    /\ call' = [call EXCEPT ![s] = NoCall]
    /\ UNCHANGED <<stopping, reconnectTimer, connected, attempts, token, closed, calls,
                   faults, torn>>

\* stop: clear the timer and abort the current connection.
Stop ==
    /\ Called
    /\ stopping' = TRUE
    /\ reconnectTimer' = FALSE
    /\ loop' = Without(current)
    /\ current' = 0
    /\ connected' = FALSE
    /\ UNCHANGED <<cursor, attempts, opened, call, token, closed, faults, torn>>

\* resetCursor up to its await.
ResetCursor(s, c) ==
    /\ Called
    /\ call[s] = NoCall
    /\ cursor' = c
    /\ call' = [call EXCEPT ![s] = [op |-> "reset", token |-> c]]
    /\ UNCHANGED <<stopping, reconnectTimer, current, connected, attempts, loop, opened,
                   token, closed, faults, torn>>

\* resetCursor after its await: the token is written, and a connection that
\* exists is replaced by one that starts at this.cursor.
ResetCursorWritten(s) ==
    /\ call[s].op = "reset"
    /\ token' = call[s].token
    /\ call' = [call EXCEPT ![s] = NoCall]
    /\ \/ /\ current # 0
          /\ connected' = FALSE
          /\ Connect(cursor, Without(current))
       \/ /\ current = 0
          /\ UNCHANGED <<connected, current, loop, opened, torn>>
    /\ UNCHANGED <<stopping, reconnectTimer, cursor, attempts, closed, calls, faults, torn>>

\* A call whose statement fails: it throws and leaves what it has set.
CallFails(s) ==
    /\ faults < MaxFaults
    /\ call[s].op \in {"start", "reset"}
    /\ call' = [call EXCEPT ![s] = NoCall]
    /\ faults' = faults + 1
    /\ torn' = (torn \/ call[s].op = "reset")
    /\ UNCHANGED <<stopping, reconnectTimer, current, connected, cursor, attempts, loop,
                   opened, token, closed, calls>>

----------------------------------------------------------------------------
(* The stream loop of connection k *)

\* streamLoop: Horizon accepts the request.
FetchSucceeds(k) ==
    /\ loop[k].pc = "fetch"
    /\ loop' = [loop EXCEPT ![k].pc = "read"]
    /\ connected' = TRUE
    /\ UNCHANGED <<stopping, reconnectTimer, current, cursor, attempts, opened, call,
                   token, closed, calls, faults, torn>>

\* processLine and handleLedgerRecord: the next ledger arrives.
HandleLedgerRecord(k) ==
    /\ loop[k].pc = "read" /\ loop[k].from < closed
    /\ loop' = [loop EXCEPT ![k].from = @ + 1]
    /\ cursor' = loop[k].from + 1
    /\ attempts' = 0
    /\ UNCHANGED <<stopping, reconnectTimer, current, connected, opened, call, token,
                   closed, calls, faults, torn>>

\* Mutant: only a loop that was reading schedules a reconnect.
EndOnlyReaders(k) ==
    /\ faults < MaxFaults
    /\ faults' = faults + 1
    /\ loop' = Without(k)
    /\ connected' = FALSE
    /\ current' = (IF current = k THEN 0 ELSE current)
    /\ LET reconnect == current = k /\ ~stopping /\ ~reconnectTimer /\ loop[k].pc = "read"
       IN  /\ reconnectTimer' = (reconnectTimer \/ reconnect)
           /\ attempts' = IF reconnect THEN attempts + 1 ELSE attempts
    /\ UNCHANGED <<stopping, cursor, opened, call, token, closed, calls, torn>>

\* The end of streamLoop, after a refused or broken request or at the end of
\* the stream: only the current controller's loop schedules a reconnect.
StreamEnds(k) ==
    /\ faults < MaxFaults
    /\ faults' = faults + 1
    /\ loop' = Without(k)
    /\ connected' = FALSE
    /\ current' = (IF current = k THEN 0 ELSE current)
    /\ LET reconnect == current = k /\ ~stopping /\ ~reconnectTimer
       IN  /\ reconnectTimer' = (reconnectTimer \/ reconnect)
           /\ attempts' = IF reconnect THEN attempts + 1 ELSE attempts
    /\ UNCHANGED <<stopping, cursor, opened, call, token, closed, calls, torn>>

\* The callback of reconnectTimer.
Reconnect ==
    /\ reconnectTimer
    /\ reconnectTimer' = FALSE
    /\ Connect(cursor, loop)
    /\ UNCHANGED <<stopping, connected, cursor, attempts, call, token, closed,
                   calls, faults, torn>>

\* A ledger closes on the network.
LedgerCloses ==
    /\ closed < MaxLedger
    /\ closed' = closed + 1
    /\ UNCHANGED <<stopping, reconnectTimer, current, connected, cursor, attempts, loop,
                   opened, call, token, calls, faults, torn>>

----------------------------------------------------------------------------
Calls(s) ==
    \/ Start(s)
    \/ \E c \in Resets : ResetCursor(s, c)

Resumes(s) ==
    \/ GetLedgerPagingToken(s)
    \/ StartConnect(s)
    \/ ResetCursorWritten(s)

Reads(k) == FetchSucceeds(k) \/ HandleLedgerRecord(k)

Next ==
    \/ \E s \in Slots : Calls(s) \/ Resumes(s) \/ CallFails(s)
    \/ Stop
    \/ \E k \in Live : Reads(k) \/ StreamEnds(k)
    \/ Reconnect
    \/ LedgerCloses

Spec == Init /\ [][Next]_vars

\* The database and Horizon answer in the end, timers fire, and a ledger that
\* has closed is streamed to an open connection.
FairSpec ==
    /\ Spec
    /\ \A s \in Slots : WF_vars(Resumes(s))
    /\ WF_vars(Reconnect)
    /\ WF_vars(\E k \in Live : Reads(k))

----------------------------------------------------------------------------
(* Properties *)

TypeOK ==
    /\ stopping \in BOOLEAN /\ reconnectTimer \in BOOLEAN /\ connected \in BOOLEAN
    /\ opened \in Nat /\ current \in 0..opened
    /\ cursor \in Tokens /\ token \in Tokens /\ closed \in Tokens
    /\ attempts \in 0..MaxFaults
    /\ Live \subseteq 1..opened
    /\ \A k \in Live : loop[k] \in [pc : {"fetch", "read"}, from : Tokens]
    /\ call \in [Slots -> [op : {"none", "start", "started", "reset"}, token : Tokens]]
    /\ calls \in 0..MaxCalls /\ faults \in 0..MaxFaults /\ torn \in BOOLEAN

\* There is one connection: every loop that still runs belongs to the current
\* controller, and no reconnect is due while it runs ("Stale loops ... must
\* not race the new connection").
OneConnection ==
    /\ Live = (IF current = 0 THEN {} ELSE {current})
    /\ reconnectTimer => current = 0

\* Once stop has returned nothing runs, nothing is due, and the stream does not
\* call itself connected, whatever was awaiting when it was called.
StoppedIsSilent == stopping => Live = {} /\ ~reconnectTimer /\ ~connected

\* isConnected tells the truth about the connection in use.
ConnectedIsTrue ==
    connected <=> current # 0 /\ current \in Live /\ loop[current].pc = "read"

\* A stream that has lost its connection gets it back, and every ledger that
\* has closed reaches the connection in use, unless the stream is stopped.
LedgersAreDelivered ==
    \A n \in Tokens :
        (closed >= n /\ current # 0)
            ~> (stopping \/ (current \in Live /\ loop[current].from >= n))

-----------------------------------------------------------------------------
(* What the repository states and the code does not always keep: the cases are
   listed in the README. *)

\* The connection that resetCursor opens starts at the requested cursor
\* ("Restart the connection to pick up from the new cursor").
ResetIsHonoured ==
    [][\A s \in Slots :
          (call[s].op = "reset" /\ call'[s] = NoCall /\ opened' # opened)
              => loop'[current'].from = call[s].token]_vars

\* "Consecutive reconnect attempts; reset after a successful connect".
AttemptsResetOnConnect == [][(~connected /\ connected') => attempts' = 0]_vars
=============================================================================
