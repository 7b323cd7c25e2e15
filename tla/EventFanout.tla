---------------------------- MODULE EventFanout -----------------------------
(***************************************************************************)
(* The way of indexed events to websocket clients: the events of one       *)
(* transaction are numbered, pushed into the in-memory buffer and drained  *)
(* from it, then handed to every subscription they match                   *)
(* (ledger-indexer, event-buffer, subscription-manager, event-websocket    *)
(* gateway).  None of it waits: a transaction is one step, and clients     *)
(* come, go and change their subscriptions between two.                    *)
(***************************************************************************)
EXTENDS Integers, Sequences, SequencesExt, FiniteSets

CONSTANTS
    Clients,
    EventTypes,
    BUFFER_MAX,       \* maxBufferSize
    MaxSubscriptions, \* bound on subscriptions made
    MaxEvents,        \* bound on events indexed
    MaxPerTransaction

VARIABLES
    connected,        \* the clients with a socket and a listener
    subscriptions,    \* by id: the client and its filters, Gone once removed
    clientIndex,      \* of each client: the ids of its subscriptions
    numbered,         \* the types of the events so far, by sequence number
    received,         \* history: what each subscription was sent
    since,            \* history: the number of events before each subscription
    evicted           \* history: events the buffer gave up

vars == <<connected, subscriptions, clientIndex, numbered, received, since, evicted>>

Gone == [client |-> "none"]
SubIds == 1 .. Len(subscriptions)
LiveSubs == {s \in SubIds : subscriptions[s] # Gone}

TypeOK ==
    /\ connected \subseteq Clients
    /\ \A c \in Clients : clientIndex[c] \subseteq SubIds
    /\ numbered \in Seq(EventTypes)

Init ==
    /\ connected = {} /\ subscriptions = <<>>
    /\ clientIndex = [c \in Clients |-> {}]
    /\ numbered = <<>> /\ received = <<>> /\ since = <<>> /\ evicted = {}

HandleConnection(c) ==
    /\ c \notin connected /\ connected' = connected \cup {c}
    /\ UNCHANGED <<subscriptions, clientIndex, numbered, received, since, evicted>>

HandleDisconnect(c) ==
    /\ c \in connected /\ connected' = connected \ {c}
    /\ subscriptions' = [s \in SubIds |-> IF s \in clientIndex[c] THEN Gone ELSE subscriptions[s]]
    /\ clientIndex' = [clientIndex EXCEPT ![c] = {}]
    /\ UNCHANGED <<numbered, received, since, evicted>>

\* No types at all stands for every type; an event's number stands for its ledger.
HandleSubscribe(c, types, fromEvent) ==
    /\ c \in connected /\ Len(subscriptions) < MaxSubscriptions
    /\ subscriptions' = Append(subscriptions, [client |-> c, types |-> types, from |-> fromEvent])
    /\ clientIndex' = [clientIndex EXCEPT ![c] = @ \cup {Len(subscriptions) + 1}]
    /\ received' = Append(received, <<>>)
    /\ since' = Append(since, Len(numbered))
    /\ UNCHANGED <<connected, numbered, evicted>>

\* The id alone names the subscription: it need not be the caller's own.
HandleUnsubscribe(c, s) ==
    /\ c \in connected /\ subscriptions[s] # Gone
    /\ subscriptions' = [subscriptions EXCEPT ![s] = Gone]
    /\ clientIndex' = [clientIndex EXCEPT ![subscriptions[s].client] = @ \ {s}]
    /\ UNCHANGED <<connected, numbered, received, since, evicted>>

\* Mutant: the number that comes last is given up instead.
PushDropsLast(order, n) ==
    IF Contains(order, n) THEN order
    ELSE IF Len(order) >= BUFFER_MAX THEN Append(Front(order), n) ELSE Append(order, n)

\* push: a number that is there is a duplicate; a full buffer gives up its lowest
\* number, and the order is sorted again only when the new one is out of place.
Push(order, n) ==
    LET room == IF Len(order) >= BUFFER_MAX THEN Tail(order) ELSE order
        added == Append(room, n)
    IN IF Contains(order, n) THEN order
       ELSE IF Len(added) > 1 /\ added[Len(added) - 1] > n THEN SortSeq(added, <) ELSE added

\* pushBatch and drain: what is left in the buffer when all events were pushed.
PushBatch(first, last) ==
    LET order[n \in first - 1 .. last] == IF n = first - 1 THEN <<>> ELSE Push(order[n - 1], n)
    IN order[last]

MatchesSubscription(type, n, sub) ==
    /\ sub.types = {} \/ type \in sub.types
    /\ n >= sub.from

\* distributeEvent reaches a client through its listener.
Reaches(s, type, n) ==
    /\ s \in LiveSubs /\ subscriptions[s].client \in connected
    /\ MatchesSubscription(type, n, subscriptions[s])

\* What a subscription was sent once the events have been distributed, one by one.
DistributeTo(s, events, types) ==
    LET out[k \in 0 .. Len(events)] ==
            IF k = 0 THEN received[s]
            ELSE IF Reaches(s, types[events[k]], events[k]) THEN Append(out[k - 1], events[k])
            ELSE out[k - 1]
    IN out[Len(events)]

\* The events of one transaction.
PersistAndDistribute(types) ==
    LET first == Len(numbered) + 1
        last == Len(numbered) + Len(types)
        drained == PushBatch(first, last)
    IN /\ types # <<>> /\ last <= MaxEvents
       /\ numbered' = numbered \o types
       /\ received' = [s \in SubIds |-> DistributeTo(s, drained, numbered \o types)]
       /\ evicted' = evicted \cup ((first .. last) \ Range(drained))
       /\ UNCHANGED <<connected, subscriptions, clientIndex, since>>

Next ==
    \/ \E c \in Clients :
        \/ HandleConnection(c) \/ HandleDisconnect(c)
        \/ \E types \in SUBSET EventTypes, from \in {0, MaxEvents} : HandleSubscribe(c, types, from)
        \/ \E s \in SubIds : HandleUnsubscribe(c, s)
    \/ \E types \in BoundedSeq(EventTypes, MaxPerTransaction) : PersistAndDistribute(types)

Spec == Init /\ [][Next]_vars

-----------------------------------------------------------------------------
\* A subscription is sent exactly the events it asks for that were indexed since
\* it was made, each once and in order, and of one transaction the buffer gives up
\* the first events only, as many as it has no room for.  The reverse index names
\* the live subscriptions of each client, so none outlives its socket.
StreamIsWhole ==
    /\ \A s \in LiveSubs :
          /\ \A i, j \in DOMAIN received[s] : i < j => received[s][i] < received[s][j]
          /\ Range(received[s]) =
                {n \in since[s] + 1 .. Len(numbered) :
                    n \notin evicted /\ MatchesSubscription(numbered[n], n, subscriptions[s])}
    /\ \A c \in Clients : clientIndex[c] = {s \in LiveSubs : subscriptions[s].client = c}
    /\ \A s \in LiveSubs : subscriptions[s].client \in connected
    /\ \A n \in evicted : n + BUFFER_MAX <= Len(numbered)
=============================================================================
