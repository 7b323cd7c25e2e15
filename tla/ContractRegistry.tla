-------------------------- MODULE ContractRegistry --------------------------
(***************************************************************************)
(* The registry of deployed contracts and the upgrades that change it      *)
(* (soroban/contract-registry.service.ts, contract-upgrade.manager.ts).    *)
(* The registry is in memory and its operations are synchronous; an        *)
(* upgrade awaits the network between its steps, so several of them and    *)
(* other registrations interleave.                                         *)
(***************************************************************************)
EXTENDS Integers, FiniteSets

CONSTANTS
    Contracts,      \* contract ids
    Kinds,          \* contract types
    Upgraders,      \* upgrades that may run at the same time
    MaxRegistrations \* bound on registrations made outside an upgrade

VARIABLES
    registry,       \* the metadata of each id: type and isActive
    typeIndex,      \* the ids ever registered under a type
    stateful,       \* contracts that hold storage entries on chain; never changes
    cached,         \* contracts with an entry in the cache of ContractStateService
    onChain,        \* ids in use on chain
    upgrades,       \* the upgrades under way
    registrations,
    live,           \* history: types that have had an active contract
    retyped         \* history: types of ids that were registered again

vars == <<registry, typeIndex, stateful, cached, onChain, upgrades, registrations, live, retyped>>
indexVars == <<typeIndex, retyped>>
chainVars == <<stateful, onChain>>

Unknown == [kind |-> "none", active |-> FALSE]
Registered(c) == registry[c] # Unknown
Active(k) == {c \in Contracts : registry[c].kind = k /\ registry[c].active}
Idle == [pc |-> "idle"]

TypeOK ==
    /\ registry \in [Contracts -> [kind : Kinds, active : BOOLEAN] \cup {Unknown}]
    /\ typeIndex \in [Kinds -> SUBSET Contracts]
    /\ live \subseteq Kinds

Init ==
    /\ registry = [c \in Contracts |-> Unknown]
    /\ typeIndex = [k \in Kinds |-> {}]
    /\ stateful \in SUBSET Contracts /\ onChain = stateful /\ cached = {}
    /\ upgrades = [u \in Upgraders |-> Idle]
    /\ registrations = 0 /\ live = {} /\ retyped = {}

\* Mutant: the id filed first is passed over.
DeactivatedButOne(reg, k, c) ==
    LET others == typeIndex[k] \ {c}
        first == CHOOSE d \in others : TRUE
    IN [d \in Contracts |-> IF d \in others /\ d # first
                            THEN [reg[d] EXCEPT !.active = FALSE] ELSE reg[d]]

\* What register and setActive do to the other ids filed under a type.
Deactivated(reg, k, c) ==
    [d \in Contracts |-> IF d # c /\ d \in typeIndex[k]
                         THEN [reg[d] EXCEPT !.active = FALSE] ELSE reg[d]]

\* register; the ids of the old type keep the entry of an id that changes type.
Register(c, k, active) ==
    /\ registrations < MaxRegistrations
    /\ registrations' = registrations + 1
    /\ registry' = [(IF active THEN Deactivated(registry, k, c) ELSE registry)
                    EXCEPT ![c] = [kind |-> k, active |-> active]]
    /\ typeIndex' = [typeIndex EXCEPT ![k] = @ \cup {c}]
    /\ live' = IF active THEN live \cup {k} ELSE live
    /\ retyped' = IF Registered(c) THEN retyped \cup {registry[c].kind, k} ELSE retyped
    /\ UNCHANGED <<chainVars, cached, upgrades>>

SetActive(c) ==
    /\ registry' = [Deactivated(registry, registry[c].kind, c) EXCEPT ![c].active = TRUE]
    /\ live' = live \cup {registry[c].kind}

\* rollbackUpgrade, whatever happened since the upgrade.
RollbackUpgrade(c) ==
    /\ Registered(c)
    /\ SetActive(c)
    /\ UNCHANGED <<indexVars, chainVars, cached, upgrades, registrations>>

\* getState reads an entry into the cache; the time to live or invalidate ends it.
GetState(c) ==
    /\ c \in stateful \ cached
    /\ cached' = cached \cup {c}
    /\ UNCHANGED <<registry, indexVars, chainVars, upgrades, registrations, live>>

Invalidate(c) ==
    /\ c \in cached
    /\ cached' = cached \ {c}
    /\ UNCHANGED <<registry, indexVars, chainVars, upgrades, registrations, live>>

\* checkStateCompatibility: no storage key of the old contract is missing from
\* the new one, which has none yet.  Both are looked up in the cache.
StateCompatible(c) == c \notin cached

\* createUpgradePlan passed its checks; the source account is funded.
CreateUpgradePlan(u, c) ==
    /\ upgrades[u].pc = "idle" /\ Registered(c) /\ StateCompatible(c)
    /\ upgrades' = [upgrades EXCEPT ![u] = [pc |-> "deploy", old |-> c]]
    /\ onChain' = onChain \cup {c}
    /\ UNCHANGED <<registry, indexVars, stateful, cached, registrations, live>>

\* executeUpgrade: uploadWasm and instantiate.  An operator may have registered
\* the id the network gives ahead.
Deploy(u, d) ==
    /\ upgrades[u].pc = "deploy" /\ d \notin onChain
    /\ onChain' = onChain \cup {d}
    /\ upgrades' = [upgrades EXCEPT ![u] = [pc |-> "migrate", old |-> @.old, new |-> d]]
    /\ UNCHANGED <<registry, indexVars, stateful, cached, registrations, live>>

\* An error of the network, or of migrateContractState: any cached entry fails
\* the upgrade, after the new contract is on chain.
UpgradeFails(u) ==
    /\ \/ upgrades[u].pc = "deploy"
       \/ upgrades[u].pc = "migrate" /\ upgrades[u].old \in cached
    /\ upgrades' = [upgrades EXCEPT ![u] = Idle]
    /\ UNCHANGED <<registry, indexVars, chainVars, cached, registrations, live>>

\* The new id takes the type the old one has now; both calls in one step.
UpdateRegistry(u) ==
    LET old == upgrades[u].old
        new == upgrades[u].new
        kind == IF Registered(new) THEN registry[new].kind ELSE registry[old].kind
    IN
    /\ upgrades[u].pc = "migrate" /\ old \notin cached
    /\ typeIndex' = [typeIndex EXCEPT ![kind] = @ \cup {new}]
    /\ registry' = [Deactivated(registry, kind, new) EXCEPT ![new] = [kind |-> kind, active |-> TRUE]]
    /\ live' = live \cup {kind}
    /\ upgrades' = [upgrades EXCEPT ![u] = Idle]
    /\ UNCHANGED <<chainVars, cached, registrations, retyped>>

Next ==
    \/ \E c \in Contracts, k \in Kinds, active \in BOOLEAN : Register(c, k, active)
    \/ \E c \in Contracts : RollbackUpgrade(c) \/ GetState(c) \/ Invalidate(c)
    \/ \E u \in Upgraders :
        \/ \E c \in Contracts : CreateUpgradePlan(u, c) \/ Deploy(u, c)
        \/ UpgradeFails(u) \/ UpdateRegistry(u)

Spec == Init /\ [][Next]_vars

-----------------------------------------------------------------------------
\* "One active version per type", through interleaved upgrades, rollbacks and
\* registrations: never two, and never none once there was one, as long as no
\* id of the type is registered again.
OneActiveVersion ==
    \A k \in Kinds :
        /\ Cardinality(Active(k)) <= 1
        /\ k \in live \ retyped => Active(k) # {}
=============================================================================
