---------------------------- MODULE ServicesProofs ----------------------------
(***************************************************************************)
(* Proofs about the contract registry, the alerts, the orders, the         *)
(* recovery from reorganizations, the pipeline's jobs, the disputes, the   *)
(* plan of a batch, the scheduled reports and the event streams, for any   *)
(* number of them and any bounds.                                          *)
(***************************************************************************)
EXTENDS MCServices, SequenceTheorems, FiniteSetTheorems, WellFoundedInduction, TLAPS

-----------------------------------------------------------------------------
(* Contract versions *)

\* The contract registry is one of the parts of a behaviour, and the others
\* leave its state alone.
LEMMA ContractPart ==
  /\ Init => C!Init
  /\ [Next]_vars => [C!Next]_(C!vars)
  BY DEF Init, Next, vars, contractVars, C!vars

\* A registered contract.
Metadata == [kind : Kinds, active : BOOLEAN]

\* An upgrade under way: the deployment of the new version, then the
\* migration.
Upgrading == [pc : {"deploy"}, old : Contracts] \cup [pc : {"migrate"}, old : Contracts, new : Contracts]

\* Types.
ContractTypes ==
  /\ registry \in [Contracts -> Metadata \cup {C!Unknown}]
  /\ typeIndex \in [Kinds -> SUBSET Contracts]
  /\ live \subseteq Kinds
  /\ upgrades \in [Upgraders -> {C!Idle} \cup Upgrading]

\* An upgrade began with a registered contract, and no contract is ever
\* removed.
OldIsKnown == \A u \in Upgraders : upgrades[u].pc # "idle" => C!Registered(upgrades[u].old)

\* A registered contract is in the index of its type.
Filed == \A c \in Contracts : C!Registered(c) => c \in typeIndex[registry[c].kind]

\* What the index holds is registered, under that type unless the id was
\* registered again under another.
FiledIsKnown ==
  \A k \in Kinds : \A c \in typeIndex[k] :
     C!Registered(c) /\ (registry[c].kind # k => registry[c].kind \in retyped)

\* Two active contracts are never of one type.
OneOfAKind ==
  \A c, d \in Contracts :
     registry[c].active /\ registry[d].active /\ registry[c].kind = registry[d].kind => c = d

\* A type that has had an active contract still has one, unless an id was
\* registered again under another type.
LiveIsServed ==
  \A k \in live : k \notin retyped => \E c \in Contracts : registry[c].active /\ registry[c].kind = k

\* The registry and its index agree.
RegistryOK == Filed /\ FiledIsKnown /\ OneOfAKind /\ LiveIsServed

\* The inductive invariant of the registry. The property speaks of active
\* contracts only; that the deactivation of the others reaches all of them
\* needs the index to be complete (Filed).
ContractInv == ContractTypes /\ OldIsKnown /\ RegistryOK

\* Registered means that the entry is a proper one.
LEMMA KnownIs ==
  ASSUME ContractTypes, NEW c \in Contracts
  PROVE  /\ C!Registered(c) <=> registry[c] \in Metadata
         /\ registry[c].active \in BOOLEAN
         /\ registry[c].active => registry[c] \in Metadata
         /\ registry[c] \in Metadata => registry[c].kind \in Kinds /\ registry[c].active \in BOOLEAN
<1>1. C!Unknown.kind = "none" /\ C!Unknown.active = FALSE BY DEF C!Unknown
<1>2. C!Unknown \notin Metadata BY <1>1, ContractAssumption DEF Metadata
<1>3. registry[c] \in Metadata \cup {C!Unknown} BY DEF ContractTypes
<1>4. registry[c] \in Metadata => registry[c].kind \in Kinds /\ registry[c].active \in BOOLEAN BY DEF Metadata
<1> QED BY <1>1, <1>2, <1>3, <1>4 DEF C!Registered

\* What register, updateRegistry and rollbackUpgrade have in common: id c is
\* stored under type k, active or not, and if it is active the others in the
\* index of k are not.
Files(c, k, act) ==
  /\ registry'[c] \in Metadata /\ registry'[c].kind = k /\ (registry'[c].active <=> act)
  /\ \A d \in Contracts : d # c => registry'[d] = IF act /\ d \in typeIndex[k] THEN [registry[d] EXCEPT !.active = FALSE] ELSE registry[d]
  /\ typeIndex' = [typeIndex EXCEPT ![k] = typeIndex[k] \cup {c}]
  /\ live' = IF act THEN live \cup {k} ELSE live
  /\ retyped \subseteq retyped'
  /\ C!Registered(c) => \/ registry[c].kind \in retyped' /\ k \in retyped'
                        \/ act /\ registry[c].kind = k

\* Such a step keeps registry and index in agreement.
LEMMA FilesInv ==
  ASSUME ContractTypes, RegistryOK, NEW c \in Contracts, NEW k \in Kinds, NEW act \in BOOLEAN, Files(c, k, act),
         registry' \in [Contracts -> Metadata \cup {C!Unknown}], upgrades' \in [Upgraders -> {C!Idle} \cup Upgrading]
  PROVE  ContractTypes' /\ RegistryOK' /\ \A d \in Contracts : C!Registered(d) => C!Registered(d)'
<1>1. ContractTypes'
  <2>1. typeIndex' \in [Kinds -> SUBSET Contracts] BY DEF ContractTypes, Files
  <2>2. live' \subseteq Kinds BY DEF ContractTypes, Files
  <2> QED BY <2>1, <2>2 DEF ContractTypes
<1>k. \A d \in Contracts : C!Registered(d) <=> registry[d] \in Metadata BY KnownIs
<1>l. \A d \in Contracts : C!Registered(d)' <=> registry'[d] \in Metadata
  <2>1. \A d \in Contracts : registry'[d] \in Metadata \cup {C!Unknown} OBVIOUS
  <2>2. C!Unknown \notin Metadata
    <3>1. C!Unknown.kind = "none" BY DEF C!Unknown
    <3> QED BY <3>1, ContractAssumption DEF Metadata
  <2> QED BY <2>1, <2>2 DEF C!Registered
<1>c. registry'[c] \in Metadata /\ registry'[c].kind = k /\ (registry'[c].active <=> act) BY DEF Files
<1>d. ASSUME NEW d \in Contracts, d # c
      PROVE  /\ registry'[d].kind = registry[d].kind
             /\ registry'[d].active <=> registry[d].active /\ ~(act /\ d \in typeIndex[k])
             /\ registry[d] \in Metadata => registry'[d] \in Metadata
  <2>0. registry[d].active \in BOOLEAN BY KnownIs
  <2>1. CASE act /\ d \in typeIndex[k]
    <3>1. registry[d] \in Metadata BY <1>k, <2>1 DEF RegistryOK, FiledIsKnown
    <3>2. registry'[d] = [registry[d] EXCEPT !.active = FALSE] BY <1>d, <2>1 DEF Files
    <3> QED BY <2>1, <3>1, <3>2 DEF Metadata
  <2>2. CASE ~(act /\ d \in typeIndex[k])
    <3>1. registry'[d] = registry[d] BY <1>d, <2>2 DEF Files
    <3> QED BY <2>0, <2>2, <3>1
  <2> QED BY <2>1, <2>2
<1>e. ASSUME NEW d \in Contracts, C!Registered(d)', d # c PROVE C!Registered(d)
  <2>1. registry'[d] \in Metadata BY <1>e, <1>l
  <2>2. CASE act /\ d \in typeIndex[k] BY <2>2 DEF RegistryOK, FiledIsKnown
  <2>3. CASE ~(act /\ d \in typeIndex[k])
    <3>1. registry'[d] = registry[d] BY <1>e, <2>3 DEF Files
    <3> QED BY <1>k, <2>1, <3>1
  <2> QED BY <2>2, <2>3
<1>t. \A j \in Kinds : typeIndex'[j] = IF j = k THEN typeIndex[k] \cup {c} ELSE typeIndex[j] BY DEF ContractTypes, Files
<1>2. Filed'
  <2>1. ASSUME NEW d \in Contracts, C!Registered(d)' PROVE d \in typeIndex'[registry'[d].kind]
    <3>1. CASE d = c BY <1>c, <1>t, <3>1
    <3>2. CASE d # c
      <4>1. C!Registered(d) /\ registry'[d].kind = registry[d].kind /\ registry[d].kind \in Kinds BY <1>d, <1>e, <2>1, <3>2, KnownIs
      <4> QED BY <1>t, <4>1 DEF RegistryOK, Filed
    <3> QED BY <3>1, <3>2
  <2> QED BY <2>1 DEF Filed
<1>3. FiledIsKnown'
  <2>1. ASSUME NEW j \in Kinds, NEW d \in typeIndex'[j] PROVE C!Registered(d)' /\ (registry'[d].kind # j => registry'[d].kind \in retyped')
    <3>0. d \in Contracts BY <1>1 DEF ContractTypes
    <3>1. CASE d = c
      <4>1. C!Registered(d)' /\ registry'[d].kind = k BY <1>c, <1>l, <3>1
      <4>2. ASSUME j # k PROVE k \in retyped'
        <5>1. c \in typeIndex[j] BY <1>t, <2>1, <3>1, <4>2
        <5>2. C!Registered(c) /\ (registry[c].kind # j => registry[c].kind \in retyped) BY <5>1 DEF RegistryOK, FiledIsKnown
        <5> QED BY <4>2, <5>2 DEF Files
      <4> QED BY <4>1, <4>2
    <3>2. CASE d # c
      <4>1. d \in typeIndex[j] BY <1>t, <2>1, <3>2
      <4>2. C!Registered(d) /\ (registry[d].kind # j => registry[d].kind \in retyped) BY <4>1 DEF RegistryOK, FiledIsKnown
      <4> QED BY <1>d, <1>k, <1>l, <3>0, <3>2, <4>2 DEF Files
    <3> QED BY <3>1, <3>2
  <2> QED BY <2>1 DEF FiledIsKnown
<1>4. OneOfAKind'
  <2>1. ASSUME NEW d \in Contracts, d # c, registry'[d].active, act, registry'[d].kind = k PROVE FALSE
    <3>1. registry[d].active /\ d \notin typeIndex[k] /\ registry[d].kind = k BY <1>d, <2>1
    <3>2. C!Registered(d) BY <1>k, <3>1, KnownIs
    <3> QED BY <3>1, <3>2 DEF RegistryOK, Filed
  <2>2. ASSUME NEW d \in Contracts, NEW e \in Contracts, registry'[d].active, registry'[e].active, registry'[d].kind = registry'[e].kind PROVE d = e
    <3>1. CASE d = c /\ e # c BY <1>c, <2>1, <2>2, <3>1
    <3>2. CASE d # c /\ e = c BY <1>c, <2>1, <2>2, <3>2
    <3>3. CASE d # c /\ e # c BY <1>d, <2>2, <3>3 DEF RegistryOK, OneOfAKind
    <3> QED BY <3>1, <3>2, <3>3
  <2> QED BY <2>2 DEF OneOfAKind
<1>5. LiveIsServed'
  <2>1. ASSUME NEW j \in live', j \notin retyped' PROVE \E d \in Contracts : registry'[d].active /\ registry'[d].kind = j
    <3>1. CASE act /\ j = k BY <1>c, <3>1
    <3>2. CASE ~(act /\ j = k)
      <4>1. j \in live /\ j \notin retyped BY <2>1, <3>2 DEF Files
      <4>2. PICK d \in Contracts : registry[d].active /\ registry[d].kind = j BY <4>1 DEF RegistryOK, LiveIsServed
      <4>3. C!Registered(d) BY <1>k, <4>2, KnownIs
      <4>4. d # c BY <2>1, <3>2, <4>2, <4>3 DEF Files
      <4>5. ~(act /\ d \in typeIndex[k])
        <5>1. SUFFICES ASSUME act, d \in typeIndex[k] PROVE FALSE OBVIOUS
        <5>2. registry[d].kind # k => registry[d].kind \in retyped BY <5>1 DEF RegistryOK, FiledIsKnown
        <5> QED BY <3>2, <4>1, <4>2, <5>1, <5>2
      <4>6. registry'[d].active /\ registry'[d].kind = j BY <1>d, <4>2, <4>4, <4>5
      <4> QED BY <4>6
    <3> QED BY <3>1, <3>2
  <2> QED BY <2>1 DEF LiveIsServed
<1>6. \A d \in Contracts : C!Registered(d) => C!Registered(d)' BY <1>c, <1>d, <1>k, <1>l
<1> QED BY <1>1, <1>2, <1>3, <1>4, <1>5, <1>6 DEF RegistryOK

\* What deactivating the other versions leaves, in the form of Files.
LEMMA DeactivatedIs ==
  ASSUME ContractTypes, RegistryOK, NEW c \in Contracts, NEW k \in Kinds, NEW act \in BOOLEAN,
         NEW new \in Metadata, new.kind = k, new.active <=> act,
         registry' = [(IF act THEN C!Deactivated(registry, k, c) ELSE registry) EXCEPT ![c] = new]
  PROVE  /\ registry' \in [Contracts -> Metadata \cup {C!Unknown}]
         /\ registry'[c] \in Metadata /\ registry'[c].kind = k /\ (registry'[c].active <=> act)
         /\ \A d \in Contracts : d # c => registry'[d] = IF act /\ d \in typeIndex[k] THEN [registry[d] EXCEPT !.active = FALSE] ELSE registry[d]
<1> DEFINE g(d) == IF d # c /\ d \in typeIndex[k] THEN [registry[d] EXCEPT !.active = FALSE] ELSE registry[d]
           base == IF act THEN C!Deactivated(registry, k, c) ELSE registry
<1>2. ASSUME NEW d \in Contracts PROVE g(d) \in Metadata \cup {C!Unknown}
  <2>1. registry[d] \in Metadata \cup {C!Unknown} BY DEF ContractTypes
  <2>2. CASE d # c /\ d \in typeIndex[k]
    <3>1. registry[d] \in Metadata BY <2>2, KnownIs DEF RegistryOK, FiledIsKnown
    <3> QED BY <2>2, <3>1 DEF Metadata
  <2> QED BY <2>1, <2>2
<1>3. base = [d \in Contracts |-> IF act THEN g(d) ELSE registry[d]] BY DEF C!Deactivated, ContractTypes
<1>4. registry' = [base EXCEPT ![c] = new] OBVIOUS
<1> HIDE DEF base
<1>5. \A d \in Contracts : registry[d] \in Metadata \cup {C!Unknown} BY DEF ContractTypes
<1>6. registry' = [d \in Contracts |-> IF d = c THEN new ELSE IF act THEN g(d) ELSE registry[d]] BY <1>3, <1>4
<1> HIDE DEF g
<1>7. registry' \in [Contracts -> Metadata \cup {C!Unknown}]
  <2>1. ASSUME NEW d \in Contracts PROVE (IF d = c THEN new ELSE IF act THEN g(d) ELSE registry[d]) \in Metadata \cup {C!Unknown}
    BY <1>2, <1>5
  <2> QED BY <1>6, <2>1
<1>8. registry'[c] = new BY <1>6
<1>9. ASSUME NEW d \in Contracts, d # c PROVE registry'[d] = IF act /\ d \in typeIndex[k] THEN [registry[d] EXCEPT !.active = FALSE] ELSE registry[d]
  <2>1. registry'[d] = IF act THEN g(d) ELSE registry[d] BY <1>6, <1>9
  <2> QED BY <1>9, <2>1 DEF g
<1> QED BY <1>7, <1>8, <1>9

\* A step that leaves registry and index alone.
LEMMA ContractKept ==
  ASSUME ContractInv, UNCHANGED <<registry, typeIndex, live, retyped>>,
         upgrades' \in [Upgraders -> {C!Idle} \cup Upgrading],
         \A u \in Upgraders : upgrades'[u].pc # "idle" => C!Registered(upgrades'[u].old)
  PROVE  ContractInv'
<1>0. \A c : C!Registered(c)' <=> C!Registered(c) BY DEF C!Registered
<1>1. ContractTypes' BY DEF ContractInv, ContractTypes
<1>2. OldIsKnown' BY DEF OldIsKnown, C!Registered
<1>3. RegistryOK' BY <1>0 DEF ContractInv, RegistryOK, Filed, FiledIsKnown, OneOfAKind, LiveIsServed
<1> QED BY <1>1, <1>2, <1>3 DEF ContractInv

\* A step that files a contract and moves an upgrade on keeps the invariant.
LEMMA FilesStep ==
  ASSUME ContractInv, NEW c \in Contracts, NEW k \in Kinds, NEW act \in BOOLEAN, Files(c, k, act),
         registry' \in [Contracts -> Metadata \cup {C!Unknown}], upgrades' \in [Upgraders -> {C!Idle} \cup Upgrading],
         \A u \in Upgraders : upgrades'[u].pc # "idle" => upgrades'[u] = upgrades[u]
  PROVE  ContractInv'
<1>0. ContractTypes /\ RegistryOK BY DEF ContractInv
<1>4. ContractTypes' /\ RegistryOK' /\ \A d \in Contracts : C!Registered(d) => C!Registered(d)' BY <1>0, FilesInv
<1>5. \A u \in Upgraders : upgrades[u].pc # "idle" => upgrades[u].old \in Contracts
  BY <1>0 DEF ContractTypes, Upgrading, C!Idle
<1>6. OldIsKnown'
  <2>1. ASSUME NEW u \in Upgraders, upgrades'[u].pc # "idle" PROVE registry'[upgrades'[u].old] # C!Unknown
    <3>1. upgrades'[u] = upgrades[u] /\ upgrades[u].old \in Contracts BY <1>5, <2>1
    <3>2. C!Registered(upgrades[u].old) BY <2>1, <3>1 DEF ContractInv, OldIsKnown
    <3>3. registry'[upgrades[u].old] # C!Unknown BY <1>4, <3>1, <3>2 DEF C!Registered
    <3> QED BY <3>1, <3>3
  <2> QED BY <2>1 DEF OldIsKnown, C!Registered
<1> QED BY <1>4, <1>6 DEF ContractInv

\* register.
LEMMA RegisterInv == ASSUME ContractInv, NEW c \in Contracts, NEW k \in Kinds, NEW act \in BOOLEAN, C!Register(c, k, act) PROVE ContractInv'
<1>0. ContractTypes /\ RegistryOK BY DEF ContractInv
<1>1. /\ registry' = [(IF act THEN C!Deactivated(registry, k, c) ELSE registry) EXCEPT ![c] = [kind |-> k, active |-> act]]
      /\ typeIndex' = [typeIndex EXCEPT ![k] = typeIndex[k] \cup {c}]
      /\ live' = IF act THEN live \cup {k} ELSE live
      /\ retyped' = IF C!Registered(c) THEN retyped \cup {registry[c].kind, k} ELSE retyped
      /\ upgrades' = upgrades
  BY DEF C!Register
<1> DEFINE new == [kind |-> k, active |-> act]
<1>n. new \in Metadata /\ new.kind = k /\ (new.active <=> act) BY DEF Metadata
<1>r. registry' = [(IF act THEN C!Deactivated(registry, k, c) ELSE registry) EXCEPT ![c] = new] BY <1>1
<1> HIDE DEF new
<1>d. /\ registry' \in [Contracts -> Metadata \cup {C!Unknown}]
      /\ registry'[c] \in Metadata /\ registry'[c].kind = k /\ (registry'[c].active <=> act)
      /\ \A d \in Contracts : d # c => registry'[d] = IF act /\ d \in typeIndex[k] THEN [registry[d] EXCEPT !.active = FALSE] ELSE registry[d]
  BY <1>0, <1>n, <1>r, DeactivatedIs, SMTT(30)
<1>2. registry' \in [Contracts -> Metadata \cup {C!Unknown}] /\ Files(c, k, act) BY <1>1, <1>d DEF Files
<1>3. upgrades' \in [Upgraders -> {C!Idle} \cup Upgrading] BY <1>0, <1>1 DEF ContractTypes
<1> QED BY <1>1, <1>2, <1>3, FilesStep

\* rollbackUpgrade.
LEMMA RollbackInv == ASSUME ContractInv, NEW c \in Contracts, C!RollbackUpgrade(c) PROVE ContractInv'
<1> DEFINE k == registry[c].kind
<1>0. ContractTypes /\ RegistryOK /\ C!Registered(c) BY DEF ContractInv, C!RollbackUpgrade
<1>k. registry[c] \in Metadata /\ k \in Kinds BY <1>0, KnownIs
<1>1. /\ registry' = [C!Deactivated(registry, k, c) EXCEPT ![c].active = TRUE]
      /\ live' = live \cup {k} /\ UNCHANGED <<typeIndex, retyped, upgrades>>
  BY DEF C!RollbackUpgrade, C!SetActive, C!indexVars
<1> HIDE DEF k
<1>2. C!Deactivated(registry, k, c)[c] = registry[c] BY DEF C!Deactivated
<1> DEFINE new == [registry[c] EXCEPT !.active = TRUE]
<1>3. new \in Metadata /\ new.kind = k /\ new.active = TRUE BY <1>k DEF Metadata, k
<1>4. registry' = [C!Deactivated(registry, k, c) EXCEPT ![c] = new]
  <2> DEFINE f == C!Deactivated(registry, k, c)
  <2>1. [f EXCEPT ![c].active = TRUE] = [f EXCEPT ![c] = [f[c] EXCEPT !.active = TRUE]] OBVIOUS
  <2> HIDE DEF f
  <2>2. registry' = [f EXCEPT ![c] = [f[c] EXCEPT !.active = TRUE]] /\ f[c] = registry[c] BY <1>1, <1>2, <2>1 DEF f
  <2> QED BY <2>2 DEF f
<1> HIDE DEF new
<1>5. c \in typeIndex[k] BY <1>0 DEF RegistryOK, Filed, k
<1>6. typeIndex' = [typeIndex EXCEPT ![k] = typeIndex[k] \cup {c}] BY <1>0, <1>1, <1>5, <1>k DEF ContractTypes
<1> DEFINE act == TRUE
<1>7. act \in BOOLEAN /\ (new.active <=> act) /\ registry' = [(IF act THEN C!Deactivated(registry, k, c) ELSE registry) EXCEPT ![c] = new]
  BY <1>3, <1>4
<1>8. live' = IF act THEN live \cup {k} ELSE live BY <1>1
<1>9. retyped \subseteq retyped' /\ act /\ registry[c].kind = k BY <1>1 DEF k
<1> HIDE DEF act
<1>d. /\ registry' \in [Contracts -> Metadata \cup {C!Unknown}]
      /\ registry'[c] \in Metadata /\ registry'[c].kind = k /\ (registry'[c].active <=> act)
      /\ \A d \in Contracts : d # c => registry'[d] = IF act /\ d \in typeIndex[k] THEN [registry[d] EXCEPT !.active = FALSE] ELSE registry[d]
  BY <1>0, <1>3, <1>7, <1>k, DeactivatedIs
<1>10. registry' \in [Contracts -> Metadata \cup {C!Unknown}] /\ Files(c, k, act) BY <1>d, <1>6, <1>8, <1>9 DEF Files
<1>11. upgrades' \in [Upgraders -> {C!Idle} \cup Upgrading] BY <1>0, <1>1 DEF ContractTypes
<1>12. \A u \in Upgraders : upgrades'[u].pc # "idle" => upgrades'[u] = upgrades[u] BY <1>1
<1> QED BY <1>7, <1>10, <1>11, <1>12, <1>k, FilesStep

\* updateRegistry at the end of an upgrade.
LEMMA UpdateInv == ASSUME ContractInv, NEW u \in Upgraders, C!UpdateRegistry(u) PROVE ContractInv'
<1> DEFINE old == upgrades[u].old
           new == upgrades[u].new
           k == IF C!Registered(new) THEN registry[new].kind ELSE registry[old].kind
           act == TRUE
           x == [kind |-> k, active |-> TRUE]
<1>0. ContractTypes /\ RegistryOK BY DEF ContractInv
<1>1. /\ upgrades[u].pc = "migrate"
      /\ typeIndex' = [typeIndex EXCEPT ![k] = typeIndex[k] \cup {new}]
      /\ registry' = [C!Deactivated(registry, k, new) EXCEPT ![new] = [kind |-> k, active |-> TRUE]]
      /\ live' = live \cup {k} /\ upgrades' = [upgrades EXCEPT ![u] = C!Idle] /\ retyped' = retyped
  BY DEF C!UpdateRegistry
<1>2. upgrades[u] \in Upgrading /\ old \in Contracts /\ new \in Contracts BY <1>0, <1>1 DEF ContractTypes, Upgrading, C!Idle
<1>3. C!Registered(old) BY <1>1 DEF ContractInv, OldIsKnown
<1>k. k \in Kinds /\ (C!Registered(new) => registry[new].kind = k) BY <1>0, <1>2, <1>3, KnownIs
<1>4. act \in BOOLEAN /\ registry' = [(IF act THEN C!Deactivated(registry, k, new) ELSE registry) EXCEPT ![new] = x]
  BY <1>1
<1>x. x \in Metadata /\ x.kind = k /\ (x.active <=> act)
  <2> HIDE DEF k
  <2> QED BY <1>k DEF Metadata
<1>5. live' = IF act THEN live \cup {k} ELSE live BY <1>1
<1>6. act OBVIOUS
<1> HIDE DEF act, k, new, x
<1>d. /\ registry' \in [Contracts -> Metadata \cup {C!Unknown}]
      /\ registry'[new] \in Metadata /\ registry'[new].kind = k /\ (registry'[new].active <=> act)
      /\ \A d \in Contracts : d # new => registry'[d] = IF act /\ d \in typeIndex[k] THEN [registry[d] EXCEPT !.active = FALSE] ELSE registry[d]
  BY <1>0, <1>2, <1>4, <1>k, <1>x, DeactivatedIs, SMTT(30)
<1>t. typeIndex' = [typeIndex EXCEPT ![k] = typeIndex[k] \cup {new}] /\ retyped \subseteq retyped' BY <1>1
<1>7. Files(new, k, act) BY <1>d, <1>t, <1>5, <1>6, <1>k DEF Files
<1>8. upgrades' \in [Upgraders -> {C!Idle} \cup Upgrading] BY <1>0, <1>1 DEF ContractTypes
<1>9. \A v \in Upgraders : upgrades'[v].pc # "idle" => upgrades'[v] = upgrades[v] BY <1>0, <1>1 DEF ContractTypes, C!Idle
<1> QED BY <1>2, <1>4, <1>7, <1>8, <1>9, <1>d, <1>k, FilesStep

\* Every step keeps the invariant.
LEMMA ContractStep == ContractInv /\ [C!Next]_(C!vars) => ContractInv'
<1> SUFFICES ASSUME ContractInv, [C!Next]_(C!vars) PROVE ContractInv' OBVIOUS
<1>0. upgrades \in [Upgraders -> {C!Idle} \cup Upgrading] /\ (\A u \in Upgraders : upgrades[u].pc # "idle" => C!Registered(upgrades[u].old))
  BY DEF ContractInv, ContractTypes, OldIsKnown
<1>1. ASSUME NEW c \in Contracts, NEW k \in Kinds, NEW act \in BOOLEAN, C!Register(c, k, act) PROVE ContractInv' BY <1>1, RegisterInv
<1>2. ASSUME NEW c \in Contracts, C!RollbackUpgrade(c) PROVE ContractInv' BY <1>2, RollbackInv
<1>3. ASSUME NEW c \in Contracts, C!GetState(c) \/ C!Invalidate(c) PROVE ContractInv'
  BY <1>0, <1>3, ContractKept DEF C!GetState, C!Invalidate, C!indexVars
<1>4. ASSUME NEW u \in Upgraders, NEW c \in Contracts, C!CreateUpgradePlan(u, c) PROVE ContractInv'
  <2> DEFINE x == [pc |-> "deploy", old |-> c]
  <2>1. UNCHANGED <<registry, typeIndex, live, retyped>> /\ upgrades' = [upgrades EXCEPT ![u] = x] /\ C!Registered(c)
    BY <1>4 DEF C!CreateUpgradePlan, C!indexVars
  <2>2. x \in Upgrading /\ x.old = c BY DEF Upgrading
  <2> HIDE DEF x
  <2> QED BY <1>0, <2>1, <2>2, ContractKept
<1>5. ASSUME NEW u \in Upgraders, NEW c \in Contracts, C!Deploy(u, c) PROVE ContractInv'
  <2> DEFINE x == [pc |-> "migrate", old |-> upgrades[u].old, new |-> c]
  <2>1. UNCHANGED <<registry, typeIndex, live, retyped>> /\ upgrades' = [upgrades EXCEPT ![u] = x] /\ upgrades[u].pc = "deploy"
    BY <1>5 DEF C!Deploy, C!indexVars
  <2>2. upgrades[u].old \in Contracts /\ C!Registered(upgrades[u].old) BY <1>0, <2>1 DEF C!Idle, Upgrading
  <2>3. x \in Upgrading /\ x.old = upgrades[u].old BY <2>2 DEF Upgrading
  <2> HIDE DEF x
  <2> QED BY <1>0, <2>1, <2>2, <2>3, ContractKept
<1>6. ASSUME NEW u \in Upgraders, C!UpgradeFails(u) PROVE ContractInv'
  <2>1. UNCHANGED <<registry, typeIndex, live, retyped>> /\ upgrades' = [upgrades EXCEPT ![u] = C!Idle] BY <1>6 DEF C!UpgradeFails, C!indexVars
  <2>2. C!Idle.pc = "idle" BY DEF C!Idle
  <2> QED BY <1>0, <2>1, <2>2, ContractKept
<1>7. ASSUME NEW u \in Upgraders, C!UpdateRegistry(u) PROVE ContractInv' BY <1>7, UpdateInv
<1>8. ASSUME UNCHANGED C!vars PROVE ContractInv' BY <1>0, <1>8, ContractKept DEF C!vars
<1> QED BY <1>1, <1>2, <1>3, <1>4, <1>5, <1>6, <1>7, <1>8 DEF C!Next

\* It holds at the start.
LEMMA ContractInit == C!Init => ContractInv
<1> SUFFICES ASSUME C!Init PROVE ContractInv OBVIOUS
<1>1. /\ registry = [c \in Contracts |-> C!Unknown] /\ typeIndex = [k \in Kinds |-> {}] /\ live = {}
      /\ upgrades = [u \in Upgraders |-> C!Idle] BY DEF C!Init
<1>2. \A c \in Contracts : ~C!Registered(c) /\ ~registry[c].active BY <1>1 DEF C!Registered, C!Unknown
<1>3. ContractTypes BY <1>1 DEF ContractTypes
<1>4. OldIsKnown BY <1>1 DEF OldIsKnown, C!Idle
<1>5. RegistryOK BY <1>1, <1>2 DEF RegistryOK, Filed, FiledIsKnown, OneOfAKind, LiveIsServed
<1> QED BY <1>3, <1>4, <1>5 DEF ContractInv

\* It says what OneActiveVersion says.
LEMMA ContractHolds == ContractInv => C!TypeOK /\ C!OneActiveVersion
<1> SUFFICES ASSUME ContractInv PROVE C!TypeOK /\ C!OneActiveVersion OBVIOUS
<1>1. C!TypeOK BY DEF ContractInv, ContractTypes, C!TypeOK, Metadata
<1>2. ASSUME NEW k \in Kinds PROVE C!Cardinality(C!Active(k)) <= 1 /\ (k \in live \ retyped => C!Active(k) # {})
  <2>1. \A c, d \in C!Active(k) : c = d BY DEF C!Active, ContractInv, RegistryOK, OneOfAKind
  <2>2. k \in live \ retyped => C!Active(k) # {} BY DEF C!Active, ContractInv, RegistryOK, LiveIsServed
  <2> DEFINE S == C!Active(k)
  <2>c. C!Cardinality(S) = Cardinality(S) BY DEF C!Cardinality, Cardinality
  <2> HIDE DEF S
  <2>3. S = {} \/ \E c \in S : S = {c} BY <2>1 DEF S
  <2>4. Cardinality(S) <= 1
    <3>1. CASE S = {} BY <3>1, FS_EmptySet
    <3>2. ASSUME NEW c \in S, S = {c} PROVE Cardinality(S) <= 1
      <4>1. Cardinality({c}) = 1 BY FS_Singleton
      <4> QED BY <3>2, <4>1
    <3> QED BY <2>3, <3>1, <3>2
  <2> QED BY <2>2, <2>4, <2>c DEF S
<1> QED BY <1>1, <1>2 DEF C!OneActiveVersion

\* At most one version of each type of contract is active, and a type that
\* had one still has one, however registrations, upgrades and rollbacks
\* interleave, for any set of contracts, types and upgrades (contract-
\* registry.service.ts, contract-upgrade.service.ts).
THEOREM VersionsExclusive == Spec => []OneActiveVersion
<1>1. Init => ContractInv BY ContractPart, ContractInit
<1>2. ContractInv /\ [Next]_vars => ContractInv' BY ContractPart, ContractStep
<1>3. ContractInv => OneActiveVersion BY ContractHolds DEF OneActiveVersion
<1> QED BY <1>1, <1>2, <1>3, PTL DEF Spec

-----------------------------------------------------------------------------
(* Alerts: the budgets *)

\* The alerts are one of the parts of a behaviour.
LEMMA AlertPart ==
  /\ Init => A!Init
  /\ [Next]_vars => [A!Next]_(A!vars)
  BY DEF Init, Next, vars, alertVars, A!vars

\* A message before its event is recorded as seen.
Unrecorded == {"exact", "similar", "record"}

\* A message after that.
Recorded == {"cooldown", "hourly", "daily", "last", "count"}

\* The type of a message being handled.
Handling == [pc : Unrecorded \cup Recorded, event : AlertEvents]

\* A message at one of some stages.
Stage(pcs) == [pc : pcs, event : AlertEvents]

\* A message with event e that is past the check for exact duplicates.
StageOf(e) == [pc : {"similar", "record"} \cup Recorded, event : {e}]

\* The handlers at a stage.
At(stage) == {h \in Handlers : handlers[h] \in stage}

\* Types.
AlertTypes ==
  /\ handlers \in [Handlers -> {A!Free} \cup Handling]
  /\ exactKeys \subseteq AlertEvents
  /\ hourCount \in Nat /\ dayCount \in Nat /\ cooled \in Nat
  /\ alerted \in [AlertEvents -> Nat]
  /\ alertStats \in [A!Metrics -> Nat]
  /\ messages \in 0..MaxMessages

\* The hour has room for all handlers that are past its check but one.
HourOK == hourCount + Cardinality(At(Stage({"daily", "last", "count"}))) <= MAX_PER_HOUR - 1 + Cardinality(Handlers)

\* So has the day.
DayOK == dayCount + Cardinality(At(Stage({"last", "count"}))) <= MAX_PER_DAY - 1 + Cardinality(Handlers)

\* Within one cooldown the alerts sent and the handlers past its check are at
\* most as many as there are handlers; outside of one, none was sent and none
\* is about to be counted.
CooldownOK ==
  /\ cooled + Cardinality(At(Stage({"hourly", "daily", "last", "count"}))) <= 0 + Cardinality(Handlers)
  /\ ~cooling => cooled = 0 /\ \A h \in Handlers : handlers[h].pc # "count"

\* A message that was recorded, and an event that has alerted, have left
\* their exact key.
KeysOK ==
  /\ \A h \in Handlers : handlers[h].pc \in Recorded => handlers[h].event \in exactKeys
  /\ \A e \in AlertEvents : alerted[e] > 0 => e \in exactKeys

\* An event has alerted at most as often as there are handlers, those on
\* their way included.
OnceOK == \A e \in AlertEvents : alerted[e] + Cardinality(At(StageOf(e))) <= 0 + Cardinality(Handlers)

\* No counter of the analytics exceeds the messages, those being handled not
\* counted.
StatsOK == \A m \in A!Metrics : alertStats[m] + Cardinality(At(Handling)) <= messages

\* The inductive invariant of the alerts. A limit is read in one step and
\* counted in a later one, so every bound counts the handlers in between with
\* what is already stored.
AlertInv == AlertTypes /\ HourOK /\ DayOK /\ CooldownOK /\ KeysOK /\ OnceOK /\ StatsOK

\* The handlers at a stage can be counted.
LEMMA AtFinite ==
  ASSUME NEW stage
  PROVE  IsFiniteSet(At(stage)) /\ Cardinality(At(stage)) \in Nat /\ Cardinality(At(stage)) <= Cardinality(Handlers)
         /\ IsFiniteSet(Handlers) /\ Cardinality(Handlers) \in Nat /\ Cardinality(Handlers) >= 1
<1>1. At(stage) \subseteq Handlers BY DEF At
<1>2. IsFiniteSet(Handlers) /\ Handlers # {} BY AlertAssumption
<1>3. Cardinality(Handlers) \in Nat /\ Cardinality(Handlers) # 0 BY <1>2, FS_CardinalityType, FS_EmptySet
<1> HIDE DEF At
<1> QED BY <1>1, <1>2, <1>3, FS_Subset, FS_CardinalityType

\* Stages are sets of messages being handled.
LEMMA StageIs ==
  ASSUME NEW y \in {A!Free} \cup Handling
  PROVE  /\ \A pcs \in SUBSET (Unrecorded \cup Recorded) : y \in Stage(pcs) <=> y.pc \in pcs
         /\ \A e \in AlertEvents : y \in StageOf(e) <=> y.pc \in {"similar", "record"} \cup Recorded /\ y.event = e
         /\ y \in Handling <=> y.pc # "free"
<1>1. A!Free.pc = "free" BY DEF A!Free
<1>2. CASE y = A!Free
  <2>1. y.pc \notin Unrecorded \cup Recorded BY <1>1, <1>2 DEF Unrecorded, Recorded
  <2> QED BY <1>1, <1>2, <2>1 DEF Stage, StageOf, Handling, Unrecorded
<1>3. CASE y \in Handling
  <2>1. y.pc # "free" BY <1>3 DEF Handling, Unrecorded, Recorded
  <2> QED BY <1>3, <2>1 DEF Stage, StageOf, Handling
<1> QED BY <1>2, <1>3

\* Handler h goes on to x.
AlertMoves(h, x) == x \in {A!Free} \cup Handling /\ handlers' = [handlers EXCEPT ![h] = x]

\* A stored count and the handlers on their way to it: the sum stays within
\* limit - 1 + handlers when one handler enters the stage while the count is
\* below the limit, when one leaves it, and when one is counted.
LEMMA Budget ==
  ASSUME AlertTypes, NEW h \in Handlers, NEW x, AlertMoves(h, x), NEW stage, NEW lim \in Int, NEW n \in Nat, NEW m \in Nat,
         n + Cardinality(At(stage)) <= lim + Cardinality(Handlers),
         \/ m = n /\ (x \in stage => handlers[h] \in stage)
         \/ m = n + 1 /\ handlers[h] \in stage /\ x \notin stage
         \/ m = n /\ n <= lim
  PROVE  m + Cardinality(At(stage)') <= lim + Cardinality(Handlers)
<1>1. \A j \in Handlers : handlers'[j] = IF j = h THEN x ELSE handlers[j] BY DEF AlertTypes, AlertMoves
<1> DEFINE P == At(stage)
           Q == At(stage)'
<1>2. IsFiniteSet(P) /\ Cardinality(P) \in Nat /\ Cardinality(Handlers) \in Nat /\ IsFiniteSet(Handlers) BY AtFinite
<1>3. P = {j \in Handlers : handlers[j] \in stage} /\ Q = {j \in Handlers : handlers'[j] \in stage} BY DEF At
<1> HIDE DEF P, Q
<1>4. Q \subseteq Handlers BY <1>3
<1>5. Cardinality(Q) \in Nat /\ Cardinality(Q) <= Cardinality(Handlers) BY <1>2, <1>4, FS_Subset, FS_CardinalityType
<1>p. n + Cardinality(P) <= lim + Cardinality(Handlers) BY DEF P
<1>6. CASE m = n /\ (x \in stage => handlers[h] \in stage)
  <2>1. Q \subseteq P BY <1>1, <1>3, <1>6
  <2>2. Cardinality(Q) <= Cardinality(P) BY <1>2, <2>1, FS_Subset
  <2> QED BY <1>2, <1>5, <1>6, <1>p, <2>2 DEF Q
<1>7. CASE m = n + 1 /\ handlers[h] \in stage /\ x \notin stage
  <2>1. Q = P \ {h} /\ h \in P BY <1>1, <1>3, <1>7
  <2>2. Cardinality(Q) = Cardinality(P) - 1 BY <1>2, <2>1, FS_RemoveElement
  <2> QED BY <1>2, <1>5, <1>7, <1>p, <2>2 DEF Q
<1>8. CASE m = n /\ n <= lim BY <1>2, <1>5, <1>8 DEF Q
<1> QED BY <1>6, <1>7, <1>8

\* What a step of one handler must satisfy to keep the invariant.
LEMMA AlertMoveInv ==
  ASSUME AlertInv, NEW h \in Handlers, NEW x, AlertMoves(h, x), AlertTypes',
         \/ hourCount' = hourCount /\ (x.pc \in {"daily", "last", "count"} => handlers[h].pc \in {"daily", "last", "count"})
         \/ hourCount' = hourCount + 1 /\ handlers[h].pc = "count" /\ x.pc = "free"
         \/ hourCount' = hourCount /\ hourCount < MAX_PER_HOUR,
         \/ dayCount' = dayCount /\ (x.pc \in {"last", "count"} => handlers[h].pc \in {"last", "count"})
         \/ dayCount' = dayCount + 1 /\ handlers[h].pc = "count" /\ x.pc = "free"
         \/ dayCount' = dayCount /\ dayCount < MAX_PER_DAY,
         \/ cooled' = cooled /\ (x.pc \in {"hourly", "daily", "last", "count"} => handlers[h].pc \in {"hourly", "daily", "last", "count"})
         \/ cooled' = cooled + 1 /\ handlers[h].pc = "count" /\ x.pc = "free"
         \/ cooled' = cooled /\ ~cooling,
         cooling' = cooling \/ cooling', x.pc = "count" => cooling',
         x.pc \in Recorded => x.event \in exactKeys', exactKeys \subseteq exactKeys',
         x.pc # "free" /\ handlers[h].pc # "free" => x.event = handlers[h].event,
         \/ alerted' = alerted /\ (x.pc \in {"similar", "record"} \cup Recorded => handlers[h].pc \in {"similar", "record"} \cup Recorded)
         \/ alerted' = [alerted EXCEPT ![handlers[h].event] = alerted[handlers[h].event] + 1] /\ handlers[h].pc = "count" /\ x.pc = "free"
         \/ alerted' = alerted /\ handlers[h].pc = "exact" /\ handlers[h].event \notin exactKeys,
         \A m \in A!Metrics : \/ alertStats'[m] = alertStats[m] /\ handlers[h].pc # "free" /\ messages' = messages
                              \/ alertStats'[m] = alertStats[m] + 1 /\ handlers[h].pc # "free" /\ x.pc = "free" /\ messages' = messages
                              \/ alertStats'[m] = alertStats[m] /\ messages' = messages + 1
  PROVE  AlertInv'
<1>0. AlertTypes BY DEF AlertInv
<1>1. handlers[h] \in {A!Free} \cup Handling /\ x \in {A!Free} \cup Handling BY <1>0 DEF AlertTypes, AlertMoves
<1>2. \A pcs \in SUBSET (Unrecorded \cup Recorded) : (x \in Stage(pcs) <=> x.pc \in pcs) /\ (handlers[h] \in Stage(pcs) <=> handlers[h].pc \in pcs)
  BY <1>1, StageIs
<1>n. hourCount \in Nat /\ hourCount' \in Nat /\ dayCount \in Nat /\ dayCount' \in Nat /\ cooled \in Nat /\ cooled' \in Nat
      /\ MAX_PER_HOUR - 1 \in Int /\ MAX_PER_DAY - 1 \in Int
  BY <1>0, AlertAssumption DEF AlertTypes
<1>s. \A j \in Handlers : handlers'[j] = IF j = h THEN x ELSE handlers[j] BY <1>0 DEF AlertTypes, AlertMoves
<1>3. HourOK'
  <2> DEFINE pcs == {"daily", "last", "count"}
             stage == Stage(pcs)
  <2>1. pcs \in SUBSET (Unrecorded \cup Recorded) BY DEF Recorded
  <2>2. (x \in stage <=> x.pc \in pcs) /\ (handlers[h] \in stage <=> handlers[h].pc \in pcs) BY <1>2, <2>1
  <2>3. hourCount < MAX_PER_HOUR => hourCount <= MAX_PER_HOUR - 1 BY <1>n, AlertAssumption
  <2>4. hourCount + Cardinality(At(stage)) <= MAX_PER_HOUR - 1 + Cardinality(Handlers) BY DEF AlertInv, HourOK
  <2>6. \/ hourCount' = hourCount /\ (x \in stage => handlers[h] \in stage)
        \/ hourCount' = hourCount + 1 /\ handlers[h] \in stage /\ x \notin stage
        \/ hourCount' = hourCount /\ hourCount <= MAX_PER_HOUR - 1
    BY <2>2, <2>3
  <2> HIDE DEF stage
  <2>7. hourCount' + Cardinality(At(stage)') <= MAX_PER_HOUR - 1 + Cardinality(Handlers) BY <1>0, <1>n, <2>4, <2>6, Budget
  <2> QED BY <2>7 DEF HourOK, stage
<1>4. DayOK'
  <2> DEFINE pcs == {"last", "count"}
             stage == Stage(pcs)
  <2>1. pcs \in SUBSET (Unrecorded \cup Recorded) BY DEF Recorded
  <2>2. (x \in stage <=> x.pc \in pcs) /\ (handlers[h] \in stage <=> handlers[h].pc \in pcs) BY <1>2, <2>1
  <2>3. dayCount < MAX_PER_DAY => dayCount <= MAX_PER_DAY - 1 BY <1>n, AlertAssumption
  <2>4. dayCount + Cardinality(At(stage)) <= MAX_PER_DAY - 1 + Cardinality(Handlers) BY DEF AlertInv, DayOK
  <2>6. \/ dayCount' = dayCount /\ (x \in stage => handlers[h] \in stage)
        \/ dayCount' = dayCount + 1 /\ handlers[h] \in stage /\ x \notin stage
        \/ dayCount' = dayCount /\ dayCount <= MAX_PER_DAY - 1
    BY <2>2, <2>3
  <2> HIDE DEF stage
  <2>7. dayCount' + Cardinality(At(stage)') <= MAX_PER_DAY - 1 + Cardinality(Handlers) BY <1>0, <1>n, <2>4, <2>6, Budget
  <2> QED BY <2>7 DEF DayOK, stage
<1>5. CooldownOK'
  <2> DEFINE pcs == {"hourly", "daily", "last", "count"}
             stage == Stage(pcs)
  <2>1. pcs \in SUBSET (Unrecorded \cup Recorded) BY DEF Recorded
  <2>2. (x \in stage <=> x.pc \in pcs) /\ (handlers[h] \in stage <=> handlers[h].pc \in pcs) BY <1>2, <2>1
  <2>3. ~cooling => cooled <= 0 /\ handlers[h].pc # "count" BY <1>n DEF AlertInv, CooldownOK
  <2>4. cooled + Cardinality(At(stage)) <= 0 + Cardinality(Handlers) BY DEF AlertInv, CooldownOK
  <2>6. \/ cooled' = cooled /\ (x \in stage => handlers[h] \in stage)
        \/ cooled' = cooled + 1 /\ handlers[h] \in stage /\ x \notin stage
        \/ cooled' = cooled /\ cooled <= 0
    BY <2>2, <2>3
  <2> HIDE DEF stage
  <2>7. cooled' + Cardinality(At(stage)') <= 0 + Cardinality(Handlers) BY <1>0, <1>n, <2>4, <2>6, Budget
  <2>8. ASSUME ~cooling' PROVE cooled' = 0 /\ \A j \in Handlers : handlers'[j].pc # "count"
    <3>1. ~cooling /\ cooled = 0 /\ \A j \in Handlers : handlers[j].pc # "count" BY <2>8 DEF AlertInv, CooldownOK
    <3>2. cooled' = 0 BY <3>1
    <3>3. x.pc # "count" BY <2>8
    <3> QED BY <1>s, <3>1, <3>2, <3>3
  <2> QED BY <2>7, <2>8 DEF CooldownOK, stage
<1>e. handlers[h].pc # "free" => handlers[h].event \in AlertEvents BY <1>1 DEF A!Free, Handling
<1>6. KeysOK'
  <2>1. \A j \in Handlers : handlers'[j].pc \in Recorded => handlers'[j].event \in exactKeys' BY <1>s DEF AlertInv, KeysOK
  <2>2. ASSUME NEW e \in AlertEvents, alerted'[e] > 0 PROVE e \in exactKeys'
    <3>1. CASE alerted' = alerted BY <2>2, <3>1 DEF AlertInv, KeysOK
    <3>2. CASE alerted' = [alerted EXCEPT ![handlers[h].event] = alerted[handlers[h].event] + 1] /\ handlers[h].pc = "count"
      <4>1. handlers[h].event \in exactKeys BY <3>2 DEF AlertInv, KeysOK, Recorded
      <4>2. e # handlers[h].event => alerted'[e] = alerted[e] BY <1>0, <3>2 DEF AlertTypes
      <4> QED BY <2>2, <4>1, <4>2 DEF AlertInv, KeysOK
    <3> QED BY <3>1, <3>2
  <2> QED BY <2>1, <2>2 DEF KeysOK
<1>7. OnceOK'
  <2> SUFFICES ASSUME NEW e \in AlertEvents PROVE alerted'[e] + Cardinality(At(StageOf(e))') <= 0 + Cardinality(Handlers) BY DEF OnceOK
  <2> DEFINE stage == StageOf(e)
  <2>1. alerted[e] \in Nat /\ alerted'[e] \in Nat /\ 0 \in Int BY <1>0 DEF AlertTypes
  <2>2. /\ x \in stage <=> x.pc \in {"similar", "record"} \cup Recorded /\ x.event = e
        /\ handlers[h] \in stage <=> handlers[h].pc \in {"similar", "record"} \cup Recorded /\ handlers[h].event = e
    BY <1>1, StageIs
  <2>3. alerted[e] + Cardinality(At(stage)) <= 0 + Cardinality(Handlers) BY DEF AlertInv, OnceOK
  <2>f. "free" \notin {"similar", "record"} \cup Recorded /\ "count" \in Recorded BY DEF Recorded
  <2>4. \/ alerted'[e] = alerted[e] /\ (x \in stage => handlers[h] \in stage)
        \/ alerted'[e] = alerted[e] + 1 /\ handlers[h] \in stage /\ x \notin stage
        \/ alerted'[e] = alerted[e] /\ alerted[e] <= 0
    <3>1. CASE alerted' = alerted /\ (x.pc \in {"similar", "record"} \cup Recorded => handlers[h].pc \in {"similar", "record"} \cup Recorded)
      BY <2>2, <2>f, <3>1
    <3>2. CASE alerted' = [alerted EXCEPT ![handlers[h].event] = alerted[handlers[h].event] + 1] /\ handlers[h].pc = "count" /\ x.pc = "free"
      <4>1. handlers[h].event \in AlertEvents BY <1>e, <3>2
      <4>2. alerted'[e] = IF e = handlers[h].event THEN alerted[e] + 1 ELSE alerted[e] BY <1>0, <3>2 DEF AlertTypes
      <4> QED BY <2>2, <2>f, <3>2, <4>2
    <3>3. CASE alerted' = alerted /\ handlers[h].pc = "exact" /\ handlers[h].event \notin exactKeys
      <4>1. CASE e = handlers[h].event
        <5>1. ~(alerted[e] > 0) BY <3>3, <4>1 DEF AlertInv, KeysOK
        <5> QED BY <2>1, <3>3, <5>1
      <4>2. CASE e # handlers[h].event
        <5>1. x.pc # "free" => x.event # e BY <3>3, <4>2
        <5> QED BY <2>2, <2>f, <3>3, <5>1
      <4> QED BY <4>1, <4>2
    <3> QED BY <3>1, <3>2, <3>3
  <2> HIDE DEF stage
  <2>5. alerted'[e] + Cardinality(At(stage)') <= 0 + Cardinality(Handlers) BY <1>0, <2>1, <2>3, <2>4, Budget
  <2> QED BY <2>5 DEF stage
<1>8. StatsOK'
  <2> SUFFICES ASSUME NEW m \in A!Metrics PROVE alertStats'[m] + Cardinality(At(Handling)') <= messages' BY DEF StatsOK
  <2>1. /\ alertStats[m] \in Nat /\ alertStats'[m] \in Nat /\ messages \in Nat /\ messages' \in Nat
    BY <1>0, AlertAssumption DEF AlertTypes
  <2>2. alertStats[m] + Cardinality(At(Handling)) <= messages BY DEF AlertInv, StatsOK
  <2>3. (x \in Handling <=> x.pc # "free") /\ (handlers[h] \in Handling <=> handlers[h].pc # "free") BY <1>1, StageIs
  <2>4. Cardinality(Handlers) \in Nat /\ Cardinality(At(Handling)) \in Nat BY AtFinite
  <2> DEFINE lim == messages - Cardinality(Handlers)
  <2>5. lim \in Int /\ alertStats[m] + Cardinality(At(Handling)) <= lim + Cardinality(Handlers) /\ lim + Cardinality(Handlers) = messages BY <2>1, <2>2, <2>4
  <2>6. CASE messages' = messages /\ handlers[h].pc # "free"
    <3>1. \/ alertStats'[m] = alertStats[m] /\ (x \in Handling => handlers[h] \in Handling)
          \/ alertStats'[m] = alertStats[m] + 1 /\ handlers[h] \in Handling /\ x \notin Handling
      BY <2>1, <2>3, <2>6
    <3> HIDE DEF lim
    <3>2. alertStats'[m] + Cardinality(At(Handling)') <= lim + Cardinality(Handlers) BY <1>0, <2>1, <2>5, <3>1, Budget
    <3> QED BY <2>5, <2>6, <3>2
  <2>7. CASE messages' = messages + 1 /\ alertStats'[m] = alertStats[m]
    <3> DEFINE P == At(Handling)
               Q == At(Handling)'
    <3>1. P = {j \in Handlers : handlers[j] \in Handling} /\ Q = {j \in Handlers : handlers'[j] \in Handling} BY DEF At
    <3>2. IsFiniteSet(P) /\ Cardinality(P) \in Nat BY AtFinite
    <3>3. alertStats[m] + Cardinality(P) <= messages BY <2>2
    <3> HIDE DEF P, Q
    <3>4. Q \subseteq P \cup {h} BY <1>s, <3>1
    <3>5. IsFiniteSet(P \cup {h}) /\ Cardinality(P \cup {h}) \in Nat /\ Cardinality(P \cup {h}) <= Cardinality(P) + 1
      <4> DEFINE PH == P \cup {h}
      <4>1. IsFiniteSet(PH) /\ (h \in P => PH = P) /\ (h \notin P => Cardinality(PH) = Cardinality(P) + 1) BY <3>2, FS_AddElement
      <4> HIDE DEF PH
      <4>2. Cardinality(PH) \in Nat BY <4>1, FS_CardinalityType
      <4>3. Cardinality(PH) <= Cardinality(P) + 1 BY <3>2, <4>1
      <4> QED BY <4>1, <4>2, <4>3 DEF PH
    <3>6. Cardinality(Q) \in Nat /\ Cardinality(Q) <= Cardinality(P) + 1 BY <3>2, <3>4, <3>5, FS_Subset, FS_CardinalityType
    <3> QED BY <2>1, <2>7, <3>2, <3>3, <3>6 DEF Q
  <2> QED BY <2>6, <2>7
<1> QED BY <1>3, <1>4, <1>5, <1>6, <1>7, <1>8 DEF AlertInv

-----------------------------------------------------------------------------
(* Alerts: the steps *)

\* A handler at another stage with the same event.
LEMMA Gone ==
  ASSUME AlertInv, NEW h \in Handlers, handlers[h].pc # "free", NEW q \in Unrecorded \cup Recorded, A!Goto(h, q)
  PROVE  \E x : AlertMoves(h, x) /\ x.pc = q /\ x.event = handlers[h].event /\ x \in Handling
<1> DEFINE x == [handlers[h] EXCEPT !.pc = q]
<1>1. handlers[h] \in Handling /\ handlers \in [Handlers -> {A!Free} \cup Handling] BY DEF AlertInv, AlertTypes, A!Free
<1>2. x \in Handling /\ x.pc = q /\ x.event = handlers[h].event BY <1>1 DEF Handling
<1>3. handlers' = [handlers EXCEPT ![h] = x] BY DEF A!Goto
<1> HIDE DEF x
<1> QED BY <1>2, <1>3 DEF AlertMoves

\* A handler that is free again.
LEMMA Freed ==
  ASSUME AlertInv, NEW h \in Handlers, handlers' = [handlers EXCEPT ![h] = A!Free]
  PROVE  AlertMoves(h, A!Free) /\ A!Free.pc = "free"
  BY DEF AlertMoves, A!Free

\* The handlers after a step of one of them.
LEMMA MovedTypes ==
  ASSUME AlertInv, NEW h \in Handlers, NEW x, AlertMoves(h, x)
  PROVE  handlers' \in [Handlers -> {A!Free} \cup Handling]
  BY DEF AlertInv, AlertTypes, AlertMoves

\* The counters after one was raised.
LEMMA StatsTyped ==
  ASSUME AlertInv, NEW m \in A!Metrics, alertStats' = [alertStats EXCEPT ![m] = alertStats[m] + 1]
  PROVE  alertStats' \in [A!Metrics -> Nat] /\ \A n \in A!Metrics : alertStats'[n] = alertStats[n] \/ alertStats'[n] = alertStats[n] + 1
  BY DEF AlertInv, AlertTypes

\* A message ends without an alert.
LEMMA EndsInv ==
  ASSUME AlertInv, NEW h \in Handlers, handlers[h].pc # "free", handlers' = [handlers EXCEPT ![h] = A!Free],
         alertStats' \in [A!Metrics -> Nat],
         \A n \in A!Metrics : alertStats'[n] = alertStats[n] \/ alertStats'[n] = alertStats[n] + 1,
         exactKeys \subseteq exactKeys', exactKeys' \subseteq AlertEvents,
         UNCHANGED <<hourCount, dayCount, cooled, alerted, cooling, messages>>
  PROVE  AlertInv'
<1> DEFINE x == A!Free
<1>1. AlertMoves(h, x) /\ x.pc = "free" BY Freed
<1> HIDE DEF x
<1>2. AlertTypes' BY <1>1, MovedTypes DEF AlertInv, AlertTypes
<1>3. "free" \notin Recorded BY DEF Recorded
<1> QED BY <1>1, <1>2, <1>3, AlertMoveInv

\* A message goes on.
LEMMA GoesInv ==
  ASSUME AlertInv, NEW h \in Handlers, handlers[h].pc # "free", NEW x, AlertMoves(h, x), x.event = handlers[h].event, x.pc # "count",
         UNCHANGED <<hourCount, dayCount, cooled, alerted, cooling, messages, alertStats>>,
         exactKeys \subseteq exactKeys', exactKeys' \subseteq AlertEvents,
         x.pc \in Recorded => x.event \in exactKeys',
         x.pc \in {"daily", "last"} => handlers[h].pc \in {"daily", "last"} \/ hourCount < MAX_PER_HOUR,
         x.pc = "last" => handlers[h].pc = "last" \/ dayCount < MAX_PER_DAY,
         x.pc \in {"hourly", "daily", "last"} => handlers[h].pc \in {"hourly", "daily", "last"} \/ ~cooling,
         \/ x.pc \in {"similar", "record"} \cup Recorded => handlers[h].pc \in {"similar", "record"} \cup Recorded
         \/ handlers[h].pc = "exact" /\ handlers[h].event \notin exactKeys
  PROVE  AlertInv'
<1>1. AlertTypes' BY MovedTypes DEF AlertInv, AlertTypes
<1> QED BY <1>1, AlertMoveInv

\* The checks for exact and similar duplicates.
LEMMA DedupeInv == ASSUME AlertInv, NEW h \in Handlers, A!IsExactDuplicate(h) \/ A!IsSimilarDuplicate(h) PROVE AlertInv'
<1>0. AlertTypes /\ handlers[h].pc \in {"exact", "similar"} BY DEF AlertInv, A!IsExactDuplicate, A!IsSimilarDuplicate
<1>1. /\ UNCHANGED <<hourCount, dayCount, cooled, alerted, cooling, messages, exactKeys>> /\ exactKeys' \subseteq AlertEvents
  BY <1>0 DEF A!IsExactDuplicate, A!IsSimilarDuplicate, A!dedupeVars, A!throttleVars, A!boundVars, AlertTypes
<1>2. CASE A!Done(h, "deduplicated")
  <2>1. handlers' = [handlers EXCEPT ![h] = A!Free] /\ alertStats' = [alertStats EXCEPT !["deduplicated"] = alertStats["deduplicated"] + 1]
    BY <1>2 DEF A!Done
  <2>2. "deduplicated" \in A!Metrics BY DEF A!Metrics
  <2>3. alertStats' \in [A!Metrics -> Nat] /\ \A n \in A!Metrics : alertStats'[n] = alertStats[n] \/ alertStats'[n] = alertStats[n] + 1
    BY <2>1, <2>2, StatsTyped
  <2> QED BY <1>0, <1>1, <2>1, <2>3, EndsInv
<1>3. CASE handlers[h].pc = "exact" /\ handlers[h].event \notin exactKeys /\ A!Goto(h, "similar") /\ UNCHANGED alertStats
  <2>1. "similar" \in Unrecorded \cup Recorded /\ "similar" \notin Recorded BY DEF Unrecorded, Recorded
  <2>2. PICK x : AlertMoves(h, x) /\ x.pc = "similar" /\ x.event = handlers[h].event BY <1>3, <2>1, Gone
  <2> QED BY <1>1, <1>3, <2>1, <2>2, GoesInv
<1>4. CASE handlers[h].pc = "similar" /\ A!Goto(h, "record") /\ UNCHANGED alertStats
  <2>1. "record" \in Unrecorded \cup Recorded /\ "record" \notin Recorded BY DEF Unrecorded, Recorded
  <2>2. PICK x : AlertMoves(h, x) /\ x.pc = "record" /\ x.event = handlers[h].event BY <1>4, <2>1, Gone
  <2> QED BY <1>1, <1>4, <2>1, <2>2, GoesInv
<1> QED BY <1>2, <1>3, <1>4 DEF A!IsExactDuplicate, A!IsSimilarDuplicate

\* The event is recorded as seen.
LEMMA RecordInv == ASSUME AlertInv, NEW h \in Handlers, A!RecordEvent(h) PROVE AlertInv'
<1> DEFINE e == handlers[h].event
<1>0. AlertTypes /\ handlers[h].pc = "record" /\ exactKeys' = exactKeys \cup {e} BY DEF AlertInv, A!RecordEvent
<1>e. e \in AlertEvents BY <1>0 DEF AlertTypes, A!Free, Handling
<1>1. UNCHANGED <<hourCount, dayCount, cooled, alerted, cooling, messages>> /\ exactKeys' \subseteq AlertEvents /\ exactKeys \subseteq exactKeys' /\ e \in exactKeys'
  BY <1>0, <1>e DEF A!RecordEvent, A!throttleVars, A!boundVars, AlertTypes
<1>2. CASE A!Done(h, "processed")
  <2>1. handlers' = [handlers EXCEPT ![h] = A!Free] /\ alertStats' = [alertStats EXCEPT !["processed"] = alertStats["processed"] + 1]
    BY <1>2 DEF A!Done
  <2>2. "processed" \in A!Metrics BY DEF A!Metrics
  <2>3. alertStats' \in [A!Metrics -> Nat] /\ \A n \in A!Metrics : alertStats'[n] = alertStats[n] \/ alertStats'[n] = alertStats[n] + 1
    BY <2>1, <2>2, StatsTyped
  <2> QED BY <1>0, <1>1, <2>1, <2>3, EndsInv
<1>3. CASE A!Goto(h, "cooldown") /\ UNCHANGED alertStats
  <2>1. "cooldown" \in Unrecorded \cup Recorded BY DEF Unrecorded, Recorded
  <2>2. PICK x : AlertMoves(h, x) /\ x.pc = "cooldown" /\ x.event = e BY <1>0, <1>3, <2>1, Gone
  <2> QED BY <1>0, <1>1, <1>3, <2>1, <2>2, GoesInv
<1> QED BY <1>2, <1>3 DEF A!RecordEvent

\* A message that passes, or is held back by, one check of the throttle.
LEMMA ThrottleInv ==
  ASSUME AlertInv, NEW h \in Handlers, handlers[h].pc # "free", A!Throttle(h), UNCHANGED <<exactKeys, hourCount, dayCount, cooled, alerted, cooling, messages>>
  PROVE AlertInv'
<1>0. alertStats \in [A!Metrics -> Nat] /\ exactKeys \subseteq AlertEvents BY DEF AlertInv, AlertTypes
<1>1. handlers' = [handlers EXCEPT ![h] = A!Free] /\
      alertStats' = [alertStats EXCEPT !["throttled"] = alertStats["throttled"] + 1, !["processed"] = alertStats["processed"] + 1]
  BY DEF A!Throttle
<1>2. "processed" \in A!Metrics /\ "throttled" \in A!Metrics BY DEF A!Metrics
<1>3. alertStats' \in [A!Metrics -> Nat] /\ \A n \in A!Metrics : alertStats'[n] = alertStats[n] \/ alertStats'[n] = alertStats[n] + 1
  BY <1>0, <1>1, <1>2
<1> QED BY <1>0, <1>1, <1>3, EndsInv

\* The cooldown and the limits of the hour and the day.
LEMMA ChecksInv == ASSUME AlertInv, NEW h \in Handlers, A!IsInCooldown(h) \/ A!ExceedsHourlyLimit(h) \/ A!ExceedsDailyLimit(h) PROVE AlertInv'
<1>0. AlertTypes /\ handlers[h].pc \in {"cooldown", "hourly", "daily"} BY DEF AlertInv, A!IsInCooldown, A!ExceedsHourlyLimit, A!ExceedsDailyLimit
<1>1. /\ UNCHANGED <<hourCount, dayCount, cooled, alerted, cooling, messages, exactKeys>> /\ exactKeys' \subseteq AlertEvents
  BY <1>0 DEF A!IsInCooldown, A!ExceedsHourlyLimit, A!ExceedsDailyLimit, A!dedupeVars, A!throttleVars, A!boundVars, AlertTypes
<1>k. handlers[h].event \in exactKeys BY <1>0 DEF AlertInv, KeysOK, Recorded
<1>2. CASE A!Throttle(h) BY <1>0, <1>1, <1>2, ThrottleInv
<1>3. CASE handlers[h].pc = "cooldown" /\ ~cooling /\ A!Goto(h, "hourly") /\ UNCHANGED alertStats
  <2>1. "hourly" \in Unrecorded \cup Recorded /\ "cooldown" \in Recorded BY DEF Unrecorded, Recorded
  <2>2. PICK x : AlertMoves(h, x) /\ x.pc = "hourly" /\ x.event = handlers[h].event BY <1>3, <2>1, Gone
  <2> QED BY <1>1, <1>3, <1>k, <2>1, <2>2, GoesInv
<1>4. CASE handlers[h].pc = "hourly" /\ ~(hourCount >= MAX_PER_HOUR) /\ A!Goto(h, "daily") /\ UNCHANGED alertStats
  <2>1. "daily" \in Unrecorded \cup Recorded /\ "hourly" \in Recorded BY DEF Unrecorded, Recorded
  <2>2. PICK x : AlertMoves(h, x) /\ x.pc = "daily" /\ x.event = handlers[h].event BY <1>4, <2>1, Gone
  <2>3. hourCount < MAX_PER_HOUR BY <1>0, <1>4, AlertAssumption DEF AlertTypes
  <2> QED BY <1>1, <1>4, <1>k, <2>1, <2>2, <2>3, GoesInv
<1>5. CASE handlers[h].pc = "daily" /\ ~(dayCount >= MAX_PER_DAY) /\ A!Goto(h, "last") /\ UNCHANGED alertStats
  <2>1. "last" \in Unrecorded \cup Recorded /\ "daily" \in Recorded BY DEF Unrecorded, Recorded
  <2>2. PICK x : AlertMoves(h, x) /\ x.pc = "last" /\ x.event = handlers[h].event BY <1>5, <2>1, Gone
  <2>3. dayCount < MAX_PER_DAY BY <1>0, <1>5, AlertAssumption DEF AlertTypes
  <2> QED BY <1>1, <1>5, <1>k, <2>1, <2>2, <2>3, GoesInv
<1> QED BY <1>2, <1>3, <1>4, <1>5 DEF A!IsInCooldown, A!ExceedsHourlyLimit, A!ExceedsDailyLimit

\* The time of the alert is stored.
LEMMA LastInv == ASSUME AlertInv, NEW h \in Handlers, A!RecordLast(h) PROVE AlertInv'
<1>0. AlertTypes /\ handlers[h].pc = "last" /\ cooling' /\ A!Goto(h, "count") BY DEF AlertInv, A!RecordLast
<1>1. UNCHANGED <<hourCount, dayCount, cooled, alerted, messages, exactKeys, alertStats>> BY DEF A!RecordLast, A!dedupeVars, A!boundVars
<1>2. "count" \in Recorded /\ "last" \in Recorded /\ "count" \in Unrecorded \cup Recorded BY DEF Recorded
<1>k. handlers[h].event \in exactKeys BY <1>0, <1>2 DEF AlertInv, KeysOK
<1>3. PICK x : AlertMoves(h, x) /\ x.pc = "count" /\ x.event = handlers[h].event BY <1>0, <1>2, Gone
<1>4. AlertTypes' BY <1>0, <1>1, <1>3, MovedTypes DEF AlertTypes
<1> QED BY <1>0, <1>1, <1>2, <1>3, <1>4, <1>k, AlertMoveInv

\* The counts of hour and day are raised, and the alert goes out.
LEMMA CountsInv == ASSUME AlertInv, NEW h \in Handlers, A!RecordCounts(h) PROVE AlertInv'
<1> DEFINE x == A!Free
<1>0. /\ AlertTypes /\ handlers[h].pc = "count" /\ hourCount' = hourCount + 1 /\ dayCount' = dayCount + 1 /\ cooled' = cooled + 1
      /\ alerted' = [alerted EXCEPT ![handlers[h].event] = alerted[handlers[h].event] + 1]
      /\ UNCHANGED <<cooling, messages, exactKeys>>
      /\ handlers' = [handlers EXCEPT ![h] = x] /\ alertStats' = [alertStats EXCEPT !["processed"] = alertStats["processed"] + 1]
  BY DEF AlertInv, A!RecordCounts, A!Done, A!dedupeVars, A!boundVars
<1>1. AlertMoves(h, x) /\ x.pc = "free" BY <1>0, Freed
<1> HIDE DEF x
<1>2. "processed" \in A!Metrics /\ "free" \notin Recorded BY DEF A!Metrics, Recorded
<1>3. alertStats' \in [A!Metrics -> Nat] /\ \A n \in A!Metrics : alertStats'[n] = alertStats[n] \/ alertStats'[n] = alertStats[n] + 1
  BY <1>0, <1>2, StatsTyped
<1>e. handlers[h].event \in AlertEvents BY <1>0 DEF AlertTypes, A!Free, Handling
<1>a. alerted' \in [AlertEvents -> Nat]
  <2> DEFINE e == handlers[h].event
  <2>1. alerted \in [AlertEvents -> Nat] /\ e \in AlertEvents /\ alerted[e] + 1 \in Nat BY <1>0, <1>e DEF AlertTypes
  <2>2. alerted' = [alerted EXCEPT ![e] = alerted[e] + 1] BY <1>0
  <2> HIDE DEF e
  <2> QED BY <2>1, <2>2
<1>4. hourCount' \in Nat /\ dayCount' \in Nat /\ cooled' \in Nat BY <1>0 DEF AlertTypes
<1>5. AlertTypes' BY <1>0, <1>1, <1>3, <1>4, <1>a, MovedTypes DEF AlertTypes
<1>6. exactKeys \subseteq exactKeys' BY <1>0
<1>7. /\ x.pc \notin Recorded /\ x.pc # "count" /\ cooling' = cooling /\ messages' = messages /\ handlers[h].pc # "free"
  BY <1>0, <1>1, <1>2
<1>8. \A n \in A!Metrics : \/ alertStats'[n] = alertStats[n] /\ handlers[h].pc # "free" /\ messages' = messages
                           \/ alertStats'[n] = alertStats[n] + 1 /\ handlers[h].pc # "free" /\ x.pc = "free" /\ messages' = messages
  BY <1>1, <1>3, <1>7
<1>9. /\ hourCount' = hourCount + 1 /\ dayCount' = dayCount + 1 /\ cooled' = cooled + 1 /\ handlers[h].pc = "count"
      /\ alerted' = [alerted EXCEPT ![handlers[h].event] = alerted[handlers[h].event] + 1]
  BY <1>0
<1> QED BY <1>1, <1>5, <1>6, <1>7, <1>8, <1>9, AlertMoveInv

\* A message arrives.
LEMMA MessageInv == ASSUME AlertInv, NEW h \in Handlers, NEW e \in AlertEvents, A!HandleEvent(h, e) PROVE AlertInv'
<1> DEFINE x == [pc |-> "exact", event |-> e]
<1>0. /\ AlertTypes /\ handlers[h].pc = "free" /\ messages < MaxMessages /\ messages' = messages + 1 /\ handlers' = [handlers EXCEPT ![h] = x]
      /\ UNCHANGED <<hourCount, dayCount, cooled, alerted, cooling, exactKeys, alertStats>>
  BY DEF AlertInv, A!HandleEvent, A!dedupeVars, A!throttleVars
<1>1. x \in Handling /\ x.pc = "exact" BY DEF Handling, Unrecorded
<1> HIDE DEF x
<1>2. AlertMoves(h, x) BY <1>0, <1>1 DEF AlertMoves
<1>3. "exact" \notin Recorded BY DEF Recorded
<1>4. messages' \in 0..MaxMessages BY <1>0, AlertAssumption DEF AlertTypes
<1>5. AlertTypes' BY <1>0, <1>2, <1>4, MovedTypes DEF AlertTypes
<1> QED BY <1>0, <1>1, <1>2, <1>3, <1>5, AlertMoveInv

\* Handling it fails.
LEMMA ErrorInv == ASSUME AlertInv, NEW h \in Handlers, A!ProcessingError(h) PROVE AlertInv'
<1>0. /\ handlers[h].pc # "free" /\ UNCHANGED <<hourCount, dayCount, cooled, alerted, cooling, exactKeys, messages>> /\ exactKeys' \subseteq AlertEvents
      /\ handlers' = [handlers EXCEPT ![h] = A!Free] /\ alertStats' = [alertStats EXCEPT !["errors"] = alertStats["errors"] + 1]
  BY DEF AlertInv, AlertTypes, A!ProcessingError, A!Done, A!dedupeVars, A!throttleVars
<1>1. "errors" \in A!Metrics BY DEF A!Metrics
<1>2. alertStats' \in [A!Metrics -> Nat] /\ \A n \in A!Metrics : alertStats'[n] = alertStats[n] \/ alertStats'[n] = alertStats[n] + 1
  BY <1>0, <1>1, StatsTyped
<1> QED BY <1>0, <1>2, EndsInv

\* A window or a key expires.
LEMMA TimeInv ==
  ASSUME AlertInv, UNCHANGED <<handlers, dayCount, messages, alertStats>>, exactKeys' \subseteq AlertEvents,
         hourCount' = hourCount \/ hourCount' = 0,
         UNCHANGED <<cooling, cooled>> \/ (cooled' = 0 /\ \A h \in Handlers : handlers[h].pc # "count"),
         \/ UNCHANGED <<exactKeys, alerted>>
         \/ alerted' = [e \in AlertEvents |-> 0] /\ \A h \in Handlers : handlers[h].pc = "free"
  PROVE  AlertInv'
<1>0. AlertTypes BY DEF AlertInv
<1>s. \A stage : At(stage)' = At(stage) BY DEF At
<1>c. \A stage : Cardinality(At(stage)) \in Nat /\ Cardinality(At(stage)) <= Cardinality(Handlers) /\ Cardinality(Handlers) \in Nat BY AtFinite
<1>1. AlertTypes' BY <1>0 DEF AlertTypes
<1>2. HourOK'
  <2> DEFINE n == Cardinality(At(Stage({"daily", "last", "count"})))
  <2>1. n \in Nat /\ hourCount + n <= MAX_PER_HOUR - 1 + Cardinality(Handlers) BY <1>c DEF AlertInv, HourOK
  <2>2. hourCount' + n <= MAX_PER_HOUR - 1 + Cardinality(Handlers)
    <3> HIDE DEF n
    <3> QED BY <1>0, <1>c, <2>1, AlertAssumption DEF AlertTypes
  <2> QED BY <1>s, <2>2 DEF HourOK, At
<1>3. DayOK' BY <1>s DEF AlertInv, DayOK, At
<1>4. CooldownOK'
  <2> DEFINE n == Cardinality(At(Stage({"hourly", "daily", "last", "count"})))
  <2>1. n \in Nat /\ n <= Cardinality(Handlers) /\ cooled + n <= 0 + Cardinality(Handlers) BY <1>c DEF AlertInv, CooldownOK
  <2>2. cooled' + n <= 0 + Cardinality(Handlers)
    <3> HIDE DEF n
    <3>1. cooled' = cooled \/ cooled' = 0 OBVIOUS
    <3> QED BY <1>c, <2>1, <3>1
  <2>3. ~cooling' => cooled' = 0 /\ \A h \in Handlers : handlers'[h].pc # "count" BY DEF AlertInv, CooldownOK
  <2> QED BY <1>s, <2>2, <2>3 DEF CooldownOK, At
<1>5. KeysOK'
  <2>1. CASE UNCHANGED <<exactKeys, alerted>> BY <2>1 DEF AlertInv, KeysOK
  <2>2. CASE alerted' = [e \in AlertEvents |-> 0] /\ \A h \in Handlers : handlers[h].pc = "free"
    <3>1. "free" \notin Recorded BY DEF Recorded
    <3> QED BY <2>2, <3>1 DEF KeysOK
  <2> QED BY <2>1, <2>2
<1>6. OnceOK'
  <2> SUFFICES ASSUME NEW e \in AlertEvents PROVE alerted'[e] + Cardinality(At(StageOf(e))) <= 0 + Cardinality(Handlers) BY <1>s DEF OnceOK, At
  <2>1. CASE alerted'[e] = alerted[e] BY <2>1 DEF AlertInv, OnceOK
  <2>2. CASE alerted'[e] = 0
    <3> DEFINE n == Cardinality(At(StageOf(e)))
    <3>1. n \in Nat /\ n <= Cardinality(Handlers) BY <1>c
    <3> HIDE DEF n
    <3>2. 0 + n <= 0 + Cardinality(Handlers) BY <1>c, <3>1
    <3> QED BY <2>2, <3>2 DEF n
  <2> QED BY <2>1, <2>2
<1>7. StatsOK' BY <1>s DEF AlertInv, StatsOK, At
<1> QED BY <1>1, <1>2, <1>3, <1>4, <1>5, <1>6, <1>7 DEF AlertInv

\* Every step keeps the invariant.
LEMMA AlertStep == AlertInv /\ [A!Next]_(A!vars) => AlertInv'
<1> SUFFICES ASSUME AlertInv, [A!Next]_(A!vars) PROVE AlertInv' OBVIOUS
<1>0. exactKeys \subseteq AlertEvents BY DEF AlertInv, AlertTypes
<1>1. ASSUME NEW h \in Handlers, NEW e \in AlertEvents, A!HandleEvent(h, e) PROVE AlertInv' BY <1>1, MessageInv
<1>2. ASSUME NEW h \in Handlers, A!IsExactDuplicate(h) \/ A!IsSimilarDuplicate(h) PROVE AlertInv' BY <1>2, DedupeInv
<1>3. ASSUME NEW h \in Handlers, A!RecordEvent(h) PROVE AlertInv' BY <1>3, RecordInv
<1>4. ASSUME NEW h \in Handlers, A!IsInCooldown(h) \/ A!ExceedsHourlyLimit(h) \/ A!ExceedsDailyLimit(h) PROVE AlertInv' BY <1>4, ChecksInv
<1>5. ASSUME NEW h \in Handlers, A!RecordLast(h) PROVE AlertInv' BY <1>5, LastInv
<1>6. ASSUME NEW h \in Handlers, A!RecordCounts(h) PROVE AlertInv' BY <1>6, CountsInv
<1>7. ASSUME NEW h \in Handlers, A!ProcessingError(h) PROVE AlertInv' BY <1>7, ErrorInv
<1>8. ASSUME A!CooldownEnds PROVE AlertInv'
  <2>1. UNCHANGED <<exactKeys, hourCount, dayCount, alerted, handlers, messages, alertStats>> /\ cooled' = 0 /\ \A h \in Handlers : handlers[h].pc # "count"
    BY <1>8 DEF A!CooldownEnds, A!dedupeVars, A!boundVars
  <2> QED BY <1>0, <2>1, TimeInv
<1>9. ASSUME A!HourEnds PROVE AlertInv'
  <2>1. /\ UNCHANGED <<dayCount, handlers, messages, alertStats>> /\ cooled' = 0 /\ (\A h \in Handlers : handlers[h].pc = "free")
        /\ exactKeys' = {} /\ hourCount' = 0 /\ alerted' = [e \in AlertEvents |-> 0]
    BY <1>9 DEF A!HourEnds
  <2>2. \A h \in Handlers : handlers[h].pc # "count" BY <2>1
  <2> QED BY <2>1, <2>2, TimeInv
<1>10. ASSUME UNCHANGED A!vars PROVE AlertInv' BY <1>0, <1>10, TimeInv DEF A!vars
<1> QED BY <1>1, <1>2, <1>3, <1>4, <1>5, <1>6, <1>7, <1>8, <1>9, <1>10 DEF A!Next

\* It holds at the start.
LEMMA AlertInit == A!Init => AlertInv
<1> SUFFICES ASSUME A!Init PROVE AlertInv OBVIOUS
<1>1. /\ exactKeys = {} /\ cooling = FALSE /\ hourCount = 0 /\ dayCount = 0 /\ handlers = [h \in Handlers |-> A!Free]
      /\ alerted = [e \in AlertEvents |-> 0] /\ cooled = 0 /\ messages = 0 /\ alertStats = [m \in A!Metrics |-> 0]
  BY DEF A!Init
<1>2. \A h \in Handlers : handlers[h] = A!Free /\ handlers[h].pc = "free" BY <1>1 DEF A!Free
<1>3. AlertTypes BY <1>1, AlertAssumption DEF AlertTypes
<1>c. \A stage : Cardinality(At(stage)) \in Nat /\ Cardinality(At(stage)) <= Cardinality(Handlers) /\ Cardinality(Handlers) \in Nat BY AtFinite
<1>4. HourOK
  <2> DEFINE n == Cardinality(At(Stage({"daily", "last", "count"})))
  <2>1. n = 0
    <3>1. \A h \in Handlers : handlers[h] \notin Stage({"daily", "last", "count"}) BY <1>2 DEF Stage
    <3>2. At(Stage({"daily", "last", "count"})) = {} BY <3>1 DEF At
    <3> QED BY <3>2, FS_EmptySet
  <2> HIDE DEF n
  <2>2. hourCount + n <= MAX_PER_HOUR - 1 + Cardinality(Handlers) BY <1>1, <2>1, AtFinite, AlertAssumption
  <2> QED BY <2>2 DEF n, HourOK
<1>5. DayOK
  <2> DEFINE n == Cardinality(At(Stage({"last", "count"})))
  <2>1. n = 0
    <3>1. \A h \in Handlers : handlers[h] \notin Stage({"last", "count"}) BY <1>2 DEF Stage
    <3>2. At(Stage({"last", "count"})) = {} BY <3>1 DEF At
    <3> QED BY <3>2, FS_EmptySet
  <2> HIDE DEF n
  <2>2. dayCount + n <= MAX_PER_DAY - 1 + Cardinality(Handlers) BY <1>1, <2>1, AtFinite, AlertAssumption
  <2> QED BY <2>2 DEF n, DayOK
<1>6. CooldownOK
  <2> DEFINE n == Cardinality(At(Stage({"hourly", "daily", "last", "count"})))
  <2>1. n \in Nat /\ n <= Cardinality(Handlers) BY <1>c
  <2> HIDE DEF n
  <2>2. cooled + n <= 0 + Cardinality(Handlers) BY <1>1, <1>c, <2>1
  <2> QED BY <1>1, <1>2, <2>2 DEF n, CooldownOK
<1>7. KeysOK BY <1>1, <1>2 DEF KeysOK, Recorded
<1>8. OnceOK
  <2> SUFFICES ASSUME NEW e \in AlertEvents PROVE alerted[e] + Cardinality(At(StageOf(e))) <= 0 + Cardinality(Handlers) BY DEF OnceOK
  <2> DEFINE n == Cardinality(At(StageOf(e)))
  <2>1. n \in Nat /\ n <= Cardinality(Handlers) BY <1>c
  <2> HIDE DEF n
  <2>2. alerted[e] + n <= 0 + Cardinality(Handlers) BY <1>1, <1>c, <2>1
  <2> QED BY <2>2 DEF n
<1>9. StatsOK
  <2>1. \A h \in Handlers : handlers[h] \notin Handling BY <1>2 DEF Handling, Unrecorded, Recorded
  <2>2. At(Handling) = {} BY <2>1 DEF At
  <2>3. Cardinality(At(Handling)) = 0 BY <2>2, FS_EmptySet
  <2> QED BY <1>1, <2>3 DEF StatsOK
<1> QED BY <1>3, <1>4, <1>5, <1>6, <1>7, <1>8, <1>9 DEF AlertInv

\* It says what AlertsAreBounded says.
LEMMA AlertHolds == AlertInv => A!TypeOK /\ A!AlertsAreBounded
<1> SUFFICES ASSUME AlertInv PROVE A!TypeOK /\ A!AlertsAreBounded OBVIOUS
<1>0. AlertTypes BY DEF AlertInv
<1>c. \A stage : Cardinality(At(stage)) \in Nat /\ Cardinality(At(stage)) <= Cardinality(Handlers) /\ Cardinality(Handlers) \in Nat BY AtFinite
<1>o. A!Over = Cardinality(Handlers) - 1 BY DEF A!Over, A!Cardinality, Cardinality
<1>1. A!TypeOK
  <2>1. ASSUME NEW m \in A!Metrics PROVE alertStats[m] \in 0..MaxMessages
    <3> DEFINE n == Cardinality(At(Handling))
    <3>1. n \in Nat /\ alertStats[m] + n <= messages /\ alertStats[m] \in Nat /\ messages \in 0..MaxMessages BY <1>0, <1>c DEF AlertInv, StatsOK, AlertTypes
    <3> HIDE DEF n
    <3> QED BY <3>1, AlertAssumption
  <2> QED BY <1>0, <2>1 DEF AlertTypes, A!TypeOK
<1>2. hourCount <= MAX_PER_HOUR + A!Over
  <2> DEFINE n == Cardinality(At(Stage({"daily", "last", "count"})))
  <2>1. n \in Nat /\ hourCount + n <= MAX_PER_HOUR - 1 + Cardinality(Handlers) BY <1>c DEF AlertInv, HourOK
  <2> HIDE DEF n
  <2>2. hourCount \in Nat /\ dayCount \in Nat /\ MAX_PER_HOUR \in Nat /\ MAX_PER_DAY \in Nat /\ Cardinality(Handlers) \in Nat BY <1>0, <1>c, AlertAssumption DEF AlertTypes
  <2> QED BY <1>o, <2>1, <2>2
<1>3. dayCount <= MAX_PER_DAY + A!Over
  <2> DEFINE n == Cardinality(At(Stage({"last", "count"})))
  <2>1. n \in Nat /\ dayCount + n <= MAX_PER_DAY - 1 + Cardinality(Handlers) BY <1>c DEF AlertInv, DayOK
  <2> HIDE DEF n
  <2>2. hourCount \in Nat /\ dayCount \in Nat /\ MAX_PER_HOUR \in Nat /\ MAX_PER_DAY \in Nat /\ Cardinality(Handlers) \in Nat BY <1>0, <1>c, AlertAssumption DEF AlertTypes
  <2> QED BY <1>o, <2>1, <2>2
<1>4. cooled <= 1 + A!Over
  <2> DEFINE n == Cardinality(At(Stage({"hourly", "daily", "last", "count"})))
  <2>1. n \in Nat /\ cooled + n <= 0 + Cardinality(Handlers) BY <1>c DEF AlertInv, CooldownOK
  <2> HIDE DEF n
  <2> QED BY <1>0, <1>c, <1>o, <2>1 DEF AlertTypes
<1>5. ASSUME NEW e \in AlertEvents PROVE alerted[e] <= 1 + A!Over
  <2> DEFINE n == Cardinality(At(StageOf(e)))
  <2>1. n \in Nat /\ alerted[e] \in Nat /\ alerted[e] + n <= 0 + Cardinality(Handlers) BY <1>0, <1>c DEF AlertInv, OnceOK, AlertTypes
  <2> HIDE DEF n
  <2> QED BY <1>c, <1>o, <2>1
<1> QED BY <1>1, <1>2, <1>3, <1>4, <1>5 DEF A!AlertsAreBounded

\* The alerts of an hour and a day exceed their limit by at most the handlers
\* that run concurrently, less one, and an event alerts at most once per
\* handler, for any limits, handlers and events (notification-
\* throttle.service.ts, notification-deduplication.service.ts).
THEOREM AlertsBounded == Spec => []AlertsAreBounded
<1>1. Init => AlertInv BY AlertPart, AlertInit
<1>2. AlertInv /\ [Next]_vars => AlertInv' BY AlertPart, AlertStep
<1>3. AlertInv => AlertsAreBounded BY AlertHolds DEF AlertsAreBounded
<1> QED BY <1>1, <1>2, <1>3, PTL DEF Spec

-----------------------------------------------------------------------------
(* Orders *)

\* The orders are one of the parts of a behaviour.
LEMMA OrderPart ==
  /\ Init => O!Init
  /\ [Next]_vars => [O!Next]_(O!vars)
  BY DEF Init, Next, vars, orderVars, O!vars

\* A stored order.
Placed == [status : {"pending", "triggered", "cancelled"}, type : {"limit", "stop_loss", "trailing_stop", "market"},
           side : {"buy", "sell"}, price : Nat, stop : Nat]

\* The job that looks for due orders, with the price it read.
Scan == [pc : {"scan"}, price : Prices, left : SUBSET OrderIds]

\* The same job about to save an order as triggered.
Save == [pc : {"save"}, price : Prices, left : SUBSET OrderIds, order : OrderIds]

\* A cancellation about to save.
Cancelling == [pc : {"save"}, order : OrderIds]

\* Types.
OrderTypes ==
  /\ marketOrders \in [OrderIds -> {O!NoOrder} \cup Placed]
  /\ market \in Prices /\ listing \in {"active", "cancelled"}
  /\ job \in {O!NoJob} \cup Scan \cup Save
  /\ cancels \in [Cancellers -> {O!NoCancel} \cup Cancelling]
  /\ seen \in [OrderIds -> SUBSET Prices]

\* The price of the job, and the market price, were seen by every order they
\* concern.
PriceWasSeen ==
  /\ \A q \in OrderIds : marketOrders[q].status # "none" => market \in seen[q]
  /\ job.pc # "idle" => \A q \in job.left : marketOrders[q].status # "none" /\ job.price \in seen[q]

\* The order that the job is about to save was due at its price.
Triggering == job.pc = "save" => job.order \in job.left /\ O!EvaluateOrderTrigger(marketOrders[job.order], job.price)

\* A triggered order was due at a price of its lifetime.
Due == \A q \in OrderIds : marketOrders[q].status = "triggered" => \E p \in seen[q] : O!EvaluateOrderTrigger(marketOrders[q], p)

\* A cancellation is of an order that exists.
CancelsKnown == \A k \in Cancellers : cancels[k].pc = "save" => marketOrders[cancels[k].order].status # "none"

\* While no save overtook another, a cancelled order is not about to be
\* triggered.
NoneOvertakes ==
  /\ job.pc = "save" /\ job.order \notin overtaken =>
        /\ marketOrders[job.order].status = "pending"
        /\ \A k \in Cancellers : ~(cancels[k].pc = "save" /\ cancels[k].order = job.order)
  /\ \A q \in OrderIds : q \in cancelled \ overtaken => marketOrders[q].status = "cancelled"
  /\ cancelled \subseteq OrderIds

\* The inductive invariant of the orders. The job compares an order with the
\* price it read before its awaits, so the invariant follows that price from
\* the read to the save.
OrderInv == OrderTypes /\ PriceWasSeen /\ Triggering /\ Due /\ CancelsKnown /\ NoneOvertakes

\* What the types say, in the form the steps use.
LEMMA OrderFacts ==
  ASSUME OrderTypes
  PROVE  /\ O!NoOrder.status = "none" /\ O!NoJob.pc = "idle" /\ O!NoCancel.pc = "idle"
         /\ \A q \in OrderIds : marketOrders[q].status # "none" <=> marketOrders[q] \in Placed
         /\ job.pc = "scan" <=> job \in Scan
         /\ job.pc = "save" <=> job \in Save
         /\ job.pc # "idle" => job.price \in Prices /\ job.left \subseteq OrderIds
         /\ job.pc = "save" => job.order \in OrderIds
         /\ \A k \in Cancellers : cancels[k].pc = "save" => cancels[k].order \in OrderIds
<1>1. O!NoOrder.status = "none" /\ O!NoJob.pc = "idle" /\ O!NoCancel.pc = "idle" BY DEF O!NoOrder, O!NoJob, O!NoCancel
<1>2. \A q \in OrderIds : marketOrders[q].status # "none" <=> marketOrders[q] \in Placed BY <1>1 DEF OrderTypes, Placed
<1>3. (job.pc = "scan" <=> job \in Scan) /\ (job.pc = "save" <=> job \in Save) BY <1>1 DEF OrderTypes, Scan, Save
<1>4. job \in Scan => job.price \in Prices /\ job.left \subseteq OrderIds BY DEF Scan
<1>5. job \in Save => job.price \in Prices /\ job.left \subseteq OrderIds /\ job.order \in OrderIds BY DEF Save
<1>6. job.pc # "idle" => job \in Scan \cup Save BY <1>1 DEF OrderTypes
<1>7. \A k \in Cancellers : cancels[k].pc = "save" => cancels[k].order \in OrderIds BY <1>1 DEF OrderTypes, Cancelling
<1> QED BY <1>1, <1>2, <1>3, <1>4, <1>5, <1>6, <1>7

\* An order with another status asks for the same.
LEMMA Restatus ==
  ASSUME OrderTypes, NEW q \in OrderIds, marketOrders[q].status # "none", NEW st \in {"pending", "triggered", "cancelled"},
         marketOrders' = [marketOrders EXCEPT ![q].status = st]
  PROVE  /\ marketOrders' \in [OrderIds -> {O!NoOrder} \cup Placed]
         /\ marketOrders'[q].status = st
         /\ \A r \in OrderIds : r # q => marketOrders'[r] = marketOrders[r]
         /\ \A p : O!EvaluateOrderTrigger(marketOrders'[q], p) <=> O!EvaluateOrderTrigger(marketOrders[q], p)
<1> DEFINE new == [marketOrders[q] EXCEPT !.status = st]
<1>1. marketOrders[q] \in Placed BY OrderFacts
<1>2. new \in Placed /\ new.status = st /\ new.type = marketOrders[q].type /\ new.side = marketOrders[q].side
      /\ new.price = marketOrders[q].price /\ new.stop = marketOrders[q].stop
  BY <1>1 DEF Placed
<1>3. marketOrders' = [marketOrders EXCEPT ![q] = new] OBVIOUS
<1> HIDE DEF new
<1>4. marketOrders' \in [OrderIds -> {O!NoOrder} \cup Placed] /\ marketOrders'[q] = new /\ \A r \in OrderIds : r # q => marketOrders'[r] = marketOrders[r]
  BY <1>2, <1>3 DEF OrderTypes
<1>5. \A p : O!EvaluateOrderTrigger(new, p) <=> O!EvaluateOrderTrigger(marketOrders[q], p)
  BY <1>2 DEF O!EvaluateOrderTrigger, O!Trigger
<1> QED BY <1>2, <1>4, <1>5

\* createOrder.
LEMMA CreateInv == ASSUME OrderInv, NEW q \in OrderIds, NEW dto \in Offers, O!CreateOrder(q, dto) PROVE OrderInv'
<1> DEFINE new == [status |-> "pending", type |-> dto.type, side |-> dto.side, price |-> dto.price, stop |-> dto.stop]
<1>0. /\ OrderTypes /\ marketOrders[q].status = "none" /\ marketOrders' = [marketOrders EXCEPT ![q] = new]
      /\ seen' = [seen EXCEPT ![q] = {market}] /\ UNCHANGED <<listing, market, job, cancels, cancelled, overtaken>>
  BY DEF OrderInv, O!CreateOrder
<1>1. dto \in [type : {"limit", "stop_loss", "trailing_stop", "market"}, side : {"buy", "sell"}, price : Nat, stop : Nat] BY OrderAssumption
<1>2. new \in Placed /\ new.status = "pending" BY <1>1 DEF Placed
<1> HIDE DEF new
<1>3. OrderTypes' BY <1>0, <1>2 DEF OrderTypes
<1>4. /\ marketOrders'[q] = new /\ \A r \in OrderIds : r # q => marketOrders'[r] = marketOrders[r] /\ seen'[r] = seen[r]
      /\ seen'[q] = {market}
  BY <1>0 DEF OrderTypes
<1>5. job.pc # "idle" => q \notin job.left /\ job.left \subseteq OrderIds BY <1>0, OrderFacts DEF OrderInv, PriceWasSeen
<1>6. PriceWasSeen' BY <1>0, <1>4, <1>5 DEF OrderInv, PriceWasSeen
<1>7. job.pc = "save" => job.order # q /\ job.order \in OrderIds BY <1>0, <1>5, OrderFacts DEF OrderInv, Triggering
<1>8. Triggering' BY <1>0, <1>4, <1>7 DEF OrderInv, Triggering
<1>9. Due' BY <1>2, <1>4 DEF OrderInv, Due
<1>10. CancelsKnown' BY <1>0, <1>2, <1>4, OrderFacts DEF OrderInv, CancelsKnown
<1>11. NoneOvertakes' BY <1>0, <1>4, <1>7 DEF OrderInv, NoneOvertakes
<1> QED BY <1>3, <1>6, <1>8, <1>9, <1>10, <1>11 DEF OrderInv

\* The price moves.
LEMMA PriceInv == ASSUME OrderInv, NEW p \in Prices, O!PriceMoves(p) PROVE OrderInv'
<1>0. /\ OrderTypes /\ market' = p /\ UNCHANGED <<listing, marketOrders, job, cancels, cancelled, overtaken>>
      /\ seen' = [q \in OrderIds |-> IF marketOrders[q].status = "none" THEN {} ELSE seen[q] \cup {p}]
  BY DEF OrderInv, O!PriceMoves
<1>1. \A q \in OrderIds : marketOrders[q].status # "none" => seen[q] \subseteq seen'[q] /\ p \in seen'[q] BY <1>0
<1>2. seen' \in [OrderIds -> SUBSET Prices] BY <1>0 DEF OrderTypes
<1>3. OrderTypes' BY <1>0, <1>2 DEF OrderTypes
<1>4. PriceWasSeen'
  <2>1. job.pc # "idle" => job.left \subseteq OrderIds BY <1>0, OrderFacts
  <2> QED BY <1>0, <1>1, <2>1 DEF OrderInv, PriceWasSeen
<1>5. Triggering' BY <1>0 DEF OrderInv, Triggering
<1>6. Due'
  <2>1. ASSUME NEW q \in OrderIds, marketOrders[q].status = "triggered" PROVE \E r \in seen'[q] : O!EvaluateOrderTrigger(marketOrders[q], r)
    <3>1. PICK r \in seen[q] : O!EvaluateOrderTrigger(marketOrders[q], r) BY <2>1 DEF OrderInv, Due
    <3>2. r \in seen'[q] BY <1>1, <2>1
    <3> QED BY <3>1, <3>2
  <2> QED BY <1>0, <2>1 DEF Due
<1>7. CancelsKnown' /\ NoneOvertakes' BY <1>0 DEF OrderInv, CancelsKnown, NoneOvertakes
<1> QED BY <1>3, <1>4, <1>5, <1>6, <1>7 DEF OrderInv

\* cancelOrder saves.
LEMMA CancelSaveInv == ASSUME OrderInv, NEW k \in Cancellers, O!CancelSave(k) PROVE OrderInv'
<1> DEFINE q == cancels[k].order
<1>0. /\ OrderTypes /\ cancels[k].pc = "save" /\ marketOrders' = [marketOrders EXCEPT ![q].status = "cancelled"] /\ cancelled' = cancelled \cup {q}
      /\ cancels' = [cancels EXCEPT ![k] = O!NoCancel] /\ UNCHANGED <<listing, market, job, seen, overtaken>>
  BY DEF OrderInv, O!CancelSave
<1>q. q \in OrderIds /\ marketOrders[q].status # "none" BY <1>0, OrderFacts DEF OrderInv, CancelsKnown
<1>j. job.pc = "save" /\ job.order \notin overtaken => job.order # q BY <1>0 DEF OrderInv, NoneOvertakes
<1> HIDE DEF q
<1>1. /\ marketOrders' \in [OrderIds -> {O!NoOrder} \cup Placed]
      /\ marketOrders'[q].status = "cancelled"
      /\ \A r \in OrderIds : r # q => marketOrders'[r] = marketOrders[r]
      /\ \A p : O!EvaluateOrderTrigger(marketOrders'[q], p) <=> O!EvaluateOrderTrigger(marketOrders[q], p)
  <2> DEFINE st == "cancelled"
  <2>1. st \in {"pending", "triggered", "cancelled"} /\ marketOrders' = [marketOrders EXCEPT ![q].status = st] BY <1>0
  <2> HIDE DEF st
  <2>2. /\ marketOrders' \in [OrderIds -> {O!NoOrder} \cup Placed]
        /\ marketOrders'[q].status = st
        /\ \A r \in OrderIds : r # q => marketOrders'[r] = marketOrders[r]
        /\ \A p : O!EvaluateOrderTrigger(marketOrders'[q], p) <=> O!EvaluateOrderTrigger(marketOrders[q], p)
    BY <1>0, <1>q, <2>1, Restatus
  <2> QED BY <2>2 DEF st
<1>c. \A l \in Cancellers : cancels'[l].pc = "save" => cancels'[l] = cancels[l]
  <2>1. O!NoCancel.pc = "idle" BY <1>0, OrderFacts
  <2> QED BY <1>0, <2>1 DEF OrderTypes
<1>2. OrderTypes' BY <1>0, <1>1 DEF OrderTypes
<1>3. PriceWasSeen'
  <2>1. job.pc # "idle" => job.left \subseteq OrderIds BY <1>0, OrderFacts
  <2> QED BY <1>0, <1>1, <1>q, <2>1 DEF OrderInv, PriceWasSeen
<1>4. Triggering'
  <2>1. job.pc = "save" => job.order \in OrderIds BY <1>0, OrderFacts
  <2>2. job.pc = "save" => O!EvaluateOrderTrigger(marketOrders'[job.order], job.price) BY <1>1, <2>1 DEF OrderInv, Triggering
  <2> QED BY <1>0, <2>2 DEF OrderInv, Triggering
<1>5. Due' BY <1>0, <1>1 DEF OrderInv, Due
<1>6. CancelsKnown'
  <2>1. ASSUME NEW l \in Cancellers, cancels'[l].pc = "save" PROVE marketOrders'[cancels'[l].order].status # "none"
    <3>1. cancels'[l] = cancels[l] /\ cancels[l].order \in OrderIds /\ marketOrders[cancels[l].order].status # "none"
      BY <1>0, <1>c, <2>1, OrderFacts DEF OrderInv, CancelsKnown
    <3> QED BY <1>1, <3>1
  <2> QED BY <2>1 DEF CancelsKnown
<1>7. NoneOvertakes'
  <2>1. ASSUME job.pc = "save", job.order \notin overtaken
        PROVE marketOrders'[job.order].status = "pending" /\ \A l \in Cancellers : ~(cancels'[l].pc = "save" /\ cancels'[l].order = job.order)
    <3>1. job.order \in OrderIds /\ job.order # q BY <1>0, <1>j, <2>1, OrderFacts
    <3> QED BY <1>1, <1>c, <2>1, <3>1 DEF OrderInv, NoneOvertakes
  <2>2. \A r \in OrderIds : r \in cancelled' \ overtaken => marketOrders'[r].status = "cancelled" BY <1>0, <1>1 DEF OrderInv, NoneOvertakes
  <2>3. cancelled' \subseteq OrderIds BY <1>0, <1>q DEF OrderInv, NoneOvertakes
  <2> QED BY <1>0, <2>1, <2>2, <2>3 DEF NoneOvertakes
<1> QED BY <1>2, <1>3, <1>4, <1>5, <1>6, <1>7 DEF OrderInv

\* cancelOrder reads.
LEMMA CancelReadInv == ASSUME OrderInv, NEW k \in Cancellers, NEW q \in OrderIds, O!CancelRead(k, q) PROVE OrderInv'
<1> DEFINE x == [pc |-> "save", order |-> q]
<1>0. /\ OrderTypes /\ marketOrders[q].status = "pending" /\ cancels' = [cancels EXCEPT ![k] = x]
      /\ overtaken' = IF job.pc = "save" /\ job.order = q THEN overtaken \cup {q} ELSE overtaken
      /\ UNCHANGED <<listing, marketOrders, market, job, seen, cancelled>>
  BY DEF OrderInv, O!CancelRead
<1>1. x \in Cancelling /\ x.order = q BY DEF Cancelling
<1> HIDE DEF x
<1>2. OrderTypes' BY <1>0, <1>1 DEF OrderTypes
<1>3. PriceWasSeen' /\ Triggering' /\ Due' BY <1>0 DEF OrderInv, PriceWasSeen, Triggering, Due
<1>c. \A l \in Cancellers : cancels'[l] = IF l = k THEN x ELSE cancels[l] BY <1>0 DEF OrderTypes
<1>4. CancelsKnown' BY <1>0, <1>1, <1>c DEF OrderInv, CancelsKnown
<1>5. NoneOvertakes' BY <1>0, <1>1, <1>c DEF OrderInv, NoneOvertakes
<1> QED BY <1>2, <1>3, <1>4, <1>5 DEF OrderInv

\* checkPendingOrders begins.
LEMMA ScanInv == ASSUME OrderInv, O!CheckPendingOrders PROVE OrderInv'
<1> DEFINE left == {q \in OrderIds : marketOrders[q].status = "pending" /\ marketOrders[q].type # "market"}
           x == [pc |-> "scan", price |-> market, left |-> left]
<1>0. /\ OrderTypes /\ job' = x /\ UNCHANGED <<listing, marketOrders, market, cancels, seen, cancelled, overtaken>>
  BY DEF OrderInv, O!CheckPendingOrders, O!historyVars
<1>1. left \subseteq OrderIds /\ \A q \in left : marketOrders[q].status # "none" OBVIOUS
<1> HIDE DEF left
<1>2. x \in Scan /\ x.pc = "scan" /\ x.price = market /\ x.left = left BY <1>0, <1>1 DEF Scan, OrderTypes
<1> HIDE DEF x
<1>3. OrderTypes' BY <1>0, <1>2 DEF OrderTypes
<1>4. PriceWasSeen' BY <1>0, <1>1, <1>2 DEF OrderInv, PriceWasSeen
<1>5. Triggering' /\ Due' /\ CancelsKnown' /\ NoneOvertakes' BY <1>0, <1>2 DEF OrderInv, Triggering, Due, CancelsKnown, NoneOvertakes
<1> QED BY <1>3, <1>4, <1>5 DEF OrderInv

\* The job goes on or ends without touching an order.
LEMMA JobMoves ==
  ASSUME OrderInv, NEW x, job' = x, x = O!NoJob \/ (x \in Scan /\ job.pc # "idle" /\ x.price = job.price /\ x.left \subseteq job.left),
         UNCHANGED <<listing, marketOrders, market, cancels, seen, cancelled>>, overtaken \subseteq overtaken'
  PROVE  OrderInv'
<1>0. OrderTypes BY DEF OrderInv
<1>1. x.pc # "save" /\ (x.pc # "idle" => x \in Scan) BY <1>0, OrderFacts DEF Scan
<1>2. OrderTypes' BY <1>0 DEF OrderTypes
<1>n. O!NoJob.pc = "idle" BY <1>0, OrderFacts
<1>3. PriceWasSeen' BY <1>1, <1>n DEF OrderInv, PriceWasSeen
<1>4. Triggering' /\ Due' /\ CancelsKnown' BY <1>1 DEF OrderInv, Triggering, Due, CancelsKnown
<1>5. NoneOvertakes' BY <1>1 DEF OrderInv, NoneOvertakes
<1> QED BY <1>2, <1>3, <1>4, <1>5 DEF OrderInv

\* It looks at an order.
LEMMA TriggerReadInv == ASSUME OrderInv, NEW q \in OrderIds, O!TriggerRead(q) PROVE OrderInv'
<1> DEFINE x == [pc |-> "save", price |-> job.price, left |-> job.left, order |-> q]
           crossed == \E k \in Cancellers : cancels[k].pc = "save" /\ cancels[k].order = q
<1>0. /\ OrderTypes /\ job.pc = "scan" /\ q \in job.left /\ O!EvaluateOrderTrigger(marketOrders[q], job.price)
      /\ IF marketOrders[q].status = "pending" THEN job' = x ELSE job' = O!NoJob
      /\ overtaken' = IF crossed THEN overtaken \cup {q} ELSE overtaken
      /\ UNCHANGED <<listing, marketOrders, market, cancels, seen, cancelled>>
  BY DEF OrderInv, O!TriggerRead
<1>1. CASE marketOrders[q].status # "pending" BY <1>0, <1>1, JobMoves
<1>2. CASE marketOrders[q].status = "pending"
  <2>1. job.price \in Prices /\ job.left \subseteq OrderIds BY <1>0, OrderFacts
  <2>2. x \in Save /\ x.pc = "save" /\ x.price = job.price /\ x.left = job.left /\ x.order = q BY <2>1 DEF Save
  <2>j. job' = x BY <1>0, <1>2
  <2> HIDE DEF x, crossed
  <2>3. OrderTypes' BY <1>0, <2>2, <2>j DEF OrderTypes
  <2>4. PriceWasSeen' BY <1>0, <2>2, <2>j DEF OrderInv, PriceWasSeen
  <2>5. Triggering' BY <1>0, <2>2, <2>j DEF Triggering
  <2>6. Due' /\ CancelsKnown' BY <1>0 DEF OrderInv, Due, CancelsKnown
  <2>7. NoneOvertakes'
    <3>1. q \notin overtaken' => ~crossed BY <1>0
    <3>2. \A r \in OrderIds : r \in cancelled' \ overtaken' => marketOrders'[r].status = "cancelled" BY <1>0 DEF OrderInv, NoneOvertakes
    <3>3. cancelled' \subseteq OrderIds BY <1>0 DEF OrderInv, NoneOvertakes
    <3> QED BY <1>0, <1>2, <2>2, <2>j, <3>1, <3>2, <3>3 DEF NoneOvertakes, crossed
  <2> QED BY <2>3, <2>4, <2>5, <2>6, <2>7 DEF OrderInv
<1> QED BY <1>1, <1>2

\* It saves the order as triggered.
LEMMA TriggerSaveInv == ASSUME OrderInv, O!TriggerSave PROVE OrderInv'
<1> DEFINE q == job.order
           x == [pc |-> "scan", price |-> job.price, left |-> job.left \ {job.order}]
<1>0. /\ OrderTypes /\ job.pc = "save" /\ marketOrders' = [marketOrders EXCEPT ![q].status = "triggered"] /\ job' = x
      /\ UNCHANGED <<listing, market, cancels, seen, cancelled, overtaken>>
  BY DEF OrderInv, O!TriggerSave, O!historyVars
<1>q. q \in OrderIds /\ q \in job.left /\ O!EvaluateOrderTrigger(marketOrders[q], job.price) /\ job.price \in Prices /\ job.left \subseteq OrderIds
  BY <1>0, OrderFacts DEF OrderInv, Triggering
<1>s. marketOrders[q].status # "none" /\ job.price \in seen[q] BY <1>0, <1>q DEF OrderInv, PriceWasSeen
<1>o. q \notin cancelled \ overtaken BY <1>0, <1>q DEF OrderInv, NoneOvertakes
<1>2. x \in Scan /\ x.pc = "scan" /\ x.price = job.price /\ x.left \subseteq job.left BY <1>q DEF Scan
<1> HIDE DEF q, x
<1>1. /\ marketOrders' \in [OrderIds -> {O!NoOrder} \cup Placed]
      /\ marketOrders'[q].status = "triggered"
      /\ \A r \in OrderIds : r # q => marketOrders'[r] = marketOrders[r]
      /\ \A p : O!EvaluateOrderTrigger(marketOrders'[q], p) <=> O!EvaluateOrderTrigger(marketOrders[q], p)
  <2> DEFINE st == "triggered"
  <2>1. st \in {"pending", "triggered", "cancelled"} /\ marketOrders' = [marketOrders EXCEPT ![q].status = st] BY <1>0
  <2> HIDE DEF st
  <2>2. /\ marketOrders' \in [OrderIds -> {O!NoOrder} \cup Placed]
        /\ marketOrders'[q].status = st
        /\ \A r \in OrderIds : r # q => marketOrders'[r] = marketOrders[r]
        /\ \A p : O!EvaluateOrderTrigger(marketOrders'[q], p) <=> O!EvaluateOrderTrigger(marketOrders[q], p)
    BY <1>0, <1>q, <1>s, <2>1, Restatus
  <2> QED BY <2>2 DEF st
<1>3. OrderTypes' BY <1>0, <1>1, <1>2 DEF OrderTypes
<1>4. PriceWasSeen' BY <1>0, <1>1, <1>2, <1>q, <1>s DEF OrderInv, PriceWasSeen
<1>5. Triggering' BY <1>0, <1>2 DEF Triggering
<1>6. Due'
  <2>1. ASSUME NEW r \in OrderIds, marketOrders'[r].status = "triggered" PROVE \E p \in seen[r] : O!EvaluateOrderTrigger(marketOrders'[r], p)
    <3>1. CASE r = q BY <1>1, <1>q, <1>s, <3>1
    <3>2. CASE r # q BY <1>1, <2>1, <3>2 DEF OrderInv, Due
    <3> QED BY <3>1, <3>2
  <2> QED BY <1>0, <2>1 DEF Due
<1>7. CancelsKnown'
  <2>1. ASSUME NEW l \in Cancellers, cancels[l].pc = "save" PROVE marketOrders'[cancels[l].order].status # "none"
    <3>1. cancels[l].order \in OrderIds /\ marketOrders[cancels[l].order].status # "none" BY <1>0, <2>1, OrderFacts DEF OrderInv, CancelsKnown
    <3> QED BY <1>1, <3>1
  <2> QED BY <1>0, <2>1 DEF CancelsKnown
<1>8. NoneOvertakes' BY <1>0, <1>1, <1>2, <1>o DEF OrderInv, NoneOvertakes
<1> QED BY <1>3, <1>4, <1>5, <1>6, <1>7, <1>8 DEF OrderInv

\* Every step keeps the invariant.
LEMMA OrderStep == OrderInv /\ [O!Next]_(O!vars) => OrderInv'
<1> SUFFICES ASSUME OrderInv, [O!Next]_(O!vars) PROVE OrderInv' OBVIOUS
<1>0. OrderTypes BY DEF OrderInv
<1>1. ASSUME NEW q \in OrderIds, NEW dto \in Offers, O!CreateOrder(q, dto) PROVE OrderInv' BY <1>1, CreateInv
<1>2. ASSUME O!Cancel PROVE OrderInv'
  <2>1. listing' = "cancelled" /\ UNCHANGED <<marketOrders, market, job, cancels, seen, cancelled, overtaken>> BY <1>2 DEF O!Cancel, O!historyVars
  <2>2. OrderTypes' BY <1>0, <2>1 DEF OrderTypes
  <2>3. PriceWasSeen' /\ Triggering' /\ Due' /\ CancelsKnown' /\ NoneOvertakes' BY <2>1 DEF OrderInv, PriceWasSeen, Triggering, Due, CancelsKnown, NoneOvertakes
  <2> QED BY <2>2, <2>3 DEF OrderInv
<1>3. ASSUME NEW p \in Prices, O!PriceMoves(p) PROVE OrderInv' BY <1>3, PriceInv
<1>4. ASSUME NEW k \in Cancellers, O!CancelSave(k) PROVE OrderInv' BY <1>4, CancelSaveInv
<1>5. ASSUME NEW k \in Cancellers, NEW q \in OrderIds, O!CancelRead(k, q) PROVE OrderInv' BY <1>5, CancelReadInv
<1>6. ASSUME O!CheckPendingOrders PROVE OrderInv' BY <1>6, ScanInv
<1>7. ASSUME O!TriggerSave PROVE OrderInv' BY <1>7, TriggerSaveInv
<1>8. ASSUME O!JobDone PROVE OrderInv' BY <1>8, JobMoves DEF O!JobDone, O!historyVars
<1>9. ASSUME NEW q \in OrderIds, O!TriggerRead(q) PROVE OrderInv' BY <1>9, TriggerReadInv
<1>10. ASSUME NEW q \in OrderIds, O!Skip(q) PROVE OrderInv'
  <2> DEFINE x == [job EXCEPT !.left = job.left \ {q}]
  <2>1. job.pc = "scan" /\ job' = x /\ UNCHANGED <<listing, marketOrders, market, cancels, seen, cancelled, overtaken>> BY <1>10 DEF O!Skip, O!historyVars
  <2>2. job \in Scan /\ job.left \subseteq OrderIds BY <1>0, <2>1, OrderFacts
  <2>3. x \in Scan /\ x.price = job.price /\ x.left \subseteq job.left BY <2>2 DEF Scan
  <2> HIDE DEF x
  <2> QED BY <2>1, <2>3, JobMoves
<1>11. ASSUME UNCHANGED O!vars PROVE OrderInv'
  <2>1. UNCHANGED <<listing, marketOrders, market, job, cancels, seen, cancelled, overtaken>> BY <1>11 DEF O!vars
  <2>2. OrderTypes' BY <1>0, <2>1 DEF OrderTypes
  <2>3. PriceWasSeen' /\ Triggering' /\ Due' /\ CancelsKnown' /\ NoneOvertakes' BY <2>1 DEF OrderInv, PriceWasSeen, Triggering, Due, CancelsKnown, NoneOvertakes
  <2> QED BY <2>2, <2>3 DEF OrderInv
<1> QED BY <1>1, <1>2, <1>3, <1>4, <1>5, <1>6, <1>7, <1>8, <1>9, <1>10, <1>11 DEF O!Next

\* It holds at the start.
LEMMA OrderInit == O!Init => OrderInv
<1> SUFFICES ASSUME O!Init PROVE OrderInv OBVIOUS
<1>1. /\ listing = "active" /\ market \in Prices /\ marketOrders = [q \in OrderIds |-> O!NoOrder]
      /\ job = O!NoJob /\ cancels = [k \in Cancellers |-> O!NoCancel] /\ seen = [q \in OrderIds |-> {}] /\ cancelled = {} /\ overtaken = {}
  BY DEF O!Init
<1>2. OrderTypes BY <1>1 DEF OrderTypes
<1>3. /\ job.pc = "idle" /\ (\A q \in OrderIds : marketOrders[q].status = "none") /\ (\A k \in Cancellers : cancels[k].pc = "idle")
  BY <1>1 DEF O!NoOrder, O!NoJob, O!NoCancel
<1> QED BY <1>1, <1>2, <1>3 DEF OrderInv, PriceWasSeen, Triggering, Due, CancelsKnown, NoneOvertakes

\* It says what OrdersAreSound says.
LEMMA OrderHolds == OrderInv => O!TypeOK /\ O!TriggeredWasDue /\ O!CancelStands
<1> SUFFICES ASSUME OrderInv PROVE O!TypeOK /\ O!TriggeredWasDue /\ O!CancelStands OBVIOUS
<1>0. OrderTypes BY DEF OrderInv
<1>1. O!TypeOK
  <2>1. O!NoOrder.status = "none" BY <1>0, OrderFacts
  <2>2. \A q \in OrderIds : marketOrders[q].status \in O!OrderStatus BY <1>0, <2>1 DEF OrderTypes, Placed, O!OrderStatus
  <2> QED BY <1>0, <2>2 DEF OrderTypes, O!TypeOK
<1>2. ASSUME NEW q \in OrderIds, marketOrders[q].status = "triggered"
      PROVE LET order == marketOrders[q] IN
        CASE order.type = "limit" /\ order.side = "buy"  -> \E p \in seen[q] : p <= order.price
          [] order.type = "limit" /\ order.side = "sell" -> \E p \in seen[q] : p >= order.price
          [] order.type # "limit" /\ order.side = "buy"  -> \E p \in seen[q] : p >= order.stop
          [] order.type # "limit" /\ order.side = "sell" -> \E p \in seen[q] : p <= order.stop
  <2> DEFINE order == marketOrders[q]
  <2>1. order \in Placed BY <1>0, <1>2, OrderFacts
  <2>2. PICK p \in seen[q] : O!EvaluateOrderTrigger(order, p) BY <1>2 DEF OrderInv, Due
  <2>3. order.type \in {"limit", "stop_loss", "trailing_stop"} /\ order.side \in {"buy", "sell"} BY <2>1, <2>2 DEF Placed, O!EvaluateOrderTrigger
  <2> HIDE DEF order
  <2>4. CASE order.type = "limit" /\ order.side = "buy"
    <3>1. p <= order.price BY <2>2, <2>4 DEF O!EvaluateOrderTrigger, O!Trigger
    <3> QED BY <2>4, <3>1 DEF order
  <2>5. CASE order.type = "limit" /\ order.side = "sell"
    <3>1. p >= order.price BY <2>2, <2>5 DEF O!EvaluateOrderTrigger, O!Trigger
    <3> QED BY <2>5, <3>1 DEF order
  <2>6. CASE order.type # "limit" /\ order.side = "buy"
    <3>1. p >= order.stop BY <2>2, <2>3, <2>6 DEF O!EvaluateOrderTrigger, O!Trigger
    <3> QED BY <2>6, <3>1 DEF order
  <2>7. CASE order.type # "limit" /\ order.side = "sell"
    <3>1. p <= order.stop BY <2>2, <2>3, <2>7 DEF O!EvaluateOrderTrigger, O!Trigger
    <3> QED BY <2>7, <3>1 DEF order
  <2> QED BY <2>3, <2>4, <2>5, <2>6, <2>7
<1>3. O!TriggeredWasDue BY <1>2 DEF O!TriggeredWasDue
<1>4. O!CancelStands BY DEF O!CancelStands, OrderInv, NoneOvertakes
<1> QED BY <1>1, <1>3, <1>4

\* A triggered order was due at a price of its lifetime, and a cancelled
\* order stays cancelled unless a save of the job overtook the cancellation,
\* for any set of orders, prices and cancellations (checkPendingOrders,
\* evaluateOrderTrigger, cancelOrder).
THEOREM OrdersSound == Spec => []OrdersAreSound
<1>1. Init => OrderInv BY OrderPart, OrderInit
<1>2. OrderInv /\ [Next]_vars => OrderInv' BY OrderPart, OrderStep
<1>3. OrderInv => OrdersAreSound BY OrderHolds DEF OrdersAreSound
<1> QED BY <1>1, <1>2, <1>3, PTL DEF Spec

-----------------------------------------------------------------------------
(* Reorganizations: the invariant, the chain *)

\* The recovery from reorganizations is one of the parts of a behaviour.
LEMMA ReorgPart ==
  /\ Init => H!Init
  /\ [Next]_vars => [H!Next]_(H!vars)
  BY DEF Init, Next, vars, reorgVars, H!vars

\* A check of the reorg handler.
Check == [pc : {"idle", "compare", "invalidate", "rewind", "fetch", "flush", "last", "recovered", "backfilled"},
          current : 0..MaxLedger, fork : 0..MaxLedger, from : Nat, to : 0..MaxLedger, forks : Nat]

\* The row of indexer_state.
Cursor == [ledger : 0..MaxLedger, hash : H!Hash \cup {H!NoHash}]

\* The handler of a ledger.
Handler == [pc : {"idle", "fetch", "flush", "last"}, cursor : 0..MaxLedger, hash : H!Hash \cup {H!NoHash}]

\* The events of ledgers a to b of a chain.
Canon(ch, a, b) == {[ledger |-> l, hash |-> ch[l]] : l \in (a..b) \cap DOMAIN ch}

\* Types.
ReorgTypes ==
  /\ reorgChain \in Seq(H!Hash) /\ Len(reorgChain) <= MaxLedger
  /\ forks \in 0..MaxReorgs
  /\ valid \subseteq H!Event /\ pending \subseteq H!Event
  /\ last \in Cursor /\ stream \in Handler /\ check \in Check
  /\ disturbed \in BOOLEAN

\* Before the first reorganization every stored hash is the one on the chain,
\* so no check finds a fork.
Unforked ==
  forks = 0 =>
     /\ \A i \in 1..Len(reorgChain) : reorgChain[i] = 0
     /\ last.hash # H!NoHash => last.hash = 0 /\ last.ledger <= Len(reorgChain)
     /\ stream.pc # "idle" => stream.hash = 0 /\ stream.cursor <= Len(reorgChain)
     /\ check.pc # "invalidate"

\* As long as nothing failed and no check met a ledger, the queue holds
\* events only between a fetch and its flush, and a check and a ledger
\* exclude each other.
Quiet ==
  ~disturbed => /\ pending # {} => stream.pc = "flush" \/ check.pc = "flush"
                /\ stream.pc = "idle" \/ check.pc = "idle"

\* The range of a check: not past the tip it read, and beginning at the fork
\* when there is one.
Ranges ==
  /\ check.forks <= forks
  /\ check.to <= check.current
  /\ check.pc \in {"invalidate", "rewind", "recovered"} => check.fork >= 1
  /\ check.pc \in {"fetch", "flush", "last"} => check.from >= 1
  /\ check.from # 0 /\ check.fork # 0 => check.from = check.fork
  /\ check.pc = "compare" => check.fork = 0
  /\ check.pc \in {"compare", "invalidate", "rewind"} => check.from = 0
  /\ check.pc # "idle" => check.current >= 1
  /\ check.pc \in {"fetch", "flush", "last"} => check.to >= 1

\* Rows that hold the events of the range of a check and, after a fork, none
\* else from the fork on.
Written(rows) ==
  /\ Canon(reorgChain, check.from, check.to) \subseteq rows
  /\ check.fork > 0 => \A row \in rows : row.ledger >= check.fork => row \in Canon(reorgChain, check.from, check.to)

\* What a check has done so far, when nothing came between: after the
\* invalidation no row from the fork on is valid, after the fetch the rows
\* and the queue together are as they should be, after the flush the rows
\* alone.
Work ==
  check.forks = forks /\ ~disturbed =>
     /\ check.pc # "idle" => check.current <= Len(reorgChain)
     /\ check.pc \in {"rewind", "fetch"} /\ check.fork > 0 => \A row \in valid : row.ledger < check.fork
     /\ check.pc = "flush" => Written(valid \cup pending)
     /\ check.pc \in {"last", "recovered", "backfilled"} /\ check.from # 0 => Written(valid)
     /\ check.pc = "recovered" /\ check.from = 0 => check.to < check.fork

\* The inductive invariant of the recovery. The properties speak of a check
\* that is over; the invariant says what each of its steps has established,
\* and that an undisturbed queue is empty when the check fetches.
ReorgInv == ReorgTypes /\ Unforked /\ Quiet /\ Ranges /\ Work

\* getEvents of a range returns the events of the chain.
LEMMA CanonIs ==
  ASSUME ReorgTypes, NEW a \in Nat, NEW b \in Nat
  PROVE  Canon(reorgChain, a, b) \subseteq H!Event /\ H!Fetched(a, b) = Canon(reorgChain, a, b)
<1>1. Len(reorgChain) \in Nat /\ DOMAIN reorgChain = 1..Len(reorgChain) /\ (\A i \in 1..Len(reorgChain) : reorgChain[i] \in H!Hash)
      /\ Len(reorgChain) <= MaxLedger
  BY LenProperties, ElementOfSeq DEF ReorgTypes
<1>2. ASSUME NEW l \in (a..b) \cap DOMAIN reorgChain PROVE [ledger |-> l, hash |-> reorgChain[l]] \in H!Event
  <2>1. l \in 1..MaxLedger /\ reorgChain[l] \in H!Hash BY <1>1, ReorgAssumption
  <2> QED BY <2>1 DEF H!Event
<1>3. Canon(reorgChain, a, b) \subseteq H!Event BY <1>2 DEF Canon
<1>4. H!Fetched(a, b) = Canon(reorgChain, a, b) BY DEF H!Fetched, Canon
<1> QED BY <1>3, <1>4

\* A new ledger does not change the events of those before it.
LEMMA CanonKept ==
  ASSUME ReorgTypes, NEW x \in H!Hash, NEW a \in Nat, NEW b \in Nat, b <= Len(reorgChain), reorgChain' = Append(reorgChain, x)
  PROVE  Canon(reorgChain', a, b) = Canon(reorgChain, a, b)
<1>1. reorgChain \in Seq(H!Hash) /\ Len(reorgChain) \in Nat /\ DOMAIN reorgChain = 1..Len(reorgChain) BY LenProperties DEF ReorgTypes
<1>2. reorgChain' \in Seq(H!Hash) /\ Len(reorgChain') = Len(reorgChain) + 1 /\ \A i \in 1..Len(reorgChain) : reorgChain'[i] = reorgChain[i]
  BY <1>1, AppendProperties
<1>3. DOMAIN reorgChain' = 1..Len(reorgChain') BY <1>2, LenProperties
<1>4. (a..b) \cap DOMAIN reorgChain' = (a..b) \cap DOMAIN reorgChain BY <1>1, <1>2, <1>3
<1>5. \A l \in (a..b) \cap DOMAIN reorgChain : reorgChain'[l] = reorgChain[l] BY <1>1, <1>2
<1> QED BY <1>4, <1>5 DEF Canon

\* What the types say, in the form the steps use.
LEMMA ReorgFacts ==
  ASSUME ReorgTypes
  PROVE  /\ Len(reorgChain) \in Nat /\ Len(reorgChain) <= MaxLedger /\ DOMAIN reorgChain = 1..Len(reorgChain)
         /\ \A i \in 1..Len(reorgChain) : reorgChain[i] \in H!Hash
         /\ check.current \in 0..MaxLedger /\ check.fork \in 0..MaxLedger /\ check.from \in Nat /\ check.to \in 0..MaxLedger
         /\ check.forks \in Nat /\ forks \in Nat
         /\ last.ledger \in 0..MaxLedger /\ last.hash \in H!Hash \cup {H!NoHash}
         /\ stream.cursor \in 0..MaxLedger /\ stream.hash \in H!Hash \cup {H!NoHash}
         /\ H!NoCheck \in Check /\ H!NoCheck.pc = "idle" /\ H!NoCheck.to = 0 /\ H!NoCheck.current = 0 /\ H!NoCheck.from = 0
         /\ H!NoCheck.forks = 0 /\ H!NoCheck.fork = 0
         /\ \A row \in H!Event : row.ledger \in 1..MaxLedger
<1>1. Len(reorgChain) \in Nat /\ DOMAIN reorgChain = 1..Len(reorgChain) /\ (\A i \in 1..Len(reorgChain) : reorgChain[i] \in H!Hash)
  BY LenProperties, ElementOfSeq DEF ReorgTypes
<1>2. /\ check.current \in 0..MaxLedger /\ check.fork \in 0..MaxLedger /\ check.from \in Nat /\ check.to \in 0..MaxLedger
      /\ check.forks \in Nat
  BY DEF ReorgTypes, Check
<1>3. last.ledger \in 0..MaxLedger /\ last.hash \in H!Hash \cup {H!NoHash} BY DEF ReorgTypes, Cursor
<1>4. stream.cursor \in 0..MaxLedger /\ stream.hash \in H!Hash \cup {H!NoHash} BY DEF ReorgTypes, Handler
<1>5. H!NoCheck \in Check BY ReorgAssumption DEF H!NoCheck, Check
<1>6. H!NoCheck.pc = "idle" /\ H!NoCheck.to = 0 /\ H!NoCheck.current = 0 /\ H!NoCheck.from = 0 /\ H!NoCheck.forks = 0 /\ H!NoCheck.fork = 0 BY DEF H!NoCheck
<1>7. \A row \in H!Event : row.ledger \in 1..MaxLedger BY DEF H!Event
<1>8. forks \in Nat /\ Len(reorgChain) <= MaxLedger BY ReorgAssumption DEF ReorgTypes
<1> QED BY <1>1, <1>2, <1>3, <1>4, <1>5, <1>6, <1>7, <1>8

\* A ledger closes.
LEMMA ClosesInv == ASSUME ReorgInv, H!LedgerCloses PROVE ReorgInv'
<1>0. /\ ReorgTypes /\ Len(reorgChain) < MaxLedger /\ reorgChain' = Append(reorgChain, forks)
      /\ UNCHANGED <<forks, valid, last, pending, stream, check, disturbed>>
  BY DEF ReorgInv, H!LedgerCloses
<1>1. Len(reorgChain) \in Nat /\ forks \in H!Hash /\ reorgChain \in Seq(H!Hash) BY <1>0, ReorgFacts DEF ReorgTypes, H!Hash
<1>2. reorgChain' \in Seq(H!Hash) /\ Len(reorgChain') = Len(reorgChain) + 1 /\ reorgChain'[Len(reorgChain) + 1] = forks
      /\ \A i \in 1..Len(reorgChain) : reorgChain'[i] = reorgChain[i]
  BY <1>0, <1>1, AppendProperties
<1>3. ReorgTypes' BY <1>0, <1>1, <1>2, ReorgAssumption DEF ReorgTypes
<1>f. check.current \in Nat /\ check.to \in Nat /\ check.from \in Nat /\ last.ledger \in Nat /\ stream.cursor \in Nat BY <1>0, ReorgFacts, ReorgAssumption
<1>4. Unforked'
  <2>1. ASSUME forks = 0 PROVE \A i \in 1..Len(reorgChain') : reorgChain'[i] = 0
    <3> TAKE i \in 1..Len(reorgChain')
    <3>1. i \in 1..Len(reorgChain) \/ i = Len(reorgChain) + 1 BY <1>1, <1>2
    <3> QED BY <1>2, <2>1, <3>1 DEF ReorgInv, Unforked
  <2>2. \A n \in Nat : n <= Len(reorgChain) => n <= Len(reorgChain') BY <1>1, <1>2
  <2> QED BY <1>0, <1>f, <2>1, <2>2 DEF ReorgInv, Unforked
<1>5. Quiet' /\ Ranges' BY <1>0 DEF ReorgInv, Quiet, Ranges
<1>6. Work'
  <2>1. ASSUME check.forks = forks, ~disturbed, check.pc # "idle"
        PROVE /\ check.current <= Len(reorgChain')
              /\ Canon(reorgChain', check.from, check.to) = Canon(reorgChain, check.from, check.to)
    <3>1. check.current <= Len(reorgChain) BY <2>1 DEF ReorgInv, Work
    <3>2. check.to <= Len(reorgChain) BY <1>1, <1>f, <3>1 DEF ReorgInv, Ranges
    <3> QED BY <1>0, <1>1, <1>2, <1>f, <3>1, <3>2, CanonKept
  <2> QED BY <1>0, <2>1 DEF ReorgInv, Work, Written
<1> QED BY <1>3, <1>4, <1>5, <1>6 DEF ReorgInv

\* The chain is reorganized: no check that is under way is Settled any more.
LEMMA ForksInv == ASSUME ReorgInv, H!Reorganize PROVE ReorgInv'
<1>0. /\ ReorgTypes /\ forks < MaxReorgs /\ forks' = forks + 1 /\ UNCHANGED <<valid, last, pending, stream, check, disturbed>>
      /\ \E k \in 1..H!Smaller(MaxDepth, Len(reorgChain)) : \E dropped \in 0..k :
          reorgChain' = [i \in 1..(Len(reorgChain) - dropped) |->
                        IF i > Len(reorgChain) - k THEN forks + 1 ELSE reorgChain[i]]
  BY DEF ReorgInv, H!Reorganize
<1>1. /\ Len(reorgChain) \in Nat /\ Len(reorgChain) <= MaxLedger /\ forks \in Nat /\ check.forks \in Nat
      /\ \A i \in 1..Len(reorgChain) : reorgChain[i] \in H!Hash
  BY <1>0, ReorgFacts
<1>k. PICK k \in 1..H!Smaller(MaxDepth, Len(reorgChain)) : \E dropped \in 0..k :
          reorgChain' = [i \in 1..(Len(reorgChain) - dropped) |-> IF i > Len(reorgChain) - k THEN forks + 1 ELSE reorgChain[i]]
  BY <1>0
<1>2. PICK dropped \in 0..k :
          reorgChain' = [i \in 1..(Len(reorgChain) - dropped) |-> IF i > Len(reorgChain) - k THEN forks + 1 ELSE reorgChain[i]]
  BY <1>k
<1>3. k <= Len(reorgChain) /\ k \in Nat /\ dropped \in Nat /\ dropped <= k BY <1>1, <1>2, ReorgAssumption DEF H!Smaller
<1> DEFINE n == Len(reorgChain) - dropped
           f == [i \in 1..n |-> IF i > Len(reorgChain) - k THEN forks + 1 ELSE reorgChain[i]]
<1>4. n \in Nat /\ n <= Len(reorgChain) BY <1>1, <1>3
<1>5. forks + 1 \in H!Hash BY <1>0, <1>1, ReorgAssumption DEF H!Hash
<1>6. f \in [1..n -> H!Hash]
  <2>1. \A i \in 1..n : i \in 1..Len(reorgChain) BY <1>1, <1>4
  <2> QED BY <1>1, <1>5, <2>1
<1>7. reorgChain' = f BY <1>2
<1> HIDE DEF f, n
<1>8. f \in Seq(H!Hash) BY <1>4, <1>6, SeqDef
<1>9. Len(f) = n
  <2>1. DOMAIN f = 1..n BY <1>6
  <2> QED BY <1>4, <1>8, <2>1, LenProperties
<1>10. ReorgTypes'
  <2>1. reorgChain' \in Seq(H!Hash) /\ Len(reorgChain') <= MaxLedger BY <1>1, <1>4, <1>7, <1>8, <1>9, ReorgAssumption
  <2>2. forks' \in 0..MaxReorgs BY <1>0, <1>1, ReorgAssumption
  <2> QED BY <1>0, <2>1, <2>2 DEF ReorgTypes
<1>11. Unforked' BY <1>0, <1>1 DEF Unforked
<1>12. Quiet' BY <1>0 DEF ReorgInv, Quiet
<1>13. Ranges' /\ check.forks # forks' BY <1>0, <1>1 DEF ReorgInv, Ranges
<1>14. Work' BY <1>0, <1>13 DEF Work
<1> QED BY <1>10, <1>11, <1>12, <1>13, <1>14 DEF ReorgInv

\* A step of the handler of a ledger or of the flush timer keeps the
\* invariant, whatever the check is doing.
LEMMA BesideInv ==
  ASSUME ReorgInv, ReorgTypes', UNCHANGED <<reorgChain, forks, check>>, disturbed => disturbed',
         forks = 0 => (last'.hash # H!NoHash => last'.hash = 0 /\ last'.ledger <= Len(reorgChain)),
         forks = 0 => (stream'.pc # "idle" => stream'.hash = 0 /\ stream'.cursor <= Len(reorgChain)),
         ~disturbed' => pending' = {} \/ stream'.pc = "flush" \/ (pending' = pending /\ stream' = stream),
         ~disturbed' => stream'.pc = "idle" \/ check.pc = "idle",
         ~disturbed' => (valid' \cup pending' = valid \cup pending /\ (valid' = valid \/ check.pc = "flush")) \/ check.pc = "idle"
  PROVE  ReorgInv'
<1>1. Unforked' BY DEF ReorgInv, Unforked
<1>2. Quiet' BY DEF ReorgInv, Quiet
<1>3. Ranges' BY DEF ReorgInv, Ranges
<1>4. Work'
  <2> SUFFICES ASSUME check.forks = forks, ~disturbed', check.pc # "idle" PROVE Work' BY DEF Work
  <2>1. ~disturbed /\ valid' \cup pending' = valid \cup pending /\ (valid' = valid \/ check.pc = "flush") OBVIOUS
  <2> QED BY <2>1 DEF ReorgInv, Work, Written
<1> QED BY <1>1, <1>2, <1>3, <1>4 DEF ReorgInv

-----------------------------------------------------------------------------
(* Reorganizations: the handler of a ledger, and the comparison *)

\* The handler of a ledger at its next step.
LEMMA StreamTyped ==
  ASSUME ReorgTypes, NEW p \in {"idle", "fetch", "flush", "last"}
  PROVE  /\ [stream EXCEPT !.pc = p] \in Handler
         /\ [stream EXCEPT !.pc = p].pc = p
         /\ [stream EXCEPT !.pc = p].hash = stream.hash
         /\ [stream EXCEPT !.pc = p].cursor = stream.cursor
  BY DEF ReorgTypes, Handler

\* A ledger is delivered.
LEMMA StreamLedgerInv == ASSUME ReorgInv, H!StreamLedger PROVE ReorgInv'
<1>0. /\ ReorgTypes /\ stream.pc = "idle" /\ stream.cursor < Len(reorgChain)
      /\ stream' = [pc |-> "fetch", cursor |-> stream.cursor + 1, hash |-> reorgChain[stream.cursor + 1]]
      /\ disturbed' = (disturbed \/ check.pc # "idle")
      /\ UNCHANGED <<reorgChain, forks, valid, last, pending, check>>
  BY DEF ReorgInv, H!StreamLedger
<1>1. /\ Len(reorgChain) \in Nat /\ Len(reorgChain) <= MaxLedger /\ stream.cursor \in Nat
      /\ \A i \in 1..Len(reorgChain) : reorgChain[i] \in H!Hash
  BY <1>0, ReorgFacts
<1>2. stream.cursor + 1 \in 1..Len(reorgChain) /\ stream.cursor + 1 \in 0..MaxLedger BY <1>0, <1>1, ReorgAssumption
<1>3. stream' \in Handler /\ stream'.pc = "fetch" /\ stream'.cursor = stream.cursor + 1 /\ stream'.hash = reorgChain[stream.cursor + 1]
  BY <1>0, <1>1, <1>2 DEF Handler
<1>4. disturbed' \in BOOLEAN BY <1>0
<1>5. ReorgTypes' BY <1>0, <1>3, <1>4 DEF ReorgTypes
<1>6. forks = 0 => stream'.hash = 0 /\ stream'.cursor <= Len(reorgChain) BY <1>1, <1>2, <1>3 DEF ReorgInv, Unforked
<1>7. forks = 0 => (last'.hash # H!NoHash => last'.hash = 0 /\ last'.ledger <= Len(reorgChain)) BY <1>0 DEF ReorgInv, Unforked
<1>8. ~disturbed' => check.pc = "idle" /\ pending = {} BY <1>0 DEF ReorgInv, Quiet
<1> QED BY <1>0, <1>5, <1>6, <1>7, <1>8, BesideInv

\* Its events are queued.
LEMMA StreamFetchInv == ASSUME ReorgInv, H!StreamFetch PROVE ReorgInv'
<1>0. /\ ReorgTypes /\ stream.pc = "fetch" /\ pending' = pending \cup H!Fetched(stream.cursor, stream.cursor)
      /\ stream' = [stream EXCEPT !.pc = "flush"] /\ UNCHANGED <<reorgChain, forks, valid, last, check, disturbed>>
  BY DEF ReorgInv, H!StreamFetch
<1>1. stream' \in Handler /\ stream'.pc = "flush" /\ stream'.cursor = stream.cursor /\ stream'.hash = stream.hash BY <1>0, StreamTyped
<1>2. H!Fetched(stream.cursor, stream.cursor) \subseteq H!Event
  <2>1. stream.cursor \in Nat BY <1>0, ReorgFacts, ReorgAssumption
  <2> QED BY <1>0, <2>1, CanonIs
<1>5. ReorgTypes' BY <1>0, <1>1, <1>2 DEF ReorgTypes
<1>6. forks = 0 => stream'.hash = 0 /\ stream'.cursor <= Len(reorgChain) BY <1>0, <1>1 DEF ReorgInv, Unforked
<1>7. forks = 0 => (last'.hash # H!NoHash => last'.hash = 0 /\ last'.ledger <= Len(reorgChain)) BY <1>0 DEF ReorgInv, Unforked
<1>8. ~disturbed => check.pc = "idle" BY <1>0 DEF ReorgInv, Quiet
<1> QED BY <1>0, <1>1, <1>5, <1>6, <1>7, <1>8, BesideInv

\* The queue is flushed, or that fails.
LEMMA StreamFlushInv == ASSUME ReorgInv, H!StreamFlush PROVE ReorgInv'
<1>0. /\ ReorgTypes /\ stream.pc = "flush" /\ UNCHANGED <<reorgChain, forks, last, check>>
      /\ \/ /\ valid' = valid \cup pending /\ pending' = {} /\ stream' = [stream EXCEPT !.pc = "last"] /\ disturbed' = disturbed
         \/ /\ stream' = [stream EXCEPT !.pc = "idle"] /\ disturbed' = TRUE /\ UNCHANGED <<valid, pending>>
  BY DEF ReorgInv, H!StreamFlush
<1>1. stream' \in Handler /\ stream'.pc \in {"idle", "last"} /\ stream'.cursor = stream.cursor /\ stream'.hash = stream.hash
  BY <1>0, StreamTyped
<1>2. valid' \subseteq H!Event /\ pending' \subseteq H!Event /\ disturbed' \in BOOLEAN BY <1>0 DEF ReorgTypes
<1>5. ReorgTypes' BY <1>0, <1>1, <1>2 DEF ReorgTypes
<1>6. forks = 0 => stream'.hash = 0 /\ stream'.cursor <= Len(reorgChain) BY <1>0, <1>1 DEF ReorgInv, Unforked
<1>7. forks = 0 => (last'.hash # H!NoHash => last'.hash = 0 /\ last'.ledger <= Len(reorgChain)) BY <1>0 DEF ReorgInv, Unforked
<1>8. ~disturbed => check.pc = "idle" BY <1>0 DEF ReorgInv, Quiet
<1>9. (disturbed => disturbed') /\ (~disturbed' => ~disturbed /\ pending' = {}) BY <1>0
<1> QED BY <1>0, <1>5, <1>6, <1>7, <1>8, <1>9, BesideInv

\* The ledger is stored as the last one.
LEMMA StreamSetLastInv == ASSUME ReorgInv, H!StreamSetLast PROVE ReorgInv'
<1>0. /\ ReorgTypes /\ stream.pc = "last" /\ last' = [ledger |-> stream.cursor, hash |-> stream.hash]
      /\ stream' = [stream EXCEPT !.pc = "idle"] /\ UNCHANGED <<reorgChain, forks, valid, pending, check, disturbed>>
  BY DEF ReorgInv, H!StreamSetLast
<1>1. stream' \in Handler /\ stream'.pc = "idle" BY <1>0, StreamTyped
<1>2. last' \in Cursor /\ last'.ledger = stream.cursor /\ last'.hash = stream.hash BY <1>0, ReorgFacts DEF Cursor
<1>5. ReorgTypes' BY <1>0, <1>1, <1>2 DEF ReorgTypes
<1>7. forks = 0 => (last'.hash # H!NoHash => last'.hash = 0 /\ last'.ledger <= Len(reorgChain)) BY <1>0, <1>2 DEF ReorgInv, Unforked
<1>8. ~disturbed => check.pc = "idle" /\ pending = {} BY <1>0 DEF ReorgInv, Quiet
<1> QED BY <1>0, <1>1, <1>5, <1>7, <1>8, BesideInv

\* The timer flushes the queue.
LEMMA TimerFlushInv == ASSUME ReorgInv, H!TimerFlush PROVE ReorgInv'
<1>0. /\ ReorgTypes /\ pending # {} /\ valid' = valid \cup pending /\ pending' = {}
      /\ UNCHANGED <<reorgChain, forks, last, stream, check, disturbed>>
  BY DEF ReorgInv, H!TimerFlush
<1>5. ReorgTypes' BY <1>0 DEF ReorgTypes
<1>6. forks = 0 => (stream'.pc # "idle" => stream'.hash = 0 /\ stream'.cursor <= Len(reorgChain)) BY <1>0 DEF ReorgInv, Unforked
<1>7. forks = 0 => (last'.hash # H!NoHash => last'.hash = 0 /\ last'.ledger <= Len(reorgChain)) BY <1>0 DEF ReorgInv, Unforked
<1>8. ~disturbed => (stream.pc = "idle" \/ check.pc = "idle") /\ (check.pc = "flush" \/ check.pc = "idle") BY <1>0 DEF ReorgInv, Quiet
<1>9. valid' \cup pending' = valid \cup pending BY <1>0
<1> QED BY <1>0, <1>5, <1>6, <1>7, <1>8, <1>9, BesideInv

\* A step of a check that finds no fork keeps Unforked.
LEMMA CheckStays ==
  ASSUME ReorgInv, UNCHANGED <<reorgChain, forks, stream>>, disturbed => disturbed', check'.pc # "invalidate" \/ forks # 0,
         forks = 0 => (last'.hash # H!NoHash => last'.hash = 0 /\ last'.ledger <= Len(reorgChain))
  PROVE  Unforked'
  BY DEF ReorgInv, Unforked

\* A check that ends anywhere but before its flush.
LEMMA IdleInv ==
  ASSUME ReorgInv, check' = H!NoCheck, UNCHANGED <<reorgChain, forks, valid, last, pending, stream>>, disturbed' \in BOOLEAN,
         disturbed => disturbed', check.pc = "flush" => disturbed'
  PROVE  ReorgInv'
<1>1. ReorgTypes /\ H!NoCheck \in Check BY ReorgFacts DEF ReorgInv
<1>2. /\ check'.pc = "idle" /\ check'.to = 0 /\ check'.current = 0 /\ check'.from = 0 /\ check'.forks = 0 /\ check'.fork = 0
      /\ forks \in Nat
  BY <1>1, ReorgFacts
<1>3. ReorgTypes' BY <1>1 DEF ReorgTypes
<1>4. Unforked' BY <1>2, CheckStays DEF ReorgInv, Unforked
<1>5. Quiet' BY <1>2 DEF ReorgInv, Quiet
<1>6. Ranges' BY <1>2 DEF Ranges
<1>7. Work' BY <1>2 DEF Work
<1> QED BY <1>3, <1>4, <1>5, <1>6, <1>7 DEF ReorgInv

\* A check begins.
LEMMA StartCheckInv == ASSUME ReorgInv, H!StartCheck PROVE ReorgInv'
<1>0. /\ ReorgTypes /\ check.pc = "idle" /\ Len(reorgChain) > 0
      /\ check' = [H!NoCheck EXCEPT !.pc = "compare", !.current = Len(reorgChain), !.forks = forks]
      /\ disturbed' = (disturbed \/ stream.pc # "idle")
      /\ UNCHANGED <<reorgChain, forks, valid, last, pending, stream>>
  BY DEF ReorgInv, H!StartCheck
<1>1. Len(reorgChain) \in 0..MaxLedger /\ forks \in Nat BY <1>0, ReorgFacts, ReorgAssumption
<1>2. check' = [pc |-> "compare", current |-> Len(reorgChain), fork |-> 0, from |-> 0, to |-> 0, forks |-> forks]
  BY <1>0 DEF H!NoCheck
<1>3. /\ check' \in Check /\ check'.pc = "compare" /\ check'.current = Len(reorgChain) /\ check'.fork = 0 /\ check'.from = 0
      /\ check'.to = 0 /\ check'.forks = forks
  BY <1>1, <1>2, ReorgAssumption DEF Check
<1>4. disturbed' \in BOOLEAN BY <1>0
<1>5. ReorgTypes' BY <1>0, <1>3, <1>4 DEF ReorgTypes
<1>6. Unforked' BY <1>0, <1>3, CheckStays DEF ReorgInv, Unforked
<1>7. Quiet' BY <1>0, <1>3 DEF ReorgInv, Quiet
<1>8. Ranges' BY <1>0, <1>1, <1>3 DEF Ranges
<1>9. Work' BY <1>0, <1>1, <1>3 DEF Work
<1> QED BY <1>5, <1>6, <1>7, <1>8, <1>9 DEF ReorgInv

\* A check at its next step.
LEMMA CheckTyped ==
  ASSUME ReorgTypes,
         NEW p \in {"idle", "compare", "invalidate", "rewind", "fetch", "flush", "last", "recovered", "backfilled"}
  PROVE  /\ [check EXCEPT !.pc = p] \in Check /\ [check EXCEPT !.pc = p].pc = p
         /\ [check EXCEPT !.pc = p].current = check.current /\ [check EXCEPT !.pc = p].fork = check.fork
         /\ [check EXCEPT !.pc = p].from = check.from /\ [check EXCEPT !.pc = p].to = check.to
         /\ [check EXCEPT !.pc = p].forks = check.forks
  BY DEF ReorgTypes, Check

\* The stored hash is compared with the chain: a fork, a gap or nothing.
LEMMA CompareInv == ASSUME ReorgInv, H!Compare PROVE ReorgInv'
<1> DEFINE gap == check.current - last.ledger
           forked == last.hash # H!NoHash /\ ~H!OnChain(last.ledger, last.hash)
           end == H!Smaller(check.current, last.ledger + MaxBackfillLedgers)
<1>0. /\ ReorgTypes /\ check.pc = "compare"
      /\ check' = IF last.ledger = 0 THEN H!NoCheck
                  ELSE IF forked THEN [check EXCEPT !.pc = "invalidate", !.fork = last.ledger]
                  ELSE IF gap > MaxBackfillLedgers
                  THEN [check EXCEPT !.pc = "fetch", !.from = last.ledger + 1, !.to = end]
                  ELSE H!NoCheck
      /\ UNCHANGED <<reorgChain, forks, valid, last, pending, stream, disturbed>>
  BY DEF ReorgInv, H!Compare
<1>f. /\ last.ledger \in 0..MaxLedger /\ check.current \in 0..MaxLedger /\ check.current >= 1 /\ check.forks \in Nat /\ forks \in Nat
      /\ check.to <= check.current /\ check.forks <= forks /\ check.to \in 0..MaxLedger /\ check.from \in Nat
      /\ Len(reorgChain) \in Nat
  BY <1>0, ReorgFacts DEF ReorgInv, Ranges
<1>1. CASE check' = H!NoCheck BY <1>0, <1>1, IdleInv DEF ReorgTypes
<1>2. CASE last.ledger # 0 /\ forked
  <2> DEFINE next == [check EXCEPT !.pc = "invalidate", !.fork = last.ledger]
  <2>1. check' = next BY <1>0, <1>2
  <2>2. /\ next \in Check /\ next.pc = "invalidate" /\ next.fork = last.ledger /\ next.current = check.current
        /\ next.from = check.from /\ next.to = check.to /\ next.forks = check.forks
    BY <1>0, <1>f DEF ReorgTypes, Check
  <2> HIDE DEF next
  <2>3. ReorgTypes' BY <1>0, <2>1, <2>2 DEF ReorgTypes
  <2>4. forks # 0
    <3> SUFFICES ASSUME forks = 0 PROVE FALSE OBVIOUS
    <3>1. last.hash = 0 /\ last.ledger <= Len(reorgChain) BY <1>2 DEF ReorgInv, Unforked
    <3>2. last.ledger \in 1..Len(reorgChain) BY <1>2, <1>f, <3>1, ReorgAssumption
    <3>3. reorgChain[last.ledger] = 0 BY <3>2 DEF ReorgInv, Unforked
    <3> QED BY <1>2, <3>1, <3>3 DEF H!OnChain
  <2>5. Unforked' BY <1>0, <2>4 DEF Unforked
  <2>6. Quiet' BY <1>0, <2>1, <2>2 DEF ReorgInv, Quiet
  <2>8. Ranges' BY <1>0, <1>2, <1>f, <2>1, <2>2, ReorgAssumption DEF ReorgInv, Ranges
  <2>9. Work' BY <1>0, <2>1, <2>2 DEF ReorgInv, Work
  <2> QED BY <2>3, <2>5, <2>6, <2>8, <2>9 DEF ReorgInv
<1>3. CASE last.ledger # 0 /\ ~forked /\ gap > MaxBackfillLedgers
  <2> DEFINE next == [check EXCEPT !.pc = "fetch", !.from = last.ledger + 1, !.to = end]
  <2>1. check' = next BY <1>0, <1>3
  <2>e. end \in 0..MaxLedger /\ end >= 1 /\ end <= check.current BY <1>f, <1>3, ReorgAssumption, SMTT(30) DEF H!Smaller
  <2> HIDE DEF end
  <2>2. /\ next \in Check /\ next.pc = "fetch" /\ next.fork = check.fork /\ next.current = check.current
        /\ next.from = last.ledger + 1 /\ next.to = end /\ next.forks = check.forks
    <3>1. last.ledger + 1 \in Nat /\ check \in Check BY <1>0, <1>f DEF ReorgTypes
    <3> QED BY <2>e, <3>1 DEF Check
  <2> HIDE DEF next
  <2>3. ReorgTypes' BY <1>0, <2>1, <2>2 DEF ReorgTypes
  <2>5. Unforked' BY <1>0, <2>1, <2>2, CheckStays DEF ReorgInv, Unforked
  <2>6. Quiet' BY <1>0, <2>1, <2>2 DEF ReorgInv, Quiet
  <2>8. Ranges' BY <1>0, <1>3, <1>f, <2>e, <2>1, <2>2, ReorgAssumption DEF ReorgInv, Ranges
  <2>9. Work' BY <1>0, <1>f, <2>1, <2>2 DEF ReorgInv, Ranges, Work
  <2> QED BY <2>3, <2>5, <2>6, <2>8, <2>9 DEF ReorgInv
<1> HIDE DEF forked, gap, end
<1> QED BY <1>0, <1>1, <1>2, <1>3

-----------------------------------------------------------------------------
(* Reorganizations: the recovery *)

\* The rows from the fork on are invalidated.
LEMMA InvalidateInv == ASSUME ReorgInv, H!InvalidateEventsFromLedger PROVE ReorgInv'
<1> DEFINE next == [check EXCEPT !.pc = "rewind"]
<1>0. /\ ReorgTypes /\ check.pc = "invalidate" /\ valid' = {row \in valid : row.ledger < check.fork} /\ check' = next
      /\ UNCHANGED <<reorgChain, forks, last, pending, stream, disturbed>>
  BY DEF ReorgInv, H!InvalidateEventsFromLedger
<1>1. /\ next \in Check /\ next.pc = "rewind" /\ next.fork = check.fork /\ next.current = check.current
      /\ next.from = check.from /\ next.to = check.to /\ next.forks = check.forks
  BY <1>0, CheckTyped
<1> HIDE DEF next
<1>2. ReorgTypes' BY <1>0, <1>1 DEF ReorgTypes
<1>3. Unforked' BY <1>0, <1>1, CheckStays DEF ReorgInv, Unforked
<1>4. Quiet' BY <1>0, <1>1 DEF ReorgInv, Quiet
<1>5. Ranges' BY <1>0, <1>1 DEF ReorgInv, Ranges
<1>6. Work' BY <1>0, <1>1 DEF ReorgInv, Work
<1> QED BY <1>2, <1>3, <1>4, <1>5, <1>6 DEF ReorgInv

\* The cursor is rewound to before the fork.
LEMMA RecoverInv == ASSUME ReorgInv, H!RecoverFromReorg PROVE ReorgInv'
<1> DEFINE end == H!Smaller(check.current, check.fork + MaxBackfillLedgers - 1)
           short == [check EXCEPT !.pc = "recovered", !.to = end]
           long == [check EXCEPT !.pc = "fetch", !.from = check.fork, !.to = end]
<1>0. /\ ReorgTypes /\ check.pc = "rewind" /\ last' = [ledger |-> H!Larger(check.fork - 1, 0), hash |-> H!NoHash]
      /\ check' = IF end < check.fork THEN short ELSE long
      /\ UNCHANGED <<reorgChain, forks, valid, pending, stream, disturbed>>
  BY DEF ReorgInv, H!RecoverFromReorg
<1>f. /\ check.current \in 0..MaxLedger /\ check.current >= 1 /\ check.fork \in 0..MaxLedger /\ check.fork >= 1
      /\ check.forks \in Nat /\ forks \in Nat /\ check.forks <= forks /\ check.from \in Nat
      /\ check.from = 0
  BY <1>0, ReorgFacts DEF ReorgInv, Ranges
<1>e. end \in 0..MaxLedger /\ end <= check.current BY <1>f, ReorgAssumption DEF H!Smaller
<1>c. check \in Check BY <1>0 DEF ReorgTypes
<1>l. last' \in Cursor /\ last'.hash = H!NoHash
  <2>1. H!Larger(check.fork - 1, 0) \in 0..MaxLedger BY <1>f, ReorgAssumption DEF H!Larger
  <2> QED BY <1>0, <2>1 DEF Cursor
<1> HIDE DEF end
<1>1. CASE end < check.fork
  <2>2. /\ short \in Check /\ short.pc = "recovered" /\ short.fork = check.fork /\ short.current = check.current
        /\ short.from = check.from /\ short.to = end /\ short.forks = check.forks
    BY <1>c, <1>e DEF Check
  <2>1. check' = short BY <1>0, <1>1
  <2> HIDE DEF short
  <2>3. ReorgTypes' BY <1>0, <1>l, <2>1, <2>2 DEF ReorgTypes
  <2>4. Unforked' BY <1>0, <1>l, <2>1, <2>2, CheckStays
  <2>5. Quiet' BY <1>0, <2>1, <2>2 DEF ReorgInv, Quiet
  <2>6. Ranges' BY <1>0, <1>e, <1>f, <2>1, <2>2 DEF ReorgInv, Ranges
  <2>7. Work' BY <1>0, <1>1, <1>f, <2>1, <2>2 DEF ReorgInv, Work
  <2> QED BY <2>3, <2>4, <2>5, <2>6, <2>7 DEF ReorgInv
<1>2. CASE ~(end < check.fork)
  <2>2. /\ long \in Check /\ long.pc = "fetch" /\ long.fork = check.fork /\ long.current = check.current
        /\ long.from = check.fork /\ long.to = end /\ long.forks = check.forks
    <3>1. check.fork \in Nat BY <1>f
    <3> QED BY <1>c, <1>e, <3>1 DEF Check
  <2>1. check' = long BY <1>0, <1>2
  <2> HIDE DEF long
  <2>3. ReorgTypes' BY <1>0, <1>l, <2>1, <2>2 DEF ReorgTypes
  <2>4. Unforked' BY <1>0, <1>l, <2>1, <2>2, CheckStays
  <2>5. Quiet' BY <1>0, <2>1, <2>2 DEF ReorgInv, Quiet
  <2>6. Ranges'
    <3>1. end >= 1 BY <1>2, <1>e, <1>f
    <3> QED BY <1>0, <1>e, <1>f, <2>1, <2>2, <3>1 DEF ReorgInv, Ranges
  <2>7. Work' BY <1>0, <2>1, <2>2 DEF ReorgInv, Work
  <2> QED BY <2>3, <2>4, <2>5, <2>6, <2>7 DEF ReorgInv
<1> QED BY <1>1, <1>2

\* The events of the range are queued.
LEMMA BackfillFetchInv == ASSUME ReorgInv, H!BackfillFetch PROVE ReorgInv'
<1> DEFINE next == [check EXCEPT !.pc = "flush"]
           new == Canon(reorgChain, check.from, check.to)
<1>0. /\ ReorgTypes /\ check.pc = "fetch" /\ pending' = pending \cup H!Fetched(check.from, check.to) /\ check' = next
      /\ UNCHANGED <<reorgChain, forks, valid, last, stream, disturbed>>
  BY DEF ReorgInv, H!BackfillFetch
<1>1. /\ next \in Check /\ next.pc = "flush" /\ next.fork = check.fork /\ next.current = check.current
      /\ next.from = check.from /\ next.to = check.to /\ next.forks = check.forks
  BY <1>0, CheckTyped
<1> HIDE DEF next
<1>f. /\ check.from \in Nat /\ check.to \in Nat /\ check.from # 0 /\ check.fork \in 0..MaxLedger
      /\ \A row \in H!Event : row.ledger \in 1..MaxLedger
  BY <1>0, ReorgFacts, ReorgAssumption DEF ReorgInv, Ranges
<1>n. new \subseteq H!Event /\ H!Fetched(check.from, check.to) = new BY <1>0, <1>f, CanonIs
<1>2. ReorgTypes' BY <1>0, <1>1, <1>n DEF ReorgTypes
<1>3. Unforked' BY <1>0, <1>1, CheckStays DEF ReorgInv, Unforked
<1>4. Quiet' BY <1>0, <1>1 DEF ReorgInv, Quiet
<1>5. Ranges' BY <1>0, <1>1 DEF ReorgInv, Ranges
<1>6. Work'
  <2> SUFFICES ASSUME check.forks = forks, ~disturbed PROVE Work' BY <1>0, <1>1 DEF Work
  <2>1. pending = {} BY <1>0 DEF ReorgInv, Quiet
  <2>2. pending' = new BY <1>0, <1>n, <2>1
  <2>3. check.fork > 0 => \A row \in valid : row.ledger < check.fork BY <1>0 DEF ReorgInv, Work
  <2>4. \A row \in valid : row.ledger \in Int BY <1>0, <1>f DEF ReorgTypes
  <2>5. check.fork > 0 => \A row \in valid \cup new : row.ledger >= check.fork => row \in new
    <3> SUFFICES ASSUME check.fork > 0, NEW row \in valid, row.ledger >= check.fork PROVE row \in new OBVIOUS
    <3> HIDE DEF new
    <3> QED BY <2>3, <2>4, <1>f
  <2> HIDE DEF new
  <2>6. /\ new \subseteq valid' \cup pending'
        /\ check'.fork > 0 => \A row \in valid' \cup pending' : row.ledger >= check'.fork => row \in new
    BY <1>0, <1>1, <2>2, <2>5
  <2>7. new = Canon(reorgChain', check'.from, check'.to) BY <1>0, <1>1 DEF new
  <2> QED BY <1>0, <1>1, <2>6, <2>7 DEF ReorgInv, Work, Written
<1> QED BY <1>2, <1>3, <1>4, <1>5, <1>6 DEF ReorgInv

\* The queue is flushed; if that fails the check goes on.
LEMMA BackfillFlushInv == ASSUME ReorgInv, H!BackfillFlush PROVE ReorgInv'
<1> DEFINE next == [check EXCEPT !.pc = "last"]
<1>0. /\ ReorgTypes /\ check.pc = "flush" /\ check' = next /\ UNCHANGED <<reorgChain, forks, last, stream>>
      /\ \/ valid' = valid \cup pending /\ pending' = {} /\ disturbed' = disturbed
         \/ disturbed' = TRUE /\ UNCHANGED <<valid, pending>>
  BY DEF ReorgInv, H!BackfillFlush
<1>1. /\ next \in Check /\ next.pc = "last" /\ next.fork = check.fork /\ next.current = check.current
      /\ next.from = check.from /\ next.to = check.to /\ next.forks = check.forks
  BY <1>0, CheckTyped
<1> HIDE DEF next
<1>2. valid' \subseteq H!Event /\ pending' \subseteq H!Event /\ disturbed' \in BOOLEAN BY <1>0 DEF ReorgTypes
<1>3. ReorgTypes' BY <1>0, <1>1, <1>2 DEF ReorgTypes
<1>4. (disturbed => disturbed') /\ (~disturbed' => ~disturbed /\ valid' = valid \cup pending /\ pending' = {}) BY <1>0
<1>5. Unforked' BY <1>0, <1>1, <1>4, CheckStays DEF ReorgInv, Unforked
<1>6. Quiet' BY <1>0, <1>1, <1>4 DEF ReorgInv, Quiet
<1>7. Ranges' BY <1>0, <1>1 DEF ReorgInv, Ranges
<1>8. Work' BY <1>0, <1>1, <1>4 DEF ReorgInv, Work, Written
<1> QED BY <1>3, <1>5, <1>6, <1>7, <1>8 DEF ReorgInv

\* The end of the range is stored as the last ledger.
LEMMA BackfillSetLastInv == ASSUME ReorgInv, H!BackfillSetLast PROVE ReorgInv'
<1> DEFINE p == IF check.fork > 0 THEN "recovered" ELSE "backfilled"
           next == [check EXCEPT !.pc = p]
           h == IF check.to <= Len(reorgChain) THEN reorgChain[check.to] ELSE H!NoHash
<1>0. /\ ReorgTypes /\ check.pc = "last" /\ last' = [ledger |-> check.to, hash |-> h] /\ check' = next
      /\ UNCHANGED <<reorgChain, forks, valid, pending, stream, disturbed>>
  BY DEF ReorgInv, H!BackfillSetLast
<1>p. p \in {"recovered", "backfilled"} /\ (p = "recovered" => check.fork > 0) OBVIOUS
<1> HIDE DEF p
<1>1. /\ next \in Check /\ next.pc = p /\ next.fork = check.fork /\ next.current = check.current
      /\ next.from = check.from /\ next.to = check.to /\ next.forks = check.forks
  BY <1>0, <1>p, CheckTyped
<1> HIDE DEF next
<1>f. /\ check.to \in 0..MaxLedger /\ check.to >= 1 /\ check.from # 0 /\ Len(reorgChain) \in Nat /\ check.fork \in Nat
      /\ \A i \in 1..Len(reorgChain) : reorgChain[i] \in H!Hash
  BY <1>0, ReorgFacts, ReorgAssumption DEF ReorgInv, Ranges
<1>h. h \in H!Hash \cup {H!NoHash} /\ (forks = 0 => (h # H!NoHash => h = 0 /\ check.to <= Len(reorgChain)))
  <2>1. CASE check.to <= Len(reorgChain)
    <3>1. check.to \in 1..Len(reorgChain) BY <1>f, <2>1
    <3> QED BY <1>f, <2>1, <3>1 DEF ReorgInv, Unforked
  <2>2. CASE ~(check.to <= Len(reorgChain)) BY <2>2
  <2> QED BY <2>1, <2>2
<1> HIDE DEF h
<1>l. last' \in Cursor /\ last'.ledger = check.to /\ last'.hash = h BY <1>0, <1>f, <1>h DEF Cursor
<1>2. ReorgTypes' BY <1>0, <1>1, <1>l DEF ReorgTypes
<1>3. Unforked' BY <1>0, <1>1, <1>p, <1>l, <1>h, CheckStays
<1>4. Quiet' BY <1>0, <1>1, <1>p DEF ReorgInv, Quiet
<1>5. Ranges' BY <1>0, <1>1, <1>p, <1>f DEF ReorgInv, Ranges
<1>6. Work' BY <1>0, <1>1, <1>p, <1>f DEF ReorgInv, Work, Written
<1> QED BY <1>2, <1>3, <1>4, <1>5, <1>6 DEF ReorgInv

\* Every step keeps the invariant.
LEMMA ReorgStep == ReorgInv /\ [H!Next]_(H!vars) => ReorgInv'
<1> SUFFICES ASSUME ReorgInv, [H!Next]_(H!vars) PROVE ReorgInv' OBVIOUS
<1>1. CASE H!LedgerCloses BY <1>1, ClosesInv
<1>2. CASE H!Reorganize BY <1>2, ForksInv
<1>3. CASE H!StreamLedger BY <1>3, StreamLedgerInv
<1>4. CASE H!StreamFetch BY <1>4, StreamFetchInv
<1>5. CASE H!StreamFlush BY <1>5, StreamFlushInv
<1>6. CASE H!StreamSetLast BY <1>6, StreamSetLastInv
<1>7. CASE H!TimerFlush BY <1>7, TimerFlushInv
<1>8. CASE H!StartCheck BY <1>8, StartCheckInv
<1>9. CASE H!Compare BY <1>9, CompareInv
<1>10. CASE H!InvalidateEventsFromLedger BY <1>10, InvalidateInv
<1>11. CASE H!RecoverFromReorg BY <1>11, RecoverInv
<1>12. CASE H!BackfillFetch BY <1>12, BackfillFetchInv
<1>13. CASE H!BackfillFlush BY <1>13, BackfillFlushInv
<1>14. CASE H!BackfillSetLast BY <1>14, BackfillSetLastInv
<1>15. CASE H!EndCheck \/ H!CheckFails
  <2>1. /\ check' = H!NoCheck /\ check.pc # "flush" /\ UNCHANGED <<reorgChain, forks, valid, last, pending, stream>>
        /\ (disturbed' = disturbed \/ disturbed' = TRUE) /\ disturbed \in BOOLEAN
    BY <1>15 DEF H!EndCheck, H!CheckFails, ReorgInv, ReorgTypes
  <2>2. CASE disturbed' = disturbed BY <2>1, <2>2, IdleInv
  <2>3. CASE disturbed' = TRUE BY <2>1, <2>3, IdleInv
  <2> QED BY <2>1, <2>2, <2>3
<1>16. CASE UNCHANGED H!vars
  BY <1>16 DEF H!vars, ReorgInv, ReorgTypes, Unforked, Quiet, Ranges, Work, Written
<1> QED BY <1>1, <1>2, <1>3, <1>4, <1>5, <1>6, <1>7, <1>8, <1>9, <1>10, <1>11, <1>12, <1>13, <1>14, <1>15, <1>16
       DEF H!Next, H!CheckStep

\* It holds at the start.
LEMMA ReorgInit == H!Init => ReorgInv
<1> SUFFICES ASSUME H!Init PROVE ReorgInv OBVIOUS
<1>1. reorgChain = <<>> /\ forks = 0 /\ valid = {} /\ pending = {} /\ disturbed = FALSE /\ check = H!NoCheck
      /\ last = [ledger |-> 0, hash |-> H!NoHash] /\ stream = [pc |-> "idle", cursor |-> 0, hash |-> H!NoHash]
  BY DEF H!Init
<1>2. reorgChain \in Seq(H!Hash) /\ Len(reorgChain) = 0 BY <1>1
<1>3. check \in Check /\ check.pc = "idle" /\ check.to = 0 /\ check.current = 0 /\ check.from = 0 /\ check.forks = 0 /\ check.fork = 0
  BY <1>1, ReorgAssumption DEF H!NoCheck, Check
<1>4. last \in Cursor /\ last.hash = H!NoHash BY <1>1, ReorgAssumption DEF Cursor
<1>5. stream \in Handler /\ stream.pc = "idle" BY <1>1, ReorgAssumption DEF Handler
<1>6. ReorgTypes
  <2>1. Len(reorgChain) <= MaxLedger /\ forks \in 0..MaxReorgs BY <1>1, <1>2, ReorgAssumption
  <2>2. valid \subseteq H!Event /\ pending \subseteq H!Event /\ disturbed \in BOOLEAN BY <1>1
  <2> QED BY <1>2, <1>3, <1>4, <1>5, <2>1, <2>2 DEF ReorgTypes
<1>7. Unforked BY <1>2, <1>3, <1>4, <1>5 DEF Unforked
<1>8. Quiet /\ Ranges /\ Work BY <1>1, <1>3, <1>5 DEF Quiet, Ranges, Work
<1> QED BY <1>6, <1>7, <1>8 DEF ReorgInv

\* It says what RecoveryIsSound says.
LEMMA ReorgHolds == ReorgInv => H!TypeOK /\ H!RecoveryIsExact /\ H!BackfillIsCommitted
<1> SUFFICES ASSUME ReorgInv PROVE H!TypeOK /\ H!RecoveryIsExact /\ H!BackfillIsCommitted OBVIOUS
<1>0. ReorgTypes BY DEF ReorgInv
<1>1. H!TypeOK
  <2>1. check.pc \in {"idle", "compare", "invalidate", "rewind", "fetch", "flush", "last", "recovered", "backfilled"}
    BY <1>0 DEF ReorgTypes, Check
  <2> QED BY <1>0, <2>1 DEF ReorgTypes, H!TypeOK, Cursor, Handler
<1>f. /\ check.from \in Nat /\ check.to \in Nat /\ check.fork \in Nat /\ Len(reorgChain) \in Nat
      /\ \A row \in valid : row.ledger \in Nat
  BY <1>0, ReorgFacts, ReorgAssumption DEF ReorgTypes
<1>2. H!BackfillIsCommitted
  <2> SUFFICES ASSUME check.pc \in {"recovered", "backfilled"}, check.forks = forks, ~disturbed, check.from # 0
               PROVE  H!Fetched(check.from, check.to) \subseteq valid
    BY DEF H!BackfillIsCommitted, H!Settled
  <2>1. Written(valid) BY DEF ReorgInv, Work
  <2> QED BY <1>0, <1>f, <2>1, CanonIs DEF Written
<1>3. H!RecoveryIsExact
  <2> SUFFICES ASSUME check.pc = "recovered", check.forks = forks, ~disturbed
               PROVE  {row \in valid : row.ledger >= check.fork /\ row.ledger <= check.to} = H!Fetched(check.fork, check.to)
    BY DEF H!RecoveryIsExact, H!Settled
  <2>1. H!Fetched(check.fork, check.to) = Canon(reorgChain, check.fork, check.to) BY <1>0, <1>f, CanonIs
  <2>2. check.fork >= 1 BY DEF ReorgInv, Ranges
  <2>3. CASE check.from = 0
    <3>1. check.to < check.fork BY <2>3 DEF ReorgInv, Work
    <3>2. check.fork..check.to = {} BY <1>f, <3>1
    <3>3. Canon(reorgChain, check.fork, check.to) = {} BY <3>2 DEF Canon
    <3>4. \A row \in valid : ~(row.ledger >= check.fork /\ row.ledger <= check.to) BY <1>f, <3>1
    <3> QED BY <2>1, <3>3, <3>4
  <2>4. CASE check.from # 0
    <3>1. Written(valid) /\ check.from = check.fork BY <2>2, <2>4, <1>f DEF ReorgInv, Work, Ranges
    <3>2. /\ Canon(reorgChain, check.fork, check.to) \subseteq valid
          /\ \A row \in valid : row.ledger >= check.fork => row \in Canon(reorgChain, check.fork, check.to)
      BY <1>f, <2>2, <3>1 DEF Written
    <3>3. \A row \in Canon(reorgChain, check.fork, check.to) : row.ledger >= check.fork /\ row.ledger <= check.to
      BY <1>f DEF Canon
    <3> QED BY <2>1, <3>2, <3>3
  <2> QED BY <2>3, <2>4
<1> QED BY <1>1, <1>2, <1>3

\* A recovery that nothing disturbed leaves exactly the events of the chain
\* from the fork to the end of its range, and a backfill advances the cursor
\* only past committed events, for chains of any height and reorganizations
\* of any number and depth (detectAndHandle, recoverFromReorg, backfillGap).
THEOREM RecoverySound == Spec => []RecoveryIsSound
<1>1. Init => ReorgInv BY ReorgPart, ReorgInit
<1>2. ReorgInv /\ [Next]_vars => ReorgInv' BY ReorgPart, ReorgStep
<1>3. ReorgInv => RecoveryIsSound BY ReorgHolds DEF RecoveryIsSound
<1> QED BY <1>1, <1>2, <1>3, PTL DEF Spec

\* No step invalidates a row before the first reorganization.
LEMMA NoAlarmStep == ASSUME ReorgInv, [H!Next]_(H!vars), forks = 0 PROVE valid \subseteq valid'
<1>1. check.pc # "invalidate" BY DEF ReorgInv, Unforked
<1> QED BY <1>1 DEF H!Next, H!vars, H!CheckStep, H!LedgerCloses, H!Reorganize, H!StreamLedger, H!StreamFetch, H!StreamFlush, H!StreamSetLast,
          H!TimerFlush, H!StartCheck, H!Compare, H!InvalidateEventsFromLedger, H!RecoverFromReorg, H!BackfillFetch,
          H!BackfillFlush, H!BackfillSetLast, H!EndCheck, H!CheckFails

\* As long as the chain was not reorganized no row is ever invalidated,
\* whatever fails and however checks and ledgers interleave
\* (detectAndHandle).
THEOREM NoFalseAlarms == Spec => NoFalseAlarm
<1>1. Init => ReorgInv BY ReorgPart, ReorgInit
<1>2. ReorgInv /\ [Next]_vars => ReorgInv' BY ReorgPart, ReorgStep
<1>3. ReorgInv /\ [Next]_vars => [(forks = 0) => (valid \subseteq valid')]_(H!vars) BY ReorgPart, NoAlarmStep
<1>4. NoFalseAlarm <=> [][(forks = 0) => (valid \subseteq valid')]_(H!vars) BY DEF NoFalseAlarm, H!NoFalseAlarm, H!vars
<1> QED BY <1>1, <1>2, <1>3, <1>4, PTL DEF Spec

-----------------------------------------------------------------------------
(* The pipeline: jobs and units *)

\* The pipeline is one of the parts of a behaviour.
LEMMA PipelinePart ==
  /\ Init => J!Init
  /\ [Next]_vars => [J!Next]_(J!vars)
  BY DEF Init, Next, vars, pipelineVars, J!vars

\* The type of a job.
Job == [kind : J!JobKinds, id : Nat, status : J!Status, pc : {"work", "save", "wait", "done"}, unit : Nat,
        processed : Int, failed : Nat, found : BOOLEAN]

\* A job has taken the units before its current one, or all of them, or it
\* failed; one that looks at the pause has done no unit since it was paused,
\* or the one it was in.
JobFine(x, over) ==
  /\ x.pc # "done" => /\ x.unit \in 1..UNITS /\ x.status \in {"running", "paused"}
                      /\ x.kind # "cleanup" => x.processed + x.failed = x.unit - 1
  /\ x.pc = "done" => /\ x.status \in {"completed", "failed"}
                      /\ x.kind # "cleanup" => x.processed + x.failed <= UNITS
                      /\ x.kind # "cleanup" /\ x.status = "completed" => x.processed + x.failed = UNITS
  /\ x.kind \in {"etl", "backfill"} => over <= 1 /\ (x.status = "paused" /\ x.pc # "wait" => over = 0)

\* Types; a job is kept under its id, or another that began in the same
\* millisecond is.
PipelineTypes ==
  /\ pipelineJobs \in Seq(Job) /\ overrun \in Seq(Nat) /\ Len(overrun) = Len(pipelineJobs)
  /\ activeJobs \in Seq(Nat)
  /\ \A id \in 1..Len(activeJobs) : activeJobs[id] \in 1..Len(pipelineJobs) /\ pipelineJobs[activeJobs[id]].id = id
  /\ \A j \in 1..Len(pipelineJobs) : pipelineJobs[j].id \in 1..Len(activeJobs)
  /\ metricRows \subseteq 1..UNITS

\* Every job is as it should be.
AllFine == \A j \in 1..Len(pipelineJobs) : JobFine(pipelineJobs[j], overrun[j])

\* A paused job is the one kept under its id.
PausedIsKept == \A j \in 1..Len(pipelineJobs) : pipelineJobs[j].status = "paused" => activeJobs[pipelineJobs[j].id] = j

\* Until anything else happens, the job started last is running and kept
\* under its id.
JustStarted ==
  sameMillisecond # "none" =>
     /\ Len(pipelineJobs) > 0 /\ pipelineJobs[Len(pipelineJobs)].status = "running"
     /\ activeJobs[pipelineJobs[Len(pipelineJobs)].id] = Len(pipelineJobs)

\* The inductive invariant of the pipeline. waitForResume looks at whatever
\* job is kept under the id: that this is the paused job itself needs
\* PausedIsKept, which a second job of the same millisecond could break only
\* before anybody paused the first (JustStarted).
PipelineInv == PipelineTypes /\ AllFine /\ PausedIsKept /\ JustStarted

\* What the types say, in the form the steps use.
LEMMA PipelineFacts ==
  ASSUME PipelineTypes
  PROVE  /\ Len(pipelineJobs) \in Nat /\ Len(activeJobs) \in Nat
         /\ \A j \in 1..Len(pipelineJobs) : pipelineJobs[j] \in Job /\ overrun[j] \in Nat
         /\ \A j \in 1..Len(pipelineJobs) : pipelineJobs[j].id \in 1..Len(activeJobs)
         /\ \A id \in 1..Len(activeJobs) : activeJobs[id] \in 1..Len(pipelineJobs) /\ pipelineJobs[activeJobs[id]].id = id
  BY LenProperties, ElementOfSeq DEF PipelineTypes

\* One job changes, and nothing else that matters.
LEMMA JobChanges ==
  ASSUME PipelineInv, NEW j \in 1..Len(pipelineJobs), NEW x \in Job, NEW o \in Nat, JobFine(x, o),
         pipelineJobs' = [pipelineJobs EXCEPT ![j] = x], overrun' = [overrun EXCEPT ![j] = o],
         x.id = pipelineJobs[j].id, x.status = "paused" => pipelineJobs[j].status = "paused" \/ activeJobs[x.id] = j,
         activeJobs' = activeJobs, metricRows' \subseteq 1..UNITS, sameMillisecond' = "none"
  PROVE  PipelineInv'
<1>0. PipelineTypes BY DEF PipelineInv
<1>1. /\ pipelineJobs' \in Seq(Job) /\ Len(pipelineJobs') = Len(pipelineJobs) /\ pipelineJobs'[j] = x
      /\ \A i \in 1..Len(pipelineJobs) : i # j => pipelineJobs'[i] = pipelineJobs[i]
  BY <1>0, ExceptSeq DEF PipelineTypes
<1>2. /\ overrun' \in Seq(Nat) /\ Len(overrun') = Len(overrun) /\ overrun'[j] = o
      /\ \A i \in 1..Len(pipelineJobs) : i # j => overrun'[i] = overrun[i]
  <2>1. j \in 1..Len(overrun) BY <1>0 DEF PipelineTypes
  <2> QED BY <1>0, <2>1, ExceptSeq DEF PipelineTypes
<1>3. PipelineTypes'
  <2>1. \A i \in 1..Len(pipelineJobs) : pipelineJobs'[i].id = pipelineJobs[i].id BY <1>1
  <2>2. \A id \in 1..Len(activeJobs) : activeJobs[id] \in 1..Len(pipelineJobs) /\ pipelineJobs'[activeJobs[id]].id = id
    BY <1>0, <2>1, PipelineFacts
  <2>3. \A i \in 1..Len(pipelineJobs) : pipelineJobs'[i].id \in 1..Len(activeJobs) BY <1>0, <2>1, PipelineFacts
  <2> QED BY <1>0, <1>1, <1>2, <2>2, <2>3 DEF PipelineTypes
<1>4. AllFine' BY <1>1, <1>2 DEF PipelineInv, AllFine
<1>5. PausedIsKept' BY <1>1 DEF PipelineInv, PausedIsKept
<1>6. JustStarted' BY DEF JustStarted
<1> QED BY <1>3, <1>4, <1>5, <1>6 DEF PipelineInv

\* A job whose overrun stays.
LEMMA OverSame ==
  ASSUME PipelineTypes, NEW j \in 1..Len(pipelineJobs)
  PROVE  overrun = [overrun EXCEPT ![j] = overrun[j]]
<1>1. overrun \in Seq(Nat) /\ DOMAIN overrun = 1..Len(overrun) BY LenProperties DEF PipelineTypes
<1>2. overrun = [i \in 1..Len(overrun) |-> overrun[i]] BY <1>1
<1> QED BY <1>1, <1>2

\* A job goes on, to another unit or not.
LEMMA AdvanceInv ==
  ASSUME PipelineInv, NEW j \in 1..Len(pipelineJobs), NEW x \in Job, J!Advance(j, x), x.id = pipelineJobs[j].id,
         x.status = "paused" => pipelineJobs[j].status = "paused",
         pipelineJobs[j].status = "paused" /\ x.unit > pipelineJobs[j].unit => JobFine(x, overrun[j] + 1),
         ~(pipelineJobs[j].status = "paused" /\ x.unit > pipelineJobs[j].unit) => JobFine(x, overrun[j]),
         metricRows' \subseteq 1..UNITS
  PROVE  PipelineInv'
<1>0. PipelineTypes /\ overrun[j] \in Nat BY PipelineFacts DEF PipelineInv
<1>1. /\ pipelineJobs' = [pipelineJobs EXCEPT ![j] = x] /\ activeJobs' = activeJobs /\ sameMillisecond' = "none"
      /\ overrun' = IF pipelineJobs[j].status = "paused" /\ x.unit > pipelineJobs[j].unit
                    THEN [overrun EXCEPT ![j] = overrun[j] + 1] ELSE overrun
  BY DEF J!Advance
<1>2. CASE pipelineJobs[j].status = "paused" /\ x.unit > pipelineJobs[j].unit
  <2>1. overrun[j] + 1 \in Nat /\ overrun' = [overrun EXCEPT ![j] = overrun[j] + 1] BY <1>0, <1>1, <1>2
  <2> QED BY <1>1, <1>2, <2>1, JobChanges
<1>3. CASE ~(pipelineJobs[j].status = "paused" /\ x.unit > pipelineJobs[j].unit)
  <2>1. overrun' = [overrun EXCEPT ![j] = overrun[j]] BY <1>0, <1>1, <1>3, OverSame
  <2> QED BY <1>0, <1>1, <1>3, <2>1, JobChanges
<1> QED BY <1>2, <1>3

\* The end of a unit: the next one, the wait, or the end of the job.
LEMMA UnitDoneFine ==
  ASSUME NEW x \in Job, NEW o \in Nat, NEW ok \in BOOLEAN, JobFine(x, o), x.pc \in {"work", "save"}, x.kind # "cleanup"
  PROVE  /\ J!UnitDone(x, ok) \in Job /\ J!UnitDone(x, ok).id = x.id
         /\ J!UnitDone(x, ok).status = "paused" => x.status = "paused"
         /\ x.status = "paused" => JobFine(J!UnitDone(x, ok), o + 1)
         /\ x.status # "paused" => JobFine(J!UnitDone(x, ok), o)
         /\ J!UnitDone(x, ok).unit > x.unit
<1> DEFINE counted == IF ok THEN [x EXCEPT !.processed = x.processed + 1, !.unit = x.unit + 1]
                      ELSE [x EXCEPT !.failed = x.failed + 1, !.unit = x.unit + 1]
           y == J!UnitDone(x, ok)
<1>f. /\ x.unit \in Nat /\ x.processed \in Int /\ x.failed \in Nat /\ x.kind \in J!JobKinds /\ x.status \in J!Status
      /\ UNITS \in Nat
  BY PipelineAssumption DEF Job
<1>0. x.unit \in 1..UNITS /\ x.processed + x.failed = x.unit - 1 /\ x.status \in {"running", "paused"} BY DEF JobFine
<1>1. /\ counted \in Job /\ counted.unit = x.unit + 1 /\ counted.processed + counted.failed = x.unit
      /\ counted.id = x.id /\ counted.status = x.status /\ counted.kind = x.kind
  <2>1. CASE ok
    <3>1. x.processed + 1 \in Int /\ x.unit + 1 \in Nat BY <1>f
    <3>2. counted = [x EXCEPT !.processed = x.processed + 1, !.unit = x.unit + 1] BY <2>1
    <3>3. /\ counted \in Job /\ counted.unit = x.unit + 1 /\ counted.processed = x.processed + 1 /\ counted.failed = x.failed
          /\ counted.id = x.id /\ counted.status = x.status /\ counted.kind = x.kind
      BY <3>1, <3>2 DEF Job
    <3> QED BY <1>f, <1>0, <3>3
  <2>2. CASE ~ok
    <3>1. x.failed + 1 \in Nat /\ x.unit + 1 \in Nat BY <1>f
    <3>2. counted = [x EXCEPT !.failed = x.failed + 1, !.unit = x.unit + 1] BY <2>2
    <3>3. /\ counted \in Job /\ counted.unit = x.unit + 1 /\ counted.processed = x.processed /\ counted.failed = x.failed + 1
          /\ counted.id = x.id /\ counted.status = x.status /\ counted.kind = x.kind
      BY <3>1, <3>2 DEF Job
    <3> QED BY <1>f, <1>0, <3>3
  <2> QED BY <2>1, <2>2
<1>2. y = IF x.unit = UNITS THEN [counted EXCEPT !.status = "completed", !.pc = "done"]
          ELSE IF x.status = "paused" /\ x.kind \in {"etl", "backfill"} THEN [counted EXCEPT !.pc = "wait"]
          ELSE [counted EXCEPT !.pc = "work"]
  BY DEF J!UnitDone
<1> HIDE DEF counted, y
<1>3. /\ y \in Job /\ y.unit = x.unit + 1 /\ y.processed = counted.processed /\ y.failed = counted.failed /\ y.id = x.id /\ y.kind = x.kind
      /\ \/ x.unit = UNITS /\ y.status = "completed" /\ y.pc = "done"
         \/ x.unit # UNITS /\ x.status = "paused" /\ x.kind \in {"etl", "backfill"} /\ y.status = x.status /\ y.pc = "wait"
         \/ x.unit # UNITS /\ ~(x.status = "paused" /\ x.kind \in {"etl", "backfill"}) /\ y.status = x.status /\ y.pc = "work"
  <2>1. CASE x.unit = UNITS
    <3>1. y = [counted EXCEPT !.status = "completed", !.pc = "done"] BY <1>2, <2>1
    <3>2. "completed" \in J!Status BY DEF J!Status
    <3> QED BY <1>1, <2>1, <3>1, <3>2 DEF Job
  <2>2. CASE x.unit # UNITS /\ x.status = "paused" /\ x.kind \in {"etl", "backfill"}
    <3>1. y = [counted EXCEPT !.pc = "wait"] BY <1>2, <2>2
    <3> QED BY <1>1, <2>2, <3>1 DEF Job
  <2>3. CASE x.unit # UNITS /\ ~(x.status = "paused" /\ x.kind \in {"etl", "backfill"})
    <3>1. y = [counted EXCEPT !.pc = "work"] BY <1>2, <2>3
    <3> QED BY <1>1, <2>3, <3>1 DEF Job
  <2> QED BY <2>1, <2>2, <2>3
<1>4. y.processed + y.failed = x.unit BY <1>1, <1>3
<1>5. x.kind \in {"etl", "backfill"} => o <= 1 /\ (x.status = "paused" => o + 1 <= 1) BY DEF JobFine
<1>6. x.status = "paused" => JobFine(y, o + 1) BY <1>f, <1>0, <1>3, <1>4, <1>5 DEF JobFine
<1>7. x.status # "paused" => JobFine(y, o) BY <1>f, <1>0, <1>3, <1>4, <1>5 DEF JobFine
<1>8. y.status = "paused" => x.status = "paused" BY <1>3
<1>9. y.unit > x.unit BY <1>f, <1>3
<1> QED BY <1>3, <1>6, <1>7, <1>8, <1>9 DEF y

-----------------------------------------------------------------------------
(* The pipeline: start, pause, resume *)

\* A job that ends a unit keeps the invariant.
LEMMA UnitAdvance ==
  ASSUME PipelineInv, NEW j \in 1..Len(pipelineJobs), NEW ok \in BOOLEAN, pipelineJobs[j].pc \in {"work", "save"},
         pipelineJobs[j].kind # "cleanup", J!Advance(j, J!UnitDone(pipelineJobs[j], ok)), metricRows' \subseteq 1..UNITS
  PROVE  PipelineInv'
<1> DEFINE x == pipelineJobs[j]
           y == J!UnitDone(pipelineJobs[j], ok)
<1>1. x \in Job /\ overrun[j] \in Nat BY PipelineFacts DEF PipelineInv
<1>2. JobFine(x, overrun[j]) BY DEF PipelineInv, AllFine
<1>3. /\ y \in Job /\ y.id = x.id /\ y.unit > x.unit /\ (y.status = "paused" => x.status = "paused")
      /\ (x.status = "paused" => JobFine(y, overrun[j] + 1)) /\ (x.status # "paused" => JobFine(y, overrun[j]))
  BY <1>1, <1>2, UnitDoneFine
<1> HIDE DEF y
<1>4. J!Advance(j, y) BY DEF y
<1> QED BY <1>3, <1>4, AdvanceInv

\* So does one that goes on within its unit.
LEMMA SameUnit ==
  ASSUME PipelineInv, NEW j \in 1..Len(pipelineJobs), NEW x \in Job, J!Advance(j, x),
         x.id = pipelineJobs[j].id, x.unit = pipelineJobs[j].unit, x.status = "paused" => pipelineJobs[j].status = "paused",
         JobFine(x, overrun[j]), metricRows' \subseteq 1..UNITS
  PROVE  PipelineInv'
<1>1. pipelineJobs[j] \in Job BY PipelineFacts DEF PipelineInv
<1>2. ~(x.unit > pipelineJobs[j].unit) BY <1>1 DEF Job
<1> QED BY <1>2, AdvanceInv

\* A job is started, under a new id or the one of the job before.
LEMMA PipelineStarts ==
  ASSUME PipelineInv, NEW kind \in J!JobKinds, NEW reuse \in BOOLEAN, J!Start(kind, reuse)
  PROVE  PipelineInv'
<1> DEFINE id == IF reuse THEN pipelineJobs[Len(pipelineJobs)].id ELSE Len(activeJobs) + 1
           number == Len(pipelineJobs) + 1
           new == [kind |-> kind, id |-> id, status |-> "running", pc |-> "work", unit |-> 1,
                   processed |-> 0, failed |-> 0, found |-> FALSE]
<1>0. /\ PipelineTypes /\ pipelineJobs' = Append(pipelineJobs, new) /\ overrun' = Append(overrun, 0)
      /\ (reuse => sameMillisecond = kind) /\ metricRows' = metricRows
      /\ activeJobs' = IF reuse THEN [activeJobs EXCEPT ![id] = number] ELSE Append(activeJobs, number)
  BY DEF PipelineInv, J!Start
<1>n. kind # "none" BY DEF J!JobKinds
<1>1. /\ Len(pipelineJobs) \in Nat /\ Len(activeJobs) \in Nat
      /\ \A j \in 1..Len(pipelineJobs) : pipelineJobs[j].id \in 1..Len(activeJobs)
      /\ \A i \in 1..Len(activeJobs) : activeJobs[i] \in 1..Len(pipelineJobs) /\ pipelineJobs[activeJobs[i]].id = i
  BY <1>0, PipelineFacts
<1>2. /\ reuse => /\ Len(pipelineJobs) \in 1..Len(pipelineJobs) /\ pipelineJobs[Len(pipelineJobs)].status = "running"
                  /\ activeJobs[id] = Len(pipelineJobs) /\ id \in 1..Len(activeJobs)
      /\ ~reuse => id = Len(activeJobs) + 1
  <2>1. CASE reuse
    <3>1. /\ Len(pipelineJobs) > 0 /\ pipelineJobs[Len(pipelineJobs)].status = "running"
          /\ activeJobs[pipelineJobs[Len(pipelineJobs)].id] = Len(pipelineJobs)
      BY <1>0, <1>n, <2>1 DEF PipelineInv, JustStarted
    <3>2. Len(pipelineJobs) \in 1..Len(pipelineJobs) BY <1>1, <3>1
    <3> QED BY <1>1, <2>1, <3>1, <3>2
  <2>2. CASE ~reuse BY <2>2
  <2> QED BY <2>1, <2>2
<1> HIDE DEF id
<1>3. id \in Nat BY <1>1, <1>2
<1>4. /\ new \in Job /\ new.id = id /\ new.status = "running" /\ new.pc = "work" /\ new.unit = 1 /\ new.processed = 0 /\ new.failed = 0
  BY <1>3 DEF Job, J!Status
<1>5. JobFine(new, 0) BY <1>4, PipelineAssumption DEF JobFine
<1> HIDE DEF new
<1>6. /\ pipelineJobs' \in Seq(Job) /\ Len(pipelineJobs') = number /\ pipelineJobs'[number] = new
      /\ \A i \in 1..Len(pipelineJobs) : pipelineJobs'[i] = pipelineJobs[i]
  BY <1>0, <1>1, <1>4, AppendProperties DEF PipelineTypes
<1>7. /\ overrun' \in Seq(Nat) /\ Len(overrun') = number /\ overrun'[number] = 0
      /\ \A i \in 1..Len(pipelineJobs) : overrun'[i] = overrun[i]
  BY <1>0, <1>1, AppendProperties DEF PipelineTypes
<1>8. number \in Nat /\ \A i \in 1..number : i \in 1..Len(pipelineJobs) \/ i = number BY <1>1
<1>9. /\ activeJobs' \in Seq(Nat) /\ Len(activeJobs') >= Len(activeJobs) /\ id \in 1..Len(activeJobs') /\ activeJobs'[id] = number
      /\ \A i \in 1..Len(activeJobs') : i = id \/ (i \in 1..Len(activeJobs) /\ activeJobs'[i] = activeJobs[i])
      /\ Len(activeJobs') \in Nat
  <2>1. CASE reuse
    <3>1. activeJobs' = [activeJobs EXCEPT ![id] = number] BY <1>0, <2>1
    <3>2. /\ activeJobs' \in Seq(Nat) /\ Len(activeJobs') = Len(activeJobs)
          /\ \A i \in 1..Len(activeJobs) : activeJobs'[i] = IF i = id THEN number ELSE activeJobs[i]
      BY <1>0, <1>2, <1>8, <2>1, <3>1, ExceptSeq DEF PipelineTypes
    <3> QED BY <1>1, <1>2, <2>1, <3>2
  <2>2. CASE ~reuse
    <3>1. activeJobs' = Append(activeJobs, number) /\ id = Len(activeJobs) + 1 BY <1>0, <1>2, <2>2
    <3>2. /\ activeJobs' \in Seq(Nat) /\ Len(activeJobs') = Len(activeJobs) + 1 /\ activeJobs'[Len(activeJobs) + 1] = number
          /\ \A i \in 1..Len(activeJobs) : activeJobs'[i] = activeJobs[i]
      BY <1>0, <1>8, <3>1, AppendProperties DEF PipelineTypes
    <3> QED BY <1>1, <3>1, <3>2
  <2> QED BY <2>1, <2>2
<1>10. PipelineTypes'
  <2>1. ASSUME NEW i \in 1..Len(activeJobs') PROVE activeJobs'[i] \in 1..number /\ pipelineJobs'[activeJobs'[i]].id = i
    <3>1. CASE i = id BY <1>1, <1>4, <1>6, <1>9, <3>1
    <3>2. CASE i # id
      <4>1. activeJobs'[i] = activeJobs[i] /\ i \in 1..Len(activeJobs) BY <1>9, <3>2
      <4> QED BY <1>1, <1>6, <4>1
    <3> QED BY <3>1, <3>2
  <2>2. ASSUME NEW j \in 1..number PROVE pipelineJobs'[j].id \in 1..Len(activeJobs')
    <3>1. CASE j = number BY <1>4, <1>6, <1>9, <3>1
    <3>2. CASE j # number
      <4>1. j \in 1..Len(pipelineJobs) /\ pipelineJobs'[j] = pipelineJobs[j] BY <1>6, <1>8, <3>2
      <4>2. pipelineJobs[j].id \in 1..Len(activeJobs) BY <1>1, <4>1
      <4> QED BY <1>1, <1>9, <4>1, <4>2
    <3> QED BY <3>1, <3>2
  <2> QED BY <1>0, <1>6, <1>7, <1>9, <2>1, <2>2 DEF PipelineTypes
<1>11. AllFine' BY <1>5, <1>6, <1>7, <1>8 DEF PipelineInv, AllFine
<1>12. PausedIsKept'
  <2> SUFFICES ASSUME NEW j \in 1..number, pipelineJobs'[j].status = "paused" PROVE activeJobs'[pipelineJobs'[j].id] = j
    BY <1>6 DEF PausedIsKept
  <2>1. j \in 1..Len(pipelineJobs) BY <1>4, <1>6, <1>8
  <2>2. pipelineJobs'[j] = pipelineJobs[j] /\ activeJobs[pipelineJobs[j].id] = j BY <1>6, <2>1 DEF PipelineInv, PausedIsKept
  <2>3. pipelineJobs[j].id \in 1..Len(activeJobs) /\ pipelineJobs[j].id \in 1..Len(activeJobs') BY <1>1, <1>9, <2>1
  <2>4. pipelineJobs[j].id # id
    <3> SUFFICES ASSUME pipelineJobs[j].id = id PROVE FALSE OBVIOUS
    <3>1. CASE reuse BY <1>2, <2>2, <3>1
    <3>2. CASE ~reuse BY <1>1, <1>2, <2>3, <3>2
    <3> QED BY <3>1, <3>2
  <2> QED BY <1>9, <2>2, <2>3, <2>4
<1>13. JustStarted'
  <2>1. Len(pipelineJobs') > 0 /\ pipelineJobs'[Len(pipelineJobs')].status = "running" BY <1>1, <1>4, <1>6
  <2>2. activeJobs'[pipelineJobs'[Len(pipelineJobs')].id] = Len(pipelineJobs') BY <1>4, <1>6, <1>9
  <2> QED BY <2>1, <2>2 DEF JustStarted
<1> QED BY <1>10, <1>11, <1>12, <1>13 DEF PipelineInv

\* pauseJob and resumeJob.
LEMMA PauseInv == ASSUME PipelineInv, NEW id \in 1..Len(activeJobs), J!PauseJob(id) \/ J!ResumeJob(id) PROVE PipelineInv'
<1> DEFINE j == activeJobs[id]
           x == pipelineJobs[j]
<1>0. /\ PipelineTypes /\ j \in 1..Len(pipelineJobs) /\ x \in Job /\ overrun[j] \in Nat
      /\ JobFine(x, overrun[j])
  <2>1. PipelineTypes BY DEF PipelineInv
  <2>2. j \in 1..Len(pipelineJobs) BY <2>1 DEF PipelineTypes
  <2> QED BY <2>1, <2>2, PipelineFacts DEF PipelineInv, AllFine
<1>1. CASE J!PauseJob(id)
  <2> DEFINE y == [x EXCEPT !.status = "paused"]
  <2>1. /\ x.status = "running" /\ overrun' = [overrun EXCEPT ![j] = 0] /\ sameMillisecond' = "none"
        /\ activeJobs' = activeJobs /\ metricRows' = metricRows /\ pipelineJobs' = [pipelineJobs EXCEPT ![j] = y]
    BY <1>1 DEF J!PauseJob
  <2>2. /\ y \in Job /\ y.id = x.id /\ y.status = "paused" /\ y.pc = x.pc /\ y.unit = x.unit
        /\ y.processed = x.processed /\ y.failed = x.failed /\ y.kind = x.kind
    BY <1>0 DEF Job, J!Status
  <2> HIDE DEF y
  <2>3. JobFine(y, 0) BY <1>0, <2>1, <2>2 DEF JobFine
  <2>4. activeJobs[y.id] = j BY <1>0, <2>2 DEF PipelineTypes
  <2> QED BY <1>0, <2>1, <2>2, <2>3, <2>4, JobChanges DEF PipelineTypes
<1>2. CASE J!ResumeJob(id)
  <2> DEFINE y == [x EXCEPT !.status = "running"]
  <2>1. /\ x.status = "paused" /\ overrun' = overrun /\ sameMillisecond' = "none"
        /\ activeJobs' = activeJobs /\ metricRows' = metricRows /\ pipelineJobs' = [pipelineJobs EXCEPT ![j] = y]
    BY <1>2 DEF J!ResumeJob
  <2>2. /\ y \in Job /\ y.id = x.id /\ y.status = "running" /\ y.pc = x.pc /\ y.unit = x.unit
        /\ y.processed = x.processed /\ y.failed = x.failed /\ y.kind = x.kind
    BY <1>0 DEF Job, J!Status
  <2> HIDE DEF y
  <2>3. JobFine(y, overrun[j]) BY <1>0, <2>1, <2>2 DEF JobFine
  <2>4. overrun' = [overrun EXCEPT ![j] = overrun[j]] BY <1>0, <2>1, OverSame
  <2> QED BY <1>0, <2>1, <2>2, <2>3, <2>4, JobChanges DEF PipelineTypes
<1> QED BY <1>1, <1>2

-----------------------------------------------------------------------------
(* The pipeline: work *)

\* A job works.
LEMMA JobStepInv == ASSUME PipelineInv, NEW j \in 1..Len(pipelineJobs), J!Step(j) PROVE PipelineInv'
<1> DEFINE x == pipelineJobs[j]
<1>0. PipelineTypes /\ metricRows \subseteq 1..UNITS BY DEF PipelineInv, PipelineTypes
<1>1. x \in Job /\ overrun[j] \in Nat BY <1>0, PipelineFacts
<1>2. JobFine(x, overrun[j]) BY DEF PipelineInv, AllFine
<1>3. x.pc # "done" => x.unit \in 1..UNITS BY <1>2 DEF JobFine
<1>4. CASE J!ProcessEtlBatch(j)
  <2>1. x.pc = "work" /\ x.kind = "etl" /\ J!Advance(j, J!UnitDone(x, TRUE)) /\ metricRows' = metricRows
    BY <1>4 DEF J!ProcessEtlBatch, J!Working
  <2> QED BY <1>0, <2>1, UnitAdvance
<1>5. CASE J!WaitForResume(j)
  <2> DEFINE y == [x EXCEPT !.pc = "work"]
  <2>1. x.pc = "wait" /\ pipelineJobs[activeJobs[x.id]].status # "paused" /\ J!Advance(j, y) /\ metricRows' = metricRows
    BY <1>5 DEF J!WaitForResume
  <2>2. x.status # "paused" BY <2>1 DEF PipelineInv, PausedIsKept
  <2>3. /\ y \in Job /\ y.id = x.id /\ y.status = x.status /\ y.pc = "work" /\ y.unit = x.unit
        /\ y.processed = x.processed /\ y.failed = x.failed /\ y.kind = x.kind
    BY <1>1 DEF Job
  <2> HIDE DEF y
  <2>4. JobFine(y, overrun[j]) BY <1>2, <2>1, <2>2, <2>3 DEF JobFine
  <2> QED BY <1>0, <2>1, <2>3, <2>4, SameUnit
<1>6. CASE J!BackfillRead(j)
  <2> DEFINE y == [x EXCEPT !.pc = "save", !.found = x.unit \in metricRows]
  <2>1. x.pc = "work" /\ x.kind = "backfill" /\ J!Advance(j, y) /\ metricRows' = metricRows
    BY <1>6 DEF J!BackfillRead, J!Working
  <2>2. (x.unit \in metricRows) \in BOOLEAN OBVIOUS
  <2>3. /\ y \in Job /\ y.id = x.id /\ y.status = x.status /\ y.pc = "save" /\ y.unit = x.unit
        /\ y.processed = x.processed /\ y.failed = x.failed /\ y.kind = x.kind
    BY <1>1, <2>2 DEF Job
  <2> HIDE DEF y
  <2>4. JobFine(y, overrun[j]) BY <1>2, <2>1, <2>3 DEF JobFine
  <2> QED BY <1>0, <2>1, <2>3, <2>4, SameUnit
<1>7. CASE J!BackfillSave(j)
  <2> DEFINE ok == x.found \/ x.unit \notin metricRows
  <2>1. x.pc = "save" /\ x.kind = "backfill" /\ J!Advance(j, J!UnitDone(x, ok)) /\ metricRows' = metricRows \cup {x.unit}
    BY <1>7 DEF J!BackfillSave
  <2>2. metricRows' \subseteq 1..UNITS BY <1>0, <1>3, <2>1
  <2>3. ok \in BOOLEAN OBVIOUS
  <2> HIDE DEF ok
  <2> QED BY <2>1, <2>2, <2>3, UnitAdvance
<1>8. CASE J!BackfillFails(j)
  <2>1. x.pc = "save" /\ x.kind = "backfill" /\ J!Advance(j, J!UnitDone(x, FALSE)) /\ metricRows' = metricRows
    BY <1>8 DEF J!BackfillFails
  <2> QED BY <1>0, <2>1, UnitAdvance
<1> DEFINE z == [x EXCEPT !.status = "failed", !.pc = "done"]
<1>9. /\ z \in Job /\ z.id = x.id /\ z.status = "failed" /\ z.pc = "done" /\ z.unit = x.unit
      /\ z.processed = x.processed /\ z.failed = x.failed /\ z.kind = x.kind
  BY <1>1 DEF Job, J!Status
<1> HIDE DEF z
<1>10. x.pc = "work" => JobFine(z, overrun[j])
  <2>1. x.kind # "cleanup" /\ x.pc = "work" => x.processed + x.failed <= UNITS
    <3>1. x.kind # "cleanup" /\ x.pc = "work" => x.processed + x.failed = x.unit - 1 BY <1>2 DEF JobFine
    <3> QED BY <1>3, <3>1, PipelineAssumption
  <2> QED BY <1>2, <1>9, <2>1 DEF JobFine
<1>11. CASE J!AggregateBucket(j)
  <2>1. /\ x.pc = "work" /\ x.kind = "aggregation" /\ metricRows' = metricRows \cup {x.unit}
        /\ \/ J!Advance(j, z)
           \/ J!Advance(j, J!UnitDone(x, TRUE))
    BY <1>11 DEF J!AggregateBucket, J!Working, z
  <2>2. metricRows' \subseteq 1..UNITS BY <1>0, <1>3, <2>1
  <2>3. CASE J!Advance(j, z) BY <1>9, <1>10, <2>1, <2>2, <2>3, SameUnit
  <2>4. CASE J!Advance(j, J!UnitDone(x, TRUE)) BY <2>1, <2>2, <2>4, UnitAdvance
  <2> QED BY <2>1, <2>3, <2>4
<1>12. CASE J!CleanUp(j)
  <2> DEFINE n == Cardinality(metricRows) - Cardinality(metricRows')
             y == [x EXCEPT !.status = "completed", !.pc = "done", !.processed = n]
  <2>1. /\ x.pc = "work" /\ x.kind = "cleanup" /\ metricRows' = {u \in metricRows : u > CUTOFF}
    BY <1>12 DEF J!CleanUp, J!Working
  <2>2. J!Advance(j, y) BY <1>12 DEF J!CleanUp, J!Cardinality, Cardinality, J!IsFiniteSet, IsFiniteSet
  <2>3. metricRows' \subseteq 1..UNITS BY <1>0, <2>1
  <2>4. n \in Int
    <3>1. IsFiniteSet(1..UNITS) BY FS_Interval, PipelineAssumption
    <3>2. Cardinality(metricRows) \in Nat /\ Cardinality(metricRows') \in Nat
      BY <1>0, <2>3, <3>1, FS_Subset, FS_CardinalityType
    <3> QED BY <3>2
  <2> HIDE DEF n
  <2>5. /\ y \in Job /\ y.id = x.id /\ y.status = "completed" /\ y.pc = "done" /\ y.unit = x.unit /\ y.kind = x.kind
    BY <1>1, <2>4 DEF Job, J!Status
  <2> HIDE DEF y
  <2>6. JobFine(y, overrun[j]) BY <2>1, <2>5 DEF JobFine
  <2> QED BY <2>2, <2>3, <2>5, <2>6, SameUnit
<1>13. CASE J!JobFails(j)
  <2>1. x.pc = "work" /\ J!Advance(j, z) /\ metricRows' = metricRows BY <1>13 DEF J!JobFails, z
  <2> QED BY <1>0, <1>9, <1>10, <2>1, SameUnit
<1> QED BY <1>4, <1>5, <1>6, <1>7, <1>8, <1>11, <1>12, <1>13 DEF J!Step

\* Every step keeps the invariant.
LEMMA PipelineStep == PipelineInv /\ [J!Next]_(J!vars) => PipelineInv'
<1> SUFFICES ASSUME PipelineInv, [J!Next]_(J!vars) PROVE PipelineInv' OBVIOUS
<1>1. ASSUME NEW reuse \in BOOLEAN,
             J!StartEtlJob(reuse) \/ J!StartBackfillJob(reuse) \/ J!StartAggregationJob(reuse) \/ J!StartCleanupJob(reuse)
      PROVE  PipelineInv'
  <2>1. \E kind \in J!JobKinds : J!Start(kind, reuse)
    BY <1>1 DEF J!JobKinds, J!StartEtlJob, J!StartBackfillJob, J!StartAggregationJob, J!StartCleanupJob
  <2> QED BY <2>1, PipelineStarts
<1>2. ASSUME NEW id \in 1..Len(activeJobs), J!PauseJob(id) \/ J!ResumeJob(id) PROVE PipelineInv' BY <1>2, PauseInv
<1>3. ASSUME NEW j \in 1..Len(pipelineJobs), J!Step(j) PROVE PipelineInv' BY <1>3, JobStepInv
<1>4. CASE UNCHANGED J!vars
  BY <1>4 DEF J!vars, PipelineInv, PipelineTypes, AllFine, PausedIsKept, JustStarted
<1> QED BY <1>1, <1>2, <1>3, <1>4 DEF J!Next, J!JobNumbers

\* It holds at the start.
LEMMA PipelineInit == J!Init => PipelineInv
<1> SUFFICES ASSUME J!Init PROVE PipelineInv OBVIOUS
<1>1. pipelineJobs = <<>> /\ activeJobs = <<>> /\ overrun = <<>> /\ metricRows = {} /\ sameMillisecond = "none" BY DEF J!Init
<1>2. /\ pipelineJobs \in Seq(Job) /\ activeJobs \in Seq(Nat) /\ overrun \in Seq(Nat)
      /\ Len(pipelineJobs) = 0 /\ Len(activeJobs) = 0 /\ Len(overrun) = 0
  BY <1>1
<1>3. 1..Len(pipelineJobs) = {} /\ 1..Len(activeJobs) = {} BY <1>2
<1> QED BY <1>1, <1>2, <1>3 DEF PipelineInv, PipelineTypes, AllFine, PausedIsKept, JustStarted

\* It says what JobsAreExact says.
LEMMA PipelineHolds == PipelineInv => J!TypeOK /\ J!JobsAreExact
<1> SUFFICES ASSUME PipelineInv PROVE J!TypeOK /\ J!JobsAreExact OBVIOUS
<1>0. PipelineTypes BY DEF PipelineInv
<1>1. J!TypeOK
  <2>1. \A j \in 1..Len(pipelineJobs) : pipelineJobs[j].status \in J!Status /\ pipelineJobs[j].kind \in J!JobKinds
    BY <1>0, PipelineFacts DEF Job
  <2> QED BY <1>0, <2>1 DEF J!TypeOK, J!JobNumbers, J!Units, PipelineTypes
<1>2. ASSUME NEW j \in 1..Len(pipelineJobs)
      PROVE  LET x == pipelineJobs[j] IN
             /\ x.kind # "cleanup" => x.processed + x.failed <= UNITS
             /\ x.kind # "cleanup" /\ x.status = "completed" => x.processed + x.failed = UNITS
             /\ x.kind \in {"etl", "backfill"} => overrun[j] <= 1
  <2>1. JobFine(pipelineJobs[j], overrun[j]) BY DEF PipelineInv, AllFine
  <2>2. UNITS \in Nat BY PipelineAssumption
  <2> QED BY <2>1, <2>2 DEF JobFine
<1> QED BY <1>1, <1>2 DEF J!JobsAreExact, J!JobNumbers

\* A COMPLETED job has taken each unit once, and an ETL or backfill job ends
\* at most the unit it was in when it was paused, for any number of jobs and
\* units, any pauses and any ids shared within a millisecond (data-
\* pipeline.service.ts).
THEOREM JobsExact == Spec => []JobsAreExact
<1>1. Init => PipelineInv BY PipelinePart, PipelineInit
<1>2. PipelineInv /\ [Next]_vars => PipelineInv' BY PipelinePart, PipelineStep
<1>3. PipelineInv => JobsAreExact BY PipelineHolds DEF JobsAreExact
<1> QED BY <1>1, <1>2, <1>3, PTL DEF Spec

-----------------------------------------------------------------------------
(* Disputes *)

\* Disputes are one of the parts of a behaviour.
LEMMA DisputePart ==
  /\ Init => D!Init
  /\ [Next]_vars => [D!Next]_(D!vars)
  BY DEF Init, Next, vars, disputeVars, D!vars

\* A call, under way or not.
DisputeCall ==
  [pc : {"idle", "insert", "flag", "assign", "count", "assigned", "evidence", "resolve", "release", "uncount",
         "enforce", "enforced", "appeal"},
   id : Nat,
   copy : [by : Parties \cup {"none"}, status : D!DisputeStatus, arbitrator : Arbitrators \cup {"none"},
           appealed : BOOLEAN, enforced : BOOLEAN],
   type : D!DisputeResolutionType \cup {"none"}, to : {"none", "under_review", "arbitration"},
   who : Arbitrators \cup {"none"}, load : Nat]

\* Types.
DisputeTypes ==
  /\ disputes \in Seq(D!Dispute) /\ Len(disputes) <= MaxDisputes
  /\ loads \in [Arbitrators -> Nat]
  /\ paid \in [1 .. MaxDisputes -> Nat] /\ owed \in [1 .. MaxDisputes -> Nat]
  /\ appeals \in [1 .. MaxDisputes -> Nat] /\ disputeFaults \in Nat
  /\ disputeCalls \in [DisputeCallers -> DisputeCall] /\ disputesOverlap \in BOOLEAN

\* What a call relies on: its copy has the status it was read with, a
\* decision is never about a dispute that is marked as enforced, and the
\* counter it is about to write is within the limit.
CallFine(x) ==
  /\ x.pc # "idle" => x.copy \in D!Dispute
  /\ x.pc \notin {"idle", "insert"} => x.id \in 1..Len(disputes) /\ x.to # "none"
  /\ x.pc = "insert" => x.copy = D!New(x.copy.by)
  /\ x.pc \in {"flag", "assign", "count", "assigned"} => x.copy.status \in {"filed", "appealed"} /\ ~x.copy.enforced
  /\ x.pc \in {"count", "assigned"} => x.who \in Arbitrators
  /\ x.pc = "count" => (x.who \notin Generalists => x.load < MAX_ACTIVE)
  /\ x.pc = "evidence" => x.copy.status = "filed" /\ ~x.copy.enforced
  /\ x.pc = "resolve" => x.copy.status # "resolved" /\ ~x.copy.enforced
  /\ x.pc \in {"release", "uncount", "enforce", "enforced"} => x.copy.status = "resolved" /\ ~x.copy.enforced
  /\ x.pc = "uncount" => /\ x.copy.arbitrator \in Arbitrators /\ x.load >= 1
                         /\ x.copy.arbitrator \notin Generalists => x.load <= MAX_ACTIVE
  /\ x.pc = "appeal" => x.copy.status = "resolved" /\ ~x.copy.appealed

\* ... for all calls.
CallsFine == \A k \in DisputeCallers : CallFine(disputeCalls[k])

\* Only a resolved dispute is marked as enforced.
EnforcedIsResolved == \A d \in 1..Len(disputes) : disputes[d].enforced => disputes[d].status = "resolved"

\* The calls that will record a remediation for dispute d.
WillPay(x, d) == x.pc \in {"release", "uncount", "enforce"} /\ x.id = d /\ x.type # "dismissed"
Pending(d) == {k \in DisputeCallers : WillPay(disputeCalls[k], d)}

\* What was recorded and what will be is what is owed; a call cut short
\* leaves some out.
MoneyOK ==
  \A d \in 1 .. MaxDisputes :
    /\ paid[d] + Cardinality(Pending(d)) <= owed[d]
    /\ disputeFaults = 0 => paid[d] + Cardinality(Pending(d)) = owed[d]

\* Without overlapping saves the mark of a row counts its appeals.
AppealsOK ==
  ~disputesOverlap =>
     \A d \in 1 .. MaxDisputes : appeals[d] = IF d \in 1..Len(disputes) /\ disputes[d].appealed THEN 1 ELSE 0

\* The rows that an arbitrator's counter stands for, and the calls between
\* the save of the counter and the save of the row.
Counts(r, a) == r.arbitrator = a /\ r.status \in {"under_review", "arbitration"}
CountsFor(x, a) ==
  \/ x.pc = "assigned" /\ x.who = a
  \/ x.pc \in {"release", "uncount"} /\ x.copy.arbitrator = a
OpenRows(a) == {d \in 1..Len(disputes) : Counts(disputes[d], a)}
OnTheWay(a) == {k \in DisputeCallers : CountsFor(disputeCalls[k], a)}

\* As long as no save replaces another, a counter is covered by those.
LoadsOK ==
  ~disputesOverlap /\ disputeFaults = 0 =>
     \A a \in Arbitrators : loads[a] <= Cardinality(OpenRows(a)) + Cardinality(OnTheWay(a))

\* An expert is within the limit.
LimitsOK == \A a \in Arbitrators \ Generalists : loads[a] <= MAX_ACTIVE

\* The inductive invariant of disputes.
DisputeInv ==
  DisputeTypes /\ CallsFine /\ EnforcedIsResolved /\ MoneyOK /\ AppealsOK /\ LoadsOK /\ LimitsOK

\* A truth value as a number.
One(b) == IF b THEN 1 ELSE 0

\* What a call or a row adds to these counts.
Pays(x, d) == IF WillPay(x, d) THEN 1 ELSE 0
Carries(x, a) == IF CountsFor(x, a) THEN 1 ELSE 0
Opens(r, a) == IF Counts(r, a) THEN 1 ELSE 0

\* Two finite sets that differ in one element at most.
LEMMA CardChange ==
  ASSUME NEW S, NEW T, IsFiniteSet(S), NEW k, T \ {k} = S \ {k}
  PROVE  /\ Cardinality(S) \in Nat /\ Cardinality(T) \in Nat
         /\ Cardinality(T) = Cardinality(S) - One(k \in S) + One(k \in T)
<1>1. IsFiniteSet(S \ {k}) /\ IsFiniteSet(T \ {k}) BY FS_Subset
<1>2. ASSUME NEW U, IsFiniteSet(U \ {k}) PROVE IsFiniteSet(U) /\ Cardinality(U) \in Nat /\ Cardinality(U) = Cardinality(U \ {k}) + One(k \in U)
  <2>0. Cardinality(U \ {k}) \in Nat BY <1>2, FS_CardinalityType
  <2>1. CASE k \in U
    <3>1. U = (U \ {k}) \cup {k} /\ k \notin U \ {k} BY <2>1
    <3>2. IsFiniteSet((U \ {k}) \cup {k}) /\ Cardinality((U \ {k}) \cup {k}) = Cardinality(U \ {k}) + 1
      BY <1>2, <3>1, FS_AddElement
    <3>3. IsFiniteSet(U) /\ Cardinality(U) = Cardinality(U \ {k}) + 1 BY <3>1, <3>2
    <3> QED BY <2>0, <2>1, <3>3 DEF One, Pays, Carries, Opens
  <2>2. CASE k \notin U
    <3>1. U \ {k} = U BY <2>2
    <3>2. IsFiniteSet(U) /\ Cardinality(U) = Cardinality(U \ {k}) BY <1>2, <3>1
    <3>3. One(k \in U) = 0 BY <2>2 DEF One, Pays, Carries, Opens
    <3> QED BY <2>0, <3>2, <3>3
  <2> QED BY <2>1, <2>2
<1>3. Cardinality(S) \in Nat /\ Cardinality(S) = Cardinality(S \ {k}) + One(k \in S) BY <1>1, <1>2
<1>4. Cardinality(T) \in Nat /\ Cardinality(T) = Cardinality(T \ {k}) + One(k \in T) BY <1>1, <1>2
<1>5. One(k \in S) \in Nat /\ One(k \in T) \in Nat /\ Cardinality(S \ {k}) \in Nat BY <1>1, FS_CardinalityType DEF One, Pays, Carries, Opens
<1>6. Cardinality(T \ {k}) = Cardinality(S \ {k}) OBVIOUS
<1> QED BY <1>3, <1>4, <1>5, <1>6

\* One call goes on with record x.
Moves(c, x) == disputeCalls' = [disputeCalls EXCEPT ![c] = x]

\* A call that goes on changes the calls that will pay by itself only,
LEMMA PendingChange ==
  ASSUME DisputeTypes, NEW c \in DisputeCallers, NEW x \in DisputeCall, Moves(c, x), NEW d
  PROVE  /\ Cardinality(Pending(d)) \in Nat /\ Cardinality(Pending(d)') \in Nat
         /\ Cardinality(Pending(d)') = Cardinality(Pending(d)) - Pays(disputeCalls[c], d) + Pays(x, d)
<1>1. IsFiniteSet(Pending(d)) BY DisputeAssumption, FS_Subset DEF Pending
<1>2. Pending(d)' \ {c} = Pending(d) \ {c} BY DEF Pending, Moves, DisputeTypes
<1>3. (c \in Pending(d) <=> WillPay(disputeCalls[c], d)) /\ (c \in Pending(d)' <=> WillPay(x, d)) BY DEF Pending, Moves, DisputeTypes
<1>4. /\ Cardinality(Pending(d)) \in Nat /\ Cardinality(Pending(d)') \in Nat
      /\ Cardinality(Pending(d)') = Cardinality(Pending(d)) - One(c \in Pending(d)) + One(c \in Pending(d)')
  BY <1>1, <1>2, CardChange
<1> QED BY <1>3, <1>4 DEF One, Pays, Carries, Opens

\* the calls that carry a load too,
LEMMA OnTheWayChange ==
  ASSUME DisputeTypes, NEW c \in DisputeCallers, NEW x \in DisputeCall, Moves(c, x), NEW a
  PROVE  /\ Cardinality(OnTheWay(a)) \in Nat /\ Cardinality(OnTheWay(a)') \in Nat
         /\ Cardinality(OnTheWay(a)') = Cardinality(OnTheWay(a)) - Carries(disputeCalls[c], a) + Carries(x, a)
<1>1. IsFiniteSet(OnTheWay(a)) BY DisputeAssumption, FS_Subset DEF OnTheWay
<1>2. OnTheWay(a)' \ {c} = OnTheWay(a) \ {c} BY DEF OnTheWay, Moves, DisputeTypes
<1>3. (c \in OnTheWay(a) <=> CountsFor(disputeCalls[c], a)) /\ (c \in OnTheWay(a)' <=> CountsFor(x, a)) BY DEF OnTheWay, Moves, DisputeTypes
<1>4. /\ Cardinality(OnTheWay(a)) \in Nat /\ Cardinality(OnTheWay(a)') \in Nat
      /\ Cardinality(OnTheWay(a)') = Cardinality(OnTheWay(a)) - One(c \in OnTheWay(a)) + One(c \in OnTheWay(a)')
  BY <1>1, <1>2, CardChange
<1> QED BY <1>3, <1>4 DEF One, Pays, Carries, Opens

\* and the save of a row changes the open rows by that row only.
LEMMA RowsChange ==
  ASSUME DisputeTypes, NEW i \in 1..Len(disputes), NEW r \in D!Dispute, disputes' = [disputes EXCEPT ![i] = r], NEW a
  PROVE  /\ Cardinality(OpenRows(a)) \in Nat /\ Cardinality(OpenRows(a)') \in Nat
         /\ Cardinality(OpenRows(a)') = Cardinality(OpenRows(a)) - Opens(disputes[i], a) + Opens(r, a)
<1>0. Len(disputes) \in Nat /\ DOMAIN disputes = 1..Len(disputes) BY LenProperties DEF DisputeTypes
<1>1. IsFiniteSet(OpenRows(a))
  <2>1. IsFiniteSet(1..Len(disputes)) BY <1>0, FS_Interval
  <2> QED BY <2>1, FS_Subset DEF OpenRows
<1>2. Len(disputes') = Len(disputes) /\ \A d \in 1..Len(disputes) : disputes'[d] = IF d = i THEN r ELSE disputes[d] BY <1>0, ExceptSeq DEF DisputeTypes
<1>3. OpenRows(a)' \ {i} = OpenRows(a) \ {i} BY <1>2 DEF OpenRows
<1>4. (i \in OpenRows(a) <=> Counts(disputes[i], a)) /\ (i \in OpenRows(a)' <=> Counts(r, a)) BY <1>2 DEF OpenRows
<1>5. /\ Cardinality(OpenRows(a)) \in Nat /\ Cardinality(OpenRows(a)') \in Nat
      /\ Cardinality(OpenRows(a)') = Cardinality(OpenRows(a)) - One(i \in OpenRows(a)) + One(i \in OpenRows(a)')
  BY <1>1, <1>3, CardChange
<1> QED BY <1>4, <1>5 DEF One, Pays, Carries, Opens

\* The other calls are not concerned by a step that keeps the disputes.
LEMMA OthersFine ==
  ASSUME DisputeInv, NEW c \in DisputeCallers, NEW x \in DisputeCall, Moves(c, x), CallFine(x)',
         Len(disputes') \in Nat, Len(disputes) <= Len(disputes')
  PROVE  CallsFine'
<1>0. Len(disputes) \in Nat BY LenProperties DEF DisputeInv, DisputeTypes
<1>1. ASSUME NEW k \in DisputeCallers PROVE CallFine(disputeCalls[k])'
  <2>1. CASE k = c 
    <3>1. disputeCalls'[k] = x BY <2>1 DEF DisputeInv, DisputeTypes, Moves
    <3> QED BY <3>1 DEF CallFine
  <2>2. CASE k # c
    <3>1. disputeCalls'[k] = disputeCalls[k] BY <2>2 DEF DisputeInv, DisputeTypes, Moves
    <3>2. CallFine(disputeCalls[k]) BY DEF DisputeInv, CallsFine
    <3>3. \A n \in 1..Len(disputes) : n \in 1..Len(disputes') BY <1>0
    <3> QED BY <3>1, <3>2, <3>3 DEF CallFine
  <2> QED BY <2>1, <2>2
<1> QED BY <1>1 DEF CallsFine

\* What is paid, owed and pending changes by what one call does.
LEMMA MoneyStep ==
  ASSUME DisputeTypes, MoneyOK, DisputeTypes', NEW c \in DisputeCallers, NEW x \in DisputeCall, Moves(c, x),
         disputeFaults' = 0 => disputeFaults = 0,
         \A d \in 1 .. MaxDisputes :
            /\ paid'[d] + owed[d] + Pays(x, d) <= owed'[d] + paid[d] + Pays(disputeCalls[c], d)
            /\ disputeFaults' = 0 =>
                 paid'[d] + owed[d] + Pays(x, d) = owed'[d] + paid[d] + Pays(disputeCalls[c], d)
  PROVE  MoneyOK'
<1> SUFFICES ASSUME NEW d \in 1 .. MaxDisputes
             PROVE  /\ paid'[d] + Cardinality(Pending(d)') <= owed'[d]
                    /\ disputeFaults' = 0 => paid'[d] + Cardinality(Pending(d)') = owed'[d]
  BY DEF MoneyOK
<1>1. /\ Cardinality(Pending(d)) \in Nat /\ Cardinality(Pending(d)') \in Nat
      /\ Cardinality(Pending(d)') = Cardinality(Pending(d)) - Pays(disputeCalls[c], d) + Pays(x, d)
  BY PendingChange
<1>2. Pays(disputeCalls[c], d) \in Nat /\ Pays(x, d) \in Nat BY DEF One, Pays, Carries, Opens
<1>3. paid[d] \in Nat /\ owed[d] \in Nat /\ paid'[d] \in Nat /\ owed'[d] \in Nat BY DEF DisputeTypes
<1>4. /\ paid[d] + Cardinality(Pending(d)) <= owed[d]
      /\ disputeFaults = 0 => paid[d] + Cardinality(Pending(d)) = owed[d]
  BY DEF MoneyOK
<1>5. /\ paid'[d] + owed[d] + Pays(x, d) <= owed'[d] + paid[d] + Pays(disputeCalls[c], d)
      /\ disputeFaults' = 0 =>
                 paid'[d] + owed[d] + Pays(x, d) = owed'[d] + paid[d] + Pays(disputeCalls[c], d)
  OBVIOUS
<1>6. /\ paid'[d] + Cardinality(Pending(d)') <= owed'[d]
      /\ paid[d] + Cardinality(Pending(d)) = owed[d] /\ paid'[d] + owed[d] + Pays(x, d) = owed'[d] + paid[d] + Pays(disputeCalls[c], d)
         => paid'[d] + Cardinality(Pending(d)') = owed'[d]
  BY ONLY <1>1, <1>2, <1>3, <1>4, <1>5
<1> QED BY <1>4, <1>5, <1>6

\* The remediations recorded are those the call had to record, unless it is
\* cut short.
PaysOff(c, x) ==
  \A d \in 1 .. MaxDisputes :
    /\ paid'[d] + Pays(x, d) <= paid[d] + Pays(disputeCalls[c], d)
    /\ disputeFaults' = 0 => paid'[d] + Pays(x, d) = paid[d] + Pays(disputeCalls[c], d)

\* The call goes on to carry the load it carries.
CarriesOn(c, x) ==
  \A a \in Arbitrators : disputeFaults' = 0 /\ CountsFor(disputeCalls[c], a) => CountsFor(x, a) \/ loads[a] = 0

\* A call goes on and saves nothing but remediations.
LEMMA StayInv ==
  ASSUME DisputeInv, NEW c \in DisputeCallers, NEW x \in DisputeCall, Moves(c, x), CallFine(x),
         UNCHANGED <<disputes, appeals, disputesOverlap, loads, owed>>,
         paid' \in [1 .. MaxDisputes -> Nat], disputeFaults' \in Nat, disputeFaults <= disputeFaults', PaysOff(c, x), CarriesOn(c, x)
  PROVE  DisputeInv'
<1> USE DEF DisputeInv
<1>0. Len(disputes) \in Nat BY LenProperties DEF DisputeTypes
<1>1. DisputeTypes' BY DEF DisputeTypes, Moves
<1>2. CallsFine' 
  <2>1. CallFine(x)' BY DEF CallFine
  <2> QED BY <1>0, <2>1, OthersFine
<1>3. EnforcedIsResolved' BY DEF EnforcedIsResolved
<1>4. MoneyOK'
  <2>1. disputeFaults' = 0 => disputeFaults = 0 BY DEF DisputeTypes
  <2>2. ASSUME NEW d \in 1 .. MaxDisputes PROVE 
            /\ paid'[d] + owed[d] + Pays(x, d) <= owed'[d] + paid[d] + Pays(disputeCalls[c], d)
            /\ disputeFaults' = 0 =>
                 paid'[d] + owed[d] + Pays(x, d) = owed'[d] + paid[d] + Pays(disputeCalls[c], d)
    <3>1. Pays(disputeCalls[c], d) \in Nat /\ Pays(x, d) \in Nat BY DEF One, Pays, Carries, Opens
    <3>2. paid[d] \in Nat /\ owed[d] \in Nat /\ paid'[d] \in Nat /\ owed'[d] = owed[d] BY DEF DisputeTypes
    <3>3. /\ paid'[d] + Pays(x, d) <= paid[d] + Pays(disputeCalls[c], d)
          /\ disputeFaults' = 0 => paid'[d] + Pays(x, d) = paid[d] + Pays(disputeCalls[c], d)
      BY DEF PaysOff
    <3> QED BY ONLY <3>1, <3>2, <3>3
  <2> QED BY <1>1, <2>1, <2>2, MoneyStep
<1>5. AppealsOK' BY DEF AppealsOK
<1>6. LoadsOK'
  <2> SUFFICES ASSUME ~disputesOverlap', disputeFaults' = 0, NEW a \in Arbitrators
               PROVE  loads'[a] <= Cardinality(OpenRows(a)') + Cardinality(OnTheWay(a)')
    BY DEF LoadsOK
  <2>1. OpenRows(a)' = OpenRows(a) BY DEF OpenRows
  <2>2. Cardinality(OpenRows(a)) \in Nat
    <3>1. IsFiniteSet(1..Len(disputes)) BY <1>0, FS_Interval
    <3> QED BY <3>1, FS_Subset, FS_CardinalityType DEF OpenRows
  <2>3. /\ Cardinality(OnTheWay(a)) \in Nat /\ Cardinality(OnTheWay(a)') \in Nat
        /\ Cardinality(OnTheWay(a)') = Cardinality(OnTheWay(a)) - Carries(disputeCalls[c], a) + Carries(x, a)
    BY OnTheWayChange
  <2>4. loads[a] \in Nat /\ loads'[a] = loads[a] BY DEF DisputeTypes
  <2>5. loads[a] <= Cardinality(OpenRows(a)) + Cardinality(OnTheWay(a)) BY DEF LoadsOK, DisputeTypes
  <2>6. loads[a] = 0 \/ Carries(disputeCalls[c], a) <= Carries(x, a) BY DEF Carries, CarriesOn
  <2>7. Carries(disputeCalls[c], a) \in Nat /\ Carries(x, a) \in Nat BY DEF One, Pays, Carries, Opens
  <2>8. Cardinality(OpenRows(a)') = Cardinality(OpenRows(a)) BY <2>1
  <2> QED BY ONLY <2>2, <2>3, <2>4, <2>5, <2>6, <2>7, <2>8
<1>7. LimitsOK' BY DEF LimitsOK
<1> QED BY <1>1, <1>2, <1>3, <1>4, <1>5, <1>6, <1>7

\* A call saves row r instead of the row it read.
RowSaved(c, r) ==
  /\ disputes' = [disputes EXCEPT ![disputeCalls[c].id] = r]
  /\ disputesOverlap' = (disputesOverlap \/ disputes[disputeCalls[c].id] # disputeCalls[c].copy)

\* What is owed, the appeals and the load all go where the call puts them.
SaveCounts(c, r, x) ==
  /\ \A d \in 1 .. MaxDisputes :
        /\ owed[d] + Pays(x, d) = owed'[d] + Pays(disputeCalls[c], d)
        /\ d # disputeCalls[c].id => appeals'[d] = appeals[d]
  /\ appeals'[disputeCalls[c].id] =
        appeals[disputeCalls[c].id] + One(r.appealed) - One(disputeCalls[c].copy.appealed)
  /\ \A a \in Arbitrators :
        Opens(disputeCalls[c].copy, a) + Carries(disputeCalls[c], a) <= Opens(r, a) + Carries(x, a)

\* Such a save keeps the invariant when its counts are right.
LEMMA SaveInv ==
  ASSUME DisputeInv, NEW c \in DisputeCallers, NEW x \in DisputeCall, Moves(c, x), CallFine(x),
         NEW r \in D!Dispute, RowSaved(c, r), disputeCalls[c].pc \notin {"idle", "insert"},
         r.enforced => r.status = "resolved",
         UNCHANGED <<loads, paid, disputeFaults>>,
         owed' \in [1 .. MaxDisputes -> Nat], appeals' \in [1 .. MaxDisputes -> Nat], SaveCounts(c, r, x)
  PROVE  DisputeInv'
<1> USE DEF DisputeInv
<1> DEFINE i == disputeCalls[c].id
<1>0. Len(disputes) \in Nat BY LenProperties DEF DisputeTypes
<1>i. i \in 1..Len(disputes) /\ i \in 1 .. MaxDisputes BY <1>0, DisputeAssumption DEF CallsFine, CallFine, DisputeTypes
<1>r. /\ disputes' \in Seq(D!Dispute) /\ Len(disputes') = Len(disputes)
      /\ \A d \in 1..Len(disputes) : disputes'[d] = IF d = i THEN r ELSE disputes[d]
  BY <1>i, ExceptSeq DEF DisputeTypes, RowSaved
<1>o. disputesOverlap' \in BOOLEAN /\ (~disputesOverlap' => ~disputesOverlap /\ disputes[i] = disputeCalls[c].copy)
  BY DEF RowSaved, DisputeTypes
<1> HIDE DEF i
<1>1. DisputeTypes' BY <1>r, <1>o DEF DisputeTypes, Moves
<1>2. CallsFine' 
  <2>1. CallFine(x)' BY <1>r DEF CallFine
  <2> QED BY <1>0, <1>r, <2>1, OthersFine
<1>3. EnforcedIsResolved' BY <1>r DEF EnforcedIsResolved
<1>4. MoneyOK'
  <2>1. disputeFaults' = 0 => disputeFaults = 0 BY DEF DisputeTypes
  <2>2. ASSUME NEW d \in 1 .. MaxDisputes PROVE 
            /\ paid'[d] + owed[d] + Pays(x, d) <= owed'[d] + paid[d] + Pays(disputeCalls[c], d)
            /\ disputeFaults' = 0 =>
                 paid'[d] + owed[d] + Pays(x, d) = owed'[d] + paid[d] + Pays(disputeCalls[c], d)
    <3>1. Pays(disputeCalls[c], d) \in Nat /\ Pays(x, d) \in Nat BY DEF One, Pays, Carries, Opens
    <3>2. paid[d] \in Nat /\ owed[d] \in Nat /\ paid'[d] = paid[d] /\ owed'[d] \in Nat BY DEF DisputeTypes
    <3>3. owed[d] + Pays(x, d) = owed'[d] + Pays(disputeCalls[c], d) BY DEF SaveCounts
    <3> QED BY ONLY <3>1, <3>2, <3>3
  <2> QED BY <1>1, <2>1, <2>2, MoneyStep
<1>5. AppealsOK'
  <2> SUFFICES ASSUME ~disputesOverlap', NEW d \in 1 .. MaxDisputes
               PROVE  appeals'[d] = IF d \in 1..Len(disputes') /\ disputes'[d].appealed THEN 1 ELSE 0
    BY DEF AppealsOK
  <2>1. appeals[d] = IF d \in 1..Len(disputes) /\ disputes[d].appealed THEN 1 ELSE 0 BY <1>o DEF AppealsOK
  <2>2. CASE d # i BY <1>r, <2>1, <2>2 DEF i, SaveCounts
  <2>3. CASE d = i 
    <3>1. disputes[i] = disputeCalls[c].copy BY <1>o
    <3>2. appeals[d] = One(disputes[i].appealed) BY <1>i, <2>1, <2>3 DEF One, Pays, Carries, Opens
    <3>3. appeals'[d] = One(r.appealed) BY <2>3, <3>1, <3>2 DEF i, One, SaveCounts
    <3> QED BY <1>i, <1>r, <2>3, <3>3 DEF One, Pays, Carries, Opens
  <2> QED BY <2>2, <2>3
<1>6. LoadsOK'
  <2> SUFFICES ASSUME ~disputesOverlap', disputeFaults' = 0, NEW a \in Arbitrators
               PROVE  loads'[a] <= Cardinality(OpenRows(a)') + Cardinality(OnTheWay(a)')
    BY DEF LoadsOK
  <2>1. disputes[i] = disputeCalls[c].copy BY <1>o
  <2>2. /\ Cardinality(OpenRows(a)) \in Nat /\ Cardinality(OpenRows(a)') \in Nat
        /\ Cardinality(OpenRows(a)') = Cardinality(OpenRows(a)) - Opens(disputes[i], a) + Opens(r, a)
    BY <1>i, RowsChange DEF RowSaved, i
  <2>3. /\ Cardinality(OnTheWay(a)) \in Nat /\ Cardinality(OnTheWay(a)') \in Nat
        /\ Cardinality(OnTheWay(a)') = Cardinality(OnTheWay(a)) - Carries(disputeCalls[c], a) + Carries(x, a)
    BY OnTheWayChange
  <2>4. loads[a] \in Nat /\ loads'[a] = loads[a] BY DEF DisputeTypes
  <2>5. loads[a] <= Cardinality(OpenRows(a)) + Cardinality(OnTheWay(a)) BY <1>o DEF LoadsOK, DisputeTypes
  <2>6. Opens(disputes[i], a) + Carries(disputeCalls[c], a) <= Opens(r, a) + Carries(x, a)
    BY <2>1 DEF SaveCounts
  <2>7. /\ Carries(disputeCalls[c], a) \in Nat /\ Carries(x, a) \in Nat 
        /\ Opens(disputes[i], a) \in Nat /\ Opens(r, a) \in Nat BY DEF One, Pays, Carries, Opens
  <2> QED BY ONLY <2>2, <2>3, <2>4, <2>5, <2>6, <2>7
<1>7. LimitsOK' BY DEF LimitsOK
<1> QED BY <1>1, <1>2, <1>3, <1>4, <1>5, <1>6, <1>7

\* The records of calls and rows.
LEMMA DisputeFacts ==
  ASSUME DisputeInv, NEW c \in DisputeCallers
  PROVE  /\ disputeCalls[c] \in DisputeCall /\ CallFine(disputeCalls[c])
         /\ Len(disputes) \in Nat
         /\ \A d \in 1..Len(disputes) : disputes[d] \in D!Dispute /\ d \in 1 .. MaxDisputes
         /\ D!NoCall \in DisputeCall /\ CallFine(D!NoCall)
<1>1. disputeCalls[c] \in DisputeCall /\ CallFine(disputeCalls[c]) BY DEF DisputeInv, DisputeTypes, CallsFine
<1>2. Len(disputes) \in Nat /\ \A d \in 1..Len(disputes) : disputes[d] \in D!Dispute /\ d \in 1 .. MaxDisputes
  BY LenProperties, ElementOfSeq, DisputeAssumption DEF DisputeInv, DisputeTypes
<1>3. D!NoCall \in DisputeCall BY DEF D!NoCall, D!New, DisputeCall, D!DisputeStatus
<1>4. CallFine(D!NoCall) BY DEF D!NoCall, D!New, CallFine
<1> QED BY <1>1, <1>2, <1>3, <1>4

\* createDispute, the checks.
LEMMA CreateCheckInv == ASSUME DisputeInv, NEW c \in DisputeCallers, NEW p \in Parties, D!CreateCheck(c, p) PROVE DisputeInv'
<1> DEFINE x == [D!NoCall EXCEPT !.pc = "insert", !.copy = D!New(p)]
<1>1. x \in DisputeCall /\ x.pc = "insert" /\ x.copy = D!New(p)
  BY DEF D!NoCall, D!New, DisputeCall, D!DisputeStatus
<1>3. Moves(c, x) BY DEF D!CreateCheck, D!Call, Moves
<1>4. disputeCalls[c].pc = "idle" BY DEF D!CreateCheck
<1> HIDE DEF x
<1>2. CallFine(x)
  <2>1. D!New(p) \in D!Dispute /\ D!New(p).by = p BY DEF D!New, D!Dispute, D!DisputeStatus
  <2> QED BY <1>1, <2>1 DEF CallFine
<1>5. \A d \in 1 .. MaxDisputes : Pays(x, d) = 0 /\ Pays(disputeCalls[c], d) = 0 BY <1>1, <1>4 DEF Pays, WillPay
<1>6. \A a \in Arbitrators : ~CountsFor(disputeCalls[c], a) BY <1>4 DEF CountsFor
<1>7. UNCHANGED <<disputes, appeals, disputesOverlap, loads, owed, paid, disputeFaults>> BY DEF D!CreateCheck
<1>8. paid \in [1 .. MaxDisputes -> Nat] /\ disputeFaults \in Nat BY DEF DisputeInv, DisputeTypes
<1>9. PaysOff(c, x) /\ CarriesOn(c, x) BY <1>5, <1>6, <1>7, <1>8 DEF PaysOff, CarriesOn
<1> QED BY <1>1, <1>2, <1>3, <1>7, <1>8, <1>9, StayInv

\* The reads of submitEvidence, appealDispute and resolveDispute.
LEMMA FindInv ==
  ASSUME DisputeInv, NEW c \in DisputeCallers, NEW d \in D!Ids,
         D!EvidenceRead(c, d) \/ D!AppealRead(c, d) \/
         \E actor \in Arbitrators \cup {"admin"}, type \in {"refund", "dismissed"} : D!ResolveRead(c, d, actor, type)
  PROVE  DisputeInv'
<1>d. d \in 1..Len(disputes) BY DEF D!Ids
<1>0. disputes[d] \in D!Dispute /\ d \in Nat /\ (disputes[d].enforced => disputes[d].status = "resolved")
  BY <1>d, DisputeFacts DEF DisputeInv, EnforcedIsResolved
<1>1. PICK p \in {"evidence", "appeal", "resolve"}, type \in {"none", "refund", "dismissed"} :
        /\ D!Find(c, d, p, type)
        /\ p = "evidence" => disputes[d].status = "filed"
        /\ p = "appeal" => disputes[d].status = "resolved" /\ ~disputes[d].appealed
        /\ p = "resolve" => disputes[d].status # "resolved"
  BY DEF D!EvidenceRead, D!AppealRead, D!ResolveRead
<1> DEFINE x == [D!NoCall EXCEPT !.pc = p, !.id = d, !.copy = disputes[d], !.type = type, !.to = "arbitration"]
<1>2. x \in DisputeCall /\ x.pc = p /\ x.copy = disputes[d] /\ x.id = d /\ x.to = "arbitration"
  BY <1>0 DEF D!NoCall, D!New, DisputeCall, D!DisputeStatus, D!Dispute, D!DisputeResolutionType
<1>3. Moves(c, x) /\ disputeCalls[c].pc = "idle" BY <1>1 DEF D!Find, D!Call, Moves
<1> HIDE DEF x
<1>4. CallFine(x) BY <1>d, <1>0, <1>1, <1>2 DEF CallFine
<1>5. \A e \in 1 .. MaxDisputes : Pays(x, e) = 0 /\ Pays(disputeCalls[c], e) = 0 BY <1>2, <1>3 DEF Pays, WillPay
<1>6. \A a \in Arbitrators : ~CountsFor(disputeCalls[c], a) BY <1>3 DEF CountsFor
<1>7. UNCHANGED <<disputes, appeals, disputesOverlap, loads, owed, paid, disputeFaults>> BY <1>1 DEF D!Find
<1>8. paid \in [1 .. MaxDisputes -> Nat] /\ disputeFaults \in Nat BY DEF DisputeInv, DisputeTypes
<1>9. PaysOff(c, x) /\ CarriesOn(c, x) BY <1>5, <1>6, <1>7, <1>8 DEF PaysOff, CarriesOn
<1> QED BY <1>2, <1>3, <1>4, <1>7, <1>8, <1>9, StayInv

\* assignArbitrator, the choice: an arbitrator within the limit.
LEMMA AssignInv == ASSUME DisputeInv, NEW c \in DisputeCallers, D!AssignArbitrator(c) PROVE DisputeInv'
<1>1. disputeCalls[c].pc = "assign" /\ UNCHANGED <<disputes, appeals, disputesOverlap, loads, owed, paid, disputeFaults>>
  BY DEF D!AssignArbitrator
<1>2. PICK x \in DisputeCall : Moves(c, x) /\ CallFine(x) /\ x.pc \in {"idle", "count"}
  <2>1. CASE Moves(c, D!NoCall) BY <2>1, DisputeFacts DEF D!NoCall
  <2>2. ASSUME NEW a \in Arbitrators, D!Eligible(a), Moves(c, [disputeCalls[c] EXCEPT !.pc = "count", !.who = a, !.load = loads[a]])
        PROVE  \E x \in DisputeCall : Moves(c, x) /\ CallFine(x) /\ x.pc \in {"idle", "count"}
    <3> DEFINE x == [disputeCalls[c] EXCEPT !.pc = "count", !.who = a, !.load = loads[a]]
    <3>0. loads[a] \in Nat /\ disputeCalls[c] \in DisputeCall BY DisputeFacts DEF DisputeInv, DisputeTypes
    <3>1. /\ x \in DisputeCall /\ x.pc = "count" /\ x.who = a /\ x.load = loads[a] /\ x.copy = disputeCalls[c].copy
          /\ x.id = disputeCalls[c].id /\ x.to = disputeCalls[c].to
      BY <3>0 DEF DisputeCall
    <3>2. a \notin Generalists => loads[a] < MAX_ACTIVE BY <2>2 DEF D!Eligible
    <3>3. CallFine(disputeCalls[c]) BY DisputeFacts
    <3> HIDE DEF x
    <3>4. CallFine(x) BY <1>1, <3>1, <3>2, <3>3 DEF CallFine
    <3> QED BY <2>2, <3>1, <3>4 DEF x
  <2> QED BY <2>1, <2>2 DEF D!AssignArbitrator, D!Call, Moves
<1>5. \A e \in 1 .. MaxDisputes : Pays(x, e) = 0 /\ Pays(disputeCalls[c], e) = 0 BY <1>1, <1>2 DEF Pays, WillPay
<1>6. \A a \in Arbitrators : ~CountsFor(disputeCalls[c], a) BY <1>1 DEF CountsFor
<1>8. paid \in [1 .. MaxDisputes -> Nat] /\ disputeFaults \in Nat BY DEF DisputeInv, DisputeTypes
<1>9. PaysOff(c, x) /\ CarriesOn(c, x) BY <1>1, <1>5, <1>6, <1>8 DEF PaysOff, CarriesOn
<1> QED BY <1>1, <1>2, <1>8, <1>9, StayInv

\* releaseArbitrator, the read: an arbitrator without load is left alone.
LEMMA ReleaseReadInv == ASSUME DisputeInv, NEW c \in DisputeCallers, D!ReleaseRead(c) PROVE DisputeInv'
<1>1. disputeCalls[c].pc = "release" /\ UNCHANGED <<disputes, appeals, disputesOverlap, loads, owed, paid, disputeFaults>>
  BY DEF D!ReleaseRead
<1>0. disputeCalls[c] \in DisputeCall /\ CallFine(disputeCalls[c]) BY DisputeFacts
<1>2. PICK x \in DisputeCall :
        /\ Moves(c, x) /\ CallFine(x) /\ x.pc \in {"uncount", "enforce"}
        /\ x.id = disputeCalls[c].id /\ x.type = disputeCalls[c].type /\ x.copy = disputeCalls[c].copy
        /\ x.pc = "enforce" => \A a \in Arbitrators : a = x.copy.arbitrator => loads[a] = 0
  <2> DEFINE r == disputeCalls[c].copy.arbitrator
  <2>0. r \in Arbitrators \cup {"none"} BY <1>0 DEF DisputeCall
  <2>1. CASE r # "none" /\ loads[r] > 0
    <3> DEFINE x == [disputeCalls[c] EXCEPT !.pc = "uncount", !.load = loads[r]]
    <3>0. r \in Arbitrators /\ loads[r] \in Nat BY <2>0, <2>1 DEF DisputeInv, DisputeTypes
    <3>1. /\ x \in DisputeCall /\ x.pc = "uncount" /\ x.load = loads[r] /\ x.copy = disputeCalls[c].copy
          /\ x.id = disputeCalls[c].id /\ x.to = disputeCalls[c].to /\ x.type = disputeCalls[c].type
      BY <1>0, <3>0 DEF DisputeCall
    <3>2. Moves(c, x) BY <2>1 DEF D!ReleaseRead, D!Call, Moves
    <3>3. r \notin Generalists => loads[r] <= MAX_ACTIVE BY <3>0 DEF DisputeInv, LimitsOK
    <3> HIDE DEF x
    <3>4. CallFine(x) BY <1>0, <1>1, <2>1, <3>0, <3>1, <3>3 DEF CallFine
    <3> QED BY <3>1, <3>2, <3>4
  <2>2. CASE ~(r # "none" /\ loads[r] > 0)
    <3> DEFINE x == [disputeCalls[c] EXCEPT !.pc = "enforce"]
    <3>1. /\ x \in DisputeCall /\ x.pc = "enforce" /\ x.copy = disputeCalls[c].copy
          /\ x.id = disputeCalls[c].id /\ x.to = disputeCalls[c].to /\ x.type = disputeCalls[c].type
      BY <1>0 DEF DisputeCall
    <3>2. Moves(c, x) BY <2>2 DEF D!ReleaseRead, D!Goto, D!Call, Moves
    <3>3. \A a \in Arbitrators : a = r => loads[a] = 0 BY <2>0, <2>2, DisputeAssumption DEF DisputeInv, DisputeTypes
    <3> HIDE DEF x
    <3>4. CallFine(x) BY <1>0, <1>1, <3>1 DEF CallFine
    <3> QED BY <3>1, <3>2, <3>3, <3>4
  <2> QED BY <2>1, <2>2
<1>5. \A e \in 1 .. MaxDisputes : Pays(x, e) = Pays(disputeCalls[c], e) /\ Pays(x, e) \in Nat BY <1>1, <1>2 DEF Pays, WillPay
<1>6. \A a \in Arbitrators : CountsFor(disputeCalls[c], a) => CountsFor(x, a) \/ loads[a] = 0 BY <1>1, <1>2 DEF CountsFor
<1>8. paid \in [1 .. MaxDisputes -> Nat] /\ disputeFaults \in Nat BY DEF DisputeInv, DisputeTypes
<1>9. PaysOff(c, x) /\ CarriesOn(c, x) BY <1>1, <1>5, <1>6, <1>8 DEF PaysOff, CarriesOn
<1> QED BY <1>1, <1>2, <1>8, <1>9, StayInv

\* executeEnforcement: no copy on its way to it is marked as enforced.
LEMMA EnforceInv == ASSUME DisputeInv, NEW c \in DisputeCallers, D!Enforce(c) PROVE DisputeInv'
<1>1. disputeCalls[c].pc = "enforce" /\ UNCHANGED <<disputes, appeals, disputesOverlap, loads, owed, disputeFaults>>
  BY DEF D!Enforce
<1>0. disputeCalls[c] \in DisputeCall /\ CallFine(disputeCalls[c]) BY DisputeFacts
<1>2. ~disputeCalls[c].copy.enforced BY <1>0, <1>1 DEF CallFine
<1> DEFINE n == IF disputeCalls[c].type = "dismissed" THEN 0 ELSE 1
<1>3. PICK x \in DisputeCall :
      /\ x.pc = "enforced" /\ x.copy = disputeCalls[c].copy /\ x.id = disputeCalls[c].id /\ x.to = disputeCalls[c].to
      /\ Moves(c, x)
  <2> DEFINE x == [disputeCalls[c] EXCEPT !.pc = "enforced"]
  <2>1. /\ x \in DisputeCall /\ x.pc = "enforced" /\ x.copy = disputeCalls[c].copy
        /\ x.id = disputeCalls[c].id /\ x.to = disputeCalls[c].to
    BY <1>0 DEF DisputeCall
  <2>2. Moves(c, x) BY <1>2 DEF D!Enforce, D!Goto, D!Call, Moves
  <2> QED BY <2>1, <2>2
<1>4. paid' = [paid EXCEPT ![disputeCalls[c].id] = @ + n] BY <1>2 DEF D!Enforce
<1>5. CallFine(x) BY <1>0, <1>1, <1>3 DEF CallFine
<1>8. paid \in [1 .. MaxDisputes -> Nat] /\ disputeFaults \in Nat BY DEF DisputeInv, DisputeTypes
<1>9. paid' \in [1 .. MaxDisputes -> Nat]
  <2>1. n \in Nat OBVIOUS
  <2>2. \A e \in 1 .. MaxDisputes : paid[e] + n \in Nat BY <1>8, <2>1
  <2> QED BY <1>4, <1>8, <2>2
<1>10. ASSUME NEW e \in 1 .. MaxDisputes PROVE paid'[e] + Pays(x, e) = paid[e] + Pays(disputeCalls[c], e) /\ Pays(x, e) \in Nat /\ paid[e] \in Nat /\ paid'[e] \in Nat
  <2>1. Pays(x, e) = 0 BY <1>3 DEF Pays, WillPay
  <2>2. Pays(disputeCalls[c], e) = IF e = disputeCalls[c].id THEN n ELSE 0 BY <1>1 DEF Pays, WillPay
  <2>3. paid'[e] = IF e = disputeCalls[c].id THEN paid[e] + n ELSE paid[e] BY <1>4, <1>8
  <2>4. paid[e] \in Nat /\ paid'[e] \in Nat BY <1>8, <1>9
  <2> QED BY <2>1, <2>2, <2>3, <2>4
<1>11. CarriesOn(c, x) BY <1>1 DEF CarriesOn, CountsFor
<1>12. PaysOff(c, x) BY <1>10 DEF PaysOff
<1> QED BY <1>1, <1>3, <1>5, <1>8, <1>9, <1>11, <1>12, StayInv

\* A call that is cut short leaves its remediation out.
LEMMA DisputeFailInv == ASSUME DisputeInv, NEW c \in DisputeCallers, D!Fail(c) PROVE DisputeInv'
<1>1. /\ UNCHANGED <<disputes, appeals, disputesOverlap, loads, owed, paid>>
      /\ disputeFaults' = disputeFaults + 1 /\ Moves(c, D!NoCall)
  BY DEF D!Fail, D!Call, Moves
<1>2. D!NoCall \in DisputeCall /\ CallFine(D!NoCall) BY DisputeFacts
<1>3. paid \in [1 .. MaxDisputes -> Nat] /\ disputeFaults \in Nat BY DEF DisputeInv, DisputeTypes
<1>5. disputeFaults' \in Nat /\ disputeFaults <= disputeFaults' /\ disputeFaults' # 0 BY <1>1, <1>3
<1>4. ASSUME NEW e \in 1 .. MaxDisputes PROVE paid'[e] + Pays(D!NoCall, e) <= paid[e] + Pays(disputeCalls[c], e)
  <2>1. Pays(D!NoCall, e) = 0 BY DEF Pays, WillPay, D!NoCall
  <2>2. Pays(disputeCalls[c], e) \in Nat BY DEF Pays
  <2>3. paid[e] \in Nat /\ paid'[e] = paid[e] BY <1>1, <1>3
  <2> QED BY ONLY <2>1, <2>2, <2>3
<1>6. PaysOff(c, D!NoCall) /\ CarriesOn(c, D!NoCall) BY <1>4, <1>5 DEF PaysOff, CarriesOn
<1> QED BY <1>1, <1>2, <1>3, <1>5, <1>6, StayInv

\* A save that ends a call, or keeps it, and changes neither debts nor appeals.
LEMMA PlainSave ==
  ASSUME DisputeInv, NEW c \in DisputeCallers, NEW x \in DisputeCall, Moves(c, x), CallFine(x),
         NEW r \in D!Dispute, RowSaved(c, r), disputeCalls[c].pc \in {"flag", "assigned", "evidence", "enforced"},
         x.pc \in {"idle", "assign"}, r.enforced => r.status = "resolved",
         UNCHANGED <<loads, paid, disputeFaults, owed, appeals>>, r.appealed = disputeCalls[c].copy.appealed,
         \A a \in Arbitrators : CountsFor(disputeCalls[c], a) \/ Counts(disputeCalls[c].copy, a) => Counts(r, a),
         disputeCalls[c].pc = "assigned" => disputeCalls[c].copy.status \in {"filed", "appealed"}
  PROVE  DisputeInv'
<1>1. owed \in [1 .. MaxDisputes -> Nat] /\ appeals \in [1 .. MaxDisputes -> Nat] BY DEF DisputeInv, DisputeTypes
<1>2. \A d \in 1 .. MaxDisputes : Pays(x, d) = 0 /\ Pays(disputeCalls[c], d) = 0 BY DEF Pays, WillPay
<1>3. \A a \in Arbitrators : Opens(disputeCalls[c].copy, a) + Carries(disputeCalls[c], a) <= Opens(r, a) + Carries(x, a)
  <2> SUFFICES ASSUME NEW a \in Arbitrators PROVE Opens(disputeCalls[c].copy, a) + Carries(disputeCalls[c], a) <= Opens(r, a) + Carries(x, a)
    OBVIOUS
  <2>1. Carries(x, a) = 0 BY DEF Carries, CountsFor
  <2>2. ~(CountsFor(disputeCalls[c], a) /\ Counts(disputeCalls[c].copy, a)) BY DEF Counts, CountsFor
  <2> QED BY <2>1, <2>2 DEF Opens, Carries
<1>4. disputeCalls[c].id \in 1 .. MaxDisputes BY DisputeFacts DEF CallFine
<1>5. SaveCounts(c, r, x)
  <2>1. appeals'[disputeCalls[c].id] = appeals[disputeCalls[c].id] + One(r.appealed) - One(disputeCalls[c].copy.appealed)
    <3>1. One(r.appealed) = One(disputeCalls[c].copy.appealed) /\ One(r.appealed) \in Nat BY DEF One
    <3>2. appeals[disputeCalls[c].id] \in Nat BY <1>1, <1>4
    <3> QED BY <3>1, <3>2
  <2> QED BY <1>1, <1>2, <1>3, <2>1 DEF SaveCounts
<1> QED BY <1>1, <1>5, SaveInv

\* flagIfSimilar.
LEMMA FlagInv == ASSUME DisputeInv, NEW c \in DisputeCallers, D!FlagIfSimilar(c) PROVE DisputeInv'
<1>0. disputeCalls[c] \in DisputeCall /\ CallFine(disputeCalls[c]) BY DisputeFacts
<1>1. disputeCalls[c].pc = "flag" /\ UNCHANGED <<loads, paid, owed, appeals, disputeFaults>> BY DEF D!FlagIfSimilar
<1>2. PICK x \in DisputeCall : x = [disputeCalls[c] EXCEPT !.pc = "assign"] BY <1>0 DEF DisputeCall
<1>3. /\ x.pc = "assign" /\ x.copy = disputeCalls[c].copy /\ x.id = disputeCalls[c].id /\ x.to = disputeCalls[c].to
      /\ [disputeCalls[c] EXCEPT !.copy = disputeCalls[c].copy, !.pc = "assign"] = x
  BY <1>0, <1>2 DEF DisputeCall
<1>4. CallFine(x) BY <1>0, <1>1, <1>3 DEF CallFine
<1>5. Moves(c, x) BY <1>2, <1>3 DEF D!FlagIfSimilar, D!Save, D!Goto, D!Call, Moves
<1>6. PICK r \in D!Dispute : r = disputeCalls[c].copy BY <1>0, <1>1 DEF CallFine
<1>7. \A a \in Arbitrators : ~CountsFor(disputeCalls[c], a) BY <1>1 DEF CountsFor
<1>8. ~r.enforced BY <1>0, <1>1, <1>6 DEF CallFine
<1>9. CASE RowSaved(c, disputeCalls[c].copy)
  <2>1. RowSaved(c, r) BY <1>6, <1>9
  <2> QED BY <1>1, <1>3, <1>4, <1>5, <1>6, <1>7, <1>8, <2>1, PlainSave
<1>10. CASE UNCHANGED <<disputes, disputesOverlap>>
  <2>1. \A d \in 1 .. MaxDisputes : Pays(x, d) = 0 /\ Pays(disputeCalls[c], d) = 0 BY <1>1, <1>3 DEF Pays, WillPay
  <2>2. paid \in [1 .. MaxDisputes -> Nat] /\ disputeFaults \in Nat BY DEF DisputeInv, DisputeTypes
  <2>3. PaysOff(c, x) /\ CarriesOn(c, x) BY <1>1, <1>7, <2>1, <2>2 DEF PaysOff, CarriesOn
  <2> QED BY <1>1, <1>4, <1>5, <1>10, <2>2, <2>3, StayInv
<1> QED BY <1>9, <1>10 DEF D!FlagIfSimilar, D!Save, RowSaved

\* The save with the arbitrator: from here on the row carries the load.
LEMMA SaveAssignedInv == ASSUME DisputeInv, NEW c \in DisputeCallers, D!SaveAssigned(c) PROVE DisputeInv'
<1>0. disputeCalls[c] \in DisputeCall /\ CallFine(disputeCalls[c]) /\ D!NoCall \in DisputeCall /\ CallFine(D!NoCall) BY DisputeFacts
<1>1. disputeCalls[c].pc = "assigned" /\ UNCHANGED <<loads, paid, owed, appeals, disputeFaults>> /\ Moves(c, D!NoCall)
  BY DEF D!SaveAssigned, D!Call, Moves
<1>2. /\ disputeCalls[c].copy \in D!Dispute /\ disputeCalls[c].to \in {"under_review", "arbitration"}
      /\ disputeCalls[c].who \in Arbitrators /\ disputeCalls[c].copy.status \in {"filed", "appealed"} /\ ~disputeCalls[c].copy.enforced
  BY <1>0, <1>1 DEF CallFine, DisputeCall
<1>3. PICK r \in D!Dispute : r = [disputeCalls[c].copy EXCEPT !.arbitrator = disputeCalls[c].who, !.status = disputeCalls[c].to]
  BY <1>2 DEF D!Dispute, D!DisputeStatus
<1>4. RowSaved(c, r) BY <1>3 DEF RowSaved, D!SaveAssigned
<1>5. /\ r.arbitrator = disputeCalls[c].who /\ r.status = disputeCalls[c].to /\ r.appealed = disputeCalls[c].copy.appealed /\ ~r.enforced
  BY <1>2, <1>3 DEF D!Dispute
<1>6. \A a \in Arbitrators : CountsFor(disputeCalls[c], a) \/ Counts(disputeCalls[c].copy, a) => Counts(r, a)
  BY <1>1, <1>2, <1>5 DEF Counts, CountsFor
<1>7. D!NoCall.pc = "idle" BY DEF D!NoCall
<1> QED BY <1>0, <1>1, <1>2, <1>4, <1>5, <1>6, <1>7, PlainSave

\* submitEvidence.
LEMMA EvidenceSaveInv == ASSUME DisputeInv, NEW c \in DisputeCallers, D!EvidenceSave(c) PROVE DisputeInv'
<1>0. disputeCalls[c] \in DisputeCall /\ CallFine(disputeCalls[c]) /\ D!NoCall \in DisputeCall /\ CallFine(D!NoCall) BY DisputeFacts
<1>1. disputeCalls[c].pc = "evidence" /\ UNCHANGED <<loads, paid, owed, appeals, disputeFaults>> /\ Moves(c, D!NoCall)
  BY DEF D!EvidenceSave, D!Call, Moves
<1>2. disputeCalls[c].copy \in D!Dispute /\ disputeCalls[c].copy.status = "filed" /\ ~disputeCalls[c].copy.enforced
  BY <1>0, <1>1 DEF CallFine, DisputeCall
<1>3. PICK r \in D!Dispute : r = [disputeCalls[c].copy EXCEPT !.status = "investigation"]
  BY <1>2 DEF D!Dispute, D!DisputeStatus
<1>4. RowSaved(c, r) BY <1>3 DEF RowSaved, D!EvidenceSave
<1>5. r.status = "investigation" /\ r.appealed = disputeCalls[c].copy.appealed /\ ~r.enforced
  BY <1>2, <1>3 DEF D!Dispute
<1>6. \A a \in Arbitrators : CountsFor(disputeCalls[c], a) \/ Counts(disputeCalls[c].copy, a) => Counts(r, a)
  BY <1>1, <1>2, <1>5 DEF Counts, CountsFor
<1>7. D!NoCall.pc = "idle" BY DEF D!NoCall
<1> QED BY <1>0, <1>1, <1>2, <1>4, <1>5, <1>6, <1>7, PlainSave

\* The mark of the enforcement.
LEMMA EnforceSaveInv == ASSUME DisputeInv, NEW c \in DisputeCallers, D!EnforceSave(c) PROVE DisputeInv'
<1>0. disputeCalls[c] \in DisputeCall /\ CallFine(disputeCalls[c]) /\ D!NoCall \in DisputeCall /\ CallFine(D!NoCall) BY DisputeFacts
<1>1. disputeCalls[c].pc = "enforced" /\ UNCHANGED <<loads, paid, owed, appeals, disputeFaults>> /\ Moves(c, D!NoCall)
  BY DEF D!EnforceSave, D!Call, Moves
<1>2. disputeCalls[c].copy \in D!Dispute /\ disputeCalls[c].copy.status = "resolved"
  BY <1>0, <1>1 DEF CallFine, DisputeCall
<1>3. PICK r \in D!Dispute : r = [disputeCalls[c].copy EXCEPT !.enforced = TRUE]
  BY <1>2 DEF D!Dispute
<1>4. RowSaved(c, r) BY <1>3 DEF RowSaved, D!EnforceSave
<1>5. r.status = "resolved" /\ r.appealed = disputeCalls[c].copy.appealed
  BY <1>2, <1>3 DEF D!Dispute
<1>6. \A a \in Arbitrators : CountsFor(disputeCalls[c], a) \/ Counts(disputeCalls[c].copy, a) => Counts(r, a)
  BY <1>1, <1>2, <1>5 DEF Counts, CountsFor
<1>7. D!NoCall.pc = "idle" BY DEF D!NoCall
<1> QED BY <1>0, <1>1, <1>2, <1>4, <1>5, <1>6, <1>7, PlainSave

\* resolveDispute: the decision is saved, and the call is on its way to enforce it.
LEMMA ResolveSaveInv == ASSUME DisputeInv, NEW c \in DisputeCallers, D!ResolveSave(c) PROVE DisputeInv'
<1>0. disputeCalls[c] \in DisputeCall /\ CallFine(disputeCalls[c]) BY DisputeFacts
<1> DEFINE n == IF disputeCalls[c].type = "dismissed" THEN 0 ELSE 1
           i == disputeCalls[c].id
<1>1. /\ disputeCalls[c].pc = "resolve" /\ UNCHANGED <<loads, paid, appeals, disputeFaults>>
      /\ owed' = [owed EXCEPT ![i] = @ + n]
  BY DEF D!ResolveSave
<1>2. /\ disputeCalls[c].copy \in D!Dispute /\ ~disputeCalls[c].copy.enforced /\ disputeCalls[c].copy.status # "resolved"
      /\ i \in 1 .. MaxDisputes
  BY <1>0, <1>1, DisputeFacts DEF CallFine
<1>3. PICK r \in D!Dispute : r = [disputeCalls[c].copy EXCEPT !.status = "resolved"]
  BY <1>2 DEF D!Dispute, D!DisputeStatus
<1>4. RowSaved(c, r) BY <1>3 DEF RowSaved, D!ResolveSave, D!Save
<1>5. r.status = "resolved" /\ r.appealed = disputeCalls[c].copy.appealed /\ ~r.enforced /\ r.arbitrator = disputeCalls[c].copy.arbitrator
  BY <1>2, <1>3 DEF D!Dispute
<1>6. PICK x \in DisputeCall : x = [disputeCalls[c] EXCEPT !.copy = r, !.pc = "release"]
  BY <1>0 DEF DisputeCall, D!Dispute
<1>7. x.pc = "release" /\ x.copy = r /\ x.id = i /\ x.to = disputeCalls[c].to /\ x.type = disputeCalls[c].type
  BY <1>0, <1>6 DEF DisputeCall
<1>8. Moves(c, x) BY <1>3, <1>6 DEF Moves, D!ResolveSave, D!Save, D!Call
<1>9. CallFine(x) BY <1>0, <1>1, <1>5, <1>7 DEF CallFine
<1>10. owed \in [1 .. MaxDisputes -> Nat] /\ appeals \in [1 .. MaxDisputes -> Nat] BY DEF DisputeInv, DisputeTypes
<1>11. owed' \in [1 .. MaxDisputes -> Nat]
  <2>1. \A e \in 1 .. MaxDisputes : owed[e] + n \in Nat BY <1>10
  <2> QED BY <1>1, <1>10, <2>1
<1>12. SaveCounts(c, r, x)
  <2>1. ASSUME NEW d \in 1 .. MaxDisputes PROVE owed[d] + Pays(x, d) = owed'[d] + Pays(disputeCalls[c], d)
    <3>1. Pays(disputeCalls[c], d) = 0 BY <1>1 DEF Pays, WillPay
    <3>2. Pays(x, d) = IF d = i THEN n ELSE 0 BY <1>7 DEF Pays, WillPay
    <3>3. owed'[d] = IF d = i THEN owed[d] + n ELSE owed[d] BY <1>1, <1>10
    <3>4. owed[d] \in Nat BY <1>10
    <3> QED BY ONLY <3>1, <3>2, <3>3, <3>4
  <2>2. appeals'[i] = appeals[i] + One(r.appealed) - One(disputeCalls[c].copy.appealed)
    <3>1. One(r.appealed) = One(disputeCalls[c].copy.appealed) /\ One(r.appealed) \in Nat BY <1>5 DEF One
    <3>2. appeals[i] \in Nat /\ appeals'[i] = appeals[i] BY <1>1, <1>2, <1>10
    <3> QED BY ONLY <3>1, <3>2
  <2>3. ASSUME NEW a \in Arbitrators PROVE Opens(disputeCalls[c].copy, a) + Carries(disputeCalls[c], a) <= Opens(r, a) + Carries(x, a)
    <3>1. Carries(disputeCalls[c], a) = 0 BY <1>1 DEF Carries, CountsFor
    <3>2. Opens(r, a) = 0 BY <1>5 DEF Opens, Counts
    <3>3. Opens(disputeCalls[c].copy, a) = 0 \/ Carries(x, a) = 1 BY <1>5, <1>7 DEF Opens, Counts, Carries, CountsFor
    <3>4. Opens(disputeCalls[c].copy, a) \in {0, 1} /\ Carries(x, a) \in {0, 1} BY DEF Opens, Carries
    <3> QED BY ONLY <3>1, <3>2, <3>3, <3>4
  <2>4. \A d \in 1 .. MaxDisputes : appeals'[d] = appeals[d] BY <1>1
  <2> QED BY <2>1, <2>2, <2>3, <2>4 DEF SaveCounts
<1> QED BY <1>1, <1>4, <1>5, <1>8, <1>9, <1>10, <1>11, <1>12, SaveInv

\* appealDispute: the mark and the enforcement of the first decision are reset.
LEMMA AppealSaveInv == ASSUME DisputeInv, NEW c \in DisputeCallers, D!AppealSave(c) PROVE DisputeInv'
<1>0. disputeCalls[c] \in DisputeCall /\ CallFine(disputeCalls[c]) BY DisputeFacts
<1> DEFINE i == disputeCalls[c].id
<1>1. /\ disputeCalls[c].pc = "appeal" /\ UNCHANGED <<loads, paid, owed, disputeFaults>>
      /\ appeals' = [appeals EXCEPT ![i] = @ + 1]
  BY DEF D!AppealSave
<1>2. /\ disputeCalls[c].copy \in D!Dispute /\ ~disputeCalls[c].copy.appealed /\ disputeCalls[c].copy.status = "resolved"
      /\ i \in 1 .. MaxDisputes
  BY <1>0, <1>1, DisputeFacts DEF CallFine
<1>3. PICK r \in D!Dispute : r = [disputeCalls[c].copy EXCEPT !.appealed = TRUE, !.status = "appealed", !.enforced = FALSE]
  BY <1>2 DEF D!Dispute, D!DisputeStatus
<1>4. RowSaved(c, r) BY <1>3 DEF RowSaved, D!AppealSave, D!Save
<1>5. r.status = "appealed" /\ r.appealed = TRUE /\ r.enforced = FALSE BY <1>2, <1>3 DEF D!Dispute
<1>6. PICK x \in DisputeCall : x = [disputeCalls[c] EXCEPT !.copy = r, !.pc = "assign"]
  BY <1>0 DEF DisputeCall, D!Dispute
<1>7. x.pc = "assign" /\ x.copy = r /\ x.id = i /\ x.to = disputeCalls[c].to BY <1>0, <1>6 DEF DisputeCall
<1>8. Moves(c, x) BY <1>3, <1>6 DEF Moves, D!AppealSave, D!Save, D!Call
<1>9. CallFine(x) BY <1>0, <1>1, <1>5, <1>7 DEF CallFine
<1>10. owed \in [1 .. MaxDisputes -> Nat] /\ appeals \in [1 .. MaxDisputes -> Nat] BY DEF DisputeInv, DisputeTypes
<1>11. appeals' \in [1 .. MaxDisputes -> Nat]
  <2>1. \A e \in 1 .. MaxDisputes : appeals[e] + 1 \in Nat BY <1>10
  <2> QED BY <1>1, <1>10, <2>1
<1>12. SaveCounts(c, r, x)
  <2>1. ASSUME NEW d \in 1 .. MaxDisputes PROVE owed[d] + Pays(x, d) = owed'[d] + Pays(disputeCalls[c], d)
    <3>1. Pays(disputeCalls[c], d) = 0 BY <1>1 DEF Pays, WillPay
    <3>2. Pays(x, d) = 0 BY <1>7 DEF Pays, WillPay
    <3> QED BY <1>1, <3>1, <3>2
  <2>2. appeals'[i] = appeals[i] + One(r.appealed) - One(disputeCalls[c].copy.appealed)
    <3>1. One(r.appealed) = 1 /\ One(disputeCalls[c].copy.appealed) = 0 BY <1>2, <1>5 DEF One
    <3>2. appeals[i] \in Nat /\ appeals'[i] = appeals[i] + 1 BY <1>1, <1>2, <1>10
    <3> QED BY ONLY <3>1, <3>2
  <2>3. ASSUME NEW a \in Arbitrators PROVE Opens(disputeCalls[c].copy, a) + Carries(disputeCalls[c], a) <= Opens(r, a) + Carries(x, a)
    <3>1. Carries(disputeCalls[c], a) = 0 BY <1>1 DEF Carries, CountsFor
    <3>2. Opens(disputeCalls[c].copy, a) = 0 BY <1>2 DEF Opens, Counts
    <3>4. Opens(r, a) \in {0, 1} /\ Carries(x, a) \in {0, 1} BY DEF Opens, Carries
    <3> QED BY ONLY <3>1, <3>2, <3>4
  <2>4. \A d \in 1 .. MaxDisputes : d # i => appeals'[d] = appeals[d] BY <1>1, <1>10
  <2> QED BY <2>1, <2>2, <2>3, <2>4 DEF SaveCounts
<1> QED BY <1>1, <1>4, <1>5, <1>8, <1>9, <1>10, <1>11, <1>12, SaveInv

\* createDispute: a new row that no counter and no debt is about yet.
LEMMA CreateInsertInv == ASSUME DisputeInv, NEW c \in DisputeCallers, D!CreateInsert(c) PROVE DisputeInv'
<1> USE DEF DisputeInv
<1>0. disputeCalls[c] \in DisputeCall /\ CallFine(disputeCalls[c]) /\ Len(disputes) \in Nat BY DisputeFacts
<1>1. /\ disputeCalls[c].pc = "insert" /\ UNCHANGED <<loads, paid, owed, appeals, disputesOverlap, disputeFaults>>
      /\ Len(disputes) < MaxDisputes /\ disputes' = Append(disputes, disputeCalls[c].copy)
  BY DEF D!CreateInsert
<1> DEFINE r == disputeCalls[c].copy
<1>2. r \in D!Dispute /\ r.status = "filed" /\ ~r.appealed /\ ~r.enforced
  <2>1. r \in D!Dispute /\ r = D!New(r.by) BY <1>0, <1>1 DEF CallFine
  <2>2. ASSUME NEW b PROVE D!New(b).status = "filed" /\ ~D!New(b).appealed /\ ~D!New(b).enforced BY DEF D!New
  <2> QED BY <2>1, <2>2
<1>3. /\ disputes' \in Seq(D!Dispute) /\ Len(disputes') = Len(disputes) + 1 /\ disputes'[Len(disputes) + 1] = r
      /\ \A d \in 1..Len(disputes) : disputes'[d] = disputes[d]
  BY <1>1, <1>2, AppendProperties DEF DisputeTypes
<1>4. PICK x \in DisputeCall : x = [disputeCalls[c] EXCEPT !.pc = "flag", !.id = Len(disputes) + 1, !.to = "under_review"]
  <2>1. Len(disputes) + 1 \in Nat BY <1>0
  <2> QED BY <1>0, <2>1 DEF DisputeCall
<1>5. x.pc = "flag" /\ x.copy = r /\ x.id = Len(disputes) + 1 /\ x.to = "under_review" BY <1>0, <1>4 DEF DisputeCall
<1>6. Moves(c, x) BY <1>4 DEF Moves, D!CreateInsert, D!Call
<1> HIDE DEF r
<1>7. DisputeTypes'
  <2>1. Len(disputes') <= MaxDisputes BY <1>0, <1>1, <1>3, DisputeAssumption
  <2> QED BY <1>1, <1>3, <1>6, <2>1 DEF DisputeTypes, Moves
<1>8. CallsFine'
  <2>1. CallFine(x)'
    <3>1. x.id \in 1..Len(disputes') BY <1>0, <1>3, <1>5
    <3> QED BY <1>2, <1>5, <3>1 DEF CallFine
  <2>2. Len(disputes') \in Nat /\ Len(disputes) <= Len(disputes') BY <1>0, <1>3
  <2> QED BY <1>6, <2>1, <2>2, OthersFine
<1>9. \A d \in 1..Len(disputes') : d \in 1..Len(disputes) \/ d = Len(disputes) + 1 BY <1>0, <1>3
<1>10. EnforcedIsResolved' BY <1>2, <1>3, <1>9 DEF EnforcedIsResolved
<1>11. MoneyOK'
  <2>1. ASSUME NEW d \in 1 .. MaxDisputes PROVE
            /\ paid'[d] + owed[d] + Pays(x, d) <= owed'[d] + paid[d] + Pays(disputeCalls[c], d)
            /\ disputeFaults' = 0 => paid'[d] + owed[d] + Pays(x, d) = owed'[d] + paid[d] + Pays(disputeCalls[c], d)
    <3>1. Pays(x, d) = 0 /\ Pays(disputeCalls[c], d) = 0 BY <1>1, <1>5 DEF Pays, WillPay
    <3>2. paid[d] \in Nat /\ owed[d] \in Nat /\ paid'[d] = paid[d] /\ owed'[d] = owed[d] BY <1>1 DEF DisputeTypes
    <3> QED BY ONLY <3>1, <3>2
  <2>2. disputeFaults' = 0 => disputeFaults = 0 BY <1>1
  <2> QED BY <1>6, <1>7, <2>1, <2>2, MoneyStep
<1>12. AppealsOK'
  <2> SUFFICES ASSUME ~disputesOverlap', NEW d \in 1 .. MaxDisputes
               PROVE  appeals'[d] = IF d \in 1..Len(disputes') /\ disputes'[d].appealed THEN 1 ELSE 0
    BY DEF AppealsOK
  <2>1. appeals'[d] = IF d \in 1..Len(disputes) /\ disputes[d].appealed THEN 1 ELSE 0 BY <1>1 DEF AppealsOK
  <2>2. d \in 1..Len(disputes) => d \in 1..Len(disputes') BY <1>0, <1>3
  <2>3. Len(disputes) + 1 \notin 1..Len(disputes) BY <1>0
  <2>4. d \in 1..Len(disputes') /\ disputes'[d].appealed <=> d \in 1..Len(disputes) /\ disputes[d].appealed
    BY <1>2, <1>3, <1>9, <2>2, <2>3
  <2> QED BY <2>1, <2>4
<1>13. LoadsOK'
  <2> SUFFICES ASSUME ~disputesOverlap', disputeFaults' = 0, NEW a \in Arbitrators
               PROVE  loads'[a] <= Cardinality(OpenRows(a)') + Cardinality(OnTheWay(a)')
    BY DEF LoadsOK
  <2>1. OpenRows(a)' = OpenRows(a)
    <3>1. \A d \in 1..Len(disputes) : d \in 1..Len(disputes') BY <1>0, <1>3
    <3>2. ~Counts(r, a) BY <1>2 DEF Counts
    <3> QED BY <1>3, <1>9, <3>1, <3>2 DEF OpenRows
  <2>2. Cardinality(OnTheWay(a)') = Cardinality(OnTheWay(a))
    <3>1. ~CountsFor(x, a) /\ ~CountsFor(disputeCalls[c], a) BY <1>1, <1>5 DEF CountsFor
    <3>2. OnTheWay(a)' = OnTheWay(a) BY <1>6, <3>1 DEF OnTheWay, Moves, DisputeTypes
    <3> QED BY <3>2
  <2>3. loads'[a] <= Cardinality(OpenRows(a)) + Cardinality(OnTheWay(a)) BY <1>1 DEF LoadsOK, DisputeTypes
  <2>4. Cardinality(OpenRows(a)') = Cardinality(OpenRows(a)) BY <2>1
  <2> QED BY ONLY <2>2, <2>3, <2>4
<1>14. LimitsOK' BY <1>1 DEF LimitsOK
<1> QED BY <1>7, <1>8, <1>10, <1>11, <1>12, <1>13, <1>14

\* The save of a counter n for arbitrator b leaves the loads covered, and the debts alone.
LoadKept(c, x, b, n) ==
  /\ \A a \in Arbitrators : a # b => Carries(x, a) = Carries(disputeCalls[c], a)
  /\ n + Carries(disputeCalls[c], b) <= disputeCalls[c].load + Carries(x, b)
DebtKept(c, x) == \A d \in 1 .. MaxDisputes : Pays(x, d) = Pays(disputeCalls[c], d)

\* assignArbitrator and releaseArbitrator save a counter: n in place of what was read.
LEMMA CounterInv ==
  ASSUME DisputeInv, NEW c \in DisputeCallers, NEW x \in DisputeCall, Moves(c, x), CallFine(x),
         NEW b \in Arbitrators, NEW n \in Nat, loads' = [loads EXCEPT ![b] = n],
         disputesOverlap' = (disputesOverlap \/ loads[b] # disputeCalls[c].load),
         UNCHANGED <<disputes, paid, owed, appeals, disputeFaults>>,
         b \notin Generalists => n <= MAX_ACTIVE,
         DebtKept(c, x), LoadKept(c, x, b, n)
  PROVE  DisputeInv'
<1> USE DEF DisputeInv
<1>0. disputeCalls[c] \in DisputeCall /\ Len(disputes) \in Nat BY DisputeFacts
<1>1. DisputeTypes'
  <2>1. loads' \in [Arbitrators -> Nat] BY DEF DisputeTypes
  <2>2. disputesOverlap' \in BOOLEAN BY DEF DisputeTypes
  <2> QED BY <2>1, <2>2 DEF DisputeTypes, Moves
<1>2. CallsFine'
  <2>1. CallFine(x)' BY DEF CallFine
  <2> QED BY <1>0, <2>1, OthersFine
<1>3. EnforcedIsResolved' BY DEF EnforcedIsResolved
<1>4. MoneyOK'
  <2>1. disputeFaults' = 0 => disputeFaults = 0 OBVIOUS
  <2>2. ASSUME NEW d \in 1 .. MaxDisputes PROVE 
            /\ paid'[d] + owed[d] + Pays(x, d) <= owed'[d] + paid[d] + Pays(disputeCalls[c], d)
            /\ disputeFaults' = 0 =>
                 paid'[d] + owed[d] + Pays(x, d) = owed'[d] + paid[d] + Pays(disputeCalls[c], d)
    <3>1. Pays(x, d) = Pays(disputeCalls[c], d) /\ Pays(x, d) \in Nat BY DEF Pays, DebtKept
    <3>2. paid[d] \in Nat /\ owed[d] \in Nat /\ paid'[d] = paid[d] /\ owed'[d] = owed[d] BY DEF DisputeTypes
    <3> QED BY ONLY <3>1, <3>2
  <2> QED BY <1>1, <2>1, <2>2, MoneyStep
<1>5. AppealsOK'
  <2>1. ~disputesOverlap' => ~disputesOverlap OBVIOUS
  <2> QED BY <2>1 DEF AppealsOK
<1>6. LoadsOK'
  <2> SUFFICES ASSUME ~disputesOverlap', disputeFaults' = 0, NEW a \in Arbitrators
               PROVE  loads'[a] <= Cardinality(OpenRows(a)') + Cardinality(OnTheWay(a)')
    BY DEF LoadsOK
  <2>1. Cardinality(OpenRows(a)') = Cardinality(OpenRows(a))
    <3>1. OpenRows(a)' = OpenRows(a) BY DEF OpenRows
    <3> QED BY <3>1
  <2>2. Cardinality(OpenRows(a)) \in Nat
    <3>1. IsFiniteSet(1..Len(disputes)) BY <1>0, FS_Interval
    <3> QED BY <3>1, FS_Subset, FS_CardinalityType DEF OpenRows
  <2>3. /\ Cardinality(OnTheWay(a)) \in Nat /\ Cardinality(OnTheWay(a)') \in Nat
        /\ Cardinality(OnTheWay(a)') = Cardinality(OnTheWay(a)) - Carries(disputeCalls[c], a) + Carries(x, a)
    BY OnTheWayChange
  <2>4. loads[a] \in Nat /\ loads'[a] = IF a = b THEN n ELSE loads[a] BY DEF DisputeTypes
  <2>5. loads[a] <= Cardinality(OpenRows(a)) + Cardinality(OnTheWay(a)) BY DEF LoadsOK, DisputeTypes
  <2>6. loads[b] = disputeCalls[c].load OBVIOUS
  <2>7. Carries(disputeCalls[c], a) \in Nat /\ Carries(x, a) \in Nat BY DEF Carries
  <2>8. a # b => Carries(x, a) = Carries(disputeCalls[c], a) BY DEF LoadKept
  <2>9. a = b => n + Carries(disputeCalls[c], a) <= disputeCalls[c].load + Carries(x, a) /\ disputeCalls[c].load = loads[a] BY <2>6 DEF LoadKept
  <2>10. n \in Nat OBVIOUS
  <2> QED BY ONLY <2>1, <2>2, <2>3, <2>4, <2>5, <2>7, <2>8, <2>9, <2>10
<1>7. LimitsOK' 
  <2>1. \A a \in Arbitrators : loads'[a] = IF a = b THEN n ELSE loads[a] BY DEF DisputeTypes
  <2> QED BY <2>1 DEF LimitsOK
<1> QED BY <1>1, <1>2, <1>3, <1>4, <1>5, <1>6, <1>7

\* assignArbitrator, the save of the counter.
LEMMA CountInv == ASSUME DisputeInv, NEW c \in DisputeCallers, D!CountArbitrator(c) PROVE DisputeInv'
<1>0. disputeCalls[c] \in DisputeCall /\ CallFine(disputeCalls[c]) BY DisputeFacts
<1>1. /\ disputeCalls[c].pc = "count" /\ UNCHANGED <<disputes, paid, owed, appeals, disputeFaults>>
      /\ loads' = [loads EXCEPT ![disputeCalls[c].who] = disputeCalls[c].load + 1]
      /\ disputesOverlap' = (disputesOverlap \/ loads[disputeCalls[c].who] # disputeCalls[c].load)
  BY DEF D!CountArbitrator
<1>2. PICK x \in DisputeCall : x = [disputeCalls[c] EXCEPT !.pc = "assigned"] BY <1>0 DEF DisputeCall
<1>3. /\ x.pc = "assigned" /\ x.copy = disputeCalls[c].copy /\ x.id = disputeCalls[c].id /\ x.to = disputeCalls[c].to
      /\ x.who = disputeCalls[c].who
  BY <1>0, <1>2 DEF DisputeCall
<1>4. Moves(c, x) BY <1>2 DEF Moves, D!CountArbitrator, D!Goto, D!Call
<1>5. CallFine(x) BY <1>0, <1>1, <1>3 DEF CallFine
<1>6. PICK b \in Arbitrators, m \in Nat : b = disputeCalls[c].who /\ m = disputeCalls[c].load /\ (b \notin Generalists => m < MAX_ACTIVE)
  BY <1>0, <1>1 DEF CallFine, DisputeCall
<1>7. \A d \in 1 .. MaxDisputes : Pays(x, d) = Pays(disputeCalls[c], d) BY <1>1, <1>3 DEF Pays, WillPay
<1>8. \A a \in Arbitrators : Carries(disputeCalls[c], a) = 0 /\ Carries(x, a) = IF a = b THEN 1 ELSE 0
  BY <1>1, <1>3, <1>6 DEF Carries, CountsFor
<1>9. b \notin Generalists => m + 1 <= MAX_ACTIVE BY <1>6, DisputeAssumption
<1>10. \A a \in Arbitrators : a # b => Carries(x, a) = Carries(disputeCalls[c], a) BY <1>8
<1>11. (m + 1) + Carries(disputeCalls[c], b) <= disputeCalls[c].load + Carries(x, b) BY <1>6, <1>8
<1>13. DebtKept(c, x) /\ LoadKept(c, x, b, m + 1) BY <1>7, <1>10, <1>11 DEF DebtKept, LoadKept
<1>12. m + 1 \in Nat /\ loads' = [loads EXCEPT ![b] = m + 1] /\ disputesOverlap' = (disputesOverlap \/ loads[b] # disputeCalls[c].load)
  BY <1>1, <1>6
<1> QED BY <1>1, <1>4, <1>5, <1>9, <1>12, <1>13, CounterInv

\* releaseArbitrator, the save of the counter.
LEMMA ReleaseSaveInv == ASSUME DisputeInv, NEW c \in DisputeCallers, D!ReleaseSave(c) PROVE DisputeInv'
<1>0. disputeCalls[c] \in DisputeCall /\ CallFine(disputeCalls[c]) BY DisputeFacts
<1>1. /\ disputeCalls[c].pc = "uncount" /\ UNCHANGED <<disputes, paid, owed, appeals, disputeFaults>>
      /\ loads' = [loads EXCEPT ![disputeCalls[c].copy.arbitrator] = disputeCalls[c].load - 1]
      /\ disputesOverlap' = (disputesOverlap \/ loads[disputeCalls[c].copy.arbitrator] # disputeCalls[c].load)
  BY DEF D!ReleaseSave
<1>2. PICK x \in DisputeCall : x = [disputeCalls[c] EXCEPT !.pc = "enforce"] BY <1>0 DEF DisputeCall
<1>3. /\ x.pc = "enforce" /\ x.copy = disputeCalls[c].copy /\ x.id = disputeCalls[c].id /\ x.to = disputeCalls[c].to
      /\ x.type = disputeCalls[c].type
  BY <1>0, <1>2 DEF DisputeCall
<1>4. Moves(c, x) BY <1>2 DEF Moves, D!ReleaseSave, D!Goto, D!Call
<1>5. CallFine(x) BY <1>0, <1>1, <1>3 DEF CallFine
<1>6. PICK b \in Arbitrators, m \in Nat : b = disputeCalls[c].copy.arbitrator /\ m = disputeCalls[c].load /\ m >= 1 /\ (b \notin Generalists => m <= MAX_ACTIVE)
  BY <1>0, <1>1 DEF CallFine, DisputeCall
<1>7. \A d \in 1 .. MaxDisputes : Pays(x, d) = Pays(disputeCalls[c], d) BY <1>1, <1>3 DEF Pays, WillPay
<1>8. \A a \in Arbitrators : Carries(x, a) = 0 /\ Carries(disputeCalls[c], a) = IF a = b THEN 1 ELSE 0
  BY <1>1, <1>3, <1>6 DEF Carries, CountsFor
<1>9. b \notin Generalists => m - 1 <= MAX_ACTIVE BY <1>6, DisputeAssumption
<1>10. \A a \in Arbitrators : a # b => Carries(x, a) = Carries(disputeCalls[c], a) BY <1>8
<1>11. (m - 1) + Carries(disputeCalls[c], b) <= disputeCalls[c].load + Carries(x, b) BY <1>6, <1>8
<1>13. DebtKept(c, x) /\ LoadKept(c, x, b, m - 1) BY <1>7, <1>10, <1>11 DEF DebtKept, LoadKept
<1>12. m - 1 \in Nat /\ loads' = [loads EXCEPT ![b] = m - 1] /\ disputesOverlap' = (disputesOverlap \/ loads[b] # disputeCalls[c].load)
  BY <1>1, <1>6
<1> QED BY <1>1, <1>4, <1>5, <1>9, <1>12, <1>13, CounterInv

\* Every step keeps the invariant.
LEMMA DisputeStep == DisputeInv /\ [D!Next]_(D!vars) => DisputeInv'
<1> SUFFICES ASSUME DisputeInv, [D!Next]_(D!vars) PROVE DisputeInv'
  OBVIOUS
<1>1. CASE D!Next
  <2>1. PICK c \in DisputeCallers :
        \/ \E p \in Parties : D!CreateCheck(c, p)
        \/ D!CreateInsert(c) \/ D!FlagIfSimilar(c)
        \/ D!AssignArbitrator(c) \/ D!CountArbitrator(c) \/ D!SaveAssigned(c)
        \/ \E d \in D!Ids : D!EvidenceRead(c, d) \/ D!AppealRead(c, d)
        \/ \E d \in D!Ids, actor \in Arbitrators \cup {"admin"}, type \in {"refund", "dismissed"} :
              D!ResolveRead(c, d, actor, type)
        \/ D!EvidenceSave(c) \/ D!ResolveSave(c) \/ D!AppealSave(c)
        \/ D!ReleaseRead(c) \/ D!ReleaseSave(c) \/ D!Enforce(c) \/ D!EnforceSave(c)
        \/ D!Fail(c)
    BY <1>1 DEF D!Next
  <2> QED BY <2>1, CreateCheckInv, CreateInsertInv, FlagInv, AssignInv, CountInv, SaveAssignedInv, FindInv,
             EvidenceSaveInv, ResolveSaveInv, AppealSaveInv, ReleaseReadInv, ReleaseSaveInv, EnforceInv,
             EnforceSaveInv, DisputeFailInv
<1>2. CASE UNCHANGED D!vars
  BY <1>2 DEF D!vars, DisputeInv, DisputeTypes, CallsFine, CallFine, EnforcedIsResolved, MoneyOK, Pending, AppealsOK,
     LoadsOK, OpenRows, OnTheWay, LimitsOK
<1> QED BY <1>1, <1>2

\* The initial states satisfy it.
LEMMA DisputeInit == D!Init => DisputeInv
<1> SUFFICES ASSUME D!Init PROVE DisputeInv
  OBVIOUS
<1>0. D!NoCall \in DisputeCall BY DEF D!NoCall, D!New, DisputeCall, D!DisputeStatus
<1>1. DisputeTypes
  <2>1. disputes \in Seq(D!Dispute) /\ Len(disputes) = 0 BY EmptySeq DEF D!Init
  <2>2. loads \in [Arbitrators -> Nat] /\ disputeFaults \in Nat /\ disputesOverlap \in BOOLEAN BY DEF D!Init
  <2>3. paid \in [1 .. MaxDisputes -> Nat] /\ owed = paid /\ appeals = paid BY DEF D!Init
  <2>4. disputeCalls \in [DisputeCallers -> DisputeCall] BY <1>0 DEF D!Init
  <2> QED BY <2>1, <2>2, <2>3, <2>4, DisputeAssumption DEF DisputeTypes
<1>2. \A k \in DisputeCallers : disputeCalls[k] = D!NoCall /\ disputeCalls[k].pc = "idle" BY DEF D!Init, D!NoCall
<1>3. CallsFine BY <1>2 DEF CallsFine, CallFine
<1>4. Len(disputes) = 0 BY DEF D!Init
<1>5. MoneyOK
  <2>1. \A d : Pending(d) = {} BY <1>2 DEF Pending, WillPay
  <2>2. \A d : Cardinality(Pending(d)) = 0 BY <2>1, FS_EmptySet
  <2> QED BY <2>2 DEF MoneyOK, D!Init
<1>6. LoadsOK
  <2>1. \A a : OpenRows(a) = {} /\ OnTheWay(a) = {} BY <1>2, <1>4 DEF OpenRows, OnTheWay, CountsFor
  <2>2. \A a : Cardinality(OpenRows(a)) = 0 /\ Cardinality(OnTheWay(a)) = 0 BY <2>1, FS_EmptySet
  <2> QED BY <2>2 DEF LoadsOK, D!Init
<1>7. EnforcedIsResolved /\ AppealsOK BY <1>4 DEF EnforcedIsResolved, AppealsOK, D!Init
<1>8. LimitsOK BY DisputeAssumption DEF LimitsOK, D!Init
<1> QED BY <1>1, <1>3, <1>5, <1>6, <1>7, <1>8 DEF DisputeInv

\* It implies what the run checks.
LEMMA DisputeHolds == DisputeInv => D!TypeOK /\ D!DecisionsEnforced /\ D!LoadsAreCovered
<1> SUFFICES ASSUME DisputeInv PROVE D!TypeOK /\ D!DecisionsEnforced /\ D!LoadsAreCovered
  OBVIOUS
<1> USE DEF DisputeInv
<1>1. D!TypeOK BY DEF D!TypeOK, DisputeTypes
<1>0. Len(disputes) \in Nat /\ \A d \in D!Ids : d \in 1 .. MaxDisputes
  BY LenProperties, DisputeAssumption DEF D!Ids, DisputeTypes
<1>2. D!DecisionsEnforced
  <2>1. ASSUME NEW d \in D!Ids PROVE paid[d] <= owed[d] /\ (~D!Enforcing(d) /\ disputeFaults = 0 => paid[d] = owed[d])
    <3>1. d \in 1 .. MaxDisputes BY <1>0
    <3>2. paid[d] \in Nat /\ owed[d] \in Nat BY <3>1 DEF DisputeTypes
    <3>3. IsFiniteSet(Pending(d)) BY DisputeAssumption, FS_Subset DEF Pending
    <3>4. Cardinality(Pending(d)) \in Nat BY <3>3, FS_CardinalityType
    <3>5. /\ paid[d] + Cardinality(Pending(d)) <= owed[d]
          /\ disputeFaults = 0 => paid[d] + Cardinality(Pending(d)) = owed[d]
      BY <3>1 DEF MoneyOK
    <3>6. ~D!Enforcing(d) => Cardinality(Pending(d)) = 0
      <4> SUFFICES ASSUME ~D!Enforcing(d) PROVE Cardinality(Pending(d)) = 0
        OBVIOUS
      <4>1. Pending(d) = {} BY DEF D!Enforcing, Pending, WillPay
      <4> QED BY <4>1, FS_EmptySet
    <3> QED BY ONLY <3>2, <3>4, <3>5, <3>6
  <2>2. ~disputesOverlap => \A d \in D!Ids : appeals[d] <= 1 BY <1>0 DEF AppealsOK
  <2> QED BY <2>1, <2>2 DEF D!DecisionsEnforced
<1>3. D!LoadsAreCovered
  <2> SUFFICES ASSUME ~disputesOverlap, disputeFaults = 0, \A c \in DisputeCallers : disputeCalls[c].pc = "idle",
                      NEW a \in Arbitrators
               PROVE  /\ loads[a] <= D!Cardinality({d \in D!Ids : disputes[d].arbitrator = a /\ disputes[d].status # "resolved"})
                      /\ a \notin Generalists => loads[a] <= MAX_ACTIVE
    BY DEF D!LoadsAreCovered
  <2> DEFINE T == {d \in D!Ids : disputes[d].arbitrator = a /\ disputes[d].status # "resolved"}
  <2>1. D!Cardinality(T) = Cardinality(T) BY DEF D!Cardinality, Cardinality
  <2>2. OnTheWay(a) = {} BY DEF OnTheWay, CountsFor
  <2>3. Cardinality(OnTheWay(a)) = 0 BY <2>2, FS_EmptySet
  <2>4. IsFiniteSet(T)
    <3>1. IsFiniteSet(1..Len(disputes)) BY <1>0, FS_Interval
    <3> QED BY <3>1, FS_Subset DEF D!Ids
  <2>5. OpenRows(a) \subseteq T BY DEF OpenRows, Counts, D!Ids
  <2>6. IsFiniteSet(OpenRows(a)) /\ Cardinality(OpenRows(a)) <= Cardinality(T) BY <2>4, <2>5, FS_Subset
  <2>7. Cardinality(OpenRows(a)) \in Nat /\ Cardinality(T) \in Nat BY <2>4, <2>6, FS_CardinalityType
  <2>8. loads[a] \in Nat /\ loads[a] <= Cardinality(OpenRows(a)) + Cardinality(OnTheWay(a)) BY DEF LoadsOK, DisputeTypes
  <2> HIDE DEF T
  <2>9. loads[a] <= Cardinality(T) BY ONLY <2>3, <2>6, <2>7, <2>8
  <2>10. a \notin Generalists => loads[a] <= MAX_ACTIVE BY DEF LimitsOK
  <2> QED BY <2>1, <2>9, <2>10 DEF T
<1> QED BY <1>1, <1>2, <1>3

\* Every decision is enforced once, an appealed one again, and without overlapping saves
\* a counter of an arbitrator stands for open disputes and keeps its limit, for any number of
\* requests, parties, arbitrators and disputes (dispute-resolution).
THEOREM DisputesSound == Spec => []DisputesAreSound
<1>1. DisputeInv => DisputesAreSound BY DisputeHolds DEF DisputesAreSound
<1> QED BY <1>1, DisputePart, DisputeInit, DisputeStep, PTL DEF Spec

-----------------------------------------------------------------------------
(* The plan of a batch *)

\* The plan is one of the parts of a behaviour.
LEMMA PlanPart ==
  /\ Init => G!Init
  /\ [Next]_vars => [G!Next]_(G!vars)
  BY DEF Init, Next, vars, planVars, G!vars

\* A set of numbers that has an element has a least one, ...
LEMMA LeastNat ==
  ASSUME NEW T \in SUBSET Nat, T # {}
  PROVE  \E m \in T : \A k \in T : m <= k
<1> DEFINE Less == OpToRel(<, Nat)
<1>1. IsWellFoundedOn(Less, Nat)
  BY NatLessThanWellFounded
<1>2. \A k, m \in Nat : <<k, m>> \in Less <=> k < m
  BY DEF OpToRel
<1> HIDE DEF Less
<1>3. PICK m \in T : \A k \in T : ~(<<k, m>> \in Less)
  BY <1>1, WFMin, Zenon
<1>4. \A k \in T : ~(k < m)
  BY <1>2, <1>3, Zenon
<1> QED BY <1>4

\* ... and, when it is bounded, a greatest one, which is the Max.
LEMMA MaxIs ==
  ASSUME NEW n \in Nat, NEW T \in SUBSET (0..n), T # {}
  PROVE  G!Max(T) \in T /\ \A k \in T : k <= G!Max(T)
<1> DEFINE Gaps == {i \in 0..n : (n - i) \in T}
<1>1. Gaps \in SUBSET Nat
  OBVIOUS
<1>2. Gaps # {}
  <2>1. PICK k \in T : k \in 0..n
    OBVIOUS
  <2>2. n - k \in Gaps
    BY <2>1
  <2> QED BY <2>2
<1>3. PICK m \in Gaps : \A k \in Gaps : m <= k
  <2> HIDE DEF Gaps
  <2> QED BY <1>1, <1>2, LeastNat
<1>4. \A y \in T : n - m >= y
  <2> TAKE y \in T
  <2>1. y \in 0..n /\ n - y \in Gaps /\ n - y \in 0..n
    OBVIOUS
  <2> QED BY <1>3, <2>1
<1> QED BY <1>3, <1>4 DEF G!Max

\* The layer a dependency counts with.
LEMMA MaxWithZero ==
  ASSUME NEW x \in Int
  PROVE  G!Max({x, 0}) = IF x >= 0 THEN x ELSE 0
  BY DEF G!Max

\* Cardinality is the same inside the instance.
LEMMA SameCardinality ==
  ASSUME NEW S
  PROVE  G!Cardinality(S) = Cardinality(S)
  BY DEF G!Cardinality, Cardinality

\* The entries of a sequence, and that none comes twice.
Entries(s) == {s[j] : j \in 1..Len(s)}
Distinct(s) == \A j, k \in 1..Len(s) : s[j] = s[k] => j = k

\* A sequence without repetitions is as long as the set of its entries is
\* large.
LEMMA DistinctLength ==
  ASSUME NEW S, NEW s \in Seq(S), Distinct(s)
  PROVE  IsFiniteSet(Entries(s)) /\ Cardinality(Entries(s)) = Len(s)
<1>1. Len(s) \in Nat /\ s \in [1..Len(s) -> S]
  BY LenProperties
<1>2. s \in Bijection(1..Len(s), Entries(s))
  <2>1. s \in [1..Len(s) -> Entries(s)]
    BY <1>1 DEF Entries
  <2>2. s \in Injection(1..Len(s), Entries(s))
    BY <2>1 DEF Injection, IsInjective, Distinct
  <2>3. s \in Surjection(1..Len(s), Entries(s))
    BY <2>1 DEF Surjection, Entries
  <2> QED BY <2>2, <2>3 DEF Bijection
<1>3. ExistsBijection(1..Len(s), Entries(s))
  BY <1>2 DEF ExistsBijection
<1>4. IsFiniteSet(1..Len(s)) /\ Cardinality(1..Len(s)) = Len(s)
  BY <1>1, FS_Interval
<1> QED BY <1>1, <1>3, <1>4, FS_CountingElements, FS_Bijection

\* Legs are numbers, and finitely many.
LEMMA LegsFinite ==
  /\ G!Leg \subseteq Nat /\ IsFiniteSet(G!Leg) /\ Cardinality(G!Leg) = NLegs
  /\ \A S \in SUBSET G!Leg : IsFiniteSet(S) /\ Cardinality(S) \in Nat
<1>1. NLegs \in Nat BY PlanAssumption
<1>2. IsFiniteSet(0..(NLegs-1)) /\ Cardinality(0..(NLegs-1)) = NLegs
  BY <1>1, FS_Interval
<1>3. ASSUME NEW S \in SUBSET (0..(NLegs-1)) PROVE IsFiniteSet(S) /\ Cardinality(S) \in Nat
  BY <1>2, FS_Subset, FS_CardinalityType
<1> QED BY <1>1, <1>2, <1>3 DEF G!Leg

\* An ascending sequence lists its set, each leg once.
LEMMA AscendingLists ==
  ASSUME NEW S \in SUBSET G!Leg, NEW s \in G!Ascending(S)
  PROVE  s \in Seq(G!Leg) /\ Distinct(s) /\ Entries(s) = S
<1>1. IsFiniteSet(S) /\ Cardinality(S) \in Nat /\ S \subseteq Nat
  BY LegsFinite
<1> DEFINE n == Cardinality(S)
<1>2. s \in [1..n -> S] /\ \A j, k \in 1..n : j < k => s[j] < s[k]
  BY SameCardinality DEF G!Ascending
<1>3. s \in Seq(S) /\ Len(s) = n
  BY <1>1, <1>2
<1>4. \A j, k \in 1..n : s[j] = s[k] => j = k
  <2> TAKE j, k \in 1..n
  <2> HAVE s[j] = s[k]
  <2>1. s[j] \in Nat /\ s[k] \in Nat BY <1>1, <1>2
  <2>2. ~(s[j] < s[k]) /\ ~(s[k] < s[j]) BY <2>1
  <2>3. ~(j < k) /\ ~(k < j) BY <1>2, <2>2
  <2> QED BY <1>1, <2>3
<1>5. s \in Injection(1..n, S)
  BY <1>2, <1>4 DEF Injection, IsInjective
<1>6. Cardinality(1..n) = n
  BY <1>1, FS_Interval
<1>7. s \in Surjection(1..n, S)
  BY <1>1, <1>5, <1>6, FS_Injection
<1>8. Entries(s) = S
  BY <1>2, <1>3, <1>7 DEF Entries, Surjection
<1> QED BY <1>3, <1>4, <1>8 DEF Distinct

\* An appended entry is added to the others.
LEMMA EntriesOfAppend ==
  ASSUME NEW S, NEW s \in Seq(S), NEW x \in S
  PROVE  /\ Entries(Append(s, x)) = Entries(s) \cup {x}
         /\ Distinct(s) /\ x \notin Entries(s) => Distinct(Append(s, x))
<1>1. /\ Len(s) \in Nat /\ Len(Append(s, x)) = Len(s) + 1
      /\ \A i \in 1..Len(s) : Append(s, x)[i] = s[i]
      /\ Append(s, x)[Len(s) + 1] = x
  BY AppendProperties, LenProperties
<1>2. 1..(Len(s)+1) = 1..Len(s) \cup {Len(s)+1} BY <1>1
<1>3. Entries(Append(s, x)) = Entries(s) \cup {x} BY <1>1, <1>2 DEF Entries
<1>4. ASSUME Distinct(s), x \notin Entries(s) PROVE Distinct(Append(s, x))
  BY <1>1, <1>2, <1>4 DEF Entries, Distinct
<1> QED BY <1>3, <1>4

\* Without its head a sequence has lost that entry only.
LEMMA EntriesOfTail ==
  ASSUME NEW S, NEW s \in Seq(S), s # <<>>
  PROVE  /\ Entries(s) = {Head(s)} \cup Entries(Tail(s))
         /\ Distinct(s) => Distinct(Tail(s)) /\ Head(s) \notin Entries(Tail(s))
<1>1. /\ Tail(s) \in Seq(S) /\ Len(s) \in Nat \ {0} /\ Len(Tail(s)) = Len(s) - 1
      /\ \A i \in 1..Len(Tail(s)) : Tail(s)[i] = s[i+1]
  BY HeadTailProperties, EmptySeq, LenProperties
<1>2. Head(s) = s[1] OBVIOUS
<1>3. \A j \in 1..Len(s) : j = 1 \/ (j - 1 \in 1..Len(Tail(s)) /\ s[j] = Tail(s)[j-1])
  BY <1>1
<1>4. \A j \in 1..Len(Tail(s)) : j + 1 \in 1..Len(s) /\ j + 1 # 1
  BY <1>1
<1>5. Entries(s) \subseteq {Head(s)} \cup Entries(Tail(s))
  BY <1>2, <1>3 DEF Entries
<1>6. {Head(s)} \cup Entries(Tail(s)) \subseteq Entries(s)
  BY <1>1, <1>2, <1>4 DEF Entries
<1>7. ASSUME Distinct(s) PROVE Distinct(Tail(s)) /\ Head(s) \notin Entries(Tail(s))
  BY <1>1, <1>2, <1>4, <1>7 DEF Entries, Distinct
<1> QED BY <1>5, <1>6, <1>7

\* A concatenation has the entries of both.
LEMMA EntriesOfConcat ==
  ASSUME NEW S, NEW s \in Seq(S), NEW t \in Seq(S)
  PROVE  /\ Entries(s \o t) = Entries(s) \cup Entries(t)
         /\ Distinct(s) /\ Distinct(t) /\ Entries(s) \cap Entries(t) = {} => Distinct(s \o t)
<1>1. /\ Len(s) \in Nat /\ Len(t) \in Nat /\ Len(s \o t) = Len(s) + Len(t)
      /\ \A i \in 1 .. Len(s) + Len(t) : (s \o t)[i] = IF i <= Len(s) THEN s[i] ELSE t[i - Len(s)]
  BY ConcatProperties, LenProperties
<1>2. \A i \in 1 .. Len(s) + Len(t) :
         \/ i \in 1..Len(s) /\ (s \o t)[i] = s[i]
         \/ i - Len(s) \in 1..Len(t) /\ (s \o t)[i] = t[i - Len(s)]
  BY <1>1
<1>3. \A i \in 1..Len(s) : i \in 1..(Len(s) + Len(t)) /\ (s \o t)[i] = s[i]
  BY <1>1
<1>4. \A i \in 1..Len(t) : i + Len(s) \in 1..(Len(s) + Len(t)) /\ (s \o t)[i + Len(s)] = t[i]
  BY <1>1
<1>5. Entries(s \o t) \subseteq Entries(s) \cup Entries(t)
  BY <1>1, <1>2 DEF Entries
<1>6. Entries(s) \cup Entries(t) \subseteq Entries(s \o t)
  <2>1. Entries(s) \subseteq Entries(s \o t) BY <1>1, <1>3 DEF Entries
  <2>2. Entries(t) \subseteq Entries(s \o t)
    <3>1. \A i \in 1..Len(t) : t[i] \in Entries(s \o t) BY ONLY <1>1, <1>4 DEF Entries
    <3> QED BY <3>1 DEF Entries
  <2> QED BY <2>1, <2>2
<1>7. ASSUME Distinct(s), Distinct(t), Entries(s) \cap Entries(t) = {} PROVE Distinct(s \o t)
  <2> SUFFICES ASSUME NEW j \in 1..(Len(s) + Len(t)), NEW k \in 1..(Len(s) + Len(t)), (s \o t)[j] = (s \o t)[k]
               PROVE  j = k
    BY <1>1 DEF Distinct
  <2>1. CASE j \in 1..Len(s) /\ k \in 1..Len(s)
    BY <2>1, <1>3, <1>7 DEF Distinct
  <2>2. CASE j \in 1..Len(s) /\ k \notin 1..Len(s)
    <3>1. (s \o t)[j] = s[j] /\ (s \o t)[k] = t[k - Len(s)] /\ k - Len(s) \in 1..Len(t) BY <2>2, <1>2, <1>3
    <3>2. s[j] \in Entries(s) /\ t[k - Len(s)] \in Entries(t) BY ONLY <2>2, <3>1 DEF Entries
    <3> QED BY <3>1, <3>2, <1>7
  <2>3. CASE j \notin 1..Len(s) /\ k \in 1..Len(s)
    <3>1. (s \o t)[k] = s[k] /\ (s \o t)[j] = t[j - Len(s)] /\ j - Len(s) \in 1..Len(t) BY <2>3, <1>2, <1>3
    <3>2. s[k] \in Entries(s) /\ t[j - Len(s)] \in Entries(t) BY ONLY <2>3, <3>1 DEF Entries
    <3> QED BY <3>1, <3>2, <1>7
  <2>4. CASE j \notin 1..Len(s) /\ k \notin 1..Len(s)
    <3>1. j - Len(s) = k - Len(s)
      BY <2>4, <1>2, <1>7 DEF Distinct
    <3> QED BY <3>1, <1>1
  <2> QED BY <2>1, <2>2, <2>3, <2>4
<1> QED BY <1>5, <1>6, <1>7

\* Types.
PlanTypes ==
  /\ calls \in [G!EarlierPairs -> 0..MaxCalls]
  /\ inDegree \in [G!Leg -> Int]
  /\ queue \in Seq(G!Leg) /\ result \in Seq(G!Leg)
  /\ layerMap \in [G!Leg -> Int]
  /\ pc \in {"sort", "layers", "done"}

\* The dependencies of a leg that are not sorted yet.
Left(i) == G!Dependencies(i) \ Entries(result)

\* No leg is queued or sorted twice.
OnceOnly == Distinct(queue) /\ Distinct(result) /\ Entries(queue) \cap Entries(result) = {}

\* A leg has been queued exactly when its degree has come down to 0.
ReadyAreFound == \A i \in G!Leg : inDegree[i] <= 0 <=> i \in Entries(queue) \cup Entries(result)

\* The degree counts the dependencies that are left; where a pair was linked
\* twice it may fall below.
DegreeCounts ==
  \A i \in G!Leg : /\ inDegree[i] <= Cardinality(Left(i))
                   /\ G!Simple => inDegree[i] = Cardinality(Left(i))

\* The leg that comes first depends on none, also when pairs were linked twice.
FirstIsFree ==
  IF result = <<>> THEN \A i \in G!Leg : inDegree[i] = Cardinality(G!Dependencies(i))
  ELSE G!Dependencies(result[1]) = {}

\* In a simple graph a leg comes after its dependencies.
InOrder ==
  G!Simple =>
    \A j \in 1..Len(result) : \A d \in G!Dependencies(result[j]) : \E k \in 1..(j-1) : result[k] = d

\* The sort ends with all legs.
AllSorted == pc # "sort" => Len(result) = NLegs /\ Entries(result) = G!Leg

SortInv == OnceOnly /\ ReadyAreFound /\ DegreeCounts /\ FirstIsFree /\ InOrder /\ AllSorted

\* What the definitions of the graph mean for one leg.
LEMMA PlanFacts ==
  ASSUME PlanTypes, NEW i \in G!Leg
  PROVE  /\ G!Dependencies(i) \subseteq G!Leg
         /\ Entries(queue) \subseteq G!Leg /\ Entries(result) \subseteq G!Leg
         /\ Cardinality(Left(i)) \in Nat /\ IsFiniteSet(Left(i))
         /\ \A d \in G!Dependencies(i) : d < i
         /\ \A d \in G!Leg : /\ G!TimesDependent(d, i) \in Nat
                             /\ G!TimesDependent(d, i) > 0 <=> d \in G!Dependencies(i)
                             /\ G!Simple => G!TimesDependent(d, i) <= 1
<1>1. G!Dependencies(i) \subseteq G!Leg /\ \A d \in G!Dependencies(i) : d < i BY DEF G!Dependencies
<1>2. Entries(queue) \subseteq G!Leg /\ Entries(result) \subseteq G!Leg
  <2>1. queue \in Seq(G!Leg) /\ result \in Seq(G!Leg) BY DEF PlanTypes
  <2>2. \A j \in 1..Len(queue) : queue[j] \in G!Leg BY <2>1, ElementOfSeq
  <2>3. \A j \in 1..Len(result) : result[j] \in G!Leg BY <2>1, ElementOfSeq
  <2> QED BY <2>2, <2>3 DEF Entries
<1>3. Left(i) \in SUBSET G!Leg BY <1>1 DEF Left
<1>4. Cardinality(Left(i)) \in Nat /\ IsFiniteSet(Left(i)) BY <1>3, LegsFinite
<1>5. ASSUME NEW d \in G!Leg
      PROVE  /\ G!TimesDependent(d, i) \in Nat
             /\ G!TimesDependent(d, i) > 0 <=> d \in G!Dependencies(i)
             /\ G!Simple => G!TimesDependent(d, i) <= 1
  <2>1. CASE d < i
    <3>1. <<d, i>> \in G!EarlierPairs BY <2>1 DEF G!EarlierPairs
    <3>2. calls[<<d, i>>] \in 0..MaxCalls BY <3>1 DEF PlanTypes
    <3>3. calls[<<d, i>>] \in Nat BY <3>2, PlanAssumption
    <3>4. G!Simple => calls[<<d, i>>] <= 1 BY <3>1 DEF G!Simple
    <3> QED BY <2>1, <3>3, <3>4 DEF G!TimesDependent, G!Dependencies
  <2>2. CASE ~(d < i)
    BY <2>2 DEF G!TimesDependent, G!Dependencies
  <2> QED BY <2>1, <2>2
<1> QED BY <1>1, <1>2, <1>4, <1>5

\* What a round of the sort does: c moves from the queue to the result, and
\* the legs it has freed are queued.
LEMMA SortRound ==
  ASSUME PlanTypes, SortInv, G!SortNext
  PROVE  /\ PlanTypes' /\ OnceOnly' /\ ReadyAreFound'
         /\ \E c \in G!Leg :
              /\ c \in Entries(queue) /\ c \notin Entries(result)
              /\ inDegree[c] <= 0
              /\ result' = Append(result, c)
              /\ inDegree' = [i \in G!Leg |-> inDegree[i] - G!TimesDependent(c, i)]
<1>1. queue # <<>> /\ pc = "sort" /\ UNCHANGED <<calls, layerMap, pc>> BY DEF G!SortNext
<1>2. PICK c : c = Head(queue) OBVIOUS
<1>3. PICK reached \in G!Ascending(G!Reached(c)) : queue' = Tail(queue) \o reached
  BY <1>2 DEF G!SortNext
<1>4. /\ result' = Append(result, c)
      /\ inDegree' = [i \in G!Leg |-> inDegree[i] - G!TimesDependent(c, i)]
  BY <1>2 DEF G!SortNext
<1>5. queue \in Seq(G!Leg) /\ result \in Seq(G!Leg) BY DEF PlanTypes
<1>6. c \in G!Leg /\ Tail(queue) \in Seq(G!Leg) BY <1>1, <1>2, <1>5, HeadTailProperties
<1>7. /\ Entries(queue) = {c} \cup Entries(Tail(queue))
      /\ Distinct(Tail(queue)) /\ c \notin Entries(Tail(queue))
  BY <1>1, <1>2, <1>5, EntriesOfTail DEF SortInv, OnceOnly
<1>8. G!Reached(c) \in SUBSET G!Leg BY DEF G!Reached
<1>9. reached \in Seq(G!Leg) /\ Distinct(reached) /\ Entries(reached) = G!Reached(c)
  BY <1>3, <1>8, AscendingLists
<1>10. /\ Entries(queue') = Entries(Tail(queue)) \cup G!Reached(c)
       /\ Entries(Tail(queue)) \cap G!Reached(c) = {} => Distinct(queue')
  <2>1. PICK t \in Seq(G!Leg) : t = Tail(queue) BY <1>6
  <2>2. PICK u \in Seq(G!Leg) : u = reached BY <1>9
  <2>3. Distinct(t) /\ Distinct(u) BY <1>7, <1>9, <2>1, <2>2
  <2>4. Entries(t \o u) = Entries(t) \cup Entries(u)
    BY ONLY t \in Seq(G!Leg), u \in Seq(G!Leg), EntriesOfConcat
  <2>5. Entries(t) \cap Entries(u) = {} => Distinct(t \o u)
    BY ONLY t \in Seq(G!Leg), u \in Seq(G!Leg), <2>3, EntriesOfConcat
  <2> QED BY <1>3, <1>9, <2>1, <2>2, <2>4, <2>5
<1>11. Entries(result') = Entries(result) \cup {c}
  BY <1>4, <1>5, <1>6, EntriesOfAppend
<1>12. c \notin Entries(result) /\ inDegree[c] <= 0
  BY <1>6, <1>7 DEF SortInv, OnceOnly, ReadyAreFound
<1>13. G!Reached(c) \cap (Entries(queue) \cup Entries(result)) = {}
  <2> SUFFICES ASSUME NEW i \in G!Reached(c), i \in Entries(queue) \cup Entries(result) PROVE FALSE
    OBVIOUS
  <2>1. i \in G!Leg /\ inDegree[i] \in Int /\ inDegree[i] > 0 BY <1>8 DEF G!Reached, PlanTypes
  <2>2. inDegree[i] <= 0 BY <2>1 DEF SortInv, ReadyAreFound
  <2> QED BY <2>1, <2>2
<1>14. Distinct(queue')
  BY <1>7, <1>10, <1>13
<1>15. Distinct(result')
  BY <1>4, <1>5, <1>6, <1>12, EntriesOfAppend DEF SortInv, OnceOnly
<1>16. Entries(queue') \cap Entries(result') = {}
  BY <1>7, <1>10, <1>11, <1>12, <1>13 DEF SortInv, OnceOnly
<1>17. PlanTypes'
  <2>1. queue' \in Seq(G!Leg) BY <1>3, <1>6, <1>9, ConcatProperties
  <2>2. result' \in Seq(G!Leg) BY <1>4, <1>5, <1>6, AppendProperties
  <2>3. inDegree' \in [G!Leg -> Int]
    <3>1. \A i \in G!Leg : inDegree[i] - G!TimesDependent(c, i) \in Int
      <4> TAKE i \in G!Leg
      <4>1. inDegree[i] \in Int /\ G!TimesDependent(c, i) \in Nat BY <1>6, PlanFacts DEF PlanTypes
      <4> QED BY ONLY <4>1
    <3> QED BY <1>4, <3>1
  <2> QED BY <1>1, <2>1, <2>2, <2>3 DEF PlanTypes
<1>18. ReadyAreFound'
  <2> SUFFICES ASSUME NEW i \in G!Leg
               PROVE  inDegree'[i] <= 0 <=> i \in Entries(queue') \cup Entries(result')
    BY DEF ReadyAreFound
  <2>1. inDegree[i] \in Int /\ G!TimesDependent(c, i) \in Nat /\ inDegree'[i] = inDegree[i] - G!TimesDependent(c, i)
    BY <1>4, <1>6, PlanFacts DEF PlanTypes
  <2>2. i \in Entries(queue') \cup Entries(result') <=> i \in Entries(queue) \cup Entries(result) \/ i \in G!Reached(c)
    BY <1>7, <1>10, <1>11
  <2>3. inDegree[i] <= 0 <=> i \in Entries(queue) \cup Entries(result)
    BY DEF SortInv, ReadyAreFound
  <2>4. i \in G!Reached(c) <=> G!TimesDependent(c, i) > 0 /\ inDegree[i] > 0 /\ inDegree[i] - G!TimesDependent(c, i) <= 0
    BY DEF G!Reached
  <2>5. inDegree'[i] <= 0 <=> inDegree[i] <= 0 \/ (G!TimesDependent(c, i) > 0 /\ inDegree[i] > 0 /\ inDegree[i] - G!TimesDependent(c, i) <= 0)
    BY ONLY <2>1
  <2> QED BY <2>2, <2>3, <2>4, <2>5
<1> QED BY <1>4, <1>6, <1>7, <1>12, <1>14, <1>15, <1>16, <1>17, <1>18 DEF OnceOnly

\* It keeps what the degrees count.
LEMMA RoundCounts ==
  ASSUME PlanTypes, SortInv, G!SortNext
  PROVE  DegreeCounts' /\ FirstIsFree' /\ InOrder'
<1>1. PICK c \in G!Leg :
         /\ c \in Entries(queue) /\ c \notin Entries(result)
         /\ inDegree[c] <= 0
         /\ result' = Append(result, c)
         /\ inDegree' = [i \in G!Leg |-> inDegree[i] - G!TimesDependent(c, i)]
  BY SortRound
<1>2. result \in Seq(G!Leg) /\ Len(result) \in Nat BY LenProperties DEF PlanTypes
<1>3. /\ Entries(result') = Entries(result) \cup {c}
      /\ Len(result') = Len(result) + 1
      /\ \A j \in 1..Len(result) : result'[j] = result[j]
      /\ result'[Len(result) + 1] = c
  BY <1>1, <1>2, EntriesOfAppend, AppendProperties
<1>4. \A i \in G!Leg : G!Dependencies(i)' = G!Dependencies(i)
  BY DEF G!SortNext, G!Dependencies
<1>5. G!Simple' = G!Simple BY DEF G!SortNext, G!Simple
<1>9. calls' = calls BY DEF G!SortNext
<1>6. DegreeCounts'
  <2> SUFFICES ASSUME NEW i \in G!Leg
               PROVE  /\ inDegree'[i] <= Cardinality(Left(i)')
                      /\ G!Simple => inDegree'[i] = Cardinality(Left(i)')
    BY <1>5 DEF DegreeCounts
  <2>1. Left(i)' = Left(i) \ {c} BY <1>3, <1>4 DEF Left
  <2>2. c \in Left(i) <=> c \in G!Dependencies(i) BY <1>1 DEF Left
  <2>3. Cardinality(Left(i)) \in Nat /\ IsFiniteSet(Left(i)) BY PlanFacts
  <2>4. Cardinality(Left(i)') = IF c \in Left(i) THEN Cardinality(Left(i)) - 1 ELSE Cardinality(Left(i))
    BY <2>1, <2>3, FS_RemoveElement
  <2>5. /\ G!TimesDependent(c, i) \in Nat
        /\ G!TimesDependent(c, i) > 0 <=> c \in G!Dependencies(i)
        /\ G!Simple => G!TimesDependent(c, i) <= 1
    BY PlanFacts
  <2>6. inDegree[i] \in Int /\ inDegree'[i] = inDegree[i] - G!TimesDependent(c, i) BY <1>1 DEF PlanTypes
  <2>7. inDegree[i] <= Cardinality(Left(i)) /\ (G!Simple => inDegree[i] = Cardinality(Left(i)))
    BY DEF SortInv, DegreeCounts
  <2> QED BY ONLY <2>2, <2>3, <2>4, <2>5, <2>6, <2>7
<1>7. FirstIsFree'
  <2>0. result' # <<>> BY <1>1, <1>2, AppendProperties
  <2>1. CASE result = <<>>
    <3>1. result'[1] = c BY <1>3, <2>1
    <3>2. inDegree[c] = Cardinality(G!Dependencies(c)) BY <2>1 DEF SortInv, FirstIsFree
    <3>3. G!Dependencies(c) \in SUBSET G!Leg BY PlanFacts
    <3>4. IsFiniteSet(G!Dependencies(c)) /\ Cardinality(G!Dependencies(c)) \in Nat BY <3>3, LegsFinite
    <3>5. Cardinality(G!Dependencies(c)) = 0 BY <1>1, <3>2, <3>4
    <3>6. G!Dependencies(c) = {} BY <3>4, <3>5, FS_EmptySet
    <3>7. G!Dependencies(result[1])' = {} BY <1>9, <3>1, <3>6 DEF G!Dependencies
    <3> QED BY <2>0, <3>7 DEF FirstIsFree
  <2>2. CASE result # <<>>
    <3>1. Len(result) \in Nat \ {0} BY <1>2, <2>2, EmptySeq
    <3>2. result'[1] = result[1] /\ result[1] \in G!Leg BY <1>2, <1>3, <3>1, ElementOfSeq
    <3>3. G!Dependencies(result[1]) = {} BY <2>2 DEF SortInv, FirstIsFree
    <3>4. G!Dependencies(result[1])' = {} BY <1>9, <3>2, <3>3 DEF G!Dependencies
    <3> QED BY <2>0, <3>4 DEF FirstIsFree
  <2> QED BY <2>1, <2>2
<1>8. InOrder'
  <2> SUFFICES ASSUME G!Simple, NEW j \in 1..(Len(result) + 1), NEW d \in G!Dependencies(result[j])'
               PROVE  \E k \in 1..(j-1) : result'[k] = d
    BY <1>3, <1>5 DEF InOrder
  <2>1. CASE j \in 1..Len(result)
    <3>1. result'[j] = result[j] /\ result[j] \in G!Leg BY <1>2, <1>3, <2>1, ElementOfSeq
    <3>2. d \in G!Dependencies(result[j]) BY <3>1, <1>9 DEF G!Dependencies
    <3>3. PICK k \in 1..(j-1) : result[k] = d BY <2>1, <3>2 DEF SortInv, InOrder
    <3>4. k \in 1..Len(result) BY ONLY <1>2, <2>1, <3>3
    <3> QED BY <1>3, <3>3, <3>4
  <2>2. CASE j = Len(result) + 1
    <3>1. d \in G!Dependencies(c) BY <1>3, <1>9, <2>2 DEF G!Dependencies
    <3>2. inDegree[c] = Cardinality(Left(c)) BY DEF SortInv, DegreeCounts
    <3>3. Cardinality(Left(c)) \in Nat /\ IsFiniteSet(Left(c)) BY PlanFacts
    <3>4. Cardinality(Left(c)) = 0 BY <1>1, <3>2, <3>3
    <3>5. Left(c) = {} BY <3>3, <3>4, FS_EmptySet
    <3>6. d \in Entries(result) BY <3>1, <3>5 DEF Left
    <3>7. PICK k \in 1..Len(result) : result[k] = d BY <3>6 DEF Entries
    <3>8. k \in 1..(j-1) BY ONLY <1>2, <2>2, <3>7
    <3> QED BY <1>3, <3>7, <3>8
  <2>3. j \in 1..Len(result) \/ j = Len(result) + 1 BY ONLY <1>2
  <2> QED BY <2>1, <2>2, <2>3
<1> QED BY <1>6, <1>7, <1>8

\* When the queue is empty all legs are sorted: the least of the others would
\* have no dependency left and would have been queued.
LEMMA EmptyQueueMeansSorted ==
  ASSUME PlanTypes, SortInv, queue = <<>>
  PROVE  Entries(result) = G!Leg /\ Len(result) = NLegs
<1>1. Entries(queue) = {} BY DEF Entries
<1>2. Entries(result) \subseteq G!Leg
  <2>1. result \in Seq(G!Leg) BY DEF PlanTypes
  <2>2. \A j \in 1..Len(result) : result[j] \in G!Leg BY <2>1, ElementOfSeq
  <2> QED BY <2>2 DEF Entries
<1>3. ASSUME G!Leg \ Entries(result) # {} PROVE FALSE
  <2> DEFINE Rest == G!Leg \ Entries(result)
  <2>1. Rest \in SUBSET Nat /\ Rest # {} BY <1>3, LegsFinite
  <2>2. PICK i \in Rest : \A k \in Rest : i <= k
    <3> HIDE DEF Rest
    <3> QED BY <2>1, LeastNat
  <2>3. i \in G!Leg /\ i \in Nat BY <2>1
  <2>4. Left(i) = {}
    <3> SUFFICES ASSUME NEW d \in Left(i) PROVE FALSE OBVIOUS
    <3>1. d \in G!Leg /\ d < i /\ d \notin Entries(result) BY <2>3, PlanFacts DEF Left
    <3>2. i <= d BY <2>2, <3>1
    <3>3. d \in Nat BY <3>1, LegsFinite
    <3> QED BY ONLY <2>3, <3>1, <3>2, <3>3
  <2>5. Cardinality(Left(i)) = 0 BY <2>4, FS_EmptySet
  <2>6. inDegree[i] <= 0 BY <2>3, <2>5 DEF SortInv, DegreeCounts
  <2>7. i \in Entries(result) BY <1>1, <2>3, <2>6 DEF SortInv, ReadyAreFound
  <2> QED BY <2>7
<1>4. Entries(result) = G!Leg BY <1>2, <1>3
<1>5. Cardinality(Entries(result)) = Len(result)
  BY DistinctLength DEF PlanTypes, SortInv, OnceOnly
<1> QED BY <1>4, <1>5, LegsFinite

\* The sort is right.
LEMMA SortInitial ==
  ASSUME G!Init
  PROVE  PlanTypes /\ SortInv
<1>1. /\ calls \in [G!EarlierPairs -> 0..MaxCalls]
      /\ inDegree = [i \in G!Leg |-> G!Cardinality(G!Dependencies(i))]
      /\ queue \in G!Ascending({i \in G!Leg : G!Dependencies(i) = {}})
      /\ result = <<>> /\ layerMap = [i \in G!Leg |-> -1] /\ pc = "sort"
  BY DEF G!Init
<1> DEFINE Free == {i \in G!Leg : G!Dependencies(i) = {}}
<1>2. Free \in SUBSET G!Leg OBVIOUS
<1>3. queue \in Seq(G!Leg) /\ Distinct(queue) /\ Entries(queue) = Free
  <2> HIDE DEF Free
  <2>1. queue \in G!Ascending(Free) BY <1>1 DEF Free
  <2> QED BY <1>2, <2>1, AscendingLists
<1>4. ASSUME NEW i \in G!Leg
      PROVE /\ inDegree[i] = Cardinality(G!Dependencies(i)) /\ inDegree[i] \in Nat
            /\ inDegree[i] <= 0 <=> G!Dependencies(i) = {}
  <2>1. inDegree[i] = Cardinality(G!Dependencies(i)) BY <1>1, SameCardinality
  <2>2. G!Dependencies(i) \in SUBSET G!Leg BY DEF G!Dependencies
  <2>3. IsFiniteSet(G!Dependencies(i)) /\ Cardinality(G!Dependencies(i)) \in Nat BY <2>2, LegsFinite
  <2>4. Cardinality(G!Dependencies(i)) = 0 <=> G!Dependencies(i) = {} BY <2>3, FS_EmptySet
  <2> QED BY <2>1, <2>3, <2>4
<1>5. Entries(result) = {} /\ Distinct(result) /\ Len(result) = 0 BY <1>1 DEF Entries, Distinct
<1>6. PlanTypes
  <2>1. inDegree \in [G!Leg -> Int] BY <1>1, <1>4
  <2>2. layerMap \in [G!Leg -> Int] BY <1>1
  <2>3. result \in Seq(G!Leg) BY <1>1, EmptySeq
  <2> QED BY <1>1, <1>3, <2>1, <2>2, <2>3 DEF PlanTypes
<1>7. OnceOnly BY <1>3, <1>5 DEF OnceOnly
<1>8. ReadyAreFound BY <1>3, <1>4, <1>5 DEF ReadyAreFound
<1>9. DegreeCounts
  <2>1. \A i \in G!Leg : Left(i) = G!Dependencies(i) BY <1>5 DEF Left
  <2> QED BY <1>4, <2>1 DEF DegreeCounts
<1>10. FirstIsFree BY <1>1, <1>4 DEF FirstIsFree
<1>11. InOrder /\ AllSorted BY <1>1, <1>5 DEF InOrder, AllSorted
<1> QED BY <1>6, <1>7, <1>8, <1>9, <1>10, <1>11 DEF SortInv

\* What the sort has made stays.
LEMMA SortKept ==
  ASSUME SortInv, UNCHANGED <<calls, inDegree, queue, result>>,
         pc' # "sort" => Len(result) = NLegs /\ Entries(result) = G!Leg
  PROVE  SortInv'
<1>1. \A i \in G!Leg : Left(i)' = Left(i) BY DEF Left, Entries, G!Dependencies
<1>2. G!Simple' = G!Simple BY DEF G!Simple
<1>3. OnceOnly' /\ ReadyAreFound' BY DEF SortInv, OnceOnly, ReadyAreFound, Distinct, Entries
<1>4. DegreeCounts' BY <1>1, <1>2 DEF SortInv, DegreeCounts
<1>5. FirstIsFree' BY DEF SortInv, FirstIsFree, G!Dependencies
<1>6. InOrder' BY <1>2 DEF SortInv, InOrder, G!Dependencies
<1>7. AllSorted' BY DEF AllSorted, Entries
<1> QED BY <1>3, <1>4, <1>5, <1>6, <1>7 DEF SortInv

\* How many legs have their layer.
Layered == Cardinality(G!Mapped)

\* A leg is in the layer after the deepest of its dependencies.
Tight(i) ==
  /\ \A d \in G!Dependencies(i) : layerMap[d] >= 0 /\ layerMap[d] < layerMap[i]
  /\ layerMap[i] > 0 => \E d \in G!Dependencies(i) : layerMap[d] = layerMap[i] - 1

\* The legs get their layers in the order of the sort, the j-th of them one
\* of the first j layers.
LayersFit ==
  /\ pc = "sort" => \A i \in G!Leg : layerMap[i] = -1
  /\ Layered \in 0..Len(result) /\ (pc = "done" => Layered = Len(result))
  /\ \A j \in 1..Len(result) :
       IF j <= Layered THEN layerMap[result[j]] \in 0..(j - 1) ELSE layerMap[result[j]] = -1

\* In a simple graph they are tight.
PlacedAreTight == G!Simple => \A j \in 1..Layered : Tight(result[j])

\* The inductive invariant of the plan.
PlanInv == PlanTypes /\ SortInv /\ LayersFit /\ PlacedAreTight

\* What the layer of a leg is, given those of its dependencies.
LEMMA LayerBound ==
  ASSUME PlanTypes, NEW i \in G!Leg, NEW m \in Nat, G!Dependencies(i) # {} => m >= 1,
         \A d \in G!Dependencies(i) : layerMap[d] <= m - 1
  PROVE  /\ G!LayerOf(i) \in 0..m
         /\ \A d \in G!Dependencies(i) : layerMap[d] < G!LayerOf(i)
         /\ G!LayerOf(i) > 0 /\ (\A d \in G!Dependencies(i) : layerMap[d] >= 0)
              => \E d \in G!Dependencies(i) : layerMap[d] = G!LayerOf(i) - 1
<1>1. CASE G!Dependencies(i) = {}
  BY <1>1 DEF G!LayerOf
<1>2. CASE G!Dependencies(i) # {}
  <2> DEFINE Depths == {G!Max({layerMap[d], 0}) : d \in G!Dependencies(i)}
  <2>1. \A d \in G!Dependencies(i) : layerMap[d] \in Int BY PlanFacts DEF PlanTypes
  <2>2. \A d \in G!Dependencies(i) : G!Max({layerMap[d], 0}) = IF layerMap[d] >= 0 THEN layerMap[d] ELSE 0
    BY <2>1, MaxWithZero
  <2>3. m - 1 \in Nat BY <1>2
  <2>4. \A d \in G!Dependencies(i) : G!Max({layerMap[d], 0}) \in 0..(m-1)
    BY <2>1, <2>2, <2>3
  <2>5. Depths \in SUBSET (0..(m-1)) /\ Depths # {} BY <1>2, <2>4
  <2>6. G!Max(Depths) \in Depths /\ \A k \in Depths : k <= G!Max(Depths)
    <3> HIDE DEF Depths
    <3> QED BY <2>3, <2>5, MaxIs
  <2>7. PICK x : x = G!Max(Depths) OBVIOUS
  <2>8. x \in 0..(m-1) BY <2>5, <2>6, <2>7
  <2>9. G!LayerOf(i) = 1 + x BY <1>2, <2>7 DEF G!LayerOf
  <2>10. ASSUME NEW d \in G!Dependencies(i) PROVE layerMap[d] < 1 + x
    <3>1. G!Max({layerMap[d], 0}) <= x BY <2>6, <2>7
    <3>2. layerMap[d] \in Int /\ G!Max({layerMap[d], 0}) = IF layerMap[d] >= 0 THEN layerMap[d] ELSE 0 BY <2>1, <2>2
    <3>3. x \in Int BY <2>3, <2>8
    <3> QED BY ONLY <3>1, <3>2, <3>3
  <2>11. PICK d \in G!Dependencies(i) : x = G!Max({layerMap[d], 0}) BY <2>6, <2>7
  <2>12. layerMap[d] >= 0 => x = layerMap[d] BY <2>2, <2>11
  <2>13. G!LayerOf(i) \in 0..m BY ONLY <2>3, <2>8, <2>9
  <2>14. ASSUME \A e \in G!Dependencies(i) : layerMap[e] >= 0 PROVE layerMap[d] = G!LayerOf(i) - 1
    <3>1. x = layerMap[d] /\ x \in Int BY <2>3, <2>8, <2>12, <2>14
    <3> QED BY ONLY <2>9, <3>1
  <2> QED BY <2>9, <2>10, <2>13, <2>14
<1> QED BY <1>1, <1>2

\* A round of the loop places the next leg.
LEMMA BuildRound ==
  ASSUME PlanInv, G!BuildLayer
  PROVE  PlanInv'
<1>1. /\ pc = "layers" /\ UNCHANGED <<calls, inDegree, queue, result, pc>>
      /\ Layered < Len(result)
      /\ layerMap' = [layerMap EXCEPT ![result[Layered + 1]] = G!LayerOf(result[Layered + 1])]
  BY SameCardinality DEF G!BuildLayer, Layered
<1>2. /\ PlanTypes /\ SortInv /\ LayersFit /\ PlacedAreTight BY DEF PlanInv
<1>3. Len(result) = NLegs /\ Entries(result) = G!Leg BY <1>1, <1>2 DEF SortInv, AllSorted
<1>4. result \in Seq(G!Leg) /\ Len(result) \in Nat BY <1>2, LenProperties DEF PlanTypes
<1>5. Layered \in Nat BY <1>2, <1>4 DEF LayersFit
<1>6. PICK m \in Nat : m = Layered BY <1>5
<1>7. m + 1 \in 1..Len(result) BY ONLY <1>1, <1>4, <1>6
<1>8. PICK i \in G!Leg : i = result[m + 1] BY <1>4, <1>7, ElementOfSeq
<1>9. layerMap' = [layerMap EXCEPT ![i] = G!LayerOf(i)] BY <1>1, <1>6, <1>8
<1>10. \A j, k \in 1..Len(result) : result[j] = result[k] => j = k
  BY <1>2 DEF SortInv, OnceOnly, Distinct
<1>11. \A j \in 1..Len(result) : result[j] \in G!Leg BY <1>4, ElementOfSeq
<1>12. layerMap[i] = -1
  <2>1. ~(m + 1 <= m) OBVIOUS
  <2> QED BY <1>2, <1>6, <1>7, <1>8, <2>1 DEF LayersFit
<1>13. G!Dependencies(i) # {} => m >= 1
  <2> SUFFICES ASSUME m = 0 PROVE G!Dependencies(i) = {} BY <1>6
  <2>1. result # <<>> BY <1>4, <1>7
  <2> QED BY <1>2, <1>8, <2>1 DEF SortInv, FirstIsFree
<1>14. ASSUME NEW d \in G!Dependencies(i) PROVE layerMap[d] <= m - 1
  <2>1. d \in G!Leg /\ m >= 1 BY <1>2, <1>13, <1>14, PlanFacts
  <2>2. PICK k \in 1..Len(result) : result[k] = d BY <1>3, <2>1 DEF Entries
  <2>3. IF k <= m THEN layerMap[d] \in 0..(k - 1) ELSE layerMap[d] = -1 BY <1>2, <1>6, <2>2 DEF LayersFit
  <2> QED BY ONLY <1>4, <2>1, <2>2, <2>3
<1>15. /\ G!LayerOf(i) \in 0..m
       /\ \A d \in G!Dependencies(i) : layerMap[d] < G!LayerOf(i)
       /\ G!LayerOf(i) > 0 /\ (\A d \in G!Dependencies(i) : layerMap[d] >= 0)
            => \E d \in G!Dependencies(i) : layerMap[d] = G!LayerOf(i) - 1
  BY <1>2, <1>13, <1>14, LayerBound
<1>16. PICK x \in 0..m : x = G!LayerOf(i) BY <1>15
<1>17. /\ layerMap \in [G!Leg -> Int] /\ layerMap'[i] = x
       /\ \A k \in G!Leg : k # i => layerMap'[k] = layerMap[k]
  BY <1>2, <1>9, <1>16 DEF PlanTypes
<1>18. Layered' = m + 1
  <2>1. x >= 0 BY <1>16
  <2>2. G!Mapped' = G!Mapped \cup {i} BY <1>17, <2>1 DEF G!Mapped
  <2>3. i \notin G!Mapped BY <1>12 DEF G!Mapped
  <2>4. IsFiniteSet(G!Mapped) BY LegsFinite DEF G!Mapped
  <2>5. Cardinality(G!Mapped') = Cardinality(G!Mapped) + 1 BY <2>2, <2>3, <2>4, FS_AddElement
  <2> QED BY <1>6, <2>5 DEF Layered
<1>19. PlanTypes'
  <2>1. layerMap' \in [G!Leg -> Int] BY <1>2, <1>9, <1>16 DEF PlanTypes
  <2> QED BY <1>1, <1>2, <2>1 DEF PlanTypes
<1>20. SortInv' BY <1>1, <1>2, <1>3, SortKept
<1>21. LayersFit'
  <2>1. ASSUME NEW j \in 1..Len(result)
        PROVE  IF j <= m + 1 THEN layerMap'[result[j]] \in 0..(j - 1) ELSE layerMap'[result[j]] = -1
    <3>1. IF j <= m THEN layerMap[result[j]] \in 0..(j - 1) ELSE layerMap[result[j]] = -1
      BY <1>2, <1>6 DEF LayersFit
    <3>2. CASE j = m + 1
      BY <1>8, <1>16, <1>17, <3>2
    <3>3. CASE j # m + 1
      <4>1. layerMap'[result[j]] = layerMap[result[j]] BY <1>7, <1>8, <1>10, <1>11, <1>17, <3>3
      <4>2. j <= m + 1 <=> j <= m BY ONLY <1>4, <3>3
      <4> QED BY <3>1, <4>1, <4>2
    <3> QED BY <3>2, <3>3
  <2>2. m + 1 \in 0..Len(result) BY ONLY <1>4, <1>7
  <2> QED BY <1>1, <1>18, <2>1, <2>2 DEF LayersFit
<1>22. PlacedAreTight'
  <2> SUFFICES ASSUME G!Simple, NEW j \in 1..(m + 1) PROVE Tight(result[j])'
    BY <1>1, <1>18 DEF PlacedAreTight, G!Simple
  <2>0. j \in 1..Len(result) BY ONLY <1>4, <1>7
  <2>1. PICK y \in G!Leg : y = result[j] BY <1>11, <2>0
  <2>2. \A d \in G!Dependencies(y) : \E k \in 1..(j-1) : result[k] = d
    BY <1>2, <2>0, <2>1 DEF SortInv, InOrder
  <2>3. ASSUME NEW d \in G!Dependencies(y)
        PROVE  layerMap[d] >= 0 /\ layerMap'[d] = layerMap[d]
    <3>1. PICK k \in 1..(j-1) : result[k] = d BY <2>2
    <3>2. k \in 1..Len(result) /\ k <= m /\ k # m + 1 /\ k - 1 \in Nat BY ONLY <1>4, <2>0, <3>1
    <3>3. layerMap[d] \in 0..(k-1) BY <1>2, <1>6, <3>1, <3>2 DEF LayersFit
    <3>4. d # i BY <1>7, <1>8, <1>10, <3>1, <3>2
    <3>5. d \in G!Leg BY <1>11, <3>1, <3>2
    <3> QED BY <1>17, <3>2, <3>3, <3>4, <3>5
  <2>4. /\ \A d \in G!Dependencies(y) : layerMap[d] >= 0 /\ layerMap[d] < layerMap'[y]
        /\ layerMap'[y] > 0 => \E d \in G!Dependencies(y) : layerMap[d] = layerMap'[y] - 1
    <3>1. CASE j = m + 1
      <4>1. y = i /\ layerMap'[y] = G!LayerOf(i) BY <1>8, <1>16, <1>17, <2>1, <3>1
      <4> QED BY <1>15, <2>3, <4>1
    <3>2. CASE j # m + 1
      <4>1. j \in 1..m BY ONLY <1>4, <3>2
      <4>2. y # i BY <1>7, <1>8, <1>10, <2>0, <2>1, <3>2
      <4>3. layerMap'[y] = layerMap[y] BY <1>17, <4>2
      <4>4. Tight(y) BY <1>2, <1>6, <2>1, <4>1 DEF PlacedAreTight
      <4> QED BY <4>3, <4>4 DEF Tight
    <3> QED BY <3>1, <3>2
  <2>5. G!Dependencies(result[j])' = G!Dependencies(y) BY <1>1, <2>1 DEF G!Dependencies
  <2>6. result'[j] = y BY <1>1, <2>1
  <2> QED BY <2>3, <2>4, <2>5, <2>6 DEF Tight
<1> QED BY <1>19, <1>20, <1>21, <1>22 DEF PlanInv

\* Before the layers are built none is.
LEMMA NothingPlaced ==
  ASSUME \A i \in G!Leg : layerMap[i] = -1
  PROVE  Layered = 0
<1>1. G!Mapped = {} BY DEF G!Mapped
<1> QED BY <1>1, FS_EmptySet DEF Layered

\* The invariant holds at first,
LEMMA PlanInitial ==
  ASSUME G!Init
  PROVE  PlanInv
<1>1. PlanTypes /\ SortInv BY SortInitial
<1>2. result = <<>> /\ pc = "sort" /\ \A i \in G!Leg : layerMap[i] = -1 BY DEF G!Init
<1>3. Layered = 0 BY <1>2, NothingPlaced
<1>4. Len(result) = 0 BY <1>2
<1>5. LayersFit BY <1>2, <1>3, <1>4 DEF LayersFit
<1>6. PlacedAreTight BY <1>3 DEF PlacedAreTight
<1> QED BY <1>1, <1>5, <1>6 DEF PlanInv

\* is kept by every step,
LEMMA PlanStep ==
  ASSUME PlanInv, [G!Next]_(G!vars)
  PROVE  PlanInv'
<1> USE DEF PlanInv
<1>0. result \in Seq(G!Leg) /\ Len(result) \in Nat BY LenProperties DEF PlanTypes
<1>1. CASE G!SortNext
  <2>1. PlanTypes' /\ OnceOnly' /\ ReadyAreFound' BY <1>1, SortRound
  <2>2. DegreeCounts' /\ FirstIsFree' /\ InOrder' BY <1>1, RoundCounts
  <2>3. pc = "sort" /\ UNCHANGED <<layerMap, pc>> BY <1>1 DEF G!SortNext
  <2>4. SortInv' BY <2>1, <2>2, <2>3 DEF SortInv, AllSorted
  <2>5. \A i \in G!Leg : layerMap'[i] = -1 BY <2>3 DEF LayersFit
  <2>6. Layered' = 0
    <3>1. G!Mapped' = {} BY <2>5 DEF G!Mapped
    <3> QED BY <3>1, FS_EmptySet DEF Layered
  <2>7. result' \in Seq(G!Leg) /\ Len(result') \in Nat BY <2>1, LenProperties DEF PlanTypes
  <2>8. \A j \in 1..Len(result') : result'[j] \in G!Leg BY <2>7, ElementOfSeq
  <2>9. LayersFit' BY <2>3, <2>5, <2>6, <2>7, <2>8 DEF LayersFit
  <2>10. PlacedAreTight' BY <2>6 DEF PlacedAreTight
  <2> QED BY <2>1, <2>4, <2>9, <2>10
<1>2. CASE G!SortDone
  <2>1. /\ queue = <<>> /\ pc = "sort" /\ UNCHANGED <<calls, inDegree, queue, result, layerMap>>
        /\ pc' = IF Len(result) < NLegs THEN "cycle" ELSE "layers"
    BY <1>2 DEF G!SortDone
  <2>2. Entries(result) = G!Leg /\ Len(result) = NLegs BY <2>1, EmptyQueueMeansSorted
  <2>3. pc' = "layers" BY <2>1, <2>2, <1>0
  <2>4. PlanTypes' BY <2>1, <2>3 DEF PlanTypes
  <2>5. SortInv' BY <2>1, <2>2, SortKept
  <2>6. Layered' = Layered BY <2>1 DEF Layered, G!Mapped
  <2>7. LayersFit' BY <2>1, <2>3, <2>6 DEF LayersFit
  <2>8. PlacedAreTight' BY <2>1, <2>6 DEF PlacedAreTight, Tight, G!Simple, G!Dependencies
  <2> QED BY <2>4, <2>5, <2>7, <2>8
<1>3. CASE G!BuildLayer
  BY <1>3, BuildRound
<1>4. CASE G!LayersDone
  <2>1. /\ pc = "layers" /\ pc' = "done" /\ UNCHANGED <<calls, inDegree, queue, result, layerMap>>
        /\ Layered = Len(result)
    BY <1>4, SameCardinality DEF G!LayersDone, Layered
  <2>2. Entries(result) = G!Leg /\ Len(result) = NLegs BY <2>1 DEF SortInv, AllSorted
  <2>4. PlanTypes' BY <2>1 DEF PlanTypes
  <2>5. SortInv' BY <2>1, <2>2, SortKept
  <2>6. Layered' = Layered BY <2>1 DEF Layered, G!Mapped
  <2>7. LayersFit' BY <2>1, <2>6 DEF LayersFit
  <2>8. PlacedAreTight' BY <2>1, <2>6 DEF PlacedAreTight, Tight, G!Simple, G!Dependencies
  <2> QED BY <2>4, <2>5, <2>7, <2>8
<1>5. CASE UNCHANGED G!vars
  <2>1. UNCHANGED <<calls, inDegree, queue, result, layerMap, pc>> BY <1>5 DEF G!vars
  <2>2. PlanTypes' BY <2>1 DEF PlanTypes
  <2>3. SortInv' BY <2>1, SortKept DEF SortInv, AllSorted
  <2>4. Layered' = Layered BY <2>1 DEF Layered, G!Mapped
  <2>5. LayersFit' BY <2>1, <2>4 DEF LayersFit
  <2>6. PlacedAreTight' BY <2>1, <2>4 DEF PlacedAreTight, Tight, G!Simple, G!Dependencies
  <2> QED BY <2>2, <2>3, <2>5, <2>6
<1> QED BY <1>1, <1>2, <1>3, <1>4, <1>5 DEF G!Next

\* and gives the property.
LEMMA PlanProperty ==
  ASSUME PlanInv
  PROVE  PlanIsRight
<1> USE DEF PlanInv
<1>1. result \in Seq(G!Leg) /\ Len(result) \in Nat /\ DOMAIN result = 1..Len(result) BY LenProperties DEF PlanTypes
<1>2. G!Sorted = Entries(result) BY <1>1 DEF G!Sorted, Entries
<1>3. G!EveryLegPlanned
  <2>1. pc # "cycle" /\ (pc # "sort" => Len(result) = NLegs /\ Entries(result) = G!Leg)
    BY DEF PlanTypes, SortInv, AllSorted
  <2> QED BY <1>2, <2>1 DEF G!EveryLegPlanned
<1>4. ASSUME NEW i \in G!Leg PROVE layerMap[i] \in -1..(NLegs - 1)
  <2>0. NLegs \in Nat /\ NLegs >= 1 BY PlanAssumption DEF G!Leg
  <2>1. CASE pc = "sort" BY <2>0, <2>1 DEF LayersFit
  <2>2. CASE pc # "sort"
    <3>1. PICK j \in 1..Len(result) : result[j] = i BY <2>2 DEF SortInv, AllSorted, Entries
    <3>2. layerMap[i] \in 0..(j - 1) \/ layerMap[i] = -1 BY <3>1 DEF LayersFit
    <3>3. Len(result) = NLegs BY <2>2 DEF SortInv, AllSorted
    <3> QED BY ONLY <1>1, <2>0, <3>1, <3>2, <3>3
  <2> QED BY <2>1, <2>2
<1>5. G!TypeOK
  <2>1. layerMap \in [G!Leg -> -1..(NLegs - 1)] BY <1>4 DEF PlanTypes
  <2> QED BY <2>1 DEF PlanTypes, G!TypeOK
<1>6. G!LayersAreTight
  <2> SUFFICES ASSUME pc = "done", G!Simple, NEW i \in G!Leg
               PROVE  /\ \A d \in G!Dependencies(i) : layerMap[d] < layerMap[i]
                      /\ layerMap[i] > 0 => \E d \in G!Dependencies(i) : layerMap[d] = layerMap[i] - 1
    BY DEF G!LayersAreTight
  <2>1. PICK j \in 1..Len(result) : result[j] = i BY DEF SortInv, AllSorted, Entries
  <2>2. Layered = Len(result) BY DEF LayersFit
  <2>3. Tight(i) BY <2>1, <2>2 DEF PlacedAreTight
  <2> QED BY <2>3 DEF Tight
<1> QED BY <1>3, <1>5, <1>6 DEF PlanIsRight

\* createBatch never refuses a graph of earlier-to-later links as cyclic, however
\* often addEdge was called for a pair: topologicalSort returns every leg once, and
\* buildExecutionLayers gives each a layer. When no pair was linked twice, a leg
\* comes in a later layer than its dependencies, and in no later one than it
\* must. For any number of legs.
THEOREM PlanRight == Spec => []PlanIsRight
<1>1. Init => PlanInv BY PlanPart, PlanInitial
<1>2. PlanInv /\ [Next]_vars => PlanInv' BY PlanPart, PlanStep
<1>3. PlanInv => PlanIsRight BY PlanProperty
<1> QED BY <1>1, <1>2, <1>3, PTL DEF Spec

-----------------------------------------------------------------------------
(* Scheduled reports *)

\* The reports are one of the parts of a behaviour.
LEMMA ReportPart ==
  /\ Init => R!Init
  /\ [Next]_vars => [R!Next]_(R!vars)
  BY DEF Init, Next, vars, reportVars, R!vars

\* What the calendar's table says: months have 28 to 31 days.
LEMMA MonthLengths ==
  /\ R!FirstOf(0) = 0 /\ R!FirstOf(24) = 731 /\ R!FirstOf(36) = 1096
  /\ \A m \in 0..36 : R!FirstOf(m) \in Nat
  /\ \A m \in 0..35 : R!FirstOf(m) + 28 <= R!FirstOf(m + 1) /\ R!FirstOf(m + 1) <= R!FirstOf(m) + 31
  BY DEF R!FirstOf, R!FirstDays

\* A later month begins at least 28 days later.
LEMMA LaterMonths ==
  ASSUME NEW m \in 0..36, NEW n \in 0..36, m < n
  PROVE  R!FirstOf(m) + 28 <= R!FirstOf(n)
<1> DEFINE Wrong == {k \in 0..36 : m < k /\ ~(R!FirstOf(m) + 28 <= R!FirstOf(k))}
<1>1. ASSUME Wrong # {} PROVE FALSE
  <2>1. Wrong \in SUBSET Nat OBVIOUS
  <2>2. PICK k \in Wrong : \A j \in Wrong : k <= j
    <3> HIDE DEF Wrong
    <3> QED BY <1>1, <2>1, LeastNat
  <2>3. k \in 0..36 /\ m < k /\ ~(R!FirstOf(m) + 28 <= R!FirstOf(k)) OBVIOUS
  <2>4. k - 1 \in 0..35 /\ (k - 1) + 1 = k /\ k - 1 \in 0..36 BY ONLY <2>3, m \in 0..36
  <2>5. R!FirstOf(k - 1) + 28 <= R!FirstOf(k) /\ R!FirstOf(k - 1) \in Nat /\ R!FirstOf(m) \in Nat /\ R!FirstOf(k) \in Nat
    BY <2>3, <2>4, MonthLengths
  <2>6. CASE k - 1 = m BY <2>3, <2>5, <2>6
  <2>7. CASE k - 1 # m
    <3>1. m < k - 1 BY ONLY <2>3, <2>7, m \in 0..36
    <3>2. k - 1 \notin Wrong BY ONLY <2>2, <2>3, k \in 0..36, \A j \in Wrong : k <= j
    <3>3. R!FirstOf(m) + 28 <= R!FirstOf(k - 1) BY <2>4, <3>1, <3>2
    <3> QED BY ONLY <2>3, <2>5, <3>3
  <2> QED BY <2>6, <2>7
<1> QED BY <1>1

\* The days of the calendar.
Day == 0..1095

\* Every day is in one month.
LEMMA MonthIs ==
  ASSUME NEW d \in Day
  PROVE  /\ R!MonthOf(d) \in 0..35 /\ R!FirstOf(R!MonthOf(d)) <= d /\ d < R!FirstOf(R!MonthOf(d) + 1)
         /\ \A m \in 0..35 : R!FirstOf(m) <= d /\ d < R!FirstOf(m + 1) => R!MonthOf(d) = m
<1>0. d \in Nat /\ d < 1096 BY DEF Day
<1> DEFINE Beyond == {k \in 0..36 : d < R!FirstOf(k)}
<1>1. PICK n \in Beyond : \A k \in Beyond : n <= k
  <2>1. Beyond \in SUBSET Nat /\ 36 \in Beyond BY <1>0, MonthLengths
  <2> HIDE DEF Beyond
  <2> QED BY <2>1, LeastNat
<1>2. n \in 0..36 /\ d < R!FirstOf(n) OBVIOUS
<1>3. n # 0 BY <1>0, <1>2, MonthLengths
<1>4. n - 1 \in 0..35 /\ (n - 1) + 1 = n /\ n - 1 \in 0..36 BY ONLY <1>2, <1>3
<1>5. n - 1 \notin Beyond BY ONLY <1>1, <1>2
<1>6. R!FirstOf(n - 1) <= d BY <1>0, <1>4, <1>5, MonthLengths
<1>7. ASSUME NEW m \in 0..35, NEW k \in 0..35, R!FirstOf(m) <= d, d < R!FirstOf(m + 1),
             R!FirstOf(k) <= d, d < R!FirstOf(k + 1)
      PROVE  ~(m < k)
  <2> SUFFICES ASSUME m < k PROVE FALSE OBVIOUS
  <2>1. m + 1 \in 0..36 /\ k \in 0..36 /\ (m + 1 = k \/ m + 1 < k) BY <1>7
  <2>2. R!FirstOf(m + 1) \in Nat /\ R!FirstOf(k) \in Nat BY <2>1, MonthLengths
  <2>3. m + 1 = k \/ R!FirstOf(m + 1) + 28 <= R!FirstOf(k) BY <2>1, LaterMonths
  <2>4. R!FirstOf(m + 1) <= R!FirstOf(k) BY <2>2, <2>3
  <2> QED BY ONLY <1>0, <1>7, <2>2, <2>4
<1>8. ASSUME NEW m \in 0..35, NEW k \in 0..35, R!FirstOf(m) <= d, d < R!FirstOf(m + 1),
             R!FirstOf(k) <= d, d < R!FirstOf(k + 1)
      PROVE  m = k
  <2>1. ~(m < k) /\ ~(k < m) BY <1>7, <1>8
  <2> QED BY <2>1
<1>9. \E m \in 0..35 : R!FirstOf(m) <= d /\ d < R!FirstOf(m + 1) BY <1>2, <1>4, <1>6
<1>10. R!MonthOf(d) \in 0..35 /\ R!FirstOf(R!MonthOf(d)) <= d /\ d < R!FirstOf(R!MonthOf(d) + 1)
  BY <1>9 DEF R!MonthOf
<1> QED BY <1>8, <1>10

\* The first two years, in which every step happens.
Year2 == 0..730

\* What the date arithmetic of the model rests on, for a day of these years.
LEMMA MonthFacts ==
  ASSUME NEW t \in Year2
  PROVE  /\ t \in Day /\ R!MonthOf(t) \in 0..23
         /\ R!FirstOf(R!MonthOf(t)) \in Nat /\ R!FirstOf(R!MonthOf(t) + 1) \in Nat
         /\ R!FirstOf(R!MonthOf(t)) <= t /\ t < R!FirstOf(R!MonthOf(t) + 1)
         /\ R!DayOfMonth(t) \in 1..31 /\ R!DayOfMonth(t) = t - R!FirstOf(R!MonthOf(t)) + 1
<1>1. t \in Day /\ t \in Nat /\ t < 731 BY DEF Day, Year2
<1>2. PICK m \in 0..35 : m = R!MonthOf(t) BY <1>1, MonthIs
<1>3. R!FirstOf(m) <= t /\ t < R!FirstOf(m + 1) BY <1>1, <1>2, MonthIs
<1>4. R!FirstOf(m) \in Nat /\ R!FirstOf(m + 1) \in Nat /\ R!FirstOf(m + 1) <= R!FirstOf(m) + 31
  BY MonthLengths
<1>5. m < 24
  <2> SUFFICES ASSUME ~(m < 24) PROVE FALSE OBVIOUS
  <2>1. m = 24 \/ 24 < m OBVIOUS
  <2>2. m = 24 \/ R!FirstOf(24) + 28 <= R!FirstOf(m) BY <2>1, LaterMonths
  <2>3. R!FirstOf(24) = 731 BY MonthLengths
  <2> QED BY <1>1, <1>3, <1>4, <2>2, <2>3
<1>6. R!DayOfMonth(t) = t - R!FirstOf(m) + 1 BY <1>2 DEF R!DayOfMonth
<1>7. R!DayOfMonth(t) \in 1..31 BY ONLY <1>1, <1>3, <1>4, <1>6
<1>8. m \in 0..23 BY <1>5
<1> QED BY <1>1, <1>2, <1>3, <1>4, <1>6, <1>7, <1>8

\* A month that is set begins later, and is the one meant up to the 28th.
LEMMA SetMonthFirst ==
  ASSUME NEW t \in Year2, NEW n \in 0..24, R!MonthOf(t) < n
  PROVE  /\ R!FirstOfMonth(R!SetMonth(t, n)) \in Nat
         /\ R!FirstOfMonth(R!SetMonth(t, n)) > t
         /\ R!DayOfMonth(t) <= 28 => R!FirstOfMonth(R!SetMonth(t, n)) = R!FirstOf(n)
<1>1. PICK m \in 0..23 : m = R!MonthOf(t) BY MonthFacts
<1>2. PICK day \in 1..31 : day = R!DayOfMonth(t) BY MonthFacts
<1>3. PICK d : d = R!SetMonth(t, n) OBVIOUS
<1>4. d = R!FirstOf(n) + day - 1 BY <1>2, <1>3 DEF R!SetMonth
<1>5. R!FirstOf(n) \in Nat /\ R!FirstOf(n + 1) \in Nat /\ R!FirstOf(n) + 28 <= R!FirstOf(n + 1) BY MonthLengths
<1>6. R!FirstOf(n) <= 731
  <2>1. R!FirstOf(24) = 731 BY MonthLengths
  <2>2. n = 24 \/ R!FirstOf(n) + 28 <= R!FirstOf(24) BY LaterMonths
  <2> QED BY <1>5, <2>1, <2>2
<1>7. d \in Day
  <2>1. d \in Int /\ 0 <= d /\ d <= 1095 BY <1>2, <1>4, <1>5, <1>6
  <2> QED BY ONLY <2>1 DEF Day
<1>8. PICK k \in 0..35 : k = R!MonthOf(d) BY <1>7, MonthIs
<1>9. R!FirstOf(k) <= d /\ d < R!FirstOf(k + 1) /\ R!FirstOf(k) \in Nat /\ R!FirstOf(k + 1) \in Nat
  BY <1>7, <1>8, MonthIs, MonthLengths
<1>10. R!FirstOfMonth(d) = R!FirstOf(k) BY <1>8 DEF R!FirstOfMonth
<1>11. ~(k < n)
  <2> SUFFICES ASSUME k < n PROVE FALSE OBVIOUS
  <2>1. k + 1 = n \/ R!FirstOf(k + 1) + 28 <= R!FirstOf(n)
    <3>1. k + 1 \in 0..36 /\ n \in 0..36 /\ (k + 1 = n \/ k + 1 < n) OBVIOUS
    <3> QED BY <3>1, LaterMonths
  <2>2. R!FirstOf(k + 1) <= R!FirstOf(n) BY <1>5, <1>9, <2>1
  <2> QED BY ONLY <1>2, <1>4, <1>5, <1>9, <2>2
<1>12. R!FirstOf(n) <= R!FirstOf(k)
  <2>1. k \in 0..36 /\ n \in 0..36 /\ (n = k \/ n < k) BY <1>11
  <2>2. n = k \/ R!FirstOf(n) + 28 <= R!FirstOf(k) BY <2>1, LaterMonths
  <2> QED BY <1>5, <1>9, <2>2
<1>13. R!FirstOf(m + 1) <= R!FirstOf(n)
  <2>1. m + 1 \in 0..36 /\ n \in 0..36 /\ (m + 1 = n \/ m + 1 < n) BY <1>1
  <2>2. m + 1 = n \/ R!FirstOf(m + 1) + 28 <= R!FirstOf(n) BY <2>1, LaterMonths
  <2>3. R!FirstOf(m + 1) \in Nat BY MonthLengths
  <2> QED BY <1>5, <2>2, <2>3
<1>14. t \in Nat /\ t < R!FirstOf(m + 1) /\ R!FirstOf(m + 1) \in Nat
  <2>1. t < R!FirstOf(R!MonthOf(t) + 1) /\ R!FirstOf(R!MonthOf(t) + 1) \in Nat BY MonthFacts
  <2>2. t \in Nat BY DEF Year2
  <2> QED BY <1>1, <2>1, <2>2
<1>15. R!FirstOf(k) > t BY ONLY <1>5, <1>9, <1>12, <1>13, <1>14
<1>16. ASSUME day <= 28 PROVE k = n
  <2>1. R!FirstOf(n) <= d /\ d < R!FirstOf(n + 1) BY ONLY <1>2, <1>4, <1>5, <1>16
  <2>2. n \in 0..35 OBVIOUS
  <2> QED BY <1>7, <1>8, <2>1, <2>2, MonthIs
<1> QED BY <1>2, <1>3, <1>9, <1>10, <1>15, <1>16

\* The first match after now is the one a cron run waits for.
LEMMA FirstMatch ==
  ASSUME NEW cron, NEW now \in Nat, NEW d \in (now + 1)..(now + 366), R!CronMatches(cron, d),
         \A e \in (now + 1)..(d - 1) : ~R!CronMatches(cron, e)
  PROVE  R!NextRunFromCron(cron, now) = d
<1> DEFINE Is(x) == R!CronMatches(cron, x) /\ \A e \in (now + 1)..(x - 1) : ~R!CronMatches(cron, e)
<1>1. Is(d) OBVIOUS
<1>2. ASSUME NEW x \in (now + 1)..(now + 366), Is(x) PROVE x = d
  <2>1. ~(x < d)
    <3> SUFFICES ASSUME x < d PROVE FALSE OBVIOUS
    <3>1. x \in (now + 1)..(d - 1) OBVIOUS
    <3> QED BY <1>1, <1>2, <3>1
  <2>2. ~(d < x)
    <3> SUFFICES ASSUME d < x PROVE FALSE OBVIOUS
    <3>1. d \in (now + 1)..(x - 1) OBVIOUS
    <3> QED BY <1>1, <1>2, <3>1
  <2> QED BY <2>1, <2>2
<1>3. R!NextRunFromCron(cron, now) = CHOOSE x \in (now + 1)..(now + 366) : Is(x)
  BY DEF R!NextRunFromCron
<1> HIDE DEF Is
<1> QED BY <1>1, <1>2, <1>3

\* A cron that matches some day of the year to come has a first match.
LEMMA SomeMatch ==
  ASSUME NEW cron, NEW now \in Nat, NEW x \in (now + 1)..(now + 366), R!CronMatches(cron, x)
  PROVE  R!NextRunFromCron(cron, now) \in (now + 1)..(now + 366)
<1> DEFINE Days == {d \in (now + 1)..(now + 366) : R!CronMatches(cron, d)}
<1>1. Days \in SUBSET Nat /\ Days # {} OBVIOUS
<1>2. PICK d \in Days : \A e \in Days : d <= e
  <2> HIDE DEF Days
  <2> QED BY <1>1, LeastNat
<1>3. \A e \in (now + 1)..(d - 1) : ~R!CronMatches(cron, e)
  <2> SUFFICES ASSUME NEW e \in (now + 1)..(d - 1), R!CronMatches(cron, e) PROVE FALSE OBVIOUS
  <2>1. e \in Days /\ e < d /\ e \in Int /\ d \in Int OBVIOUS
  <2>2. d <= e BY <1>2, <2>1
  <2> QED BY ONLY <2>1, <2>2
<1> QED BY <1>3, FirstMatch

\* What the fields of the expressions hold.
LEMMA CronFields ==
  /\ \A n \in Int : R!ParseCronField({R!Just(n)}) = {n}
  /\ \A a, b \in Int : R!ParseCronField({R!Every(a, b)}) = a..b
  /\ R!ParseCronField({R!Just(m) : m \in {1, 4, 7, 10}}) = {1, 4, 7, 10}
<1>1. \A x \in Int : x % 1 = 0 OBVIOUS
<1>2. ASSUME NEW a \in Int, NEW b \in Int, NEW p, p = [from |-> a, to |-> b, step |-> 1]
      PROVE  {v \in p.from .. p.to : (v - p.from) % p.step = 0} = a..b
  <2>1. p.from = a /\ p.to = b /\ p.step = 1 BY <1>2
  <2>2. \A v \in a..b : v - a \in Int OBVIOUS
  <2> QED BY <1>1, <2>1, <2>2
<1>3. \A n \in Int : R!ParseCronField({R!Just(n)}) = {n}
  <2> TAKE n \in Int
  <2>1. R!Just(n) = [from |-> n, to |-> n, step |-> 1] BY DEF R!Just
  <2>2. R!ParseCronField({R!Just(n)}) = n..n BY <1>2, <2>1 DEF R!ParseCronField
  <2> QED BY <2>2
<1>4. \A a, b \in Int : R!ParseCronField({R!Every(a, b)}) = a..b
  <2> TAKE a, b \in Int
  <2>1. R!Every(a, b) = [from |-> a, to |-> b, step |-> 1] BY DEF R!Every
  <2> QED BY <1>2, <2>1 DEF R!ParseCronField
<1>5. R!ParseCronField({R!Just(m) : m \in {1, 4, 7, 10}}) = {1, 4, 7, 10}
  <2>1. \A m \in Int : {v \in R!Just(m).from .. R!Just(m).to : (v - R!Just(m).from) % R!Just(m).step = 0} = {m}
    <3> TAKE m \in Int
    <3>1. R!Just(m) = [from |-> m, to |-> m, step |-> 1] BY DEF R!Just
    <3> QED BY <1>2, <3>1
  <2> DEFINE Parts == {R!Just(m) : m \in {1, 4, 7, 10}}
             Values(p) == {v \in p.from .. p.to : (v - p.from) % p.step = 0}
  <2>2. R!ParseCronField(Parts) = UNION {Values(p) : p \in Parts} BY DEF R!ParseCronField
  <2>3. \A m \in {1, 4, 7, 10} : R!Just(m) \in Parts /\ Values(R!Just(m)) = {m} BY <2>1
  <2>4. \A p \in Parts : \E m \in {1, 4, 7, 10} : p = R!Just(m) OBVIOUS
  <2> HIDE DEF Parts, Values
  <2>5. \A x \in {1, 4, 7, 10} : x \in UNION {Values(p) : p \in Parts}
    <3> TAKE x \in {1, 4, 7, 10}
    <3>1. x \in Values(R!Just(x)) /\ R!Just(x) \in Parts BY <2>3
    <3> QED BY <3>1
  <2>6. \A x \in UNION {Values(p) : p \in Parts} : x \in {1, 4, 7, 10}
    <3> TAKE x \in UNION {Values(p) : p \in Parts}
    <3>1. PICK p \in Parts : x \in Values(p) OBVIOUS
    <3>2. PICK m \in {1, 4, 7, 10} : p = R!Just(m) BY <2>4
    <3> QED BY <2>3, <3>1, <3>2
  <2>7. UNION {Values(p) : p \in Parts} = {1, 4, 7, 10} BY <2>5, <2>6
  <2> QED BY <2>2, <2>7 DEF Parts
<1> QED BY <1>3, <1>4, <1>5

\* The fields of an expression.
Parsed(cron, dom, month, dow) ==
  /\ cron.dom = R!ParseCronField(dom) /\ cron.month = R!ParseCronField(month)
  /\ cron.dow = {v % 7 : v \in R!ParseCronField(dow)}
  /\ cron.domRestricted = (dom # {R!Every(1, 31)}) /\ cron.dowRestricted = (dow # {R!Every(0, 7)})

\* ParseCron fills them in.
LEMMA ParsedCron ==
  ASSUME NEW dom, NEW month, NEW dow
  PROVE  Parsed(R!ParseCron(dom, month, dow), dom, month, dow)
  BY DEF R!ParseCron, Parsed

\* The fields that occur.
LEMMA FieldValues ==
  /\ R!ParseCronField({R!Every(1, 12)}) = 1..12
  /\ R!ParseCronField({R!Just(0)}) = {0}
  /\ R!ParseCronField({R!Just(1)}) = {1}
  /\ R!ParseCronField({R!Just(5)}) = {5}
<1>1. 0 \in Int /\ 1 \in Int /\ 5 \in Int /\ 12 \in Int OBVIOUS
<1> QED BY ONLY <1>1, CronFields

\* The expressions.
LEMMA Crons ==
  /\ \A f \in {"daily", "weekly", "monthly", "quarterly", "custom"} : R!CronForFrequency(f) =
       IF f = "daily" THEN R!ParseCron({R!Every(1, 31)}, {R!Every(1, 12)}, {R!Every(0, 7)})
       ELSE IF f = "weekly" THEN R!ParseCron({R!Every(1, 31)}, {R!Every(1, 12)}, {R!Just(0)})
       ELSE IF f = "monthly" THEN R!ParseCron({R!Just(1)}, {R!Every(1, 12)}, {R!Every(0, 7)})
       ELSE IF f = "quarterly" THEN R!ParseCron({R!Just(1)}, {R!Just(m) : m \in {1, 4, 7, 10}}, {R!Every(0, 7)})
       ELSE R!CustomCron
  BY DEF R!CronForFrequency

\* The month of the year of a day.
LEMMA MonthOfYearIs ==
  ASSUME NEW d \in Day
  PROVE  R!MonthOfYear(d) \in 1..12 /\ (R!MonthOfYear(d) \in {1, 4, 7, 10} <=> R!MonthOf(d) % 3 = 0)
<1>1. PICK m \in 0..35 : m = R!MonthOf(d) BY MonthIs
<1>2. R!MonthOfYear(d) = (m % 12) + 1 BY <1>1 DEF R!MonthOfYear
<1>3. m % 12 \in 0..11 /\ (m % 12 \in {0, 3, 6, 9} <=> m % 3 = 0) BY ONLY m \in 0..35
<1> QED BY <1>1, <1>2, <1>3

\* Which days they match: the daily one all of them,
LEMMA DailyMatch ==
  ASSUME NEW d \in Day
  PROVE  R!CronMatches(R!CronForFrequency("daily"), d)
<1>a. PICK cron : cron = R!ParseCron({R!Every(1, 31)}, {R!Every(1, 12)}, {R!Every(0, 7)}) OBVIOUS
<1>b. Parsed(cron, {R!Every(1, 31)}, {R!Every(1, 12)}, {R!Every(0, 7)}) BY <1>a, ParsedCron
<1>1. cron.month = 1..12 /\ ~cron.domRestricted /\ ~cron.dowRestricted BY <1>b, FieldValues DEF Parsed
<1>2. R!CronMatches(cron, d) BY <1>1, MonthOfYearIs DEF R!CronMatches
<1> QED BY <1>2, <1>a, Crons

\* the weekly one every Sunday,
LEMMA WeeklyMatch ==
  ASSUME NEW d \in Day
  PROVE  R!CronMatches(R!CronForFrequency("weekly"), d) <=> d % 7 = 0
<1>a. PICK cron : cron = R!ParseCron({R!Every(1, 31)}, {R!Every(1, 12)}, {R!Just(0)}) OBVIOUS
<1>b. Parsed(cron, {R!Every(1, 31)}, {R!Every(1, 12)}, {R!Just(0)}) BY <1>a, ParsedCron
<1>0. {R!Just(0)} # {R!Every(0, 7)}
  <2>1. R!Just(0).to # R!Every(0, 7).to BY DEF R!Just, R!Every
  <2> QED BY <2>1
<1>1. cron.month = 1..12 /\ ~cron.domRestricted /\ cron.dowRestricted BY <1>0, <1>b, FieldValues, CronFields DEF Parsed
<1>2. cron.dow = {0}
  <2>1. cron.dow = {v % 7 : v \in {0}} BY <1>b, FieldValues DEF Parsed
  <2>2. 0 % 7 = 0 OBVIOUS
  <2> QED BY <2>1, <2>2
<1>3. R!CronMatches(cron, d) <=> d % 7 = 0 BY <1>1, <1>2, MonthOfYearIs DEF R!CronMatches, R!Weekday
<1> QED BY <1>3, <1>a, Crons

\* the monthly one the first of a month,
LEMMA MonthlyMatch ==
  ASSUME NEW d \in Day
  PROVE  R!CronMatches(R!CronForFrequency("monthly"), d) <=> R!DayOfMonth(d) = 1
<1>a. PICK cron : cron = R!ParseCron({R!Just(1)}, {R!Every(1, 12)}, {R!Every(0, 7)}) OBVIOUS
<1>b. Parsed(cron, {R!Just(1)}, {R!Every(1, 12)}, {R!Every(0, 7)}) BY <1>a, ParsedCron
<1>0. {R!Just(1)} # {R!Every(1, 31)}
  <2>1. R!Just(1).to # R!Every(1, 31).to BY DEF R!Just, R!Every
  <2> QED BY <2>1
<1>1. cron.month = 1..12 /\ cron.domRestricted /\ ~cron.dowRestricted /\ cron.dom = {1} BY <1>0, <1>b, FieldValues, CronFields DEF Parsed
<1>3. R!CronMatches(cron, d) <=> R!DayOfMonth(d) = 1 BY <1>1, MonthOfYearIs DEF R!CronMatches
<1> QED BY <1>3, <1>a, Crons

\* the quarterly one the first of every third month.
LEMMA QuarterlyMatch ==
  ASSUME NEW d \in Day
  PROVE  R!CronMatches(R!CronForFrequency("quarterly"), d) <=> R!DayOfMonth(d) = 1 /\ R!MonthOf(d) % 3 = 0
<1>a. PICK cron : cron = R!ParseCron({R!Just(1)}, {R!Just(m) : m \in {1, 4, 7, 10}}, {R!Every(0, 7)}) OBVIOUS
<1>b. Parsed(cron, {R!Just(1)}, {R!Just(m) : m \in {1, 4, 7, 10}}, {R!Every(0, 7)}) BY <1>a, ParsedCron
<1>0. {R!Just(1)} # {R!Every(1, 31)}
  <2>1. R!Just(1).to # R!Every(1, 31).to BY DEF R!Just, R!Every
  <2> QED BY <2>1
<1>1. cron.month = {1, 4, 7, 10} /\ cron.domRestricted /\ ~cron.dowRestricted /\ cron.dom = {1}
  BY <1>0, <1>b, FieldValues, CronFields DEF Parsed
<1>3. R!CronMatches(cron, d) <=> R!DayOfMonth(d) = 1 /\ R!MonthOf(d) % 3 = 0
  BY <1>1, MonthOfYearIs DEF R!CronMatches
<1> QED BY <1>3, <1>a, Crons

\* The custom expression matches every Friday at least.
LEMMA CustomMatch ==
  ASSUME NEW d \in Day, d % 7 = 5
  PROVE  R!CronMatches(R!CustomCron, d)
<1>a. PICK cron : cron = R!CustomCron OBVIOUS
<1>b. Parsed(cron, {[from |-> 1, to |-> 31, step |-> 10]}, {R!Every(1, 12)}, {R!Just(5)}) BY <1>a, ParsedCron DEF R!CustomCron
<1>1. cron.month = 1..12 BY <1>b, FieldValues DEF Parsed
<1>2. cron.dow = {5}
  <2>1. cron.dow = {v % 7 : v \in {5}} BY <1>b, FieldValues DEF Parsed
  <2>2. 5 % 7 = 5 OBVIOUS
  <2> QED BY <2>1, <2>2
<1>3. cron.domRestricted /\ cron.dowRestricted
  <2>1. {[from |-> 1, to |-> 31, step |-> 10]} # {R!Every(1, 31)}
    <3>1. R!Every(1, 31).step = 1 BY DEF R!Every
    <3>2. [from |-> 1, to |-> 31, step |-> 10].step = 10 OBVIOUS
    <3> QED BY <3>1, <3>2
  <2>2. {R!Just(5)} # {R!Every(0, 7)}
    <3>1. R!Just(5).to # R!Every(0, 7).to BY DEF R!Just, R!Every
    <3> QED BY <3>1
  <2> QED BY <1>b, <2>1, <2>2 DEF Parsed
<1>4. R!CronMatches(cron, d) BY <1>1, <1>2, <1>3, MonthOfYearIs DEF R!CronMatches, R!Weekday
<1> QED BY <1>a, <1>4

\* The ways to compute the next run.
LEMMA NextRuns ==
  ASSUME NEW now
  PROVE  /\ R!CalculateNextRun("daily", now) = now + 1
         /\ R!CalculateNextRun("weekly", now) = now + 7 - (now % 7)
         /\ R!CalculateNextRun("monthly", now) = R!FirstOfMonth(R!SetMonth(now, R!MonthOf(now) + 1))
         /\ R!CalculateNextRun("quarterly", now) =
              R!FirstOfMonth(R!SetMonth(now, ((R!MonthOf(now) \div 3) + 1) * 3))
         /\ R!CalculateNextRun("custom", now) = R!NextRunFromCron(R!CustomCron, now)
<1>1. R!CalculateNextRun("daily", now) = now + 1 BY DEF R!CalculateNextRun
<1>2. R!CalculateNextRun("weekly", now) = now + 7 - R!Weekday(now) BY DEF R!CalculateNextRun
<1>3. R!CalculateNextRun("monthly", now) = R!FirstOfMonth(R!SetMonth(now, R!MonthOf(now) + 1))
  BY DEF R!CalculateNextRun
<1>4. R!CalculateNextRun("quarterly", now) = R!FirstOfMonth(R!SetMonth(now, ((R!MonthOf(now) \div 3) + 1) * 3))
  BY DEF R!CalculateNextRun
<1>5. R!CalculateNextRun("custom", now) = R!NextRunFromCron(R!CustomCron, now) BY DEF R!CalculateNextRun
<1> QED BY <1>1, <1>2, <1>3, <1>4, <1>5 DEF R!Weekday

\* The month after, and the first of the next quarter.
LEMMA NextMonths ==
  ASSUME NEW m \in 0..23
  PROVE  /\ m + 1 \in 0..24 /\ m < m + 1
         /\ ((m \div 3) + 1) * 3 \in 0..24 /\ m < ((m \div 3) + 1) * 3 /\ ((m \div 3) + 1) * 3 <= m + 3
         /\ (((m \div 3) + 1) * 3) % 3 = 0
         /\ \A k \in 0..35 : m < k /\ k < ((m \div 3) + 1) * 3 => k % 3 # 0
<1>1. PICK q \in 0..7 : q = m \div 3 OBVIOUS
<1>2. 3 * q <= m /\ m < 3 * q + 3 BY <1>1
<1>3. (q + 1) * 3 = 3 * q + 3 OBVIOUS
<1>4. (3 * q + 3) % 3 = 0 OBVIOUS
<1>5. \A k \in 0..35 : 3 * q < k /\ k < 3 * q + 3 => k % 3 # 0 OBVIOUS
<1> QED BY <1>1, <1>2, <1>3, <1>4, <1>5

\* The next run is always later than today.
LEMMA NextRunIsLater ==
  ASSUME NEW now \in Year2, NEW f \in R!Frequencies
  PROVE  R!CalculateNextRun(f, now) \in Nat /\ R!CalculateNextRun(f, now) > now
<1>1. now \in Nat /\ now <= 730 BY DEF Year2
<1>2. CASE f = "daily" BY <1>1, <1>2, NextRuns
<1>3. CASE f = "weekly"
  <2>1. now % 7 \in 0..6 BY <1>1
  <2> QED BY <1>1, <1>3, <2>1, NextRuns
<1>4. PICK m \in 0..23 : m = R!MonthOf(now) BY MonthFacts
<1>5. CASE f = "monthly"
  <2>1. PICK n \in 0..24 : n = m + 1 BY NextMonths
  <2>2. R!MonthOf(now) < n BY <1>4, <2>1
  <2>3. R!CalculateNextRun(f, now) = R!FirstOfMonth(R!SetMonth(now, n)) BY <1>4, <1>5, <2>1, NextRuns
  <2> QED BY <2>2, <2>3, SetMonthFirst
<1>6. CASE f = "quarterly"
  <2>1. PICK n \in 0..24 : n = ((m \div 3) + 1) * 3 BY NextMonths
  <2>2. R!MonthOf(now) < n BY <1>4, <2>1, NextMonths
  <2>3. R!CalculateNextRun(f, now) = R!FirstOfMonth(R!SetMonth(now, n)) BY <1>4, <1>6, <2>1, NextRuns
  <2> QED BY <2>2, <2>3, SetMonthFirst
<1>7. CASE f = "custom"
  <2>1. PICK w \in 0..6 : w = now % 7 BY <1>1
  <2>2. PICK d \in (now + 1)..(now + 7) : d % 7 = 5
    <3>1. \E i \in 1..7 : (now + i) % 7 = 5
      <4>1. CASE w = 0 BY <1>1, <2>1, <4>1
      <4>2. CASE w = 1 BY <1>1, <2>1, <4>2
      <4>3. CASE w = 2 BY <1>1, <2>1, <4>3
      <4>4. CASE w = 3 BY <1>1, <2>1, <4>4
      <4>5. CASE w = 4 BY <1>1, <2>1, <4>5
      <4>6. CASE w = 5 BY <1>1, <2>1, <4>6
      <4>7. CASE w = 6 BY <1>1, <2>1, <4>7
      <4> QED BY <4>1, <4>2, <4>3, <4>4, <4>5, <4>6, <4>7
    <3> QED BY <1>1, <3>1
  <2>3. d \in Day /\ d \in (now + 1)..(now + 366) BY <1>1 DEF Day
  <2>4. R!CronMatches(R!CustomCron, d) BY <2>2, <2>3, CustomMatch
  <2>5. PICK cron : cron = R!CustomCron OBVIOUS
  <2>6. R!NextRunFromCron(cron, now) \in (now + 1)..(now + 366) BY <1>1, <2>3, <2>4, <2>5, SomeMatch
  <2>7. R!CalculateNextRun(f, now) \in (now + 1)..(now + 366) BY <1>7, <2>5, <2>6, NextRuns
  <2> QED BY ONLY <1>1, <2>7
<1> QED BY <1>2, <1>3, <1>5, <1>6, <1>7 DEF R!Frequencies

\* The first of a month.
LEMMA FirstDay ==
  ASSUME NEW d \in Day
  PROVE  /\ R!DayOfMonth(d) = 1 <=> d = R!FirstOf(R!MonthOf(d))
         /\ \A n \in 0..35 : d = R!FirstOf(n) => R!MonthOf(d) = n /\ R!DayOfMonth(d) = 1
<1>1. PICK m \in 0..35 : m = R!MonthOf(d) BY MonthIs
<1>2. R!FirstOf(m) \in Nat /\ d \in Nat BY MonthLengths DEF Day
<1>3. R!DayOfMonth(d) = d - R!FirstOf(m) + 1 BY <1>1 DEF R!DayOfMonth
<1>4. R!DayOfMonth(d) = 1 <=> d = R!FirstOf(R!MonthOf(d)) BY <1>1, <1>2, <1>3
<1>5. ASSUME NEW n \in 0..35, d = R!FirstOf(n) PROVE R!MonthOf(d) = n
  <2>1. R!FirstOf(n) + 28 <= R!FirstOf(n + 1) /\ R!FirstOf(n) \in Nat /\ R!FirstOf(n + 1) \in Nat BY MonthLengths
  <2>2. R!FirstOf(n) <= d /\ d < R!FirstOf(n + 1) BY <1>5, <2>1
  <2> QED BY <2>2, MonthIs
<1> QED BY <1>4, <1>5

\* No month begins between a day and the first of the month after, and the
\* months in between come later.
LEMMA Between ==
  ASSUME NEW now \in Year2, NEW n \in 0..24, NEW e \in (now + 1)..(R!FirstOf(n) - 1), R!DayOfMonth(e) = 1
  PROVE  e \in Day /\ R!MonthOf(now) < R!MonthOf(e) /\ R!MonthOf(e) < n
<1>1. R!FirstOf(n) \in Nat BY MonthLengths
<1>2. R!FirstOf(n) <= 731
  <2>1. R!FirstOf(24) = 731 BY MonthLengths
  <2>2. n = 24 \/ R!FirstOf(n) + 28 <= R!FirstOf(24) BY LaterMonths
  <2> QED BY <1>1, <2>1, <2>2
<1>3. now \in Nat BY DEF Year2
<1>4. e \in Int /\ now < e /\ e < R!FirstOf(n) BY <1>1, <1>3
<1>5. e \in Day BY ONLY <1>1, <1>2, <1>3, <1>4 DEF Day
<1>6. PICK k \in 0..35 : k = R!MonthOf(e) BY <1>5, MonthIs
<1>7. e = R!FirstOf(k) BY <1>5, <1>6, FirstDay
<1>8. PICK m \in 0..23 : m = R!MonthOf(now) BY MonthFacts
<1>9. R!FirstOf(m) <= now /\ R!FirstOf(m) \in Nat BY <1>8, MonthFacts
<1>10. ~(k <= m)
  <2> SUFFICES ASSUME k <= m PROVE FALSE OBVIOUS
  <2>1. k = m \/ R!FirstOf(k) + 28 <= R!FirstOf(m)
    <3>1. k \in 0..36 /\ m \in 0..36 /\ (k = m \/ k < m) OBVIOUS
    <3> QED BY <3>1, LaterMonths
  <2> QED BY <1>3, <1>4, <1>7, <1>9, <2>1
<1>11. ~(n <= k)
  <2> SUFFICES ASSUME n <= k PROVE FALSE OBVIOUS
  <2>1. k = n \/ R!FirstOf(n) + 28 <= R!FirstOf(k)
    <3>1. k \in 0..36 /\ n \in 0..36 /\ (k = n \/ n < k) OBVIOUS
    <3> QED BY <3>1, LaterMonths
  <2> QED BY <1>1, <1>4, <1>7, <2>1
<1> QED BY <1>5, <1>6, <1>8, <1>10, <1>11

\* The first of the month n months on is within the 366 days.
LEMMA SoonEnough ==
  ASSUME NEW now \in Year2, NEW n \in 0..24, R!MonthOf(now) < n, n <= R!MonthOf(now) + 3
  PROVE  R!FirstOf(n) \in (now + 1)..(now + 366) /\ R!FirstOf(n) \in Day
<1>1. PICK m \in 0..23 : m = R!MonthOf(now) BY MonthFacts
<1>2. now \in Nat /\ R!FirstOf(m) <= now /\ now < R!FirstOf(m + 1)
  <2>1. R!FirstOf(R!MonthOf(now)) <= now /\ now < R!FirstOf(R!MonthOf(now) + 1) BY MonthFacts
  <2>2. now \in Nat BY DEF Year2
  <2> QED BY <1>1, <2>1, <2>2
<1>3. /\ R!FirstOf(m) \in Nat /\ R!FirstOf(m + 1) \in Nat /\ R!FirstOf(m + 2) \in Nat /\ R!FirstOf(m + 3) \in Nat
      /\ R!FirstOf(m + 1) <= R!FirstOf(m) + 31 /\ R!FirstOf(m + 1) + 28 <= R!FirstOf(m + 2)
  BY MonthLengths
<1>4. R!FirstOf(m + 2) <= R!FirstOf(m + 1) + 31 /\ R!FirstOf(m + 2) + 28 <= R!FirstOf(m + 3)
  <2>1. m + 1 \in 0..35 /\ (m + 1) + 1 = m + 2 /\ m + 2 \in 0..35 /\ (m + 2) + 1 = m + 3 OBVIOUS
  <2> QED BY <2>1, MonthLengths
<1>5. R!FirstOf(m + 3) <= R!FirstOf(m + 2) + 31
  <2>1. m + 2 \in 0..35 /\ (m + 2) + 1 = m + 3 OBVIOUS
  <2> QED BY <2>1, MonthLengths
<1>6. n = m + 1 \/ n = m + 2 \/ n = m + 3 BY <1>1
<1>7. R!FirstOf(n) \in Nat /\ now < R!FirstOf(n) /\ R!FirstOf(n) <= now + 93
  BY <1>2, <1>3, <1>4, <1>5, <1>6
<1>8. R!FirstOf(n) \in (now + 1)..(now + 366) BY ONLY <1>2, <1>7
<1>9. now <= 730 BY DEF Year2
<1>10. R!FirstOf(n) \in Day BY ONLY <1>2, <1>7, <1>9 DEF Day
<1> QED BY <1>8, <1>10

\* Up to the 28th the arithmetic gives the first match of the expression.
LEMMA NextRunAgrees ==
  ASSUME NEW now \in Year2, NEW f \in R!Frequencies, R!DayOfMonth(now) <= 28
  PROVE  R!CalculateNextRun(f, now) = R!NextRunFromCron(R!CronForFrequency(f), now)
<1>1. now \in Nat /\ now <= 730 BY DEF Year2
<1>2. PICK cron : cron = R!CronForFrequency(f) OBVIOUS
<1>3. CASE f = "daily"
  <2>1. now + 1 \in Day /\ now + 1 \in (now + 1)..(now + 366) BY <1>1 DEF Day
  <2>2. PICK d \in (now + 1)..(now + 366) : d = now + 1 BY <2>1
  <2>3. R!CronMatches(cron, d) BY <1>2, <1>3, <2>1, <2>2, DailyMatch
  <2>4. \A e \in (now + 1)..(d - 1) : ~R!CronMatches(cron, e) BY <1>1, <2>2
  <2>5. R!NextRunFromCron(cron, now) = d BY <1>1, <2>3, <2>4, FirstMatch
  <2> QED BY <1>2, <1>3, <2>2, <2>5, NextRuns
<1>4. CASE f = "weekly"
  <2>1. PICK d : d = now + 7 - (now % 7) OBVIOUS
  <2>2. /\ d \in (now + 1)..(now + 366) /\ d % 7 = 0 /\ d <= 737
        /\ \A e \in (now + 1)..(d - 1) : e % 7 # 0 /\ e <= 737
    <3>1. PICK w \in 0..6 : w = now % 7 BY <1>1
    <3>2. PICK q \in Nat : now = 7 * q + w BY <1>1, <3>1
    <3>3. d = 7 * q + 7 BY <2>1, <3>1, <3>2
    <3>4. d % 7 = 0 BY <3>3
    <3>5. \A e \in (now + 1)..(d - 1) : e % 7 # 0 /\ e <= 737 BY ONLY <1>1, <3>2, <3>3, w \in 0..6, q \in Nat
    <3> QED BY <1>1, <3>2, <3>3, <3>4, <3>5
  <2>3. d \in Day /\ \A e \in (now + 1)..(d - 1) : e \in Day BY <1>1, <2>2 DEF Day
  <2>4. R!CronMatches(cron, d) BY <1>2, <1>4, <2>2, <2>3, WeeklyMatch
  <2>5. \A e \in (now + 1)..(d - 1) : ~R!CronMatches(cron, e) BY <1>2, <1>4, <2>2, <2>3, WeeklyMatch
  <2>6. R!NextRunFromCron(cron, now) = d BY <1>1, <2>2, <2>4, <2>5, FirstMatch
  <2> QED BY <1>2, <1>4, <2>1, <2>6, NextRuns
<1>5. PICK m \in 0..23 : m = R!MonthOf(now) BY MonthFacts
<1>6. CASE f = "monthly"
  <2>1. PICK n \in 0..24 : n = m + 1 BY NextMonths
  <2>2. R!MonthOf(now) < n /\ n <= R!MonthOf(now) + 3 BY <1>5, <2>1
  <2>3. R!CalculateNextRun(f, now) = R!FirstOf(n) BY <1>5, <1>6, <2>1, <2>2, NextRuns, SetMonthFirst
  <2>4. PICK d \in (now + 1)..(now + 366) : d = R!FirstOf(n) BY <2>2, SoonEnough
  <2>5. d \in Day BY <2>2, <2>4, SoonEnough
  <2>6. R!CronMatches(cron, d) BY <1>2, <1>6, <2>4, <2>5, FirstDay, MonthlyMatch
  <2>7. ASSUME NEW e \in (now + 1)..(d - 1), R!CronMatches(cron, e) PROVE FALSE
    <3>1. e \in Day BY <1>1, <2>5, <2>7 DEF Day
    <3>2. R!DayOfMonth(e) = 1 BY <1>2, <1>6, <2>7, <3>1, MonthlyMatch
    <3>3. R!MonthOf(now) < R!MonthOf(e) /\ R!MonthOf(e) < n BY <2>4, <2>7, <3>2, Between
    <3>4. R!MonthOf(e) \in 0..35 BY <3>1, MonthIs
    <3> QED BY <1>5, <2>1, <3>3, <3>4
  <2>8. R!NextRunFromCron(cron, now) = d BY <1>1, <2>6, <2>7, FirstMatch
  <2> QED BY <1>2, <2>3, <2>4, <2>8
<1>7. CASE f = "quarterly"
  <2>1. PICK n \in 0..24 : n = ((m \div 3) + 1) * 3 BY NextMonths
  <2>2. R!MonthOf(now) < n /\ n <= R!MonthOf(now) + 3 /\ n % 3 = 0 BY <1>5, <2>1, NextMonths
  <2>3. R!CalculateNextRun(f, now) = R!FirstOf(n) BY <1>5, <1>7, <2>1, <2>2, NextRuns, SetMonthFirst
  <2>4. PICK d \in (now + 1)..(now + 366) : d = R!FirstOf(n) BY <2>2, SoonEnough
  <2>5. d \in Day BY <2>2, <2>4, SoonEnough
  <2>6. R!CronMatches(cron, d) BY <1>2, <1>7, <2>2, <2>4, <2>5, FirstDay, QuarterlyMatch
  <2>7. ASSUME NEW e \in (now + 1)..(d - 1), R!CronMatches(cron, e) PROVE FALSE
    <3>1. e \in Day BY <1>1, <2>5, <2>7 DEF Day
    <3>2. R!DayOfMonth(e) = 1 /\ R!MonthOf(e) % 3 = 0 BY <1>2, <1>7, <2>7, <3>1, QuarterlyMatch
    <3>3. R!MonthOf(now) < R!MonthOf(e) /\ R!MonthOf(e) < n BY <2>4, <2>7, <3>2, Between
    <3>4. R!MonthOf(e) \in 0..35 BY <3>1, MonthIs
    <3>5. R!MonthOf(e) % 3 # 0 BY <1>5, <2>1, <3>3, <3>4, NextMonths
    <3> QED BY <3>2, <3>5
  <2>8. R!NextRunFromCron(cron, now) = d BY <1>1, <2>6, <2>7, FirstMatch
  <2> QED BY <1>2, <2>3, <2>4, <2>8
<1>8. CASE f = "custom"
  <2>1. R!CronForFrequency(f) = R!CustomCron BY <1>8, Crons
  <2> QED BY <1>8, <2>1, NextRuns
<1> QED BY <1>3, <1>4, <1>6, <1>7, <1>8 DEF R!Frequencies

\* A row, in the table or in memory.
ReportRow == [scheduled : BOOLEAN, frequency : R!Frequencies, next : Nat, recipients : BOOLEAN]

\* Types.
ReportTypes ==
  /\ today \in Year2 /\ report \in ReportRow
  /\ request \in {R!Idle} \cup [pc : {"read"}, row : ReportRow]
  /\ runner \in {R!Idle} \cup [pc : {"create", "save"}, row : ReportRow]
  /\ delivered \in [date : Nat, count : Nat] /\ reportFaults \in Nat /\ reportsCrossed \in BOOLEAN

\* What is served was due.
WasDue == delivered.date <= today /\ (runner.pc # "idle" => runner.row.next <= today)

\* As long as no request and run overlap, the row in memory is the stored one.
CopyIsRow ==
  /\ request.pc # "idle" => runner.pc = "idle" /\ request.row = report
  /\ runner.pc # "idle" => runner.row = report

\* The last due date was served once more than runs failed at most, and then
\* its run is not over or the next run is a later day.
ServedOnce ==
  \/ delivered.count <= reportFaults
  \/ delivered.count <= 1 + reportFaults /\ (runner.pc = "save" \/ delivered.date < report.next)

\* The inductive invariant of the reports.
ReportInv == ReportTypes /\ WasDue /\ (~reportsCrossed => CopyIsRow /\ ServedOnce)

\* The invariant holds at first,
LEMMA ReportInitial ==
  ASSUME R!Init
  PROVE  ReportInv
<1>1. today \in Year2
  <2>1. R!FirstOf(24) - 1 = 730 BY MonthLengths
  <2> QED BY <2>1, ReportAssumption DEF R!Init, Year2
<1>2. report \in ReportRow BY DEF R!Init, R!Unscheduled, ReportRow, R!Frequencies
<1>3. ReportTypes BY <1>1, <1>2 DEF R!Init, ReportTypes
<1>4. WasDue /\ CopyIsRow /\ ServedOnce BY <1>1 DEF R!Init, WasDue, CopyIsRow, ServedOnce, R!Idle, Year2
<1> QED BY <1>3, <1>4 DEF ReportInv

\* The end of a request: the row it saves has the next run of the copy it
\* read, or a later day than today.
LEMMA SavedRow ==
  ASSUME ReportInv, NEW row \in ReportRow, R!SaveReport(row), row.next = request.row.next \/ row.next > today
  PROVE  ReportInv'
<1>1. /\ request.pc = "read" /\ request' = R!Idle /\ report' = row
      /\ UNCHANGED <<today, runner, delivered, reportFaults, reportsCrossed>>
  BY DEF R!SaveReport, R!bounds
<1>2. ReportTypes' BY <1>1 DEF ReportInv, ReportTypes
<1>3. WasDue' BY <1>1 DEF ReportInv, WasDue
<1>4. ASSUME ~reportsCrossed PROVE CopyIsRow' /\ ServedOnce'
  <2>1. runner.pc = "idle" /\ request.row = report BY <1>1, <1>4 DEF ReportInv, CopyIsRow
  <2>2. CopyIsRow' BY <1>1, <2>1 DEF CopyIsRow, R!Idle
  <2>3. delivered.date \in Nat /\ delivered.count \in Nat /\ reportFaults \in Nat /\ report.next \in Nat
        /\ row.next \in Nat /\ today \in Nat /\ delivered.date <= today
    BY DEF ReportInv, ReportTypes, WasDue, ReportRow, Year2
  <2>4. delivered.count <= reportFaults \/ (delivered.count <= 1 + reportFaults /\ delivered.date < report.next)
    BY <1>4, <2>1 DEF ReportInv, ServedOnce
  <2>5. row.next = report.next \/ row.next > today BY <2>1
  <2>6. delivered.count <= reportFaults \/ (delivered.count <= 1 + reportFaults /\ delivered.date < row.next)
    BY ONLY <2>3, <2>4, <2>5
  <2>7. ServedOnce' BY <1>1, <2>6 DEF ServedOnce
  <2> QED BY <2>2, <2>7
<1> QED BY <1>1, <1>2, <1>3, <1>4 DEF ReportInv

\* and every step keeps it.
LEMMA ReportStep ==
  ASSUME ReportInv, [R!Next]_(R!vars)
  PROVE  ReportInv'
<1>0. /\ ReportTypes /\ WasDue /\ (~reportsCrossed => CopyIsRow /\ ServedOnce)
      /\ today \in Nat /\ report.next \in Nat /\ delivered.date \in Nat /\ delivered.count \in Nat /\ reportFaults \in Nat
  BY DEF ReportInv, ReportTypes, ReportRow, Year2
<1>1. CASE R!ReadReport
  <2>1. /\ request' = [pc |-> "read", row |-> report] /\ reportsCrossed' = (reportsCrossed \/ runner.pc # "idle")
        /\ UNCHANGED <<today, report, runner, delivered, reportFaults>>
    BY <1>1 DEF R!ReadReport
  <2>2. ReportTypes' BY <1>0, <2>1 DEF ReportTypes
  <2>3. WasDue' BY <1>0, <2>1 DEF WasDue
  <2>4. ~reportsCrossed' => CopyIsRow' BY <1>0, <2>1 DEF CopyIsRow
  <2>5. ~reportsCrossed' => ServedOnce' BY <1>0, <2>1 DEF ServedOnce
  <2> QED BY <2>2, <2>3, <2>4, <2>5 DEF ReportInv
<1>2. ASSUME NEW f \in R!Frequencies, NEW b \in BOOLEAN, R!ScheduleReport(f, b) PROVE ReportInv'
  <2>1. PICK n \in Nat : n = R!CalculateNextRun(f, today) /\ n > today
    BY <1>0, NextRunIsLater DEF ReportTypes
  <2>2. PICK row : row = [scheduled |-> TRUE, frequency |-> f, recipients |-> b, next |-> n] OBVIOUS
  <2>3. row \in ReportRow /\ row.next > today BY <2>1, <2>2 DEF ReportRow
  <2>4. R!SaveReport(row) BY <1>2, <2>1, <2>2 DEF R!ScheduleReport
  <2> QED BY <2>3, <2>4, SavedRow
<1>3. ASSUME NEW f \in R!Frequencies, R!UpdateSchedule(f) PROVE ReportInv'
  <2>0. request.pc = "read" BY <1>3 DEF R!UpdateSchedule, R!SaveReport
  <2>1. PICK n \in Nat : n = R!CalculateNextRun(f, today) /\ n > today
    BY <1>0, NextRunIsLater DEF ReportTypes
  <2>2. PICK row : row = [request.row EXCEPT !.frequency = f, !.next = n] OBVIOUS
  <2>3. request.row \in ReportRow BY <1>0, <2>0 DEF ReportTypes, R!Idle
  <2>4. row \in ReportRow /\ row.next > today BY <2>1, <2>2, <2>3 DEF ReportRow
  <2>5. R!SaveReport(row) BY <1>3, <2>1, <2>2 DEF R!UpdateSchedule
  <2> QED BY <2>4, <2>5, SavedRow
<1>4. ASSUME NEW b \in BOOLEAN, request.pc = "read", R!SaveReport([request.row EXCEPT !.scheduled = b]) PROVE ReportInv'
  <2>1. PICK row : row = [request.row EXCEPT !.scheduled = b] OBVIOUS
  <2>2. request.row \in ReportRow BY <1>0, <1>4 DEF ReportTypes, R!Idle
  <2>3. row \in ReportRow /\ row.next = request.row.next BY <2>1, <2>2 DEF ReportRow
  <2> QED BY <1>4, <2>1, <2>3, SavedRow
<1>5. CASE R!FindDueReports
  <2>1. /\ runner.pc = "idle" /\ report.next <= today
        /\ runner' = [pc |-> "create", row |-> report] /\ reportsCrossed' = (reportsCrossed \/ request.pc # "idle")
        /\ UNCHANGED <<today, report, request, delivered, reportFaults>>
    BY <1>5 DEF R!FindDueReports, R!Due
  <2>2. ReportTypes' BY <1>0, <2>1 DEF ReportTypes
  <2>3. WasDue' BY <1>0, <2>1 DEF WasDue
  <2>4. ~reportsCrossed' => CopyIsRow' BY <1>0, <2>1 DEF CopyIsRow
  <2>5. ~reportsCrossed' => ServedOnce' BY <1>0, <2>1 DEF ServedOnce
  <2> QED BY <2>2, <2>3, <2>4, <2>5 DEF ReportInv
<1>6. CASE R!CreateReport
  <2>1. /\ runner.pc = "create" /\ runner' = [runner EXCEPT !.pc = "save"]
        /\ delivered' = [date |-> runner.row.next,
                         count |-> IF delivered.date = runner.row.next THEN delivered.count + 1 ELSE 1]
        /\ UNCHANGED <<today, report, request, reportFaults, reportsCrossed>>
    BY <1>6 DEF R!CreateReport, R!bounds
  <2>2. runner \in [pc : {"create", "save"}, row : ReportRow] /\ runner.row.next \in Nat
    BY <1>0, <2>1 DEF ReportTypes, R!Idle, ReportRow
  <2>3. runner'.pc = "save" /\ runner'.row = runner.row /\ runner' \in [pc : {"create", "save"}, row : ReportRow]
    BY <2>1, <2>2
  <2>4. delivered' \in [date : Nat, count : Nat] BY <1>0, <2>1, <2>2
  <2>5. ReportTypes' BY <1>0, <2>1, <2>3, <2>4 DEF ReportTypes
  <2>6. WasDue' BY <1>0, <2>1, <2>3 DEF WasDue
  <2>7. ASSUME ~reportsCrossed PROVE CopyIsRow' /\ ServedOnce'
    <3>1. runner.row = report /\ request.pc = "idle" BY <1>0, <2>1, <2>7 DEF CopyIsRow
    <3>2. CopyIsRow' BY <2>1, <2>3, <3>1 DEF CopyIsRow
    <3>3. delivered.count <= reportFaults \/ (delivered.count <= 1 + reportFaults /\ delivered.date < report.next)
      BY <1>0, <2>1, <2>7 DEF ServedOnce
    <3>4. delivered'.count <= 1 + reportFaults
      <4>1. delivered'.count = IF delivered.date = report.next THEN delivered.count + 1 ELSE 1 BY <2>1, <3>1
      <4> QED BY <1>0, <3>3, <4>1
    <3>5. ServedOnce' BY <2>1, <2>3, <3>4 DEF ServedOnce
    <3> QED BY <3>2, <3>5
  <2> QED BY <2>1, <2>5, <2>6, <2>7 DEF ReportInv
<1>7. CASE R!SaveNextRun
  <2>1. /\ runner.pc = "save" /\ runner' = R!Idle
        /\ report' = [runner.row EXCEPT !.next = R!CalculateNextRun(runner.row.frequency, today)]
        /\ UNCHANGED <<today, request, delivered, reportFaults, reportsCrossed>>
    BY <1>7 DEF R!SaveNextRun, R!bounds
  <2>2. runner.row \in ReportRow BY <1>0, <2>1 DEF ReportTypes, R!Idle
  <2>3. PICK f \in R!Frequencies : f = runner.row.frequency BY <2>2 DEF ReportRow
  <2>4. PICK n \in Nat : n = R!CalculateNextRun(f, today) /\ n > today
    BY <1>0, NextRunIsLater DEF ReportTypes
  <2>5. report' \in ReportRow /\ report'.next = n BY <2>1, <2>2, <2>3, <2>4 DEF ReportRow
  <2>6. ReportTypes' BY <1>0, <2>1, <2>5 DEF ReportTypes
  <2>7. WasDue' BY <1>0, <2>1 DEF WasDue, R!Idle
  <2>8. ASSUME ~reportsCrossed PROVE CopyIsRow' /\ ServedOnce'
    <3>1. request.pc = "idle" BY <1>0, <2>1, <2>8 DEF CopyIsRow
    <3>2. CopyIsRow' BY <2>1, <3>1 DEF CopyIsRow, R!Idle
    <3>3. delivered.count <= 1 + reportFaults BY <1>0, <2>8 DEF ServedOnce
    <3>4. delivered.date < report'.next BY <1>0, <2>4, <2>5 DEF WasDue
    <3>5. ServedOnce' BY <2>1, <3>3, <3>4 DEF ServedOnce
    <3> QED BY <3>2, <3>5
  <2> QED BY <2>1, <2>6, <2>7, <2>8 DEF ReportInv
<1>8. CASE R!RunFails
  <2>1. /\ runner' = R!Idle /\ reportFaults' = reportFaults + 1
        /\ UNCHANGED <<today, report, request, delivered, reportsCrossed>>
    BY <1>8 DEF R!RunFails
  <2>2. ReportTypes' BY <1>0, <2>1 DEF ReportTypes
  <2>3. WasDue' BY <1>0, <2>1 DEF WasDue, R!Idle
  <2>4. ASSUME ~reportsCrossed PROVE CopyIsRow' /\ ServedOnce'
    <3>1. CopyIsRow' BY <1>0, <2>1, <2>4 DEF CopyIsRow, R!Idle
    <3>2. delivered.count <= 1 + reportFaults BY <1>0, <2>4 DEF ServedOnce
    <3> QED BY <1>0, <2>1, <3>1, <3>2 DEF ServedOnce
  <2> QED BY <2>1, <2>2, <2>3, <2>4 DEF ReportInv
<1>9. CASE R!Tick
  <2>1. PICK d \in {report.next, report.next + 1} : d > today /\ d < R!FirstOf(24) /\ today' = d
    BY <1>9 DEF R!Tick
  <2>2. UNCHANGED <<report, request, runner, delivered, reportFaults, reportsCrossed>> BY <1>9 DEF R!Tick, R!bounds
  <2>3. R!FirstOf(24) = 731 BY MonthLengths
  <2>4. today' \in Year2 /\ today' \in Nat /\ today < today' BY <1>0, <2>1, <2>3, SMTT(30) DEF Year2
  <2>5. ReportTypes' BY <1>0, <2>2, <2>4 DEF ReportTypes
  <2>6. WasDue'
    <3>1. runner.pc # "idle" => runner.row.next \in Nat BY <1>0 DEF ReportTypes, R!Idle, ReportRow
    <3> QED BY <1>0, <2>2, <2>4, <3>1 DEF WasDue
  <2>7. ~reportsCrossed => CopyIsRow' /\ ServedOnce' BY <1>0, <2>2 DEF CopyIsRow, ServedOnce
  <2> QED BY <2>2, <2>5, <2>6, <2>7 DEF ReportInv
<1>10. CASE UNCHANGED R!vars
  <2>1. UNCHANGED <<today, report, request, runner, delivered, reportFaults, reportsCrossed>> BY <1>10 DEF R!vars
  <2>2. ReportTypes' /\ WasDue' BY <1>0, <2>1 DEF ReportTypes, WasDue
  <2>3. ~reportsCrossed => CopyIsRow' /\ ServedOnce' BY <1>0, <2>1 DEF CopyIsRow, ServedOnce
  <2> QED BY <2>1, <2>2, <2>3 DEF ReportInv
<1>11. CASE \E b \in BOOLEAN : R!UpdateActive(b) BY <1>4, <1>11 DEF R!UpdateActive
<1>12. CASE R!RemoveSchedule BY <1>4, <1>12 DEF R!RemoveSchedule
<1> QED BY <1>1, <1>2, <1>3, <1>5, <1>6, <1>7, <1>8, <1>9, <1>10, <1>11, <1>12 DEF R!Next

\* It gives the property.
LEMMA ReportProperty ==
  ASSUME ReportInv
  PROVE  ReportsAreOnTime
<1>1. ReportTypes BY DEF ReportInv
<1>2. R!TypeOK BY <1>1 DEF ReportTypes, R!TypeOK, ReportRow, Year2
<1>3. R!OncePerDueDate
  <2>1. delivered.count \in Nat /\ reportFaults \in Nat BY <1>1 DEF ReportTypes
  <2> QED BY <2>1 DEF R!OncePerDueDate, ReportInv, ServedOnce
<1>4. R!NextRunIsCron
  <2>1. today \in Year2 /\ report.frequency \in R!Frequencies BY <1>1 DEF ReportTypes, ReportRow
  <2> QED BY <2>1, NextRunAgrees DEF R!NextRunIsCron
<1> QED BY <1>2, <1>3, <1>4 DEF ReportsAreOnTime

\* processScheduledReports makes one report for a due date, and one more for each run
\* that failed, while no request for the row overlaps a run; and calculateNextRun gives
\* the day that calculateNextRunFromCron finds for the expression stored with the
\* frequency, up to the 28th of a month. For any number of requests, runs and faults
\* in the two years of the calendar.
THEOREM ReportsOnTime == Spec => []ReportsAreOnTime
<1>1. Init => ReportInv BY ReportPart, ReportInitial
<1>2. ReportInv /\ [Next]_vars => ReportInv' BY ReportPart, ReportStep
<1>3. ReportInv => ReportsAreOnTime BY ReportProperty
<1> QED BY <1>1, <1>2, <1>3, PTL DEF Spec

-----------------------------------------------------------------------------
(* Event streams: the buffer *)

\* The streams are one of the parts of a behaviour.
LEMMA StreamPart ==
  /\ Init => F!Init
  /\ [Next]_vars => [F!Next]_(F!vars)
  BY DEF Init, Next, vars, streamVars, F!vars

\* How many of the events from a to n the buffer holds, and what it holds: the last ones.
Kept(a, n) == IF n - a + 1 <= BUFFER_MAX THEN n - a + 1 ELSE BUFFER_MAX
Window(a, n) == [i \in 1..Kept(a, n) |-> n - Kept(a, n) + i]

LEMMA WindowIs ==
  ASSUME NEW a \in Nat, NEW n \in Int, n >= a - 1
  PROVE  /\ Kept(a, n) \in Nat /\ Kept(a, n) <= n - a + 1 /\ Kept(a, n) <= BUFFER_MAX
         /\ Window(a, n) \in Seq(Nat) /\ Len(Window(a, n)) = Kept(a, n)
         /\ \A i \in 1..Kept(a, n) : Window(a, n)[i] = n - Kept(a, n) + i
<1>1. Kept(a, n) \in Nat /\ Kept(a, n) <= n - a + 1 /\ Kept(a, n) <= BUFFER_MAX
  BY StreamAssumption DEF Kept
<1>2. PICK z \in Nat : z = Kept(a, n) BY <1>1
<1>3. \A i \in 1..z : n - z + i \in Nat BY <1>1, <1>2
<1> QED BY <1>1, <1>2, <1>3 DEF Window

\* A number is pushed after the ones before it: it is no duplicate and not out of
\* place, and a full buffer gives up its first.
LEMMA PushIs ==
  ASSUME NEW a \in Nat, NEW n \in Nat, n >= a
  PROVE  F!Push(Window(a, n - 1), n) = Window(a, n)
<1> DEFINE w == Window(a, n - 1)
           room == IF Len(w) >= BUFFER_MAX THEN Tail(w) ELSE w
           added == Append(room, n)
<1>0. Kept(a, n - 1) \in Nat /\ Kept(a, n) \in Nat /\ Kept(a, n) # 0 BY StreamAssumption DEF Kept
<1>1. PICK z \in Nat, y \in Nat : z = Kept(a, n - 1) /\ y = Kept(a, n) /\ y # 0
  BY <1>0
<1>2. /\ z >= BUFFER_MAX => y = z /\ z # 0
      /\ z < BUFFER_MAX => z = n - a /\ y = z + 1
  BY <1>1, StreamAssumption DEF Kept
<1>3. /\ w \in Seq(Nat) /\ Len(w) = z /\ \A i \in 1..z : w[i] = n - 1 - z + i
  <2>1. n - 1 \in Int /\ n - 1 >= a - 1 OBVIOUS
  <2> QED BY <1>1, <2>1, WindowIs
<1>4. /\ Window(a, n) \in Seq(Nat) /\ Len(Window(a, n)) = y
      /\ \A i \in 1..y : Window(a, n)[i] = n - y + i
  <2>1. n \in Int /\ n >= a - 1 OBVIOUS
  <2> QED BY <1>1, <2>1, WindowIs
<1>5. ~F!Contains(w, n)
  <2> HIDE DEF w
  <2> SUFFICES ASSUME NEW i \in 1..Len(w), w[i] = n PROVE FALSE BY DEF F!Contains
  <2> QED BY <1>3
<1>6. F!Push(w, n) = IF Len(added) > 1 /\ added[Len(added) - 1] > n THEN SortSeq(added, <) ELSE added
  <2> HIDE DEF w
  <2> QED BY <1>5 DEF F!Push
<1> HIDE DEF w
<1>7. room \in Seq(Nat) /\ Len(room) = y - 1 /\ \A i \in 1..(y - 1) : room[i] = n - y + i
  <2>1. CASE Len(w) >= BUFFER_MAX
    <3>1. y = z /\ z # 0 /\ room = Tail(w) BY <1>2, <1>3, <2>1
    <3>2. w # <<>> BY <1>3, <3>1
    <3>3. Tail(w) \in Seq(Nat) /\ Len(Tail(w)) = z - 1 /\ \A i \in 1..(z - 1) : Tail(w)[i] = w[i + 1]
      BY <1>3, <3>2, HeadTailProperties
    <3>4. \A i \in 1..(z - 1) : i + 1 \in 1..z /\ w[i + 1] = n - z + i BY <1>3
    <3> QED BY <3>1, <3>3, <3>4
  <2>2. CASE ~(Len(w) >= BUFFER_MAX)
    <3>1. room = w /\ y = z + 1 BY <1>2, <1>3, <2>2, StreamAssumption
    <3>2. y - 1 = z /\ \A i \in 1..z : n - 1 - z + i = n - y + i BY <3>1
    <3>3. Len(room) = z /\ \A i \in 1..z : room[i] = n - y + i BY <1>3, <3>1, <3>2
    <3> QED BY <1>3, <3>1, <3>2, <3>3
  <2> QED BY <2>1, <2>2
<1> HIDE DEF room
<1>8. /\ added \in Seq(Nat) /\ Len(added) = y /\ added[y] = n
      /\ \A i \in 1..(y - 1) : added[i] = room[i]
  BY <1>1, <1>7, AppendProperties
<1> HIDE DEF added
<1>9. F!Push(w, n) = added
  <2>1. ASSUME Len(added) > 1 PROVE ~(added[Len(added) - 1] > n)
    <3>1. y - 1 \in 1..(y - 1) BY <1>1, <1>8, <2>1
    <3>2. added[y - 1] = n - y + (y - 1) BY <1>7, <1>8, <3>1
    <3> QED BY <1>1, <1>8, <3>2
  <2> QED BY <1>6, <2>1
<1>10. \A i \in 1..y : added[i] = Window(a, n)[i]
  <2> TAKE i \in 1..y
  <2>1. CASE i = y BY <1>1, <1>4, <1>8, <2>1
  <2>2. CASE i # y
    <3>1. i \in 1..(y - 1) BY <1>1, <2>2
    <3> QED BY <1>4, <1>7, <1>8, <3>1
  <2> QED BY <2>1, <2>2
<1>11. added = Window(a, n) BY <1>4, <1>8, <1>10, SeqEqual
<1> QED BY <1>9, <1>11 DEF w

\* The recursion of PushBatch.
IsOrder(f, a, b) == f = [n \in a - 1 .. b |-> IF n = a - 1 THEN <<>> ELSE F!Push(f[n - 1], n)]

\* It has one solution: after each push the buffer is the window.
LEMMA OrderIs ==
  ASSUME NEW a \in Nat \ {0}, NEW b \in Nat, b >= a - 1, NEW f, IsOrder(f, a, b)
  PROVE  f[b] = Window(a, b)
<1>1. \A n \in a - 1 .. b : f[n] = IF n = a - 1 THEN <<>> ELSE F!Push(f[n - 1], n) BY Zenon DEF IsOrder
<1> DEFINE Bad == {n \in Nat : n \in a - 1 .. b /\ f[n] # Window(a, n)}
<1> SUFFICES ASSUME Bad # {} PROVE FALSE
  OBVIOUS
<1>2. PICK m \in Bad : \A k \in Bad : m <= k
  <2>1. Bad \in SUBSET Nat OBVIOUS
  <2> HIDE DEF Bad
  <2> QED BY <2>1, LeastNat
<1>3. m \in Nat /\ m \in a - 1 .. b /\ f[m] # Window(a, m) BY <1>2
<1>4. CASE m = a - 1
  <2>1. f[m] = <<>> BY <1>1, <1>3, <1>4
  <2>2. Window(a, m) \in Seq(Nat) /\ Len(Window(a, m)) = 0
    <3>1. m \in Int /\ m >= a - 1 /\ m - a + 1 = 0 BY <1>3, <1>4
    <3>2. Kept(a, m) \in Nat /\ Kept(a, m) <= m - a + 1 BY <3>1, WindowIs
    <3>3. Kept(a, m) = 0 BY <3>1, <3>2
    <3> QED BY <3>1, <3>3, WindowIs
  <2>3. Window(a, m) = <<>> BY <2>2, EmptySeq
  <2> QED BY <1>3, <2>1, <2>3
<1>5. CASE m # a - 1
  <2>1. m - 1 \in Nat /\ m - 1 \in a - 1 .. b /\ m >= a BY <1>3, <1>5
  <2>2. m - 1 \notin Bad BY <1>2, <1>3, <2>1
  <2>3. f[m - 1] = Window(a, m - 1) BY <2>1, <2>2
  <2>4. f[m] = F!Push(f[m - 1], m) BY <1>1, <1>3, <1>5
  <2>5. F!Push(Window(a, m - 1), m) = Window(a, m) BY <1>3, <2>1, PushIs
  <2> QED BY <1>3, <2>3, <2>4, <2>5
<1> QED BY <1>4, <1>5

LEMMA PushBatchIs ==
  ASSUME NEW a \in Nat \ {0}, NEW b \in Nat, b >= a - 1
  PROVE  F!PushBatch(a, b) = Window(a, b)
<1> DEFINE g == [n \in a - 1 .. b |-> Window(a, n)]
           fs == CHOOSE f : f = [n \in a - 1 .. b |-> IF n = a - 1 THEN <<>> ELSE F!Push(f[n - 1], n)]
<1>1. ASSUME NEW n \in a - 1 .. b PROVE Window(a, n) = IF n = a - 1 THEN <<>> ELSE F!Push(g[n - 1], n)
  <2>1. CASE n = a - 1
    <3>1. Window(a, n) \in Seq(Nat) /\ Len(Window(a, n)) = 0 BY <2>1, WindowIs
    <3> QED BY <2>1, <3>1, EmptySeq
  <2>2. CASE n # a - 1
    <3>1. n - 1 \in a - 1 .. b /\ n \in Nat /\ n >= a BY <2>2
    <3>2. g[n - 1] = Window(a, n - 1) BY <3>1
    <3>3. F!Push(Window(a, n - 1), n) = Window(a, n) BY <3>1, PushIs
    <3> QED BY <2>2, <3>2, <3>3
  <2> QED BY <2>1, <2>2
<1>2. g = [n \in a - 1 .. b |-> IF n = a - 1 THEN <<>> ELSE F!Push(g[n - 1], n)] BY <1>1
<1> HIDE DEF g
<1>3. fs = [n \in a - 1 .. b |-> IF n = a - 1 THEN <<>> ELSE F!Push(fs[n - 1], n)] BY <1>2
<1>4. F!PushBatch(a, b) = fs[b] BY DEF F!PushBatch
<1> HIDE DEF fs
<1>5. IsOrder(fs, a, b) BY <1>3 DEF IsOrder
<1> QED BY <1>4, <1>5, OrderIs

-----------------------------------------------------------------------------
(* Event streams: the distribution *)

\* Each number once, and in order.
Ascending(q) == \A i, j \in 1..Len(q) : i < j => q[i] < q[j]

\* A number above the others goes to the end.
LEMMA AscendingAppend ==
  ASSUME NEW q \in Seq(Nat), Ascending(q), NEW n \in Nat, \A y \in Entries(q) : y < n
  PROVE  /\ Append(q, n) \in Seq(Nat) /\ Ascending(Append(q, n))
         /\ Entries(Append(q, n)) = Entries(q) \cup {n}
<1> DEFINE p == Append(q, n)
<1>1. /\ p \in Seq(Nat) /\ Len(q) \in Nat /\ Len(p) = Len(q) + 1
      /\ \A i \in 1..Len(q) : p[i] = q[i] /\ q[i] \in Entries(q)
      /\ p[Len(q) + 1] = n
  BY AppendProperties, LenProperties DEF Entries
<1> HIDE DEF p
<1>2. \A i \in 1..Len(p) : i \in 1..Len(q) \/ i = Len(q) + 1 BY <1>1
<1>3. ASSUME NEW i \in 1..Len(p), NEW j \in 1..Len(p), i < j PROVE p[i] < p[j]
  <2>1. i \in 1..Len(q) BY <1>1, <1>3
  <2>2. CASE j \in 1..Len(q)
    <3>1. q[i] < q[j] BY <1>3, <2>1, <2>2 DEF Ascending
    <3> QED BY <1>1, <2>1, <2>2, <3>1
  <2>3. CASE j = Len(q) + 1 BY <1>1, <2>1, <2>3
  <2> QED BY <1>2, <2>2, <2>3
<1>4. Ascending(p) BY <1>3 DEF Ascending
<1>5. Entries(p) = Entries(q) \cup {n}
  <2>1. \A i \in 1..Len(q) : i \in 1..Len(p) BY <1>1
  <2>2. Len(q) + 1 \in 1..Len(p) BY <1>1
  <2> QED BY <1>1, <1>2, <2>1, <2>2 DEF Entries
<1> QED BY <1>1, <1>4, <1>5 DEF p

\* The recursion of DistributeTo, on the first n of the events e: those in Hit are
\* sent.
IsSent(f, q, e, Hit, n) ==
  f = [k \in 0..n |-> IF k = 0 THEN q ELSE IF e[k] \in Hit THEN Append(f[k - 1], e[k]) ELSE f[k - 1]]

\* A function that satisfies it exists.
LEMMA SentExists ==
  ASSUME NEW q, NEW e, NEW Hit
  PROVE  \A n \in Nat : \E f : IsSent(f, q, e, Hit, n)
<1> DEFINE Bad == {n \in Nat : ~\E f : IsSent(f, q, e, Hit, n)}
<1> SUFFICES ASSUME Bad # {} PROVE FALSE
  OBVIOUS
<1>1. PICK m \in Bad : \A k \in Bad : m <= k
  <2>1. Bad \in SUBSET Nat OBVIOUS
  <2> HIDE DEF Bad
  <2> QED BY <2>1, LeastNat
<1>2. m # 0
  <2> SUFFICES ASSUME m = 0 PROVE FALSE OBVIOUS
  <2> DEFINE f == [k \in 0..0 |-> q]
  <2>1. IsSent(f, q, e, Hit, 0)
    <3>1. 0..0 = {0} OBVIOUS
    <3> QED BY <3>1 DEF IsSent
  <2> QED BY <1>1, <2>1
<1>3. m - 1 \in Nat /\ m - 1 \notin Bad BY <1>1, <1>2
<1>4. PICK g : IsSent(g, q, e, Hit, m - 1) BY <1>3
<1> DEFINE Rec(k) == IF k = 0 THEN q ELSE IF e[k] \in Hit THEN Append(g[k - 1], e[k]) ELSE g[k - 1]
           f == [k \in 0..m |-> Rec(k)]
<1>5. \A k \in 0..(m - 1) : k \in 0..m /\ g[k] = Rec(k)
  <2>1. g = [k \in 0..(m - 1) |-> Rec(k)] BY <1>4 DEF IsSent
  <2>2. \A k \in 0..(m - 1) : k \in 0..m BY <1>3
  <2> HIDE DEF Rec
  <2> QED BY <2>1, <2>2
<1>6. \A k \in 0..m : k # 0 => k - 1 \in 0..(m - 1) BY <1>3
<1>7. IsSent(f, q, e, Hit, m)
  <2>1. \A k \in 0..m : k # 0 => f[k - 1] = g[k - 1] BY <1>5, <1>6
  <2>2. \A k \in 0..m : Rec(k) = IF k = 0 THEN q ELSE IF e[k] \in Hit THEN Append(f[k - 1], e[k]) ELSE f[k - 1]
    <3> HIDE DEF f
    <3> QED BY <2>1
  <2> QED BY <2>2 DEF IsSent
<1> QED BY <1>1, <1>7

\* Older than number lo, and numbered from lo.
Older(q, lo) == \A y \in Entries(q) : y < lo
NumberedFrom(e, lo, n) == \A k \in 1..n : e[k] = lo + k - 1

\* What such a function says of events in order that are all newer than what was
\* sent before.
LEMMA SentIs ==
  ASSUME NEW q \in Seq(Nat), Ascending(q), NEW lo \in Nat, Older(q, lo),
         NEW e, NEW Hit, NEW n \in Nat, NumberedFrom(e, lo, n), NEW f, IsSent(f, q, e, Hit, n)
  PROVE  /\ f[n] \in Seq(Nat) /\ Ascending(f[n])
         /\ Entries(f[n]) = Entries(q) \cup (lo..(lo + n - 1) \cap Hit)
<1>1. \A k \in 0..n : f[k] = IF k = 0 THEN q ELSE IF e[k] \in Hit THEN Append(f[k - 1], e[k]) ELSE f[k - 1]
  BY Zenon DEF IsSent
<1> DEFINE Good(k) == /\ f[k] \in Seq(Nat) /\ Ascending(f[k])
                      /\ Entries(f[k]) = Entries(q) \cup (lo..(lo + k - 1) \cap Hit)
           Bad == {k \in Nat : k \in 0..n /\ ~Good(k)}
<1> SUFFICES ASSUME Bad # {} PROVE FALSE
  OBVIOUS
<1>2. PICK m \in Bad : \A k \in Bad : m <= k
  <2>1. Bad \in SUBSET Nat OBVIOUS
  <2> HIDE DEF Bad
  <2> QED BY <2>1, LeastNat
<1>3. m \in Nat /\ m \in 0..n /\ ~Good(m) BY <1>2
<1>4. CASE m = 0
  <2>1. f[m] = q BY <1>1, <1>3, <1>4
  <2>2. (lo..(lo + m - 1) \cap Hit) = {} BY <1>4
  <2>3. Good(m) BY <2>1, <2>2
  <2> QED BY <1>3, <2>3
<1>5. CASE m # 0
  <2>1. m - 1 \in Nat /\ m - 1 \in 0..n /\ m \in 1..n BY <1>3, <1>5
  <2>2. Good(m - 1) BY <1>2, <1>3, <2>1
  <2>3. e[m] = lo + m - 1 /\ lo + m - 1 \in Nat BY <2>1 DEF NumberedFrom
  <2>4. f[m] = IF e[m] \in Hit THEN Append(f[m - 1], e[m]) ELSE f[m - 1] BY <1>1, <1>3, <1>5
  <2>5. \A y \in Entries(f[m - 1]) : y < e[m]
    <3>1. \A y \in Entries(f[m - 1]) : y \in Entries(q) \/ y \in lo..(lo + (m - 1) - 1) BY <2>2
    <3>2. \A y \in Entries(q) : y \in Nat BY ElementOfSeq, SMTT(30) DEF Entries
    <3>3. \A y \in Entries(q) : y < lo BY DEF Older
    <3>4. \A y \in Entries(q) : y < e[m] BY <2>1, <2>3, <3>2, <3>3
    <3>5. \A y \in lo..(lo + (m - 1) - 1) : y < e[m] BY <2>1, <2>3
    <3> QED BY <3>1, <3>4, <3>5
  <2>6. lo..(lo + m - 1) = lo..(lo + (m - 1) - 1) \cup {e[m]} BY <2>1, <2>3
  <2>7. CASE e[m] \in Hit
    <3>1. /\ Append(f[m - 1], e[m]) \in Seq(Nat) /\ Ascending(Append(f[m - 1], e[m]))
          /\ Entries(Append(f[m - 1], e[m])) = Entries(f[m - 1]) \cup {e[m]}
      BY <2>2, <2>3, <2>5, AscendingAppend
    <3>2. (lo..(lo + m - 1) \cap Hit) = (lo..(lo + (m - 1) - 1) \cap Hit) \cup {e[m]}
      BY <2>6, <2>7
    <3>3. Good(m) BY <2>2, <2>4, <2>7, <3>1, <3>2
    <3> QED BY <1>3, <3>3
  <2>8. CASE e[m] \notin Hit
    <3>1. (lo..(lo + m - 1) \cap Hit) = (lo..(lo + (m - 1) - 1) \cap Hit) BY <2>6, <2>8
    <3>2. Good(m) BY <2>2, <2>4, <2>8, <3>1
    <3> QED BY <1>3, <3>2
  <2> QED BY <2>7, <2>8
<1> QED BY <1>4, <1>5

\* What is sent of the events from lo to hi.
Sends(s, lo, hi, types) == {n \in lo .. hi : F!Reaches(s, types[n], n)}

\* What a subscription has been sent after a transaction.
LEMMA DistributeIs ==
  ASSUME NEW s, received[s] \in Seq(Nat), Ascending(received[s]), NEW lo \in Nat,
         Older(received[s], lo), NEW e \in Seq(Nat), NEW types, NumberedFrom(e, lo, Len(e)),
         NEW hi, hi = lo + Len(e) - 1
  PROVE  /\ F!DistributeTo(s, e, types) \in Seq(Nat)
         /\ Ascending(F!DistributeTo(s, e, types))
         /\ Entries(F!DistributeTo(s, e, types)) = Entries(received[s]) \cup Sends(s, lo, hi, types)
<1>0. Len(e) \in Nat BY LenProperties
<1> DEFINE Hit == {n \in Nat : F!Reaches(s, types[n], n)}
           q == received[s]
           fs == CHOOSE f : f = [k \in 0..Len(e) |->
                    IF k = 0 THEN q
                    ELSE IF F!Reaches(s, types[e[k]], e[k]) THEN Append(f[k - 1], e[k]) ELSE f[k - 1]]
<1>1. \A k \in 0..Len(e) : k # 0 => (F!Reaches(s, types[e[k]], e[k]) <=> e[k] \in Hit)
  <2>1. \A k \in 0..Len(e) : k # 0 => e[k] \in Nat BY <1>0, ElementOfSeq
  <2> QED BY <2>1
<1>2. \E f : IsSent(f, q, e, Hit, Len(e)) BY <1>0, SentExists
<1>3. F!DistributeTo(s, e, types) = fs[Len(e)] BY DEF F!DistributeTo
<1> HIDE DEF Hit
<1>4. ASSUME NEW f
      PROVE  IsSent(f, q, e, Hit, Len(e)) <=>
                f = [k \in 0..Len(e) |->
                    IF k = 0 THEN q
                    ELSE IF F!Reaches(s, types[e[k]], e[k]) THEN Append(f[k - 1], e[k]) ELSE f[k - 1]]
  BY <1>1 DEF IsSent
<1>5. IsSent(fs, q, e, Hit, Len(e)) BY <1>2, <1>4
<1> HIDE DEF fs
<1>6. /\ fs[Len(e)] \in Seq(Nat) /\ Ascending(fs[Len(e)])
      /\ Entries(fs[Len(e)]) = Entries(q) \cup (lo..(lo + Len(e) - 1) \cap Hit)
  <2>1. PICK p, X, g : p = received[s] /\ X = Hit /\ g = fs OBVIOUS
  <2>2. p \in Seq(Nat) /\ Ascending(p) /\ Older(p, lo) BY <2>1
  <2>3. PICK m \in Nat : m = Len(e) BY <1>0
  <2>4. NumberedFrom(e, lo, m) BY <2>3
  <2>5. IsSent(g, p, e, X, m) BY <1>5, <2>1, <2>3
  <2>6. /\ g[m] \in Seq(Nat) /\ Ascending(g[m])
        /\ Entries(g[m]) = Entries(p) \cup (lo..(lo + m - 1) \cap X)
    BY <2>2, <2>4, <2>5, SentIs
  <2> QED BY <2>1, <2>3, <2>6
<1>7. (lo..(lo + Len(e) - 1) \cap Hit) = Sends(s, lo, lo + Len(e) - 1, types)
  <2>1. \A x \in lo..(lo + Len(e) - 1) : x \in Nat BY <1>0
  <2> QED BY <2>1 DEF Hit, Sends
<1> QED BY <1>3, <1>6, <1>7

-----------------------------------------------------------------------------
(* Event streams: the steps *)

Subscription == [client : Clients, types : SUBSET EventTypes, from : Nat]

StreamTypes ==
  /\ connected \subseteq Clients
  /\ subscriptions \in Seq(Subscription \cup {F!Gone})
  /\ clientIndex \in [Clients -> SUBSET Nat]
  /\ numbered \in Seq(EventTypes)
  /\ received \in Seq(Seq(Nat)) /\ since \in Seq(Nat) /\ evicted \subseteq Nat
  /\ Len(received) = Len(subscriptions) /\ Len(since) = Len(subscriptions)

\* What was sent is older than the next event and in order, also to a subscription
\* that is gone.
SentInOrder ==
  \A s \in F!SubIds :
     /\ Ascending(received[s]) /\ \A n \in Entries(received[s]) : n <= Len(numbered)
     /\ since[s] <= Len(numbered)

\* What subscription s asks for.
Wanted(s) ==
  {n \in since[s] + 1 .. Len(numbered) :
     n \notin evicted /\ F!MatchesSubscription(numbered[n], n, subscriptions[s])}

SentIsWanted == \A s \in F!LiveSubs : Entries(received[s]) = Wanted(s)

\* The reverse index.
IndexIsRight ==
  /\ \A c \in Clients : clientIndex[c] = {s \in F!LiveSubs : subscriptions[s].client = c}
  /\ \A s \in F!LiveSubs : subscriptions[s].client \in connected

EvictedFirst == \A n \in evicted : n + BUFFER_MAX <= Len(numbered)

\* The inductive invariant of the streams. The property is about live subscriptions;
\* that a new event may be appended needs the bound on the numbers sent so far.
StreamInv == StreamTypes /\ SentInOrder /\ SentIsWanted /\ IndexIsRight /\ EvictedFirst

LEMMA StreamFacts ==
  ASSUME StreamTypes
  PROVE  /\ Len(subscriptions) \in Nat /\ Len(numbered) \in Nat
         /\ \A s \in F!SubIds : /\ subscriptions[s] \in Subscription \cup {F!Gone}
                                /\ received[s] \in Seq(Nat) /\ since[s] \in Nat
         /\ F!SubIds \subseteq Nat
         /\ \A s \in F!LiveSubs : s \in F!SubIds /\ subscriptions[s] \in Subscription
  BY LenProperties, ElementOfSeq DEF StreamTypes, F!SubIds, F!LiveSubs

\* A subscription is not the mark of a removed one.
LEMMA GoneIsNone == ASSUME NEW x \in Subscription PROVE x # F!Gone
<1>1. "types" \in DOMAIN x BY DEF Subscription
<1>2. "types" \notin DOMAIN F!Gone BY DEF F!Gone
<1> QED BY <1>1, <1>2

LEMMA StreamInit == F!Init => StreamInv
<1> SUFFICES ASSUME F!Init PROVE StreamInv OBVIOUS
<1>1. /\ connected = {} /\ subscriptions = <<>> /\ clientIndex = [c \in Clients |-> {}]
      /\ numbered = <<>> /\ received = <<>> /\ since = <<>> /\ evicted = {}
  BY DEF F!Init
<1>2. F!SubIds = {} /\ F!LiveSubs = {} BY <1>1 DEF F!SubIds, F!LiveSubs
<1>3. StreamTypes BY <1>1 DEF StreamTypes
<1> QED BY <1>1, <1>2, <1>3 DEF StreamInv, SentInOrder, SentIsWanted, IndexIsRight, EvictedFirst

LEMMA ConnectStream ==
  ASSUME StreamInv, NEW c \in Clients, F!HandleConnection(c) PROVE StreamInv'
<1>1. connected' = connected \cup {c} /\ UNCHANGED <<subscriptions, clientIndex, numbered, received, since, evicted>>
  BY DEF F!HandleConnection
<1>2. F!SubIds' = F!SubIds /\ F!LiveSubs' = F!LiveSubs BY <1>1 DEF F!SubIds, F!LiveSubs
<1>3. StreamTypes' BY <1>1 DEF StreamInv, StreamTypes
<1>4. SentInOrder' BY <1>1, <1>2 DEF StreamInv, SentInOrder
<1>5. SentIsWanted' BY <1>1, <1>2 DEF StreamInv, SentIsWanted, Wanted
<1>6. IndexIsRight' BY <1>1, <1>2 DEF StreamInv, IndexIsRight
<1>7. EvictedFirst' BY <1>1 DEF StreamInv, EvictedFirst
<1> QED BY <1>3, <1>4, <1>5, <1>6, <1>7 DEF StreamInv

\* Removing subscriptions leaves what the others were sent alone.
LEMMA RemoveStream ==
  ASSUME StreamInv, NEW Ended \in SUBSET F!SubIds, subscriptions' \in Seq(Subscription \cup {F!Gone}),
         Len(subscriptions') = Len(subscriptions),
         \A s \in F!SubIds : subscriptions'[s] = IF s \in Ended THEN F!Gone ELSE subscriptions[s],
         UNCHANGED <<numbered, received, since, evicted>>,
         connected' \subseteq Clients, clientIndex' \in [Clients -> SUBSET Nat]
  PROVE  /\ StreamTypes' /\ SentInOrder' /\ SentIsWanted' /\ EvictedFirst'
         /\ F!LiveSubs' = F!LiveSubs \ Ended /\ \A s \in F!LiveSubs' : subscriptions'[s] = subscriptions[s]
<1>1. StreamTypes' BY DEF StreamInv, StreamTypes
<1>2. F!SubIds' = F!SubIds BY DEF F!SubIds
<1>3. F!LiveSubs' = F!LiveSubs \ Ended BY <1>2 DEF F!LiveSubs
<1>4. \A s \in F!LiveSubs' : s \in F!LiveSubs /\ subscriptions'[s] = subscriptions[s] BY <1>2, <1>3 DEF F!LiveSubs
<1>5. SentInOrder' BY <1>2 DEF StreamInv, SentInOrder
<1>6. SentIsWanted'
  <2> SUFFICES ASSUME NEW s \in F!LiveSubs' PROVE Entries(received[s]) = Wanted(s)' BY DEF SentIsWanted
  <2>1. Entries(received[s]) = Wanted(s) BY <1>4 DEF StreamInv, SentIsWanted
  <2>2. Wanted(s)' = Wanted(s) BY <1>4 DEF Wanted
  <2> QED BY <2>1, <2>2
<1>7. EvictedFirst' BY DEF StreamInv, EvictedFirst
<1> QED BY <1>1, <1>3, <1>4, <1>5, <1>6, <1>7

LEMMA DisconnectStream ==
  ASSUME StreamInv, NEW c \in Clients, F!HandleDisconnect(c) PROVE StreamInv'
<1>0. StreamTypes /\ IndexIsRight BY DEF StreamInv
<1>1. /\ connected' = connected \ {c} /\ clientIndex' = [clientIndex EXCEPT ![c] = {}]
      /\ subscriptions' = [s \in F!SubIds |-> IF s \in clientIndex[c] THEN F!Gone ELSE subscriptions[s]]
      /\ UNCHANGED <<numbered, received, since, evicted>>
  BY DEF F!HandleDisconnect
<1>2. clientIndex[c] = {s \in F!LiveSubs : subscriptions[s].client = c} BY <1>0 DEF IndexIsRight
<1>3. clientIndex[c] \in SUBSET F!SubIds BY <1>2 DEF F!LiveSubs
<1>4. subscriptions' \in Seq(Subscription \cup {F!Gone}) /\ Len(subscriptions') = Len(subscriptions)
  <2>1. PICK n \in Nat : n = Len(subscriptions) BY <1>0, StreamFacts
  <2>2. \A s \in 1..n : subscriptions[s] \in Subscription \cup {F!Gone} BY <1>0, <2>1, StreamFacts DEF F!SubIds
  <2>3. subscriptions' = [s \in 1..n |-> IF s \in clientIndex[c] THEN F!Gone ELSE subscriptions[s]]
    BY <1>1, <2>1 DEF F!SubIds
  <2> QED BY <2>1, <2>2, <2>3
<1>5. \A s \in F!SubIds : subscriptions'[s] = IF s \in clientIndex[c] THEN F!Gone ELSE subscriptions[s] BY <1>1
<1>6. connected' \subseteq Clients /\ clientIndex' \in [Clients -> SUBSET Nat]
  <2>1. connected \subseteq Clients /\ clientIndex \in [Clients -> SUBSET Nat] BY <1>0 DEF StreamTypes
  <2>2. connected' = connected \ {c} BY <1>1
  <2>3. clientIndex' = [clientIndex EXCEPT ![c] = {}] BY <1>1, SMTT(30)
  <2> QED BY <2>1, <2>2, <2>3
<1>7. /\ StreamTypes' /\ SentInOrder' /\ SentIsWanted' /\ EvictedFirst'
      /\ F!LiveSubs' = F!LiveSubs \ clientIndex[c] /\ \A s \in F!LiveSubs' : subscriptions'[s] = subscriptions[s]
  BY <1>1, <1>3, <1>4, <1>5, <1>6, RemoveStream
<1>8. \A s \in F!LiveSubs' : s \in F!LiveSubs /\ subscriptions[s].client # c BY <1>2, <1>7
<1>9. IndexIsRight'
  <2>1. \A d \in Clients : clientIndex'[d] = {s \in F!LiveSubs' : subscriptions'[s].client = d}
    <3> TAKE d \in Clients
    <3>1. CASE d = c
      <4>1. clientIndex'[d] = {} BY <1>0, <1>1, <3>1 DEF StreamTypes
      <4>2. {s \in F!LiveSubs' : subscriptions'[s].client = d} = {} BY <1>7, <1>8, <3>1
      <4> QED BY <4>1, <4>2
    <3>2. CASE d # c
      <4>1. clientIndex'[d] = {s \in F!LiveSubs : subscriptions[s].client = d}
        BY <1>0, <1>1, <3>2 DEF StreamTypes, IndexIsRight
      <4>2. \A s \in F!LiveSubs : subscriptions[s].client = d => s \in F!LiveSubs' BY <1>2, <1>7, <3>2
      <4> QED BY <1>7, <1>8, <4>1, <4>2
    <3> QED BY <3>1, <3>2
  <2>2. \A s \in F!LiveSubs' : subscriptions'[s].client \in connected'
    BY <1>0, <1>1, <1>7, <1>8 DEF IndexIsRight
  <2> QED BY <2>1, <2>2 DEF IndexIsRight
<1> QED BY <1>7, <1>9 DEF StreamInv

LEMMA UnsubscribeStream ==
  ASSUME StreamInv, NEW c \in Clients, NEW s \in F!SubIds, F!HandleUnsubscribe(c, s) PROVE StreamInv'
<1>0. StreamTypes /\ IndexIsRight BY DEF StreamInv
<1>1. /\ subscriptions[s] # F!Gone /\ subscriptions' = [subscriptions EXCEPT ![s] = F!Gone]
      /\ clientIndex' = [clientIndex EXCEPT ![subscriptions[s].client] = @ \ {s}]
      /\ UNCHANGED <<connected, numbered, received, since, evicted>>
  BY DEF F!HandleUnsubscribe
<1>2. s \in F!LiveSubs BY <1>1 DEF F!LiveSubs
<1>3. PICK o \in Clients : o = subscriptions[s].client BY <1>0, <1>2, StreamFacts DEF Subscription
<1>4. /\ subscriptions' \in Seq(Subscription \cup {F!Gone}) /\ Len(subscriptions') = Len(subscriptions)
      /\ \A t \in F!SubIds : subscriptions'[t] = IF t = s THEN F!Gone ELSE subscriptions[t]
  <2>1. s \in 1..Len(subscriptions) BY DEF F!SubIds
  <2> QED BY <1>0, <1>1, <2>1, ExceptSeq DEF StreamTypes, F!SubIds
<1>5. clientIndex' = [clientIndex EXCEPT ![o] = @ \ {s}] BY <1>1, <1>3
<1>6. connected' \subseteq Clients /\ clientIndex' \in [Clients -> SUBSET Nat]
  <2>1. connected \subseteq Clients /\ clientIndex \in [Clients -> SUBSET Nat] BY <1>0 DEF StreamTypes
  <2>2. connected' = connected BY <1>1
  <2> QED BY <1>5, <2>1, <2>2
<1>7. /\ StreamTypes' /\ SentInOrder' /\ SentIsWanted' /\ EvictedFirst'
      /\ F!LiveSubs' = F!LiveSubs \ {s} /\ \A t \in F!LiveSubs' : subscriptions'[t] = subscriptions[t]
  <2>1. {s} \in SUBSET F!SubIds OBVIOUS
  <2>2. \A t \in F!SubIds : subscriptions'[t] = IF t \in {s} THEN F!Gone ELSE subscriptions[t] BY <1>4
  <2> QED BY <1>1, <1>4, <1>6, <2>1, <2>2, RemoveStream
<1>8. IndexIsRight'
  <2>1. \A d \in Clients : clientIndex'[d] = {t \in F!LiveSubs' : subscriptions'[t].client = d}
    <3> TAKE d \in Clients
    <3>1. clientIndex[d] = {t \in F!LiveSubs : subscriptions[t].client = d} BY <1>0 DEF IndexIsRight
    <3>2. {t \in F!LiveSubs' : subscriptions'[t].client = d} = clientIndex[d] \ {s} BY <1>7, <3>1
    <3>3. CASE d = o BY <1>0, <1>5, <3>2, <3>3 DEF StreamTypes
    <3>4. CASE d # o
      <4>1. s \notin clientIndex[d] BY <1>3, <3>1, <3>4
      <4> QED BY <1>0, <1>5, <3>2, <3>4, <4>1 DEF StreamTypes
    <3> QED BY <3>3, <3>4
  <2>2. \A t \in F!LiveSubs' : subscriptions'[t].client \in connected' BY <1>0, <1>1, <1>7 DEF IndexIsRight
  <2> QED BY <2>1, <2>2 DEF IndexIsRight
<1> QED BY <1>7, <1>8 DEF StreamInv

LEMMA SubscribeStream ==
  ASSUME StreamInv, NEW c \in Clients, NEW types \in SUBSET EventTypes, NEW fromEvent \in Nat,
         F!HandleSubscribe(c, types, fromEvent)
  PROVE  StreamInv'
<1>0. StreamTypes /\ SentInOrder /\ SentIsWanted /\ IndexIsRight BY DEF StreamInv
<1> DEFINE sub == [client |-> c, types |-> types, from |-> fromEvent]
<1>1. /\ c \in connected /\ subscriptions' = Append(subscriptions, sub)
      /\ clientIndex' = [clientIndex EXCEPT ![c] = @ \cup {Len(subscriptions) + 1}]
      /\ received' = Append(received, <<>>) /\ since' = Append(since, Len(numbered))
      /\ UNCHANGED <<connected, numbered, evicted>>
  BY DEF F!HandleSubscribe
<1>2. sub \in Subscription /\ sub # F!Gone /\ sub.client = c
  <2>1. sub \in Subscription /\ sub.client = c BY DEF Subscription
  <2> HIDE DEF sub
  <2> QED BY <2>1, GoneIsNone
<1> HIDE DEF sub
<1>3. PICK n \in Nat : n = Len(subscriptions) BY <1>0, StreamFacts
<1>4. /\ subscriptions' \in Seq(Subscription \cup {F!Gone}) /\ Len(subscriptions') = n + 1
      /\ subscriptions'[n + 1] = sub /\ \A s \in 1..n : subscriptions'[s] = subscriptions[s]
  BY <1>0, <1>1, <1>2, <1>3, AppendProperties DEF StreamTypes
<1>5. /\ received' \in Seq(Seq(Nat)) /\ Len(received') = n + 1
      /\ received'[n + 1] = <<>> /\ \A s \in 1..n : received'[s] = received[s]
  <2>1. <<>> \in Seq(Nat) OBVIOUS
  <2> QED BY <1>0, <1>1, <1>3, <2>1, AppendProperties DEF StreamTypes
<1>6. /\ since' \in Seq(Nat) /\ Len(since') = n + 1
      /\ since'[n + 1] = Len(numbered) /\ \A s \in 1..n : since'[s] = since[s]
  <2>1. Len(numbered) \in Nat BY <1>0, StreamFacts
  <2> QED BY <1>0, <1>1, <1>3, <2>1, AppendProperties DEF StreamTypes
<1>7. F!SubIds = 1..n /\ F!SubIds' = 1..(n + 1) /\ \A s \in 1..(n + 1) : s \in 1..n \/ s = n + 1
  BY <1>3, <1>4 DEF F!SubIds
<1>8. F!LiveSubs \subseteq 1..n /\ F!LiveSubs' = F!LiveSubs \cup {n + 1} /\ n + 1 \notin F!LiveSubs
  <2>1. n + 1 \in 1..(n + 1) /\ n + 1 \notin 1..n /\ 1..n \subseteq 1..(n + 1) OBVIOUS
  <2> QED BY <1>2, <1>4, <1>7, <2>1 DEF F!LiveSubs
<1>9. StreamTypes'
  <2>1. clientIndex' \in [Clients -> SUBSET Nat] BY <1>0, <1>1, <1>3 DEF StreamTypes
  <2> QED BY <1>0, <1>1, <1>4, <1>5, <1>6, <2>1 DEF StreamTypes
<1>10. Entries(<<>>) = {} /\ Ascending(<<>>) BY DEF Entries, Ascending
<1>11. SentInOrder'
  <2> SUFFICES ASSUME NEW s \in 1..(n + 1)
               PROVE  /\ Ascending(received'[s]) /\ \A x \in Entries(received'[s]) : x <= Len(numbered)
                      /\ since'[s] <= Len(numbered)
    BY <1>1, <1>7 DEF SentInOrder
  <2>1. CASE s = n + 1
    <3>1. Len(numbered) \in Nat BY <1>0, StreamFacts
    <3> QED BY <1>5, <1>6, <1>10, <2>1, <3>1
  <2>2. CASE s \in 1..n BY <1>0, <1>5, <1>6, <1>7, <2>2 DEF SentInOrder
  <2> QED BY <1>7, <2>1, <2>2
<1>12. SentIsWanted'
  <2> SUFFICES ASSUME NEW s \in F!LiveSubs' PROVE Entries(received'[s]) = Wanted(s)' BY DEF SentIsWanted
  <2>1. CASE s = n + 1
    <3>1. Len(numbered) \in Nat BY <1>0, StreamFacts
    <3>2. since'[s] + 1 .. Len(numbered') = {} BY <1>1, <1>6, <2>1, <3>1
    <3>3. Wanted(s)' = {} BY <3>2 DEF Wanted
    <3> QED BY <1>5, <1>10, <2>1, <3>3
  <2>2. CASE s \in F!LiveSubs
    <3>1. s \in 1..n BY <1>8, <2>2
    <3>2. Wanted(s)' = Wanted(s) BY <1>1, <1>4, <1>6, <3>1 DEF Wanted
    <3> QED BY <1>0, <1>5, <2>2, <3>1, <3>2 DEF SentIsWanted
  <2> QED BY <1>8, <2>1, <2>2
<1>13. IndexIsRight'
  <2>1. \A s \in F!LiveSubs : subscriptions'[s] = subscriptions[s] BY <1>4, <1>8
  <2>2. \A d \in Clients : clientIndex'[d] = {s \in F!LiveSubs' : subscriptions'[s].client = d}
    <3> TAKE d \in Clients
    <3>1. clientIndex[d] = {s \in F!LiveSubs : subscriptions[s].client = d} BY <1>0 DEF IndexIsRight
    <3>2. CASE d = c
      <4>1. clientIndex'[d] = clientIndex[d] \cup {n + 1} BY <1>0, <1>1, <1>3, <3>2 DEF StreamTypes
      <4> QED BY <1>2, <1>4, <1>8, <2>1, <3>1, <3>2, <4>1
    <3>3. CASE d # c
      <4>1. clientIndex'[d] = clientIndex[d] BY <1>0, <1>1, <3>3 DEF StreamTypes
      <4> QED BY <1>2, <1>4, <1>8, <2>1, <3>1, <3>3, <4>1
    <3> QED BY <3>2, <3>3
  <2>3. \A s \in F!LiveSubs' : subscriptions'[s].client \in connected'
    BY <1>0, <1>1, <1>2, <1>4, <1>8, <2>1 DEF IndexIsRight
  <2> QED BY <2>2, <2>3 DEF IndexIsRight
<1>14. EvictedFirst' BY <1>1 DEF StreamInv, EvictedFirst
<1> QED BY <1>9, <1>11, <1>12, <1>13, <1>14 DEF StreamInv

\* The events of a transaction: the window of them that the buffer keeps is new, and
\* the rest is given up.
LEMMA PersistStream ==
  ASSUME StreamInv, NEW types \in Seq(EventTypes), F!PersistAndDistribute(types) PROVE StreamInv'
<1>0. StreamTypes /\ SentInOrder /\ SentIsWanted /\ IndexIsRight /\ EvictedFirst BY DEF StreamInv
<1>1. PICK l \in Nat, k \in Nat : l = Len(numbered) /\ k = Len(types) BY <1>0, StreamFacts, LenProperties
<1> DEFINE e == F!PushBatch(l + 1, l + k)
           now == numbered \o types
<1>2. /\ types # <<>> /\ numbered' = now
      /\ received' = [s \in F!SubIds |-> F!DistributeTo(s, e, now)]
      /\ evicted' = evicted \cup ((l + 1 .. l + k) \ F!Range(e))
      /\ UNCHANGED <<connected, subscriptions, clientIndex, since>>
  BY <1>1 DEF F!PersistAndDistribute
<1>3. k # 0 BY <1>1, <1>2, EmptySeq
<1>4. PICK z \in Nat : z = Kept(l + 1, l + k)
  <2>1. l + 1 \in Nat /\ l + k \in Int /\ l + k >= l + 1 - 1 OBVIOUS
  <2> QED BY <2>1, WindowIs
<1>5. PICK lo \in Nat : lo = l + k - z + 1 /\ lo >= l + 1 /\ lo <= l + k + 1
      /\ (lo > l + 1 => lo - 1 + BUFFER_MAX <= l + k)
  <2>1. z <= k /\ (z # k => z = BUFFER_MAX) BY <1>4, StreamAssumption DEF Kept
  <2>2. l + k - z + 1 \in Nat BY <2>1
  <2>3. PICK x \in Nat : x = l + k - z + 1 BY <2>2
  <2>4. x >= l + 1 /\ x <= l + k + 1 BY <2>1, <2>3
  <2>5. x > l + 1 => x - 1 + BUFFER_MAX <= l + k BY <2>1, <2>3, StreamAssumption
  <2> QED BY <2>3, <2>4, <2>5
<1>6. /\ e \in Seq(Nat) /\ Len(e) = z /\ \A i \in 1..z : e[i] = l + k - z + i
  <2>1. l + 1 \in Nat \ {0} /\ l + k \in Nat /\ l + k \in Int /\ l + k >= l + 1 - 1 OBVIOUS
  <2>2. e = Window(l + 1, l + k) BY <2>1, PushBatchIs
  <2> HIDE DEF e
  <2>3. PICK a \in Nat, b \in Int : a = l + 1 /\ b = l + k /\ b >= a - 1 BY <2>1
  <2>4. /\ Window(a, b) \in Seq(Nat) /\ Len(Window(a, b)) = Kept(a, b)
        /\ \A i \in 1..Kept(a, b) : Window(a, b)[i] = b - Kept(a, b) + i
    BY <2>3, WindowIs
  <2>5. e = Window(a, b) /\ z = Kept(a, b) BY <1>4, <2>2, <2>3
  <2> QED BY <2>3, <2>4, <2>5
<1> HIDE DEF e
<1>7. NumberedFrom(e, lo, Len(e)) BY <1>5, <1>6 DEF NumberedFrom
<1>8. F!Range(e) = lo .. l + k
  <2>1. DOMAIN e = 1..z BY <1>6, LenProperties
  <2>2. \A i \in 1..z : e[i] \in lo .. l + k BY <1>5, <1>6
  <2>3. ASSUME NEW n \in lo .. l + k PROVE n - lo + 1 \in 1..z /\ e[n - lo + 1] = n BY <1>5, <1>6
  <2> QED BY <2>1, <2>2, <2>3 DEF F!Range
<1>9. evicted' = evicted \cup (l + 1 .. lo - 1)
  <2>1. (l + 1 .. l + k) \ (lo .. l + k) = l + 1 .. lo - 1 BY <1>5
  <2> QED BY <1>2, <1>8, <2>1
<1>10. /\ now \in Seq(EventTypes) /\ Len(now) = l + k
       /\ \A n \in 1..l : now[n] = numbered[n]
  <2>1. /\ now \in Seq(EventTypes) /\ Len(now) = l + k
        /\ \A n \in 1..(l + k) : now[n] = IF n <= l THEN numbered[n] ELSE types[n - l]
    BY <1>0, <1>1, ConcatProperties DEF StreamTypes
  <2> HIDE DEF now
  <2> QED BY <2>1
<1> HIDE DEF now
<1>11. F!SubIds' = F!SubIds /\ F!LiveSubs' = F!LiveSubs BY <1>2 DEF F!SubIds, F!LiveSubs
<1>12. ASSUME NEW s \in F!SubIds
       PROVE  /\ received'[s] \in Seq(Nat) /\ Ascending(received'[s])
              /\ Entries(received'[s]) = Entries(received[s]) \cup Sends(s, lo, l + k, now)
  <2>1. received[s] \in Seq(Nat) /\ Ascending(received[s]) BY <1>0, StreamFacts DEF SentInOrder
  <2>2. Older(received[s], lo)
    <3>1. \A n \in Entries(received[s]) : n \in Nat BY <2>1, ElementOfSeq DEF Entries
    <3>2. \A n \in Entries(received[s]) : n <= l BY <1>0, <1>1 DEF SentInOrder
    <3> QED BY <1>5, <3>1, <3>2 DEF Older
  <2>3. PICK hi : hi = l + k OBVIOUS
  <2>4. hi = lo + Len(e) - 1 BY <1>5, <1>6, <2>3
  <2>5. e \in Seq(Nat) /\ lo \in Nat BY <1>5, <1>6
  <2>6. /\ F!DistributeTo(s, e, now) \in Seq(Nat) /\ Ascending(F!DistributeTo(s, e, now))
        /\ Entries(F!DistributeTo(s, e, now)) = Entries(received[s]) \cup Sends(s, lo, hi, now)
    BY <1>7, <2>1, <2>2, <2>4, <2>5, DistributeIs
  <2> QED BY <1>2, <2>3, <2>6
<1>13. StreamTypes'
  <2>1. PICK m \in Nat : m = Len(subscriptions) /\ F!SubIds = 1..m BY <1>0, StreamFacts DEF F!SubIds
  <2>2. received' \in Seq(Seq(Nat)) /\ Len(received') = m
    <3>1. received' \in [1..m -> Seq(Nat)] BY <1>2, <1>12, <2>1
    <3> QED BY <3>1
  <2>3. evicted' \subseteq Nat BY <1>0, <1>9 DEF StreamTypes
  <2> QED BY <1>0, <1>2, <1>10, <2>1, <2>2, <2>3 DEF StreamTypes
<1>14. SentInOrder'
  <2> SUFFICES ASSUME NEW s \in F!SubIds
               PROVE  /\ Ascending(received'[s]) /\ \A n \in Entries(received'[s]) : n <= l + k
                      /\ since'[s] <= l + k
    BY <1>2, <1>10, <1>11 DEF SentInOrder
  <2>1. received[s] \in Seq(Nat) /\ since[s] \in Nat BY <1>0, StreamFacts
  <2>2. \A n \in Entries(received[s]) : n \in Nat /\ n <= l BY <1>0, <1>1, <2>1, ElementOfSeq DEF Entries, SentInOrder
  <2>3. \A n \in Entries(received'[s]) : n \in Entries(received[s]) \/ n \in lo .. l + k BY <1>12 DEF Sends
  <2>4. \A n \in Entries(received'[s]) : n <= l + k BY <2>2, <2>3
  <2>5. since'[s] <= l + k BY <1>0, <1>1, <1>2, <2>1 DEF SentInOrder
  <2> QED BY <1>12, <2>4, <2>5
<1>15. SentIsWanted'
  <2> SUFFICES ASSUME NEW s \in F!LiveSubs PROVE Entries(received'[s]) = Wanted(s)' BY <1>11 DEF SentIsWanted
  <2> DEFINE Fits(n) == F!MatchesSubscription(now[n], n, subscriptions[s])
  <2>1. s \in F!SubIds /\ since[s] \in Nat /\ since[s] <= l
    BY <1>0, <1>1, StreamFacts DEF SentInOrder
  <2>2. Wanted(s)' = {n \in since[s] + 1 .. l + k : n \notin evicted' /\ Fits(n)}
    BY <1>2, <1>10 DEF Wanted
  <2>3. \A n : F!Reaches(s, now[n], n) <=> Fits(n) BY <1>0 DEF F!Reaches, IndexIsRight
  <2>4. Entries(received[s]) = {n \in since[s] + 1 .. l : n \notin evicted /\ Fits(n)}
    <3>1. Entries(received[s]) = Wanted(s) BY <1>0 DEF SentIsWanted
    <3>2. \A n \in since[s] + 1 .. l : now[n] = numbered[n] BY <1>10, <2>1
    <3> QED BY <1>1, <3>1, <3>2 DEF Wanted
  <2> HIDE DEF Fits
  <2>5. Entries(received'[s]) = Entries(received[s]) \cup {n \in lo .. l + k : Fits(n)} BY <1>12, <2>1, <2>3 DEF Sends
  <2>6. \A n \in since[s] + 1 .. l : n \in since[s] + 1 .. l + k /\ (n \notin evicted' <=> n \notin evicted)
    BY <1>5, <1>9, <2>1
  <2>7. \A n \in lo .. l + k : n \in since[s] + 1 .. l + k /\ n \notin evicted'
    <3>1. \A n \in evicted : n \in Nat /\ n <= l BY <1>0, <1>1, StreamAssumption DEF StreamTypes, EvictedFirst
    <3> QED BY <1>5, <1>9, <2>1, <3>1
  <2>8. \A n \in since[s] + 1 .. l + k : n \in since[s] + 1 .. l \/ n \in lo .. l + k \/ n \in l + 1 .. lo - 1
    BY <1>5, <2>1
  <2>9. \A n \in l + 1 .. lo - 1 : n \in evicted' BY <1>9
  <2> QED BY <2>2, <2>4, <2>5, <2>6, <2>7, <2>8, <2>9
<1>16. IndexIsRight' BY <1>0, <1>2, <1>11 DEF IndexIsRight
<1>17. EvictedFirst'
  <2> SUFFICES ASSUME NEW n \in evicted' PROVE n + BUFFER_MAX <= l + k BY <1>2, <1>10 DEF EvictedFirst
  <2>1. CASE n \in evicted
    <3>1. n \in Nat /\ n + BUFFER_MAX <= l BY <1>0, <1>1, <2>1 DEF EvictedFirst, StreamTypes
    <3> QED BY <3>1, StreamAssumption
  <2>2. CASE n \in l + 1 .. lo - 1 BY <1>5, <2>2, StreamAssumption
  <2> QED BY <1>9, <2>1, <2>2
<1> QED BY <1>13, <1>14, <1>15, <1>16, <1>17 DEF StreamInv

LEMMA StreamStep == ASSUME StreamInv, [F!Next]_(F!vars) PROVE StreamInv'
<1>1. ASSUME NEW c \in Clients, F!HandleConnection(c) PROVE StreamInv' BY <1>1, ConnectStream
<1>2. ASSUME NEW c \in Clients, F!HandleDisconnect(c) PROVE StreamInv' BY <1>2, DisconnectStream
<1>3. ASSUME NEW c \in Clients, NEW types \in SUBSET EventTypes, NEW fromEvent \in {0, MaxEvents},
             F!HandleSubscribe(c, types, fromEvent)
      PROVE  StreamInv'
  <2>1. fromEvent \in Nat BY StreamAssumption
  <2> QED BY <1>3, <2>1, SubscribeStream
<1>4. ASSUME NEW c \in Clients, NEW s \in F!SubIds, F!HandleUnsubscribe(c, s) PROVE StreamInv'
  BY <1>4, UnsubscribeStream
<1>5. ASSUME NEW types \in F!BoundedSeq(EventTypes, MaxPerTransaction), F!PersistAndDistribute(types) PROVE StreamInv'
  <2>1. PICK m \in 0..MaxPerTransaction : types \in [1..m -> EventTypes] BY DEF F!BoundedSeq, F!SeqOf
  <2>2. types \in Seq(EventTypes) BY <2>1
  <2> QED BY <1>5, <2>2, PersistStream
<1>6. ASSUME UNCHANGED F!vars PROVE StreamInv'
  <2>1. UNCHANGED <<connected, subscriptions, clientIndex, numbered, received, since, evicted>> BY <1>6 DEF F!vars
  <2>2. F!SubIds' = F!SubIds /\ F!LiveSubs' = F!LiveSubs BY <2>1 DEF F!SubIds, F!LiveSubs
  <2>3. StreamTypes' BY <2>1 DEF StreamInv, StreamTypes
  <2>4. SentInOrder' BY <2>1, <2>2 DEF StreamInv, SentInOrder
  <2>5. SentIsWanted' BY <2>1, <2>2 DEF StreamInv, SentIsWanted, Wanted
  <2>6. IndexIsRight' BY <2>1, <2>2 DEF StreamInv, IndexIsRight
  <2>7. EvictedFirst' BY <2>1 DEF StreamInv, EvictedFirst
  <2> QED BY <2>3, <2>4, <2>5, <2>6, <2>7 DEF StreamInv
<1> QED BY <1>1, <1>2, <1>3, <1>4, <1>5, <1>6 DEF F!Next

\* Its property.
LEMMA StreamProperty == StreamInv => StreamIsWhole
<1> SUFFICES ASSUME StreamInv PROVE F!TypeOK /\ F!StreamIsWhole BY DEF StreamIsWhole
<1>0. StreamTypes /\ SentInOrder /\ SentIsWanted /\ IndexIsRight /\ EvictedFirst BY DEF StreamInv
<1>1. F!TypeOK
  <2>1. \A c \in Clients : clientIndex[c] \subseteq F!SubIds BY <1>0 DEF IndexIsRight, F!LiveSubs
  <2> QED BY <1>0, <2>1 DEF StreamTypes, F!TypeOK
<1>2. ASSUME NEW s \in F!LiveSubs
      PROVE  /\ \A i, j \in DOMAIN received[s] : i < j => received[s][i] < received[s][j]
             /\ F!Range(received[s]) = Wanted(s)
  <2>1. s \in F!SubIds /\ received[s] \in Seq(Nat) BY <1>0, StreamFacts
  <2>2. DOMAIN received[s] = 1..Len(received[s]) BY <2>1, LenProperties
  <2>3. Ascending(received[s]) /\ Entries(received[s]) = Wanted(s) BY <1>0, <2>1 DEF SentInOrder, SentIsWanted
  <2>4. F!Range(received[s]) = Entries(received[s]) BY <2>2 DEF F!Range, Entries
  <2> QED BY <2>2, <2>3, <2>4 DEF Ascending
<1> QED BY <1>0, <1>1, <1>2 DEF F!StreamIsWhole, Wanted, IndexIsRight, EvictedFirst

\* A client has received exactly the events its subscription asks for that were
\* indexed since, each once and in order, except the first of a transaction that has
\* more events than the buffer holds, and the reverse index names the live
\* subscriptions of each client. For any number of clients, subscriptions and events
\* and any size of the buffer.
THEOREM StreamsWhole == Spec => []StreamIsWhole
<1>1. Init => StreamInv BY StreamPart, StreamInit
<1>2. StreamInv /\ [Next]_vars => StreamInv' BY StreamPart, StreamStep
<1>3. StreamInv => StreamIsWhole BY StreamProperty
<1> QED BY <1>1, <1>2, <1>3, PTL DEF Spec
=============================================================================
