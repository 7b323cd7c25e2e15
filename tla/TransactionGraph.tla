-------------------------- MODULE TransactionGraph --------------------------
(***************************************************************************)
(* The dependency graph of the legs of a batch, as createBatch builds it   *)
(* (src/src/modules/transaction-coordinator/services/                      *)
(* transaction-graph-builder.service.ts): addEdge for every explicit       *)
(* dependency and for every pair of matching assets, Kahn's topological    *)
(* sort, and the grouping into layers that may run in parallel.            *)
(***************************************************************************)
EXTENDS Integers, FiniteSets, Sequences, FiniteSetsExt

CONSTANTS
    N,          \* number of legs
    MaxCalls    \* bound on the calls of addEdge for one pair of legs

Leg == 0..(N - 1)

\* createBatch refuses a dependency on the leg itself or on a later one, and
\* an implicit dependency goes to an earlier leg.
EarlierPairs == {p \in Leg \X Leg : p[1] < p[2]}

VARIABLES
    calls,      \* how often addEdge was called from the first leg to the second
    inDegree, queue, result,    \* the variables of topologicalSort
    layerMap,   \* the map of buildExecutionLayers; -1 where it has no entry
    pc

vars == <<calls, inDegree, queue, result, layerMap, pc>>

-----------------------------------------------------------------------------
(* addEdge *)

\* node.dependencies holds every leg once.
Dependencies(i) == {d \in Leg : d < i /\ calls[<<d, i>>] > 0}

\* node.dependents: the test before the push looks at the dependencies of the
\* earlier leg, where a later leg never is, so every call pushes.
TimesDependent(d, i) == IF d < i THEN calls[<<d, i>>] ELSE 0

-----------------------------------------------------------------------------
(* topologicalSort *)

\* The one sequence that lists a set of legs in ascending order: Map.forEach
\* and the dependents array visit the legs so.
Ascending(legs) ==
    {s \in [1..Cardinality(legs) -> legs] :
        \A j, k \in 1..Cardinality(legs) : j < k => s[j] < s[k]}

Init ==
    /\ calls \in [EarlierPairs -> 0..MaxCalls]
    /\ inDegree = [i \in Leg |-> Cardinality(Dependencies(i))]
    /\ queue \in Ascending({i \in Leg : Dependencies(i) = {}})
    /\ result = <<>>
    /\ layerMap = [i \in Leg |-> -1]
    /\ pc = "sort"

\* The dependents whose degree becomes 0 at one of the decrements.
Reached(current) ==
    {i \in Leg : /\ TimesDependent(current, i) > 0
                 /\ inDegree[i] > 0
                 /\ inDegree[i] - TimesDependent(current, i) <= 0}

\* One round of the while loop.
SortNext ==
    /\ pc = "sort"
    /\ queue # <<>>
    /\ LET current == Head(queue)
       IN  /\ result' = Append(result, current)
           /\ inDegree' = [i \in Leg |-> inDegree[i] - TimesDependent(current, i)]
           /\ \E reached \in Ascending(Reached(current)) : queue' = Tail(queue) \o reached
    /\ UNCHANGED <<calls, layerMap, pc>>

\* The loop ends; a result that is too short means a cycle.
SortDone ==
    /\ pc = "sort"
    /\ queue = <<>>
    /\ pc' = IF Len(result) < N THEN "cycle" ELSE "layers"
    /\ UNCHANGED <<calls, inDegree, queue, result, layerMap>>

-----------------------------------------------------------------------------
(* buildExecutionLayers *)

\* Mutant: the layer of the deepest dependency itself.
SameLayer(i) ==
    IF Dependencies(i) = {} THEN 0
    ELSE Max({Max({layerMap[d], 0}) : d \in Dependencies(i)})

\* One more than the deepest dependency; one without an entry counts as 0.
LayerOf(i) ==
    IF Dependencies(i) = {} THEN 0
    ELSE 1 + Max({Max({layerMap[d], 0}) : d \in Dependencies(i)})

Mapped == {i \in Leg : layerMap[i] >= 0}

\* One round of the loop over the topological order.
BuildLayer ==
    /\ pc = "layers"
    /\ Cardinality(Mapped) < Len(result)
    /\ LET i == result[Cardinality(Mapped) + 1]
       IN  layerMap' = [layerMap EXCEPT ![i] = LayerOf(i)]
    /\ UNCHANGED <<calls, inDegree, queue, result, pc>>

LayersDone ==
    /\ pc = "layers"
    /\ Cardinality(Mapped) = Len(result)
    /\ pc' = "done"
    /\ UNCHANGED <<calls, inDegree, queue, result, layerMap>>

Next == SortNext \/ SortDone \/ BuildLayer \/ LayersDone

Spec == Init /\ [][Next]_vars

-----------------------------------------------------------------------------
(* Properties *)

\* Every variable has the type of its TypeScript counterpart.
TypeOK ==
    /\ calls \in [EarlierPairs -> 0..MaxCalls]
    /\ inDegree \in [Leg -> Int]
    /\ queue \in Seq(Leg) /\ result \in Seq(Leg)
    /\ layerMap \in [Leg -> -1..(N - 1)]
    /\ pc \in {"sort", "cycle", "layers", "done"}

Sorted == {result[j] : j \in DOMAIN result}

\* Every leg is sorted and is put into a layer exactly once: no graph that
\* createBatch can build is refused as cyclic, also when addEdge was called
\* several times for a pair.
EveryLegPlanned ==
    /\ pc # "cycle"
    /\ pc \in {"layers", "done"} => Len(result) = N /\ Sorted = Leg

Simple == \A p \in EarlierPairs : calls[p] <= 1

\* A finished plan, when no pair was linked twice: the dependencies of a leg are
\* all in earlier layers ("Layer N = legs whose dependencies are all in layers
\* < N"), and a leg waits for no layer that it does not need.
LayersAreTight ==
    (pc = "done" /\ Simple) =>
        \A i \in Leg :
            /\ \A d \in Dependencies(i) : layerMap[d] < layerMap[i]
            /\ layerMap[i] > 0 => \E d \in Dependencies(i) : layerMap[d] = layerMap[i] - 1
=============================================================================
