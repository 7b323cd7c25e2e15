---------------------------- MODULE EngineProofs ----------------------------
(***************************************************************************)
(* Proofs about the trading engine, for any number of orders, handlers,    *)
(* prices, quantities and restarts.                                        *)
(*                                                                         *)
(* NoOverfill is about the trades table, which follows the objects in      *)
(* memory after an await: the invariant FillInv adds to what is stored the *)
(* fills of the handlers still to commit (Pending) and compares the sum    *)
(* with the object that a match reads (ObjectsCover), or with the row that *)
(* a restart will load (OpenRowsCover).                                    *)
(*                                                                         *)
(* BookIsRight is about the states between two requests.  BookInv says how *)
(* the book and the table differ inside one: a handler holds at most one   *)
(* open order that is not in the book (Holds), and what it has matched is  *)
(* ahead of its row by the fills it has to write (WrittenNext).  A taker   *)
(* with a rest has left nothing to trade with (Exhausted), because the     *)
(* first entry that does not cross stands before all that do not: this is  *)
(* why the order of the book is part of the invariant.                     *)
(***************************************************************************)
EXTENDS MCTradingEngine, SequenceTheorems, FiniteSetTheorems, WellFoundedInduction, TLAPS

-----------------------------------------------------------------------------
(* Numbers *)

\* A set of numbers that has an element has a least one, ...
LEMMA LeastNat ==
    ASSUME NEW T \in SUBSET Nat, T # {}
    PROVE  \E m \in T : \A k \in T : m <= k
<1> DEFINE Less == OpToRel(<, Nat)
<1>1. IsWellFoundedOn(Less, Nat)
  BY NatLessThanWellFounded
<1>2. \A k, m \in Nat : <<k, m>> \in Less <=> k < m
  BY DEF OpToRel
<1> HIDE DEF Less
<1>3. PICK m \in T : \A k \in T : ~(<<k, m>> \in Less)
  BY <1>1, WFMin, Zenon
<1>4. \A k \in T : ~(k < m)
  BY <1>2, <1>3, Zenon
<1> QED BY <1>4

\* ... and, when it is bounded, a greatest one, which is the Max.
LEMMA MaxIs ==
    ASSUME NEW n \in Nat, NEW T \in SUBSET (0..n), T # {}
    PROVE  Max(T) \in T /\ \A k \in T : k <= Max(T)
<1> DEFINE R == {i \in 0..n : (n - i) \in T}
<1>1. R \in SUBSET Nat
  OBVIOUS
<1>2. R # {}
  <2>1. PICK k \in T : k \in 0..n
    OBVIOUS
  <2>2. n - k \in R
    BY <2>1
  <2> QED BY <2>2
<1>3. PICK m \in R : \A k \in R : m <= k
  <2> HIDE DEF R
  <2> QED BY <1>1, <1>2, LeastNat
<1>4. \A y \in T : n - m >= y
  <2> TAKE y \in T
  <2>1. y \in 0..n /\ n - y \in R /\ n - y \in 0..n
    OBVIOUS
  <2> QED BY <1>3, <2>1
<1> QED BY <1>3, <1>4 DEF Max

-----------------------------------------------------------------------------
(* Sums over finite sets *)

\* The recursion of SumFunction.
Pick(s) == CHOOSE x \in s : TRUE

\* A function that satisfies it on a family D of sets,
IsSum(g, w, D) == g = [s \in D |-> IF s = {} THEN 0 ELSE w[Pick(s)] + g[s \ {Pick(s)}]]

\* and the one TLC computes on the subsets of X.
SumOf(w, X) == CHOOSE g : IsSum(g, w, SUBSET X)

\* The subsets with at most n elements.
Small(X, n) == {s \in SUBSET X : Cardinality(s) <= n}

\* Taking the picked element away leaves a smaller subset.
LEMMA PickSmaller ==
    ASSUME NEW X, IsFiniteSet(X), NEW s \in SUBSET X, s # {}
    PROVE  /\ Pick(s) \in s /\ s \ {Pick(s)} \in SUBSET X
           /\ Cardinality(s) \in Nat /\ Cardinality(s) > 0
           /\ Cardinality(s \ {Pick(s)}) = Cardinality(s) - 1
<1>1. Pick(s) \in s
  BY DEF Pick
<1>2. IsFiniteSet(s)
  BY FS_Subset
<1>3. Cardinality(s) \in Nat
  BY <1>2, FS_CardinalityType
<1>4. Cardinality(s) # 0
  BY <1>2, FS_EmptySet, Zenon
<1>5. Cardinality(s \ {Pick(s)}) = Cardinality(s) - 1
  BY <1>1, <1>2, FS_RemoveElement
<1> QED BY <1>1, <1>3, <1>4, <1>5

\* A function that satisfies the recursion exists on the sets of up to n elements, ...
LEMMA SumUpTo ==
    ASSUME NEW X, IsFiniteSet(X), NEW w
    PROVE  \A n \in Nat : \E g : IsSum(g, w, Small(X, n))
<1> DEFINE Bad == {n \in Nat : ~\E g : IsSum(g, w, Small(X, n))}
<1> SUFFICES ASSUME Bad # {} PROVE FALSE
  OBVIOUS
<1>1. PICK m \in Bad : \A k \in Bad : m <= k
  <2>1. Bad \in SUBSET Nat
    OBVIOUS
  <2> HIDE DEF Bad
  <2> QED BY <2>1, LeastNat
<1>2. m # 0
  <2> SUFFICES ASSUME m = 0 PROVE FALSE
    OBVIOUS
  <2> DEFINE g == [s \in Small(X, 0) |-> 0]
  <2>1. \A s \in Small(X, 0) : s = {}
    <3> SUFFICES ASSUME NEW s \in Small(X, 0), s # {} PROVE FALSE
      OBVIOUS
    <3>1. s \in SUBSET X /\ Cardinality(s) <= 0
      BY DEF Small
    <3>2. Cardinality(s) \in Nat /\ Cardinality(s) > 0
      BY <3>1, PickSmaller, Zenon
    <3> QED BY <3>1, <3>2
  <2>2. IsSum(g, w, Small(X, 0))
    BY <2>1 DEF IsSum
  <2> QED BY <1>1, <2>2
<1>3. m - 1 \in Nat /\ m - 1 \notin Bad
  BY <1>1, <1>2
<1>4. PICK g : IsSum(g, w, Small(X, m - 1))
  BY <1>3
<1> DEFINE Rec(s) == IF s = {} THEN 0 ELSE w[Pick(s)] + g[s \ {Pick(s)}]
           h == [s \in Small(X, m) |-> Rec(s)]
<1>5. \A s \in Small(X, m - 1) : s \in Small(X, m) /\ g[s] = Rec(s)
  <2> TAKE s \in Small(X, m - 1)
  <2>1. s \in SUBSET X /\ IsFiniteSet(s)
    BY FS_Subset DEF Small
  <2>2. Cardinality(s) \in Nat /\ m \in Nat
    BY <2>1, <1>3, FS_CardinalityType
  <2>3. s \in Small(X, m)
    BY <2>1, <2>2 DEF Small
  <2>4. g[s] = Rec(s)
    BY <1>4 DEF IsSum
  <2> QED BY <2>3, <2>4
<1>6. \A s \in Small(X, m) : s # {} => s \ {Pick(s)} \in Small(X, m - 1)
  <2> SUFFICES ASSUME NEW s \in Small(X, m), s # {} PROVE s \ {Pick(s)} \in Small(X, m - 1)
    OBVIOUS
  <2>1. s \in SUBSET X /\ Cardinality(s) <= m
    BY DEF Small
  <2> QED BY <1>3, <2>1, PickSmaller DEF Small
<1>7. IsSum(h, w, Small(X, m))
  <2>1. \A s \in Small(X, m) : Rec(s) = IF s = {} THEN 0 ELSE w[Pick(s)] + h[s \ {Pick(s)}]
    BY <1>5, <1>6
  <2> QED BY <2>1 DEF IsSum
<1> QED BY <1>1, <1>7

\* ... and so on all subsets of a finite set.
LEMMA SumExists ==
    ASSUME NEW X, IsFiniteSet(X), NEW w
    PROVE  IsSum(SumOf(w, X), w, SUBSET X)
<1>1. Cardinality(X) \in Nat
  BY FS_CardinalityType
<1>2. Small(X, Cardinality(X)) = SUBSET X
  BY FS_Subset DEF Small
<1>3. \E g : IsSum(g, w, SUBSET X)
  <2>1. \E g : IsSum(g, w, Small(X, Cardinality(X)))
    BY <1>1, SumUpTo, Zenon
  <2> QED BY <1>2, <2>1
<1> QED BY <1>3 DEF SumOf

\* The recursion, at one subset.
LEMMA SumStep ==
    ASSUME NEW X, IsFiniteSet(X), NEW w, NEW s \in SUBSET X
    PROVE  /\ s = {} => SumOf(w, X)[s] = 0
           /\ s # {} => SumOf(w, X)[s] = w[Pick(s)] + SumOf(w, X)[s \ {Pick(s)}]
<1> DEFINE g == SumOf(w, X)
<1>1. IsSum(g, w, SUBSET X)
  BY SumExists, Zenon
<1> HIDE DEF g
<1>2. g[s] = IF s = {} THEN 0 ELSE w[Pick(s)] + g[s \ {Pick(s)}]
  BY <1>1 DEF IsSum
<1> QED BY <1>2 DEF g

\* What holds of the empty set, and of a set when it holds of the set without
\* the element picked, holds of all subsets of a finite set.  Good is the set of
\* the subsets it holds of.
LEMMA SubsetInduction ==
    ASSUME NEW X, IsFiniteSet(X), NEW Good, {} \in Good,
           \A s \in SUBSET X : s # {} /\ s \ {Pick(s)} \in Good => s \in Good
    PROVE  SUBSET X \subseteq Good
<1> DEFINE Bad == {n \in Nat : \E s \in SUBSET X : s \notin Good /\ Cardinality(s) = n}
<1>1. ASSUME Bad # {} PROVE FALSE
  <2>1. Bad \in SUBSET Nat
    OBVIOUS
  <2>2. PICK m \in Bad : \A k \in Bad : m <= k
    <3> HIDE DEF Bad
    <3> QED BY <1>1, <2>1, LeastNat
  <2>3. PICK s \in SUBSET X : s \notin Good /\ Cardinality(s) = m
    BY <2>2
  <2>4. s # {}
    BY <2>3
  <2>5. /\ s \ {Pick(s)} \in SUBSET X /\ m \in Nat /\ m > 0
        /\ Cardinality(s \ {Pick(s)}) = m - 1
    BY <2>3, <2>4, PickSmaller
  <2>6. s \ {Pick(s)} \in Good
    <3>1. m - 1 \notin Bad /\ m - 1 \in Nat
      BY <2>1, <2>2, <2>5
    <3> QED BY <2>5, <3>1
  <2> QED BY <2>3, <2>4, <2>6
<1>2. Bad = {}
  BY <1>1
<1>3. \A s \in SUBSET X : Cardinality(s) \in Nat
  BY FS_Subset, FS_CardinalityType
<1> QED BY <1>2, <1>3

\* A sum of numbers is a number.
LEMMA SumNat ==
    ASSUME NEW X, IsFiniteSet(X), NEW w, \A x \in X : w[x] \in Nat
    PROVE  \A s \in SUBSET X : SumOf(w, X)[s] \in Nat
<1> DEFINE Good == {s \in SUBSET X : SumOf(w, X)[s] \in Nat}
<1>1. {} \in Good
  <2>1. {} \in SUBSET X
    OBVIOUS
  <2>2. SumOf(w, X)[{}] = 0
    BY <2>1, SumStep, Zenon
  <2> QED BY <2>1, <2>2
<1>2. ASSUME NEW s \in SUBSET X, s # {}, s \ {Pick(s)} \in Good PROVE s \in Good
  <2>1. Pick(s) \in s
    BY <1>2, PickSmaller, Zenon
  <2>2. SumOf(w, X)[s] = w[Pick(s)] + SumOf(w, X)[s \ {Pick(s)}]
    BY <1>2, SumStep, Zenon
  <2> QED BY <1>2, <2>1, <2>2
<1>3. SUBSET X \subseteq Good
  <2> HIDE DEF Good
  <2> QED BY <1>1, <1>2, SubsetInduction
<1> QED BY <1>3

\* A sum of zeroes is zero.
LEMMA SumZero ==
    ASSUME NEW X, IsFiniteSet(X)
    PROVE  SumOf([x \in X |-> 0], X)[X] = 0
<1> DEFINE w == [x \in X |-> 0]
           Good == {s \in SUBSET X : SumOf(w, X)[s] = 0}
<1>0. \A x \in X : w[x] = 0
  OBVIOUS
<1> HIDE DEF w
<1>1. {} \in Good
  <2>1. {} \in SUBSET X
    OBVIOUS
  <2>2. SumOf(w, X)[{}] = 0
    BY <2>1, SumStep, Zenon
  <2> QED BY <2>1, <2>2
<1>2. ASSUME NEW s \in SUBSET X, s # {}, s \ {Pick(s)} \in Good PROVE s \in Good
  <2>1. Pick(s) \in s
    BY <1>2, PickSmaller, Zenon
  <2>2. SumOf(w, X)[s] = w[Pick(s)] + SumOf(w, X)[s \ {Pick(s)}]
    <3> HIDE DEF Good
    <3> QED BY <1>2, SumStep, Zenon
  <2> QED BY <1>0, <1>2, <2>1, <2>2
<1>3. SUBSET X \subseteq Good
  <2> HIDE DEF Good
  <2> QED BY <1>1, <1>2, SubsetInduction
<1> QED BY <1>3 DEF w

\* Changing one term changes the sum by the difference.
LEMMA SumUpdate ==
    ASSUME NEW X, IsFiniteSet(X), NEW w \in [X -> Nat], NEW u \in [X -> Nat], NEW k \in X,
           \A x \in X : x # k => u[x] = w[x]
    PROVE  SumOf(u, X)[X] = SumOf(w, X)[X] - w[k] + u[k]
<1> DEFINE Good == {s \in SUBSET X : SumOf(u, X)[s] = SumOf(w, X)[s] + IF k \in s THEN u[k] - w[k] ELSE 0}
<1>1. {} \in Good
  <2>1. {} \in SUBSET X
    OBVIOUS
  <2>2. SumOf(w, X)[{}] = 0
    BY <2>1, SumStep, Zenon
  <2>3. SumOf(u, X)[{}] = 0
    BY <2>1, SumStep, Zenon
  <2> QED BY <2>1, <2>2, <2>3
<1>2. ASSUME NEW s \in SUBSET X, s # {}, s \ {Pick(s)} \in Good PROVE s \in Good
  <2>1. Pick(s) \in s /\ s \ {Pick(s)} \in SUBSET X
    BY <1>2, PickSmaller, Zenon
  <2>2. SumOf(u, X)[s] = u[Pick(s)] + SumOf(u, X)[s \ {Pick(s)}]
    <3> HIDE DEF Good
    <3> QED BY <1>2, SumStep, Zenon
  <2>3. SumOf(w, X)[s] = w[Pick(s)] + SumOf(w, X)[s \ {Pick(s)}]
    <3> HIDE DEF Good
    <3> QED BY <1>2, SumStep, Zenon
  <2>4. SumOf(u, X)[s \ {Pick(s)}] \in Nat /\ SumOf(w, X)[s \ {Pick(s)}] \in Nat
    <3>1. (\A x \in X : u[x] \in Nat) /\ (\A x \in X : w[x] \in Nat) OBVIOUS
    <3> HIDE DEF Good
    <3> QED BY <2>1, <3>1, SumNat
  <2> QED BY <1>2, <2>1, <2>2, <2>3, <2>4
<1>3. SUBSET X \subseteq Good
  <2> HIDE DEF Good
  <2> QED BY <1>1, <1>2, SubsetInduction
<1>4. SumOf(w, X)[X] \in Nat /\ w[k] \in Nat /\ u[k] \in Nat
  <2>1. \A x \in X : w[x] \in Nat OBVIOUS
  <2> HIDE DEF Good
  <2> QED BY <2>1, SumNat
<1>5. SumOf(u, X)[X] = SumOf(w, X)[X] + IF k \in X THEN u[k] - w[k] ELSE 0
  BY <1>3
<1> QED BY <1>4, <1>5

\* Any element may be taken out of a sum first.
LEMMA SumRemove ==
    ASSUME NEW X, IsFiniteSet(X), NEW w, \A x \in X : w[x] \in Nat
    PROVE  \A s \in SUBSET X : \A x \in s : SumOf(w, X)[s] = w[x] + SumOf(w, X)[s \ {x}]
<1> DEFINE Right(s) == \A x \in s : SumOf(w, X)[s] = w[x] + SumOf(w, X)[s \ {x}]
           Bad == {n \in Nat : \E s \in SUBSET X : Cardinality(s) = n /\ ~Right(s)}
<1>1. ASSUME Bad # {} PROVE FALSE
  <2>1. Bad \in SUBSET Nat OBVIOUS
  <2>2. PICK m \in Bad : \A k \in Bad : m <= k
    <3> HIDE DEF Bad
    <3> QED BY <1>1, <2>1, LeastNat
  <2>3. PICK s \in SUBSET X : Cardinality(s) = m /\ ~Right(s) BY <2>2
  <2>4. PICK x \in s : SumOf(w, X)[s] # w[x] + SumOf(w, X)[s \ {x}] BY <2>3
  <2> DEFINE p == Pick(s)
  <2>5. s # {} BY <2>4
  <2>6. p \in s /\ s \ {p} \in SUBSET X /\ m \in Nat /\ m > 0 /\ Cardinality(s \ {p}) = m - 1
    BY <2>3, <2>5, PickSmaller
  <2>7. SumOf(w, X)[s] = w[p] + SumOf(w, X)[s \ {p}]
    <3> HIDE DEF Right, Bad
    <3> QED BY <2>5, SumStep, Zenon
  <2>8. x # p
    <3> HIDE DEF Right, Bad
    <3> QED BY <2>4, <2>7
  <2>9. s \ {x} \in SUBSET X /\ Cardinality(s \ {x}) = m - 1
    <3>1. IsFiniteSet(s) BY FS_Subset
    <3> QED BY <3>1, <2>3, FS_RemoveElement
  <2>10. m - 1 \notin Bad /\ m - 1 \in Nat BY <2>1, <2>2, <2>6
  <2>11. Right(s \ {p}) /\ Right(s \ {x})
    <3>1. \A t \in SUBSET X : Cardinality(t) = m - 1 => Right(t) BY <2>10
    <3> HIDE DEF Right
    <3> QED BY <2>6, <2>9, <3>1
  <2>12. x \in s \ {p} /\ p \in s \ {x} BY <2>4, <2>6, <2>8
  <2>13. SumOf(w, X)[s \ {p}] = w[x] + SumOf(w, X)[(s \ {p}) \ {x}] BY <2>11, <2>12
  <2>14. SumOf(w, X)[s \ {x}] = w[p] + SumOf(w, X)[(s \ {x}) \ {p}] BY <2>11, <2>12
  <2>15. (s \ {p}) \ {x} = (s \ {x}) \ {p} OBVIOUS
  <2> DEFINE rest == SumOf(w, X)[(s \ {p}) \ {x}]
  <2>16. rest \in Nat /\ w[p] \in Nat /\ w[x] \in Nat
    <3>1. (s \ {p}) \ {x} \in SUBSET X OBVIOUS
    <3> HIDE DEF Bad, Right, p
    <3> QED BY <2>6, <3>1, SumNat
  <2>17. SumOf(w, X)[s] = w[p] + (w[x] + rest) BY <2>7, <2>13
  <2>18. SumOf(w, X)[s \ {x}] = w[p] + rest BY <2>14, <2>15
  <2> HIDE DEF rest, p, Right, Bad
  <2> QED BY <2>4, <2>16, <2>17, <2>18
<1>2. \A s \in SUBSET X : Cardinality(s) \in Nat
  BY FS_Subset, FS_CardinalityType
<1>3. \A s \in SUBSET X : Right(s)
  <2>1. Bad = {} BY <1>1
  <2> HIDE DEF Right
  <2> QED BY <1>2, <2>1
<1> QED BY <1>3

\* A sum over a part does not depend on the whole.
LEMMA SumPart ==
    ASSUME NEW X, IsFiniteSet(X), NEW Y \in SUBSET X, NEW w
    PROVE  SumOf(w, Y)[Y] = SumOf(w, X)[Y]
<1>0. IsFiniteSet(Y) BY FS_Subset
<1> DEFINE Good == {s \in SUBSET Y : SumOf(w, Y)[s] = SumOf(w, X)[s]}
<1>1. {} \in Good
  <2>1. {} \in SUBSET Y /\ {} \in SUBSET X OBVIOUS
  <2>2. SumOf(w, Y)[{}] = 0 /\ SumOf(w, X)[{}] = 0
    <3> HIDE DEF Good
    <3>1. SumOf(w, Y)[{}] = 0 BY <1>0, <2>1, SumStep, Zenon
    <3>2. SumOf(w, X)[{}] = 0 BY <2>1, SumStep, Zenon
    <3> QED BY <3>1, <3>2
  <2> QED BY <2>1, <2>2
<1>2. ASSUME NEW s \in SUBSET Y, s # {}, s \ {Pick(s)} \in Good PROVE s \in Good
  <2>1. s \in SUBSET X OBVIOUS
  <2>2. SumOf(w, Y)[s] = w[Pick(s)] + SumOf(w, Y)[s \ {Pick(s)}]
    <3> HIDE DEF Good
    <3> QED BY <1>0, <1>2, SumStep, Zenon
  <2>3. SumOf(w, X)[s] = w[Pick(s)] + SumOf(w, X)[s \ {Pick(s)}]
    <3> HIDE DEF Good
    <3> QED BY <1>2, <2>1, SumStep, Zenon
  <2> QED BY <1>2, <2>2, <2>3
<1>3. SUBSET Y \subseteq Good
  <2> HIDE DEF Good
  <2> QED BY <1>0, <1>1, <1>2, SubsetInduction
<1> QED BY <1>3

\* Fewer and smaller terms make a smaller sum.
LEMMA SumMono ==
    ASSUME NEW X, IsFiniteSet(X), NEW Y \in SUBSET X, NEW w, NEW u,
           \A x \in X : w[x] \in Nat /\ u[x] \in Nat,
           \A x \in Y : w[x] <= u[x]
    PROVE  SumOf(w, Y)[Y] <= SumOf(u, X)[X]
<1> DEFINE Good == {s \in SUBSET X : SumOf(w, X)[s \cap Y] <= SumOf(u, X)[s]}
<1>w. \A x \in X : w[x] \in Nat OBVIOUS
<1>u. \A x \in X : u[x] \in Nat OBVIOUS
<1>1. {} \in Good
  <2>1. {} \in SUBSET X /\ {} \cap Y = {} OBVIOUS
  <2>2. SumOf(w, X)[{}] = 0 /\ SumOf(u, X)[{}] = 0
    <3> HIDE DEF Good
    <3>1. SumOf(w, X)[{}] = 0 BY <2>1, SumStep, Zenon
    <3>2. SumOf(u, X)[{}] = 0 BY <2>1, SumStep, Zenon
    <3> QED BY <3>1, <3>2
  <2> QED BY <2>1, <2>2
<1>2. ASSUME NEW s \in SUBSET X, s # {}, s \ {Pick(s)} \in Good PROVE s \in Good
  <2> DEFINE p == Pick(s)
             t == s \ {p}
  <2>1. p \in s /\ p \in X /\ t \in SUBSET X
    BY <1>2, PickSmaller, Zenon
  <2>2. SumOf(u, X)[s] = u[p] + SumOf(u, X)[t]
    <3> HIDE DEF Good
    <3> QED BY <1>2, SumStep, Zenon
  <2>3. SumOf(w, X)[t \cap Y] <= SumOf(u, X)[t] BY <1>2
  <2>4. SumOf(w, X)[t \cap Y] \in Nat /\ SumOf(u, X)[t] \in Nat /\ w[p] \in Nat /\ u[p] \in Nat
    <3>1. t \cap Y \in SUBSET X OBVIOUS
    <3> HIDE DEF Good, t, p
    <3> QED BY <2>1, <3>1, <1>w, <1>u, SumNat
  <2>5. CASE p \in Y
    <3>1. p \in s \cap Y /\ s \cap Y \in SUBSET X /\ (s \cap Y) \ {p} = t \cap Y BY <2>1, <2>5
    <3>2. SumOf(w, X)[s \cap Y] = w[p] + SumOf(w, X)[(s \cap Y) \ {p}]
      <4> HIDE DEF Good, p, t
      <4> QED BY <1>w, <3>1, SumRemove
    <3>3. SumOf(w, X)[s \cap Y] = w[p] + SumOf(w, X)[t \cap Y] BY <3>1, <3>2
    <3>4. w[p] <= u[p] BY <2>5
    <3>5. SumOf(w, X)[s \cap Y] <= SumOf(u, X)[s]
      <4> HIDE DEF p, t, Good
      <4> QED BY <2>2, <2>3, <2>4, <3>3, <3>4
    <3> QED BY <3>5
  <2>6. CASE p \notin Y
    <3>1. s \cap Y = t \cap Y BY <2>6
    <3>2. SumOf(w, X)[s \cap Y] = SumOf(w, X)[t \cap Y] BY <3>1
    <3>3. SumOf(w, X)[s \cap Y] <= SumOf(u, X)[s]
      <4> HIDE DEF p, t, Good
      <4> QED BY <2>2, <2>3, <2>4, <3>2
    <3> QED BY <3>3
  <2> QED BY <2>5, <2>6
<1>3. SUBSET X \subseteq Good
  <2> HIDE DEF Good
  <2> QED BY <1>1, <1>2, SubsetInduction
<1>4. SumOf(w, X)[X \cap Y] <= SumOf(u, X)[X] BY <1>3
<1>5. X \cap Y = Y OBVIOUS
<1>6. SumOf(w, Y)[Y] = SumOf(w, X)[Y]
  <2> HIDE DEF Good
  <2> QED BY SumPart
<1> QED BY <1>4, <1>5, <1>6

\* Equal terms make equal sums.
LEMMA SumSame ==
    ASSUME NEW X, IsFiniteSet(X), NEW w, NEW u, \A x \in X : w[x] = u[x]
    PROVE  SumOf(w, X)[X] = SumOf(u, X)[X]
<1> DEFINE Good == {s \in SUBSET X : SumOf(w, X)[s] = SumOf(u, X)[s]}
<1>1. {} \in Good
  <2>1. {} \in SUBSET X OBVIOUS
  <2>2. SumOf(w, X)[{}] = 0 BY <2>1, SumStep, Zenon
  <2>3. SumOf(u, X)[{}] = 0 BY <2>1, SumStep, Zenon
  <2> QED BY <2>1, <2>2, <2>3
<1>2. ASSUME NEW s \in SUBSET X, s # {}, s \ {Pick(s)} \in Good PROVE s \in Good
  <2>1. Pick(s) \in s BY <1>2, PickSmaller, Zenon
  <2>2. SumOf(w, X)[s] = w[Pick(s)] + SumOf(w, X)[s \ {Pick(s)}]
    <3> HIDE DEF Good
    <3> QED BY <1>2, SumStep, Zenon
  <2>3. SumOf(u, X)[s] = u[Pick(s)] + SumOf(u, X)[s \ {Pick(s)}]
    <3> HIDE DEF Good
    <3> QED BY <1>2, SumStep, Zenon
  <2> QED BY <1>2, <2>1, <2>2, <2>3
<1>3. SUBSET X \subseteq Good
  <2> HIDE DEF Good
  <2> QED BY <1>1, <1>2, SubsetInduction
<1> QED BY <1>3

\* SumFunction is this sum over the domain.
LEMMA SumFunctionIs ==
    ASSUME NEW X, NEW f, DOMAIN f = X
    PROVE  SumFunction(f) = SumOf(f, X)[X]
  BY DEF SumFunction, SumFunctionOnSet, FoldFunctionOnSet, MapThenFoldSet, IsSum, SumOf, Pick

\* A sum of numbers is a number; without a term it is 0, and with one it is that term.
LEMMA FewTerms ==
    ASSUME NEW X, IsFiniteSet(X), NEW f \in [X -> Nat]
    PROVE  /\ SumFunction(f) \in Nat
           /\ X = {} => SumFunction(f) = 0
           /\ \A x : X = {x} => SumFunction(f) = f[x]
<1>1. SumFunction(f) = SumOf(f, X)[X] BY SumFunctionIs
<1>2. \A x \in X : f[x] \in Nat OBVIOUS
<1>3. X \in SUBSET X /\ {} \in SUBSET X OBVIOUS
<1>4. SumFunction(f) \in Nat BY <1>1, <1>2, <1>3, SumNat
<1>5. SumOf(f, X)[{}] = 0 BY <1>3, SumStep, Zenon
<1>6. ASSUME NEW x, X = {x} PROVE SumFunction(f) = f[x]
  <2>1. X # {} /\ Pick(X) \in X BY <1>6, <1>3, PickSmaller, Zenon
  <2>2. Pick(X) = x /\ X \ {Pick(X)} = {} BY <2>1, <1>6
  <2>3. SumOf(f, X)[X] = f[Pick(X)] + SumOf(f, X)[X \ {Pick(X)}] BY <1>3, <2>1, SumStep, Zenon
  <2>4. f[x] \in Nat BY <1>2, <1>6
  <2> QED BY <1>1, <1>5, <2>2, <2>3, <2>4
<1> QED BY <1>1, <1>4, <1>5, <1>6

\* Changing one term changes the sum by the difference.
LEMMA OneTermChanges ==
    ASSUME NEW X, IsFiniteSet(X), NEW w \in [X -> Nat], NEW u \in [X -> Nat], NEW k \in X,
           \A x \in X : x # k => u[x] = w[x]
    PROVE  SumFunction(u) = SumFunction(w) - w[k] + u[k]
<1>1. SumFunction(w) = SumOf(w, X)[X] BY SumFunctionIs
<1>2. SumFunction(u) = SumOf(u, X)[X] BY SumFunctionIs
<1>3. SumOf(u, X)[X] = SumOf(w, X)[X] - w[k] + u[k] BY SumUpdate
<1> QED BY <1>1, <1>2, <1>3

\* The terms of u are those of w but the one at x.
IsRest(u, Y, w, X, x) == /\ IsFiniteSet(X) /\ w \in [X -> Nat] /\ x \in X
                         /\ Y = X \ {x} /\ u \in [Y -> Nat] /\ \A y \in Y : u[y] = w[y]

\* One term may be taken out.
LEMMA TakeOut ==
    ASSUME NEW X, NEW w, NEW x, NEW Y, NEW u, IsRest(u, Y, w, X, x)
    PROVE  SumFunction(w) = w[x] + SumFunction(u)
<1> USE DEF IsRest
<1>0. IsFiniteSet(Y) /\ Y \in SUBSET X BY FS_Subset
<1>1. SumFunction(w) = SumOf(w, X)[X] BY SumFunctionIs
<1>2. SumFunction(u) = SumOf(u, Y)[Y] BY SumFunctionIs
<1>3. \A y \in X : w[y] \in Nat OBVIOUS
<1>4. SumOf(w, X)[X] = w[x] + SumOf(w, X)[Y] BY <1>3, SumRemove
<1>5. SumOf(w, Y)[Y] = SumOf(w, X)[Y] BY <1>0, SumPart
<1>6. SumOf(u, Y)[Y] = SumOf(w, Y)[Y]
  BY <1>0, SumSame
<1> QED BY <1>1, <1>2, <1>4, <1>5, <1>6

\* Fewer and smaller terms make a smaller sum.
LEMMA FewerAndSmaller ==
    ASSUME NEW X, IsFiniteSet(X), NEW Y \in SUBSET X, NEW w \in [Y -> Nat], NEW u \in [X -> Nat],
           \A x \in Y : w[x] <= u[x]
    PROVE  SumFunction(w) <= SumFunction(u)
<1> DEFINE v == [x \in X |-> IF x \in Y THEN w[x] ELSE 0]
<1>0. IsFiniteSet(Y) BY FS_Subset
<1>1. SumFunction(w) = SumOf(w, Y)[Y] BY SumFunctionIs
<1>2. SumFunction(u) = SumOf(u, X)[X] BY SumFunctionIs
<1>3. /\ \A x \in X : v[x] \in Nat /\ u[x] \in Nat
      /\ \A x \in Y : v[x] <= u[x] /\ w[x] = v[x]
  OBVIOUS
<1> HIDE DEF v
<1>4. SumOf(w, Y)[Y] = SumOf(v, Y)[Y] BY <1>0, <1>3, SumSame
<1>5. SumOf(v, Y)[Y] <= SumOf(u, X)[X] BY <1>3, SumMono
<1> QED BY <1>1, <1>2, <1>4, <1>5

-----------------------------------------------------------------------------
(* The book *)

\* The elements of K, in their order.
Increasing(f) == \A j, k \in DOMAIN f : j < k => f[j] < f[k]
Enumerable(K) == \E f \in [1..Cardinality(K) -> K] : Increasing(f)

\* One more element, larger than the others, comes last.
LEMMA EnumerateMore ==
    ASSUME NEW K \in SUBSET Nat, IsFiniteSet(K), NEW m \in Nat, \A k \in K : k < m, Enumerable(K)
    PROVE  Enumerable(K \cup {m})
<1>1. PICK f \in [1..Cardinality(K) -> K] : Increasing(f) BY DEF Enumerable
<1>2. PICK n \in Nat : n = Cardinality(K) BY FS_CardinalityType
<1>3. Cardinality(K \cup {m}) = n + 1 BY <1>2, FS_AddElement
<1> DEFINE g == [k \in 1..(n + 1) |-> IF k = n + 1 THEN m ELSE f[k]]
<1>4. \A k \in 1..n : f[k] \in K BY <1>1, <1>2
<1>5. g \in [1..(n + 1) -> K \cup {m}]
  <2>1. \A k \in 1..(n + 1) : k # n + 1 => k \in 1..n OBVIOUS
  <2> QED BY <1>4, <2>1
<1>6. Increasing(g)
  <2> SUFFICES ASSUME NEW j \in 1..(n + 1), NEW k \in 1..(n + 1), j < k PROVE g[j] < g[k]
    BY DEF Increasing
  <2>1. j \in 1..n /\ g[j] = f[j] OBVIOUS
  <2>2. CASE k = n + 1 BY <1>4, <2>1, <2>2
  <2>3. CASE k # n + 1
    <3>1. k \in 1..n /\ g[k] = f[k] BY <2>3
    <3> QED BY <1>1, <1>2, <2>1, <3>1 DEF Increasing
  <2> QED BY <2>2, <2>3
<1> HIDE DEF g
<1> QED BY <1>3, <1>5, <1>6 DEF Enumerable

\* Every set of positions has its elements in order.
LEMMA EnumerateAll ==
    ASSUME NEW n \in Nat, NEW K \in SUBSET (1..n)
    PROVE  Enumerable(K)
<1> DEFINE Part(m) == K \cap (1..m)
           Bad == {m \in Nat : ~Enumerable(Part(m))}
<1>0. \A m \in Nat : IsFiniteSet(Part(m)) /\ Part(m) \in SUBSET Nat
  <2> TAKE m \in Nat
  <2>1. IsFiniteSet(1..m) BY FS_Interval
  <2> QED BY <2>1, FS_Subset
<1>1. ASSUME Bad # {} PROVE FALSE
  <2>1. PICK m \in Bad : \A k \in Bad : m <= k
    <3>1. Bad \in SUBSET Nat OBVIOUS
    <3> HIDE DEF Bad
    <3> QED BY <1>1, <3>1, LeastNat
  <2>2. m # 0
    <3> SUFFICES ASSUME m = 0 PROVE FALSE OBVIOUS
    <3>1. Part(m) = {} OBVIOUS
    <3>2. Cardinality({}) = 0 BY FS_EmptySet
    <3> DEFINE f == [k \in 1..0 |-> 0]
    <3>3. f \in [1..0 -> {}] /\ Increasing(f) BY DEF Increasing
    <3>4. Enumerable({})
      <4> HIDE DEF f
      <4> QED BY <3>2, <3>3 DEF Enumerable
    <3> QED BY <2>1, <3>1, <3>4
  <2>3. m - 1 \in Nat /\ Enumerable(Part(m - 1)) BY <2>1, <2>2
  <2>4. CASE m \in K
    <3>1. Part(m) = Part(m - 1) \cup {m} BY <2>2, <2>3, <2>4
    <3>2. \A k \in Part(m - 1) : k < m BY <2>3
    <3>3. Enumerable(Part(m - 1) \cup {m})
      <4>1. IsFiniteSet(Part(m - 1)) /\ Part(m - 1) \in SUBSET Nat BY <1>0, <2>3
      <4>2. m \in Nat BY <2>1
      <4> HIDE DEF Part, Bad
      <4> QED BY <2>3, <3>2, <4>1, <4>2, EnumerateMore
    <3> QED BY <2>1, <3>1, <3>3
  <2>5. CASE m \notin K
    <3>1. Part(m) = Part(m - 1) BY <2>2, <2>3, <2>5
    <3> QED BY <2>1, <2>3, <3>1
  <2> QED BY <2>4, <2>5
<1>2. Enumerable(Part(n)) BY <1>1
<1>3. Part(n) = K OBVIOUS
<1> QED BY <1>2, <1>3

\* A list of as many different elements as a set has lists all of them.
LEMMA ListsAll ==
    ASSUME NEW X, IsFiniteSet(X), NEW f \in [1..Cardinality(X) -> X],
           \A j, k \in 1..Cardinality(X) : j # k => f[j] # f[k]
    PROVE  \A x \in X : \E k \in 1..Cardinality(X) : f[k] = x
<1>1. PICK n \in Nat : n = Cardinality(X) BY FS_CardinalityType
<1>2. IsFiniteSet(1..n) /\ Cardinality(1..n) = n BY FS_Interval
<1>3. f \in Injection(1..n, X) BY <1>1 DEF Injection, IsInjective
<1>4. Cardinality(1..n) = Cardinality(X) BY <1>1, <1>2
<1>5. f \in Surjection(1..n, X) BY <1>3, <1>4, FS_Injection
<1> QED BY <1>1, <1>5 DEF Surjection

\* removeFromOrderBook leaves the other entries of the queue, in their order.
LEMMA WithoutPart ==
    ASSUME NEW q \in Seq(Ref), NEW id
    PROVE  /\ Without(q, id) \in Seq(Ref)
           /\ \E f \in [DOMAIN Without(q, id) -> DOMAIN q] :
                /\ \A j, k \in DOMAIN Without(q, id) : j < k => f[j] < f[k]
                /\ \A k \in DOMAIN Without(q, id) : Without(q, id)[k] = q[f[k]]
           /\ \A k \in DOMAIN Without(q, id) : Without(q, id)[k][1] # id
           /\ \A j \in DOMAIN q :
                q[j][1] # id => \E k \in DOMAIN Without(q, id) : Without(q, id)[k] = q[j]
<1> DEFINE kept == {i \in DOMAIN q : q[i][1] # id}
           at == CHOOSE f \in [1..Cardinality(kept) -> kept] : Increasing(f)
<1>1. DOMAIN q = 1..Len(q) /\ Len(q) \in Nat BY LenProperties
<1>2. kept \in SUBSET (1..Len(q)) BY <1>1
<1>3. Enumerable(kept)
  <2> HIDE DEF kept
  <2> QED BY <1>1, <1>2, EnumerateAll
<1>4. at \in [1..Cardinality(kept) -> kept] /\ Increasing(at) BY <1>3 DEF Enumerable
<1>5. IsFiniteSet(kept) /\ Cardinality(kept) \in Nat
  <2>1. IsFiniteSet(kept)
    <3> HIDE DEF kept
    <3>1. IsFiniteSet(1..Len(q)) BY <1>1, FS_Interval
    <3> QED BY <1>2, <3>1, FS_Subset
  <2> QED BY <2>1, FS_CardinalityType
<1>6. Without(q, id) = [k \in 1..Cardinality(kept) |-> q[at[k]]] BY DEF Without, Increasing
<1>7. kept \subseteq DOMAIN q OBVIOUS
<1> HIDE DEF kept, at
<1>8. \A k \in 1..Cardinality(kept) : at[k] \in DOMAIN q BY <1>4, <1>7
<1>9. Without(q, id) \in Seq(Ref)
  <2>1. \A k \in DOMAIN q : q[k] \in Ref BY <1>1, ElementOfSeq
  <2>2. Without(q, id) \in [1..Cardinality(kept) -> Ref] BY <1>6, <1>8, <2>1
  <2> QED BY <1>5, <2>2, SeqDef
<1>10. DOMAIN Without(q, id) = 1..Cardinality(kept) BY <1>6
<1>11. at \in [DOMAIN Without(q, id) -> DOMAIN q] BY <1>4, <1>8, <1>10
<1>12. \A j, k \in DOMAIN Without(q, id) : j < k => at[j] < at[k] BY <1>4, <1>10 DEF Increasing
<1>13. \A k \in DOMAIN Without(q, id) : Without(q, id)[k] = q[at[k]] BY <1>6, <1>10
<1>14. \A k \in DOMAIN Without(q, id) : Without(q, id)[k][1] # id
  <2>1. \A k \in 1..Cardinality(kept) : at[k] \in kept BY <1>4
  <2>2. \A i \in kept : q[i][1] # id BY DEF kept
  <2> QED BY <1>10, <1>13, <2>1, <2>2
<1>15. ASSUME NEW j \in DOMAIN q, q[j][1] # id
       PROVE  \E k \in DOMAIN Without(q, id) : Without(q, id)[k] = q[j]
  <2>1. j \in kept BY <1>15 DEF kept
  <2>2. \A i, k \in 1..Cardinality(kept) : i # k => at[i] # at[k]
    <3> SUFFICES ASSUME NEW i \in 1..Cardinality(kept), NEW k \in 1..Cardinality(kept), i # k
                 PROVE  at[i] # at[k]
      OBVIOUS
    <3>1. at[i] \in Nat /\ at[k] \in Nat BY <1>1, <1>8
    <3>2. i < k => at[i] < at[k] BY <1>4 DEF Increasing
    <3>3. k < i => at[k] < at[i] BY <1>4 DEF Increasing
    <3> QED BY <1>5, <3>1, <3>2, <3>3
  <2>3. PICK k \in 1..Cardinality(kept) : at[k] = j BY <1>4, <1>5, <2>1, <2>2, ListsAll
  <2> QED BY <1>10, <1>13, <2>3
<1> QED BY <1>9, <1>11, <1>12, <1>13, <1>14, <1>15

\* addToOrderBook arranges the entries of the queue and the new ones.
LEMMA PlacementsArrange ==
    ASSUME NEW q \in Seq(Ref), NEW new \in SUBSET Ref, IsFiniteSet(new), NEW p \in Placements(q, new)
    PROVE  /\ p \in Seq(Ref)
           /\ \A k \in DOMAIN p : p[k] \in new \/ \E j \in DOMAIN q : p[k] = q[j]
           /\ \A j, k \in DOMAIN p : j # k => p[j] # p[k]
           /\ \A r \in new : \E k \in DOMAIN p : p[k] = r
           /\ \A j \in DOMAIN q : \E k \in DOMAIN p : p[k] = q[j]
<1> DEFINE all == ToSet(q) \cup new
<1>1. p \in SetToSeqs(all) BY DEF Placements
<1>2. DOMAIN q = 1..Len(q) /\ Len(q) \in Nat BY LenProperties
<1>3. ToSet(q) = {q[j] : j \in DOMAIN q} BY DEF ToSet
<1>4. IsFiniteSet(ToSet(q))
  <2>1. IsFiniteSet(DOMAIN q) BY <1>2, FS_Interval
  <2>2. q \in Surjection(DOMAIN q, ToSet(q)) BY <1>3, SeqDef DEF Surjection
  <2> QED BY <2>1, <2>2, FS_Surjection
<1>5. IsFiniteSet(all) BY <1>4, FS_Union
<1>6. Cardinality(all) \in Nat BY <1>5, FS_CardinalityType
<1>7. p \in [1..Cardinality(all) -> all] /\ \A j, k \in 1..Cardinality(all) : j # k => p[j] # p[k]
  BY <1>1 DEF SetToSeqs
<1>8. \A j \in DOMAIN q : q[j] \in Ref BY <1>2, ElementOfSeq
<1>9. all \subseteq Ref BY <1>3, <1>8
<1> HIDE DEF all
<1>10. p \in Seq(Ref) BY <1>6, <1>7, <1>9, SeqDef
<1>11. \A k \in DOMAIN p : p[k] \in all BY <1>7
<1>12. \A r \in all : \E k \in DOMAIN p : p[k] = r BY <1>5, <1>7, ListsAll
<1>13. /\ \A r \in new : \E k \in DOMAIN p : p[k] = r
       /\ \A j \in DOMAIN q : \E k \in DOMAIN p : p[k] = q[j]
  BY <1>3, <1>12 DEF all
<1> QED BY <1>3, <1>7, <1>10, <1>11, <1>13 DEF all

-----------------------------------------------------------------------------
(* The invariant of NoOverfill *)

Alive(r) == obj[r].status # "ABSENT"

\* The object of the order that handler s creates.
Taker(s) == <<req[s].id, "created">>

\* What handler s has matched for order i and not yet written.
Share(s, i) == IF At(s, "create", "persist") THEN req[s].fills[i] ELSE 0
Pending(i) == SumFunction([s \in Slots |-> Share(s, i)])

Places == {"idle", "insert", "match", "persist", "rest", "remove", "save"}
Call == [op : {"none", "create", "cancel", "expire"}, pc : Places, id : 0..MaxOrders, row : RowType,
         fills : [Ids -> Nat], touched : SUBSET Ref, todo : SUBSET (Ids \X RowType)]

\* The types, those of the handlers included.
EngineTypes ==
  /\ orders \in Seq(CreateOrderDto) /\ Len(orders) <= MaxOrders
  /\ db \in [Ids -> RowType]
  /\ traded \in [Ids -> Nat]
  /\ obj \in [Ref -> RowType]
  /\ book \in [OrderSide -> Seq(Ref)]
  /\ boot \in [pc : {"find", "add", "ready"}, found : SUBSET (Ids \X RowType)]
  /\ req \in [Slots -> Call]
  /\ restarts \in Nat

\* Before the books are loaded nothing is in memory, and what was read is what is stored.
LoadsFirst ==
  boot.pc # "ready" =>
    /\ \A s \in Slots : req[s] = Idle
    /\ \A r \in Ref : ~Alive(r)
    /\ \A side \in OrderSide : book[side] = <<>>
    /\ boot.pc = "add" => boot.found = {<<i, db[i]>> : i \in {j \in Ids : db[j].status \in OpenStatus}}

\* An order without a row has no object and no trade.
Unborn(i) == i > Len(orders) \/ \E s \in Slots : At(s, "create", "insert") /\ req[s].id = i
UnbornAreBlank ==
  \A i \in Ids : Unborn(i) => /\ traded[i] = 0
                              /\ db[i].status \notin OpenStatus
                              /\ ~Alive(<<i, "created">>) /\ ~Alive(<<i, "loaded">>)

\* An order has one object, the created or the loaded one.
OneObject == \A i \in Ids : ~(Alive(<<i, "created">>) /\ Alive(<<i, "loaded">>))

\* The books hold objects, each once.
BookHoldsObjects ==
  \A side \in OrderSide :
    /\ \A k \in DOMAIN book[side] : Alive(book[side][k])
    /\ \A j, k \in DOMAIN book[side] : j # k => book[side][j] # book[side][k]

\* What a createOrder in progress relies on: its order is its own and not in a book, ...
CreateOK(s) ==
  /\ req[s].id \in DOMAIN orders
  /\ req[s].pc \in {"insert", "match", "persist", "rest"}
  /\ \A side \in OrderSide : \A k \in DOMAIN book[side] : book[side][k][1] # req[s].id
  /\ req[s].pc # "insert" => Alive(Taker(s))
  /\ req[s].pc = "match" => obj[Taker(s)].filled = 0
  /\ \A r \in req[s].touched : Alive(r)
  /\ req[s].pc = "persist" =>
       \A i \in Ids : req[s].fills[i] # 0 => i = req[s].id \/ \E r \in req[s].touched : r[1] = i
CreatesOK ==
  /\ \A s \in Slots : req[s].op = "create" => CreateOK(s)
  /\ \A s, u \in Slots : req[s].op = "create" /\ req[u].op = "create" /\ s # u => req[s].id # req[u].id

\* An object's filled quantity covers the trades of its order, those on their way included.
ObjectsCover ==
  \A r \in Ref : Alive(r) => /\ r[1] \in DOMAIN orders
                             /\ traded[r[1]] + Pending(r[1]) <= obj[r].filled
                             /\ obj[r].filled <= orders[r[1]].quantity

\* An open row's filled quantity covers the trades of its order.
OpenRowsCover ==
  \A i \in Ids : db[i].status \in OpenStatus => /\ i \in DOMAIN orders
                                                /\ traded[i] <= db[i].filled
                                                /\ db[i].filled <= orders[i].quantity

FillInv == /\ EngineTypes /\ LoadsFirst /\ UnbornAreBlank /\ OneObject /\ BookHoldsObjects
           /\ CreatesOK /\ ObjectsCover /\ OpenRowsCover /\ NoOverfill

\* The invariant holds before the first request.
LEMMA FillInit == Init => FillInv
<1> SUFFICES ASSUME Init PROVE FillInv
  OBVIOUS
<1>0. MaxOrders \in Nat BY EngineAssumption
<1>1. Absent \in RowType /\ Absent.status = "ABSENT" /\ "ABSENT" \notin OpenStatus
  BY DEF Absent, RowType, OrderStatus, OpenStatus
<1>2. Idle \in Call /\ Idle.op = "none"
  BY <1>0, <1>1 DEF Idle, Call, Places
<1>3. orders = <<>> /\ Len(orders) = 0 /\ orders \in Seq(CreateOrderDto) /\ DOMAIN orders = {}
  BY EmptySeq DEF Init
<1>4. \A side \in OrderSide : book[side] = <<>> /\ DOMAIN book[side] = {}
  BY EmptySeq DEF Init
<1>5. EngineTypes
  <2>1. book \in [OrderSide -> Seq(Ref)] BY EmptySeq DEF Init
  <2> QED BY <1>0, <1>1, <1>2, <1>3, <2>1 DEF Init, EngineTypes
<1>6. /\ \A r \in Ref : ~Alive(r)
      /\ \A i \in Ids : <<i, "created">> \in Ref /\ <<i, "loaded">> \in Ref
  BY <1>1 DEF Init, Alive, Ref
<1>7. LoadsFirst BY <1>4, <1>6 DEF Init, LoadsFirst
<1>8. UnbornAreBlank BY <1>1, <1>6 DEF Init, UnbornAreBlank
<1>9. OneObject BY <1>6 DEF OneObject
<1>10. BookHoldsObjects BY <1>4 DEF BookHoldsObjects
<1>11. CreatesOK BY <1>2 DEF Init, CreatesOK
<1>12. ObjectsCover BY <1>6 DEF ObjectsCover
<1>13. OpenRowsCover BY <1>1 DEF Init, OpenRowsCover
<1>14. NoOverfill BY <1>3 DEF NoOverfill
<1> QED BY <1>5, <1>7, <1>8, <1>9, <1>10, <1>11, <1>12, <1>13, <1>14 DEF FillInv

\* The parts of a handler's state, and what changing its place leaves alone.
LEMMA CallParts ==
    ASSUME EngineTypes, NEW s \in Slots
    PROVE  /\ req[s].op \in {"none", "create", "cancel", "expire"} /\ req[s].pc \in Places
           /\ req[s].id \in 0..MaxOrders /\ req[s].row \in RowType /\ req[s].fills \in [Ids -> Nat]
           /\ req[s].touched \subseteq Ref /\ req[s].todo \subseteq (Ids \X RowType)
           /\ DOMAIN req = Slots
  BY DEF EngineTypes, Call

\* What is on its way is a number, ...
LEMMA PendingNat ==
    ASSUME EngineTypes, NEW i \in Ids
    PROVE  Pending(i) \in Nat /\ \A s \in Slots : Share(s, i) \in Nat
<1>1. \A s \in Slots : Share(s, i) \in Nat BY CallParts DEF Share
<1>2. [s \in Slots |-> Share(s, i)] \in [Slots -> Nat] BY <1>1
<1>3. IsFiniteSet(Slots) BY EngineAssumption
<1>4. Pending(i) \in Nat BY <1>2, <1>3, FewTerms DEF Pending
<1> QED BY <1>1, <1>4

\* ... and a step of one handler changes it by that handler's share.
LEMMA PendingMoves ==
    ASSUME EngineTypes, EngineTypes', NEW s \in Slots,
           \A u \in Slots : u # s => req'[u] = req[u], NEW i \in Ids
    PROVE  Pending(i)' = Pending(i) - Share(s, i) + Share(s, i)'
<1> DEFINE w == [u \in Slots |-> Share(u, i)]
           v == [u \in Slots |-> Share(u, i)']
<1>1. \A u \in Slots : Share(u, i) \in Nat BY PendingNat
<1>2. \A u \in Slots : Share(u, i)' \in Nat
  <2>1. \A u \in Slots : req'[u].fills \in [Ids -> Nat] BY DEF EngineTypes, Call
  <2> QED BY <2>1 DEF Share
<1>3. \A u \in Slots : u # s => Share(u, i)' = Share(u, i) BY DEF Share, At
<1>4. w \in [Slots -> Nat] /\ v \in [Slots -> Nat] BY <1>1, <1>2
<1>5. /\ w[s] = Share(s, i) /\ v[s] = Share(s, i)'
      /\ \A u \in Slots : u # s => v[u] = w[u]
  BY <1>3
<1>6. Pending(i) = SumFunction(w) /\ Pending(i)' = SumFunction(v) BY DEF Pending
<1>7. IsFiniteSet(Slots) BY EngineAssumption
<1> HIDE DEF w, v
<1>8. SumFunction(v) = SumFunction(w) - w[s] + v[s] BY <1>4, <1>5, <1>7, OneTermChanges
<1> QED BY <1>5, <1>6, <1>8

\* A handler that is not idle runs only once the books are loaded.
LEMMA BusyIsReady ==
    ASSUME LoadsFirst, NEW s \in Slots, req[s].pc # "idle"
    PROVE  boot.pc = "ready"
  BY DEF LoadsFirst, Idle

\* The books keep some of their entries, each once; handler s may have added its order.
BookStep(s) ==
  \A side \in OrderSide :
    /\ \A k \in DOMAIN book'[side] :
         \/ \E j \in DOMAIN book[side] : book'[side][k] = book[side][j]
         \/ req[s].op = "create" /\ req[s].pc = "rest" /\ book'[side][k] = Taker(s)
    /\ \A j, k \in DOMAIN book'[side] : j # k => book'[side][j] # book'[side][k]

\* A step of a handler that is no createOrder afterwards, and that closes rows at most.
LEMMA HandlerStep ==
    ASSUME FillInv, EngineTypes', NEW s \in Slots, boot.pc = "ready",
           \A u \in Slots : u # s => req'[u] = req[u], req'[s].op # "create",
           BookStep(s),
           \A i \in Ids : db'[i] = db[i] \/ db'[i].status \notin OpenStatus,
           UNCHANGED <<orders, traded, obj, boot>>
    PROVE  FillInv'
<1>0. /\ EngineTypes /\ LoadsFirst /\ UnbornAreBlank /\ OneObject /\ BookHoldsObjects
      /\ CreatesOK /\ ObjectsCover /\ OpenRowsCover /\ NoOverfill
  BY DEF FillInv
<1>1. \A i \in Ids : Pending(i)' = Pending(i) - Share(s, i) + Share(s, i)' BY <1>0, PendingMoves
<1>2. \A i \in Ids : Share(s, i)' = 0 BY DEF Share, At
<1>3. \A i \in Ids : Pending(i) \in Nat /\ Share(s, i) \in Nat BY <1>0, PendingNat
<1>4. \A i \in Ids : Pending(i)' \in Int /\ Pending(i)' <= Pending(i)
  <2> SUFFICES ASSUME NEW i \in Ids PROVE Pending(i)' \in Int /\ Pending(i)' <= Pending(i)
    OBVIOUS
  <2>1. PICK a \in Nat, b \in Nat : a = Pending(i) /\ b = Share(s, i) BY <1>3
  <2>2. Pending(i)' = a - b BY <1>1, <1>2, <2>1
  <2> QED BY <2>1, <2>2
<1>5. LoadsFirst' BY DEF LoadsFirst
<1>6. UnbornAreBlank'
  <2>1. \A i \in Ids : Unborn(i)' => Unborn(i) BY DEF Unborn, At
  <2> QED BY <1>0, <2>1 DEF UnbornAreBlank, Alive
<1>7. OneObject' BY <1>0 DEF OneObject, Alive
<1>8. BookHoldsObjects'
  <2>1. req[s].op = "create" /\ req[s].pc = "rest" => Alive(Taker(s)) BY <1>0 DEF CreatesOK, CreateOK
  <2> QED BY <1>0, <2>1 DEF BookHoldsObjects, BookStep, Alive
<1>9. CreatesOK'
  <2> SUFFICES ASSUME NEW u \in Slots, req'[u].op = "create" PROVE CreateOK(u)'
    BY <1>0 DEF CreatesOK
  <2>1. u # s /\ req'[u] = req[u] /\ CreateOK(u) BY <1>0 DEF CreatesOK
  <2>2. req[s].op = "create" => Taker(s)[1] # req[u].id BY <1>0, <2>1 DEF CreatesOK, Taker
  <2>3. \A side \in OrderSide : \A k \in DOMAIN book'[side] : book'[side][k][1] # req[u].id
    BY <2>1, <2>2 DEF CreateOK, BookStep
  <2> QED BY <2>1, <2>3 DEF CreateOK, Taker, Alive
<1>10. ObjectsCover'
  <2> SUFFICES ASSUME NEW r \in Ref, Alive(r)
               PROVE  /\ r[1] \in DOMAIN orders
                      /\ traded[r[1]] + Pending(r[1])' <= obj[r].filled
                      /\ obj[r].filled <= orders[r[1]].quantity
    BY DEF ObjectsCover, Alive
  <2>1. /\ r[1] \in DOMAIN orders /\ traded[r[1]] + Pending(r[1]) <= obj[r].filled
        /\ obj[r].filled <= orders[r[1]].quantity
    BY <1>0 DEF ObjectsCover
  <2>2. r[1] \in Ids /\ traded[r[1]] \in Nat /\ obj[r].filled \in Nat BY <1>0 DEF EngineTypes, Ref, RowType
  <2> QED BY <1>3, <1>4, <2>1, <2>2
<1>11. OpenRowsCover' BY <1>0 DEF OpenRowsCover
<1>12. NoOverfill' BY <1>0 DEF NoOverfill
<1> QED BY <1>5, <1>6, <1>7, <1>8, <1>9, <1>10, <1>11, <1>12 DEF FillInv

\* Books that stay, or lose the entries of one order.
LEMMA BookStays ==
    ASSUME EngineTypes, BookHoldsObjects, NEW s \in Slots, book' = book
    PROVE  BookStep(s) /\ book' \in [OrderSide -> Seq(Ref)]
  BY DEF BookStep, BookHoldsObjects, EngineTypes

\* removeFromOrderBook leaves a part of the book.
LEMMA BookLoses ==
    ASSUME EngineTypes, BookHoldsObjects, NEW s \in Slots, NEW side, NEW id,
           book' = [book EXCEPT ![side] = Without(@, id)]
    PROVE  BookStep(s) /\ book' \in [OrderSide -> Seq(Ref)]
<1>1. CASE side \notin OrderSide
  <2>1. book' = book BY <1>1 DEF EngineTypes
  <2> QED BY <2>1, BookStays
<1>2. CASE side \in OrderSide
  <2>1. book[side] \in Seq(Ref) /\ DOMAIN book = OrderSide BY <1>2 DEF EngineTypes
  <2>2. PICK q : q = Without(book[side], id) OBVIOUS
  <2>3. /\ q \in Seq(Ref)
        /\ \E f \in [DOMAIN q -> DOMAIN book[side]] :
                /\ \A j, k \in DOMAIN q : j < k => f[j] < f[k]
                /\ \A k \in DOMAIN q : q[k] = book[side][f[k]]
    BY <2>1, <2>2, WithoutPart
  <2>4. PICK f \in [DOMAIN q -> DOMAIN book[side]] :
                /\ \A j, k \in DOMAIN q : j < k => f[j] < f[k]
                /\ \A k \in DOMAIN q : q[k] = book[side][f[k]]
    BY <2>3
  <2>5. book' = [book EXCEPT ![side] = q] BY <2>2
  <2>6. book' \in [OrderSide -> Seq(Ref)] BY <1>2, <2>3, <2>5 DEF EngineTypes
  <2>7. \A k \in DOMAIN q : \E j \in DOMAIN book[side] : q[k] = book[side][j] BY <2>4
  <2>8. \A j, k \in DOMAIN q : j # k => q[j] # q[k]
    <3> SUFFICES ASSUME NEW j \in DOMAIN q, NEW k \in DOMAIN q, j # k PROVE q[j] # q[k]
      OBVIOUS
    <3>1. j \in Nat /\ k \in Nat
      <4>1. DOMAIN q = 1..Len(q) /\ Len(q) \in Nat BY <2>3, LenProperties
      <4> QED BY <4>1
    <3>2. f[j] \in DOMAIN book[side] /\ f[k] \in DOMAIN book[side] BY <2>4
    <3>3. f[j] \in Nat /\ f[k] \in Nat
      <4>1. DOMAIN book[side] = 1..Len(book[side]) /\ Len(book[side]) \in Nat BY <2>1, LenProperties
      <4> QED BY <3>2, <4>1
    <3>4. f[j] # f[k] BY <2>4, <3>1, <3>3
    <3>5. q[j] = book[side][f[j]] /\ q[k] = book[side][f[k]] BY <2>4
    <3> QED BY <1>2, <3>2, <3>4, <3>5 DEF BookHoldsObjects
  <2>9. BookStep(s)
    <3> SUFFICES ASSUME NEW d \in OrderSide
                 PROVE  /\ \A k \in DOMAIN book'[d] : \E j \in DOMAIN book[d] : book'[d][k] = book[d][j]
                        /\ \A j, k \in DOMAIN book'[d] : j # k => book'[d][j] # book'[d][k]
      BY DEF BookStep
    <3>1. CASE d = side
      <4>1. book'[d] = q BY <1>2, <2>1, <2>5, <3>1
      <4> QED BY <2>7, <2>8, <3>1, <4>1
    <3>2. CASE d # side
      <4>1. book'[d] = book[d] BY <2>1, <2>5, <3>2
      <4> QED BY <4>1 DEF BookHoldsObjects
    <3> QED BY <3>1, <3>2
  <2> QED BY <2>6, <2>9
<1> QED BY <1>1, <1>2

\* The handlers of cancelOrder and cleanupExpiredOrders, and a handler that throws.
LEMMA FillClose ==
    ASSUME FillInv, NEW s \in Slots, ~EarlyRequests,
           \/ \E id \in Ids : CancelOrder(s, id)
           \/ CancelOrderRemove(s) \/ CancelOrderSave(s)
           \/ \E ids \in SUBSET Expired : CleanupExpiredOrders(s, ids)
           \/ CleanupRemove(s) \/ CleanupSave(s) \/ HandlerFails(s)
    PROVE  FillInv'
<1>0. EngineTypes /\ LoadsFirst /\ BookHoldsObjects BY DEF FillInv
<1>1. MaxOrders \in Nat BY EngineAssumption
<1>2. Absent \in RowType BY DEF Absent, RowType, OrderStatus
<1>3. Idle \in Call /\ Idle.op = "none" /\ Idle.pc = "idle" BY <1>1, <1>2 DEF Idle, Call, Places
<1>4. /\ req[s] \in Call /\ req[s].pc \in Places /\ req[s].row \in RowType /\ DOMAIN req = Slots
      /\ req[s].todo \subseteq (Ids \X RowType) /\ req[s].id \in 0..MaxOrders
  BY <1>0, CallParts DEF EngineTypes
<1>5. Ids \subseteq 0..MaxOrders BY <1>1 DEF Ids
<1>6. \A c \in Call : \A p \in Places : [c EXCEPT !.pc = p] \in Call /\ [c EXCEPT !.pc = p].op = c.op
  BY DEF Call
<1>7. \A row \in RowType : \A st \in {"CANCELLED", "EXPIRED"} :
         [row EXCEPT !.status = st] \in RowType /\ [row EXCEPT !.status = st].status \notin OpenStatus
  BY DEF RowType, OrderStatus, OpenStatus
<1>8. {"remove", "save"} \subseteq Places BY DEF Places
<1>9. CASE \E id \in Ids : CancelOrder(s, id)
  <2>1. PICK id \in Ids : CancelOrder(s, id) BY <1>9
  <2> DEFINE c == [Idle EXCEPT !.op = "cancel", !.pc = "remove", !.id = id, !.row = db[id]]
  <2>2. c \in Call /\ c.op = "cancel"
    <3>1. db[id] \in RowType /\ id \in 0..MaxOrders BY <1>0, <1>5 DEF EngineTypes
    <3> QED BY <1>2, <3>1 DEF Idle, Call, Places
  <2>3. req' = [req EXCEPT ![s] = c] /\ boot.pc = "ready" /\ UNCHANGED <<orders, db, traded, obj, book, boot, restarts>>
    BY <2>1 DEF CancelOrder, Serving
  <2> HIDE DEF c
  <2>4. req' \in [Slots -> Call] /\ req'[s] = c /\ \A u \in Slots : u # s => req'[u] = req[u]
    BY <1>0, <2>2, <2>3 DEF EngineTypes
  <2>5. EngineTypes' BY <1>0, <2>3, <2>4 DEF EngineTypes
  <2>6. BookStep(s) BY <1>0, <2>3, BookStays
  <2> QED BY <2>2, <2>3, <2>4, <2>5, <2>6, HandlerStep
<1>10. CASE CancelOrderRemove(s)
  <2>1. At(s, "cancel", "remove") /\ UNCHANGED <<orders, db, traded, obj, boot, restarts>>
    BY <1>10 DEF CancelOrderRemove
  <2>2. req' = [req EXCEPT ![s] = [req[s] EXCEPT !.pc = "save"]] BY <1>10 DEF CancelOrderRemove, Goto
  <2>3. PICK side : book' = [book EXCEPT ![side] = Without(@, req[s].id)] BY <1>10 DEF CancelOrderRemove
  <2>4. BookStep(s) /\ book' \in [OrderSide -> Seq(Ref)] BY <1>0, <2>3, BookLoses
  <2>5. /\ req' \in [Slots -> Call] /\ req'[s].op = "cancel" /\ \A u \in Slots : u # s => req'[u] = req[u]
    BY <1>0, <1>4, <1>6, <1>8, <2>1, <2>2 DEF EngineTypes, At
  <2>6. EngineTypes' BY <1>0, <2>1, <2>4, <2>5 DEF EngineTypes
  <2>7. boot.pc = "ready" BY <1>0, <2>1, BusyIsReady DEF At
  <2> QED BY <2>1, <2>4, <2>5, <2>6, <2>7, HandlerStep
<1>11. CASE CancelOrderSave(s)
  <2>1. At(s, "cancel", "save") /\ UNCHANGED <<orders, traded, obj, book, boot, restarts>>
    BY <1>11 DEF CancelOrderSave
  <2>2. req' = [req EXCEPT ![s] = Idle] BY <1>11 DEF CancelOrderSave, Return
  <2>3. db' = [db EXCEPT ![req[s].id] = [req[s].row EXCEPT !.status = "CANCELLED"]]
    BY <1>11 DEF CancelOrderSave
  <2>4. db' \in [Ids -> RowType] /\ \A i \in Ids : db'[i] = db[i] \/ db'[i].status \notin OpenStatus
    <3>1. PICK row \in RowType : row = [req[s].row EXCEPT !.status = "CANCELLED"] /\ row.status \notin OpenStatus
      BY <1>4, <1>7
    <3> QED BY <1>0, <2>3, <3>1 DEF EngineTypes
  <2>5. req' \in [Slots -> Call] /\ req'[s].op = "none" /\ \A u \in Slots : u # s => req'[u] = req[u]
    BY <1>0, <1>3, <2>2 DEF EngineTypes
  <2>6. EngineTypes' BY <1>0, <2>1, <2>4, <2>5 DEF EngineTypes
  <2>7. boot.pc = "ready" BY <1>0, <2>1, BusyIsReady DEF At
  <2>8. BookStep(s) BY <1>0, <2>1, BookStays
  <2> QED BY <2>1, <2>4, <2>5, <2>6, <2>7, <2>8, HandlerStep
<1>12. CASE \E ids \in SUBSET Expired : CleanupExpiredOrders(s, ids)
  <2>1. PICK ids \in SUBSET Expired : CleanupExpiredOrders(s, ids) BY <1>12
  <2> DEFINE rows == {<<i, db[i]>> : i \in ids}
             c == [Idle EXCEPT !.op = "expire", !.pc = "remove", !.todo = rows]
  <2>2. rows \subseteq (Ids \X RowType)
    <3>1. ids \subseteq Ids
      <4>1. DOMAIN orders = 1..Len(orders) /\ Len(orders) \in Nat /\ Len(orders) <= MaxOrders
        BY <1>0, LenProperties DEF EngineTypes
      <4> QED BY <1>1, <4>1 DEF Expired, Ids
    <3> QED BY <1>0, <3>1 DEF EngineTypes
  <2>3. c \in Call /\ c.op = "expire"
    <3> HIDE DEF rows
    <3> QED BY <1>3, <2>2 DEF Call, Places
  <2>4. req' = [req EXCEPT ![s] = c] /\ boot.pc = "ready" /\ UNCHANGED <<orders, db, traded, obj, book, boot, restarts>>
    BY <2>1 DEF CleanupExpiredOrders, Serving
  <2> HIDE DEF c
  <2>5. req' \in [Slots -> Call] /\ req'[s] = c /\ \A u \in Slots : u # s => req'[u] = req[u]
    BY <1>0, <2>3, <2>4 DEF EngineTypes
  <2>6. EngineTypes' BY <1>0, <2>4, <2>5 DEF EngineTypes
  <2>7. BookStep(s) BY <1>0, <2>4, BookStays
  <2> QED BY <2>3, <2>4, <2>5, <2>6, <2>7, HandlerStep
<1>13. CASE CleanupRemove(s)
  <2>1. At(s, "expire", "remove") /\ UNCHANGED <<orders, db, traded, obj, boot, restarts>>
    BY <1>13 DEF CleanupRemove
  <2>2. PICK order \in req[s].todo :
          /\ book' = [book EXCEPT ![orders[order[1]].side] = Without(@, order[1])]
          /\ req' = [req EXCEPT ![s] = [req[s] EXCEPT !.pc = "save", !.id = order[1], !.row = order[2],
                                                      !.todo = req[s].todo \ {order}]]
    BY <1>13 DEF CleanupRemove
  <2>3. order[1] \in 0..MaxOrders /\ order[2] \in RowType BY <1>4, <1>5
  <2> DEFINE c == [req[s] EXCEPT !.pc = "save", !.id = order[1], !.row = order[2],
                             !.todo = req[s].todo \ {order}]
  <2>4. c \in Call /\ c.op = "expire" BY <1>4, <2>1, <2>3 DEF At, Call, Places
  <2>5. req' = [req EXCEPT ![s] = c] BY <2>2
  <2>6. BookStep(s) /\ book' \in [OrderSide -> Seq(Ref)]
    <3>1. PICK side : book' = [book EXCEPT ![side] = Without(@, order[1])] BY <2>2
    <3> QED BY <1>0, <3>1, BookLoses
  <2> HIDE DEF c
  <2>7. req' \in [Slots -> Call] /\ req'[s] = c /\ \A u \in Slots : u # s => req'[u] = req[u]
    BY <1>0, <2>4, <2>5 DEF EngineTypes
  <2>8. EngineTypes' BY <1>0, <2>1, <2>6, <2>7 DEF EngineTypes
  <2>9. boot.pc = "ready" BY <1>0, <2>1, BusyIsReady DEF At
  <2> QED BY <2>1, <2>4, <2>6, <2>7, <2>8, <2>9, HandlerStep
<1>14. CASE CleanupSave(s)
  <2>1. At(s, "expire", "save") /\ UNCHANGED <<orders, traded, obj, book, boot, restarts>>
    BY <1>14 DEF CleanupSave
  <2>2. req' = [req EXCEPT ![s] = Idle] \/ req' = [req EXCEPT ![s] = [req[s] EXCEPT !.pc = "remove"]]
    BY <1>14 DEF CleanupSave, Return, Goto
  <2>3. db' = [db EXCEPT ![req[s].id] = [req[s].row EXCEPT !.status = "EXPIRED"]]
    BY <1>14 DEF CleanupSave
  <2>4. db' \in [Ids -> RowType] /\ \A i \in Ids : db'[i] = db[i] \/ db'[i].status \notin OpenStatus
    <3>1. PICK row \in RowType : row = [req[s].row EXCEPT !.status = "EXPIRED"] /\ row.status \notin OpenStatus
      BY <1>4, <1>7
    <3> QED BY <1>0, <2>3, <3>1 DEF EngineTypes
  <2>5. req' \in [Slots -> Call] /\ req'[s].op # "create" /\ \A u \in Slots : u # s => req'[u] = req[u]
    <3>1. PICK c \in Call : req' = [req EXCEPT ![s] = c] /\ c.op # "create"
      <4>1. CASE req' = [req EXCEPT ![s] = Idle] BY <1>3, <4>1
      <4>2. CASE req' = [req EXCEPT ![s] = [req[s] EXCEPT !.pc = "remove"]]
        <5>1. [req[s] EXCEPT !.pc = "remove"] \in Call /\ [req[s] EXCEPT !.pc = "remove"].op = "expire"
          BY <1>4, <1>6, <1>8, <2>1 DEF At
        <5> QED BY <4>2, <5>1
      <4> QED BY <2>2, <4>1, <4>2
    <3> QED BY <1>0, <3>1 DEF EngineTypes
  <2>6. EngineTypes' BY <1>0, <2>1, <2>4, <2>5 DEF EngineTypes
  <2>7. boot.pc = "ready" BY <1>0, <2>1, BusyIsReady DEF At
  <2>8. BookStep(s) BY <1>0, <2>1, BookStays
  <2> QED BY <2>1, <2>4, <2>5, <2>6, <2>7, <2>8, HandlerStep
<1>15. CASE HandlerFails(s)
  <2>1. req[s].pc # "idle" /\ UNCHANGED <<orders, db, traded, obj, book, boot, restarts>>
    BY <1>15 DEF HandlerFails
  <2>2. req' = [req EXCEPT ![s] = Idle] BY <1>15 DEF HandlerFails, Return
  <2>3. req' \in [Slots -> Call] /\ req'[s].op = "none" /\ \A u \in Slots : u # s => req'[u] = req[u]
    BY <1>0, <1>3, <2>2 DEF EngineTypes
  <2>4. EngineTypes' BY <1>0, <2>1, <2>3 DEF EngineTypes
  <2>5. boot.pc = "ready" BY <1>0, <2>1, BusyIsReady
  <2>6. BookStep(s) BY <1>0, <2>1, BookStays
  <2> QED BY <2>1, <2>3, <2>4, <2>5, <2>6, HandlerStep
<1> QED BY <1>9, <1>10, <1>11, <1>12, <1>13, <1>14, <1>15

\* After the commit an order that is not filled enters the book, and the handler ends.
LEMMA FillRest ==
    ASSUME FillInv, NEW s \in Slots, CreateOrderRest(s)
    PROVE  FillInv'
<1>0. EngineTypes /\ LoadsFirst /\ BookHoldsObjects /\ CreatesOK BY DEF FillInv
<1>1. At(s, "create", "rest") /\ UNCHANGED <<orders, db, traded, obj, boot, restarts>> BY DEF CreateOrderRest
<1>2. Idle \in Call /\ Idle.op = "none"
  <2>1. MaxOrders \in Nat BY EngineAssumption
  <2>2. Absent \in RowType BY DEF Absent, RowType, OrderStatus
  <2> QED BY <2>1, <2>2 DEF Idle, Call, Places
<1>3. req' = [req EXCEPT ![s] = Idle] BY DEF CreateOrderRest, Return
<1>4. req' \in [Slots -> Call] /\ req'[s].op = "none" /\ \A u \in Slots : u # s => req'[u] = req[u]
  BY <1>0, <1>2, <1>3 DEF EngineTypes
<1>5. CreateOK(s) BY <1>0, <1>1 DEF At, CreatesOK
<1>6. Taker(s) \in Ref
  <2>1. DOMAIN orders = 1..Len(orders) /\ Len(orders) \in Nat /\ Len(orders) <= MaxOrders /\ MaxOrders \in Nat
    BY <1>0, LenProperties, EngineAssumption DEF EngineTypes
  <2>2. req[s].id \in Ids BY <1>5, <2>1 DEF CreateOK, Ids
  <2> QED BY <2>2 DEF Taker, Ref
<1>7. BookStep(s) /\ book' \in [OrderSide -> Seq(Ref)]
  <2>1. CASE book' = book BY <1>0, <2>1, BookStays
  <2>2. CASE book' # book
    <3> DEFINE side == Order(Taker(s)).side
    <3>1. PICK q \in Placements(book[side], {Taker(s)}) : book' = [book EXCEPT ![side] = q]
      BY <2>2 DEF CreateOrderRest, Taker
    <3>2. CASE side \notin OrderSide
      <4>1. book' = book BY <1>0, <3>1, <3>2 DEF EngineTypes
      <4> QED BY <2>2, <4>1
    <3>3. CASE side \in OrderSide
      <4> HIDE DEF side
      <4>1. book[side] \in Seq(Ref) /\ DOMAIN book = OrderSide BY <1>0, <3>3 DEF EngineTypes
      <4>2. IsFiniteSet({Taker(s)}) /\ {Taker(s)} \in SUBSET Ref BY <1>6, FS_Singleton
      <4>3. /\ q \in Seq(Ref)
            /\ \A k \in DOMAIN q : q[k] \in {Taker(s)} \/ \E j \in DOMAIN book[side] : q[k] = book[side][j]
            /\ \A j, k \in DOMAIN q : j # k => q[j] # q[k]
        BY <3>1, <4>1, <4>2, PlacementsArrange
      <4>4. book'[side] = q /\ \A d \in OrderSide : d # side => book'[d] = book[d] BY <3>1, <3>3, <4>1
      <4>5. book' \in [OrderSide -> Seq(Ref)] BY <1>0, <3>1, <4>3 DEF EngineTypes
      <4>6. BookStep(s)
        <5> SUFFICES ASSUME NEW d \in OrderSide
                     PROVE  /\ \A k \in DOMAIN book'[d] : \/ \E j \in DOMAIN book[d] : book'[d][k] = book[d][j]
                                                          \/ book'[d][k] = Taker(s)
                            /\ \A j, k \in DOMAIN book'[d] : j # k => book'[d][j] # book'[d][k]
          BY <1>1 DEF BookStep, At
        <5>1. CASE d = side BY <4>3, <4>4, <5>1
        <5>2. CASE d # side BY <1>0, <4>4, <5>2 DEF BookHoldsObjects
        <5> QED BY <5>1, <5>2
      <4> QED BY <4>5, <4>6
    <3> QED BY <3>2, <3>3
  <2> QED BY <2>1, <2>2
<1>8. EngineTypes' BY <1>0, <1>1, <1>4, <1>7 DEF EngineTypes
<1>9. boot.pc = "ready" BY <1>0, <1>1, BusyIsReady DEF At
<1> QED BY <1>1, <1>4, <1>7, <1>8, <1>9, HandlerStep

\* The numbers of the orders.
LEMMA OrderNumbers ==
    ASSUME EngineTypes
    PROVE  /\ Len(orders) \in Nat /\ DOMAIN orders = 1..Len(orders) /\ DOMAIN orders \subseteq Ids
           /\ MaxOrders \in Nat /\ Ids = 1..MaxOrders
           /\ \A i \in DOMAIN orders : orders[i] \in CreateOrderDto /\ orders[i].quantity \in Nat
           /\ \A i \in Ids : <<i, "created">> \in Ref /\ <<i, "loaded">> \in Ref
           /\ \A r \in Ref : /\ r[1] \in Ids /\ (r = <<r[1], "created">> \/ r = <<r[1], "loaded">>)
                             /\ obj[r] \in RowType /\ obj[r].filled \in Nat
<1>1. Len(orders) \in Nat /\ DOMAIN orders = 1..Len(orders) /\ Len(orders) <= MaxOrders
  BY LenProperties DEF EngineTypes
<1>2. MaxOrders \in Nat /\ Ids = 1..MaxOrders BY EngineAssumption DEF Ids
<1>3. \A i \in DOMAIN orders : orders[i] \in CreateOrderDto /\ orders[i].quantity \in Nat
  <2>1. \A i \in DOMAIN orders : orders[i] \in CreateOrderDto BY <1>1, ElementOfSeq DEF EngineTypes
  <2> QED BY <2>1 DEF CreateOrderDto
<1>4. \A r \in Ref : obj[r] \in RowType /\ obj[r].filled \in Nat BY DEF EngineTypes, RowType
<1> QED BY <1>1, <1>2, <1>3, <1>4 DEF Ref

\* An order without a row has nothing on its way.
LEMMA NothingPending ==
    ASSUME NEW i \in Ids, \A u \in Slots : Share(u, i) = 0
    PROVE  Pending(i) = 0
<1>1. [u \in Slots |-> Share(u, i)] = [u \in Slots |-> 0] OBVIOUS
<1>2. IsFiniteSet(Slots) BY EngineAssumption
<1>3. SumFunction([u \in Slots |-> 0]) = SumOf([u \in Slots |-> 0], Slots)[Slots] BY SumFunctionIs
<1>4. SumOf([u \in Slots |-> 0], Slots)[Slots] = 0 BY <1>2, SumZero
<1> QED BY <1>1, <1>3, <1>4 DEF Pending

\* Nothing is on its way to the table for an order that was not inserted yet.
LEMMA UnbornNotPending ==
    ASSUME FillInv, NEW i \in Ids, Unborn(i)
    PROVE  Pending(i) = 0
<1>0. EngineTypes /\ UnbornAreBlank /\ CreatesOK BY DEF FillInv
<1>1. ~Alive(<<i, "created">>) /\ ~Alive(<<i, "loaded">>) BY <1>0 DEF UnbornAreBlank
<1>2. ASSUME NEW u \in Slots PROVE Share(u, i) = 0
  <2> SUFFICES ASSUME At(u, "create", "persist"), req[u].fills[i] # 0 PROVE FALSE
    BY DEF Share
  <2>1. CreateOK(u) BY <1>0 DEF CreatesOK, At
  <2>2. i = req[u].id \/ \E r \in req[u].touched : r[1] = i BY <2>1 DEF CreateOK, At
  <2>3. CASE i = req[u].id
    <3>1. Alive(<<i, "created">>) BY <2>1, <2>3 DEF CreateOK, At, Taker
    <3> QED BY <1>1, <3>1
  <2>4. CASE \E r \in req[u].touched : r[1] = i
    <3>1. PICK r \in req[u].touched : r[1] = i BY <2>4
    <3>2. r \in Ref /\ Alive(r) BY <1>0, <2>1, <3>1, CallParts DEF CreateOK
    <3>3. r = <<i, "created">> \/ r = <<i, "loaded">> BY <1>0, <3>1, <3>2, OrderNumbers
    <3> QED BY <1>1, <3>2, <3>3
  <2> QED BY <2>2, <2>3, <2>4
<1> QED BY <1>2, NothingPending

\* A new order: a number of its own, no row yet.
LEMMA FillCreate ==
    ASSUME FillInv, NEW s \in Slots, NEW dto \in CreateOrderDto, CreateOrder(s, dto), ~EarlyRequests
    PROVE  FillInv'
<1>0. /\ EngineTypes /\ LoadsFirst /\ UnbornAreBlank /\ OneObject /\ BookHoldsObjects
      /\ CreatesOK /\ ObjectsCover /\ OpenRowsCover /\ NoOverfill
  BY DEF FillInv
<1> DEFINE n == Len(orders) + 1
           c == [Idle EXCEPT !.op = "create", !.pc = "insert", !.id = n]
<1>1. /\ boot.pc = "ready" /\ req[s] = Idle /\ Len(orders) < MaxOrders
      /\ orders' = Append(orders, dto) /\ req' = [req EXCEPT ![s] = c]
      /\ UNCHANGED <<db, traded, obj, book, boot, restarts>>
  BY DEF CreateOrder, Serving
<1>2. dto.quantity \in Nat BY DEF CreateOrderDto
<1>3. /\ Len(orders) \in Nat /\ DOMAIN orders = 1..Len(orders) /\ DOMAIN orders \subseteq Ids
      /\ MaxOrders \in Nat /\ Ids = 1..MaxOrders
  BY <1>0, OrderNumbers
<1>4. /\ orders' \in Seq(CreateOrderDto) /\ Len(orders') = n /\ DOMAIN orders' = 1..n
      /\ \A i \in DOMAIN orders : orders'[i] = orders[i]
      /\ orders'[n] = dto
  <2>1. orders \in Seq(CreateOrderDto) BY <1>0 DEF EngineTypes
  <2>2. /\ orders' \in Seq(CreateOrderDto) /\ Len(orders') = Len(orders) + 1
        /\ \A i \in 1..Len(orders) : orders'[i] = orders[i]
        /\ orders'[Len(orders) + 1] = dto
    BY <1>1, <1>2, <2>1, AppendProperties
  <2>3. DOMAIN orders' = 1..Len(orders') BY <2>2, LenProperties
  <2> QED BY <1>3, <2>2, <2>3
<1>5. /\ c \in Call /\ c.op = "create" /\ c.pc = "insert" /\ c.id = n /\ c.touched = {}
      /\ c.fills = [i \in Ids |-> 0] /\ n \in Ids
  <2>1. Absent \in RowType BY DEF Absent, RowType, OrderStatus
  <2>2. n \in Ids /\ n \in 0..MaxOrders BY <1>1, <1>3
  <2> HIDE DEF n
  <2> QED BY <2>1, <2>2 DEF Idle, Call, Places
<1>6. Idle.op = "none" BY DEF Idle
<1> HIDE DEF c
<1>7. req' \in [Slots -> Call] /\ req'[s] = c /\ \A u \in Slots : u # s => req'[u] = req[u]
  BY <1>0, <1>1, <1>5 DEF EngineTypes
<1>8. EngineTypes' BY <1>0, <1>1, <1>3, <1>4, <1>7 DEF EngineTypes
<1>9. \A i \in Ids : Pending(i)' = Pending(i)
  <2>1. \A i \in Ids : Share(s, i)' = 0 /\ Share(s, i) = 0 BY <1>1, <1>5, <1>6, <1>7 DEF Share, At
  <2> QED BY <1>0, <1>7, <1>8, <2>1, PendingMoves, PendingNat
<1>10. LoadsFirst' BY <1>1 DEF LoadsFirst
<1>11. \A i \in Ids : Unborn(i)' => Unborn(i)
  <2> SUFFICES ASSUME NEW i \in Ids, Unborn(i)' PROVE Unborn(i)
    OBVIOUS
  <2>1. CASE i > Len(orders') BY <1>3, <1>4, <2>1 DEF Unborn
  <2>2. CASE \E u \in Slots : At(u, "create", "insert")' /\ req'[u].id = i
    <3>1. PICK u \in Slots : At(u, "create", "insert")' /\ req'[u].id = i BY <2>2
    <3>2. CASE u = s BY <1>3, <1>5, <1>7, <3>1, <3>2 DEF Unborn
    <3>3. CASE u # s BY <1>7, <3>1, <3>3 DEF Unborn, At
    <3> QED BY <3>2, <3>3
  <2> QED BY <2>1, <2>2 DEF Unborn
<1>12. UnbornAreBlank' BY <1>0, <1>1, <1>11 DEF UnbornAreBlank, Alive
<1>13. OneObject' BY <1>0, <1>1 DEF OneObject, Alive
<1>14. BookHoldsObjects' BY <1>0, <1>1 DEF BookHoldsObjects, Alive
<1>15. \A side \in OrderSide : \A k \in DOMAIN book[side] : book[side][k][1] \in DOMAIN orders
  <2> SUFFICES ASSUME NEW side \in OrderSide, NEW k \in DOMAIN book[side]
               PROVE  book[side][k][1] \in DOMAIN orders
    OBVIOUS
  <2>1. book[side] \in Seq(Ref) BY <1>0 DEF EngineTypes
  <2>2. book[side][k] \in Ref BY <2>1, LenProperties, ElementOfSeq
  <2> QED BY <1>0, <2>2 DEF BookHoldsObjects, ObjectsCover
<1>16. n \notin DOMAIN orders BY <1>3
<1>17. CreatesOK'
  <2>1. CreateOK(s)'
    <3>1. /\ req'[s].id \in DOMAIN orders' /\ req'[s].pc = "insert" /\ req'[s].touched = {}
          /\ \A side \in OrderSide : \A k \in DOMAIN book'[side] : book'[side][k][1] # req'[s].id
      BY <1>1, <1>3, <1>4, <1>5, <1>7, <1>15, <1>16
    <3> QED BY <3>1 DEF CreateOK
  <2>2. ASSUME NEW u \in Slots, u # s, req'[u].op = "create" PROVE CreateOK(u)' /\ req'[u].id # n
    <3>1. req'[u] = req[u] /\ CreateOK(u) BY <1>0, <1>7, <2>2 DEF CreatesOK
    <3>2. req[u].id \in DOMAIN orders /\ req[u].id \in DOMAIN orders' BY <1>3, <1>4, <3>1 DEF CreateOK
    <3> HIDE DEF n
    <3> QED BY <1>1, <1>16, <3>1, <3>2 DEF CreateOK, Taker, Alive
  <2> HIDE DEF n
  <2> QED BY <1>5, <1>7, <2>1, <2>2, <1>0 DEF CreatesOK
<1>18. ObjectsCover'
  <2> SUFFICES ASSUME NEW r \in Ref, Alive(r)
               PROVE  /\ r[1] \in DOMAIN orders'
                      /\ traded[r[1]] + Pending(r[1])' <= obj[r].filled
                      /\ obj[r].filled <= orders'[r[1]].quantity
    BY <1>1 DEF ObjectsCover, Alive
  <2>1. r[1] \in Ids BY <1>0, OrderNumbers
  <2> QED BY <1>0, <1>3, <1>4, <1>9, <2>1 DEF ObjectsCover
<1>19. OpenRowsCover' BY <1>0, <1>1, <1>3, <1>4 DEF OpenRowsCover
<1>20. NoOverfill'
  <2>1. Unborn(n) /\ n \in Ids BY <1>3, <1>5 DEF Unborn
  <2>2. traded[n] = 0 BY <1>0, <2>1 DEF UnbornAreBlank
  <2>3. \A i \in DOMAIN orders' : i \in DOMAIN orders \/ i = n BY <1>3, <1>4
  <2> HIDE DEF n
  <2> QED BY <1>0, <1>1, <1>2, <1>4, <2>2, <2>3 DEF NoOverfill
<1> QED BY <1>8, <1>10, <1>12, <1>13, <1>14, <1>17, <1>18, <1>19, <1>20 DEF FillInv

\* The first save: a row and an object, neither in a book.
LEMMA FillInsert ==
    ASSUME FillInv, NEW s \in Slots, CreateOrderInsert(s)
    PROVE  FillInv'
<1>0. /\ EngineTypes /\ LoadsFirst /\ UnbornAreBlank /\ OneObject /\ BookHoldsObjects
      /\ CreatesOK /\ ObjectsCover /\ OpenRowsCover /\ NoOverfill
  BY DEF FillInv
<1> DEFINE id == req[s].id
           new == [status |-> "OPEN", filled |-> 0]
           c == [req[s] EXCEPT !.pc = "match"]
<1>1. /\ At(s, "create", "insert")
      /\ db' = [db EXCEPT ![id] = new] /\ obj' = [obj EXCEPT ![Taker(s)] = new]
      /\ req' = [req EXCEPT ![s] = c]
      /\ UNCHANGED <<orders, traded, book, boot, restarts>>
  BY DEF CreateOrderInsert, Taker, Goto
<1>2. new \in RowType /\ new.status = "OPEN" /\ new.filled = 0 /\ "OPEN" # "ABSENT" /\ "OPEN" \in OpenStatus
  BY DEF RowType, OrderStatus, OpenStatus
<1>3. CreateOK(s) BY <1>0, <1>1 DEF CreatesOK, At
<1>4. id \in DOMAIN orders /\ id \in Ids /\ Taker(s) \in Ref /\ Taker(s) = <<id, "created">>
  BY <1>0, <1>3, OrderNumbers DEF CreateOK, Taker
<1>5. /\ c \in Call /\ c.op = "create" /\ c.pc = "match" /\ c.id = id /\ c.touched = req[s].touched
  <2>1. req[s] \in Call BY <1>0 DEF EngineTypes
  <2> QED BY <1>1, <2>1 DEF At, Call, Places
<1> HIDE DEF c, new, id
<1>6. req' \in [Slots -> Call] /\ req'[s] = c /\ \A u \in Slots : u # s => req'[u] = req[u]
  BY <1>0, <1>1, <1>5 DEF EngineTypes
<1>7. /\ db' \in [Ids -> RowType] /\ db'[id] = new /\ \A i \in Ids : i # id => db'[i] = db[i]
      /\ obj' \in [Ref -> RowType] /\ obj'[Taker(s)] = new /\ \A r \in Ref : r # Taker(s) => obj'[r] = obj[r]
  BY <1>0, <1>1, <1>2, <1>4 DEF EngineTypes
<1>8. EngineTypes' BY <1>0, <1>1, <1>6, <1>7 DEF EngineTypes
<1>9. \A i \in Ids : Pending(i)' = Pending(i)
  <2>1. \A i \in Ids : Share(s, i)' = 0 /\ Share(s, i) = 0 BY <1>1, <1>5, <1>6 DEF Share, At
  <2> QED BY <1>0, <1>6, <1>8, <2>1, PendingMoves, PendingNat
<1>10. boot.pc = "ready" BY <1>0, <1>1, BusyIsReady DEF At
<1>11. LoadsFirst' BY <1>1, <1>10 DEF LoadsFirst
<1>12. Unborn(id) BY <1>1 DEF Unborn, id
<1>13. /\ traded[id] = 0 /\ ~Alive(<<id, "created">>) /\ ~Alive(<<id, "loaded">>) /\ Pending(id) = 0
  BY <1>0, <1>4, <1>12, UnbornNotPending DEF UnbornAreBlank
<1>14. \A i \in Ids : Unborn(i)' => Unborn(i) /\ i # id
  <2> SUFFICES ASSUME NEW i \in Ids, Unborn(i)' PROVE Unborn(i) /\ i # id
    OBVIOUS
  <2>1. CASE i > Len(orders') BY <1>0, <1>1, <1>4, <2>1, OrderNumbers DEF Unborn
  <2>2. CASE \E u \in Slots : At(u, "create", "insert")' /\ req'[u].id = i
    <3>1. PICK u \in Slots : At(u, "create", "insert")' /\ req'[u].id = i BY <2>2
    <3>2. u # s BY <1>5, <1>6, <3>1 DEF At
    <3>3. At(u, "create", "insert") /\ req[u].id = i BY <1>6, <3>1, <3>2 DEF At
    <3>4. i # id BY <1>0, <1>1, <3>2, <3>3 DEF CreatesOK, At, id
    <3> QED BY <3>3, <3>4 DEF Unborn
  <2> QED BY <2>1, <2>2 DEF Unborn
<1>15. \A i \in Ids : i # id => <<i, "created">> # Taker(s) /\ <<i, "loaded">> # Taker(s) BY <1>4
<1>16. UnbornAreBlank'
  <2> SUFFICES ASSUME NEW i \in Ids, Unborn(i)'
               PROVE  /\ traded'[i] = 0 /\ db'[i].status \notin OpenStatus
                      /\ ~Alive(<<i, "created">>)' /\ ~Alive(<<i, "loaded">>)'
    BY DEF UnbornAreBlank
  <2>1. Unborn(i) /\ i # id BY <1>14
  <2>2. <<i, "created">> \in Ref /\ <<i, "loaded">> \in Ref BY <1>0, OrderNumbers
  <2>3. obj'[<<i, "created">>] = obj[<<i, "created">>] /\ obj'[<<i, "loaded">>] = obj[<<i, "loaded">>]
    BY <1>7, <1>15, <2>1, <2>2
  <2> QED BY <1>0, <1>1, <1>7, <2>1, <2>3 DEF UnbornAreBlank, Alive
<1>17. \A r \in Ref : Alive(r)' <=> Alive(r) \/ r = Taker(s) BY <1>2, <1>7 DEF Alive
<1>18. OneObject'
  <2> SUFFICES ASSUME NEW i \in Ids, Alive(<<i, "created">>)', Alive(<<i, "loaded">>)' PROVE FALSE
    BY DEF OneObject
  <2>1. <<i, "created">> \in Ref /\ <<i, "loaded">> \in Ref BY <1>0, OrderNumbers
  <2>2. <<i, "loaded">> # Taker(s) BY <1>4
  <2>3. Alive(<<i, "loaded">>) BY <1>17, <2>1, <2>2
  <2>4. CASE i = id BY <1>13, <2>3, <2>4
  <2>5. CASE i # id BY <1>0, <1>15, <1>17, <2>1, <2>3, <2>5 DEF OneObject
  <2> QED BY <2>4, <2>5
<1>19. \A side \in OrderSide : \A k \in DOMAIN book[side] : book[side][k] \in Ref
  <2> SUFFICES ASSUME NEW side \in OrderSide, NEW k \in DOMAIN book[side] PROVE book[side][k] \in Ref
    OBVIOUS
  <2>1. book[side] \in Seq(Ref) BY <1>0 DEF EngineTypes
  <2> QED BY <2>1, LenProperties, ElementOfSeq
<1>20. BookHoldsObjects' BY <1>0, <1>1, <1>17, <1>19 DEF BookHoldsObjects
<1>21. CreatesOK'
  <2>1. CreateOK(s)'
    <3>1. Taker(s)' = Taker(s) /\ Alive(Taker(s))' /\ obj'[Taker(s)].filled = 0
      BY <1>2, <1>4, <1>5, <1>6, <1>7, <1>17 DEF Taker
    <3>2. \A r \in req[s].touched : r \in Ref /\ Alive(r) BY <1>0, <1>3, CallParts DEF CreateOK
    <3>3. \A r \in req'[s].touched : Alive(r)' BY <1>5, <1>6, <1>17, <3>2
    <3> QED BY <1>1, <1>3, <1>5, <1>6, <3>1, <3>3 DEF CreateOK, id
  <2>2. ASSUME NEW u \in Slots, u # s, req'[u].op = "create" PROVE CreateOK(u)'
    <3>1. req'[u] = req[u] /\ CreateOK(u) BY <1>0, <1>6, <2>2 DEF CreatesOK
    <3>2. req[u].id # id BY <1>0, <1>1, <2>2, <3>1 DEF CreatesOK, At, id
    <3>3. Taker(u)' = Taker(u) /\ Taker(u) # Taker(s) /\ Taker(u) \in Ref
      <4>1. req[u].id \in Ids BY <1>0, <3>1, OrderNumbers DEF CreateOK
      <4> QED BY <1>0, <1>4, <3>1, <3>2, <4>1, OrderNumbers DEF Taker
    <3>4. obj'[Taker(u)] = obj[Taker(u)] BY <1>7, <3>3
    <3>5. \A r \in req[u].touched : r \in Ref /\ Alive(r) BY <1>0, <3>1, CallParts DEF CreateOK
    <3>6. \A r \in req'[u].touched : Alive(r)' BY <1>17, <3>1, <3>5
    <3>7. Alive(Taker(u))' <=> Alive(Taker(u)) BY <1>17, <3>3
    <3> QED BY <1>1, <3>1, <3>3, <3>4, <3>6, <3>7 DEF CreateOK
  <2>3. \A u \in Slots : req'[u].op = req[u].op /\ req'[u].id = req[u].id
    BY <1>1, <1>5, <1>6 DEF At, id
  <2> QED BY <1>0, <2>1, <2>2, <2>3 DEF CreatesOK
<1>22. ObjectsCover'
  <2> SUFFICES ASSUME NEW r \in Ref, Alive(r)'
               PROVE  /\ r[1] \in DOMAIN orders
                      /\ traded[r[1]] + Pending(r[1]) <= obj'[r].filled
                      /\ obj'[r].filled <= orders[r[1]].quantity
    <3>1. \A r \in Ref : r[1] \in Ids BY <1>0, OrderNumbers
    <3> QED BY <1>1, <1>9, <3>1 DEF ObjectsCover
  <2>1. CASE r = Taker(s)
    <3>1. r[1] = id /\ obj'[r].filled = 0 /\ orders[id].quantity \in Nat BY <1>0, <1>2, <1>4, <1>7, <2>1, OrderNumbers
    <3> QED BY <1>4, <1>13, <3>1
  <2>2. CASE r # Taker(s)
    <3>1. Alive(r) /\ obj'[r] = obj[r] BY <1>7, <1>17, <2>2
    <3> QED BY <1>0, <3>1 DEF ObjectsCover
  <2> QED BY <2>1, <2>2
<1>23. OpenRowsCover'
  <2> SUFFICES ASSUME NEW i \in Ids, db'[i].status \in OpenStatus
               PROVE  i \in DOMAIN orders /\ traded[i] <= db'[i].filled /\ db'[i].filled <= orders[i].quantity
    BY <1>1 DEF OpenRowsCover
  <2>1. CASE i = id
    <3>1. orders[id].quantity \in Nat BY <1>0, <1>4, OrderNumbers
    <3> QED BY <1>2, <1>4, <1>7, <1>13, <2>1, <3>1
  <2>2. CASE i # id BY <1>0, <1>7, <2>2 DEF OpenRowsCover
  <2> QED BY <2>1, <2>2
<1>24. NoOverfill' BY <1>0, <1>1 DEF NoOverfill
<1> QED BY <1>8, <1>11, <1>16, <1>18, <1>20, <1>21, <1>22, <1>23, <1>24 DEF FillInv

\* The transaction: what was on its way becomes trades, and the rows follow the objects.
LEMMA FillPersist ==
    ASSUME FillInv, NEW s \in Slots, CreateOrderPersist(s)
    PROVE  FillInv'
<1>0. /\ EngineTypes /\ LoadsFirst /\ UnbornAreBlank /\ OneObject /\ BookHoldsObjects
      /\ CreatesOK /\ ObjectsCover /\ OpenRowsCover /\ NoOverfill
  BY DEF FillInv
<1> DEFINE saved == req[s].touched \cup {Taker(s)}
           fills == req[s].fills
           c == [req[s] EXCEPT !.pc = "rest"]
<1>1. /\ At(s, "create", "persist")
      /\ traded' = [i \in Ids |-> traded[i] + fills[i]]
      /\ req' = [req EXCEPT ![s] = c]
      /\ UNCHANGED <<orders, obj, book, boot, restarts>>
  BY DEF CreateOrderPersist, Goto
<1>2. PICK last \in {f \in [{r[1] : r \in saved} -> saved] : \A i \in DOMAIN f : f[i][1] = i} :
         db' = [i \in Ids |-> IF i \in DOMAIN last THEN obj[last[i]] ELSE db[i]]
  BY DEF CreateOrderPersist, Taker
<1>3. CreateOK(s) BY <1>0, <1>1 DEF CreatesOK, At
<1>4. fills \in [Ids -> Nat] BY <1>0, CallParts
<1>5. \A r \in saved : r \in Ref /\ Alive(r)
  <2>1. Taker(s) \in Ref /\ Alive(Taker(s)) BY <1>0, <1>1, <1>3, OrderNumbers DEF CreateOK, Taker, At
  <2>2. \A r \in req[s].touched : r \in Ref /\ Alive(r) BY <1>0, <1>3, CallParts DEF CreateOK
  <2> QED BY <2>1, <2>2
<1>6. \A i \in DOMAIN last : last[i] \in Ref /\ Alive(last[i]) /\ last[i][1] = i
  BY <1>2, <1>5
<1>7. \A i \in Ids : fills[i] # 0 => i \in DOMAIN last
  <2> SUFFICES ASSUME NEW i \in Ids, fills[i] # 0 PROVE \E r \in saved : r[1] = i
    BY <1>2
  <2>1. i = req[s].id \/ \E r \in req[s].touched : r[1] = i BY <1>1, <1>3 DEF CreateOK, At
  <2>2. CASE i = req[s].id
    <3>1. Taker(s) \in saved /\ Taker(s)[1] = i BY <2>2 DEF Taker
    <3> QED BY <3>1
  <2>3. CASE \E r \in req[s].touched : r[1] = i BY <2>3
  <2> QED BY <2>1, <2>2, <2>3
<1>8. /\ c \in Call /\ c.op = "create" /\ c.pc = "rest" /\ c.id = req[s].id /\ c.touched = req[s].touched
  <2>1. req[s] \in Call BY <1>0 DEF EngineTypes
  <2> QED BY <1>1, <2>1 DEF At, Call, Places
<1> HIDE DEF c, saved
<1>9. req' \in [Slots -> Call] /\ req'[s] = c /\ \A u \in Slots : u # s => req'[u] = req[u]
  BY <1>0, <1>1, <1>8 DEF EngineTypes
<1>10. db' \in [Ids -> RowType]
  <2>1. \A i \in DOMAIN last : obj[last[i]] \in RowType BY <1>0, <1>6, OrderNumbers
  <2> QED BY <1>0, <1>2, <2>1 DEF EngineTypes
<1>11. traded' \in [Ids -> Nat] /\ \A i \in Ids : traded[i] \in Nat /\ fills[i] \in Nat /\ traded'[i] = traded[i] + fills[i]
  BY <1>0, <1>1, <1>4 DEF EngineTypes
<1>12. EngineTypes' BY <1>0, <1>1, <1>9, <1>10, <1>11 DEF EngineTypes
<1>13. \A i \in Ids : Pending(i)' = Pending(i) - fills[i] /\ Pending(i) \in Nat
  <2> SUFFICES ASSUME NEW i \in Ids PROVE Pending(i)' = Pending(i) - fills[i] /\ Pending(i) \in Nat
    OBVIOUS
  <2>1. Share(s, i)' = 0 /\ Share(s, i) = fills[i] BY <1>1, <1>8, <1>9 DEF Share, At
  <2>2. Pending(i)' = Pending(i) - Share(s, i) + Share(s, i)' BY <1>0, <1>9, <1>12, PendingMoves
  <2>3. Pending(i) \in Nat BY <1>0, PendingNat
  <2> QED BY <1>11, <2>1, <2>2, <2>3
<1>14. \A i \in Ids : traded'[i] + Pending(i)' = traded[i] + Pending(i) /\ Pending(i)' \in Nat
  <2> SUFFICES ASSUME NEW i \in Ids PROVE traded'[i] + Pending(i)' = traded[i] + Pending(i) /\ Pending(i)' \in Nat
    OBVIOUS
  <2>1. Pending(i)' \in Nat
    <3>1. \A u \in Slots : Share(u, i)' \in Nat
      <4>1. \A u \in Slots : req'[u].fills \in [Ids -> Nat] BY <1>12 DEF EngineTypes, Call
      <4> QED BY <4>1 DEF Share
    <3>2. [u \in Slots |-> Share(u, i)'] \in [Slots -> Nat] BY <3>1
    <3>3. Pending(i)' = SumFunction([u \in Slots |-> Share(u, i)']) BY DEF Pending
    <3>4. IsFiniteSet(Slots) BY EngineAssumption
    <3> QED BY <3>2, <3>3, <3>4, FewTerms
  <2> QED BY <1>11, <1>13, <2>1
<1> HIDE DEF fills
<1>15. LoadsFirst' BY <1>0, <1>1, BusyIsReady DEF LoadsFirst, At
<1>16. \A i \in Ids : i \in DOMAIN last => /\ traded'[i] <= db'[i].filled /\ db'[i].filled <= orders[i].quantity
                                           /\ i \in DOMAIN orders
  <2> SUFFICES ASSUME NEW i \in Ids, i \in DOMAIN last
               PROVE  traded'[i] <= db'[i].filled /\ db'[i].filled <= orders[i].quantity /\ i \in DOMAIN orders
    OBVIOUS
  <2>1. last[i] \in Ref /\ Alive(last[i]) /\ last[i][1] = i /\ db'[i] = obj[last[i]] BY <1>2, <1>6
  <2>2. i \in DOMAIN orders /\ traded[i] + Pending(i) <= db'[i].filled /\ db'[i].filled <= orders[i].quantity
    BY <1>0, <2>1 DEF ObjectsCover
  <2>3. db'[i].filled \in Nat BY <1>10 DEF RowType
  <2> QED BY <1>11, <1>13, <1>14, <2>2, <2>3
<1>17. \A i \in Ids : i \notin DOMAIN last => traded'[i] = traded[i] /\ db'[i] = db[i]
  BY <1>2, <1>7, <1>11
<1>18. \A i \in Ids : Unborn(i)' => Unborn(i) /\ i \notin DOMAIN last
  <2> SUFFICES ASSUME NEW i \in Ids, Unborn(i)' PROVE Unborn(i) /\ i \notin DOMAIN last
    OBVIOUS
  <2>1. Unborn(i) BY <1>1, <1>8, <1>9 DEF Unborn, At
  <2>2. ~Alive(<<i, "created">>) /\ ~Alive(<<i, "loaded">>) BY <1>0, <2>1 DEF UnbornAreBlank
  <2>3. ASSUME i \in DOMAIN last PROVE FALSE
    <3>1. last[i] \in Ref /\ Alive(last[i]) /\ last[i][1] = i BY <1>6, <2>3
    <3>2. last[i] = <<i, "created">> \/ last[i] = <<i, "loaded">> BY <1>0, <3>1, OrderNumbers
    <3> QED BY <2>2, <3>1, <3>2
  <2> QED BY <2>1, <2>3
<1>19. UnbornAreBlank' BY <1>0, <1>1, <1>17, <1>18 DEF UnbornAreBlank, Alive
<1>20. OneObject' BY <1>0, <1>1 DEF OneObject, Alive
<1>21. BookHoldsObjects' BY <1>0, <1>1 DEF BookHoldsObjects, Alive
<1>22. CreatesOK'
  <2>1. \A u \in Slots : req'[u].op = req[u].op /\ req'[u].id = req[u].id
    BY <1>1, <1>8, <1>9 DEF At
  <2>2. CreateOK(s)' BY <1>1, <1>3, <1>8, <1>9 DEF CreateOK, Taker, Alive, At
  <2>3. ASSUME NEW u \in Slots, u # s, req'[u].op = "create" PROVE CreateOK(u)'
    <3>1. req'[u] = req[u] /\ CreateOK(u) BY <1>0, <1>9, <2>3 DEF CreatesOK
    <3> QED BY <1>1, <3>1 DEF CreateOK, Taker, Alive
  <2> QED BY <1>0, <2>1, <2>2, <2>3 DEF CreatesOK
<1>23. ObjectsCover'
  <2>1. \A r \in Ref : r[1] \in Ids BY <1>0, OrderNumbers
  <2> QED BY <1>0, <1>1, <1>14, <2>1 DEF ObjectsCover, Alive
<1>24. OpenRowsCover' BY <1>0, <1>1, <1>16, <1>17 DEF OpenRowsCover
<1>25. NoOverfill'
  <2> SUFFICES ASSUME NEW i \in DOMAIN orders PROVE traded'[i] <= orders[i].quantity
    BY <1>1 DEF NoOverfill
  <2>1. i \in Ids /\ orders[i].quantity \in Nat BY <1>0, OrderNumbers
  <2>2. CASE i \in DOMAIN last
    <3>1. db'[i].filled \in Nat /\ traded'[i] \in Nat BY <1>10, <1>11, <2>1 DEF RowType
    <3> QED BY <1>16, <2>1, <2>2, <3>1
  <2>3. CASE i \notin DOMAIN last BY <1>0, <1>17, <2>1, <2>3 DEF NoOverfill
  <2> QED BY <2>2, <2>3
<1> QED BY <1>12, <1>15, <1>19, <1>20, <1>21, <1>22, <1>23, <1>24, <1>25 DEF FillInv

-----------------------------------------------------------------------------
(* matchOrder *)

\* Every entry of the queue has a natural number left.
Leaves(queue) == \A j \in DOMAIN queue : Unfilled(queue[j]) \in Nat

\* A trade takes no more than the maker has left, and no more than the taker has.
LEMMA TradeFits ==
    ASSUME NEW queue \in Seq(Ref), Leaves(queue), NEW taker, Order(taker).quantity \in Nat,
           NEW i \in Visited(taker, queue)
    PROVE  /\ i \in DOMAIN queue
           /\ Ahead(queue, i) \in Nat
           /\ TradeQuantity(taker, queue, i) \in Nat
           /\ TradeQuantity(taker, queue, i) <= Unfilled(queue[i])
           /\ TradeQuantity(taker, queue, i) + Ahead(queue, i) <= Order(taker).quantity
<1>1. i \in DOMAIN queue /\ Ahead(queue, i) < Order(taker).quantity BY DEF Visited
<1>2. DOMAIN queue = 1..Len(queue) /\ Len(queue) \in Nat BY LenProperties
<1>3. i - 1 \in Nat /\ 1..(i - 1) \subseteq DOMAIN queue BY <1>1, <1>2
<1>4. Ahead(queue, i) \in Nat
  <2>1. [j \in 1..(i - 1) |-> Unfilled(queue[j])] \in [1..(i - 1) -> Nat] BY <1>3 DEF Leaves
  <2>2. IsFiniteSet(1..(i - 1)) BY <1>3, FS_Interval
  <2> QED BY <2>1, <2>2, FewTerms DEF Ahead
<1>5. PICK a \in Nat, u \in Nat, n \in Nat :
         a = Ahead(queue, i) /\ u = Unfilled(queue[i]) /\ n = Order(taker).quantity
  BY <1>1, <1>4 DEF Leaves
<1>6. TradeQuantity(taker, queue, i) = IF n - a < u THEN n - a ELSE u BY <1>5 DEF TradeQuantity
<1>7. a < n BY <1>1, <1>5
<1> QED BY <1>1, <1>5, <1>6, <1>7

\* The trades of one matchOrder add up to at most the taker's quantity: all but the last
\* are part of what stands before the last.
LEMMA TotalFits ==
    ASSUME NEW queue \in Seq(Ref), Leaves(queue), NEW taker, Order(taker).quantity \in Nat,
           NEW f, f = [i \in Visited(taker, queue) |-> TradeQuantity(taker, queue, i)]
    PROVE  /\ SumFunction(f) \in Nat /\ SumFunction(f) <= Order(taker).quantity
           /\ Visited(taker, queue) = {} => SumFunction(f) = 0
<1> DEFINE visited == Visited(taker, queue)
<1>1. DOMAIN queue = 1..Len(queue) /\ Len(queue) \in Nat BY LenProperties
<1>2. visited \subseteq DOMAIN queue BY DEF Visited
<1>3. IsFiniteSet(visited)
  <2>1. IsFiniteSet(DOMAIN queue) BY <1>1, FS_Interval
  <2> QED BY <1>2, <2>1, FS_Subset
<1>4. \A i \in visited : /\ f[i] \in Nat /\ f[i] <= Unfilled(queue[i]) /\ Ahead(queue, i) \in Nat
                         /\ f[i] + Ahead(queue, i) <= Order(taker).quantity
  BY TradeFits
<1>5. f \in [visited -> Nat] BY <1>4
<1> HIDE DEF visited
<1>6. SumFunction(f) \in Nat /\ (visited = {} => SumFunction(f) = 0) BY <1>3, <1>5, FewTerms
<1>7. CASE visited # {}
  <2>1. visited \in SUBSET (0..Len(queue)) BY <1>1, <1>2
  <2>2. PICK v \in visited : \A i \in visited : i <= v BY <1>1, <1>7, <2>1, MaxIs
  <2>3. v \in 1..Len(queue) /\ v - 1 \in Nat /\ 1..(v - 1) \subseteq DOMAIN queue BY <1>1, <1>2
  <2>4. visited \ {v} \in SUBSET (1..(v - 1))
    <3> SUFFICES ASSUME NEW i \in visited, i # v PROVE i \in 1..(v - 1)
      OBVIOUS
    <3>1. i \in 1..Len(queue) /\ i <= v BY <1>1, <1>2, <2>2
    <3> QED BY <1>1, <2>3, <3>1
  <2> DEFINE rest == visited \ {v}
             g == [i \in rest |-> f[i]]
             h == [j \in 1..(v - 1) |-> Unfilled(queue[j])]
  <2>5. g \in [rest -> Nat] /\ \A i \in rest : g[i] = f[i] BY <1>4
  <2>6. h \in [1..(v - 1) -> Nat] BY <2>3 DEF Leaves
  <2>7. rest = visited \ {v} /\ rest \in SUBSET (1..(v - 1)) /\ \A i \in rest : g[i] <= h[i] BY <1>4, <2>4
  <2>8. SumFunction(h) = Ahead(queue, v) BY DEF Ahead
  <2>9. IsFiniteSet(1..(v - 1)) BY <2>3, FS_Interval
  <2> HIDE DEF g, h, rest
  <2>10. SumFunction(f) = f[v] + SumFunction(g)
    <3>1. IsRest(g, rest, f, visited, v) BY <1>3, <1>5, <2>2, <2>5, <2>7 DEF IsRest
    <3> QED BY <3>1, TakeOut
  <2>11. SumFunction(g) <= SumFunction(h) BY <2>5, <2>6, <2>7, <2>9, FewerAndSmaller
  <2>12. SumFunction(g) \in Nat
    <3>1. IsFiniteSet(rest) BY <1>3, <2>7, FS_Subset
    <3> QED BY <2>5, <3>1, FewTerms
  <2>13. f[v] \in Nat /\ Ahead(queue, v) \in Nat /\ f[v] + Ahead(queue, v) <= Order(taker).quantity BY <1>4
  <2>14. PICK a \in Nat, b \in Nat, d \in Nat :
            a = f[v] /\ b = SumFunction(g) /\ d = Ahead(queue, v)
    BY <2>12, <2>13
  <2>15. PICK n \in Nat : n = Order(taker).quantity OBVIOUS
  <2>16. SumFunction(f) = a + b /\ b <= d /\ a + d <= n BY <2>8, <2>10, <2>11, <2>13, <2>14, <2>15
  <2>17. a + b <= n BY <2>16
  <2> QED BY <1>6, <1>7, <2>15, <2>16, <2>17 DEF visited
<1>8. CASE visited = {} BY <1>6, <1>8
<1> QED BY <1>6, <1>7, <1>8 DEF visited

\* What stands before an entry, with that entry, is what stands before the next, ...
LEMMA AheadNext ==
    ASSUME NEW queue \in Seq(Ref), Leaves(queue), NEW i \in DOMAIN queue
    PROVE  /\ Ahead(queue, i) \in Nat /\ Unfilled(queue[i]) \in Nat
           /\ Ahead(queue, i + 1) = Unfilled(queue[i]) + Ahead(queue, i)
<1>1. DOMAIN queue = 1..Len(queue) /\ Len(queue) \in Nat BY LenProperties
<1>2. i \in Nat /\ i - 1 \in Nat /\ (i + 1) - 1 = i /\ 1..i \subseteq DOMAIN queue /\ 1..(i - 1) = (1..i) \ {i}
      /\ 1..(i - 1) \subseteq DOMAIN queue
  BY <1>1
<1> DEFINE w == [j \in 1..i |-> Unfilled(queue[j])]
           u == [j \in 1..(i - 1) |-> Unfilled(queue[j])]
<1>3. w \in [1..i -> Nat] /\ u \in [1..(i - 1) -> Nat] BY <1>2 DEF Leaves
<1>4. IsFiniteSet(1..i) /\ IsFiniteSet(1..(i - 1)) BY <1>2, FS_Interval
<1>5. \A j \in 1..(i - 1) : u[j] = w[j] BY <1>2
<1>6. Ahead(queue, i) = SumFunction(u) /\ Ahead(queue, i + 1) = SumFunction(w) BY <1>2 DEF Ahead
<1>7. i \in 1..i /\ w[i] = Unfilled(queue[i]) BY <1>2, <1>1
<1> HIDE DEF u, w
<1>8. IsRest(u, 1..(i - 1), w, 1..i, i) BY <1>2, <1>3, <1>4, <1>5, <1>7 DEF IsRest
<1>9. SumFunction(w) = w[i] + SumFunction(u) BY <1>8, TakeOut
<1>10. SumFunction(u) \in Nat BY <1>3, <1>4, FewTerms
<1>11. w[i] \in Nat BY <1>3, <1>7
<1> QED BY <1>6, <1>7, <1>9, <1>10, <1>11

\* ... and part of what stands before any later one.
LEMMA AheadGrows ==
    ASSUME NEW queue \in Seq(Ref), Leaves(queue), NEW i \in DOMAIN queue, NEW k \in DOMAIN queue, i < k
    PROVE  /\ Ahead(queue, i) \in Nat /\ Unfilled(queue[i]) \in Nat /\ Ahead(queue, k) \in Nat
           /\ Unfilled(queue[i]) + Ahead(queue, i) <= Ahead(queue, k)
<1>1. DOMAIN queue = 1..Len(queue) /\ Len(queue) \in Nat BY LenProperties
<1>2. /\ i \in Nat /\ k \in Nat /\ k - 1 \in Nat /\ (i + 1) - 1 = i /\ 1..i \in SUBSET (1..(k - 1))
      /\ 1..(k - 1) \subseteq DOMAIN queue /\ 1..i \subseteq DOMAIN queue
  BY <1>1
<1> DEFINE w == [j \in 1..i |-> Unfilled(queue[j])]
           u == [j \in 1..(k - 1) |-> Unfilled(queue[j])]
<1>3. w \in [1..i -> Nat] /\ u \in [1..(k - 1) -> Nat] BY <1>2 DEF Leaves
<1>4. IsFiniteSet(1..(k - 1)) BY <1>2, FS_Interval
<1>5. \A j \in 1..i : w[j] <= u[j]
  <2>1. \A j \in 1..i : j \in 1..(k - 1) /\ w[j] = u[j] /\ w[j] \in Nat BY <1>2, <1>3
  <2> HIDE DEF u, w
  <2> QED BY <2>1
<1>6. Ahead(queue, k) = SumFunction(u) /\ Ahead(queue, i + 1) = SumFunction(w) BY <1>2 DEF Ahead
<1> HIDE DEF u, w
<1>7. SumFunction(w) <= SumFunction(u) BY <1>2, <1>3, <1>4, <1>5, FewerAndSmaller
<1>8. Ahead(queue, k) \in Nat /\ Ahead(queue, i) \in Nat /\ Unfilled(queue[i]) \in Nat BY AheadNext
<1>9. Ahead(queue, i + 1) = Unfilled(queue[i]) + Ahead(queue, i) BY AheadNext
<1> QED BY <1>6, <1>7, <1>8, <1>9

\* The entries that are filled come first: the first n.  If the taker is not filled by them and
\* what follows, the next entry does not match its price.
Consumes(queue, taker, f, total, n) ==
  /\ n \in Nat /\ 1..n \subseteq DOMAIN f
  /\ \A i \in DOMAIN f : i <= n <=> f[i] = Unfilled(queue[i])
  /\ total < Order(taker).quantity /\ n + 1 \in DOMAIN queue => ~Crosses(taker, queue[n + 1])

\* matchOrder consumes the queue from the front.
LEMMA MatchConsumes ==
    ASSUME NEW queue \in Seq(Ref), Leaves(queue), NEW taker, Order(taker).quantity \in Nat,
           NEW f, f = [i \in Visited(taker, queue) |-> TradeQuantity(taker, queue, i)],
           NEW gone, gone = {i \in Visited(taker, queue) : TradeQuantity(taker, queue, i) = Unfilled(queue[i])}
    PROVE  Consumes(queue, taker, f, SumFunction(f), Cardinality(gone))
<1> DEFINE visited == Visited(taker, queue)
<1>1. PICK len \in Nat : len = Len(queue) /\ DOMAIN queue = 1..len BY LenProperties
<1>2. PICK want \in Nat : want = Order(taker).quantity OBVIOUS
<1>3. /\ DOMAIN f = visited /\ visited \subseteq DOMAIN queue
      /\ \A i \in visited : f[i] = TradeQuantity(taker, queue, i)
  BY DEF Visited
<1>4. \A i \in DOMAIN queue : i \in visited <=> /\ \A j \in 1..i : Crosses(taker, queue[j])
                                                 /\ Ahead(queue, i) < want
  BY <1>2 DEF Visited
<1>5. gone = {i \in visited : f[i] = Unfilled(queue[i])} BY <1>3
<1>6. \A i \in DOMAIN queue : Ahead(queue, i) \in Nat /\ Unfilled(queue[i]) \in Nat BY AheadNext
<1>7. \A i \in visited : f[i] = IF want - Ahead(queue, i) < Unfilled(queue[i])
                                THEN want - Ahead(queue, i) ELSE Unfilled(queue[i])
  BY <1>2, <1>3 DEF TradeQuantity
<1> HIDE DEF visited
<1>8. ASSUME NEW i \in visited, NEW j \in 1..(i - 1) PROVE j \in gone
  <2>1. i \in 1..len BY <1>1, <1>3
  <2>2. j \in 1..len /\ j < i /\ j \in DOMAIN queue /\ i \in DOMAIN queue BY <1>1, <2>1
  <2>3. Unfilled(queue[j]) + Ahead(queue, j) <= Ahead(queue, i) BY <2>2, AheadGrows
  <2>4. PICK a \in Nat, b \in Nat, u \in Nat :
           a = Ahead(queue, j) /\ b = Ahead(queue, i) /\ u = Unfilled(queue[j])
    BY <1>6, <2>2
  <2>5. u + a <= b /\ b < want BY <1>4, <2>2, <2>3, <2>4
  <2>6. \A k \in 1..j : k \in 1..i BY <2>1, <2>2
  <2>7. j \in visited
    <3>1. \A k \in 1..j : Crosses(taker, queue[k]) BY <1>4, <2>2, <2>6
    <3>2. a < want BY <2>5
    <3> QED BY <1>4, <2>2, <2>4, <3>1, <3>2
  <2>8. ~(want - a < u) BY <2>5
  <2>9. f[j] = u BY <1>7, <2>4, <2>7, <2>8
  <2> QED BY <1>5, <2>4, <2>7, <2>9
<1>9. gone \in SUBSET (1..len) BY <1>1, <1>3, <1>5
<1>10. PICK n \in Nat : gone = 1..n
  <2>1. CASE gone = {}
    <3>1. gone = 1..0 BY <2>1
    <3> QED BY <3>1
  <2>2. CASE gone # {}
    <3>1. gone \in SUBSET (0..len) BY <1>9
    <3>2. PICK n \in gone : \A k \in gone : k <= n BY <2>2, <3>1, MaxIs
    <3>3. n \in Nat /\ n \in visited BY <1>5, <1>9, <3>2
    <3>4. \A k \in 1..n : k = n \/ k \in 1..(n - 1) BY <3>3
    <3>5. 1..n \subseteq gone BY <1>8, <3>2, <3>3, <3>4
    <3>6. gone \subseteq 1..n BY <1>9, <3>2, <3>3
    <3> QED BY <3>3, <3>5, <3>6
  <2> QED BY <2>1, <2>2
<1>11. Cardinality(gone) = n
  <2>1. Cardinality(1..n) = n BY FS_Interval
  <2> QED BY <1>10, <2>1
<1>12. 1..n \subseteq DOMAIN f BY <1>3, <1>5, <1>10
<1>13. \A i \in DOMAIN f : i <= n <=> f[i] = Unfilled(queue[i])
  <2>1. \A i \in DOMAIN f : i <= n <=> i \in gone BY <1>1, <1>3, <1>10
  <2> QED BY <1>3, <1>5, <2>1
<1>14. ASSUME SumFunction(f) < want, n + 1 \in DOMAIN queue, Crosses(taker, queue[n + 1]) PROVE FALSE
  <2>1. n + 1 \in 1..len /\ n + 1 \notin gone BY <1>1, <1>10, <1>14
  <2> DEFINE before == [j \in 1..n |-> Unfilled(queue[j])]
             g == [j \in 1..n |-> f[j]]
  <2>2. Ahead(queue, n + 1) = SumFunction(before)
    <3>1. (n + 1) - 1 = n OBVIOUS
    <3> QED BY <3>1 DEF Ahead
  <2>3. g = before
    <3>1. \A j \in 1..n : f[j] = Unfilled(queue[j]) BY <1>10, <1>5
    <3> QED BY <3>1
  <2>4. IsFiniteSet(1..n) BY FS_Interval
  <2>5. f \in [visited -> Nat]
    <3>1. f = [i \in visited |-> TradeQuantity(taker, queue, i)] BY DEF visited
    <3>2. \A i \in visited : TradeQuantity(taker, queue, i) \in Nat BY TradeFits DEF visited
    <3> QED BY <3>1, <3>2
  <2>6. n + 1 \in visited => visited = 1..(n + 1)
    <3> SUFFICES ASSUME n + 1 \in visited PROVE visited = 1..(n + 1)
      OBVIOUS
    <3>1. \A i \in visited : i \in 1..len BY <1>1, <1>3
    <3>2. \A i \in visited : i <= n + 1
      <4> SUFFICES ASSUME NEW i \in visited, ~(i <= n + 1) PROVE FALSE
        OBVIOUS
      <4>1. n + 1 \in 1..(i - 1) BY <3>1
      <4> QED BY <1>8, <2>1, <4>1
    <3>3. \A i \in 1..n : i \in visited BY <1>3, <1>12
    <3>4. visited \subseteq 1..(n + 1) BY <3>1, <3>2
    <3>5. \A i \in 1..(n + 1) : i \in 1..n \/ i = n + 1 OBVIOUS
    <3> QED BY <3>3, <3>4, <3>5
  <2>7. n + 1 \notin visited => visited = 1..n
    <3> SUFFICES ASSUME n + 1 \notin visited PROVE visited = 1..n
      OBVIOUS
    <3>1. \A i \in visited : i \in 1..len BY <1>1, <1>3
    <3>2. \A i \in visited : i <= n
      <4> SUFFICES ASSUME NEW i \in visited, ~(i <= n) PROVE FALSE
        OBVIOUS
      <4>1. i # n + 1 OBVIOUS
      <4>2. n + 1 \in 1..(i - 1) BY <3>1, <4>1
      <4> QED BY <1>8, <2>1, <4>2
    <3>3. \A i \in 1..n : i \in visited BY <1>3, <1>12
    <3>4. visited \subseteq 1..n BY <3>1, <3>2
    <3> QED BY <3>3, <3>4
  <2>8. PICK a \in Nat : a = Ahead(queue, n + 1) BY <1>6, <1>14
  <2>9. CASE n + 1 \in visited
    <3>1. visited = 1..(n + 1) /\ 1..n = visited \ {n + 1} /\ IsFiniteSet(visited)
      <4>1. visited = 1..(n + 1) BY <2>6, <2>9
      <4>2. 1..n = (1..(n + 1)) \ {n + 1} OBVIOUS
      <4>3. IsFiniteSet(1..(n + 1)) BY FS_Interval
      <4> QED BY <4>1, <4>2, <4>3
    <3>2. g \in [1..n -> Nat] /\ \A j \in 1..n : g[j] = f[j] BY <2>5, <3>1
    <3> HIDE DEF g, before
    <3>3. IsRest(g, 1..n, f, visited, n + 1) BY <2>5, <2>9, <3>1, <3>2 DEF IsRest
    <3>4. SumFunction(f) = f[n + 1] + SumFunction(g) BY <3>3, TakeOut
    <3>5. SumFunction(g) = a BY <2>2, <2>3, <2>8
    <3>6. f[n + 1] # Unfilled(queue[n + 1]) BY <1>5, <2>1, <2>9
    <3>7. f[n + 1] = want - a BY <1>7, <2>8, <2>9, <3>6
    <3>8. SumFunction(f) = want BY <3>4, <3>5, <3>7
    <3> QED BY <1>14, <3>8
  <2>10. CASE n + 1 \notin visited
    <3>1. visited = 1..n BY <2>7, <2>10
    <3>2. f = g
      <4>1. f \in [1..n -> Nat] BY <2>5, <3>1
      <4> QED BY <4>1
    <3> HIDE DEF g, before
    <3>3. SumFunction(f) = a BY <2>2, <2>3, <2>8, <3>2
    <3>4. a < want BY <1>14, <3>3
    <3>5. \A j \in 1..(n + 1) : Crosses(taker, queue[j])
      <4>1. \A j \in 1..(n + 1) : j \in 1..n \/ j = n + 1 OBVIOUS
      <4>2. \A j \in 1..n : Crosses(taker, queue[j])
        <5> SUFFICES ASSUME NEW j \in 1..n PROVE Crosses(taker, queue[j])
          OBVIOUS
        <5>1. j \in visited /\ j \in DOMAIN queue /\ j \in 1..j BY <1>3, <3>1
        <5> QED BY <1>4, <5>1
      <4> QED BY <1>14, <4>1, <4>2
    <3>6. n + 1 \in visited BY <1>4, <1>14, <2>8, <3>4, <3>5
    <3> QED BY <2>10, <3>6
  <2> QED BY <2>9, <2>10
<1> QED BY <1>2, <1>11, <1>12, <1>13, <1>14 DEF Consumes

\* An object after a trade.
LEMMA FilledIs ==
    ASSUME NEW r \in Ref, obj[r] \in RowType, Alive(r), NEW n \in Nat,
           NEW new \in {Filled(r, n, TRUE), Filled(r, n, FALSE)}
    PROVE  new \in RowType /\ new.filled = obj[r].filled + n /\ new.status # "ABSENT"
  BY DEF Filled, Alive, RowType, OrderStatus

\* What the invariant says of a queue.
SoundQueue(queue) ==
  /\ queue \in Seq(Ref) /\ DOMAIN queue = 1..Len(queue) /\ Len(queue) \in Nat
  /\ Leaves(queue)
  /\ \A k \in DOMAIN queue : queue[k] \in Ref /\ Alive(queue[k]) /\ queue[k][1] \in DOMAIN orders
  /\ \A j, k \in DOMAIN queue : j # k => queue[j][1] # queue[k][1]

\* Both sides of the book are sound queues.
LEMMA QueueIs ==
    ASSUME FillInv, NEW side \in OrderSide
    PROVE  SoundQueue(book[side])
<1> DEFINE queue == book[side]
<1>0. EngineTypes /\ OneObject /\ BookHoldsObjects /\ ObjectsCover BY DEF FillInv
<1>1. queue \in Seq(Ref) BY <1>0 DEF EngineTypes
<1>2. DOMAIN queue = 1..Len(queue) /\ Len(queue) \in Nat BY <1>1, LenProperties
<1>3. \A k \in DOMAIN queue : queue[k] \in Ref BY <1>1, <1>2, ElementOfSeq
<1>4. \A k \in DOMAIN queue : Alive(queue[k]) BY <1>0 DEF BookHoldsObjects
<1>5. \A k \in DOMAIN queue : queue[k][1] \in DOMAIN orders BY <1>0, <1>3, <1>4 DEF ObjectsCover
<1>6. Leaves(queue)
  <2> SUFFICES ASSUME NEW k \in DOMAIN queue PROVE Unfilled(queue[k]) \in Nat
    BY DEF Leaves
  <2>1. PICK r \in Ref : r = queue[k] /\ Alive(r) BY <1>3, <1>4
  <2>2. /\ obj[r].filled <= orders[r[1]].quantity /\ obj[r].filled \in Nat /\ orders[r[1]].quantity \in Nat
    BY <1>0, <2>1, OrderNumbers DEF ObjectsCover
  <2> QED BY <2>1, <2>2 DEF Unfilled, Order
<1>7. \A j, k \in DOMAIN queue : j # k => queue[j][1] # queue[k][1]
  <2> SUFFICES ASSUME NEW j \in DOMAIN queue, NEW k \in DOMAIN queue, j # k, queue[j][1] = queue[k][1]
               PROVE  FALSE
    OBVIOUS
  <2>1. PICK i \in Ids : i = queue[j][1] BY <1>0, <1>3, OrderNumbers
  <2>2. queue[j] = <<i, "created">> \/ queue[j] = <<i, "loaded">> BY <1>0, <1>3, <2>1, OrderNumbers
  <2>3. queue[k] = <<i, "created">> \/ queue[k] = <<i, "loaded">> BY <1>0, <1>3, <2>1, OrderNumbers
  <2>4. queue[j] = queue[k] BY <1>0, <1>4, <2>2, <2>3 DEF OneObject
  <2> QED BY <1>0, <2>4 DEF BookHoldsObjects
<1> QED BY <1>1, <1>2, <1>3, <1>4, <1>5, <1>6, <1>7 DEF SoundQueue

\* What remains of a queue when its first entries are gone.
IsTail(q, queue) ==
  /\ q \in Seq(Ref)
  /\ \E n \in Nat : \A k \in DOMAIN q : k \in Nat /\ k + n \in DOMAIN queue /\ q[k] = queue[k + n]

\* q is what follows the first n entries.
TailFrom(q, queue, n) ==
  /\ n \in Nat /\ DOMAIN q = 1..(Len(queue) - n)
  /\ \A k \in DOMAIN q : k \in Nat /\ k + n \in DOMAIN queue /\ q[k] = queue[k + n]

\* matchOrder takes the filled makers off the front and keeps the rest.
LEMMA QueueRemains ==
    ASSUME NEW queue \in Seq(Ref), NEW gone \in SUBSET DOMAIN queue
    PROVE  /\ IsTail(SubSeq(queue, Cardinality(gone) + 1, Len(queue)), queue)
           /\ TailFrom(SubSeq(queue, Cardinality(gone) + 1, Len(queue)), queue, Cardinality(gone))
<1> DEFINE q == SubSeq(queue, Cardinality(gone) + 1, Len(queue))
<1>1. DOMAIN queue = 1..Len(queue) /\ Len(queue) \in Nat BY LenProperties
<1>2. PICK len \in Nat : len = Len(queue) BY <1>1
<1>3. IsFiniteSet(1..len) /\ Cardinality(1..len) = len BY FS_Interval
<1>4. gone \in SUBSET (1..len) BY <1>1, <1>2
<1>5. IsFiniteSet(gone) /\ Cardinality(gone) <= Cardinality(1..len) BY <1>3, <1>4, FS_Subset
<1>6. PICK n \in Nat : n = Cardinality(gone) /\ n <= len BY <1>3, <1>5, FS_CardinalityType
<1>7. q = SubSeq(queue, n + 1, len) BY <1>2, <1>6
<1> HIDE DEF q
<1>8. \A i \in (n + 1)..len : queue[i] \in Ref
  <2>1. \A i \in (n + 1)..len : i \in 1..Len(queue) BY <1>2
  <2> QED BY <2>1, ElementOfSeq
<1>9. /\ q \in Seq(Ref)
      /\ Len(q) = IF n + 1 <= len THEN len - (n + 1) + 1 ELSE 0
      /\ \A i \in 1..(len - (n + 1) + 1) : q[i] = queue[(n + 1) + i - 1]
  <2>1. PICK m \in Int : m = n + 1 OBVIOUS
  <2>2. len \in Int OBVIOUS
  <2>3. \A i \in m..len : queue[i] \in Ref BY <1>8, <2>1
  <2>4. /\ SubSeq(queue, m, len) \in Seq(Ref)
        /\ Len(SubSeq(queue, m, len)) = IF m <= len THEN len - m + 1 ELSE 0
        /\ \A i \in 1..(len - m + 1) : SubSeq(queue, m, len)[i] = queue[m + i - 1]
    BY ONLY <2>1, <2>2, <2>3, SubSeqProperties
  <2> QED BY <1>7, <2>1, <2>4
<1>10. len - (n + 1) + 1 = len - n /\ \A i \in Nat : (n + 1) + i - 1 = i + n OBVIOUS
<1>11. Len(q) = len - n BY <1>6, <1>9
<1>12. DOMAIN q = 1..(len - n) BY <1>9, <1>11, LenProperties
<1>13. \A k \in DOMAIN q : k \in Nat /\ k + n \in DOMAIN queue /\ q[k] = queue[k + n]
  <2> SUFFICES ASSUME NEW k \in 1..(len - n) PROVE k \in Nat /\ k + n \in DOMAIN queue /\ q[k] = queue[k + n]
    BY <1>12
  <2>1. k \in Nat /\ k + n \in 1..len /\ k \in 1..(len - (n + 1) + 1) /\ (n + 1) + k - 1 = k + n
    BY <1>6
  <2>2. q[k] = queue[(n + 1) + k - 1] BY <1>9, <2>1
  <2> QED BY <1>1, <1>2, <2>1, <2>2
<1>14. IsTail(q, queue) BY <1>9, <1>13 DEF IsTail
<1>15. TailFrom(q, queue, Cardinality(gone)) BY <1>2, <1>6, <1>12, <1>13 DEF TailFrom
<1> QED BY <1>14, <1>15 DEF q

\* What one matchOrder does, named: the queue it meets, the quantity of the trade at each
\* position it visits (f), their total, what each order is filled by, and the queue it leaves.
Matches(s, side, queue, f, total, fills, q) ==
  /\ side \in OrderSide /\ total \in Nat /\ fills \in [Ids -> Nat]
  /\ queue = book[side] /\ DOMAIN f \subseteq DOMAIN queue
  /\ \A i \in DOMAIN f : f[i] \in Nat /\ f[i] <= Unfilled(queue[i])
  /\ total <= Order(Taker(s)).quantity /\ (DOMAIN f = {} => total = 0)
  /\ fills[req[s].id] = total
  /\ \A i \in DOMAIN f : fills[queue[i][1]] = f[i]
  /\ \A j \in Ids : j # req[s].id /\ (\A i \in DOMAIN f : queue[i][1] # j) => fills[j] = 0
  /\ obj' = [r \in Ref |->
               IF r = Taker(s) /\ DOMAIN f # {} THEN Filled(r, total, TRUE)
               ELSE IF \E i \in DOMAIN f : queue[i] = r
                    THEN Filled(r, f[Position(queue, r)], FALSE)
               ELSE obj[r]]
  /\ IsTail(q, queue)
  /\ \E n \in Nat : TailFrom(q, queue, n) /\ Consumes(queue, Taker(s), f, total, n)
  /\ side = Opposite(Order(Taker(s)).side)
  /\ book' = [book EXCEPT ![side] = q]
  /\ req' = [req EXCEPT ![s] = [req[s] EXCEPT !.pc = "persist",
                                              !.touched = {queue[i] : i \in DOMAIN f},
                                              !.fills = fills]]

\* matchOrder does what Matches says, with some fills.
LEMMA MatchIs ==
    ASSUME FillInv, NEW s \in Slots, MatchOrder(s)
    PROVE  \E side, queue, f, total, fills, q : Matches(s, side, queue, f, total, fills, q)
<1>0. EngineTypes /\ CreatesOK BY DEF FillInv
<1>1. At(s, "create", "match") BY DEF MatchOrder
<1>2. CreateOK(s) BY <1>0, <1>1 DEF CreatesOK, At
<1>3. req[s].id \in DOMAIN orders /\ req[s].id \in Ids BY <1>0, <1>2, OrderNumbers DEF CreateOK
<1> DEFINE taker == Taker(s)
           side == Opposite(Order(taker).side)
           queue == book[side]
           visited == Visited(taker, queue)
           f == [i \in visited |-> TradeQuantity(taker, queue, i)]
           total == SumFunction(f)
           gone == {i \in visited : TradeQuantity(taker, queue, i) = Unfilled(queue[i])}
           at(j) == {k \in visited : queue[k][1] = j}
           piece(j) == [i \in at(j) |-> TradeQuantity(taker, queue, i)]
           fills == [j \in Ids |-> IF j = taker[1] THEN total ELSE SumFunction(piece(j))]
           q == SubSeq(queue, Cardinality(gone) + 1, Len(queue))
<1>4. /\ book' = [book EXCEPT ![side] = q]
      /\ req' = [req EXCEPT ![s] = [req[s] EXCEPT !.pc = "persist",
                                                  !.touched = {queue[i] : i \in visited},
                                                  !.fills = fills]]
  BY DEF MatchOrder, Taker
<1>5. obj' = [r \in Ref |->
                IF r = taker /\ visited # {} THEN Filled(r, total, TRUE)
                ELSE IF \E i \in visited : queue[i] = r
                     THEN Filled(r, TradeQuantity(taker, queue, Position(queue, r)), FALSE)
                ELSE obj[r]]
  BY DEF MatchOrder, Taker
<1>6. side \in OrderSide BY DEF Opposite, OrderSide
<1>7. taker[1] = req[s].id /\ Order(taker).quantity \in Nat BY <1>0, <1>3, OrderNumbers DEF Taker, Order
<1>8. DOMAIN f = visited /\ \A i \in visited : f[i] = TradeQuantity(taker, queue, i) OBVIOUS
<1> HIDE DEF taker, side
<1>9. /\ queue \in Seq(Ref) /\ DOMAIN queue = 1..Len(queue) /\ Len(queue) \in Nat
      /\ Leaves(queue)
      /\ \A k \in DOMAIN queue : queue[k] \in Ref /\ Alive(queue[k]) /\ queue[k][1] \in DOMAIN orders
      /\ \A j, k \in DOMAIN queue : j # k => queue[j][1] # queue[k][1]
  <2>1. SoundQueue(book[side]) BY <1>6, QueueIs
  <2> QED BY <2>1 DEF SoundQueue
<1>10. \A k \in DOMAIN queue : queue[k][1] # req[s].id BY <1>2, <1>6 DEF CreateOK
<1> HIDE DEF queue
<1>11. visited \subseteq DOMAIN queue BY DEF Visited
<1>12. \A i \in visited : f[i] \in Nat /\ f[i] <= Unfilled(queue[i]) BY <1>7, <1>9, TradeFits
<1>13. total \in Nat /\ total <= Order(taker).quantity /\ (visited = {} => total = 0)
  BY <1>7, <1>9, TotalFits
<1>14. IsFiniteSet(visited)
  <2>1. IsFiniteSet(DOMAIN queue) BY <1>9, FS_Interval
  <2> QED BY <1>11, <2>1, FS_Subset
<1>15. ASSUME NEW j \in Ids
       PROVE  /\ SumFunction(piece(j)) \in Nat
              /\ (\A i \in visited : queue[i][1] # j) => SumFunction(piece(j)) = 0
              /\ \A i \in visited : queue[i][1] = j => SumFunction(piece(j)) = f[i]
  <2>1. IsFiniteSet(at(j))
    <3>1. at(j) \subseteq visited OBVIOUS
    <3> HIDE DEF at, visited
    <3> QED BY <1>14, <3>1, FS_Subset
  <2>2. piece(j) \in [at(j) -> Nat] /\ \A i \in at(j) : piece(j)[i] = f[i] BY <1>8, <1>12
  <2>3. (\A i \in visited : queue[i][1] # j) => at(j) = {} OBVIOUS
  <2>4. ASSUME NEW i \in visited, queue[i][1] = j PROVE at(j) = {i} /\ piece(j)[i] = f[i]
    <3>1. i \in at(j) BY <2>4
    <3>2. \A k \in at(j) : k = i BY <1>9, <1>11, <2>4
    <3> HIDE DEF at, piece, f
    <3> QED BY <2>2, <3>1, <3>2
  <2> HIDE DEF at, piece, f, visited
  <2>5. /\ SumFunction(piece(j)) \in Nat
        /\ at(j) = {} => SumFunction(piece(j)) = 0
        /\ \A x : at(j) = {x} => SumFunction(piece(j)) = piece(j)[x]
    BY <2>1, <2>2, FewTerms
  <2> QED BY <2>3, <2>4, <2>5
<1>16. /\ fills \in [Ids -> Nat] /\ fills[req[s].id] = total
       /\ \A i \in visited : fills[queue[i][1]] = f[i]
       /\ \A j \in Ids : j # req[s].id /\ (\A i \in visited : queue[i][1] # j) => fills[j] = 0
  <2> HIDE DEF piece, total, f, visited
  <2>1. \A i \in visited : queue[i][1] \in Ids /\ queue[i][1] # req[s].id
    BY <1>0, <1>9, <1>10, <1>11, OrderNumbers
  <2>2. \A j \in Ids : fills[j] = IF j = req[s].id THEN total ELSE SumFunction(piece(j)) BY <1>7
  <2>3. fills \in [Ids -> Nat] BY <1>13, <1>15
  <2> HIDE DEF fills
  <2> QED BY <1>3, <1>15, <2>1, <2>2, <2>3
<1>17. gone \in SUBSET DOMAIN queue BY <1>11
<1>18. /\ IsTail(q, queue) /\ Cardinality(gone) \in Nat
       /\ TailFrom(q, queue, Cardinality(gone)) /\ Consumes(queue, taker, f, total, Cardinality(gone))
  <2>1. queue \in Seq(Ref) BY <1>9
  <2>2. Consumes(queue, taker, f, total, Cardinality(gone))
    <3>1. f = [i \in Visited(taker, queue) |-> TradeQuantity(taker, queue, i)] OBVIOUS
    <3>2. gone = {i \in Visited(taker, queue) : TradeQuantity(taker, queue, i) = Unfilled(queue[i])} OBVIOUS
    <3> HIDE DEF gone, f
    <3> QED BY <1>7, <1>9, <3>1, <3>2, MatchConsumes
  <2> HIDE DEF gone, f, total
  <2>3. IsTail(q, queue) /\ TailFrom(q, queue, Cardinality(gone)) BY <1>17, <2>1, QueueRemains
  <2> QED BY <2>2, <2>3 DEF Consumes
<1>19. obj' = [r \in Ref |->
                IF r = taker /\ visited # {} THEN Filled(r, total, TRUE)
                ELSE IF \E i \in visited : queue[i] = r
                     THEN Filled(r, f[Position(queue, r)], FALSE)
                ELSE obj[r]]
  <2>1. ASSUME NEW r \in Ref, \E i \in visited : queue[i] = r
        PROVE  TradeQuantity(taker, queue, Position(queue, r)) = f[Position(queue, r)]
    <3>1. PICK i \in visited : queue[i] = r BY <2>1
    <3>2. Position(queue, r) \in DOMAIN queue /\ queue[Position(queue, r)] = r
      <4> HIDE DEF visited
      <4> QED BY <1>11, <3>1 DEF Position
    <3>3. Position(queue, r) = i
      <4> HIDE DEF visited
      <4> QED BY <1>9, <1>11, <3>1, <3>2
    <3> QED BY <1>8, <3>1, <3>3
  <2> HIDE DEF f, total, visited
  <2> QED BY <1>5, <2>1
<1> HIDE DEF f, total, fills, q, visited
<1>20. Matches(s, side, queue, f, total, fills, q)
  <2>1. queue = book[side] BY DEF queue
  <2>2. DOMAIN f \subseteq DOMAIN queue BY <1>8, <1>11
  <2>3. \A i \in DOMAIN f : f[i] \in Nat /\ f[i] <= Unfilled(queue[i]) BY <1>8, <1>12
  <2>4. total <= Order(Taker(s)).quantity /\ (DOMAIN f = {} => total = 0) BY <1>8, <1>13 DEF taker
  <2>5. /\ fills[req[s].id] = total
        /\ \A i \in DOMAIN f : fills[queue[i][1]] = f[i]
        /\ \A j \in Ids : j # req[s].id /\ (\A i \in DOMAIN f : queue[i][1] # j) => fills[j] = 0
    BY <1>8, <1>16
  <2>6. obj' = [r \in Ref |->
                  IF r = Taker(s) /\ DOMAIN f # {} THEN Filled(r, total, TRUE)
                  ELSE IF \E i \in DOMAIN f : queue[i] = r
                       THEN Filled(r, f[Position(queue, r)], FALSE)
                  ELSE obj[r]]
    BY <1>8, <1>19 DEF taker
  <2>7. side \in OrderSide /\ total \in Nat /\ fills \in [Ids -> Nat] BY <1>6, <1>13, <1>16
  <2>8. req' = [req EXCEPT ![s] = [req[s] EXCEPT !.pc = "persist",
                                                 !.touched = {queue[i] : i \in DOMAIN f},
                                                 !.fills = fills]]
    BY <1>4, <1>8
  <2>9. \E n \in Nat : TailFrom(q, queue, n) /\ Consumes(queue, Taker(s), f, total, n)
    <3>1. Consumes(queue, Taker(s), f, total, Cardinality(gone)) BY <1>18 DEF taker
    <3> HIDE DEF gone
    <3> QED BY <1>18, <3>1
  <2>10. side = Opposite(Order(Taker(s)).side) BY DEF side, taker
  <2> QED BY <1>4, <1>18, <2>1, <2>2, <2>3, <2>4, <2>5, <2>6, <2>7, <2>8, <2>9, <2>10 DEF Matches
<1> QED BY <1>20, Zenon

\* Objects, shares and books after a match.
LEMMA FillMatch ==
    ASSUME FillInv, NEW s \in Slots, MatchOrder(s)
    PROVE  FillInv'
<1>0. /\ EngineTypes /\ LoadsFirst /\ UnbornAreBlank /\ OneObject /\ BookHoldsObjects
      /\ CreatesOK /\ ObjectsCover /\ OpenRowsCover /\ NoOverfill
  BY DEF FillInv
<1>1. At(s, "create", "match") /\ UNCHANGED <<orders, db, traded, boot, restarts>> BY DEF MatchOrder
<1>2. CreateOK(s) BY <1>0, <1>1 DEF CreatesOK, At
<1>3. PICK side, queue, f, total, fills, q : Matches(s, side, queue, f, total, fills, q) BY MatchIs
<1>4. /\ side \in OrderSide /\ queue = book[side] /\ total \in Nat /\ fills \in [Ids -> Nat]
      /\ DOMAIN f \subseteq DOMAIN queue /\ (DOMAIN f = {} => total = 0)
      /\ \A i \in DOMAIN f : f[i] \in Nat /\ f[i] <= Unfilled(queue[i])
      /\ total <= Order(Taker(s)).quantity /\ fills[req[s].id] = total
      /\ \A i \in DOMAIN f : fills[queue[i][1]] = f[i]
      /\ \A j \in Ids : j # req[s].id /\ (\A i \in DOMAIN f : queue[i][1] # j) => fills[j] = 0
  BY <1>3 DEF Matches
<1>5. obj' = [r \in Ref |->
               IF r = Taker(s) /\ DOMAIN f # {} THEN Filled(r, total, TRUE)
               ELSE IF \E i \in DOMAIN f : queue[i] = r
                    THEN Filled(r, f[Position(queue, r)], FALSE)
               ELSE obj[r]]
  BY <1>3 DEF Matches
<1>6. IsTail(q, queue) /\ book' = [book EXCEPT ![side] = q] BY <1>3 DEF Matches
<1> DEFINE touched == {queue[i] : i \in DOMAIN f}
           c == [req[s] EXCEPT !.pc = "persist", !.touched = touched, !.fills = fills]
<1>7. req' = [req EXCEPT ![s] = c] BY <1>3 DEF Matches
<1>8. /\ queue \in Seq(Ref) /\ DOMAIN queue = 1..Len(queue) /\ Len(queue) \in Nat
      /\ \A k \in DOMAIN queue : queue[k] \in Ref /\ Alive(queue[k]) /\ queue[k][1] \in DOMAIN orders
      /\ \A j, k \in DOMAIN queue : j # k => queue[j][1] # queue[k][1]
  <2>1. side \in OrderSide /\ queue = book[side] BY <1>4
  <2>2. SoundQueue(book[side]) BY <2>1, QueueIs
  <2>3. SoundQueue(queue) BY <2>1, <2>2
  <2> QED BY <2>3 DEF SoundQueue
<1>9. \A k \in DOMAIN queue : queue[k][1] # req[s].id BY <1>2, <1>4 DEF CreateOK
<1>10. /\ req[s].id \in DOMAIN orders /\ req[s].id \in Ids /\ Taker(s) \in Ref /\ Taker(s)[1] = req[s].id
       /\ Alive(Taker(s)) /\ obj[Taker(s)].filled = 0
  BY <1>0, <1>1, <1>2, OrderNumbers DEF CreateOK, Taker, At
<1>11. \A i \in DOMAIN f : queue[i] # Taker(s) BY <1>4, <1>9, <1>10
<1>12. DOMAIN f # {} => obj'[Taker(s)] = Filled(Taker(s), total, TRUE) BY <1>5, <1>10
<1>13. \A i \in DOMAIN f : obj'[queue[i]] = Filled(queue[i], f[i], FALSE)
  <2> SUFFICES ASSUME NEW i \in DOMAIN f PROVE obj'[queue[i]] = Filled(queue[i], f[i], FALSE)
    OBVIOUS
  <2>1. i \in DOMAIN queue /\ queue[i] \in Ref /\ queue[i] # Taker(s) BY <1>4, <1>8, <1>11
  <2>2. Position(queue, queue[i]) \in DOMAIN queue /\ queue[Position(queue, queue[i])] = queue[i]
    BY <2>1 DEF Position
  <2>3. Position(queue, queue[i]) = i BY <1>8, <2>1, <2>2
  <2> QED BY <1>5, <2>1, <2>3
<1>14. \A r \in Ref : (r = Taker(s) => DOMAIN f = {}) /\ (\A i \in DOMAIN f : queue[i] # r) => obj'[r] = obj[r]
  BY <1>5
<1>15. /\ obj' \in [Ref -> RowType]
       /\ \A r \in Ref : Alive(r)' <=> Alive(r)
  <2>1. DOMAIN f # {} => obj'[Taker(s)] \in RowType /\ obj'[Taker(s)].status # "ABSENT"
    <3>1. obj[Taker(s)] \in RowType BY <1>0, <1>10 DEF EngineTypes
    <3>2. total \in Nat BY <1>4
    <3> QED BY <1>10, <1>12, <3>1, <3>2, FilledIs
  <2>2. \A i \in DOMAIN f : obj'[queue[i]] \in RowType /\ obj'[queue[i]].status # "ABSENT"
    <3> SUFFICES ASSUME NEW i \in DOMAIN f PROVE obj'[queue[i]] \in RowType /\ obj'[queue[i]].status # "ABSENT"
      OBVIOUS
    <3>1. queue[i] \in Ref /\ Alive(queue[i]) /\ f[i] \in Nat BY <1>4, <1>8
    <3>2. obj[queue[i]] \in RowType BY <1>0, <3>1 DEF EngineTypes
    <3> QED BY <1>13, <3>1, <3>2, FilledIs
  <2>3. \A r \in Ref : obj[r] \in RowType BY <1>0 DEF EngineTypes
  <2>4. ASSUME NEW r \in Ref PROVE obj'[r] \in RowType /\ (Alive(r)' <=> Alive(r))
    <3>1. CASE r = Taker(s) /\ DOMAIN f # {} BY <1>10, <2>1, <3>1 DEF Alive
    <3>2. CASE \E i \in DOMAIN f : queue[i] = r
      <4>1. PICK i \in DOMAIN f : queue[i] = r BY <3>2
      <4>2. Alive(r) BY <1>4, <1>8, <4>1
      <4> QED BY <2>2, <4>1, <4>2 DEF Alive
    <3>3. CASE (r = Taker(s) => DOMAIN f = {}) /\ (\A i \in DOMAIN f : queue[i] # r)
      BY <1>14, <2>3, <3>3 DEF Alive
    <3> QED BY <3>1, <3>2, <3>3
  <2>5. DOMAIN obj' = Ref BY <1>5
  <2>6. obj' = [r \in Ref |-> obj'[r]] BY <1>5
  <2> QED BY <2>4, <2>6
<1>16. /\ c \in Call /\ c.op = "create" /\ c.pc = "persist" /\ c.id = req[s].id
       /\ c.touched = touched /\ c.fills = fills
  <2>1. req[s] \in Call BY <1>0 DEF EngineTypes
  <2>2. touched \subseteq Ref BY <1>4, <1>8
  <2> HIDE DEF touched
  <2> QED BY <1>1, <1>4, <2>1, <2>2 DEF At, Call, Places
<1> HIDE DEF c
<1>17. req' \in [Slots -> Call] /\ req'[s] = c /\ \A u \in Slots : u # s => req'[u] = req[u]
  BY <1>0, <1>7, <1>16 DEF EngineTypes
<1>18. /\ book' \in [OrderSide -> Seq(Ref)] /\ book'[side] = q
       /\ \A d \in OrderSide : d # side => book'[d] = book[d]
  BY <1>0, <1>4, <1>6 DEF EngineTypes, IsTail
<1>19. EngineTypes' BY <1>0, <1>1, <1>15, <1>17, <1>18 DEF EngineTypes
<1>20. BookStep(s)
  <2>1. PICK n \in Nat : \A k \in DOMAIN q : k \in Nat /\ k + n \in DOMAIN queue /\ q[k] = queue[k + n]
    BY <1>6 DEF IsTail
  <2>2. \A j, k \in DOMAIN queue : j # k => queue[j] # queue[k] BY <1>8
  <2>3. \A j, k \in DOMAIN q : j # k => q[j] # q[k]
    <3> SUFFICES ASSUME NEW j \in DOMAIN q, NEW k \in DOMAIN q, j # k PROVE q[j] # q[k]
      OBVIOUS
    <3>1. j \in Nat /\ k \in Nat /\ j + n \in DOMAIN queue /\ k + n \in DOMAIN queue BY <2>1
    <3>2. j + n # k + n BY <3>1
    <3> QED BY <2>1, <2>2, <3>1, <3>2
  <2> SUFFICES ASSUME NEW d \in OrderSide
               PROVE  /\ \A k \in DOMAIN book'[d] : \E j \in DOMAIN book[d] : book'[d][k] = book[d][j]
                      /\ \A j, k \in DOMAIN book'[d] : j # k => book'[d][j] # book'[d][k]
    BY DEF BookStep
  <2>4. CASE d = side
    <3>1. \A k \in DOMAIN q : \E j \in DOMAIN queue : q[k] = queue[j] BY <2>1
    <3> QED BY <1>4, <1>18, <2>3, <2>4, <3>1
  <2>5. CASE d # side BY <1>0, <1>18, <2>5 DEF BookHoldsObjects
  <2> QED BY <2>4, <2>5
<1>21. \A d \in OrderSide : \A k \in DOMAIN book'[d] : \E j \in DOMAIN book[d] : book'[d][k] = book[d][j]
  BY <1>1, <1>20 DEF BookStep, At
<1>22. \A d \in OrderSide : \A j \in DOMAIN book[d] : book[d][j] \in Ref
  <2> SUFFICES ASSUME NEW d \in OrderSide, NEW j \in DOMAIN book[d] PROVE book[d][j] \in Ref
    OBVIOUS
  <2>1. book[d] \in Seq(Ref) BY <1>0 DEF EngineTypes
  <2> QED BY <2>1, LenProperties, ElementOfSeq
<1>23. BookHoldsObjects' BY <1>0, <1>15, <1>20, <1>21, <1>22 DEF BookHoldsObjects, BookStep
<1>24. \A i \in Ids : Pending(i)' = Pending(i) + fills[i] /\ Pending(i) \in Nat /\ fills[i] \in Nat /\ traded[i] \in Nat
  <2> SUFFICES ASSUME NEW i \in Ids
               PROVE  Pending(i)' = Pending(i) + fills[i] /\ Pending(i) \in Nat /\ fills[i] \in Nat /\ traded[i] \in Nat
    OBVIOUS
  <2>1. Share(s, i)' = fills[i] /\ Share(s, i) = 0 BY <1>1, <1>16, <1>17 DEF Share, At
  <2>2. Pending(i)' = Pending(i) - Share(s, i) + Share(s, i)' BY <1>0, <1>17, <1>19, PendingMoves
  <2>3. Pending(i) \in Nat /\ fills[i] \in Nat /\ traded[i] \in Nat BY <1>0, <1>4, PendingNat DEF EngineTypes
  <2> QED BY <2>1, <2>2, <2>3
<1>25. LoadsFirst' BY <1>0, <1>1, BusyIsReady DEF LoadsFirst, At
<1>26. UnbornAreBlank'
  <2>1. \A i \in Ids : Unborn(i)' => Unborn(i) BY <1>1, <1>16, <1>17 DEF Unborn, At
  <2>2. \A i \in Ids : <<i, "created">> \in Ref /\ <<i, "loaded">> \in Ref BY <1>0, OrderNumbers
  <2> QED BY <1>0, <1>1, <1>15, <2>1, <2>2 DEF UnbornAreBlank
<1>27. OneObject'
  <2>1. \A i \in Ids : <<i, "created">> \in Ref /\ <<i, "loaded">> \in Ref BY <1>0, OrderNumbers
  <2> QED BY <1>0, <1>15, <2>1 DEF OneObject
<1>28. CreatesOK'
  <2>1. \A u \in Slots : req'[u].op = req[u].op /\ req'[u].id = req[u].id
    BY <1>1, <1>16, <1>17 DEF At
  <2>2. ASSUME NEW u \in Slots, req[u].op = "create"
        PROVE  \A d \in OrderSide : \A k \in DOMAIN book'[d] : book'[d][k][1] # req[u].id
    <3>1. CreateOK(u) BY <1>0, <2>2 DEF CreatesOK
    <3> QED BY <1>21, <3>1 DEF CreateOK
  <2>3. CreateOK(s)'
    <3>1. Taker(s)' = Taker(s) /\ Alive(Taker(s))' BY <1>10, <1>15, <2>1 DEF Taker
    <3>2. \A r \in touched : Alive(r)' BY <1>4, <1>8, <1>15
    <3>3. \A i \in Ids : fills[i] # 0 => i = req[s].id \/ \E r \in touched : r[1] = i
      <4> SUFFICES ASSUME NEW i \in Ids, fills[i] # 0, i # req[s].id PROVE \E r \in touched : r[1] = i
        OBVIOUS
      <4>1. PICK k \in DOMAIN f : queue[k][1] = i BY <1>4
      <4> QED BY <4>1
    <3>4. req[s].op = "create" BY <1>1 DEF At
    <3> HIDE DEF touched
    <3> QED BY <1>1, <1>2, <1>16, <1>17, <2>2, <3>1, <3>2, <3>3, <3>4 DEF CreateOK
  <2>4. ASSUME NEW u \in Slots, u # s, req'[u].op = "create" PROVE CreateOK(u)'
    <3>1. req'[u] = req[u] /\ CreateOK(u) /\ req[u].op = "create" BY <1>0, <1>17, <2>4 DEF CreatesOK
    <3>2. req[u].id # req[s].id BY <1>0, <1>1, <2>4, <3>1 DEF CreatesOK, At
    <3>3. Taker(u)' = Taker(u) /\ Taker(u) # Taker(s) /\ Taker(u) \in Ref /\ Taker(u)[1] = req[u].id
      <4>1. req[u].id \in Ids BY <1>0, <3>1, OrderNumbers DEF CreateOK
      <4> QED BY <1>0, <3>1, <3>2, <4>1, OrderNumbers DEF Taker
    <3>4. \A i \in DOMAIN f : queue[i] # Taker(u)
      <4>1. \A k \in DOMAIN queue : queue[k][1] # req[u].id BY <1>4, <3>1 DEF CreateOK
      <4> QED BY <1>4, <3>3, <4>1
    <3>5. obj'[Taker(u)] = obj[Taker(u)] BY <1>14, <3>3, <3>4
    <3>6. \A r \in req[u].touched : r \in Ref /\ Alive(r) BY <1>0, <3>1, CallParts DEF CreateOK
    <3>7. \A r \in req'[u].touched : Alive(r)' BY <1>15, <3>1, <3>6
    <3>8. Alive(Taker(u))' <=> Alive(Taker(u)) BY <1>15, <3>3
    <3> QED BY <1>1, <2>2, <3>1, <3>3, <3>5, <3>7, <3>8 DEF CreateOK
  <2> QED BY <1>0, <2>1, <2>3, <2>4 DEF CreatesOK
<1>29. ObjectsCover'
  <2> SUFFICES ASSUME NEW r \in Ref, Alive(r)
               PROVE  /\ r[1] \in DOMAIN orders
                      /\ traded[r[1]] + Pending(r[1])' <= obj'[r].filled
                      /\ obj'[r].filled <= orders[r[1]].quantity
    BY <1>1, <1>15 DEF ObjectsCover
  <2>1. PICK i \in Ids : i = r[1] BY <1>0, OrderNumbers
  <2>2. /\ i \in DOMAIN orders /\ traded[i] + Pending(i) <= obj[r].filled /\ obj[r].filled <= orders[i].quantity
    BY <1>0, <2>1 DEF ObjectsCover
  <2>3. PICK t \in Nat, p \in Nat, w \in Nat, x \in Nat, n \in Nat :
          t = traded[i] /\ p = Pending(i) /\ w = fills[i] /\ x = obj[r].filled /\ n = orders[i].quantity
    BY <1>0, <1>24, <2>2, OrderNumbers
  <2>4. Pending(i)' = p + w /\ t + p <= x /\ x <= n BY <1>24, <2>2, <2>3
  <2>5. obj[r] \in RowType BY <1>0 DEF EngineTypes
  <2>6. CASE r = Taker(s) /\ DOMAIN f # {}
    <3>1. obj'[r].filled = obj[r].filled + total
      <4>1. total \in Nat /\ obj'[r] = Filled(r, total, TRUE) BY <1>4, <1>12, <2>6
      <4> QED BY <2>5, <4>1, FilledIs
    <3>2. x = 0 /\ i = req[s].id /\ w = total /\ total <= n BY <1>4, <1>10, <2>1, <2>3, <2>6 DEF Order
    <3> QED BY <2>1, <2>2, <2>3, <2>4, <3>1, <3>2
  <2>7. CASE \E k \in DOMAIN f : queue[k] = r
    <3>1. PICK k \in DOMAIN f : queue[k] = r BY <2>7
    <3>2. f[k] \in Nat /\ f[k] <= Unfilled(r) /\ w = f[k] BY <1>4, <2>1, <2>3, <3>1
    <3>3. obj'[r].filled = x + f[k]
      <4>1. obj'[r] = Filled(r, f[k], FALSE) BY <1>13, <3>1
      <4>2. obj'[r].filled = obj[r].filled + f[k] BY <2>5, <3>2, <4>1, FilledIs
      <4> QED BY <2>3, <4>2
    <3>4. Unfilled(r) = n - x BY <2>1, <2>3 DEF Unfilled, Order
    <3> QED BY <2>1, <2>2, <2>3, <2>4, <3>2, <3>3, <3>4
  <2>8. CASE (r = Taker(s) => DOMAIN f = {}) /\ (\A k \in DOMAIN f : queue[k] # r)
    <3>1. obj'[r] = obj[r] BY <1>14, <2>8
    <3>2. w = 0
      <4>1. CASE r = Taker(s) BY <1>4, <1>10, <2>1, <2>3, <2>8, <4>1
      <4>2. CASE r # Taker(s)
        <5>1. i # req[s].id
          <6>1. r = <<i, "created">> \/ r = <<i, "loaded">> BY <1>0, <2>1, OrderNumbers
          <6> QED BY <1>0, <1>10, <4>2, <6>1 DEF OneObject, Taker
        <5>2. \A k \in DOMAIN f : queue[k][1] # i
          <6> SUFFICES ASSUME NEW k \in DOMAIN f, queue[k][1] = i PROVE FALSE
            OBVIOUS
          <6>1. queue[k] \in Ref /\ Alive(queue[k]) /\ queue[k] # r BY <1>4, <1>8, <2>8
          <6>2. r = <<i, "created">> \/ r = <<i, "loaded">> BY <1>0, <2>1, OrderNumbers
          <6>3. queue[k] = <<i, "created">> \/ queue[k] = <<i, "loaded">> BY <1>0, <6>1, OrderNumbers
          <6> QED BY <1>0, <6>1, <6>2, <6>3 DEF OneObject
        <5> QED BY <1>4, <2>3, <5>1, <5>2
      <4> QED BY <4>1, <4>2
    <3> QED BY <2>1, <2>2, <2>3, <2>4, <3>1, <3>2
  <2> QED BY <2>6, <2>7, <2>8
<1>30. OpenRowsCover' BY <1>0, <1>1 DEF OpenRowsCover
<1>31. NoOverfill' BY <1>0, <1>1 DEF NoOverfill
<1> QED BY <1>19, <1>23, <1>25, <1>26, <1>27, <1>28, <1>29, <1>30, <1>31 DEF FillInv

-----------------------------------------------------------------------------
(* Start and restart *)

\* What initializeOrderBooks adds.
LoadedOn(side, new) ==
  /\ new \in SUBSET Ref /\ IsFiniteSet(new)
  /\ \A r \in new : r[2] = "loaded" /\ db[r[1]].status \in OpenStatus /\ orders[r[1]].side = side
  /\ \A i \in Ids : db[i].status \in OpenStatus /\ orders[i].side = side => <<i, "loaded">> \in new

\* An object for each open row, as filled as it, and the books sorted from them.
LEMMA LoadIs ==
    ASSUME EngineTypes, LoadsFirst, AddLoadedOrders
    PROVE  /\ \A i \in Ids : db[i].status \in OpenStatus => obj'[<<i, "loaded">>] = db[i]
           /\ \A side \in OrderSide : \E new : LoadedOn(side, new) /\ book'[side] \in Placements(<<>>, new)
           /\ \A r \in Ref : ~(r[2] = "loaded" /\ db[r[1]].status \in OpenStatus) => obj'[r] = obj[r]
           /\ \A s \in Slots : req[s] = Idle
<1> DEFINE loaded(side) == {<<row[1], "loaded">> : row \in {x \in boot.found : orders[x[1]].side = side}}
<1>1. /\ boot.pc = "add"
      /\ obj' = [r \in Ref |-> IF r[2] = "loaded" /\ \E row \in boot.found : row[1] = r[1]
                               THEN (CHOOSE row \in boot.found : row[1] = r[1])[2]
                               ELSE obj[r]]
  BY DEF AddLoadedOrders
<1>2. PICK bids \in Placements(book["BUY"], loaded("BUY")), asks \in Placements(book["SELL"], loaded("SELL")) :
         book' = [side \in OrderSide |-> IF side = "BUY" THEN bids ELSE asks]
  BY DEF AddLoadedOrders
<1>3. /\ \A s \in Slots : req[s] = Idle
      /\ \A side \in OrderSide : book[side] = <<>>
      /\ boot.found = {<<i, db[i]>> : i \in {j \in Ids : db[j].status \in OpenStatus}}
  BY <1>1 DEF LoadsFirst
<1>4. /\ \A row \in boot.found : row[1] \in Ids /\ db[row[1]].status \in OpenStatus /\ row[2] = db[row[1]]
      /\ \A i \in Ids : db[i].status \in OpenStatus => <<i, db[i]>> \in boot.found
  BY <1>3
<1>5. \A i \in Ids : <<i, "loaded">> \in Ref BY OrderNumbers
<1>6. ASSUME NEW i \in Ids, db[i].status \in OpenStatus PROVE obj'[<<i, "loaded">>] = db[i]
  <2>1. <<i, db[i]>> \in boot.found /\ <<i, db[i]>>[1] = i BY <1>4, <1>6
  <2>2. PICK x : x = CHOOSE y \in boot.found : y[1] = i OBVIOUS
  <2>3. x \in boot.found /\ x[1] = i BY <2>1, <2>2
  <2>4. x[2] = db[i] BY <1>4, <2>3
  <2>5. <<i, "loaded">> \in Ref /\ <<i, "loaded">>[1] = i /\ <<i, "loaded">>[2] = "loaded" BY <1>5
  <2>6. obj'[<<i, "loaded">>] = x[2] BY <1>1, <2>2, <2>3, <2>5
  <2> QED BY <2>4, <2>6
<1>7. ASSUME NEW side \in OrderSide
      PROVE  \E new : LoadedOn(side, new) /\ book'[side] \in Placements(<<>>, new)
  <2>1. side \in {"BUY", "SELL"} BY DEF OrderSide
  <2>2. PICK new : new = loaded(side) OBVIOUS
  <2>3. book'[side] \in Placements(<<>>, new) BY <1>2, <1>3, <2>1, <2>2
  <2>4. ASSUME NEW r \in new
        PROVE r \in Ref /\ r[2] = "loaded" /\ db[r[1]].status \in OpenStatus /\ orders[r[1]].side = side
    <3>1. PICK row \in boot.found : r = <<row[1], "loaded">> /\ orders[row[1]].side = side BY <2>2
    <3>2. r[1] = row[1] /\ r[2] = "loaded" BY <3>1
    <3>3. r \in Ref BY <1>4, <1>5, <3>1
    <3> HIDE DEF loaded
    <3> QED BY <1>4, <3>1, <3>2, <3>3
  <2>5. \A i \in Ids : db[i].status \in OpenStatus /\ orders[i].side = side => <<i, "loaded">> \in new
    <3> SUFFICES ASSUME NEW i \in Ids, db[i].status \in OpenStatus, orders[i].side = side
                 PROVE  <<i, "loaded">> \in new
      OBVIOUS
    <3>1. PICK row \in boot.found : row = <<i, db[i]>> BY <1>4
    <3>2. row[1] = i BY <3>1
    <3> QED BY <2>2, <3>2
  <2> HIDE DEF loaded
  <2>6. IsFiniteSet(new)
    <3>1. IsFiniteSet(Ids)
      <4>1. 1 \in Int /\ MaxOrders \in Int BY EngineAssumption
      <4> QED BY <4>1, FS_Interval DEF Ids
    <3>2. IsFiniteSet({"created", "loaded"})
      <4>1. IsFiniteSet({"loaded"}) BY FS_Singleton
      <4>2. {"created", "loaded"} = {"loaded"} \cup {"created"} OBVIOUS
      <4> QED BY <4>1, <4>2, FS_AddElement
    <3>3. IsFiniteSet(Ids \X {"created", "loaded"}) BY <3>1, <3>2, FS_Product
    <3>4. new \subseteq Ids \X {"created", "loaded"} BY <2>4 DEF Ref
    <3> QED BY <3>3, <3>4, FS_Subset
  <2>7. LoadedOn(side, new) BY <2>4, <2>5, <2>6 DEF LoadedOn
  <2> QED BY <2>3, <2>7
<1>8. ASSUME NEW r \in Ref, ~(r[2] = "loaded" /\ db[r[1]].status \in OpenStatus) PROVE obj'[r] = obj[r]
  <2>1. ~(r[2] = "loaded" /\ \E row \in boot.found : row[1] = r[1]) BY <1>4, <1>8
  <2> QED BY <1>1, <2>1
<1> QED BY <1>3, <1>6, <1>7, <1>8

\* The open rows are loaded: an object for each, as filled as its row.
LEMMA FillLoad ==
    ASSUME FillInv, AddLoadedOrders
    PROVE  FillInv'
<1>0. /\ EngineTypes /\ LoadsFirst /\ UnbornAreBlank /\ OneObject /\ BookHoldsObjects
      /\ CreatesOK /\ ObjectsCover /\ OpenRowsCover /\ NoOverfill
  BY DEF FillInv
<1>1. /\ boot.pc = "add" /\ UNCHANGED <<orders, db, traded, req, restarts>>
      /\ boot' = [pc |-> "ready", found |-> {}]
  BY DEF AddLoadedOrders
<1>2. DOMAIN obj' = Ref /\ DOMAIN book' = OrderSide /\ obj' = [r \in Ref |-> obj'[r]]
      /\ book' = [side \in OrderSide |-> book'[side]]
  BY DEF AddLoadedOrders
<1>3. (\A s \in Slots : req[s] = Idle) /\ \A r \in Ref : ~Alive(r) BY <1>0, <1>1 DEF LoadsFirst
<1> DEFINE Open(i) == i \in Ids /\ db[i].status \in OpenStatus
<1>5. \A i \in Ids : <<i, "loaded">> \in Ref /\ <<i, "created">> \in Ref BY <1>0, OrderNumbers
<1>6. /\ \A i : Open(i) => obj'[<<i, "loaded">>] = db[i]
      /\ \A r \in Ref : ~(r[2] = "loaded" /\ Open(r[1])) => obj'[r] = obj[r]
  <2>1. \A r \in Ref : r[1] \in Ids BY <1>0, OrderNumbers
  <2> QED BY <1>0, <2>1, LoadIs
<1>7. OpenStatus \subseteq OrderStatus /\ "ABSENT" \notin OpenStatus BY DEF OpenStatus, OrderStatus
<1>8. \A r \in Ref : Alive(r)' <=> r[2] = "loaded" /\ Open(r[1])
  <2> SUFFICES ASSUME NEW r \in Ref PROVE Alive(r)' <=> r[2] = "loaded" /\ Open(r[1])
    OBVIOUS
  <2>1. CASE r[2] = "loaded" /\ Open(r[1])
    <3>1. r = <<r[1], "loaded">> BY <2>1 DEF Ref
    <3>2. obj'[r] = db[r[1]] BY <1>6, <2>1, <3>1
    <3> QED BY <1>7, <2>1, <3>2 DEF Alive
  <2>2. CASE ~(r[2] = "loaded" /\ Open(r[1]))
    <3>1. obj'[r] = obj[r] BY <1>6, <2>2
    <3> QED BY <1>3, <2>2, <3>1 DEF Alive
  <2> QED BY <2>1, <2>2
<1>9. obj' \in [Ref -> RowType]
  <2>1. ASSUME NEW r \in Ref PROVE obj'[r] \in RowType
    <3>1. CASE r[2] = "loaded" /\ Open(r[1])
      <4>1. r = <<r[1], "loaded">> BY <3>1 DEF Ref
      <4>2. obj'[r] = db[r[1]] BY <1>6, <3>1, <4>1
      <4> QED BY <1>0, <3>1, <4>2 DEF EngineTypes
    <3>2. CASE ~(r[2] = "loaded" /\ Open(r[1]))
      <4>1. obj'[r] = obj[r] BY <1>6, <3>2
      <4> QED BY <1>0, <4>1 DEF EngineTypes
    <3> QED BY <3>1, <3>2
  <2> QED BY <1>2, <2>1
<1>10. ASSUME NEW side \in OrderSide
       PROVE  /\ book'[side] \in Seq(Ref)
              /\ \A k \in DOMAIN book'[side] : obj'[book'[side][k]].status # "ABSENT"
              /\ \A j, k \in DOMAIN book'[side] : j # k => book'[side][j] # book'[side][k]
  <2>1. PICK new : LoadedOn(side, new) /\ book'[side] \in Placements(<<>>, new) BY <1>0, LoadIs
  <2>2. PICK q \in Seq(Ref) : q = <<>> BY EmptySeq
  <2>3. DOMAIN q = {} BY <2>2
  <2>4. PICK p : p = book'[side] OBVIOUS
  <2>5. /\ p \in Seq(Ref)
        /\ \A k \in DOMAIN p : p[k] \in new
        /\ \A j, k \in DOMAIN p : j # k => p[j] # p[k]
    <3>1. new \in SUBSET Ref /\ IsFiniteSet(new) BY <2>1 DEF LoadedOn
    <3>2. p \in Placements(q, new) BY <2>1, <2>2, <2>4
    <3>3. /\ p \in Seq(Ref)
          /\ \A k \in DOMAIN p : p[k] \in new \/ \E j \in DOMAIN q : p[k] = q[j]
          /\ \A j, k \in DOMAIN p : j # k => p[j] # p[k]
      BY <3>1, <3>2, PlacementsArrange
    <3> QED BY <2>3, <3>3
  <2>6. \A r \in new : r \in Ref /\ r[1] \in Ids /\ r[2] = "loaded" /\ Open(r[1])
    BY <1>0, <2>1, OrderNumbers DEF LoadedOn
  <2>7. \A r \in new : obj'[r].status # "ABSENT" BY <1>8, <2>6 DEF Alive
  <2> QED BY <2>4, <2>5, <2>7
<1>11. book' \in [OrderSide -> Seq(Ref)]
  BY <1>2, <1>10
<1>12. EngineTypes' BY <1>0, <1>1, <1>9, <1>11 DEF EngineTypes
<1>13. \A i \in Ids : Pending(i) = 0 /\ Pending(i)' = 0
  <2>1. \A s \in Slots : \A i \in Ids : Share(s, i) = 0 BY <1>3 DEF Share, At, Idle
  <2>2. \A i \in Ids : Pending(i) = 0 BY <2>1, NothingPending
  <2>3. \A s \in Slots : \A i \in Ids : Share(s, i)' = Share(s, i) BY <1>1 DEF Share, At
  <2>4. \A i \in Ids : Pending(i)' = Pending(i) BY <2>3 DEF Pending
  <2> QED BY <2>2, <2>4
<1>14. LoadsFirst' BY <1>1 DEF LoadsFirst
<1>15. UnbornAreBlank'
  <2> SUFFICES ASSUME NEW i \in Ids, Unborn(i)'
               PROVE  /\ traded'[i] = 0 /\ db'[i].status \notin OpenStatus
                      /\ ~Alive(<<i, "created">>)' /\ ~Alive(<<i, "loaded">>)'
    BY DEF UnbornAreBlank
  <2>1. Unborn(i) BY <1>1 DEF Unborn, At
  <2>2. traded[i] = 0 /\ ~Open(i) BY <1>0, <2>1 DEF UnbornAreBlank
  <2>3. <<i, "loaded">>[1] = i /\ <<i, "created">>[2] = "created" OBVIOUS
  <2> HIDE DEF Open
  <2>4. ~Alive(<<i, "created">>)' /\ ~Alive(<<i, "loaded">>)' BY <1>5, <1>8, <2>2, <2>3
  <2>5. db[i].status \notin OpenStatus BY <2>2 DEF Open
  <2> QED BY <1>1, <2>2, <2>4, <2>5
<1>16. OneObject'
  <2>1. \A i \in Ids : <<i, "created">>[2] = "created" OBVIOUS
  <2> HIDE DEF Open
  <2> QED BY <1>5, <1>8, <2>1 DEF OneObject
<1>17. BookHoldsObjects' BY <1>10 DEF BookHoldsObjects, Alive
<1>18. CreatesOK' BY <1>1, <1>3 DEF CreatesOK, Idle
<1>19. ObjectsCover'
  <2> SUFFICES ASSUME NEW r \in Ref, Alive(r)'
               PROVE  /\ r[1] \in DOMAIN orders
                      /\ traded[r[1]] + Pending(r[1])' <= obj'[r].filled
                      /\ obj'[r].filled <= orders[r[1]].quantity
    BY <1>1 DEF ObjectsCover
  <2>1. r[2] = "loaded" /\ Open(r[1]) BY <1>8
  <2>2. r = <<r[1], "loaded">> BY <2>1 DEF Ref
  <2>3. obj'[r] = db[r[1]] BY <1>6, <2>1, <2>2
  <2>4. traded[r[1]] \in Nat BY <1>0, <2>1 DEF EngineTypes
  <2> QED BY <1>0, <1>13, <2>1, <2>3, <2>4 DEF OpenRowsCover
<1>20. OpenRowsCover' BY <1>0, <1>1 DEF OpenRowsCover
<1>21. NoOverfill' BY <1>0, <1>1 DEF NoOverfill
<1> QED BY <1>12, <1>14, <1>15, <1>16, <1>17, <1>18, <1>19, <1>20, <1>21 DEF FillInv

\* The rows are read, or cannot be; a restart.
LEMMA FillBoot ==
    ASSUME FillInv, InitializeOrderBooks \/ InitializeFails \/ Restart
    PROVE  FillInv'
<1>0. /\ EngineTypes /\ LoadsFirst /\ UnbornAreBlank /\ OneObject /\ BookHoldsObjects
      /\ CreatesOK /\ ObjectsCover /\ OpenRowsCover /\ NoOverfill
  BY DEF FillInv
<1>1. CASE InitializeOrderBooks \/ InitializeFails
  <2>1. /\ boot.pc = "find" /\ UNCHANGED <<orders, db, traded, obj, book, req, restarts>>
        /\ \/ boot' = [pc |-> "add", found |-> {<<i, db[i]>> : i \in {j \in Ids : db[j].status \in OpenStatus}}]
           \/ boot' = [pc |-> "ready", found |-> {}]
    BY <1>1 DEF InitializeOrderBooks, InitializeFails
  <2>2. {<<i, db[i]>> : i \in {j \in Ids : db[j].status \in OpenStatus}} \subseteq (Ids \X RowType)
    BY <1>0 DEF EngineTypes
  <2>3. EngineTypes' BY <1>0, <2>1, <2>2 DEF EngineTypes
  <2>4. LoadsFirst' BY <1>0, <2>1 DEF LoadsFirst, Alive
  <2>5. UnbornAreBlank' BY <1>0, <2>1 DEF UnbornAreBlank, Unborn, At, Alive
  <2>6. OneObject' BY <1>0, <2>1 DEF OneObject, Alive
  <2>7. BookHoldsObjects' BY <1>0, <2>1 DEF BookHoldsObjects, Alive
  <2>8. CreatesOK' BY <1>0, <2>1 DEF CreatesOK, CreateOK, Taker, Alive
  <2>9. ObjectsCover'
    <3>1. \A i : Pending(i)' = Pending(i) BY <2>1 DEF Pending, Share, At
    <3> QED BY <1>0, <2>1, <3>1 DEF ObjectsCover, Alive
  <2>10. OpenRowsCover' BY <1>0, <2>1 DEF OpenRowsCover
  <2>11. NoOverfill' BY <1>0, <2>1 DEF NoOverfill
  <2> QED BY <2>3, <2>4, <2>5, <2>6, <2>7, <2>8, <2>9, <2>10, <2>11 DEF FillInv
<1>2. CASE Restart
  <2>1. /\ obj' = [r \in Ref |-> Absent] /\ book' = [side \in OrderSide |-> <<>>]
        /\ boot' = [pc |-> "find", found |-> {}] /\ req' = [s \in Slots |-> Idle]
        /\ restarts' = restarts + 1 /\ UNCHANGED <<orders, db, traded>>
    BY <1>2 DEF Restart
  <2>2. Absent \in RowType /\ Absent.status = "ABSENT" BY DEF Absent, RowType, OrderStatus
  <2>3. Idle \in Call /\ Idle.op = "none"
    <3>1. MaxOrders \in Nat BY EngineAssumption
    <3> QED BY <2>2, <3>1 DEF Idle, Call, Places
  <2>4. book' \in [OrderSide -> Seq(Ref)] /\ \A side \in OrderSide : book'[side] = <<>> /\ DOMAIN book'[side] = {}
    BY <2>1, EmptySeq
  <2>5. EngineTypes' BY <1>0, <2>1, <2>2, <2>3, <2>4 DEF EngineTypes
  <2>6. \A r \in Ref : ~Alive(r)' BY <2>1, <2>2 DEF Alive
  <2>7. \A i \in Ids : <<i, "created">> \in Ref /\ <<i, "loaded">> \in Ref BY <1>0, OrderNumbers
  <2>8. LoadsFirst' BY <2>1, <2>4, <2>6 DEF LoadsFirst
  <2>9. UnbornAreBlank'
    <3>1. \A i \in Ids : Unborn(i)' => Unborn(i) BY <2>1, <2>3 DEF Unborn, At
    <3> QED BY <1>0, <2>1, <2>6, <2>7, <3>1 DEF UnbornAreBlank
  <2>10. OneObject' BY <2>6, <2>7 DEF OneObject
  <2>11. BookHoldsObjects' BY <2>4 DEF BookHoldsObjects
  <2>12. CreatesOK' BY <2>1, <2>3 DEF CreatesOK
  <2>13. ObjectsCover' BY <2>6 DEF ObjectsCover
  <2>14. OpenRowsCover' BY <1>0, <2>1 DEF OpenRowsCover
  <2>15. NoOverfill' BY <1>0, <2>1 DEF NoOverfill
  <2> QED BY <2>5, <2>8, <2>9, <2>10, <2>11, <2>12, <2>13, <2>14, <2>15 DEF FillInv
<1> QED BY <1>1, <1>2

\* Nothing changes.
LEMMA FillStutter == FillInv /\ UNCHANGED vars => FillInv'
<1> SUFFICES ASSUME FillInv, UNCHANGED vars PROVE FillInv'
  OBVIOUS
<1>1. UNCHANGED <<orders, db, traded, obj, book, boot, req, restarts>> BY DEF vars
<1>2. EngineTypes' BY <1>1 DEF FillInv, EngineTypes
<1>3. LoadsFirst' /\ UnbornAreBlank' BY <1>1 DEF FillInv, LoadsFirst, UnbornAreBlank, Unborn, At, Alive
<1>4. OneObject' /\ BookHoldsObjects' BY <1>1 DEF FillInv, OneObject, BookHoldsObjects, Alive
<1>5. CreatesOK' BY <1>1 DEF FillInv, CreatesOK, CreateOK, Taker, Alive
<1>6. ObjectsCover'
  <2>1. \A i : Pending(i)' = Pending(i) BY <1>1 DEF Pending, Share, At
  <2> QED BY <1>1, <2>1 DEF FillInv, ObjectsCover, Alive
<1>7. OpenRowsCover' /\ NoOverfill' BY <1>1 DEF FillInv, OpenRowsCover, NoOverfill
<1> QED BY <1>2, <1>3, <1>4, <1>5, <1>6, <1>7 DEF FillInv

\* Requests wait until initializeOrderBooks has loaded the books.  The service does not
\* make them wait; without it two objects of one order can be in the book at once.
RequestsWait == ~EarlyRequests

\* Every step keeps the invariant, ...
LEMMA FillNext ==
    ASSUME FillInv, RequestsWait, [Next]_vars
    PROVE  FillInv'
<1>0. ~EarlyRequests BY DEF RequestsWait
<1>1. ASSUME NEW s \in Slots, NEW dto \in Dtos, CreateOrder(s, dto) PROVE FillInv'
  <2>1. dto \in CreateOrderDto BY EngineAssumption
  <2> QED BY <1>0, <1>1, <2>1, FillCreate
<1>2. ASSUME NEW s \in Slots, CreateOrderInsert(s) PROVE FillInv' BY <1>2, FillInsert
<1>3. ASSUME NEW s \in Slots, MatchOrder(s) PROVE FillInv' BY <1>3, FillMatch
<1>4. ASSUME NEW s \in Slots, CreateOrderPersist(s) PROVE FillInv' BY <1>4, FillPersist
<1>5. ASSUME NEW s \in Slots, CreateOrderRest(s) PROVE FillInv' BY <1>5, FillRest
<1>6. ASSUME NEW s \in Slots,
             \/ \E id \in Ids : CancelOrder(s, id)
             \/ CancelOrderRemove(s) \/ CancelOrderSave(s)
             \/ \E ids \in SUBSET Expired : CleanupExpiredOrders(s, ids)
             \/ CleanupRemove(s) \/ CleanupSave(s) \/ HandlerFails(s)
      PROVE  FillInv'
  BY <1>0, <1>6, FillClose
<1>7. CASE InitializeOrderBooks \/ InitializeFails \/ Restart BY <1>7, FillBoot
<1>8. CASE AddLoadedOrders BY <1>8, FillLoad
<1>9. CASE UNCHANGED vars BY <1>9, FillStutter
<1> QED BY <1>1, <1>2, <1>3, <1>4, <1>5, <1>6, <1>7, <1>8, <1>9 DEF Next

\* ... those of requests that do not overlap among them.
LEMMA FillBookNext ==
    ASSUME FillInv, RequestsWait, BookNext
    PROVE  FillInv'
<1>0. ~EarlyRequests BY DEF RequestsWait
<1>1. ASSUME NEW s \in Slots, NEW dto \in LimitDtos, CreateOrder(s, dto) PROVE FillInv'
  <2>1. dto \in CreateOrderDto BY LimitAssumption
  <2> QED BY <1>0, <1>1, <2>1, FillCreate
<1>2. CASE Next BY <1>2, FillNext
<1> QED BY <1>1, <1>2 DEF BookNext, Next

\* The inductive invariant holds in every state of both parts.
THEOREM FillInvariant == ASSUME RequestsWait PROVE MCSpec => []FillInv
<1>1. FillInv /\ [MCNext]_<<vars, part>> => FillInv'
  BY FillNext, FillBookNext, FillStutter DEF MCNext
<1> QED BY <1>1, FillInit, PTL DEF MCSpec, MCInit

\* No order is traded for more than its quantity, with any number of handlers at any await
\* of createOrder, cancelOrder and cleanupExpiredOrders, with transactions that fail and
\* with restarts, once the books have been loaded before requests are served.
THEOREM NeverOverfilled == ASSUME RequestsWait PROVE MCSpec => []NoOverfill
<1>1. FillInv => NoOverfill BY DEF FillInv
<1> QED BY <1>1, FillInvariant, PTL
-----------------------------------------------------------------------------
(* The invariant of BookIsRight: requests that do not overlap *)

IsOpen(row) == row.status \in OpenStatus

\* Object r stands in a book.
Rests(r) == \E side \in OrderSide : \E k \in DOMAIN book[side] : book[side][k] = r

\* Handler s has an order in hand that is open in the table and not in the book.
Holds(s) == \/ req[s].op = "create" /\ req[s].pc \in {"match", "persist", "rest"}
            \/ req[s].op \in {"cancel", "expire"} /\ req[s].pc = "save"

\* Handler s has matched r and has not written it yet.
Matched(s, r) == At(s, "create", "persist") /\ r \in req[s].touched

\* All orders are priced limit orders.
AllPriced == \A i \in DOMAIN orders :
               orders[i].type = "LIMIT" /\ orders[i].price > 0 /\ orders[i].quantity > 0

\* At most one handler is in progress.
OneBusy == \A s, u \in Slots : req[s] # Idle /\ req[u] # Idle => s = u

\* An order stands on its side of the book, ...
OnItsSide == \A side \in OrderSide : \A k \in DOMAIN book[side] : Order(book[side][k]).side = side

\* ... is open, and as it is stored unless it was just matched, ...
RestingIsOpen ==
  \A side \in OrderSide : \A k \in DOMAIN book[side] :
    LET r == book[side][k]
    IN  /\ IsOpen(db[r[1]]) /\ IsOpen(obj[r])
        /\ (\A s \in Slots : ~Matched(s, r)) => obj[r] = db[r[1]]
        /\ \A s \in Slots : Holds(s) => req[s].id # r[1]

\* ... and all open orders are there but the one a handler has in hand and those just filled.
OpenRests ==
  boot.pc = "ready" =>
    \A i \in Ids : IsOpen(db[i]) =>
      \/ \E s \in Slots : Holds(s) /\ req[s].id = i
      \/ Rests(<<i, "created">>) \/ Rests(<<i, "loaded">>)
      \/ \E s \in Slots, r \in Ref : Matched(s, r) /\ r[1] = i /\ obj[r].status = "FILLED"

\* Bids and asks do not cross unless both were loaded, ...
Uncrossed ==
  \A j \in DOMAIN book["BUY"], k \in DOMAIN book["SELL"] :
    LET b == book["BUY"][j]
        a == book["SELL"][k]
    IN  Order(b).price < Order(a).price \/ (b[2] = "loaded" /\ a[2] = "loaded")

\* ... and a taker with a rest has left nothing that it could trade with.
Exhausted(s) ==
  IsOpen(obj[Taker(s)]) =>
    \A k \in DOMAIN book[Opposite(Order(Taker(s)).side)] :
      ~Crosses(Taker(s), book[Opposite(Order(Taker(s)).side)][k])

\* What a handler relies on at each of its awaits.
WrittenNext(r, s) ==
  /\ IsOpen(obj[r]) \/ obj[r].status = "FILLED"
  /\ obj[r].filled = db[r[1]].filled + req[s].fills[r[1]]

CreateFine(s) ==
  /\ req[s].id = Len(orders)
  /\ req[s].pc # "insert" => IsOpen(obj[Taker(s)]) \/ obj[Taker(s)].status = "FILLED"
  /\ req[s].pc = "match" => /\ db[req[s].id] = [status |-> "OPEN", filled |-> 0]
                            /\ obj[Taker(s)] = db[req[s].id]
  /\ req[s].pc = "persist" =>
       /\ WrittenNext(Taker(s), s) /\ Taker(s) \notin req[s].touched
       /\ \A r \in req[s].touched : /\ WrittenNext(r, s) /\ r[1] # req[s].id
                                    /\ IsOpen(obj[r]) => Rests(r)
  /\ req[s].pc = "rest" => obj[Taker(s)] = db[req[s].id]
  /\ req[s].pc \in {"persist", "rest"} => Exhausted(s)

CloseFine(s) ==
  /\ req[s].pc \in {"remove", "save"}
  /\ req[s].op = "cancel" => req[s].todo = {}
  /\ req[s].op = "cancel" \/ req[s].pc = "save" =>
       req[s].id \in Ids /\ req[s].row = db[req[s].id] /\ IsOpen(req[s].row)
  /\ \A x \in req[s].todo : /\ x[2] = db[x[1]] /\ IsOpen(x[2])
                            /\ req[s].pc = "save" => x[1] # req[s].id

HandlersFine ==
  \A s \in Slots : \/ req[s] = Idle
                   \/ req[s].op = "create" /\ CreateFine(s)
                   \/ req[s].op \in {"cancel", "expire"} /\ CloseFine(s)

BookInv == /\ AllPriced /\ OneBusy /\ OnItsSide /\ RestingIsOpen /\ OpenRests /\ Uncrossed
           /\ PriceTimePriority /\ HandlersFine /\ TradesMatchFills

\* What is in the hand of handler s, when no other is in progress.
RestFine(s) ==
  \A side \in OrderSide : \A k \in DOMAIN book[side] :
    LET r == book[side][k]
    IN  /\ IsOpen(db[r[1]]) /\ IsOpen(obj[r])
        /\ ~Matched(s, r) => obj[r] = db[r[1]]
        /\ Holds(s) => req[s].id # r[1]

OpenFine(s) ==
  \A i \in Ids : IsOpen(db[i]) =>
    \/ Holds(s) /\ req[s].id = i
    \/ Rests(<<i, "created">>) \/ Rests(<<i, "loaded">>)
    \/ \E r \in Ref : Matched(s, r) /\ r[1] = i /\ obj[r].status = "FILLED"

HandlerFine(s) ==
  \/ req[s] = Idle
  \/ req[s].op = "create" /\ CreateFine(s)
  \/ req[s].op \in {"cancel", "expire"} /\ CloseFine(s)

\* A handler that starts or goes on while the others are idle.
OneMoves(s) == Undisturbed(s) /\ \A u \in Slots : u # s => req'[u] = req[u]

\* The others have nothing in hand.
LEMMA OthersIdle ==
    ASSUME NEW s \in Slots, OneMoves(s)
    PROVE  /\ \A u \in Slots : u # s => ~Holds(u) /\ \A r : ~Matched(u, r)
           /\ \A u \in Slots : u # s => ~Holds(u)' /\ \A r : ~Matched(u, r)'
           /\ \A u \in Slots : u # s => req[u] = Idle /\ req'[u] = Idle
<1>1. \A u \in Slots : u # s => req[u] = Idle /\ req'[u] = Idle BY DEF OneMoves, Undisturbed
<1>2. Idle.op = "none" BY DEF Idle
<1> QED BY <1>1, <1>2 DEF Holds, Matched, At

\* What the invariant says then, ...
LEMMA BookOfOne ==
    ASSUME BookInv, NEW s \in Slots, OneMoves(s), boot.pc = "ready"
    PROVE  RestFine(s) /\ OpenFine(s) /\ HandlerFine(s)
<1>1. \A u \in Slots : u # s => ~Holds(u) /\ \A r : ~Matched(u, r) BY OthersIdle
<1>2. RestFine(s) BY <1>1 DEF BookInv, RestingIsOpen, RestFine
<1>3. OpenFine(s) BY <1>1 DEF BookInv, OpenRests, OpenFine
<1>4. HandlerFine(s) BY DEF BookInv, HandlersFine, HandlerFine
<1> QED BY <1>2, <1>3, <1>4

\* ... and what a step has to show.
LEMMA BookAfterOne ==
    ASSUME NEW s \in Slots, OneMoves(s),
           AllPriced', OnItsSide', Uncrossed', PriceTimePriority', TradesMatchFills',
           RestFine(s)', OpenFine(s)', HandlerFine(s)'
    PROVE  BookInv'
<1>1. \A u \in Slots : u # s => ~Holds(u)' /\ (\A r : ~Matched(u, r)') /\ req'[u] = Idle BY OthersIdle
<1>2. RestingIsOpen' BY <1>1 DEF RestingIsOpen, RestFine
<1>3. OpenRests' BY <1>1 DEF OpenRests, OpenFine
<1>4. HandlersFine' BY <1>1 DEF HandlersFine, HandlerFine
<1>5. OneBusy' BY <1>1 DEF OneBusy
<1> QED BY <1>2, <1>3, <1>4, <1>5 DEF BookInv

\* Entry a may stand before b, and a queue stands in order.
MayPrecede(side, a, b) ==
  \/ side = "BUY" /\ Order(a).price > Order(b).price
  \/ side = "SELL" /\ Order(a).price < Order(b).price
  \/ Order(a).price = Order(b).price /\ (a[1] < b[1] \/ (a[2] = "loaded" /\ b[2] = "loaded"))
InOrder(side, q) == \A i, j \in DOMAIN q : i < j => MayPrecede(side, q[i], q[j])

\* Price-time priority is the order of both books.
LEMMA PriorityIs ==
    /\ PriceTimePriority <=> \A side \in OrderSide : InOrder(side, book[side])
    /\ PriceTimePriority' <=> \A side \in OrderSide : InOrder(side, book[side])'
  BY DEF PriceTimePriority, InOrder, MayPrecede

\* q holds entries of p, in the order of p.
PartOf(q, p) ==
  \E f \in [DOMAIN q -> DOMAIN p] : /\ \A j, k \in DOMAIN q : j < k => f[j] < f[k]
                                    /\ \A k \in DOMAIN q : q[k] = p[f[k]]

\* A queue is a part of itself.
LEMMA PartOfItself == ASSUME NEW q PROVE PartOf(q, q)
<1> DEFINE f == [k \in DOMAIN q |-> k]
<1>1. f \in [DOMAIN q -> DOMAIN q] OBVIOUS
<1>2. /\ \A j, k \in DOMAIN q : j < k => f[j] < f[k]
      /\ \A k \in DOMAIN q : q[k] = q[f[k]]
  OBVIOUS
<1> HIDE DEF f
<1> QED BY <1>1, <1>2 DEF PartOf

\* Books that only lose entries stay in order and uncrossed.
LEMMA PartsKeepOrder ==
    ASSUME OnItsSide, PriceTimePriority, Uncrossed, orders' = orders,
           \A side \in OrderSide : PartOf(book'[side], book[side])
    PROVE  OnItsSide' /\ PriceTimePriority' /\ Uncrossed'
<1>0. \A r : Order(r)' = Order(r) BY DEF Order
<1>1. ASSUME NEW side \in OrderSide, NEW k \in DOMAIN book'[side]
      PROVE  \E j \in DOMAIN book[side] : book'[side][k] = book[side][j]
  BY DEF PartOf
<1>2. OnItsSide' BY <1>0, <1>1 DEF OnItsSide
<1>3. Uncrossed'
  <2> SUFFICES ASSUME NEW j \in DOMAIN book'["BUY"], NEW k \in DOMAIN book'["SELL"]
               PROVE  \/ Order(book'["BUY"][j]).price < Order(book'["SELL"][k]).price
                      \/ book'["BUY"][j][2] = "loaded" /\ book'["SELL"][k][2] = "loaded"
    BY <1>0 DEF Uncrossed
  <2>1. "BUY" \in OrderSide /\ "SELL" \in OrderSide BY DEF OrderSide
  <2>2. PICK m \in DOMAIN book["BUY"] : book'["BUY"][j] = book["BUY"][m] BY <1>1, <2>1
  <2>3. PICK n \in DOMAIN book["SELL"] : book'["SELL"][k] = book["SELL"][n] BY <1>1, <2>1
  <2> QED BY <2>2, <2>3 DEF Uncrossed
<1>4. PriceTimePriority'
  <2> SUFFICES ASSUME NEW side \in OrderSide, NEW i \in DOMAIN book'[side], NEW j \in DOMAIN book'[side],
                      i < j
               PROVE  MayPrecede(side, book'[side][i], book'[side][j])
    <3>1. \A side, a, b : MayPrecede(side, a, b)' = MayPrecede(side, a, b) BY <1>0 DEF MayPrecede
    <3> QED BY <3>1, PriorityIs DEF InOrder
  <2>1. PICK f \in [DOMAIN book'[side] -> DOMAIN book[side]] :
           /\ \A m, n \in DOMAIN book'[side] : m < n => f[m] < f[n]
           /\ \A k \in DOMAIN book'[side] : book'[side][k] = book[side][f[k]]
    BY DEF PartOf
  <2>2. InOrder(side, book[side]) BY PriorityIs
  <2>3. f[i] < f[j] /\ f[i] \in DOMAIN book[side] /\ f[j] \in DOMAIN book[side] BY <2>1
  <2>4. MayPrecede(side, book[side][f[i]], book[side][f[j]]) BY <2>2, <2>3 DEF InOrder
  <2> QED BY <2>1, <2>4
<1> QED BY <1>2, <1>3, <1>4

\* Nothing rests at the start.
LEMMA BookInit == Init => BookInv
<1> SUFFICES ASSUME Init PROVE BookInv
  OBVIOUS
<1>1. orders = <<>> /\ DOMAIN orders = {} BY DEF Init
<1>2. \A side \in OrderSide : book[side] = <<>> /\ DOMAIN book[side] = {} BY DEF Init
<1>3. "BUY" \in OrderSide BY DEF OrderSide
<1>4. \A s \in Slots : req[s] = Idle BY DEF Init
<1>5. AllPriced BY <1>1 DEF AllPriced
<1>6. OneBusy BY <1>4 DEF OneBusy
<1>7. OnItsSide /\ RestingIsOpen BY <1>2 DEF OnItsSide, RestingIsOpen
<1>8. OpenRests BY DEF Init, OpenRests
<1>9. Uncrossed BY <1>2, <1>3 DEF Uncrossed
<1>10. PriceTimePriority BY <1>2 DEF PriceTimePriority
<1>11. HandlersFine BY <1>4 DEF HandlersFine
<1>12. TradesMatchFills BY DEF Init, TradesMatchFills, Absent
<1> QED BY <1>5, <1>6, <1>7, <1>8, <1>9, <1>10, <1>11, <1>12 DEF BookInv

\* The entries of the books.
LEMMA EntryIs ==
    ASSUME FillInv, NEW side \in OrderSide, NEW k \in DOMAIN book[side]
    PROVE  /\ book[side][k] \in Ref /\ Alive(book[side][k])
           /\ book[side][k][1] \in DOMAIN orders /\ book[side][k][1] \in Ids
<1>1. SoundQueue(book[side]) BY QueueIs
<1>2. EngineTypes BY DEF FillInv
<1> QED BY <1>1, <1>2, OrderNumbers DEF SoundQueue

\* A new limit order.
LEMMA BookCreate ==
    ASSUME FillInv, BookInv, ~EarlyRequests, NEW s \in Slots, Undisturbed(s),
           NEW dto \in LimitDtos, CreateOrder(s, dto)
    PROVE  BookInv'
<1>0. EngineTypes /\ Len(orders) \in Nat /\ DOMAIN orders = 1..Len(orders) BY OrderNumbers DEF FillInv
<1> DEFINE n == Len(orders) + 1
           c == [Idle EXCEPT !.op = "create", !.pc = "insert", !.id = n]
<1>1. /\ req[s] = Idle /\ boot.pc = "ready" /\ dto.price # 0
      /\ orders' = Append(orders, dto) /\ req' = [req EXCEPT ![s] = c]
      /\ UNCHANGED <<db, traded, obj, book, boot, restarts>>
  BY LimitAssumption DEF CreateOrder, Serving
<1>2. dto \in CreateOrderDto /\ dto.type = "LIMIT" /\ dto.price > 0 /\ dto.quantity > 0
  BY <1>1, LimitAssumption DEF CreateOrderDto
<1>3. /\ Len(orders') = n /\ DOMAIN orders' = 1..n /\ orders'[n] = dto
      /\ \A i \in DOMAIN orders : orders'[i] = orders[i]
  <2>1. orders \in Seq(CreateOrderDto) BY <1>0 DEF EngineTypes
  <2>2. /\ orders' \in Seq(CreateOrderDto) /\ Len(orders') = Len(orders) + 1
        /\ \A i \in 1..Len(orders) : orders'[i] = orders[i] /\ orders'[Len(orders) + 1] = dto
    BY <1>1, <1>2, <2>1, AppendProperties
  <2>3. DOMAIN orders' = 1..Len(orders') BY <2>2, LenProperties
  <2>4. orders'[Len(orders) + 1] = dto BY <1>1, <1>2, <2>1, AppendProperties
  <2> QED BY <1>0, <2>2, <2>3, <2>4
<1>4. c.op = "create" /\ c.pc = "insert" /\ c.id = n BY DEF Idle
<1> HIDE DEF c
<1>5. req'[s] = c /\ \A u \in Slots : u # s => req'[u] = req[u] BY <1>0, <1>1 DEF EngineTypes
<1>6. OneMoves(s) BY <1>5 DEF OneMoves
<1>7. RestFine(s) /\ OpenFine(s) BY <1>1, <1>6, BookOfOne
<1>8. ~Holds(s) /\ ~Holds(s)' /\ \A r : ~Matched(s, r) /\ ~Matched(s, r)'
  <2>1. Idle.op = "none" BY DEF Idle
  <2> QED BY <1>1, <1>4, <1>5, <2>1 DEF Holds, Matched, At
<1>9. \A side \in OrderSide : \A k \in DOMAIN book[side] :
         Order(book[side][k])' = Order(book[side][k])
  BY <1>1, <1>3, EntryIs DEF Order
<1>10. AllPriced'
  <2>1. \A i \in DOMAIN orders' : i \in DOMAIN orders \/ i = n BY <1>0, <1>3
  <2> QED BY <1>2, <1>3, <2>1 DEF BookInv, AllPriced
<1>11. OnItsSide' BY <1>1, <1>9 DEF BookInv, OnItsSide
<1>12. Uncrossed'
  <2>1. "BUY" \in OrderSide /\ "SELL" \in OrderSide BY DEF OrderSide
  <2> QED BY <1>1, <1>9, <2>1 DEF BookInv, Uncrossed
<1>13. PriceTimePriority'
  <2> SUFFICES ASSUME NEW side \in OrderSide, NEW i \in DOMAIN book[side], NEW j \in DOMAIN book[side],
                      i < j
               PROVE  MayPrecede(side, book[side][i], book[side][j])'
    BY <1>1, PriorityIs DEF InOrder
  <2>1. InOrder(side, book[side]) BY PriorityIs DEF BookInv
  <2>2. MayPrecede(side, book[side][i], book[side][j]) BY <2>1 DEF InOrder
  <2> QED BY <1>1, <1>9, <2>2 DEF MayPrecede
<1>14. TradesMatchFills' BY <1>1 DEF BookInv, TradesMatchFills
<1>15. RestFine(s)' BY <1>1, <1>7, <1>8 DEF RestFine
<1>16. OpenFine(s)' BY <1>1, <1>7, <1>8 DEF OpenFine, Rests
<1>17. HandlerFine(s)' BY <1>3, <1>4, <1>5 DEF HandlerFine, CreateFine
<1> QED BY <1>6, <1>10, <1>11, <1>12, <1>13, <1>14, <1>15, <1>16, <1>17, BookAfterOne

\* The first save of an order.
LEMMA BookInsert ==
    ASSUME FillInv, BookInv, NEW s \in Slots, Undisturbed(s), CreateOrderInsert(s)
    PROVE  BookInv'
<1>0. EngineTypes /\ LoadsFirst /\ UnbornAreBlank /\ CreatesOK BY DEF FillInv
<1> DEFINE id == req[s].id
           row == [status |-> "OPEN", filled |-> 0]
           c == [req[s] EXCEPT !.pc = "match"]
<1>1. /\ At(s, "create", "insert")
      /\ db' = [db EXCEPT ![id] = row]
      /\ obj' = [obj EXCEPT ![Taker(s)] = row]
      /\ req' = [req EXCEPT ![s] = c]
      /\ UNCHANGED <<orders, traded, book, boot, restarts>>
  BY DEF CreateOrderInsert, Goto, Taker
<1>2. CreateOK(s) /\ boot.pc = "ready" BY <1>0, <1>1, BusyIsReady DEF CreatesOK, At
<1>3. id \in DOMAIN orders /\ id \in Ids /\ Taker(s) \in Ref /\ Taker(s)[1] = id
  BY <1>0, <1>2, OrderNumbers DEF CreateOK, Taker
<1>4. req[s] \in Call BY <1>0 DEF EngineTypes
<1>5. c.op = "create" /\ c.pc = "match" /\ c.id = id BY <1>1, <1>4 DEF At, Call
<1> HIDE DEF c
<1>6. req'[s] = c /\ \A u \in Slots : u # s => req'[u] = req[u] BY <1>0, <1>1 DEF EngineTypes
<1>7. OneMoves(s) BY <1>6 DEF OneMoves
<1>8. RestFine(s) /\ OpenFine(s) /\ HandlerFine(s) BY <1>2, <1>7, BookOfOne
<1>9. ~Holds(s) /\ Holds(s)' /\ \A r : ~Matched(s, r) /\ ~Matched(s, r)'
  BY <1>1, <1>5, <1>6 DEF Holds, Matched, At
<1>10. /\ db'[id] = row /\ \A i \in Ids : i # id => db'[i] = db[i]
       /\ obj'[Taker(s)] = row /\ \A r \in Ref : r # Taker(s) => obj'[r] = obj[r]
  BY <1>0, <1>1, <1>3 DEF EngineTypes
<1>11. \A side \in OrderSide : \A k \in DOMAIN book[side] :
          book[side][k] \in Ref /\ book[side][k][1] \in Ids /\ book[side][k][1] # id
  BY <1>2, EntryIs DEF CreateOK
<1>12. AllPriced' BY <1>1 DEF BookInv, AllPriced
<1>13. OnItsSide' /\ PriceTimePriority' /\ Uncrossed'
  <2>1. \A side \in OrderSide : PartOf(book'[side], book[side]) BY <1>1, PartOfItself
  <2> QED BY <1>1, <2>1, PartsKeepOrder DEF BookInv
<1>14. TradesMatchFills'
  <2>1. traded[id] = 0 BY <1>0, <1>1, <1>3 DEF UnbornAreBlank, Unborn
  <2> QED BY <1>1, <1>10, <2>1 DEF BookInv, TradesMatchFills
<1>15. RestFine(s)'
  <2> SUFFICES ASSUME NEW side \in OrderSide, NEW k \in DOMAIN book[side], NEW r, r = book[side][k]
               PROVE  /\ IsOpen(db'[r[1]]) /\ IsOpen(obj'[r]) /\ obj'[r] = db'[r[1]] /\ r[1] # c.id
    BY <1>1, <1>6 DEF RestFine, IsOpen
  <2>1. r \in Ref /\ r[1] \in Ids /\ r[1] # id /\ r # Taker(s) BY <1>3, <1>11
  <2>2. db'[r[1]] = db[r[1]] /\ obj'[r] = obj[r] BY <1>10, <2>1
  <2> QED BY <1>5, <1>8, <1>9, <2>1, <2>2 DEF RestFine
<1>16. OpenFine(s)'
  <2> SUFFICES ASSUME NEW i \in Ids, IsOpen(db'[i]), i # id
               PROVE  Rests(<<i, "created">>) \/ Rests(<<i, "loaded">>)
    BY <1>1, <1>5, <1>6, <1>9 DEF OpenFine, IsOpen, Rests
  <2>1. db'[i] = db[i] BY <1>10
  <2> QED BY <1>8, <1>9, <2>1 DEF OpenFine
<1>17. HandlerFine(s)'
  <2>1. id = Len(orders)
    <3>1. req[s] # Idle /\ req[s].op = "create" BY <1>1 DEF At, Idle
    <3> QED BY <1>8, <3>1 DEF HandlerFine, CreateFine
  <2>2. Taker(s)' = Taker(s) BY <1>5, <1>6 DEF Taker
  <2>3. IsOpen(row) /\ row.status = "OPEN" BY DEF IsOpen, OpenStatus
  <2> QED BY <1>1, <1>5, <1>6, <1>10, <2>1, <2>2, <2>3 DEF HandlerFine, CreateFine, IsOpen
<1> QED BY <1>7, <1>12, <1>13, <1>14, <1>15, <1>16, <1>17, BookAfterOne

\* removeFromOrderBook takes one order out of both books.
LEMMA TakenOut ==
    ASSUME FillInv, OnItsSide, NEW id \in DOMAIN orders,
           book' = [book EXCEPT ![orders[id].side] = Without(@, id)]
    PROVE  \A d \in OrderSide :
             /\ PartOf(book'[d], book[d])
             /\ \A k \in DOMAIN book'[d] : book'[d][k][1] # id
             /\ \A j \in DOMAIN book[d] :
                  book[d][j][1] # id => \E k \in DOMAIN book'[d] : book'[d][k] = book[d][j]
<1>0. EngineTypes BY DEF FillInv
<1>1. PICK side \in OrderSide : side = orders[id].side BY <1>0, OrderNumbers DEF CreateOrderDto
<1>2. book[side] \in Seq(Ref) /\ DOMAIN book = OrderSide BY <1>0 DEF EngineTypes
<1>3. PICK q : q = Without(book[side], id) OBVIOUS
<1>4. book'[side] = q /\ \A d \in OrderSide : d # side => book'[d] = book[d] BY <1>1, <1>2, <1>3
<1>5. /\ \E f \in [DOMAIN q -> DOMAIN book[side]] :
           /\ \A j, k \in DOMAIN q : j < k => f[j] < f[k]
           /\ \A k \in DOMAIN q : q[k] = book[side][f[k]]
      /\ \A k \in DOMAIN q : q[k][1] # id
      /\ \A j \in DOMAIN book[side] : book[side][j][1] # id => \E k \in DOMAIN q : q[k] = book[side][j]
  BY <1>2, <1>3, WithoutPart
<1>6. PartOf(q, book[side]) BY <1>5 DEF PartOf
<1> SUFFICES ASSUME NEW d \in OrderSide
             PROVE  /\ PartOf(book'[d], book[d])
                    /\ \A k \in DOMAIN book'[d] : book'[d][k][1] # id
                    /\ \A j \in DOMAIN book[d] :
                         book[d][j][1] # id => \E k \in DOMAIN book'[d] : book'[d][k] = book[d][j]
  OBVIOUS
<1>7. CASE d = side BY <1>4, <1>5, <1>6, <1>7
<1>8. CASE d # side
  <2>1. book'[d] = book[d] BY <1>4, <1>8
  <2>2. \A k \in DOMAIN book[d] : book[d][k][1] # id BY <1>1, <1>8 DEF OnItsSide, Order
  <2> QED BY <2>1, <2>2, PartOfItself
<1> QED BY <1>7, <1>8

\* A handler that closes an order starts, ...
LEMMA CloseStarts ==
    ASSUME FillInv, BookInv, NEW s \in Slots, OneMoves(s), req[s] = Idle, boot.pc = "ready",
           req'[s].op \in {"cancel", "expire"}, req'[s].pc = "remove", CloseFine(s)',
           UNCHANGED <<orders, db, traded, obj, book>>
    PROVE  BookInv'
<1>1. RestFine(s) /\ OpenFine(s) BY BookOfOne
<1>2. ~Holds(s) /\ ~Holds(s)' /\ \A r : ~Matched(s, r) /\ ~Matched(s, r)'
  <2>1. Idle.op = "none" BY DEF Idle
  <2> QED BY <2>1 DEF Holds, Matched, At
<1>3. AllPriced' BY DEF BookInv, AllPriced
<1>4. OnItsSide' /\ PriceTimePriority' /\ Uncrossed'
  <2>1. \A side \in OrderSide : PartOf(book'[side], book[side]) BY PartOfItself
  <2> QED BY <2>1, PartsKeepOrder DEF BookInv
<1>5. TradesMatchFills' BY DEF BookInv, TradesMatchFills
<1>6. RestFine(s)' BY <1>1, <1>2 DEF RestFine
<1>7. OpenFine(s)' BY <1>1, <1>2 DEF OpenFine, Rests
<1>8. HandlerFine(s)' BY DEF HandlerFine
<1> QED BY <1>3, <1>4, <1>5, <1>6, <1>7, <1>8, BookAfterOne

\* ... takes it out of the book, ...
LEMMA CloseRemoves ==
    ASSUME FillInv, BookInv, NEW s \in Slots, OneMoves(s), boot.pc = "ready",
           req[s].op \in {"cancel", "expire"}, req[s].pc = "remove",
           NEW id \in Ids, IsOpen(db[id]),
           book' = [book EXCEPT ![orders[id].side] = Without(@, id)],
           req'[s].op \in {"cancel", "expire"}, req'[s].pc = "save", req'[s].id = id,
           CloseFine(s)', UNCHANGED <<orders, db, traded, obj>>
    PROVE  BookInv'
<1>0. EngineTypes /\ OpenRowsCover BY DEF FillInv
<1>1. RestFine(s) /\ OpenFine(s) BY BookOfOne
<1>2. ~Holds(s) /\ Holds(s)' /\ \A r : ~Matched(s, r) /\ ~Matched(s, r)'
  BY DEF Holds, Matched, At
<1>3. id \in DOMAIN orders BY <1>0 DEF OpenRowsCover, IsOpen
<1>4. \A d \in OrderSide :
        /\ PartOf(book'[d], book[d])
        /\ \A k \in DOMAIN book'[d] : book'[d][k][1] # id
        /\ \A j \in DOMAIN book[d] :
             book[d][j][1] # id => \E k \in DOMAIN book'[d] : book'[d][k] = book[d][j]
  BY <1>3, TakenOut DEF BookInv
<1>5. AllPriced' BY DEF BookInv, AllPriced
<1>6. OnItsSide' /\ PriceTimePriority' /\ Uncrossed' BY <1>4, PartsKeepOrder DEF BookInv
<1>7. TradesMatchFills' BY DEF BookInv, TradesMatchFills
<1>8. RestFine(s)'
  <2> SUFFICES ASSUME NEW d \in OrderSide, NEW k \in DOMAIN book'[d], NEW r, r = book'[d][k]
               PROVE  IsOpen(db[r[1]]) /\ IsOpen(obj[r]) /\ obj[r] = db[r[1]] /\ r[1] # id
    BY DEF RestFine
  <2>1. PICK j \in DOMAIN book[d] : r = book[d][j] BY <1>4 DEF PartOf
  <2> QED BY <1>1, <1>2, <1>4, <2>1 DEF RestFine
<1>9. OpenFine(s)'
  <2> SUFFICES ASSUME NEW i \in Ids, IsOpen(db[i]), i # id
               PROVE  Rests(<<i, "created">>)' \/ Rests(<<i, "loaded">>)'
    BY <1>2 DEF OpenFine
  <2>1. PICK r \in {<<i, "created">>, <<i, "loaded">>} : Rests(r) BY <1>1, <1>2 DEF OpenFine
  <2>2. PICK d \in OrderSide : \E j \in DOMAIN book[d] : book[d][j] = r BY <2>1 DEF Rests
  <2>3. r[1] # id BY <2>1
  <2>4. \E k \in DOMAIN book'[d] : book'[d][k] = r BY <1>4, <2>2, <2>3
  <2> QED BY <2>1, <2>4 DEF Rests
<1>10. HandlerFine(s)' BY DEF HandlerFine
<1> QED BY <1>5, <1>6, <1>7, <1>8, <1>9, <1>10, BookAfterOne

\* ... and writes its row.
LEMMA CloseSaves ==
    ASSUME FillInv, BookInv, NEW s \in Slots, OneMoves(s), boot.pc = "ready",
           req[s].op \in {"cancel", "expire"}, req[s].pc = "save",
           NEW st \in {"CANCELLED", "EXPIRED"},
           db' = [db EXCEPT ![req[s].id] = [req[s].row EXCEPT !.status = st]],
           \/ req'[s] = Idle
           \/ req[s].op = "expire" /\ req'[s] = [req[s] EXCEPT !.pc = "remove"],
           UNCHANGED <<orders, traded, obj, book>>
    PROVE  BookInv'
<1>0. EngineTypes /\ req[s] \in Call BY DEF FillInv, EngineTypes
<1>1. RestFine(s) /\ OpenFine(s) /\ HandlerFine(s) BY BookOfOne
<1>2. CloseFine(s)
  <2>1. req[s] # Idle BY DEF Idle
  <2> QED BY <1>1, <2>1 DEF HandlerFine
<1>3. Holds(s) /\ \A r : ~Matched(s, r) BY DEF Holds, Matched, At
<1>4. PICK id \in Ids : id = req[s].id /\ req[s].row = db[id] BY <1>2 DEF CloseFine
<1>5. ~Holds(s)' /\ \A r : ~Matched(s, r)'
  <2>1. Idle.op = "none" BY DEF Idle
  <2>2. req'[s] = Idle \/ (req'[s].op = "expire" /\ req'[s].pc = "remove") BY <1>0 DEF Call
  <2> QED BY <2>1, <2>2 DEF Holds, Matched, At
<1>6. /\ db'[id].filled = db[id].filled /\ ~IsOpen(db'[id])
      /\ \A i \in Ids : i # id => db'[i] = db[i]
  <2>1. PICK row \in RowType : row = db[id] BY <1>0 DEF EngineTypes
  <2>2. db'[id] = [row EXCEPT !.status = st] BY <1>0, <1>4, <2>1 DEF EngineTypes
  <2>3. db'[id].status = st /\ db'[id].filled = row.filled BY <2>2 DEF RowType
  <2>4. st \notin OpenStatus BY DEF OpenStatus
  <2> QED BY <1>0, <1>4, <2>1, <2>3, <2>4 DEF EngineTypes, IsOpen
<1>7. AllPriced' BY DEF BookInv, AllPriced
<1>8. OnItsSide' /\ PriceTimePriority' /\ Uncrossed'
  <2>1. \A side \in OrderSide : PartOf(book'[side], book[side]) BY PartOfItself
  <2> QED BY <2>1, PartsKeepOrder DEF BookInv
<1>9. TradesMatchFills' BY <1>6 DEF BookInv, TradesMatchFills
<1>10. RestFine(s)'
  <2> SUFFICES ASSUME NEW side \in OrderSide, NEW k \in DOMAIN book[side], NEW r, r = book[side][k]
               PROVE  IsOpen(db'[r[1]]) /\ IsOpen(obj[r]) /\ obj[r] = db'[r[1]]
    BY <1>5 DEF RestFine, IsOpen
  <2>1. r[1] \in Ids BY EntryIs
  <2> QED BY <1>1, <1>3, <1>4, <1>6, <2>1 DEF RestFine
<1>11. OpenFine(s)'
  <2> SUFFICES ASSUME NEW i \in Ids, IsOpen(db'[i])
               PROVE  Rests(<<i, "created">>) \/ Rests(<<i, "loaded">>)
    BY DEF OpenFine, IsOpen, Rests
  <2>1. i # id /\ db'[i] = db[i] BY <1>6
  <2> QED BY <1>1, <1>3, <1>4, <2>1 DEF OpenFine
<1>12. HandlerFine(s)'
  <2>1. CASE req'[s] = Idle BY <2>1 DEF HandlerFine
  <2>2. CASE req[s].op = "expire" /\ req'[s] = [req[s] EXCEPT !.pc = "remove"]
    <3>1. req'[s].op = "expire" /\ req'[s].pc = "remove" /\ req'[s].todo = req[s].todo BY <1>0, <2>2 DEF Call
    <3>2. \A x \in req[s].todo : x[1] \in Ids /\ x[1] # id /\ x[2] = db[x[1]] /\ IsOpen(x[2])
      BY <1>0, <1>2, <1>4 DEF CloseFine, Call
    <3>3. \A x \in req[s].todo : x[2] = db'[x[1]] BY <1>6, <3>2
    <3> QED BY <3>1, <3>2, <3>3 DEF HandlerFine, CloseFine, IsOpen
  <2> QED BY <2>1, <2>2
<1> QED BY <1>7, <1>8, <1>9, <1>10, <1>11, <1>12, BookAfterOne

\* cancelOrder and cleanupExpiredOrders.
LEMMA BookClose ==
    ASSUME FillInv, BookInv, ~EarlyRequests, NEW s \in Slots, Undisturbed(s),
           \/ \E id \in Ids : CancelOrder(s, id)
           \/ CancelOrderRemove(s) \/ CancelOrderSave(s)
           \/ \E ids \in SUBSET Expired : CleanupExpiredOrders(s, ids)
           \/ CleanupRemove(s) \/ CleanupSave(s)
    PROVE  BookInv'
<1>0. EngineTypes /\ LoadsFirst /\ OpenRowsCover /\ req[s] \in Call /\ DOMAIN req = Slots
  BY DEF FillInv, EngineTypes
<1>1. Idle.op = "none" /\ Idle.todo = {} /\ Idle.pc = "idle" BY DEF Idle
<1>2. \A c : req' = [req EXCEPT ![s] = c] => req'[s] = c /\ OneMoves(s) BY <1>0 DEF OneMoves
<1>3. req[s].pc # "idle" => boot.pc = "ready" BY <1>0, BusyIsReady
<1>4. req[s].op \in {"cancel", "expire"} => CloseFine(s)
  BY <1>1 DEF BookInv, HandlersFine
<1>5. CASE \E id \in Ids : CancelOrder(s, id)
  <2>1. PICK id \in Ids : CancelOrder(s, id) BY <1>5
  <2> DEFINE c == [Idle EXCEPT !.op = "cancel", !.pc = "remove", !.id = id, !.row = db[id]]
  <2>2. /\ req[s] = Idle /\ boot.pc = "ready" /\ IsOpen(db[id]) /\ req' = [req EXCEPT ![s] = c]
        /\ UNCHANGED <<orders, db, traded, obj, book>>
    BY <2>1 DEF CancelOrder, Serving, IsOpen
  <2>3. c.op = "cancel" /\ c.pc = "remove" /\ c.id = id /\ c.row = db[id] /\ c.todo = {} BY DEF Idle
  <2> HIDE DEF c
  <2>4. req'[s] = c /\ OneMoves(s) BY <1>2, <2>2
  <2>5. CloseFine(s)' BY <2>2, <2>3, <2>4 DEF CloseFine, IsOpen
  <2> QED BY <2>2, <2>3, <2>4, <2>5, CloseStarts
<1>6. CASE CancelOrderRemove(s)
  <2>1. /\ At(s, "cancel", "remove") /\ UNCHANGED <<orders, db, traded, obj, boot, restarts>>
        /\ book' = [book EXCEPT ![orders[req[s].id].side] = Without(@, req[s].id)]
        /\ req' = [req EXCEPT ![s] = [req[s] EXCEPT !.pc = "save"]]
    BY <1>6 DEF CancelOrderRemove, Goto
  <2>2. CloseFine(s) /\ boot.pc = "ready" BY <1>3, <1>4, <2>1 DEF At
  <2>3. PICK id \in Ids : id = req[s].id /\ req[s].row = db[id] /\ IsOpen(db[id])
    BY <2>1, <2>2 DEF CloseFine, At
  <2>4. PICK c : c = [req[s] EXCEPT !.pc = "save"] OBVIOUS
  <2>5. c.op = "cancel" /\ c.pc = "save" /\ c.id = id /\ c.row = db[id] /\ c.todo = {}
    BY <1>0, <2>1, <2>2, <2>3, <2>4 DEF At, Call, CloseFine
  <2>6. req'[s] = c /\ OneMoves(s) BY <1>2, <2>1, <2>4
  <2>7. CloseFine(s)' BY <2>1, <2>3, <2>5, <2>6 DEF CloseFine, IsOpen
  <2>8. book' = [book EXCEPT ![orders[id].side] = Without(@, id)] BY <2>1, <2>3
  <2> QED BY <2>1, <2>2, <2>3, <2>5, <2>6, <2>7, <2>8, CloseRemoves DEF At
<1>7. CASE CancelOrderSave(s)
  <2>1. /\ At(s, "cancel", "save") /\ UNCHANGED <<orders, traded, obj, book, boot, restarts>>
        /\ req' = [req EXCEPT ![s] = Idle]
    BY <1>7 DEF CancelOrderSave, Return
  <2>2. db' = [db EXCEPT ![req[s].id] = [req[s].row EXCEPT !.status = "CANCELLED"]]
    BY <1>7 DEF CancelOrderSave
  <2>3. req'[s] = Idle /\ OneMoves(s) BY <1>2, <2>1
  <2>4. req[s].op = "cancel" /\ req[s].pc = "save" /\ boot.pc = "ready" BY <1>3, <2>1 DEF At
  <2>5. PICK st \in {"CANCELLED", "EXPIRED"} : st = "CANCELLED" OBVIOUS
  <2>6. db' = [db EXCEPT ![req[s].id] = [req[s].row EXCEPT !.status = st]] BY <2>2, <2>5
  <2> QED BY <2>1, <2>3, <2>4, <2>6, CloseSaves
<1>8. CASE \E ids \in SUBSET Expired : CleanupExpiredOrders(s, ids)
  <2>1. PICK ids \in SUBSET Expired : CleanupExpiredOrders(s, ids) BY <1>8
  <2> DEFINE rows == {<<i, db[i]>> : i \in ids}
             c == [Idle EXCEPT !.op = "expire", !.pc = "remove", !.todo = rows]
  <2>2. /\ req[s] = Idle /\ boot.pc = "ready" /\ req' = [req EXCEPT ![s] = c]
        /\ UNCHANGED <<orders, db, traded, obj, book>>
    BY <2>1 DEF CleanupExpiredOrders, Serving
  <2>3. \A x \in rows : x[2] = db[x[1]] /\ IsOpen(x[2]) BY DEF Expired, IsOpen
  <2> HIDE DEF rows
  <2>4. c.op = "expire" /\ c.pc = "remove" /\ c.todo = rows BY DEF Idle
  <2> HIDE DEF c
  <2>5. req'[s] = c /\ OneMoves(s) BY <1>2, <2>2
  <2>6. CloseFine(s)' BY <2>2, <2>3, <2>4, <2>5 DEF CloseFine, IsOpen
  <2> QED BY <2>2, <2>4, <2>5, <2>6, CloseStarts
<1>9. CASE CleanupRemove(s)
  <2>1. At(s, "expire", "remove") /\ UNCHANGED <<orders, db, traded, obj, boot, restarts>>
    BY <1>9 DEF CleanupRemove
  <2>2. PICK order \in req[s].todo :
          /\ book' = [book EXCEPT ![orders[order[1]].side] = Without(@, order[1])]
          /\ req' = [req EXCEPT ![s] = [req[s] EXCEPT !.pc = "save", !.id = order[1], !.row = order[2],
                                                      !.todo = req[s].todo \ {order}]]
    BY <1>9 DEF CleanupRemove
  <2>3. CloseFine(s) /\ boot.pc = "ready" BY <1>3, <1>4, <2>1 DEF At
  <2>4. \A x \in req[s].todo : x[1] \in Ids /\ x = <<x[1], x[2]>> /\ x[2] = db[x[1]] /\ IsOpen(x[2])
    BY <1>0, <2>3, CallParts DEF CloseFine
  <2>5. PICK id \in Ids : id = order[1] /\ order = <<id, db[id]>> /\ order[2] = db[id] /\ IsOpen(db[id])
    BY <2>4
  <2>6. PICK rest : rest = req[s].todo \ {order} OBVIOUS
  <2>7. PICK c : c = [req[s] EXCEPT !.pc = "save", !.id = order[1], !.row = order[2], !.todo = rest]
    OBVIOUS
  <2>8. c.op = "expire" /\ c.pc = "save" /\ c.id = id /\ c.row = db[id] /\ c.todo = rest
    BY <1>0, <2>1, <2>5, <2>7 DEF At, Call
  <2>9. \A x \in rest : x[2] = db[x[1]] /\ IsOpen(x[2]) /\ x[1] # id
    BY <2>4, <2>5, <2>6
  <2>10. req' = [req EXCEPT ![s] = c] BY <2>2, <2>6, <2>7
  <2>11. req'[s] = c /\ OneMoves(s) BY <1>2, <2>10
  <2>12. CloseFine(s)' BY <2>1, <2>5, <2>8, <2>9, <2>11 DEF CloseFine, IsOpen
  <2>13. book' = [book EXCEPT ![orders[id].side] = Without(@, id)] BY <2>2, <2>5
  <2> QED BY <2>1, <2>3, <2>5, <2>8, <2>11, <2>12, <2>13, CloseRemoves DEF At
<1>10. CASE CleanupSave(s)
  <2>1. At(s, "expire", "save") /\ UNCHANGED <<orders, traded, obj, book, boot, restarts>>
    BY <1>10 DEF CleanupSave
  <2>2. \/ req' = [req EXCEPT ![s] = Idle]
        \/ req' = [req EXCEPT ![s] = [req[s] EXCEPT !.pc = "remove"]]
    BY <1>10 DEF CleanupSave, Return, Goto
  <2>3. db' = [db EXCEPT ![req[s].id] = [req[s].row EXCEPT !.status = "EXPIRED"]]
    BY <1>10 DEF CleanupSave
  <2>4. /\ OneMoves(s)
        /\ req'[s] = Idle \/ req'[s] = [req[s] EXCEPT !.pc = "remove"]
    BY <1>2, <2>2
  <2>5. req[s].op = "expire" /\ req[s].pc = "save" /\ boot.pc = "ready" BY <1>3, <2>1 DEF At
  <2>6. PICK st \in {"CANCELLED", "EXPIRED"} : st = "EXPIRED" OBVIOUS
  <2>7. db' = [db EXCEPT ![req[s].id] = [req[s].row EXCEPT !.status = st]] BY <2>3, <2>6
  <2> QED BY <2>1, <2>4, <2>5, <2>7, CloseSaves
<1> QED BY <1>5, <1>6, <1>7, <1>8, <1>9, <1>10

\* An order has one object.
LEMMA SameObject ==
    ASSUME FillInv, NEW a \in Ref, NEW b \in Ref, Alive(a), Alive(b), a[1] = b[1]
    PROVE  a = b
<1>1. EngineTypes /\ OneObject BY DEF FillInv
<1>2. PICK i \in Ids : i = a[1] BY <1>1, OrderNumbers
<1>3. a = <<i, "created">> \/ a = <<i, "loaded">> BY <1>1, <1>2, OrderNumbers
<1>4. b = <<i, "created">> \/ b = <<i, "loaded">> BY <1>1, <1>2, OrderNumbers
<1> QED BY <1>1, <1>2, <1>3, <1>4 DEF OneObject

\* The transaction writes what was matched, and nothing else.
LEMMA BookPersist ==
    ASSUME FillInv, BookInv, NEW s \in Slots, Undisturbed(s), CreateOrderPersist(s)
    PROVE  BookInv'
<1>0. EngineTypes /\ LoadsFirst /\ CreatesOK BY DEF FillInv
<1> DEFINE saved == req[s].touched \cup {Taker(s)}
           fills == req[s].fills
           c == [req[s] EXCEPT !.pc = "rest"]
<1>1. /\ At(s, "create", "persist")
      /\ traded' = [i \in Ids |-> traded[i] + fills[i]]
      /\ req' = [req EXCEPT ![s] = c]
      /\ UNCHANGED <<orders, obj, book, boot, restarts>>
  BY DEF CreateOrderPersist, Goto
<1>2. PICK last \in {f \in [{r[1] : r \in saved} -> saved] : \A i \in DOMAIN f : f[i][1] = i} :
         db' = [i \in Ids |-> IF i \in DOMAIN last THEN obj[last[i]] ELSE db[i]]
  BY DEF CreateOrderPersist, Taker
<1>3. CreateOK(s) /\ boot.pc = "ready" BY <1>0, <1>1, BusyIsReady DEF CreatesOK, At
<1>4. req[s] \in Call BY <1>0 DEF EngineTypes
<1>5. c.op = "create" /\ c.pc = "rest" /\ c.id = req[s].id BY <1>1, <1>4 DEF At, Call
<1> HIDE DEF c
<1>6. req'[s] = c /\ \A u \in Slots : u # s => req'[u] = req[u] BY <1>0, <1>1 DEF EngineTypes
<1>7. OneMoves(s) BY <1>6 DEF OneMoves
<1>8. RestFine(s) /\ OpenFine(s) /\ HandlerFine(s) BY <1>3, <1>7, BookOfOne
<1>9. CreateFine(s)
  <2>1. req[s] # Idle /\ req[s].op = "create" BY <1>1 DEF At, Idle
  <2> QED BY <1>8, <2>1 DEF HandlerFine
<1>10. \A r \in saved : r \in Ref /\ Alive(r) /\ r[1] \in Ids
  <2>1. Taker(s) \in Ref /\ Alive(Taker(s)) BY <1>0, <1>1, <1>3, OrderNumbers DEF CreateOK, Taker, At
  <2>2. \A r \in req[s].touched : r \in Ref /\ Alive(r) BY <1>0, <1>3, CallParts DEF CreateOK
  <2> QED BY <1>0, <2>1, <2>2, OrderNumbers
<1>11. Taker(s)[1] = req[s].id BY DEF Taker
<1>12. \A r \in saved : db'[r[1]] = obj[r]
  <2> SUFFICES ASSUME NEW r \in saved PROVE db'[r[1]] = obj[r]
    OBVIOUS
  <2>1. r[1] \in DOMAIN last BY <1>2
  <2>2. last[r[1]] \in saved /\ last[r[1]][1] = r[1] BY <1>2, <2>1
  <2>3. last[r[1]] = r BY <1>10, <2>2, SameObject
  <2> QED BY <1>2, <1>10, <2>1, <2>3
<1>13. \A i \in Ids : (\A r \in saved : r[1] # i) => db'[i] = db[i]
  <2> SUFFICES ASSUME NEW i \in Ids, \A r \in saved : r[1] # i PROVE db'[i] = db[i]
    OBVIOUS
  <2>1. i \notin DOMAIN last BY <1>2
  <2> QED BY <1>2, <2>1
<1>14. Holds(s) /\ Holds(s)' /\ (\A r : ~Matched(s, r)') /\ \A r : Matched(s, r) <=> r \in req[s].touched
  BY <1>1, <1>5, <1>6 DEF Holds, Matched, At
<1>15. AllPriced' BY <1>1 DEF BookInv, AllPriced
<1>16. OnItsSide' /\ PriceTimePriority' /\ Uncrossed'
  <2>1. \A side \in OrderSide : PartOf(book'[side], book[side]) BY <1>1, PartOfItself
  <2> QED BY <1>1, <2>1, PartsKeepOrder DEF BookInv
<1>17. TradesMatchFills'
  <2> SUFFICES ASSUME NEW i \in Ids PROVE db'[i].filled = traded[i] + fills[i]
    BY <1>1 DEF TradesMatchFills
  <2>1. db[i].filled = traded[i] /\ traded[i] \in Nat BY <1>0 DEF BookInv, TradesMatchFills, EngineTypes
  <2>2. CASE \E r \in saved : r[1] = i
    <3>1. PICK r \in saved : r[1] = i BY <2>2
    <3>2. obj[r].filled = db[i].filled + fills[i] BY <1>1, <1>9, <3>1 DEF CreateFine, WrittenNext, At
    <3> QED BY <1>12, <2>1, <3>1, <3>2
  <2>3. CASE \A r \in saved : r[1] # i
    <3>1. fills[i] = 0 BY <1>1, <1>3, <1>11, <2>3 DEF CreateOK, At
    <3> QED BY <1>13, <2>1, <2>3, <3>1
  <2> QED BY <2>2, <2>3
<1>18. RestFine(s)'
  <2> SUFFICES ASSUME NEW side \in OrderSide, NEW k \in DOMAIN book[side], NEW r, r = book[side][k]
               PROVE  IsOpen(db'[r[1]]) /\ IsOpen(obj[r]) /\ obj[r] = db'[r[1]] /\ c.id # r[1]
    BY <1>1, <1>6 DEF RestFine, IsOpen
  <2>1. r \in Ref /\ Alive(r) /\ r[1] \in Ids BY EntryIs
  <2>2. /\ IsOpen(db[r[1]]) /\ IsOpen(obj[r]) /\ req[s].id # r[1]
        /\ r \notin req[s].touched => obj[r] = db[r[1]]
    BY <1>8, <1>14 DEF RestFine
  <2>3. CASE r \in req[s].touched BY <1>5, <1>12, <2>2, <2>3
  <2>4. CASE r \notin req[s].touched
    <3>1. r \notin saved BY <1>11, <2>2, <2>4
    <3>2. \A q \in saved : q[1] # r[1] BY <1>10, <2>1, <3>1, SameObject
    <3> QED BY <1>5, <1>13, <2>1, <2>2, <2>4, <3>2
  <2> QED BY <2>3, <2>4
<1>19. OpenFine(s)'
  <2> SUFFICES ASSUME NEW i \in Ids, IsOpen(db'[i]), i # req[s].id
               PROVE  Rests(<<i, "created">>) \/ Rests(<<i, "loaded">>)
    BY <1>1, <1>5, <1>6, <1>14 DEF OpenFine, IsOpen, Rests
  <2>1. CASE \E r \in saved : r[1] = i
    <3>1. PICK r \in saved : r[1] = i BY <2>1
    <3>2. r \in req[s].touched /\ r \in Ref BY <1>10, <1>11, <3>1
    <3>3. IsOpen(obj[r]) BY <1>12, <3>1
    <3>4. Rests(r) BY <1>1, <1>9, <3>2, <3>3 DEF CreateFine, At
    <3>5. r = <<i, "created">> \/ r = <<i, "loaded">> BY <1>0, <3>1, <3>2, OrderNumbers
    <3> QED BY <3>4, <3>5
  <2>2. CASE \A r \in saved : r[1] # i
    <3>1. IsOpen(db[i]) BY <1>13, <2>2
    <3> QED BY <1>8, <1>14, <2>2, <3>1 DEF OpenFine
  <2> QED BY <2>1, <2>2
<1>20. HandlerFine(s)'
  <2>1. Taker(s)' = Taker(s) BY <1>5, <1>6 DEF Taker
  <2>2. obj[Taker(s)] = db'[req[s].id] BY <1>11, <1>12
  <2>3. Exhausted(s)'
    <3>1. Exhausted(s) BY <1>1, <1>9 DEF CreateFine, At
    <3> QED BY <1>1, <2>1, <3>1 DEF Exhausted, Order, Crosses, IsOpen
  <2>4. req[s].id = Len(orders) /\ (IsOpen(obj[Taker(s)]) \/ obj[Taker(s)].status = "FILLED")
    BY <1>1, <1>9 DEF CreateFine, At
  <2> QED BY <1>1, <1>5, <1>6, <2>1, <2>2, <2>3, <2>4 DEF HandlerFine, CreateFine, IsOpen
<1> QED BY <1>7, <1>15, <1>16, <1>17, <1>18, <1>19, <1>20, BookAfterOne

\* The sort is by price, and stable.
SortedFrom(p, q) ==
  \A j, k \in DOMAIN p :
    /\ Better(p[j], p[k]) => j < k
    /\ \A m \in DOMAIN q :
         p[j] = q[m] /\ ~Better(p[k], p[j]) /\ (\A n \in DOMAIN q : p[k] = q[n] => m < n) => j < k

\* An entry of a queue without repetition stands at its position.
LEMMA PositionIs ==
    ASSUME NEW q, \A j, k \in DOMAIN q : j # k => q[j] # q[k], NEW i \in DOMAIN q
    PROVE  Position(q, q[i]) = i
<1>1. Position(q, q[i]) \in DOMAIN q /\ q[Position(q, q[i])] = q[i] BY DEF Position
<1> QED BY <1>1

\* addToOrderBook sorts the entries when all are priced.
LEMMA PlacementsSort ==
    ASSUME NEW q \in Seq(Ref), NEW new \in SUBSET Ref, IsFiniteSet(new), NEW p \in Placements(q, new),
           \A j, k \in DOMAIN q : j # k => q[j] # q[k],
           \A k \in DOMAIN p : Order(p[k]).price # 0
    PROVE  SortedFrom(p, q)
<1> DEFINE all == ToSet(q) \cup new
           Pre(a, b) == \/ Better(a, b)
                        \/ /\ a \in ToSet(q) /\ ~Better(b, a)
                           /\ b \in ToSet(q) => Position(q, a) < Position(q, b)
<1>1. ToSet(q) = {q[j] : j \in DOMAIN q} BY DEF ToSet
<1>2. /\ \A k \in DOMAIN p : p[k] \in all
      /\ \A j, k \in DOMAIN p : j # k => p[j] # p[k]
      /\ \A r \in all : \E k \in DOMAIN p : p[k] = r
  BY <1>1, PlacementsArrange
<1>3. \/ \E r \in all : Order(r).price = 0
      \/ \A a, b \in all : Pre(a, b) => Position(p, a) < Position(p, b)
  BY DEF Placements
<1>4. \A a, b \in all : Pre(a, b) => Position(p, a) < Position(p, b) BY <1>2, <1>3
<1>5. \A j \in DOMAIN p : Position(p, p[j]) = j BY <1>2, PositionIs
<1>6. \A m \in DOMAIN q : Position(q, q[m]) = m BY PositionIs
<1> SUFFICES ASSUME NEW j \in DOMAIN p, NEW k \in DOMAIN p
             PROVE  /\ Better(p[j], p[k]) => j < k
                    /\ \A m \in DOMAIN q :
                         p[j] = q[m] /\ ~Better(p[k], p[j]) /\ (\A n \in DOMAIN q : p[k] = q[n] => m < n) => j < k
  BY DEF SortedFrom
<1>7. Pre(p[j], p[k]) => j < k
  <2> HIDE DEF Pre
  <2> QED BY <1>2, <1>4, <1>5
<1>8. Better(p[j], p[k]) => Pre(p[j], p[k]) OBVIOUS
<1>9. ASSUME NEW m \in DOMAIN q, p[j] = q[m], ~Better(p[k], p[j]),
             \A n \in DOMAIN q : p[k] = q[n] => m < n
      PROVE  Pre(p[j], p[k])
  <2>1. p[j] \in ToSet(q) /\ Position(q, p[j]) = m BY <1>1, <1>6, <1>9
  <2>2. p[k] \in ToSet(q) => m < Position(q, p[k])
    <3> SUFFICES ASSUME p[k] \in ToSet(q) PROVE m < Position(q, p[k])
      OBVIOUS
    <3>1. PICK n \in DOMAIN q : p[k] = q[n] BY <1>1
    <3> QED BY <1>6, <1>9, <3>1
  <2> QED BY <1>9, <2>1, <2>2
<1> HIDE DEF Pre
<1> QED BY <1>7, <1>8, <1>9

\* A new entry, the last to come, is placed in order.
LEMMA PlacedInOrder ==
    ASSUME NEW side \in OrderSide, NEW q \in Seq(Ref), NEW r \in Ref, NEW p \in Placements(q, {r}),
           InOrder(side, q), \A j, k \in DOMAIN q : j # k => q[j] # q[k],
           \A k \in DOMAIN q : /\ Order(q[k]).price \in Nat \ {0} /\ Order(q[k]).side = side
                               /\ q[k][1] < r[1],
           Order(r).price \in Nat \ {0}, Order(r).side = side, r[1] \in Nat
    PROVE  InOrder(side, p)
<1>0. IsFiniteSet({r}) /\ {r} \in SUBSET Ref BY FS_Singleton
<1>1. /\ p \in Seq(Ref)
      /\ \A k \in DOMAIN p : p[k] \in {r} \/ \E j \in DOMAIN q : p[k] = q[j]
      /\ \A j, k \in DOMAIN p : j # k => p[j] # p[k]
  BY <1>0, PlacementsArrange
<1>2. \A k \in DOMAIN p : Order(p[k]).price \in Nat \ {0} /\ Order(p[k]).side = side BY <1>1
<1>3. SortedFrom(p, q) BY <1>0, <1>2, PlacementsSort
<1>4. \A n \in DOMAIN q : q[n] # r BY <1>1
<1>5. DOMAIN p = 1..Len(p) /\ Len(p) \in Nat /\ DOMAIN q = 1..Len(q) /\ Len(q) \in Nat BY <1>1, LenProperties
<1> SUFFICES ASSUME NEW j \in DOMAIN p, NEW k \in DOMAIN p, j < k
             PROVE  MayPrecede(side, p[j], p[k])
  BY DEF InOrder
<1>6. j \in Nat /\ k \in Nat /\ ~(k < j) BY <1>5
<1>7. ~Better(p[k], p[j]) BY <1>3, <1>6 DEF SortedFrom
<1>8. side = "BUY" \/ side = "SELL" BY DEF OrderSide
<1>9. CASE Order(p[j]).price # Order(p[k]).price
  BY <1>2, <1>7, <1>8, <1>9 DEF Better, MayPrecede
<1>10. CASE Order(p[j]).price = Order(p[k]).price
  <2>1. ~Better(p[j], p[k]) BY <1>2, <1>10 DEF Better
  <2>2. ASSUME NEW n \in DOMAIN q, p[k] = q[n], \A m \in DOMAIN q : p[j] = q[m] => n < m PROVE FALSE
    BY <1>3, <1>6, <2>1, <2>2 DEF SortedFrom
  <2>3. p[j] # r
    <3> SUFFICES ASSUME p[j] = r PROVE FALSE
      OBVIOUS
    <3>1. p[k] # r BY <1>1, <1>6
    <3>2. PICK n \in DOMAIN q : p[k] = q[n] BY <1>1, <3>1
    <3> QED BY <1>4, <2>2, <3>2
  <2>4. PICK m \in DOMAIN q : p[j] = q[m] BY <1>1, <2>3
  <2>5. CASE p[k] = r BY <1>10, <2>4, <2>5 DEF MayPrecede
  <2>6. CASE p[k] # r
    <3>1. PICK n \in DOMAIN q : p[k] = q[n] BY <1>1, <2>6
    <3>2. m # n BY <1>1, <1>6, <2>4, <3>1
    <3>3. \A i \in DOMAIN q : p[j] = q[i] => i = m BY <2>4
    <3>4. ~(n < m) BY <2>2, <3>1, <3>3
    <3>5. m < n BY <1>5, <3>2, <3>4
    <3> QED BY <2>4, <3>1, <3>5 DEF InOrder
  <2> QED BY <2>5, <2>6
<1> QED BY <1>9, <1>10

\* A taker with a rest enters the book.
LEMMA BookRest ==
    ASSUME FillInv, BookInv, NEW s \in Slots, Undisturbed(s), CreateOrderRest(s)
    PROVE  BookInv'
<1>0. EngineTypes /\ LoadsFirst /\ CreatesOK BY DEF FillInv
<1>1. /\ At(s, "create", "rest") /\ req' = [req EXCEPT ![s] = Idle]
      /\ UNCHANGED <<orders, db, traded, obj, boot, restarts>>
  BY DEF CreateOrderRest, Return
<1>2. PICK r : r = Taker(s) OBVIOUS
<1>3. PICK side : side = Order(r).side OBVIOUS
<1>4. IF IsOpen(obj[r]) THEN \E p \in Placements(book[side], {r}) : book' = [book EXCEPT ![side] = p]
                        ELSE book' = book
  BY <1>2, <1>3 DEF CreateOrderRest, Taker, IsOpen
<1>5. CreateOK(s) /\ boot.pc = "ready" BY <1>0, <1>1, BusyIsReady DEF CreatesOK, At
<1>6. /\ r[1] = req[s].id /\ r[1] \in DOMAIN orders /\ r[1] \in Ids /\ r \in Ref /\ r[1] \in Nat
      /\ r = <<r[1], "created">>
  <2>1. r = <<req[s].id, "created">> /\ r[1] = req[s].id BY <1>2 DEF Taker
  <2>2. req[s].id \in DOMAIN orders BY <1>5 DEF CreateOK
  <2>3. req[s].id \in Ids BY <1>0, <2>2, OrderNumbers
  <2>4. r \in Ref BY <1>0, <2>1, <2>3, OrderNumbers
  <2>5. req[s].id \in Nat BY <1>0, <2>3, OrderNumbers
  <2> QED BY <2>1, <2>2, <2>3, <2>4, <2>5
<1>7. req'[s] = Idle /\ \A u \in Slots : u # s => req'[u] = req[u] BY <1>0, <1>1 DEF EngineTypes
<1>8. OneMoves(s) BY <1>7 DEF OneMoves
<1>9. RestFine(s) /\ OpenFine(s) /\ HandlerFine(s) BY <1>5, <1>8, BookOfOne
<1>10. CreateFine(s)
  <2>1. req[s] # Idle /\ req[s].op = "create" BY <1>1 DEF At, Idle
  <2> QED BY <1>9, <2>1 DEF HandlerFine
<1>11. r[1] = Len(orders) /\ obj[r] = db[r[1]] /\ Exhausted(s)
  BY <1>1, <1>2, <1>6, <1>10 DEF CreateFine, At
<1>12. ~Holds(s)' /\ \A x : ~Matched(s, x) /\ ~Matched(s, x)'
  <2>1. Idle.op = "none" BY DEF Idle
  <2> QED BY <1>1, <1>7, <2>1 DEF Holds, Matched, At
<1>13. Holds(s) BY <1>1 DEF Holds, At
<1>14. AllPriced' BY <1>1 DEF BookInv, AllPriced
<1>15. TradesMatchFills' BY <1>1 DEF BookInv, TradesMatchFills
<1>16. HandlerFine(s)' BY <1>7 DEF HandlerFine
<1>17. CASE ~IsOpen(obj[r])
  <2>1. book' = book BY <1>4, <1>17
  <2>2. OnItsSide' /\ PriceTimePriority' /\ Uncrossed'
    <3>1. \A d \in OrderSide : PartOf(book'[d], book[d]) BY <2>1, PartOfItself
    <3> QED BY <1>1, <3>1, PartsKeepOrder DEF BookInv
  <2>3. RestFine(s)' BY <1>1, <1>9, <1>12, <2>1 DEF RestFine, IsOpen
  <2>4. OpenFine(s)'
    <3> SUFFICES ASSUME NEW i \in Ids, IsOpen(db[i])
                 PROVE  Rests(<<i, "created">>) \/ Rests(<<i, "loaded">>)
      BY <1>1, <2>1 DEF OpenFine, Rests, IsOpen
    <3>1. i # req[s].id BY <1>6, <1>11, <1>17
    <3> QED BY <1>9, <1>12, <3>1 DEF OpenFine
  <2> QED BY <1>8, <1>14, <1>15, <1>16, <2>2, <2>3, <2>4, BookAfterOne
<1>18. CASE IsOpen(obj[r])
  <2>1. PICK p \in Placements(book[side], {r}) : book' = [book EXCEPT ![side] = p] BY <1>4, <1>18
  <2>2. /\ \A i \in DOMAIN orders : /\ orders[i].price \in Nat \ {0} /\ orders[i].type = "LIMIT"
                                    /\ orders[i].side \in OrderSide
        /\ side \in OrderSide
    BY <1>0, <1>3, <1>6, OrderNumbers DEF BookInv, AllPriced, CreateOrderDto, Order
  <2>3. PICK q \in Seq(Ref) : q = book[side] BY <1>0, <2>2 DEF EngineTypes
  <2>4. book'[side] = p /\ \A d \in OrderSide : d # side => book'[d] = book[d]
    BY <1>0, <2>1, <2>2 DEF EngineTypes
  <2>5. SoundQueue(q) BY <2>2, <2>3, QueueIs
  <2>6. \A k \in DOMAIN q : /\ Order(q[k]).price \in Nat \ {0} /\ Order(q[k]).side = side
                            /\ q[k][1] < r[1] /\ q[k] # r
    <3> SUFFICES ASSUME NEW k \in DOMAIN q
                 PROVE  /\ Order(q[k]).price \in Nat \ {0} /\ Order(q[k]).side = side
                        /\ q[k][1] < r[1] /\ q[k] # r
      OBVIOUS
    <3>1. q[k][1] \in DOMAIN orders BY <2>5 DEF SoundQueue
    <3>2. q[k][1] # r[1] BY <1>5, <1>6, <2>2, <2>3 DEF CreateOK
    <3>3. Order(q[k]).side = side BY <2>2, <2>3 DEF BookInv, OnItsSide
    <3>4. q[k][1] < r[1] BY <1>0, <1>11, <3>1, <3>2, OrderNumbers
    <3> QED BY <2>2, <3>1, <3>2, <3>3, <3>4 DEF Order
  <2>7. Order(r).price \in Nat \ {0} /\ Order(r).side = side /\ Order(r).type = "LIMIT"
    BY <1>3, <1>6, <2>2 DEF Order
  <2>8. InOrder(side, q) BY <2>2, <2>3, PriorityIs DEF BookInv
  <2>9. \A j, k \in DOMAIN q : j # k => q[j] # q[k] BY <2>5 DEF SoundQueue
  <2>10. p \in Placements(q, {r}) BY <2>1, <2>3
  <2>11. InOrder(side, p) BY <1>6, <2>2, <2>6, <2>7, <2>8, <2>9, <2>10, PlacedInOrder
  <2>12. /\ \A k \in DOMAIN p : p[k] = r \/ \E j \in DOMAIN q : p[k] = q[j]
         /\ \E k \in DOMAIN p : p[k] = r
         /\ \A j \in DOMAIN q : \E k \in DOMAIN p : p[k] = q[j]
    <3>1. {r} \in SUBSET Ref /\ IsFiniteSet({r}) BY <1>6, FS_Singleton
    <3> QED BY <2>10, <3>1, PlacementsArrange
  <2>13. \A d \in OrderSide : \A k \in DOMAIN book'[d] :
           (d = side /\ book'[d][k] = r) \/ \E j \in DOMAIN book[d] : book'[d][k] = book[d][j]
    BY <2>3, <2>4, <2>12
  <2>14. OnItsSide' BY <1>1, <2>7, <2>13 DEF BookInv, OnItsSide, Order
  <2>15. PriceTimePriority'
    <3>1. \A d, x : InOrder(d, x) => (\A i, j \in DOMAIN x : i < j => MayPrecede(d, x[i], x[j]))
      BY DEF InOrder
    <3>2. \A d, a, b : MayPrecede(d, a, b)' <=> MayPrecede(d, a, b) BY <1>1 DEF MayPrecede, Order
    <3>3. \A d \in OrderSide : InOrder(d, book'[d])
      BY <2>4, <2>11, PriorityIs DEF BookInv
    <3>4. \A d \in OrderSide : \A i, j \in DOMAIN book'[d] : i < j => MayPrecede(d, book'[d][i], book'[d][j])
      BY <3>1, <3>3
    <3>5. \A d \in OrderSide : InOrder(d, book[d])' BY <3>2, <3>4 DEF InOrder
    <3> QED BY <3>5, PriorityIs
  <2>16. Uncrossed'
    <3> SUFFICES ASSUME NEW j \in DOMAIN book'["BUY"], NEW k \in DOMAIN book'["SELL"],
                        NEW b, b = book'["BUY"][j], NEW a, a = book'["SELL"][k]
                 PROVE  Order(b).price < Order(a).price \/ (b[2] = "loaded" /\ a[2] = "loaded")
      BY <1>1 DEF Uncrossed, Order
    <3>1. "BUY" \in OrderSide /\ "SELL" \in OrderSide BY DEF OrderSide
    <3>2. side = "BUY" \/ side = "SELL" BY <2>2 DEF OrderSide
    <3>3. \A n \in DOMAIN book[Opposite(side)] : ~Crosses(r, book[Opposite(side)][n])
      BY <1>2, <1>3, <1>11, <1>18 DEF Exhausted
    <3>4. \A d \in OrderSide : \A n \in DOMAIN book[d] : Order(book[d][n]).price \in Nat \ {0}
      BY <2>2, EntryIs DEF Order
    <3>5. CASE b = r /\ side = "BUY"
      <4>1. PICK n \in DOMAIN book["SELL"] : a = book["SELL"][n] BY <2>13, <3>1, <3>5
      <4> QED BY <2>7, <3>1, <3>3, <3>4, <3>5, <4>1 DEF Crosses, Opposite
    <3>6. CASE a = r /\ side = "SELL"
      <4>1. PICK n \in DOMAIN book["BUY"] : b = book["BUY"][n] BY <2>13, <3>1, <3>6
      <4> QED BY <2>7, <3>1, <3>3, <3>4, <3>6, <4>1 DEF Crosses, Opposite
    <3>7. CASE ~(b = r /\ side = "BUY") /\ ~(a = r /\ side = "SELL")
      <4>1. PICK m \in DOMAIN book["BUY"] : b = book["BUY"][m] BY <2>13, <3>1, <3>7
      <4>2. PICK n \in DOMAIN book["SELL"] : a = book["SELL"][n] BY <2>13, <3>1, <3>7
      <4> QED BY <4>1, <4>2 DEF BookInv, Uncrossed
    <3> QED BY <3>5, <3>6, <3>7
  <2>17. RestFine(s)'
    <3> SUFFICES ASSUME NEW d \in OrderSide, NEW k \in DOMAIN book'[d], NEW x, x = book'[d][k]
                 PROVE  IsOpen(db[x[1]]) /\ IsOpen(obj[x]) /\ obj[x] = db[x[1]]
      BY <1>1, <1>12 DEF RestFine, IsOpen
    <3> QED BY <1>9, <1>11, <1>12, <1>18, <2>13 DEF RestFine
  <2>18. OpenFine(s)'
    <3> SUFFICES ASSUME NEW i \in Ids, IsOpen(db[i])
                 PROVE  Rests(<<i, "created">>)' \/ Rests(<<i, "loaded">>)'
      BY <1>1 DEF OpenFine, IsOpen
    <3>1. CASE i = r[1]
      <4>1. \E k \in DOMAIN book'[side] : book'[side][k] = r BY <2>4, <2>12
      <4>2. Rests(r)' BY <2>2, <4>1 DEF Rests
      <4>3. r = <<i, "created">> BY <1>6, <3>1
      <4> QED BY <4>2, <4>3
    <3>2. CASE i # r[1]
      <4>1. PICK x \in {<<i, "created">>, <<i, "loaded">>} : Rests(x)
        BY <1>6, <1>9, <1>12, <3>2 DEF OpenFine
      <4>2. PICK d \in OrderSide : \E j \in DOMAIN book[d] : book[d][j] = x BY <4>1 DEF Rests
      <4>3. \E k \in DOMAIN book'[d] : book'[d][k] = x BY <2>3, <2>4, <2>12, <4>2
      <4> QED BY <4>1, <4>3 DEF Rests
    <3> QED BY <3>1, <3>2
  <2> QED BY <1>8, <1>14, <1>15, <1>16, <2>14, <2>15, <2>16, <2>17, <2>18, BookAfterOne
<1> QED BY <1>17, <1>18

\* The status after a trade: FILLED when nothing is left, and open otherwise.
LEMMA FilledStatus ==
    ASSUME NEW r \in Ref, obj[r] \in RowType, IsOpen(obj[r]), NEW n \in Nat, Order(r).quantity \in Nat,
           NEW new \in {Filled(r, n, TRUE), Filled(r, n, FALSE)}
    PROVE  /\ new.filled = obj[r].filled + n
           /\ obj[r].filled + n >= Order(r).quantity => new.status = "FILLED" /\ ~IsOpen(new)
           /\ obj[r].filled + n < Order(r).quantity => IsOpen(new)
<1>1. PICK o \in RowType : o = obj[r] OBVIOUS
<1>2. PICK m \in Nat : m = Order(r).quantity OBVIOUS
<1>3. o.filled \in Nat /\ o.status \in OpenStatus BY <1>1 DEF RowType, IsOpen
<1>4. new.filled = o.filled + n BY <1>1 DEF Filled
<1>5. o.filled + n >= m => new.status = "FILLED" BY <1>1, <1>2 DEF Filled
<1>6. o.filled + n < m => new.status \in {"PARTIALLY_FILLED", o.status}
  BY <1>1, <1>2, <1>3 DEF Filled
<1> QED BY <1>1, <1>2, <1>3, <1>4, <1>5, <1>6 DEF IsOpen, OpenStatus

\* When an entry is too dear for a limit order, so is every later one.
LEMMA NoneLater ==
    ASSUME NEW taker, NEW a, NEW b, NEW side \in OrderSide, MayPrecede(side, a, b),
           Order(taker).type = "LIMIT", Order(taker).side \in OrderSide, side = Opposite(Order(taker).side),
           Order(taker).price \in Nat, Order(a).price \in Nat \ {0}, Order(b).price \in Nat \ {0},
           ~Crosses(taker, a)
    PROVE  ~Crosses(taker, b)
<1>1. PICK t, pa, pb : t = Order(taker).price /\ pa = Order(a).price /\ pb = Order(b).price OBVIOUS
<1>2. \/ Order(taker).side = "BUY" /\ side = "SELL"
      \/ Order(taker).side = "SELL" /\ side = "BUY"
  BY DEF Opposite, OrderSide
<1> QED BY <1>1, <1>2 DEF MayPrecede, Crosses

\* What is left of a queue is a part of it.
LEMMA TailIsPart ==
    ASSUME NEW q, NEW queue, NEW n, TailFrom(q, queue, n)
    PROVE  PartOf(q, queue)
<1> DEFINE g == [k \in DOMAIN q |-> k + n]
<1>1. n \in Nat /\ \A k \in DOMAIN q : k \in Nat /\ k + n \in DOMAIN queue /\ q[k] = queue[k + n]
  BY DEF TailFrom
<1>2. g \in [DOMAIN q -> DOMAIN queue] BY <1>1
<1>3. /\ \A j, k \in DOMAIN q : j < k => g[j] < g[k]
      /\ \A k \in DOMAIN q : q[k] = queue[g[k]]
  BY <1>1
<1> HIDE DEF g
<1> QED BY <1>2, <1>3 DEF PartOf

\* matchOrder serves the book from its best entry on and leaves what does not cross.
LEMMA BookMatch ==
    ASSUME FillInv, BookInv, NEW s \in Slots, Undisturbed(s), MatchOrder(s)
    PROVE  BookInv'
<1>0. EngineTypes /\ LoadsFirst /\ CreatesOK BY DEF FillInv
<1>1. At(s, "create", "match") /\ UNCHANGED <<orders, db, traded, boot, restarts>> BY DEF MatchOrder
<1>2. CreateOK(s) /\ boot.pc = "ready" BY <1>0, <1>1, BusyIsReady DEF CreatesOK, At
<1>3. PICK side, queue, f, total, fills, q : Matches(s, side, queue, f, total, fills, q) BY MatchIs
<1>4. /\ side \in OrderSide /\ queue = book[side] /\ total \in Nat /\ fills \in [Ids -> Nat]
      /\ DOMAIN f \subseteq DOMAIN queue /\ (DOMAIN f = {} => total = 0)
      /\ \A i \in DOMAIN f : f[i] \in Nat /\ f[i] <= Unfilled(queue[i])
      /\ fills[req[s].id] = total
      /\ \A i \in DOMAIN f : fills[queue[i][1]] = f[i]
      /\ side = Opposite(Order(Taker(s)).side) /\ book' = [book EXCEPT ![side] = q]
  BY <1>3 DEF Matches
<1>5. obj' = [r \in Ref |->
               IF r = Taker(s) /\ DOMAIN f # {} THEN Filled(r, total, TRUE)
               ELSE IF \E i \in DOMAIN f : queue[i] = r
                    THEN Filled(r, f[Position(queue, r)], FALSE)
               ELSE obj[r]]
  BY <1>3 DEF Matches
<1>6. PICK n \in Nat : TailFrom(q, queue, n) /\ Consumes(queue, Taker(s), f, total, n) BY <1>3 DEF Matches
<1>7. PICK touched : touched = {queue[i] : i \in DOMAIN f} OBVIOUS
<1>8. PICK c : c = [req[s] EXCEPT !.pc = "persist", !.touched = touched, !.fills = fills] OBVIOUS
<1>9. req' = [req EXCEPT ![s] = c] BY <1>3, <1>7, <1>8 DEF Matches
<1>10. req[s] \in Call BY <1>0 DEF EngineTypes
<1>11. /\ c.op = "create" /\ c.pc = "persist" /\ c.id = req[s].id /\ c.touched = touched /\ c.fills = fills
  BY <1>1, <1>8, <1>10 DEF At, Call
<1>12. req'[s] = c /\ \A u \in Slots : u # s => req'[u] = req[u] BY <1>0, <1>9 DEF EngineTypes
<1>13. OneMoves(s) BY <1>12 DEF OneMoves
<1>14. RestFine(s) /\ OpenFine(s) /\ HandlerFine(s) BY <1>2, <1>13, BookOfOne
<1>15. CreateFine(s)
  <2>1. req[s] # Idle /\ req[s].op = "create" BY <1>1 DEF At, Idle
  <2> QED BY <1>14, <2>1 DEF HandlerFine
<1>16. PICK r : r = Taker(s) OBVIOUS
<1>17. /\ r[1] = req[s].id /\ r[1] \in DOMAIN orders /\ r[1] \in Ids /\ r \in Ref
       /\ obj[r] \in RowType /\ r[1] = Len(orders)
  <2>1. r = <<req[s].id, "created">> /\ r[1] = req[s].id BY <1>16 DEF Taker
  <2>2. req[s].id \in DOMAIN orders BY <1>2 DEF CreateOK
  <2>3. req[s].id \in Ids BY <1>0, <2>2, OrderNumbers
  <2>4. r \in Ref BY <1>0, <2>1, <2>3, OrderNumbers
  <2>5. r[1] = Len(orders) BY <1>15, <2>1 DEF CreateFine
  <2>6. obj[r] \in RowType BY <1>0, <2>4, OrderNumbers
  <2> QED BY <2>1, <2>2, <2>3, <2>4, <2>5, <2>6
<1>18. /\ db[r[1]] = [status |-> "OPEN", filled |-> 0] /\ obj[r] = db[r[1]]
       /\ IsOpen(obj[r]) /\ obj[r].filled = 0
  <2>1. db[r[1]] = [status |-> "OPEN", filled |-> 0] /\ obj[r] = db[r[1]]
    BY <1>1, <1>15, <1>16, <1>17 DEF CreateFine, At
  <2> QED BY <2>1 DEF IsOpen, OpenStatus
<1>19. SoundQueue(queue) BY <1>4, QueueIs
<1>20. /\ DOMAIN queue = 1..Len(queue) /\ Len(queue) \in Nat
       /\ \A k \in DOMAIN queue : /\ queue[k] \in Ref /\ queue[k][1] \in DOMAIN orders /\ queue[k][1] # r[1]
                                  /\ queue[k] # r /\ Order(queue[k]).side = side
                                  /\ IsOpen(obj[queue[k]]) /\ obj[queue[k]] = db[queue[k][1]]
       /\ \A j, k \in DOMAIN queue : j # k => queue[j] # queue[k]
  <2>1. \A k \in DOMAIN queue : queue[k][1] # r[1] BY <1>2, <1>4, <1>17 DEF CreateOK
  <2>2. \A x : ~Matched(s, x) BY <1>1 DEF Matched, At
  <2>3. \A k \in DOMAIN queue : IsOpen(obj[queue[k]]) /\ obj[queue[k]] = db[queue[k][1]]
    BY <1>4, <1>14, <2>2 DEF RestFine
  <2>4. \A k \in DOMAIN queue : Order(queue[k]).side = side BY <1>4 DEF BookInv, OnItsSide
  <2> QED BY <1>19, <2>1, <2>3, <2>4 DEF SoundQueue
<1>21. \A i \in DOMAIN orders : orders[i].price \in Nat \ {0} /\ orders[i].type = "LIMIT"
                                /\ orders[i].quantity \in Nat \ {0} /\ orders[i].side \in OrderSide
  BY <1>0, OrderNumbers DEF BookInv, AllPriced, CreateOrderDto
\* the tail
<1>22. /\ DOMAIN q = 1..(Len(queue) - n)
       /\ \A k \in DOMAIN q : k \in Nat /\ k >= 1 /\ k + n \in DOMAIN queue /\ q[k] = queue[k + n]
       /\ \A j \in DOMAIN queue : j > n => j - n \in DOMAIN q /\ q[j - n] = queue[j]
  <2>1. /\ DOMAIN q = 1..(Len(queue) - n)
        /\ \A k \in DOMAIN q : k \in Nat /\ k + n \in DOMAIN queue /\ q[k] = queue[k + n]
    BY <1>6 DEF TailFrom
  <2>2. \A k \in DOMAIN q : k >= 1 BY <2>1
  <2>3. ASSUME NEW j \in DOMAIN queue, j > n PROVE j - n \in DOMAIN q /\ q[j - n] = queue[j]
    <3>1. j \in Nat /\ n \in Nat /\ j <= Len(queue) /\ Len(queue) \in Nat BY <1>20
    <3>2. j - n \in 1..(Len(queue) - n) /\ (j - n) + n = j BY <2>3, <3>1
    <3> QED BY <2>1, <3>2
  <2> QED BY <2>1, <2>2, <2>3
<1>23. book'[side] = q /\ \A d \in OrderSide : d # side => book'[d] = book[d]
  BY <1>0, <1>4 DEF EngineTypes
\* the objects
<1>24. \A i \in DOMAIN f :
         /\ obj'[queue[i]].filled = obj[queue[i]].filled + f[i]
         /\ i <= n => obj'[queue[i]].status = "FILLED" /\ ~IsOpen(obj'[queue[i]])
         /\ i > n => IsOpen(obj'[queue[i]])
  <2> SUFFICES ASSUME NEW i \in DOMAIN f
               PROVE  /\ obj'[queue[i]].filled = obj[queue[i]].filled + f[i]
                      /\ i <= n => obj'[queue[i]].status = "FILLED" /\ ~IsOpen(obj'[queue[i]])
                      /\ i > n => IsOpen(obj'[queue[i]])
    OBVIOUS
  <2>1. PICK x : x = queue[i] OBVIOUS
  <2>2. i \in DOMAIN queue /\ x \in Ref /\ x # r /\ IsOpen(obj[x]) /\ x[1] \in DOMAIN orders
    BY <1>4, <1>20, <2>1
  <2>3. Position(queue, x) = i BY <1>20, <2>1, <2>2, PositionIs
  <2>4. obj'[x] = Filled(x, f[i], FALSE) BY <1>5, <1>16, <2>1, <2>2, <2>3
  <2>5. obj[x] \in RowType /\ obj[x].filled \in Nat BY <1>0, <2>2, OrderNumbers
  <2>6. Order(x).quantity \in Nat BY <1>21, <2>2 DEF Order
  <2>7. f[i] \in Nat /\ f[i] <= Order(x).quantity - obj[x].filled BY <1>4, <2>1 DEF Unfilled
  <2>8. i <= n <=> f[i] = Order(x).quantity - obj[x].filled BY <1>6, <2>1 DEF Consumes, Unfilled
  <2>9. PICK new : new = obj'[x] OBVIOUS
  <2>10. /\ new.filled = obj[x].filled + f[i]
         /\ obj[x].filled + f[i] >= Order(x).quantity => new.status = "FILLED" /\ ~IsOpen(new)
         /\ obj[x].filled + f[i] < Order(x).quantity => IsOpen(new)
    <3>1. new \in {Filled(x, f[i], TRUE), Filled(x, f[i], FALSE)} BY <2>4, <2>9
    <3> QED BY <2>2, <2>5, <2>6, <2>7, <3>1, FilledStatus
  <2>11. i \in Nat /\ n \in Nat BY <1>20, <2>2
  <2>12. PICK a \in Nat, g \in Nat, m \in Nat : a = obj[x].filled /\ g = f[i] /\ m = Order(x).quantity
    BY <2>5, <2>6, <2>7
  <2> QED BY ONLY <2>1, <2>7, <2>8, <2>9, <2>10, <2>11, <2>12
<1>25. \A x \in Ref : x # r /\ x \notin touched => obj'[x] = obj[x] BY <1>5, <1>7, <1>16
<1>26. /\ obj'[r].filled = total
       /\ total >= Order(r).quantity => obj'[r].status = "FILLED" /\ ~IsOpen(obj'[r])
       /\ total < Order(r).quantity => IsOpen(obj'[r])
  <2>1. Order(r).quantity \in Nat /\ Order(r).quantity # 0 BY <1>17, <1>21 DEF Order
  <2>2. CASE DOMAIN f = {}
    <3>1. obj'[r] = obj[r] /\ total = 0 BY <1>4, <1>5, <1>17, <2>2
    <3> QED BY <1>18, <2>1, <3>1
  <2>3. CASE DOMAIN f # {}
    <3>1. obj'[r] = Filled(r, total, TRUE) BY <1>5, <1>16, <1>17, <2>3
    <3>2. PICK new : new = obj'[r] OBVIOUS
    <3>3. new \in {Filled(r, total, TRUE), Filled(r, total, FALSE)} BY <3>1, <3>2
    <3>4. /\ new.filled = obj[r].filled + total
          /\ obj[r].filled + total >= Order(r).quantity => new.status = "FILLED" /\ ~IsOpen(new)
          /\ obj[r].filled + total < Order(r).quantity => IsOpen(new)
      BY <1>4, <1>17, <1>18, <2>1, <3>3, FilledStatus
    <3>5. obj[r].filled + total = total BY <1>4, <1>18
    <3> QED BY <3>2, <3>4, <3>5
  <2> QED BY <2>2, <2>3
\* the invariant
<1>27. AllPriced' BY <1>1 DEF BookInv, AllPriced
<1>28. OnItsSide' /\ PriceTimePriority' /\ Uncrossed'
  <2>1. PartOf(q, queue) BY <1>6, TailIsPart
  <2>2. \A d \in OrderSide : PartOf(book'[d], book[d]) BY <1>4, <1>23, <2>1, PartOfItself
  <2> QED BY <1>1, <2>2, PartsKeepOrder DEF BookInv
<1>29. TradesMatchFills' BY <1>1 DEF BookInv, TradesMatchFills
<1>30. Holds(s) /\ Holds(s)' /\ (\A x : ~Matched(s, x)) /\ \A x : Matched(s, x)' <=> x \in touched
  BY <1>1, <1>11, <1>12 DEF Holds, Matched, At
<1>31. RestFine(s)'
  <2> SUFFICES ASSUME NEW d \in OrderSide, NEW k \in DOMAIN book'[d], NEW x, x = book'[d][k]
               PROVE  /\ IsOpen(db[x[1]]) /\ IsOpen(obj'[x]) /\ c.id # x[1]
                      /\ x \notin touched => obj'[x] = db[x[1]]
    BY <1>1, <1>12, <1>30 DEF RestFine, IsOpen
  <2>1. CASE d # side
    <3>1. book'[d] = book[d] BY <1>23, <2>1
    <3>2. x \in Ref /\ x[1] \in DOMAIN orders BY <3>1, EntryIs
    <3>3. /\ IsOpen(db[x[1]]) /\ IsOpen(obj[x]) /\ obj[x] = db[x[1]] /\ req[s].id # x[1]
      BY <1>14, <1>30, <3>1 DEF RestFine
    <3>4. Order(x).side = d BY <3>1 DEF BookInv, OnItsSide
    <3>5. x \notin touched BY <1>4, <1>7, <1>20, <2>1, <3>4
    <3>6. x # r BY <1>17, <3>3
    <3> QED BY <1>11, <1>25, <3>2, <3>3, <3>5, <3>6
  <2>2. CASE d = side
    <3>1. k \in DOMAIN q /\ x = q[k] BY <1>23, <2>2
    <3>2. PICK j : j = k + n OBVIOUS
    <3>3. j \in DOMAIN queue /\ x = queue[j] /\ j > n BY <1>22, <3>1, <3>2
    <3>4. x \in Ref /\ IsOpen(obj[x]) /\ obj[x] = db[x[1]] /\ x # r /\ x[1] # r[1] BY <1>20, <3>3
    <3>5. CASE j \in DOMAIN f
      <4>1. IsOpen(obj'[x]) /\ x \in touched BY <1>7, <1>24, <3>3, <3>5
      <4> QED BY <1>11, <1>17, <3>4, <4>1
    <3>6. CASE j \notin DOMAIN f
      <4>1. x \notin touched BY <1>4, <1>7, <1>20, <3>3, <3>6
      <4> QED BY <1>11, <1>17, <1>25, <3>4, <4>1
    <3> QED BY <3>5, <3>6
  <2> QED BY <2>1, <2>2
<1>32. OpenFine(s)'
  <2> SUFFICES ASSUME NEW i \in Ids, IsOpen(db[i]), i # r[1]
               PROVE  \/ Rests(<<i, "created">>)' \/ Rests(<<i, "loaded">>)'
                      \/ \E x \in Ref : x \in touched /\ x[1] = i /\ obj'[x].status = "FILLED"
    BY <1>1, <1>11, <1>12, <1>17, <1>30 DEF OpenFine, IsOpen
  <2>1. PICK x \in {<<i, "created">>, <<i, "loaded">>} : Rests(x)
    BY <1>14, <1>17, <1>30 DEF OpenFine
  <2>2. PICK d \in OrderSide : \E j \in DOMAIN book[d] : book[d][j] = x BY <2>1 DEF Rests
  <2>3. CASE d # side
    <3>1. \E j \in DOMAIN book'[d] : book'[d][j] = x BY <1>23, <2>2, <2>3
    <3> QED BY <2>1, <3>1 DEF Rests
  <2>4. CASE d = side
    <3>1. PICK j \in DOMAIN queue : queue[j] = x BY <1>4, <2>2, <2>4
    <3>2. CASE j > n
      <4>1. \E k \in DOMAIN book'[d] : book'[d][k] = x BY <1>22, <1>23, <2>4, <3>1, <3>2
      <4> QED BY <2>1, <4>1 DEF Rests
    <3>3. CASE ~(j > n)
      <4>1. j \in 1..n /\ j <= n BY <1>20, <3>1, <3>3
      <4>2. j \in DOMAIN f BY <1>6, <4>1 DEF Consumes
      <4>3. x \in touched /\ x \in Ref BY <1>7, <1>20, <3>1, <4>2
      <4>4. obj'[x].status = "FILLED" BY <1>24, <3>1, <4>1, <4>2
      <4>5. x[1] = i BY <2>1
      <4> QED BY <4>3, <4>4, <4>5
    <3> QED BY <3>2, <3>3
  <2> QED BY <2>3, <2>4
<1>33. Exhausted(s)'
  <2>1. Taker(s)' = r BY <1>11, <1>12, <1>16 DEF Taker
  <2>2. SUFFICES ASSUME IsOpen(obj'[r]), NEW k \in DOMAIN q PROVE ~Crosses(r, q[k])
    <3>1. Opposite(Order(r).side) = side BY <1>4, <1>16
    <3>2. \A a, b : Crosses(a, b)' <=> Crosses(a, b) BY <1>1 DEF Crosses, Order
    <3>3. Order(r)' = Order(r) BY <1>1 DEF Order
    <3> QED BY <1>23, <2>1, <3>1, <3>2, <3>3 DEF Exhausted, IsOpen, Opposite
  <2>3. Order(r).quantity \in Nat BY <1>17, <1>21 DEF Order
  <2>4. total < Order(r).quantity BY <1>4, <1>26, <2>2, <2>3
  <2>5. PICK j : j = k + n OBVIOUS
  <2>6. j \in DOMAIN queue /\ j \in Nat /\ q[k] = queue[j] /\ n + 1 <= j BY <1>20, <1>22, <2>5
  <2>7. n + 1 \in DOMAIN queue BY <1>20, <2>6
  <2>8. ~Crosses(r, queue[n + 1]) BY <1>6, <1>16, <2>4, <2>7 DEF Consumes
  <2>9. CASE j = n + 1 BY <2>6, <2>8, <2>9
  <2>10. CASE j # n + 1
    <3>1. n + 1 < j BY <2>6, <2>10
    <3>2. InOrder(side, queue) BY <1>4, PriorityIs DEF BookInv
    <3>3. MayPrecede(side, queue[n + 1], queue[j]) BY <2>6, <2>7, <3>1, <3>2 DEF InOrder
    <3>4. PICK a, b : a = queue[n + 1] /\ b = queue[j] OBVIOUS
    <3>5. Order(a).price \in Nat \ {0} /\ Order(b).price \in Nat \ {0}
      BY <1>20, <1>21, <2>6, <2>7, <3>4 DEF Order
    <3>6. /\ Order(r).type = "LIMIT" /\ Order(r).side \in OrderSide /\ Order(r).price \in Nat
          /\ side = Opposite(Order(r).side)
      BY <1>4, <1>16, <1>17, <1>21 DEF Order
    <3>7. ~Crosses(r, b) BY <1>4, <2>8, <3>3, <3>4, <3>5, <3>6, NoneLater
    <3> QED BY <2>6, <3>4, <3>7
  <2> QED BY <2>9, <2>10
<1>34. HandlerFine(s)'
  <2>1. Taker(s)' = r BY <1>11, <1>12, <1>16 DEF Taker
  <2>2. req'[s].id = Len(orders') BY <1>1, <1>11, <1>12, <1>17
  <2>3. IsOpen(obj'[r]) \/ obj'[r].status = "FILLED"
    <3>1. Order(r).quantity \in Nat BY <1>17, <1>21 DEF Order
    <3> QED BY <1>4, <1>26, <3>1
  <2>4. obj'[r].filled = db'[r[1]].filled + fills[r[1]]
    <3>1. db[r[1]].filled = 0 BY <1>18
    <3> QED BY <1>1, <1>4, <1>17, <1>26, <3>1
  <2>5. r \notin touched BY <1>4, <1>7, <1>20
  <2>6. ASSUME NEW x \in touched
        PROVE  /\ IsOpen(obj'[x]) \/ obj'[x].status = "FILLED"
               /\ obj'[x].filled = db'[x[1]].filled + fills[x[1]]
               /\ x[1] # r[1] /\ (IsOpen(obj'[x]) => Rests(x)')
    <3>1. PICK i \in DOMAIN f : x = queue[i] BY <1>7
    <3>2. i \in DOMAIN queue /\ i \in Nat /\ obj[x] = db[x[1]] /\ x[1] # r[1] BY <1>4, <1>20, <3>1
    <3>3. CASE i <= n BY <1>1, <1>4, <1>24, <3>1, <3>2, <3>3
    <3>4. CASE i > n
      <4>1. \E k \in DOMAIN book'[side] : book'[side][k] = x BY <1>22, <1>23, <3>1, <3>2, <3>4
      <4>2. Rests(x)' BY <1>4, <4>1 DEF Rests
      <4> QED BY <1>1, <1>4, <1>24, <3>1, <3>2, <3>4, <4>2
    <3> QED BY <3>2, <3>3, <3>4
  <2>7. WrittenNext(r, s)' BY <1>11, <1>12, <2>3, <2>4 DEF WrittenNext, IsOpen
  <2>8. \A x \in touched : WrittenNext(x, s)' /\ x[1] # r[1] /\ (IsOpen(obj[x])' => Rests(x)')
    BY <1>11, <1>12, <2>6 DEF WrittenNext, IsOpen
  <2>9. CreateFine(s)'
    BY <1>11, <1>12, <1>17, <1>33, <2>1, <2>2, <2>3, <2>5, <2>7, <2>8 DEF CreateFine, IsOpen
  <2> QED BY <1>11, <1>12, <2>9 DEF HandlerFine
<1> QED BY <1>13, <1>27, <1>28, <1>29, <1>31, <1>32, <1>34, BookAfterOne

\* The open rows are loaded, and sorted.
LEMMA BookLoad ==
    ASSUME FillInv, BookInv, AddLoadedOrders
    PROVE  BookInv'
<1>0. EngineTypes /\ LoadsFirst /\ OpenRowsCover BY DEF FillInv
<1>1. UNCHANGED <<orders, db, traded, req>> BY DEF AddLoadedOrders
<1>2. /\ \A i \in Ids : db[i].status \in OpenStatus => obj'[<<i, "loaded">>] = db[i]
      /\ \A side \in OrderSide : \E new : LoadedOn(side, new) /\ book'[side] \in Placements(<<>>, new)
      /\ \A s \in Slots : req[s] = Idle
  BY <1>0, LoadIs
<1>3. \A i \in DOMAIN orders : orders[i].price \in Nat \ {0} /\ orders[i].side \in OrderSide
  BY <1>0, OrderNumbers DEF BookInv, AllPriced, CreateOrderDto
<1>4. ASSUME NEW side \in OrderSide, NEW p, p = book'[side]
      PROVE  /\ InOrder(side, p)
             /\ \A k \in DOMAIN p : /\ p[k] \in Ref /\ p[k][2] = "loaded" /\ Order(p[k]).side = side
                                    /\ IsOpen(db[p[k][1]]) /\ obj'[p[k]] = db[p[k][1]]
             /\ \A i \in Ids : IsOpen(db[i]) /\ orders[i].side = side =>
                                 \E k \in DOMAIN p : p[k] = <<i, "loaded">>
  <2>1. PICK new : LoadedOn(side, new) /\ p \in Placements(<<>>, new) BY <1>2, <1>4
  <2>2. /\ new \in SUBSET Ref /\ IsFiniteSet(new)
        /\ \A r \in new : r[2] = "loaded" /\ IsOpen(db[r[1]]) /\ orders[r[1]].side = side
        /\ \A i \in Ids : IsOpen(db[i]) /\ orders[i].side = side => <<i, "loaded">> \in new
    BY <2>1 DEF LoadedOn, IsOpen
  <2>3. PICK q \in Seq(Ref) : q = <<>> BY EmptySeq
  <2>4. DOMAIN q = {} BY <2>3
  <2>5. /\ p \in Seq(Ref)
        /\ \A k \in DOMAIN p : p[k] \in new
        /\ \A j, k \in DOMAIN p : j # k => p[j] # p[k]
        /\ \A r \in new : \E k \in DOMAIN p : p[k] = r
    BY <2>1, <2>2, <2>3, <2>4, PlacementsArrange
  <2>6. \A k \in DOMAIN p : p[k] \in Ref /\ p[k][1] \in Ids /\ p[k] = <<p[k][1], "loaded">>
    <3> SUFFICES ASSUME NEW k \in DOMAIN p PROVE p[k] \in Ref /\ p[k][1] \in Ids /\ p[k] = <<p[k][1], "loaded">>
      OBVIOUS
    <3>1. p[k] \in Ref /\ p[k][2] = "loaded" BY <2>2, <2>5
    <3>2. p[k][1] \in Ids /\ (p[k] = <<p[k][1], "created">> \/ p[k] = <<p[k][1], "loaded">>)
      BY <1>0, <3>1, OrderNumbers
    <3> QED BY <3>1, <3>2
  <2>7. \A k \in DOMAIN p : /\ p[k][2] = "loaded" /\ Order(p[k]).side = side
                            /\ IsOpen(db[p[k][1]])
    BY <2>2, <2>5 DEF Order
  <2>8. \A k \in DOMAIN p : obj'[p[k]] = db[p[k][1]] BY <1>2, <2>6, <2>7 DEF IsOpen
  <2>9. \A k \in DOMAIN p : Order(p[k]).price \in Nat \ {0}
    BY <1>0, <1>3, <2>6, <2>7 DEF OpenRowsCover, Order, IsOpen
  <2>10. SortedFrom(p, q) BY <2>1, <2>2, <2>3, <2>4, <2>9, PlacementsSort
  <2>11. DOMAIN p = 1..Len(p) /\ Len(p) \in Nat BY <2>5, LenProperties
  <2>12. InOrder(side, p)
    <3> SUFFICES ASSUME NEW j \in DOMAIN p, NEW k \in DOMAIN p, j < k
                 PROVE  MayPrecede(side, p[j], p[k])
      BY DEF InOrder
    <3>1. ~(k < j) BY <2>11
    <3>2. ~Better(p[k], p[j]) BY <2>10, <3>1 DEF SortedFrom
    <3>3. side = "BUY" \/ side = "SELL" BY DEF OrderSide
    <3> QED BY <2>7, <2>9, <3>2, <3>3 DEF Better, MayPrecede
  <2> QED BY <2>2, <2>5, <2>6, <2>7, <2>8, <2>12
<1>5. \A s \in Slots : req'[s] = Idle /\ ~Holds(s)' /\ \A r : ~Matched(s, r)'
  <2>1. Idle.op = "none" BY DEF Idle
  <2> QED BY <1>1, <1>2, <2>1 DEF Holds, Matched, At
<1>6. AllPriced' /\ TradesMatchFills' BY <1>1 DEF BookInv, AllPriced, TradesMatchFills
<1>7. OneBusy' /\ HandlersFine' BY <1>5 DEF OneBusy, HandlersFine
<1>8. OnItsSide' BY <1>1, <1>4 DEF OnItsSide, Order
<1>9. RestingIsOpen' BY <1>1, <1>4, <1>5 DEF RestingIsOpen, IsOpen
<1>10. OpenRests'
  <2> SUFFICES ASSUME NEW i \in Ids, IsOpen(db[i]) PROVE Rests(<<i, "loaded">>)'
    BY <1>1 DEF OpenRests, IsOpen
  <2>1. orders[i].side \in OrderSide BY <1>0, <1>3 DEF OpenRowsCover, IsOpen
  <2> QED BY <1>4, <2>1 DEF Rests
<1>11. Uncrossed'
  <2>1. "BUY" \in OrderSide /\ "SELL" \in OrderSide BY DEF OrderSide
  <2> QED BY <1>4, <2>1 DEF Uncrossed
<1>12. PriceTimePriority'
  <2>1. \A d, x : InOrder(d, x) => (\A i, j \in DOMAIN x : i < j => MayPrecede(d, x[i], x[j]))
    BY DEF InOrder
  <2>2. \A d, a, b : MayPrecede(d, a, b)' <=> MayPrecede(d, a, b) BY <1>1 DEF MayPrecede, Order
  <2>3. \A d \in OrderSide : InOrder(d, book'[d]) BY <1>4
  <2>4. \A d \in OrderSide : \A i, j \in DOMAIN book'[d] : i < j => MayPrecede(d, book'[d][i], book'[d][j])
    BY <2>1, <2>3
  <2>5. \A d \in OrderSide : InOrder(d, book[d])' BY <2>2, <2>4 DEF InOrder
  <2> QED BY <2>5, PriorityIs
<1> QED BY <1>6, <1>7, <1>8, <1>9, <1>10, <1>11, <1>12 DEF BookInv

\* The rows are read; a restart empties the memory.
LEMMA BookBoot ==
    ASSUME FillInv, BookInv, InitializeOrderBooks \/ Restart
    PROVE  BookInv'
<1>0. EngineTypes /\ LoadsFirst BY DEF FillInv
<1>1. /\ boot'.pc # "ready" /\ UNCHANGED <<orders, db, traded>>
      /\ \A s \in Slots : req'[s] = Idle
      /\ \A side \in OrderSide : DOMAIN book'[side] = {}
  <2>1. CASE InitializeOrderBooks
    <3>1. /\ boot.pc = "find" /\ boot'.pc = "add" /\ UNCHANGED <<orders, db, traded, book, req>>
      BY <2>1 DEF InitializeOrderBooks
    <3>2. \A side \in OrderSide : book[side] = <<>> /\ DOMAIN <<>> = {} BY <1>0, <3>1 DEF LoadsFirst
    <3>3. \A s \in Slots : req[s] = Idle BY <1>0, <3>1 DEF LoadsFirst
    <3> QED BY <3>1, <3>2, <3>3
  <2>2. CASE Restart BY <2>2 DEF Restart
  <2> QED BY <2>1, <2>2
<1>2. AllPriced' /\ TradesMatchFills' BY <1>1 DEF BookInv, AllPriced, TradesMatchFills
<1>3. OneBusy' /\ HandlersFine' BY <1>1 DEF OneBusy, HandlersFine
<1>4. OnItsSide' /\ RestingIsOpen' /\ PriceTimePriority'
  BY <1>1 DEF OnItsSide, RestingIsOpen, PriceTimePriority
<1>5. OpenRests' BY <1>1 DEF OpenRests
<1>6. Uncrossed'
  <2>1. "BUY" \in OrderSide BY DEF OrderSide
  <2> QED BY <1>1, <2>1 DEF Uncrossed
<1> QED BY <1>2, <1>3, <1>4, <1>5, <1>6 DEF BookInv

\* Nothing changes.
LEMMA BookStutter == BookInv /\ UNCHANGED vars => BookInv'
<1> SUFFICES ASSUME BookInv, UNCHANGED vars PROVE BookInv'
  OBVIOUS
<1>1. UNCHANGED <<orders, db, traded, obj, book, boot, req, restarts>> BY DEF vars
<1>2. AllPriced' /\ OneBusy' /\ OnItsSide' /\ Uncrossed' /\ PriceTimePriority' /\ TradesMatchFills'
  BY <1>1 DEF BookInv, AllPriced, OneBusy, OnItsSide, Uncrossed, PriceTimePriority, TradesMatchFills, Order
<1>3. RestingIsOpen' BY <1>1 DEF BookInv, RestingIsOpen, IsOpen, Matched, Holds, At
<1>4. OpenRests'
  <2>1. /\ \A s \in Slots : (Holds(s)' <=> Holds(s)) /\ \A r : Matched(s, r)' <=> Matched(s, r)
        /\ \A r : Rests(r)' <=> Rests(r)
    BY <1>1 DEF Matched, Holds, At, Rests
  <2>2. OpenRests BY DEF BookInv
  <2>3. SUFFICES ASSUME boot.pc = "ready", NEW i \in Ids, IsOpen(db[i])
                 PROVE  \/ \E s \in Slots : Holds(s) /\ req[s].id = i
                        \/ Rests(<<i, "created">>) \/ Rests(<<i, "loaded">>)
                        \/ \E s \in Slots, r \in Ref : Matched(s, r) /\ r[1] = i /\ obj[r].status = "FILLED"
    BY <1>1, <2>1 DEF OpenRests, IsOpen
  <2> QED BY <2>2, <2>3 DEF OpenRests
<1>5. HandlersFine'
  <2>1. \A s \in Slots : Exhausted(s)' <=> Exhausted(s)
    BY <1>1 DEF Exhausted, IsOpen, Taker, Order, Crosses
  <2>2. \A s \in Slots : CreateFine(s)' <=> CreateFine(s)
    BY <1>1, <2>1 DEF CreateFine, WrittenNext, IsOpen, Taker, Rests
  <2>3. \A s \in Slots : CloseFine(s)' <=> CloseFine(s) BY <1>1 DEF CloseFine, IsOpen
  <2> QED BY <1>1, <2>2, <2>3 DEF BookInv, HandlersFine
<1> QED BY <1>2, <1>3, <1>4, <1>5 DEF BookInv

\* Every step of requests that do not overlap keeps the invariant.
LEMMA BookSteps ==
    ASSUME FillInv, BookInv, RequestsWait, [BookNext]_vars
    PROVE  BookInv'
<1>0. ~EarlyRequests BY DEF RequestsWait
<1>1. ASSUME NEW s \in Slots, Undisturbed(s), NEW dto \in LimitDtos, CreateOrder(s, dto) PROVE BookInv'
  BY <1>0, <1>1, BookCreate
<1>2. ASSUME NEW s \in Slots, Undisturbed(s), CreateOrderInsert(s) PROVE BookInv' BY <1>2, BookInsert
<1>3. ASSUME NEW s \in Slots, Undisturbed(s), MatchOrder(s) PROVE BookInv' BY <1>3, BookMatch
<1>4. ASSUME NEW s \in Slots, Undisturbed(s), CreateOrderPersist(s) PROVE BookInv' BY <1>4, BookPersist
<1>5. ASSUME NEW s \in Slots, Undisturbed(s), CreateOrderRest(s) PROVE BookInv' BY <1>5, BookRest
<1>6. ASSUME NEW s \in Slots, Undisturbed(s),
             \/ \E id \in Ids : CancelOrder(s, id)
             \/ CancelOrderRemove(s) \/ CancelOrderSave(s)
             \/ \E ids \in SUBSET Expired : CleanupExpiredOrders(s, ids)
             \/ CleanupRemove(s) \/ CleanupSave(s)
      PROVE  BookInv'
  BY <1>0, <1>6, BookClose
<1>7. CASE InitializeOrderBooks \/ Restart BY <1>7, BookBoot
<1>8. CASE AddLoadedOrders BY <1>8, BookLoad
<1>9. CASE UNCHANGED vars BY <1>9, BookStutter
<1> QED BY <1>1, <1>2, <1>3, <1>4, <1>5, <1>6, <1>7, <1>8, <1>9 DEF BookNext

\* The restarts are counted.
FewRestarts == restarts \in 0..MaxRestarts
\* Only a restart counts one more.
LEMMA RestartsAreFew == FewRestarts /\ [Next \/ BookNext]_vars => FewRestarts'
<1> SUFFICES ASSUME FewRestarts, [Next \/ BookNext]_vars PROVE FewRestarts'
  OBVIOUS
<1>1. MaxRestarts \in Nat BY EngineAssumption
<1>2. CASE Restart BY <1>1, <1>2 DEF Restart, FewRestarts
<1>3. ASSUME ~Restart PROVE restarts' = restarts
  <2>1. CASE BookNext
    BY <1>3, <2>1 DEF BookNext, CreateOrder, CreateOrderInsert, MatchOrder, CreateOrderPersist,
       CreateOrderRest, CancelOrder, CancelOrderRemove, CancelOrderSave, CleanupExpiredOrders,
       CleanupRemove, CleanupSave, InitializeOrderBooks, AddLoadedOrders
  <2>2. CASE Next
    BY <1>3, <2>2 DEF Next, CreateOrder, CreateOrderInsert, MatchOrder, CreateOrderPersist,
       CreateOrderRest, CancelOrder, CancelOrderRemove, CancelOrderSave, CleanupExpiredOrders,
       CleanupRemove, CleanupSave, HandlerFails, InitializeOrderBooks, AddLoadedOrders, InitializeFails
  <2>3. CASE UNCHANGED vars BY <2>3 DEF vars
  <2> QED BY <2>1, <2>2, <2>3
<1> QED BY <1>2, <1>3 DEF FewRestarts

\* What the invariant says when no handler is in progress.
LEMMA BookMatches == ASSUME FillInv, BookInv PROVE BookMatchesDb /\ NotCrossed
<1>0. EngineTypes BY DEF FillInv
<1>1. "BUY" \in OrderSide /\ "SELL" \in OrderSide /\ OrderSide = {"BUY", "SELL"} BY DEF OrderSide
<1>2. \A r : r \in Resting <=> \E side \in OrderSide : \E k \in DOMAIN book[side] : book[side][k] = r
  BY <1>1 DEF Resting, ToSet
<1>3. NotCrossed BY <1>1 DEF NotCrossed, BookInv, Uncrossed, ToSet
<1>4. ASSUME Quiet
      PROVE  /\ {r[1] : r \in Resting} = {i \in Ids : db[i].status \in OpenStatus}
             /\ \A r \in Resting : obj[r] = db[r[1]]
             /\ \A side \in OrderSide : IsInjective([i \in DOMAIN book[side] |-> book[side][i][1]])
  <2>1. boot.pc = "ready" /\ \A s \in Slots : req[s] = Idle BY <1>4 DEF Quiet
  <2>2. \A s \in Slots : ~Holds(s) /\ \A r : ~Matched(s, r)
    <3>1. Idle.op = "none" BY DEF Idle
    <3> QED BY <2>1, <3>1 DEF Holds, Matched, At
  <2>3. \A r \in Resting : obj[r] = db[r[1]] /\ r[1] \in Ids /\ db[r[1]].status \in OpenStatus
    BY <1>2, <2>2, EntryIs DEF BookInv, RestingIsOpen, IsOpen
  <2>4. ASSUME NEW i \in Ids, db[i].status \in OpenStatus PROVE \E r \in Resting : r[1] = i
    <3>1. PICK r \in {<<i, "created">>, <<i, "loaded">>} : Rests(r)
      BY <2>1, <2>2, <2>4 DEF BookInv, OpenRests, IsOpen
    <3>2. r \in Resting BY <1>2, <3>1 DEF Rests
    <3>3. r[1] = i BY <3>1
    <3> QED BY <3>2, <3>3
  <2>5. {r[1] : r \in Resting} = {i \in Ids : db[i].status \in OpenStatus} BY <2>3, <2>4
  <2>6. ASSUME NEW side \in OrderSide PROVE IsInjective([i \in DOMAIN book[side] |-> book[side][i][1]])
    <3>1. SoundQueue(book[side]) BY QueueIs
    <3>2. \A j, k \in DOMAIN book[side] : book[side][j][1] = book[side][k][1] => j = k BY <3>1 DEF SoundQueue
    <3> QED BY <3>2 DEF IsInjective
  <2> QED BY <2>3, <2>5, <2>6
<1> QED BY <1>3, <1>4 DEF BookMatchesDb

\* The types, in the form the run checks them.
LEMMA TypesAre == ASSUME EngineTypes, FewRestarts PROVE TypeOK
<1>1. boot.pc \in {"find", "add", "ready"} /\ boot.found \subseteq Ids \X RowType BY DEF EngineTypes
<1>2. \A s \in Slots : req[s].touched \subseteq Ref /\ req[s].todo \subseteq Ids \X RowType BY CallParts
<1> QED BY <1>1, <1>2 DEF EngineTypes, FewRestarts, TypeOK

\* The invariant of part "book", and of the other part as far as it goes.
AloneInv == FillInv /\ FewRestarts /\ (part = "book" => BookInv)

\* With requests that do not overlap and priced limit orders, whatever their number, prices
\* and quantities, with any number of restarts: the book holds exactly the open rows, each
\* once and as stored, it is not crossed, it is served by price and then by time, and
\* filledQuantity is what the trades say (createOrder, matchOrder, cancelOrder,
\* cleanupExpiredOrders, initializeOrderBooks).
THEOREM BookRight == ASSUME RequestsWait PROVE MCSpec => []BookIsRight
<1>1. MCInit => AloneInv
  <2>1. Init => FewRestarts BY EngineAssumption DEF Init, FewRestarts
  <2> QED BY <2>1, FillInit, BookInit DEF MCInit, AloneInv
<1>2. AloneInv /\ [MCNext]_<<vars, part>> => AloneInv'
  <2> SUFFICES ASSUME AloneInv, [MCNext]_<<vars, part>> PROVE AloneInv'
    OBVIOUS
  <2>1. /\ part' = part /\ [Next \/ BookNext]_vars /\ (part = "book" => [BookNext]_vars)
        /\ [Next]_vars \/ BookNext
    BY DEF MCNext
  <2>2. FillInv' BY <2>1, FillNext, FillBookNext DEF AloneInv
  <2>3. FewRestarts' BY <2>1, RestartsAreFew DEF AloneInv
  <2>4. part = "book" => BookInv' BY <2>1, BookSteps DEF AloneInv
  <2> QED BY <2>1, <2>2, <2>3, <2>4 DEF AloneInv
<1>3. AloneInv => BookIsRight
  <2> SUFFICES ASSUME AloneInv, part = "book"
               PROVE  TypeOK /\ BookMatchesDb /\ NotCrossed /\ PriceTimePriority /\ TradesMatchFills
    BY DEF BookIsRight
  <2>1. FillInv /\ BookInv /\ FewRestarts /\ EngineTypes BY DEF AloneInv, FillInv
  <2> QED BY <2>1, TypesAre, BookMatches DEF BookInv
<1> QED BY <1>1, <1>2, <1>3, PTL DEF MCSpec
=============================================================================
