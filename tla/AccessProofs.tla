---------------------------- MODULE AccessProofs ----------------------------
(***************************************************************************)
(* Proofs of what MCAccess checks, for every number of callers, tokens,    *)
(* keys, wallets, documents, people and quotas.  Each part has an          *)
(* inductive invariant of its own: its types, what the calls in flight     *)
(* still rely on, and the property.  The parts share no state, so a step   *)
(* of the system is a step of one part and leaves the others alone.        *)
(***************************************************************************)
EXTENDS MCAccess, SequenceTheorems, FiniteSetTheorems, WellFoundedInduction, TLAPS

-----------------------------------------------------------------------------
(* Sequences and numbers *)

\* A function on the positions of a sequence is a sequence.
LEMMA MapSeq ==
    ASSUME NEW A, NEW B, NEW s \in Seq(A), NEW f \in [DOMAIN s -> B]
    PROVE  f \in Seq(B) /\ Len(f) = Len(s) /\ DOMAIN f = DOMAIN s
  BY SeqDef, LenProperties

\* A set of numbers that has an element has a least one, ...
LEMMA LeastNat ==
    ASSUME NEW T \in SUBSET Nat, T # {}
    PROVE  \E m \in T : \A k \in T : m <= k
<1> DEFINE Less == OpToRel(<, Nat)
<1>1. IsWellFoundedOn(Less, Nat)
  BY NatLessThanWellFounded
<1>2. \A k, m \in Nat : <<k, m>> \in Less <=> k < m
  BY DEF OpToRel
<1> HIDE DEF Less
<1>3. PICK m \in T : \A k \in T : ~(<<k, m>> \in Less)
  BY <1>1, WFMin, Zenon
<1>4. \A k \in T : ~(k < m)
  BY <1>2, <1>3, Zenon
<1> QED BY <1>4

\* ... and, when it is bounded, a greatest one, which is the Max.
LEMMA MaxIs ==
    ASSUME NEW n \in Nat, NEW T \in SUBSET (0..n), T # {}
    PROVE  Max(T) \in T /\ \A k \in T : k <= Max(T)
<1> DEFINE R == {i \in 0..n : (n - i) \in T}
<1>1. R \in SUBSET Nat
  OBVIOUS
<1>2. R # {}
  <2>1. PICK k \in T : k \in 0..n
    OBVIOUS
  <2>2. n - k \in R
    BY <2>1
  <2> QED BY <2>2
<1>3. PICK m \in R : \A k \in R : m <= k
  <2> HIDE DEF R
  <2> QED BY <1>1, <1>2, LeastNat
<1>4. \A y \in T : n - m >= y
  <2> TAKE y \in T
  <2>1. y \in 0..n /\ n - y \in R /\ n - y \in 0..n
    OBVIOUS
  <2> QED BY <1>3, <2>1
<1> QED BY <1>3, <1>4 DEF Max

\* Min of FiniteSetsExt, of two numbers.
LEMMA MinOfTwo ==
    ASSUME NEW a \in Int, NEW b \in Int
    PROVE  Min({a, b}) \in {a, b} /\ Min({a, b}) <= a /\ Min({a, b}) <= b
  BY DEF Min

\* Max of FiniteSetsExt, of two numbers.
LEMMA MaxOfTwo ==
    ASSUME NEW a \in Int, NEW b \in Int
    PROVE  Max({a, b}) \in {a, b} /\ Max({a, b}) >= a /\ Max({a, b}) >= b
  BY DEF Max

-----------------------------------------------------------------------------
(* Sums over finite sets *)

\* The recursion of MapThenSumSet.
Pick(s) == CHOOSE x \in s : TRUE

\* A function that satisfies it on a family D of sets,
IsSum(g, w, D) == g = [s \in D |-> IF s = {} THEN 0 ELSE w[Pick(s)] + g[s \ {Pick(s)}]]

\* and the one TLC computes on the subsets of X.
SumOf(w, X) == CHOOSE g : IsSum(g, w, SUBSET X)

\* The subsets with at most n elements.
Small(X, n) == {s \in SUBSET X : Cardinality(s) <= n}

\* Taking the picked element away leaves a smaller subset.
LEMMA PickSmaller ==
    ASSUME NEW X, IsFiniteSet(X), NEW s \in SUBSET X, s # {}
    PROVE  /\ Pick(s) \in s /\ s \ {Pick(s)} \in SUBSET X
           /\ Cardinality(s) \in Nat /\ Cardinality(s) > 0
           /\ Cardinality(s \ {Pick(s)}) = Cardinality(s) - 1
<1>1. Pick(s) \in s
  BY DEF Pick
<1>2. IsFiniteSet(s)
  BY FS_Subset
<1>3. Cardinality(s) \in Nat
  BY <1>2, FS_CardinalityType
<1>4. Cardinality(s) # 0
  BY <1>2, FS_EmptySet, Zenon
<1>5. Cardinality(s \ {Pick(s)}) = Cardinality(s) - 1
  BY <1>1, <1>2, FS_RemoveElement
<1> QED BY <1>1, <1>3, <1>4, <1>5

\* A function that satisfies the recursion exists on the sets of up to n elements, ...
LEMMA SumUpTo ==
    ASSUME NEW X, IsFiniteSet(X), NEW w
    PROVE  \A n \in Nat : \E g : IsSum(g, w, Small(X, n))
<1> DEFINE Bad == {n \in Nat : ~\E g : IsSum(g, w, Small(X, n))}
<1> SUFFICES ASSUME Bad # {} PROVE FALSE
  OBVIOUS
<1>1. PICK m \in Bad : \A k \in Bad : m <= k
  <2>1. Bad \in SUBSET Nat
    OBVIOUS
  <2> HIDE DEF Bad
  <2> QED BY <2>1, LeastNat
<1>2. m # 0
  <2> SUFFICES ASSUME m = 0 PROVE FALSE
    OBVIOUS
  <2> DEFINE g == [s \in Small(X, 0) |-> 0]
  <2>1. \A s \in Small(X, 0) : s = {}
    <3> SUFFICES ASSUME NEW s \in Small(X, 0), s # {} PROVE FALSE
      OBVIOUS
    <3>1. s \in SUBSET X /\ Cardinality(s) <= 0
      BY DEF Small
    <3>2. Cardinality(s) \in Nat /\ Cardinality(s) > 0
      BY <3>1, PickSmaller, Zenon
    <3> QED BY <3>1, <3>2
  <2>2. IsSum(g, w, Small(X, 0))
    BY <2>1 DEF IsSum
  <2> QED BY <1>1, <2>2
<1>3. m - 1 \in Nat /\ m - 1 \notin Bad
  BY <1>1, <1>2
<1>4. PICK g : IsSum(g, w, Small(X, m - 1))
  BY <1>3
<1> DEFINE Rec(s) == IF s = {} THEN 0 ELSE w[Pick(s)] + g[s \ {Pick(s)}]
           h == [s \in Small(X, m) |-> Rec(s)]
<1>5. \A s \in Small(X, m - 1) : s \in Small(X, m) /\ g[s] = Rec(s)
  <2> TAKE s \in Small(X, m - 1)
  <2>1. s \in SUBSET X /\ IsFiniteSet(s)
    BY FS_Subset DEF Small
  <2>2. Cardinality(s) \in Nat /\ m \in Nat
    BY <2>1, <1>3, FS_CardinalityType
  <2>3. s \in Small(X, m)
    BY <2>1, <2>2 DEF Small
  <2>4. g[s] = Rec(s)
    BY <1>4 DEF IsSum
  <2> QED BY <2>3, <2>4
<1>6. \A s \in Small(X, m) : s # {} => s \ {Pick(s)} \in Small(X, m - 1)
  <2> SUFFICES ASSUME NEW s \in Small(X, m), s # {} PROVE s \ {Pick(s)} \in Small(X, m - 1)
    OBVIOUS
  <2>1. s \in SUBSET X /\ Cardinality(s) <= m
    BY DEF Small
  <2> QED BY <1>3, <2>1, PickSmaller DEF Small
<1>7. IsSum(h, w, Small(X, m))
  <2>1. \A s \in Small(X, m) : Rec(s) = IF s = {} THEN 0 ELSE w[Pick(s)] + h[s \ {Pick(s)}]
    BY <1>5, <1>6
  <2> QED BY <2>1 DEF IsSum
<1> QED BY <1>1, <1>7

\* ... and so on all subsets of a finite set.
LEMMA SumExists ==
    ASSUME NEW X, IsFiniteSet(X), NEW w
    PROVE  IsSum(SumOf(w, X), w, SUBSET X)
<1>1. Cardinality(X) \in Nat
  BY FS_CardinalityType
<1>2. Small(X, Cardinality(X)) = SUBSET X
  BY FS_Subset DEF Small
<1>3. \E g : IsSum(g, w, SUBSET X)
  <2>1. \E g : IsSum(g, w, Small(X, Cardinality(X)))
    BY <1>1, SumUpTo, Zenon
  <2> QED BY <1>2, <2>1
<1> QED BY <1>3 DEF SumOf

\* The recursion, at one subset.
LEMMA SumStep ==
    ASSUME NEW X, IsFiniteSet(X), NEW w, NEW s \in SUBSET X
    PROVE  /\ s = {} => SumOf(w, X)[s] = 0
           /\ s # {} => SumOf(w, X)[s] = w[Pick(s)] + SumOf(w, X)[s \ {Pick(s)}]
<1> DEFINE g == SumOf(w, X)
<1>1. IsSum(g, w, SUBSET X)
  BY SumExists, Zenon
<1> HIDE DEF g
<1>2. g[s] = IF s = {} THEN 0 ELSE w[Pick(s)] + g[s \ {Pick(s)}]
  BY <1>1 DEF IsSum
<1> QED BY <1>2 DEF g

\* What holds of the empty set, and of a set when it holds of the set without
\* the element picked, holds of all subsets of a finite set.  Good is the set of
\* the subsets it holds of.
LEMMA SubsetInduction ==
    ASSUME NEW X, IsFiniteSet(X), NEW Good, {} \in Good,
           \A s \in SUBSET X : s # {} /\ s \ {Pick(s)} \in Good => s \in Good
    PROVE  SUBSET X \subseteq Good
<1> DEFINE Bad == {n \in Nat : \E s \in SUBSET X : s \notin Good /\ Cardinality(s) = n}
<1>1. ASSUME Bad # {} PROVE FALSE
  <2>1. Bad \in SUBSET Nat
    OBVIOUS
  <2>2. PICK m \in Bad : \A k \in Bad : m <= k
    <3> HIDE DEF Bad
    <3> QED BY <1>1, <2>1, LeastNat
  <2>3. PICK s \in SUBSET X : s \notin Good /\ Cardinality(s) = m
    BY <2>2
  <2>4. s # {}
    BY <2>3
  <2>5. /\ s \ {Pick(s)} \in SUBSET X /\ m \in Nat /\ m > 0
        /\ Cardinality(s \ {Pick(s)}) = m - 1
    BY <2>3, <2>4, PickSmaller
  <2>6. s \ {Pick(s)} \in Good
    <3>1. m - 1 \notin Bad /\ m - 1 \in Nat
      BY <2>1, <2>2, <2>5
    <3> QED BY <2>5, <3>1
  <2> QED BY <2>3, <2>4, <2>6
<1>2. Bad = {}
  BY <1>1
<1>3. \A s \in SUBSET X : Cardinality(s) \in Nat
  BY FS_Subset, FS_CardinalityType
<1> QED BY <1>2, <1>3

\* A sum of numbers is a number.
LEMMA SumNat ==
    ASSUME NEW X, IsFiniteSet(X), NEW w, \A x \in X : w[x] \in Nat
    PROVE  \A s \in SUBSET X : SumOf(w, X)[s] \in Nat
<1> DEFINE Good == {s \in SUBSET X : SumOf(w, X)[s] \in Nat}
<1>1. {} \in Good
  <2>1. {} \in SUBSET X
    OBVIOUS
  <2>2. SumOf(w, X)[{}] = 0
    BY <2>1, SumStep, Zenon
  <2> QED BY <2>1, <2>2
<1>2. ASSUME NEW s \in SUBSET X, s # {}, s \ {Pick(s)} \in Good PROVE s \in Good
  <2>1. Pick(s) \in s
    BY <1>2, PickSmaller, Zenon
  <2>2. SumOf(w, X)[s] = w[Pick(s)] + SumOf(w, X)[s \ {Pick(s)}]
    BY <1>2, SumStep, Zenon
  <2> QED BY <1>2, <2>1, <2>2
<1>3. SUBSET X \subseteq Good
  <2> HIDE DEF Good
  <2> QED BY <1>1, <1>2, SubsetInduction
<1> QED BY <1>3

\* A sum of zeroes is zero.
LEMMA SumZero ==
    ASSUME NEW X, IsFiniteSet(X)
    PROVE  SumOf([x \in X |-> 0], X)[X] = 0
<1> DEFINE w == [x \in X |-> 0]
           Good == {s \in SUBSET X : SumOf(w, X)[s] = 0}
<1>0. \A x \in X : w[x] = 0
  OBVIOUS
<1> HIDE DEF w
<1>1. {} \in Good
  <2>1. {} \in SUBSET X
    OBVIOUS
  <2>2. SumOf(w, X)[{}] = 0
    BY <2>1, SumStep, Zenon
  <2> QED BY <2>1, <2>2
<1>2. ASSUME NEW s \in SUBSET X, s # {}, s \ {Pick(s)} \in Good PROVE s \in Good
  <2>1. Pick(s) \in s
    BY <1>2, PickSmaller, Zenon
  <2>2. SumOf(w, X)[s] = w[Pick(s)] + SumOf(w, X)[s \ {Pick(s)}]
    <3> HIDE DEF Good
    <3> QED BY <1>2, SumStep, Zenon
  <2> QED BY <1>0, <1>2, <2>1, <2>2
<1>3. SUBSET X \subseteq Good
  <2> HIDE DEF Good
  <2> QED BY <1>1, <1>2, SubsetInduction
<1> QED BY <1>3 DEF w

\* Changing one term changes the sum by the difference.
LEMMA SumUpdate ==
    ASSUME NEW X, IsFiniteSet(X), NEW w \in [X -> Nat], NEW u \in [X -> Nat], NEW k \in X,
           \A x \in X : x # k => u[x] = w[x]
    PROVE  SumOf(u, X)[X] = SumOf(w, X)[X] - w[k] + u[k]
<1> DEFINE Good == {s \in SUBSET X : SumOf(u, X)[s] = SumOf(w, X)[s] + IF k \in s THEN u[k] - w[k] ELSE 0}
<1>1. {} \in Good
  <2>1. {} \in SUBSET X
    OBVIOUS
  <2>2. SumOf(w, X)[{}] = 0
    BY <2>1, SumStep, Zenon
  <2>3. SumOf(u, X)[{}] = 0
    BY <2>1, SumStep, Zenon
  <2> QED BY <2>1, <2>2, <2>3
<1>2. ASSUME NEW s \in SUBSET X, s # {}, s \ {Pick(s)} \in Good PROVE s \in Good
  <2>1. Pick(s) \in s /\ s \ {Pick(s)} \in SUBSET X
    BY <1>2, PickSmaller, Zenon
  <2>2. SumOf(u, X)[s] = u[Pick(s)] + SumOf(u, X)[s \ {Pick(s)}]
    <3> HIDE DEF Good
    <3> QED BY <1>2, SumStep, Zenon
  <2>3. SumOf(w, X)[s] = w[Pick(s)] + SumOf(w, X)[s \ {Pick(s)}]
    <3> HIDE DEF Good
    <3> QED BY <1>2, SumStep, Zenon
  <2>4. SumOf(u, X)[s \ {Pick(s)}] \in Nat /\ SumOf(w, X)[s \ {Pick(s)}] \in Nat
    <3>1. (\A x \in X : u[x] \in Nat) /\ (\A x \in X : w[x] \in Nat) OBVIOUS
    <3> HIDE DEF Good
    <3> QED BY <2>1, <3>1, SumNat
  <2> QED BY <1>2, <2>1, <2>2, <2>3, <2>4
<1>3. SUBSET X \subseteq Good
  <2> HIDE DEF Good
  <2> QED BY <1>1, <1>2, SubsetInduction
<1>4. SumOf(w, X)[X] \in Nat /\ w[k] \in Nat /\ u[k] \in Nat
  <2>1. \A x \in X : w[x] \in Nat OBVIOUS
  <2> HIDE DEF Good
  <2> QED BY <2>1, SumNat
<1>5. SumOf(u, X)[X] = SumOf(w, X)[X] + IF k \in X THEN u[k] - w[k] ELSE 0
  BY <1>3
<1> QED BY <1>4, <1>5

\* Any element may be taken out of a sum first.
LEMMA SumRemove ==
    ASSUME NEW X, IsFiniteSet(X), NEW w, \A x \in X : w[x] \in Nat
    PROVE  \A s \in SUBSET X : \A x \in s : SumOf(w, X)[s] = w[x] + SumOf(w, X)[s \ {x}]
<1> DEFINE Right(s) == \A x \in s : SumOf(w, X)[s] = w[x] + SumOf(w, X)[s \ {x}]
           Bad == {n \in Nat : \E s \in SUBSET X : Cardinality(s) = n /\ ~Right(s)}
<1>1. ASSUME Bad # {} PROVE FALSE
  <2>1. Bad \in SUBSET Nat OBVIOUS
  <2>2. PICK m \in Bad : \A k \in Bad : m <= k
    <3> HIDE DEF Bad
    <3> QED BY <1>1, <2>1, LeastNat
  <2>3. PICK s \in SUBSET X : Cardinality(s) = m /\ ~Right(s) BY <2>2
  <2>4. PICK x \in s : SumOf(w, X)[s] # w[x] + SumOf(w, X)[s \ {x}] BY <2>3
  <2> DEFINE p == Pick(s)
  <2>5. s # {} BY <2>4
  <2>6. p \in s /\ s \ {p} \in SUBSET X /\ m \in Nat /\ m > 0 /\ Cardinality(s \ {p}) = m - 1
    BY <2>3, <2>5, PickSmaller
  <2>7. SumOf(w, X)[s] = w[p] + SumOf(w, X)[s \ {p}]
    <3> HIDE DEF Right, Bad
    <3> QED BY <2>5, SumStep, Zenon
  <2>8. x # p
    <3> HIDE DEF Right, Bad
    <3> QED BY <2>4, <2>7
  <2>9. s \ {x} \in SUBSET X /\ Cardinality(s \ {x}) = m - 1
    <3>1. IsFiniteSet(s) BY FS_Subset
    <3> QED BY <3>1, <2>3, FS_RemoveElement
  <2>10. m - 1 \notin Bad /\ m - 1 \in Nat BY <2>1, <2>2, <2>6
  <2>11. Right(s \ {p}) /\ Right(s \ {x})
    <3>1. \A t \in SUBSET X : Cardinality(t) = m - 1 => Right(t) BY <2>10
    <3> HIDE DEF Right
    <3> QED BY <2>6, <2>9, <3>1
  <2>12. x \in s \ {p} /\ p \in s \ {x} BY <2>4, <2>6, <2>8
  <2>13. SumOf(w, X)[s \ {p}] = w[x] + SumOf(w, X)[(s \ {p}) \ {x}] BY <2>11, <2>12
  <2>14. SumOf(w, X)[s \ {x}] = w[p] + SumOf(w, X)[(s \ {x}) \ {p}] BY <2>11, <2>12
  <2>15. (s \ {p}) \ {x} = (s \ {x}) \ {p} OBVIOUS
  <2> DEFINE rest == SumOf(w, X)[(s \ {p}) \ {x}]
  <2>16. rest \in Nat /\ w[p] \in Nat /\ w[x] \in Nat
    <3>1. (s \ {p}) \ {x} \in SUBSET X OBVIOUS
    <3> HIDE DEF Bad, Right, p
    <3> QED BY <2>6, <3>1, SumNat
  <2>17. SumOf(w, X)[s] = w[p] + (w[x] + rest) BY <2>7, <2>13
  <2>18. SumOf(w, X)[s \ {x}] = w[p] + rest BY <2>14, <2>15
  <2> HIDE DEF rest, p, Right, Bad
  <2> QED BY <2>4, <2>16, <2>17, <2>18
<1>2. \A s \in SUBSET X : Cardinality(s) \in Nat
  BY FS_Subset, FS_CardinalityType
<1>3. \A s \in SUBSET X : Right(s)
  <2>1. Bad = {} BY <1>1
  <2> HIDE DEF Right
  <2> QED BY <1>2, <2>1
<1> QED BY <1>3

\* A sum over a part does not depend on the whole.
LEMMA SumPart ==
    ASSUME NEW X, IsFiniteSet(X), NEW Y \in SUBSET X, NEW w
    PROVE  SumOf(w, Y)[Y] = SumOf(w, X)[Y]
<1>0. IsFiniteSet(Y) BY FS_Subset
<1> DEFINE Good == {s \in SUBSET Y : SumOf(w, Y)[s] = SumOf(w, X)[s]}
<1>1. {} \in Good
  <2>1. {} \in SUBSET Y /\ {} \in SUBSET X OBVIOUS
  <2>2. SumOf(w, Y)[{}] = 0 /\ SumOf(w, X)[{}] = 0
    <3> HIDE DEF Good
    <3>1. SumOf(w, Y)[{}] = 0 BY <1>0, <2>1, SumStep, Zenon
    <3>2. SumOf(w, X)[{}] = 0 BY <2>1, SumStep, Zenon
    <3> QED BY <3>1, <3>2
  <2> QED BY <2>1, <2>2
<1>2. ASSUME NEW s \in SUBSET Y, s # {}, s \ {Pick(s)} \in Good PROVE s \in Good
  <2>1. s \in SUBSET X OBVIOUS
  <2>2. SumOf(w, Y)[s] = w[Pick(s)] + SumOf(w, Y)[s \ {Pick(s)}]
    <3> HIDE DEF Good
    <3> QED BY <1>0, <1>2, SumStep, Zenon
  <2>3. SumOf(w, X)[s] = w[Pick(s)] + SumOf(w, X)[s \ {Pick(s)}]
    <3> HIDE DEF Good
    <3> QED BY <1>2, <2>1, SumStep, Zenon
  <2> QED BY <1>2, <2>2, <2>3
<1>3. SUBSET Y \subseteq Good
  <2> HIDE DEF Good
  <2> QED BY <1>0, <1>1, <1>2, SubsetInduction
<1> QED BY <1>3

\* Fewer and smaller terms make a smaller sum.
LEMMA SumMono ==
    ASSUME NEW X, IsFiniteSet(X), NEW Y \in SUBSET X, NEW w, NEW u,
           \A x \in X : w[x] \in Nat /\ u[x] \in Nat,
           \A x \in Y : w[x] <= u[x]
    PROVE  SumOf(w, Y)[Y] <= SumOf(u, X)[X]
<1> DEFINE Good == {s \in SUBSET X : SumOf(w, X)[s \cap Y] <= SumOf(u, X)[s]}
<1>w. \A x \in X : w[x] \in Nat OBVIOUS
<1>u. \A x \in X : u[x] \in Nat OBVIOUS
<1>1. {} \in Good
  <2>1. {} \in SUBSET X /\ {} \cap Y = {} OBVIOUS
  <2>2. SumOf(w, X)[{}] = 0 /\ SumOf(u, X)[{}] = 0
    <3> HIDE DEF Good
    <3>1. SumOf(w, X)[{}] = 0 BY <2>1, SumStep, Zenon
    <3>2. SumOf(u, X)[{}] = 0 BY <2>1, SumStep, Zenon
    <3> QED BY <3>1, <3>2
  <2> QED BY <2>1, <2>2
<1>2. ASSUME NEW s \in SUBSET X, s # {}, s \ {Pick(s)} \in Good PROVE s \in Good
  <2> DEFINE p == Pick(s)
             t == s \ {p}
  <2>1. p \in s /\ p \in X /\ t \in SUBSET X
    BY <1>2, PickSmaller, Zenon
  <2>2. SumOf(u, X)[s] = u[p] + SumOf(u, X)[t]
    <3> HIDE DEF Good
    <3> QED BY <1>2, SumStep, Zenon
  <2>3. SumOf(w, X)[t \cap Y] <= SumOf(u, X)[t] BY <1>2
  <2>4. SumOf(w, X)[t \cap Y] \in Nat /\ SumOf(u, X)[t] \in Nat /\ w[p] \in Nat /\ u[p] \in Nat
    <3>1. t \cap Y \in SUBSET X OBVIOUS
    <3> HIDE DEF Good, t, p
    <3> QED BY <2>1, <3>1, <1>w, <1>u, SumNat
  <2>5. CASE p \in Y
    <3>1. p \in s \cap Y /\ s \cap Y \in SUBSET X /\ (s \cap Y) \ {p} = t \cap Y BY <2>1, <2>5
    <3>2. SumOf(w, X)[s \cap Y] = w[p] + SumOf(w, X)[(s \cap Y) \ {p}]
      <4> HIDE DEF Good, p, t
      <4> QED BY <1>w, <3>1, SumRemove
    <3>3. SumOf(w, X)[s \cap Y] = w[p] + SumOf(w, X)[t \cap Y] BY <3>1, <3>2
    <3>4. w[p] <= u[p] BY <2>5
    <3>5. SumOf(w, X)[s \cap Y] <= SumOf(u, X)[s]
      <4> HIDE DEF p, t, Good
      <4> QED BY <2>2, <2>3, <2>4, <3>3, <3>4
    <3> QED BY <3>5
  <2>6. CASE p \notin Y
    <3>1. s \cap Y = t \cap Y BY <2>6
    <3>2. SumOf(w, X)[s \cap Y] = SumOf(w, X)[t \cap Y] BY <3>1
    <3>3. SumOf(w, X)[s \cap Y] <= SumOf(u, X)[s]
      <4> HIDE DEF p, t, Good
      <4> QED BY <2>2, <2>3, <2>4, <3>2
    <3> QED BY <3>3
  <2> QED BY <2>5, <2>6
<1>3. SUBSET X \subseteq Good
  <2> HIDE DEF Good
  <2> QED BY <1>1, <1>2, SubsetInduction
<1>4. SumOf(w, X)[X \cap Y] <= SumOf(u, X)[X] BY <1>3
<1>5. X \cap Y = Y OBVIOUS
<1>6. SumOf(w, Y)[Y] = SumOf(w, X)[Y]
  <2> HIDE DEF Good
  <2> QED BY SumPart
<1> QED BY <1>4, <1>5, <1>6

-----------------------------------------------------------------------------
(* Sessions: password resets and dead credentials *)

\* A step of the system is a step of the sessions or leaves them alone.
LEMMA SessionPart == [Next]_vars => [S!Next]_(S!vars)
<1> SUFFICES ASSUME [Next]_vars PROVE [S!Next]_(S!vars)
  OBVIOUS
<1>1. CASE Next
  BY <1>1 DEF Next, S!vars, sessionVars
<1>2. CASE UNCHANGED vars
  BY <1>2 DEF vars, S!vars, sessionVars
<1> QED BY <1>1, <1>2

\* Where a request on sessions can be between two awaits.
SessionPlaces == {"idle", "issue", "rotate", "logout", "newReset", "password", "spend", "revokeAll", "keyInsert", "keyTouch"}

\* A request that waits for the row it read holds the position of a row.
SessionCallsOK ==
    /\ sessionCalls \in [SessionCallers -> [at : SessionPlaces, id : Nat, born : Nat]]
    /\ sessionCrashes \in Nat
    /\ \A c \in SessionCallers :
         /\ sessionCalls[c].at \in {"rotate", "logout"} => sessionCalls[c].id \in DOMAIN refreshTokens
         /\ sessionCalls[c].at \in {"password", "spend"} => sessionCalls[c].id \in DOMAIN resetTokens

\* The inductive invariant of the sessions.
SessionInv == S!TypeOK /\ SessionCallsOK /\ S!ResetEndsSessions

\* The invariant holds before the first request.
LEMMA SessionInit == S!Init => SessionInv
<1> SUFFICES ASSUME S!Init PROVE SessionInv
  OBVIOUS
<1>1. S!TypeOK
  BY EmptySeq DEF S!Init, S!TypeOK, S!ApiKey
<1>2. SessionCallsOK
  BY DEF S!Init, SessionCallsOK, S!NoCall, SessionPlaces
<1>3. S!ResetEndsSessions
  BY DEF S!Init, S!ResetEndsSessions
<1> QED BY <1>1, <1>2, <1>3 DEF SessionInv

\* A token of which only the status is changed.
LEMMA TokenExcept ==
    ASSUME NEW x \in S!RefreshToken, NEW v \in {"live", "revoked", "expired", "deleted"}
    PROVE  /\ [x EXCEPT !.status = v] \in S!RefreshToken
           /\ [x EXCEPT !.status = v].status = v
           /\ [x EXCEPT !.status = v].born = x.born
           /\ [x EXCEPT !.status = v].late = x.late
  BY DEF S!RefreshToken

\* Every stored refresh token is one.
LEMMA TokensTyped ==
    ASSUME S!TypeOK, NEW t \in DOMAIN refreshTokens
    PROVE  refreshTokens[t] \in S!RefreshToken
  BY DEF S!TypeOK

\* Requests that only read, and steps that change nothing but the call.
LEMMA SessionReads ==
    ASSUME SessionInv, NEW c \in SessionCallers,
           \/ S!Register(c) \/ S!Login(c) \/ S!StellarVerify(c) \/ S!KeyCreate(c) \/ S!KeyValidate(c)
           \/ S!KeyTouch(c) \/ S!CallEnds(c)
           \/ \E t \in DOMAIN refreshTokens : S!RefreshFind(c, t) \/ S!LogoutFind(c, t)
           \/ \E r \in DOMAIN resetTokens : S!ConfirmFind(c, r)
    PROVE  SessionInv'
<1> USE DEF SessionInv, S!TypeOK, SessionCallsOK, S!ResetEndsSessions, S!NoCall, SessionPlaces,
        S!At, S!Start, S!Finish, S!rows
<1>1. CASE S!Register(c)
  BY <1>1 DEF S!Register
<1>2. CASE S!Login(c)
  BY <1>2 DEF S!Login
<1>3. CASE S!StellarVerify(c)
  BY <1>3 DEF S!StellarVerify
<1>4. CASE S!KeyCreate(c)
  BY <1>4 DEF S!KeyCreate
<1>5. CASE S!KeyValidate(c)
  BY <1>5 DEF S!KeyValidate
<1>6. CASE S!KeyTouch(c)
  BY <1>6 DEF S!KeyTouch
<1>7. CASE S!CallEnds(c)
  BY <1>7 DEF S!CallEnds
<1>8. ASSUME NEW t \in DOMAIN refreshTokens, S!RefreshFind(c, t) \/ S!LogoutFind(c, t) PROVE SessionInv'
  <2>1. CASE S!RefreshFind(c, t)
    BY <2>1 DEF S!RefreshFind
  <2>2. CASE S!LogoutFind(c, t)
    BY <2>2 DEF S!LogoutFind
  <2> QED BY <1>8, <2>1, <2>2
<1>9. ASSUME NEW r \in DOMAIN resetTokens, S!ConfirmFind(c, r) PROVE SessionInv'
  BY <1>9 DEF S!ConfirmFind
<1> QED BY <1>1, <1>2, <1>3, <1>4, <1>5, <1>6, <1>7, <1>8, <1>9

\* issueTokenPair appends a live token, born when its request read the password.
LEMMA IssueInv == ASSUME SessionInv, NEW c \in SessionCallers, S!IssueTokenPair(c) PROVE SessionInv'
<1> USE DEF SessionInv, S!IssueTokenPair, S!At, S!Finish
<1> DEFINE new == [status |-> "live", born |-> sessionCalls[c].born, late |-> sessionCalls[c].born < password]
<1>0. new \in S!RefreshToken
  BY DEF S!RefreshToken, SessionCallsOK, S!TypeOK
<1>1. S!TypeOK'
  BY <1>0 DEF S!TypeOK
<1>2. SessionCallsOK'
  BY <1>0 DEF SessionCallsOK, S!NoCall, SessionPlaces, S!TypeOK
<1>3. S!ResetEndsSessions'
  <2> SUFFICES ASSUME (sessionCrashes = 0 /\ \A k \in SessionCallers : sessionCalls[k].at \notin {"spend", "revokeAll"})',
                      NEW t \in DOMAIN refreshTokens',
                      (refreshTokens[t].status = "live" /\ refreshTokens[t].born < password)'
               PROVE  refreshTokens'[t].late
    BY DEF S!ResetEndsSessions
  <2>1. \A k \in SessionCallers : sessionCalls[k].at \notin {"spend", "revokeAll"}
    BY DEF SessionCallsOK
  <2>2. CASE t = Len(refreshTokens) + 1
    <3>1. refreshTokens'[t] = new
      BY <1>0, <2>2, AppendProperties DEF S!TypeOK
    <3>2. sessionCalls[c].born < password
      BY <3>1
    <3>3. new.late = (sessionCalls[c].born < password)
      OBVIOUS
    <3> QED BY <3>1, <3>2, <3>3, Zenon
  <2>3. CASE t \in DOMAIN refreshTokens
    BY <2>1, <2>3 DEF S!ResetEndsSessions, S!TypeOK
  <2> QED BY <2>2, <2>3 DEF S!TypeOK
<1> QED BY <1>1, <1>2, <1>3 DEF SessionInv

\* A save that revokes one token.
LEMMA RevokeInv ==
    ASSUME SessionInv, NEW c \in SessionCallers, S!RefreshRotate(c) \/ S!LogoutSave(c)
    PROVE  SessionInv'
<1> USE DEF SessionInv
<1> DEFINE t == sessionCalls[c].id
           new == [refreshTokens[t] EXCEPT !.status = "revoked"]
<1>0. t \in DOMAIN refreshTokens
  BY DEF SessionCallsOK, S!RefreshRotate, S!LogoutSave, S!At
<1>1. new \in S!RefreshToken /\ new.status # "live"
  BY <1>0, TokensTyped, TokenExcept
<1>a. refreshTokens' = [refreshTokens EXCEPT ![t] = new]
  BY DEF S!RefreshRotate, S!LogoutSave
<1>b. refreshTokens' \in Seq(S!RefreshToken) /\ DOMAIN refreshTokens' = DOMAIN refreshTokens
  BY <1>0, <1>1, <1>a, ExceptSeq DEF S!TypeOK
<1>2. S!TypeOK'
  BY <1>b DEF S!TypeOK, S!RefreshRotate, S!LogoutSave
<1>3. SessionCallsOK'
  <2>1. CASE S!RefreshRotate(c)
    BY <1>b, <2>1 DEF SessionCallsOK, SessionPlaces, S!RefreshRotate, S!Goto
  <2>2. CASE S!LogoutSave(c)
    BY <1>b, <2>2 DEF SessionCallsOK, SessionPlaces, S!LogoutSave, S!Finish, S!NoCall
  <2> QED BY <2>1, <2>2
<1>4. S!ResetEndsSessions'
  <2>1. /\ sessionCrashes' = sessionCrashes /\ password' = password
        /\ \A k \in SessionCallers : sessionCalls[k].at \in {"spend", "revokeAll"} => sessionCalls'[k] = sessionCalls[k]
    BY DEF S!RefreshRotate, S!LogoutSave, S!At, S!Goto, S!Finish, SessionCallsOK
  <2>2. \A u \in DOMAIN refreshTokens : refreshTokens'[u].status = "live" => refreshTokens'[u] = refreshTokens[u]
    BY <1>0, <1>1, <1>a
  <2> QED BY <1>b, <2>1, <2>2 DEF S!ResetEndsSessions
<1> QED BY <1>2, <1>3, <1>4

\* The UPDATE of logoutAll leaves no token that is live.
LEMMA RevokeAllEffect ==
    ASSUME S!TypeOK, S!RevokeAll
    PROVE  /\ refreshTokens' \in Seq(S!RefreshToken)
           /\ DOMAIN refreshTokens' = DOMAIN refreshTokens
           /\ \A t \in DOMAIN refreshTokens : refreshTokens'[t].status # "live"
<1>1. \A t \in DOMAIN refreshTokens :
         /\ [refreshTokens[t] EXCEPT !.status = IF @ = "deleted" THEN @ ELSE "revoked"] \in S!RefreshToken
         /\ [refreshTokens[t] EXCEPT !.status = IF @ = "deleted" THEN @ ELSE "revoked"].status # "live"
  <2> TAKE t \in DOMAIN refreshTokens
  <2>1. refreshTokens[t].status \in {"live", "revoked", "expired", "deleted"}
    BY TokensTyped DEF S!RefreshToken
  <2> QED BY <2>1, TokensTyped, TokenExcept
<1>2. refreshTokens' \in [DOMAIN refreshTokens -> S!RefreshToken]
  BY <1>1 DEF S!RevokeAll
<1> QED
  BY <1>1, <1>2, MapSeq DEF S!RevokeAll, S!TypeOK

\* logoutAll and the last write of confirmPasswordReset.
LEMMA RevokeAllInv ==
    ASSUME SessionInv, S!LogoutAll \/ \E c \in SessionCallers : S!ConfirmRevoke(c)
    PROVE  SessionInv'
<1> USE DEF SessionInv
<1>0. S!RevokeAll
  BY DEF S!LogoutAll, S!ConfirmRevoke
<1>1. S!TypeOK'
  BY <1>0, RevokeAllEffect DEF S!TypeOK, S!LogoutAll, S!ConfirmRevoke
<1>2. SessionCallsOK'
  <2>0. DOMAIN refreshTokens' = DOMAIN refreshTokens
    BY <1>0, RevokeAllEffect
  <2>1. CASE S!LogoutAll
    BY <2>0, <2>1 DEF SessionCallsOK, S!LogoutAll
  <2>2. ASSUME NEW c \in SessionCallers, S!ConfirmRevoke(c) PROVE SessionCallsOK'
    BY <2>0, <2>2 DEF SessionCallsOK, SessionPlaces, S!ConfirmRevoke, S!Finish, S!NoCall
  <2> QED BY <2>1, <2>2
<1>3. S!ResetEndsSessions'
  BY <1>0, RevokeAllEffect DEF S!ResetEndsSessions
<1> QED BY <1>1, <1>2, <1>3

\* The steps of a password reset before the sessions end.
LEMMA ResetInv ==
    ASSUME SessionInv, NEW c \in SessionCallers,
           S!ResetRetire(c) \/ S!ResetStore(c) \/ S!ConfirmPassword(c) \/ S!ConfirmSpend(c)
    PROVE  SessionInv'
<1> USE DEF SessionInv, S!At, S!Start, S!Goto, S!Finish, S!NoCall
<1>1. CASE S!ResetRetire(c)
  <2>1. resetTokens' \in [DOMAIN resetTokens -> S!PasswordResetToken]
    BY <1>1 DEF S!ResetRetire, S!TypeOK, S!PasswordResetToken
  <2>2. resetTokens' \in Seq(S!PasswordResetToken) /\ DOMAIN resetTokens' = DOMAIN resetTokens
    BY <2>1, MapSeq DEF S!TypeOK
  <2>3. S!TypeOK'
    BY <1>1, <2>2 DEF S!ResetRetire, S!TypeOK
  <2>4. SessionCallsOK'
    BY <1>1, <2>2 DEF S!ResetRetire, SessionCallsOK, SessionPlaces, S!TypeOK
  <2>5. S!ResetEndsSessions'
    BY <1>1 DEF S!ResetRetire, S!ResetEndsSessions, SessionCallsOK
  <2> QED BY <2>3, <2>4, <2>5
<1>2. CASE S!ResetStore(c)
  <2>1. S!TypeOK'
    BY <1>2 DEF S!ResetStore, S!TypeOK, S!PasswordResetToken
  <2>2. SessionCallsOK'
    BY <1>2 DEF S!ResetStore, S!TypeOK, SessionCallsOK, SessionPlaces
  <2>3. S!ResetEndsSessions'
    BY <1>2 DEF S!ResetStore, S!ResetEndsSessions, SessionCallsOK
  <2> QED BY <2>1, <2>2, <2>3
<1>3. CASE S!ConfirmPassword(c)
  <2>0. S!TypeOK'
    BY <1>3 DEF S!ConfirmPassword, S!TypeOK, S!rows
  <2>1. SessionCallsOK'
    BY <1>3 DEF S!ConfirmPassword, S!rows, SessionCallsOK, SessionPlaces
  <2>2. S!ResetEndsSessions'
    BY <1>3 DEF S!ConfirmPassword, S!ResetEndsSessions, SessionCallsOK
  <2> QED BY <2>0, <2>1, <2>2
<1>4. CASE S!ConfirmSpend(c)
  <2>1. sessionCalls[c].id \in DOMAIN resetTokens
    BY <1>4 DEF S!ConfirmSpend, SessionCallsOK
  <2>2. S!TypeOK' /\ DOMAIN resetTokens' = DOMAIN resetTokens
    BY <1>4, <2>1, ExceptSeq DEF S!ConfirmSpend, S!TypeOK, S!PasswordResetToken
  <2>3. SessionCallsOK'
    BY <1>4, <2>2 DEF S!ConfirmSpend, SessionCallsOK, SessionPlaces
  <2>4. S!ResetEndsSessions'
    BY <1>4 DEF S!ConfirmSpend, S!ResetEndsSessions, SessionCallsOK
  <2> QED BY <2>2, <2>3, <2>4
<1> QED BY <1>1, <1>2, <1>3, <1>4

\* API keys.
LEMMA KeyInv ==
    ASSUME SessionInv, S!KeyRevoke \/ \E c \in SessionCallers : S!KeyInsert(c)
    PROVE  SessionInv'
<1> USE DEF SessionInv, S!TypeOK, S!ApiKey, SessionCallsOK, SessionPlaces, S!ResetEndsSessions
<1>1. CASE S!KeyRevoke
  BY <1>1 DEF S!KeyRevoke
<1>2. ASSUME NEW c \in SessionCallers, S!KeyInsert(c) PROVE SessionInv'
  BY <1>2 DEF S!KeyInsert, S!At, S!Finish, S!NoCall
<1> QED BY <1>1, <1>2

\* Expiry and clean-up change the status of rows, and make none live.
LEMMA TimeInv ==
    ASSUME SessionInv, S!Expires \/ S!Cleanup
    PROVE  SessionInv'
<1> USE DEF SessionInv
<1>1. /\ refreshTokens' \in Seq(S!RefreshToken) /\ DOMAIN refreshTokens' = DOMAIN refreshTokens
      /\ \A t \in DOMAIN refreshTokens :
            /\ refreshTokens'[t].status = "live" => refreshTokens[t].status = "live"
            /\ refreshTokens'[t].born = refreshTokens[t].born /\ refreshTokens'[t].late = refreshTokens[t].late
      /\ resetTokens' \in Seq(S!PasswordResetToken) /\ DOMAIN resetTokens' = DOMAIN resetTokens
  <2>1. CASE S!Expires
    <3>1. ASSUME NEW t \in DOMAIN refreshTokens, refreshTokens' = [refreshTokens EXCEPT ![t].status = "expired"]
          PROVE  /\ refreshTokens' \in Seq(S!RefreshToken) /\ DOMAIN refreshTokens' = DOMAIN refreshTokens
                 /\ \A u \in DOMAIN refreshTokens :
                       /\ refreshTokens'[u].status = "live" => refreshTokens[u].status = "live"
                       /\ refreshTokens'[u].born = refreshTokens[u].born /\ refreshTokens'[u].late = refreshTokens[u].late
      <4>1. [refreshTokens[t] EXCEPT !.status = "expired"] \in S!RefreshToken
        BY TokensTyped, TokenExcept
      <4>2. refreshTokens' = [refreshTokens EXCEPT ![t] = [refreshTokens[t] EXCEPT !.status = "expired"]]
        BY <3>1
      <4>3. refreshTokens' \in Seq(S!RefreshToken) /\ DOMAIN refreshTokens' = DOMAIN refreshTokens
        BY <4>1, <4>2, ExceptSeq DEF S!TypeOK
      <4> QED BY <4>2, <4>3, TokensTyped, TokenExcept
    <3>2. ASSUME NEW r \in DOMAIN resetTokens, resetTokens' = [resetTokens EXCEPT ![r] = "expired"]
          PROVE  resetTokens' \in Seq(S!PasswordResetToken) /\ DOMAIN resetTokens' = DOMAIN resetTokens
      BY <3>2, ExceptSeq DEF S!TypeOK, S!PasswordResetToken
    <3> QED BY <2>1, <3>1, <3>2 DEF S!Expires, S!TypeOK
  <2>2. CASE S!Cleanup
    <3> DEFINE Purge(s) == IF s \in {"expired", "used", "revoked"} THEN "deleted" ELSE s
    <3>1. \A t \in DOMAIN refreshTokens :
             [refreshTokens[t] EXCEPT !.status = Purge(refreshTokens[t].status)] \in S!RefreshToken
      BY TokensTyped DEF S!RefreshToken
    <3>2. refreshTokens' = [t \in DOMAIN refreshTokens |->
                              [refreshTokens[t] EXCEPT !.status = Purge(refreshTokens[t].status)]]
      BY <2>2 DEF S!Cleanup
    <3>3. resetTokens' \in [DOMAIN resetTokens -> S!PasswordResetToken]
      BY <2>2 DEF S!Cleanup, S!TypeOK, S!PasswordResetToken
    <3>4. refreshTokens' \in [DOMAIN refreshTokens -> S!RefreshToken]
      BY <3>1, <3>2
    <3>5. \A t \in DOMAIN refreshTokens :
            /\ refreshTokens'[t].status = "live" => refreshTokens[t].status = "live"
            /\ refreshTokens'[t].born = refreshTokens[t].born /\ refreshTokens'[t].late = refreshTokens[t].late
      BY <3>2, TokensTyped DEF S!RefreshToken
    <3> QED BY <3>3, <3>4, <3>5, MapSeq DEF S!TypeOK
  <2> QED BY <2>1, <2>2
<1>2. /\ registered' = registered /\ password' = password /\ sessionCalls' = sessionCalls
      /\ sessionCrashes' = sessionCrashes /\ apiKey' \in S!ApiKey
  BY DEF S!Expires, S!Cleanup, S!TypeOK, S!ApiKey
<1>3. S!TypeOK'
  BY <1>1, <1>2 DEF S!TypeOK
<1>4. SessionCallsOK'
  BY <1>1, <1>2 DEF SessionCallsOK
<1>5. S!ResetEndsSessions'
  BY <1>1, <1>2 DEF S!ResetEndsSessions
<1> QED BY <1>3, <1>4, <1>5

\* Every step keeps the invariant.
LEMMA SessionInvStep == SessionInv /\ [S!Next]_(S!vars) => SessionInv'
<1> SUFFICES ASSUME SessionInv, [S!Next]_(S!vars) PROVE SessionInv'
  OBVIOUS
<1>1. CASE S!Next
  BY <1>1, SessionReads, IssueInv, RevokeInv, RevokeAllInv, ResetInv, KeyInv, TimeInv DEF S!Next
<1>2. CASE UNCHANGED S!vars
  BY <1>2 DEF S!vars, SessionInv, S!TypeOK, SessionCallsOK, S!ResetEndsSessions
<1> QED BY <1>1, <1>2

\* A confirmed password reset leaves no session that was issued before it, for any
\* number of concurrent requests (confirmPasswordReset, refreshAccessToken).
THEOREM SessionsEnd == Spec => []ResetEndsSessions
<1>1. Init => SessionInv
  BY SessionInit DEF Init
<1>2. SessionInv => ResetEndsSessions
  BY DEF SessionInv, ResetEndsSessions
<1> QED BY <1>1, <1>2, SessionPart, SessionInvStep, PTL DEF Spec

\* The step DeadStaysDead boxes.
NoRevival ==
    /\ \A t \in DOMAIN refreshTokens :
         refreshTokens'[t].status = "live" => refreshTokens[t].status = "live"
    /\ \A r \in DOMAIN resetTokens : resetTokens'[r] = "unused" => resetTokens[r] = "unused"
    /\ apiKey' = "live" => apiKey \in {"none", "live"}

\* No step makes a dead token, reset token or API key usable again.
LEMMA NoRevivalStep == SessionInv /\ [S!Next]_(S!vars) => NoRevival
<1> SUFFICES ASSUME SessionInv, [S!Next]_(S!vars) PROVE NoRevival
  OBVIOUS
<1> USE DEF SessionInv
<1>1. apiKey' = "live" => apiKey \in {"none", "live"}
  BY DEF S!Next, S!vars, S!rows, S!Register, S!Login, S!StellarVerify, S!IssueTokenPair, S!RefreshFind,
      S!LogoutFind, S!RefreshRotate, S!LogoutSave, S!ResetRetire, S!ResetStore, S!ConfirmFind,
      S!ConfirmPassword, S!ConfirmSpend, S!ConfirmRevoke, S!KeyCreate, S!KeyInsert, S!KeyValidate,
      S!KeyTouch, S!CallEnds, S!LogoutAll, S!KeyRevoke, S!Expires, S!Cleanup
<1>2. \A r \in DOMAIN resetTokens : resetTokens'[r] = "unused" => resetTokens[r] = "unused"
  <2>1. CASE \E c \in SessionCallers : S!ResetRetire(c) \/ S!ResetStore(c) \/ S!ConfirmSpend(c)
    <3> PICK c \in SessionCallers : S!ResetRetire(c) \/ S!ResetStore(c) \/ S!ConfirmSpend(c)
      BY <2>1
    <3>1. CASE S!ResetRetire(c)
      BY <3>1 DEF S!ResetRetire
    <3>2. CASE S!ResetStore(c)
      BY <3>2, AppendProperties DEF S!ResetStore, S!TypeOK
    <3>3. CASE S!ConfirmSpend(c)
      BY <3>3 DEF S!ConfirmSpend
    <3> QED BY <3>1, <3>2, <3>3
  <2>2. CASE S!Expires
    BY <2>2 DEF S!Expires
  <2>3. CASE S!Cleanup
    BY <2>3 DEF S!Cleanup
  <2>4. CASE resetTokens' = resetTokens
    BY <2>4
  <2> QED
    BY <2>1, <2>2, <2>3, <2>4 DEF S!Next, S!vars, S!rows, S!Register, S!Login, S!StellarVerify,
        S!IssueTokenPair, S!RefreshFind, S!LogoutFind, S!RefreshRotate, S!LogoutSave, S!ConfirmFind,
        S!ConfirmPassword, S!ConfirmRevoke, S!KeyCreate, S!KeyInsert, S!KeyValidate, S!KeyTouch,
        S!CallEnds, S!LogoutAll, S!KeyRevoke
<1>3. \A t \in DOMAIN refreshTokens :
         refreshTokens'[t].status = "live" => refreshTokens[t].status = "live"
  <2>1. ASSUME NEW c \in SessionCallers, S!IssueTokenPair(c) PROVE \A t \in DOMAIN refreshTokens : refreshTokens'[t] = refreshTokens[t]
    BY <2>1, AppendProperties DEF S!IssueTokenPair, S!TypeOK
  <2>2. ASSUME NEW c \in SessionCallers, S!RefreshRotate(c) \/ S!LogoutSave(c)
        PROVE  \A t \in DOMAIN refreshTokens : refreshTokens'[t].status = "live" => refreshTokens[t].status = "live"
    <3> DEFINE u == sessionCalls[c].id
    <3>1. refreshTokens' = [refreshTokens EXCEPT ![u].status = "revoked"]
      BY <2>2 DEF S!RefreshRotate, S!LogoutSave
    <3>2. \A t \in DOMAIN refreshTokens : refreshTokens'[t] = refreshTokens[t] \/ refreshTokens'[t] = [refreshTokens[t] EXCEPT !.status = "revoked"]
      BY <3>1
    <3> QED BY <3>2, TokensTyped, TokenExcept
  <2>3. CASE S!RevokeAll
    BY <2>3, RevokeAllEffect
  <2>4. CASE S!Expires
    <3>1. \A t \in DOMAIN refreshTokens : refreshTokens'[t] = refreshTokens[t] \/ refreshTokens'[t] = [refreshTokens[t] EXCEPT !.status = "expired"]
      BY <2>4 DEF S!Expires
    <3> QED BY <3>1, TokensTyped, TokenExcept
  <2>5. CASE S!Cleanup
    BY <2>5, TokensTyped DEF S!Cleanup, S!RefreshToken
  <2>6. CASE refreshTokens' = refreshTokens
    BY <2>6
  <2> QED
    BY <2>1, <2>2, <2>3, <2>4, <2>5, <2>6 DEF S!Next, S!vars, S!rows, S!Register, S!Login, S!StellarVerify,
        S!RefreshFind, S!LogoutFind, S!ResetRetire, S!ResetStore, S!ConfirmFind, S!ConfirmPassword,
        S!ConfirmSpend, S!ConfirmRevoke, S!KeyCreate, S!KeyInsert, S!KeyValidate, S!KeyTouch,
        S!CallEnds, S!LogoutAll, S!KeyRevoke
<1> QED BY <1>1, <1>2, <1>3 DEF NoRevival

\* A refresh token, reset token or API key that stopped being usable is never
\* accepted again (refreshAccessToken, confirmPasswordReset, validate).
THEOREM NothingRevives == Spec => DeadStaysDead
<1>1. Init => SessionInv
  BY SessionInit DEF Init
<1>2. SessionInv /\ [Next]_vars => [NoRevival]_(S!vars)
  BY SessionPart, NoRevivalStep
<1>3. DeadStaysDead <=> [][NoRevival]_(S!vars)
  BY DEF DeadStaysDead, S!DeadStaysDead, NoRevival
<1> QED BY <1>1, <1>2, <1>3, SessionPart, SessionInvStep, PTL DEF Spec

-----------------------------------------------------------------------------
(* Logins: challenges and the lockout *)

\* A step of the system is a step of the logins or leaves them alone.
LEMMA LoginPart == [Next]_vars => [L!Next]_(L!vars)
<1> SUFFICES ASSUME [Next]_vars PROVE [L!Next]_(L!vars)
  OBVIOUS
<1>1. CASE Next
  BY <1>1 DEF Next, L!vars, loginVars
<1>2. CASE UNCHANGED vars
  BY <1>2 DEF vars, L!vars, loginVars
<1> QED BY <1>1, <1>2

\* Where a login can be between two awaits.
LoginPlaces == {"idle", "compare", "clear", "count", "lock", "rowLock", "newest", "consume"}

\* A challenge a login has picked exists, and so do the newer ones it found.
LoginCallsOK ==
    /\ loginCalls \in [Callers -> [at : LoginPlaces, id : Nat, newer : SUBSET Nat]]
    /\ lockLost \in Nat
    /\ \A c \in Callers :
         loginCalls[c].at \in {"rowLock", "newest", "consume"} =>
            /\ loginCalls[c].id \in DOMAIN challenges
            /\ \A n \in loginCalls[c].newer : n \in DOMAIN challenges /\ n > loginCalls[c].id

\* verifyChallenge is about to consume a challenge: of the newer ones none is unused.
NewestChosen ==
    \A c \in Callers :
        loginCalls[c].at = "consume" => \A n \in loginCalls[c].newer : challenges[n] # "unused"

\* A challenge that logged somebody in is marked used.
AcceptedAreSpent ==
    /\ accepted \in Seq([nonce : Nat, superseded : BOOLEAN])
    /\ \A i \in DOMAIN accepted :
         accepted[i].nonce \in DOMAIN challenges /\ challenges[accepted[i].nonce] \in {"used", "deleted"}

\* The inductive invariant of the logins.
LoginInv ==
    /\ L!TypeOK /\ LoginCallsOK /\ NewestChosen /\ AcceptedAreSpent
    /\ L!ChallengeUsedOnce /\ L!LockoutArmed

\* The invariant holds before the first login.
LEMMA LoginInit == L!Init => LoginInv
<1> SUFFICES ASSUME L!Init PROVE LoginInv
  OBVIOUS
<1> USE LoginAssumption DEF L!Init
<1>1. L!TypeOK
  <2>1. 0 \in 0..(CHALLENGE_MAX + 1)
    OBVIOUS
  <2> QED BY <2>1, EmptySeq DEF L!TypeOK
<1>2. LoginCallsOK /\ NewestChosen
  BY DEF LoginCallsOK, NewestChosen, L!NoCall, LoginPlaces
<1>3. AcceptedAreSpent /\ L!ChallengeUsedOnce
  BY DEF AcceptedAreSpent, L!ChallengeUsedOnce
<1>4. L!LockoutArmed
  BY DEF L!LockoutArmed
<1> QED BY <1>1, <1>2, <1>3, <1>4 DEF LoginInv

\* Requests that change nothing but the call, the counter or the lock.
LEMMA PasswordInv ==
    ASSUME LoginInv, NEW c \in Callers,
           \/ L!LoginCheck(c) \/ L!RecordFailure(c) \/ L!SetLock(c) \/ L!ClearFailures(c)
           \/ \E right \in BOOLEAN : L!LoginCompare(c, right)
    PROVE  LoginInv'
<1> USE LoginAssumption DEF LoginInv, L!At, L!Start, L!Goto, L!Finish, L!redis, L!NoCall
<1>1. challenges' = challenges /\ accepted' = accepted /\ lockLost' = lockLost /\ quota' = quota
  BY DEF L!LoginCheck, L!RecordFailure, L!SetLock, L!ClearFailures, L!LoginCompare
<1>2. L!TypeOK'
  <2>1. failCount' \in Nat
    BY DEF L!TypeOK, L!LoginCheck, L!RecordFailure, L!SetLock, L!ClearFailures, L!LoginCompare
  <2>2. lockKey' \in BOOLEAN
    BY DEF L!TypeOK, L!LoginCheck, L!RecordFailure, L!SetLock, L!ClearFailures, L!LoginCompare
  <2> QED BY <1>1, <2>1, <2>2 DEF L!TypeOK
<1>3. LoginCallsOK' /\ NewestChosen'
  <2>1. CASE L!LoginCheck(c)
    BY <1>1, <2>1 DEF L!LoginCheck, LoginCallsOK, NewestChosen, LoginPlaces, L!TypeOK
  <2>2. CASE L!RecordFailure(c)
    BY <1>1, <2>2 DEF L!RecordFailure, LoginCallsOK, NewestChosen, LoginPlaces
  <2>3. CASE L!SetLock(c)
    BY <1>1, <2>3 DEF L!SetLock, LoginCallsOK, NewestChosen, LoginPlaces
  <2>4. CASE L!ClearFailures(c)
    BY <1>1, <2>4 DEF L!ClearFailures, LoginCallsOK, NewestChosen, LoginPlaces
  <2>5. CASE \E right \in BOOLEAN : L!LoginCompare(c, right)
    BY <1>1, <2>5 DEF L!LoginCompare, LoginCallsOK, NewestChosen, LoginPlaces
  <2> QED BY <2>1, <2>2, <2>3, <2>4, <2>5
<1>4. AcceptedAreSpent' /\ L!ChallengeUsedOnce'
  BY <1>1 DEF AcceptedAreSpent, L!ChallengeUsedOnce
<1>5. L!LockoutArmed'
  <2>1. CASE L!LoginCheck(c)
    BY <1>1, <2>1 DEF L!LoginCheck, LoginCallsOK, L!LockoutArmed
  <2>2. CASE L!RecordFailure(c)
    BY <1>1, <2>2 DEF L!RecordFailure, LoginCallsOK, L!LockoutArmed, L!TypeOK
  <2>3. CASE L!SetLock(c)
    BY <1>1, <2>3 DEF L!SetLock, LoginCallsOK, L!LockoutArmed
  <2>4. CASE L!ClearFailures(c)
    BY <1>1, <2>4 DEF L!ClearFailures, LoginCallsOK, L!LockoutArmed
  <2>5. CASE \E right \in BOOLEAN : L!LoginCompare(c, right)
    BY <1>1, <2>5 DEF L!LoginCompare, LoginCallsOK, L!LockoutArmed
  <2> QED BY <2>1, <2>2, <2>3, <2>4, <2>5
<1> QED BY <1>2, <1>3, <1>4, <1>5

\* verifyChallenge up to the commit, and a call that ends.
LEMMA VerifyInv ==
    ASSUME LoginInv, NEW c \in Callers,
           \/ L!VerifyLock(c) \/ L!CallEnds(c)
           \/ \E n \in DOMAIN challenges : L!VerifyFind(c, n)
           \/ \E valid \in BOOLEAN : L!VerifyNewest(c, valid)
    PROVE  LoginInv'
<1> USE LoginAssumption DEF LoginInv, L!At, L!Start, L!Goto, L!Finish, L!redis, L!NoCall
<1>1. challenges' = challenges /\ accepted' = accepted /\ failCount' = failCount /\ lockKey' = lockKey /\ quota' = quota
  BY DEF L!VerifyLock, L!CallEnds, L!VerifyFind, L!VerifyNewest
<1>2. L!TypeOK'
  BY <1>1 DEF L!TypeOK
<1>3. LoginCallsOK' /\ NewestChosen'
  <2>1. CASE L!VerifyLock(c)
    BY <1>1, <2>1 DEF L!VerifyLock, LoginCallsOK, NewestChosen, LoginPlaces
  <2>2. CASE L!CallEnds(c)
    BY <1>1, <2>2 DEF L!CallEnds, LoginCallsOK, NewestChosen, LoginPlaces
  <2>3. CASE \E n \in DOMAIN challenges : L!VerifyFind(c, n)
    BY <1>1, <2>3 DEF L!VerifyFind, LoginCallsOK, NewestChosen, LoginPlaces, L!TypeOK
  <2>4. ASSUME NEW valid \in BOOLEAN, L!VerifyNewest(c, valid) PROVE LoginCallsOK' /\ NewestChosen'
    <3> DEFINE Open == {n \in DOMAIN challenges : challenges[n] \in {"unused", "expired"}}
    <3>1. LoginCallsOK'
      BY <1>1, <2>4 DEF L!VerifyNewest, LoginCallsOK, LoginPlaces
    <3>2. loginCalls[c].id = Max(Open) => \A n \in loginCalls[c].newer : challenges[n] # "unused"
      <4> SUFFICES ASSUME loginCalls[c].id = Max(Open), NEW n \in loginCalls[c].newer, challenges[n] = "unused"
                   PROVE  FALSE
        OBVIOUS
      <4>1. n \in Open /\ n > loginCalls[c].id /\ loginCalls[c].id \in Nat
        BY <2>4 DEF LoginCallsOK, L!VerifyNewest
      <4>2. Len(challenges) \in Nat /\ Open \in SUBSET (0..Len(challenges))
        BY DEF L!TypeOK
      <4>3. n <= Max(Open)
        <5> HIDE DEF Open
        <5> QED BY <4>1, <4>2, MaxIs
      <4> QED BY <4>1, <4>2, <4>3
    <3>3. NewestChosen'
      BY <1>1, <2>4, <3>2 DEF L!VerifyNewest, LoginCallsOK, NewestChosen, L!Max, Max
    <3> QED BY <3>1, <3>3
  <2> QED BY <2>1, <2>2, <2>3, <2>4
<1>4. AcceptedAreSpent' /\ L!ChallengeUsedOnce'
  BY <1>1 DEF AcceptedAreSpent, L!ChallengeUsedOnce
<1>5. L!LockoutArmed'
  <2>1. lockLost' = 0 => lockLost = 0 /\ \A d \in Callers : loginCalls[d].at = "lock" => loginCalls'[d].at = "lock"
    <3>1. CASE L!VerifyLock(c)
      BY <3>1 DEF L!VerifyLock, LoginCallsOK
    <3>2. CASE L!CallEnds(c)
      BY <3>2 DEF L!CallEnds, LoginCallsOK
    <3>3. CASE \E n \in DOMAIN challenges : L!VerifyFind(c, n)
      BY <3>3 DEF L!VerifyFind, LoginCallsOK
    <3>4. CASE \E valid \in BOOLEAN : L!VerifyNewest(c, valid)
      BY <3>4 DEF L!VerifyNewest, LoginCallsOK
    <3> QED BY <3>1, <3>2, <3>3, <3>4
  <2> QED BY <1>1, <2>1 DEF L!LockoutArmed
<1> QED BY <1>2, <1>3, <1>4, <1>5

\* A row of which only the status is changed.
LEMMA ChallengeExcept ==
    ASSUME NEW s \in Seq(L!StellarAuthChallenge), NEW n \in DOMAIN s, NEW v \in L!StellarAuthChallenge
    PROVE  [s EXCEPT ![n] = v] \in Seq(L!StellarAuthChallenge) /\ DOMAIN [s EXCEPT ![n] = v] = DOMAIN s
  BY ExceptSeq

\* The commit of verifyChallenge.
LEMMA ConsumeInv ==
    ASSUME LoginInv, NEW c \in Callers, L!VerifyConsume(c)
    PROVE  LoginInv'
<1> USE DEF LoginInv, L!At, L!Finish, L!redis, L!NoCall
<1> DEFINE n == loginCalls[c].id
           new == [nonce |-> n, superseded |-> \E k \in loginCalls[c].newer : challenges[k] = "unused"]
<1>1. n \in DOMAIN challenges /\ n \in Nat /\ loginCalls' = [loginCalls EXCEPT ![c] = L!NoCall] /\ lockLost' = lockLost
      /\ failCount' = failCount /\ lockKey' = lockKey /\ quota' = quota
  BY DEF L!VerifyConsume, LoginCallsOK
<1>2. L!LockoutArmed'
  BY <1>1 DEF L!LockoutArmed, LoginCallsOK, L!VerifyConsume
<1>3. CASE challenges[n] \in {"unused", "expired"}
  <2>1. challenges' = [challenges EXCEPT ![n] = "used"] /\ accepted' = Append(accepted, new)
    BY <1>3 DEF L!VerifyConsume
  <2>2. challenges' \in Seq(L!StellarAuthChallenge) /\ DOMAIN challenges' = DOMAIN challenges
    BY <1>1, <2>1, ChallengeExcept DEF L!TypeOK, L!StellarAuthChallenge
  <2>3. L!TypeOK'
    BY <1>1, <2>2 DEF L!TypeOK
  <2>4. LoginCallsOK' /\ NewestChosen'
    BY <1>1, <2>1, <2>2 DEF LoginCallsOK, NewestChosen, LoginPlaces
  <2>5. new.superseded = FALSE
    BY DEF NewestChosen, L!VerifyConsume
  <2>6. new \in [nonce : Nat, superseded : BOOLEAN] /\ new.nonce = n
    BY <1>1
  <2> HIDE DEF new
  <2>7. /\ accepted' \in Seq([nonce : Nat, superseded : BOOLEAN]) /\ Len(accepted') = Len(accepted) + 1
        /\ accepted'[Len(accepted) + 1] = new
        /\ \A i \in DOMAIN accepted : accepted'[i] = accepted[i]
        /\ DOMAIN accepted' = DOMAIN accepted \cup {Len(accepted) + 1}
    BY <2>1, <2>6, AppendProperties DEF AcceptedAreSpent
  <2>8. AcceptedAreSpent'
    BY <1>1, <2>1, <2>2, <2>6, <2>7 DEF AcceptedAreSpent
  <2>9. \A i \in DOMAIN accepted : accepted[i].nonce # n
    BY <1>3 DEF AcceptedAreSpent
  <2>10. \A i, j \in DOMAIN accepted' : accepted'[i].nonce = accepted'[j].nonce => i = j
    BY <2>6, <2>7, <2>9 DEF L!ChallengeUsedOnce
  <2>11. \A i \in DOMAIN accepted' : ~accepted'[i].superseded
    BY <2>5, <2>7 DEF L!ChallengeUsedOnce
  <2> QED BY <1>2, <2>3, <2>4, <2>8, <2>10, <2>11 DEF L!ChallengeUsedOnce
<1>4. CASE challenges[n] \notin {"unused", "expired"}
  <2>1. challenges' = challenges /\ accepted' = accepted
    BY <1>4 DEF L!VerifyConsume
  <2>2. L!TypeOK'
    BY <1>1, <2>1 DEF L!TypeOK
  <2>3. LoginCallsOK' /\ NewestChosen'
    BY <1>1, <2>1 DEF LoginCallsOK, NewestChosen, LoginPlaces
  <2> QED BY <1>2, <2>1, <2>2, <2>3 DEF AcceptedAreSpent, L!ChallengeUsedOnce
<1> QED BY <1>3, <1>4

\* Time: keys and challenges expire, challenges are purged.
LEMMA LoginTimeInv ==
    ASSUME LoginInv, L!RedisExpires \/ L!PurgeChallenges \/ \E n \in DOMAIN challenges : L!ChallengeExpires(n)
    PROVE  LoginInv'
<1> USE LoginAssumption DEF LoginInv, L!redis
<1>1. loginCalls' = loginCalls /\ accepted' = accepted /\ lockLost' = lockLost
  BY DEF L!RedisExpires, L!PurgeChallenges, L!ChallengeExpires
<1>2. /\ challenges' \in Seq(L!StellarAuthChallenge) /\ DOMAIN challenges' = DOMAIN challenges
      /\ \A n \in DOMAIN challenges :
            /\ challenges'[n] = "unused" => challenges[n] = "unused"
            /\ challenges[n] \in {"used", "deleted"} => challenges'[n] \in {"used", "deleted"}
  <2>1. CASE L!RedisExpires
    BY <2>1 DEF L!RedisExpires, L!TypeOK
  <2>2. CASE L!PurgeChallenges
    <3>1. challenges' \in [DOMAIN challenges -> L!StellarAuthChallenge]
      BY <2>2 DEF L!PurgeChallenges, L!StellarAuthChallenge
    <3>2. challenges' \in Seq(L!StellarAuthChallenge) /\ DOMAIN challenges' = DOMAIN challenges
      BY <3>1, MapSeq DEF L!TypeOK
    <3> QED BY <2>2, <3>2 DEF L!PurgeChallenges
  <2>3. ASSUME NEW n \in DOMAIN challenges, L!ChallengeExpires(n)
        PROVE  /\ challenges' \in Seq(L!StellarAuthChallenge) /\ DOMAIN challenges' = DOMAIN challenges
               /\ \A k \in DOMAIN challenges :
                     /\ challenges'[k] = "unused" => challenges[k] = "unused"
                     /\ challenges[k] \in {"used", "deleted"} => challenges'[k] \in {"used", "deleted"}
    <3>1. challenges' \in Seq(L!StellarAuthChallenge) /\ DOMAIN challenges' = DOMAIN challenges
      BY <2>3, ChallengeExcept DEF L!ChallengeExpires, L!StellarAuthChallenge, L!TypeOK
    <3> QED BY <2>3, <3>1 DEF L!ChallengeExpires
  <2> QED BY <2>1, <2>2, <2>3
<1>3. L!TypeOK'
  <2>1. failCount' \in Nat
    BY DEF L!TypeOK, L!RedisExpires, L!PurgeChallenges, L!ChallengeExpires
  <2>2. lockKey' \in BOOLEAN
    BY DEF L!TypeOK, L!RedisExpires, L!PurgeChallenges, L!ChallengeExpires
  <2>3. quota' \in 0..(CHALLENGE_MAX + 1)
    BY DEF L!TypeOK, L!RedisExpires, L!PurgeChallenges, L!ChallengeExpires
  <2> QED BY <1>2, <2>1, <2>2, <2>3 DEF L!TypeOK
<1>4. LoginCallsOK' /\ NewestChosen'
  BY <1>1, <1>2 DEF LoginCallsOK, NewestChosen
<1>5. AcceptedAreSpent' /\ L!ChallengeUsedOnce'
  BY <1>1, <1>2 DEF AcceptedAreSpent, L!ChallengeUsedOnce
<1>6. L!LockoutArmed'
  BY <1>1 DEF L!LockoutArmed, L!At, L!TypeOK, L!RedisExpires, L!PurgeChallenges, L!ChallengeExpires
<1> QED BY <1>3, <1>4, <1>5, <1>6

\* stellarChallenge.
LEMMA ChallengeInv == LoginInv /\ L!StellarChallenge => LoginInv'
<1> SUFFICES ASSUME LoginInv, L!StellarChallenge PROVE LoginInv'
  OBVIOUS
<1> USE LoginAssumption DEF LoginInv
<1>1. loginCalls' = loginCalls /\ accepted' = accepted /\ lockLost' = lockLost /\ failCount' = failCount /\ lockKey' = lockKey
  BY DEF L!StellarChallenge
<1>2. /\ challenges' \in Seq(L!StellarAuthChallenge) /\ DOMAIN challenges \subseteq DOMAIN challenges'
      /\ \A n \in DOMAIN challenges : challenges'[n] = challenges[n]
  <2>1. "unused" \in L!StellarAuthChallenge
    BY DEF L!StellarAuthChallenge
  <2> QED BY <2>1, AppendProperties DEF L!StellarChallenge, L!TypeOK
<1>3. quota' \in 0..(CHALLENGE_MAX + 1)
  <2>1. quota \in Nat /\ quota' = Min({quota + 1, CHALLENGE_MAX + 1})
    BY DEF L!StellarChallenge, L!TypeOK, L!Min, Min
  <2>2. Min({quota + 1, CHALLENGE_MAX + 1}) \in {quota + 1, CHALLENGE_MAX + 1} /\ Min({quota + 1, CHALLENGE_MAX + 1}) <= CHALLENGE_MAX + 1
    <3>1. quota + 1 \in Int /\ CHALLENGE_MAX + 1 \in Int
      BY <2>1
    <3> HIDE LoginAssumption
    <3> QED BY <3>1, MinOfTwo, Zenon
  <2> QED BY <2>1, <2>2
<1>4. L!TypeOK'
  BY <1>1, <1>2, <1>3 DEF L!TypeOK
<1>5. LoginCallsOK' /\ NewestChosen'
  BY <1>1, <1>2 DEF LoginCallsOK, NewestChosen
<1>6. AcceptedAreSpent' /\ L!ChallengeUsedOnce'
  BY <1>1, <1>2 DEF AcceptedAreSpent, L!ChallengeUsedOnce
<1>7. L!LockoutArmed'
  BY <1>1 DEF L!LockoutArmed, L!At
<1> QED BY <1>4, <1>5, <1>6, <1>7

\* Every step keeps the invariant.
LEMMA LoginInvStep == LoginInv /\ [L!Next]_(L!vars) => LoginInv'
<1> SUFFICES ASSUME LoginInv, [L!Next]_(L!vars) PROVE LoginInv'
  OBVIOUS
<1>1. CASE L!Next
  BY <1>1, PasswordInv, VerifyInv, ConsumeInv, LoginTimeInv, ChallengeInv DEF L!Next
<1>2. CASE UNCHANGED L!vars
  BY <1>2 DEF L!vars, LoginInv, L!TypeOK, LoginCallsOK, NewestChosen, AcceptedAreSpent,
      L!ChallengeUsedOnce, L!LockoutArmed, L!At
<1> QED BY <1>1, <1>2

\* A wallet challenge logs in at most once and not when it was superseded, and
\* failures at the limit lock the account (verifyChallenge, recordFailure).
THEOREM LoginsSafe == Spec => []LoginsAreSafe
<1>1. Init => LoginInv
  BY LoginInit DEF Init
<1>2. LoginInv => LoginsAreSafe
  BY DEF LoginInv, LoginsAreSafe
<1> QED BY <1>1, <1>2, LoginPart, LoginInvStep, PTL DEF Spec

-----------------------------------------------------------------------------
(* Wallets *)

\* A step of the system is a step of the wallets or leaves them alone.
LEMMA WalletPart == [Next]_vars => [W!Next]_(W!vars)
<1> SUFFICES ASSUME [Next]_vars PROVE [W!Next]_(W!vars)
  OBVIOUS
<1>1. CASE Next
  BY <1>1 DEF Next, W!vars, walletVars
<1>2. CASE UNCHANGED vars
  BY <1>2 DEF vars, W!vars, walletVars
<1> QED BY <1>1, <1>2

\* The calls in flight: a call holds the version it has read, which is not
\* later than the present one.
WalletCall ==
    [op : {"idle"}] \cup [op : {"create"}, version : Nat, primary : BOOLEAN]
    \cup [op : {"remove", "sync", "configure", "update"}, id : WalletIds, copy : W!Wallet,
          dto : W!UpdateWalletDto, version : Nat]

\* A call whose version is the present one holds a copy that is the row.
FreshCopy(c) ==
    walletCalls[c].op \notin {"idle", "create"} /\ walletCalls[c].version = walletVersion =>
        /\ walletCalls[c].copy = wallets[walletCalls[c].id]
        /\ W!Exists(walletCalls[c].id)

\* What a request has read is no newer than the table, and the row while no newer.
WalletCallsOK ==
    /\ walletCalls \in [WalletCallers -> WalletCall]
    /\ walletVersion \in Nat /\ overlapped \in BOOLEAN
    /\ \A c \in WalletCallers :
         /\ walletCalls[c].op # "idle" => walletCalls[c].version <= walletVersion
         /\ FreshCopy(c)

\* Two wallets are not both primary.
OnePrimary == \A v, w \in WalletIds : wallets[v].primary /\ wallets[w].primary => v = w

\* A removed wallet is inactive.
RemovedInactive == \A w \in removed : wallets[w].status = "inactive"

\* The inductive invariant of the wallets.
WalletInv == W!TypeOK /\ WalletCallsOK /\ (~overlapped => OnePrimary /\ RemovedInactive)

\* The invariant holds of the empty table.
LEMMA WalletInit == W!Init => WalletInv
<1> SUFFICES ASSUME W!Init PROVE WalletInv
  OBVIOUS
<1>1. W!TypeOK /\ OnePrimary /\ RemovedInactive
  BY DEF W!Init, W!TypeOK, W!Wallet, OnePrimary, RemovedInactive
<1>2. WalletCallsOK
  BY DEF W!Init, WalletCallsOK, WalletCall, W!NoCall, FreshCopy
<1> QED BY <1>1, <1>2 DEF WalletInv

\* A call that reads leaves the rows alone.
LEMMA WalletReads ==
    ASSUME WalletInv, NEW c \in WalletCallers,
           \/ \E wish \in {"keep", "yes", "no"} : W!CreateCount(c, wish)
           \/ \E w \in WalletIds, op \in {"remove", "sync", "configure", "update"}, dto \in W!UpdateWalletDto :
                 W!FindOne(c, w, op, dto)
           \/ W!Fail(c)
    PROVE  WalletInv'
<1> USE DEF WalletInv
<1>1. wallets' = wallets /\ removed' = removed /\ walletVersion' = walletVersion /\ overlapped' = overlapped
  BY DEF W!CreateCount, W!FindOne, W!Fail
<1>2. W!TypeOK' /\ (~overlapped' => OnePrimary' /\ RemovedInactive')
  BY <1>1 DEF W!TypeOK, OnePrimary, RemovedInactive
<1>3. WalletCallsOK'
  <2>1. ASSUME NEW wish \in {"keep", "yes", "no"}, W!CreateCount(c, wish) PROVE WalletCallsOK'
    <3> DEFINE new == walletCalls'[c]
    <3>0. walletCalls' = [walletCalls EXCEPT ![c] = new] /\ new.op = "create" /\ new.version = walletVersion
      BY <2>1 DEF W!CreateCount, WalletCallsOK
    <3>1. new \in [op : {"create"}, version : Nat, primary : BOOLEAN]
      BY <2>1 DEF W!CreateCount, WalletCallsOK
    <3>2. new \in WalletCall
      BY <3>1 DEF WalletCall
    <3> HIDE DEF new
    <3> QED BY <1>1, <3>0, <3>2 DEF WalletCallsOK, FreshCopy, W!Exists
  <2>2. ASSUME NEW w \in WalletIds, NEW op \in {"remove", "sync", "configure", "update"},
               NEW dto \in W!UpdateWalletDto, W!FindOne(c, w, op, dto)
        PROVE  WalletCallsOK'
    <3> DEFINE new == [op |-> op, id |-> w, copy |-> wallets[w], dto |-> dto, version |-> walletVersion]
    <3>0. walletCalls' = [walletCalls EXCEPT ![c] = new] /\ W!Exists(w)
      BY <2>2 DEF W!FindOne
    <3>1. wallets[w] \in W!Wallet
      BY DEF W!TypeOK
    <3>2. new \in WalletCall
      BY <3>1 DEF WalletCall, WalletCallsOK
    <3>3. new.op = op /\ new.version = walletVersion /\ new.id = w /\ new.copy = wallets[w]
      OBVIOUS
    <3> HIDE DEF new
    <3> QED BY <1>1, <3>0, <3>2, <3>3 DEF WalletCallsOK, FreshCopy, W!Exists
  <2>3. CASE W!Fail(c)
    <3>1. W!NoCall \in WalletCall /\ W!NoCall.op = "idle"
      BY DEF W!NoCall, WalletCall
    <3> QED BY <1>1, <2>3, <3>1 DEF W!Fail, WalletCallsOK, FreshCopy, W!Exists
  <2> QED BY <2>1, <2>2, <2>3
<1> QED BY <1>2, <1>3

\* A write moves the version, so every copy read before is stale.
LEMMA WrittenOK ==
    ASSUME WalletCallsOK, NEW c \in WalletCallers, walletCalls[c].op # "idle", W!Written(c)
    PROVE  WalletCallsOK' /\ (~overlapped' => ~overlapped /\ walletCalls[c].version = walletVersion)
<1>1. W!NoCall \in WalletCall /\ W!NoCall.op = "idle"
  BY DEF W!NoCall, WalletCall
<1>2. \A d \in WalletCallers : walletCalls[d].op # "idle" => walletCalls[d].version \in Nat
  BY DEF WalletCallsOK, WalletCall
<1>3. walletCalls' \in [WalletCallers -> WalletCall] /\ walletVersion' \in Nat
      /\ \A d \in WalletCallers : walletCalls'[d].op # "idle" => walletCalls'[d] = walletCalls[d] /\ walletCalls[d].op # "idle"
  BY <1>1 DEF W!Written, WalletCallsOK
<1>4. \A d \in WalletCallers : walletCalls'[d].op # "idle" => walletCalls'[d].version < walletVersion'
  BY <1>2, <1>3 DEF W!Written, WalletCallsOK
<1>5. \A d \in WalletCallers : FreshCopy(d)'
  BY <1>2, <1>3, <1>4 DEF FreshCopy
<1>6. overlapped' \in BOOLEAN /\ (~overlapped' => ~overlapped /\ walletCalls[c].version = walletVersion)
  BY DEF W!Written
<1>7. WalletCallsOK'
  BY <1>2, <1>3, <1>4, <1>5, <1>6 DEF WalletCallsOK
<1> QED BY <1>6, <1>7

\* A request in flight is a record of WalletCall.
LEMMA CallTyped ==
    ASSUME WalletCallsOK, NEW c \in WalletCallers, walletCalls[c].op \in {"remove", "sync", "configure", "update"}
    PROVE  /\ walletCalls[c].id \in WalletIds /\ walletCalls[c].copy \in W!Wallet
           /\ walletCalls[c].dto \in W!UpdateWalletDto
  BY DEF WalletCallsOK, WalletCall

\* The rows after the update of the other primaries.
LEMMA UnsetRows ==
    ASSUME W!TypeOK
    PROVE  /\ W!UnsetPrimary(wallets) \in [WalletIds -> W!Wallet]
           /\ \A w \in WalletIds : /\ W!UnsetPrimary(wallets)[w].primary = FALSE
                                   /\ W!UnsetPrimary(wallets)[w].status = wallets[w].status
<1>1. \A w \in WalletIds : wallets[w] \in W!Wallet
  BY DEF W!TypeOK
<1>2. \A x \in W!Wallet : /\ [x EXCEPT !.primary = FALSE] \in W!Wallet /\ [x EXCEPT !.primary = FALSE].primary = FALSE
                         /\ [x EXCEPT !.primary = FALSE].status = x.status
  BY DEF W!Wallet
<1> QED BY <1>1, <1>2 DEF W!UnsetPrimary

\* Writing one row, either as it is and not more primary than it was, or after
\* the other primaries are unset.
LEMMA RowWrite ==
    ASSUME W!TypeOK, NEW w \in WalletIds, NEW row \in W!Wallet, NEW base \in {wallets, W!UnsetPrimary(wallets)},
           wallets' = [base EXCEPT ![w] = row]
    PROVE  /\ wallets' \in [WalletIds -> W!Wallet]
           /\ \A v \in WalletIds : v # w => wallets'[v].status = wallets[v].status
           /\ wallets'[w] = row
           /\ OnePrimary /\ (base = wallets => (row.primary => wallets[w].primary)) => OnePrimary'
<1>1. base \in [WalletIds -> W!Wallet] /\ \A v \in WalletIds : base[v].status = wallets[v].status
  BY UnsetRows DEF W!TypeOK
<1>2. \A v \in WalletIds : v # w => wallets'[v] = base[v]
  BY <1>1
<1>3. wallets'[w] = row /\ wallets' \in [WalletIds -> W!Wallet]
  BY <1>1
<1>4. ASSUME OnePrimary, base = wallets => (row.primary => wallets[w].primary) PROVE OnePrimary'
  <2>1. CASE base = wallets
    <3>1. \A v \in WalletIds : wallets'[v].primary => wallets[v].primary
      BY <1>2, <1>3, <1>4, <2>1
    <3> QED BY <1>4, <3>1 DEF OnePrimary
  <2>2. CASE base = W!UnsetPrimary(wallets)
    <3>1. \A v \in WalletIds : v # w => ~wallets'[v].primary
      BY <1>2, <2>2, UnsetRows
    <3> QED BY <3>1 DEF OnePrimary
  <2> QED BY <2>1, <2>2
<1> QED BY <1>1, <1>2, <1>3, <1>4

\* The insert of a new wallet, after the others were unset (createWallet).
LEMMA WalletCreateInv ==
    ASSUME WalletInv, NEW c \in WalletCallers, NEW w \in WalletIds, W!CreateCommit(c, w)
    PROVE  WalletInv'
<1> USE DEF WalletInv
<1> DEFINE row == [status |-> "active", primary |-> walletCalls[c].primary]
           base == IF walletCalls[c].primary THEN W!UnsetPrimary(wallets) ELSE wallets
<1>1. walletCalls[c].op = "create" /\ walletCalls[c].primary \in BOOLEAN
  BY DEF W!CreateCommit, WalletCallsOK, WalletCall
<1>2. row \in W!Wallet /\ base \in {wallets, W!UnsetPrimary(wallets)} /\ row.primary = walletCalls[c].primary
  BY <1>1 DEF W!Wallet
<1>3. wallets' = [base EXCEPT ![w] = row] /\ removed' = removed /\ ~W!Exists(w)
  BY DEF W!CreateCommit
<1>4. WalletCallsOK' /\ (~overlapped' => ~overlapped)
  BY <1>1, WrittenOK DEF W!CreateCommit
<1>5. base = wallets /\ walletCalls[c].primary => W!UnsetPrimary(wallets) = wallets
  OBVIOUS
<1> HIDE DEF row, base
<1>6. /\ wallets' \in [WalletIds -> W!Wallet]
      /\ \A v \in WalletIds : v # w => wallets'[v].status = wallets[v].status
      /\ wallets'[w] = row
      /\ OnePrimary /\ (base = wallets => (row.primary => wallets[w].primary)) => OnePrimary'
  BY <1>2, <1>3, RowWrite
<1>7. W!TypeOK'
  BY <1>3, <1>6 DEF W!TypeOK
<1>8. ~overlapped' => OnePrimary'
  <2>1. CASE walletCalls[c].primary
    <3>1. base = W!UnsetPrimary(wallets)
      BY <2>1 DEF base
    <3> QED BY <1>2, <1>3, <3>1, UnsetRows DEF OnePrimary, W!TypeOK
  <2>2. CASE ~walletCalls[c].primary
    BY <1>2, <1>4, <1>6, <2>2
  <2> QED BY <2>1, <2>2
<1>9. ~overlapped' => RemovedInactive'
  BY <1>3, <1>4, <1>6 DEF RemovedInactive, W!TypeOK, W!Exists
<1> QED BY <1>4, <1>7, <1>8, <1>9

\* updateWallet: the others are unset when it makes this one primary, then the copy is saved.
LEMMA WalletUpdateInv == ASSUME WalletInv, NEW c \in WalletCallers, W!Update(c) PROVE WalletInv'
<1> USE DEF WalletInv
<1> DEFINE call == walletCalls[c]
           w == call.id
           row == [status |-> IF call.dto.status = "keep" THEN call.copy.status ELSE call.dto.status,
                   primary |-> IF call.dto.primary = "keep" THEN call.copy.primary ELSE call.dto.primary = "yes"]
           base == IF call.dto.primary = "yes" THEN W!UnsetPrimary(wallets) ELSE wallets
<1>1. call.op = "update" /\ w \in WalletIds /\ call.copy \in W!Wallet /\ call.dto \in W!UpdateWalletDto
  BY CallTyped DEF W!Update
<1>2. row \in W!Wallet /\ base \in {wallets, W!UnsetPrimary(wallets)}
  BY <1>1 DEF W!Wallet, W!UpdateWalletDto
<1>3. /\ wallets' = [base EXCEPT ![w] = row]
      /\ removed' = IF call.dto.status = "active" THEN removed \ {w} ELSE removed
  BY DEF W!Update
<1>4. WalletCallsOK' /\ (~overlapped' => ~overlapped /\ call.copy = wallets[w])
  BY <1>1, WrittenOK DEF W!Update, WalletCallsOK, FreshCopy
<1>5. row.status = IF call.dto.status = "keep" THEN call.copy.status ELSE call.dto.status
  OBVIOUS
<1>a. call.dto.primary = "keep" => row.primary = call.copy.primary
  OBVIOUS
<1>b. call.dto.primary = "no" => row.primary = FALSE
  OBVIOUS
<1>c. call.dto.primary \in {"keep", "yes", "no"} /\ call.dto.status \in {"keep", "active", "inactive"}
  BY <1>1 DEF W!UpdateWalletDto
<1>d. base = IF call.dto.primary = "yes" THEN W!UnsetPrimary(wallets) ELSE wallets
  OBVIOUS
<1> HIDE DEF row, base
<1>6. /\ wallets' \in [WalletIds -> W!Wallet]
      /\ \A v \in WalletIds : v # w => wallets'[v].status = wallets[v].status
      /\ wallets'[w] = row
      /\ OnePrimary /\ (base = wallets => (row.primary => wallets[w].primary)) => OnePrimary'
  BY <1>1, <1>2, <1>3, RowWrite
<1>7. W!TypeOK'
  BY <1>3, <1>6 DEF W!TypeOK
<1>8. ~overlapped' => OnePrimary'
  <2>1. CASE call.dto.primary = "yes"
    <3>1. base = W!UnsetPrimary(wallets)
      BY <1>d, <2>1
    <3> QED BY <1>1, <1>2, <1>3, <3>1, UnsetRows DEF OnePrimary, W!TypeOK
  <2>2. CASE call.dto.primary # "yes"
    BY <1>4, <1>6, <1>a, <1>b, <1>c, <2>2
  <2> QED BY <2>1, <2>2
<1>9. ~overlapped' => RemovedInactive'
  BY <1>3, <1>4, <1>5, <1>6, <1>c DEF RemovedInactive, W!TypeOK
<1> QED BY <1>4, <1>7, <1>8, <1>9

\* removeWallet, syncBalance and configureMultisig save the copy they have read.
LEMMA WalletSaveInv ==
    ASSUME WalletInv, NEW c \in WalletCallers, W!Remove(c) \/ W!SyncBalance(c) \/ W!ConfigureMultisig(c)
    PROVE  WalletInv'
<1> USE DEF WalletInv
<1> DEFINE w == walletCalls[c].id
           copy == walletCalls[c].copy
<1>1. walletCalls[c].op # "idle" /\ w \in WalletIds /\ copy \in W!Wallet
  BY CallTyped DEF W!Remove, W!SyncBalance, W!ConfigureMultisig
<1>2. WalletCallsOK' /\ (~overlapped' => ~overlapped /\ copy = wallets[w])
  <2>1. walletCalls[c].op \notin {"idle", "create"} /\ W!Written(c)
    BY DEF W!Remove, W!SyncBalance, W!ConfigureMultisig, W!SaveCopy
  <2> QED BY <2>1, WrittenOK DEF WalletCallsOK, FreshCopy
<1>3. CASE W!Remove(c)
  <2> DEFINE row == [copy EXCEPT !.status = "inactive"]
  <2>1. row \in W!Wallet /\ row.status = "inactive" /\ row.primary = copy.primary
    BY <1>1 DEF W!Wallet
  <2>2. wallets' = [wallets EXCEPT ![w] = row] /\ removed' = removed \cup {w}
    BY <1>3 DEF W!Remove
  <2> HIDE DEF row
  <2>3. /\ wallets' \in [WalletIds -> W!Wallet]
        /\ \A v \in WalletIds : v # w => wallets'[v].status = wallets[v].status
        /\ wallets'[w] = row
        /\ OnePrimary /\ (row.primary => wallets[w].primary) => OnePrimary'
    BY <1>1, <2>1, <2>2, RowWrite
  <2>4. W!TypeOK'
    BY <1>1, <2>2, <2>3 DEF W!TypeOK
  <2>5. ~overlapped' => OnePrimary' /\ RemovedInactive'
    BY <1>1, <1>2, <2>1, <2>2, <2>3 DEF RemovedInactive, W!TypeOK
  <2> QED BY <1>2, <2>4, <2>5
<1>4. CASE W!SyncBalance(c) \/ W!ConfigureMultisig(c)
  <2>1. wallets' = [wallets EXCEPT ![w] = copy] /\ removed' = removed
    BY <1>4 DEF W!SyncBalance, W!ConfigureMultisig, W!SaveCopy
  <2>2. W!TypeOK'
    BY <1>1, <2>1 DEF W!TypeOK
  <2>3. ~overlapped' => wallets' = wallets
    BY <1>1, <1>2, <2>1 DEF W!TypeOK
  <2>4. ~overlapped' => OnePrimary' /\ RemovedInactive'
    BY <1>2, <2>1, <2>3 DEF OnePrimary, RemovedInactive
  <2> QED BY <1>2, <2>2, <2>4
<1> QED BY <1>3, <1>4

\* Every step keeps the invariant.
LEMMA WalletInvStep == WalletInv /\ [W!Next]_(W!vars) => WalletInv'
<1> SUFFICES ASSUME WalletInv, [W!Next]_(W!vars) PROVE WalletInv'
  OBVIOUS
<1>1. CASE W!Next
  <2>1. W!KeepAll \in W!UpdateWalletDto
    BY DEF W!KeepAll, W!UpdateWalletDto
  <2> QED BY <1>1, <2>1, WalletReads, WalletCreateInv, WalletUpdateInv, WalletSaveInv DEF W!Next
<1>2. CASE UNCHANGED W!vars
  BY <1>2 DEF W!vars, WalletInv, W!TypeOK, WalletCallsOK, FreshCopy, W!Exists, OnePrimary, RemovedInactive
<1> QED BY <1>1, <1>2

\* A set whose elements are all equal has at most one.
LEMMA AtMostOne ==
    ASSUME NEW T, \A x, y \in T : x = y
    PROVE  Cardinality(T) <= 1
<1>1. CASE T = {}
  BY <1>1, FS_EmptySet
<1>2. ASSUME NEW x \in T PROVE Cardinality(T) <= 1
  <2>1. T = {x}
    OBVIOUS
  <2>2. Cardinality({x}) = 1
    BY FS_Singleton, Zenon
  <2> QED BY <2>1, <2>2
<1> QED BY <1>1, <1>2

\* One primary wallet, and no removed wallet comes back, as long as no two requests
\* read the same row before either saves (wallet.service.ts).
THEOREM WalletsSound == Spec => []WalletsAreSound
<1>1. Init => WalletInv
  BY WalletInit DEF Init
<1>2. WalletInv => WalletsAreSound
  <2> SUFFICES ASSUME WalletInv PROVE W!WalletsAreSound
    BY DEF WalletsAreSound, WalletInv
  <2>1. ~overlapped => Cardinality({w \in WalletIds : wallets[w].primary}) <= 1
    BY AtMostOne DEF WalletInv, OnePrimary
  <2>2. W!Cardinality({w \in WalletIds : wallets[w].primary}) = Cardinality({w \in WalletIds : wallets[w].primary})
    BY DEF W!Cardinality, Cardinality
  <2> QED BY <2>1, <2>2 DEF W!WalletsAreSound, WalletInv, RemovedInactive
<1> QED BY <1>1, <1>2, WalletPart, WalletInvStep, PTL DEF Spec

-----------------------------------------------------------------------------
(* The multisig pool *)

\* The weight of MultisigPool is such a sum.
LEMMA TotalIs ==
    ASSUME NEW w PROVE P!Total(w) = SumOf(w, Keys)[Keys]
  BY DEF P!Total, P!MapThenSumSet, P!MapThenFoldSet, IsSum, SumOf, Pick

\* A threshold is reached when the weight is at least it and at least 1.
LEMMA MaxOne ==
    ASSUME NEW n \in Nat
    PROVE  P!Max({n, 1}) \in Nat /\ (\A t \in Nat : t >= P!Max({n, 1}) <=> t >= n /\ t >= 1)
  BY DEF P!Max

\* A step of the system is a step of the pool or leaves it alone.
LEMMA PoolPart == [Next]_vars => [P!Next]_(P!vars)
<1> SUFFICES ASSUME [Next]_vars PROVE [P!Next]_(P!vars)
  OBVIOUS
<1>1. CASE Next
  BY <1>1 DEF Next, P!vars, poolVars
<1>2. CASE UNCHANGED vars
  BY <1>2 DEF vars, P!vars, poolVars
<1> QED BY <1>1, <1>2

\* The weight of each key.
Weights == [Keys -> Nat]

\* A weight is a number.
LEMMA TotalNat == ASSUME NEW w \in Weights PROVE P!Total(w) \in Nat
<1>1. Keys \in SUBSET Keys /\ IsFiniteSet(Keys)
  BY PoolAssumption
<1>2. SumOf(w, Keys)[Keys] \in Nat
  <2>1. \A x \in Keys : w[x] \in Nat BY DEF Weights
  <2> QED BY <1>1, <2>1, SumNat
<1> QED BY <1>2, TotalIs

\* A signature of one key changes the weight by the weight of that key.
LEMMA TotalUpdate ==
    ASSUME NEW w \in Weights, NEW u \in Weights, NEW k \in Keys, \A x \in Keys : x # k => u[x] = w[x]
    PROVE  P!Total(u) = P!Total(w) - w[k] + u[k]
<1>1. SumOf(u, Keys)[Keys] = SumOf(w, Keys)[Keys] - w[k] + u[k]
  BY PoolAssumption, SumUpdate DEF Weights
<1> QED BY <1>1, TotalIs

\* Without signatures the weight is zero.
LEMMA TotalZero == P!Total([k \in Keys |-> 0]) = 0
  BY PoolAssumption, SumZero, TotalIs

\* An account that its own signers can still change.
Usable(weight, high) == P!Total(weight) >= high /\ P!Total(weight) >= 1

\* The requests in flight: addSignature between its reads and its commit,
\* broadcast between the submission and the save of its outcome.
PoolCall ==
    [at : {"idle"}] \cup [at : {"insert"}, tx : Nat, key : Keys, weight : Nat \ {0}]
    \cup [at : {"commit"}, tx : Nat, key : Keys, weight : Nat \ {0}, ready : BOOLEAN]
    \cup [at : {"submit"}, tx : Nat, sigs : Weights]
    \cup [at : {"save"}, tx : Nat, status : {"FAILED", "SUBMITTED", "CANCELLED"}]

\* The signatures reach the required weight.
Collected(tx) == P!Total(tx.sigs) >= tx.requiredWeight

\* What a call holds about the pool p is still so: nothing it relies on is ever
\* undone.
CallHolds(p, call) ==
    /\ call.at # "idle" => call.tx \in DOMAIN p
    /\ call.at = "commit" =>
          /\ p[call.tx].sigs[call.key] = 0
          /\ call.ready => P!Total(p[call.tx].sigs) + call.weight >= p[call.tx].requiredWeight
    /\ call.at = "submit" => Collected(p[call.tx])
    /\ call.at = "save" /\ call.status # "CANCELLED" => Collected(p[call.tx])
    /\ call.at = "save" /\ call.status = "SUBMITTED" => p[call.tx].applied

\* The types of the account, the pool and the calls.
PoolTypes ==
    /\ account \in [weight : Weights, high : Nat, seq : Nat]
    /\ pool \in Seq(P!MultisigTransaction)
    /\ poolCalls \in [PoolCallers -> PoolCall]
    /\ unchecked \in BOOLEAN /\ lostAnswers \in Nat

\* No two commits of a signature by the same key are in flight.
PoolCallsOK ==
    /\ \A c \in PoolCallers : CallHolds(pool, poolCalls[c])
    /\ \A c, d \in PoolCallers :
          poolCalls[c].at = "commit" /\ poolCalls[d].at = "commit" /\ c # d =>
             poolCalls[c].tx # poolCalls[d].tx \/ poolCalls[c].key # poolCalls[d].key

\* A transaction that can be applied next was built on the present account.
NextIsUsable ==
    /\ ~unchecked => Usable(account.weight, account.high)
    /\ \A i \in DOMAIN pool :
          /\ pool[i].seq <= account.seq + 1
          /\ pool[i].seq = account.seq + 1 /\ pool[i].checked /\ ~unchecked =>
                Usable(pool[i].weight, pool[i].high)

\* The inductive invariant of the pool.
PoolInv == PoolTypes /\ PoolCallsOK /\ P!PoolIsHonest /\ NextIsUsable

\* The account starts with the weight of its master key.
LEMMA InitialTotal == P!Total([k \in Keys |-> IF k = "master" THEN 1 ELSE 0]) = 1
<1> DEFINE z == [k \in Keys |-> 0]
           w == [k \in Keys |-> IF k = "master" THEN 1 ELSE 0]
<1>1. z \in Weights /\ w \in Weights /\ "master" \in Keys
  BY PoolAssumption DEF Weights
<1>2. P!Total(z) = 0
  BY TotalZero
<1>3. P!Total(w) = P!Total(z) - z["master"] + w["master"]
  BY <1>1, TotalUpdate
<1> QED BY <1>1, <1>2, <1>3

\* The invariant holds of the first account and the empty pool.
LEMMA PoolInit == P!Init => PoolInv
<1> SUFFICES ASSUME P!Init PROVE PoolInv
  OBVIOUS
<1> USE DEF P!Init
<1>1. PoolTypes
  BY EmptySeq DEF PoolTypes, Weights, PoolCall, P!NoCall
<1>2. PoolCallsOK
  BY DEF PoolCallsOK, CallHolds, P!NoCall
<1>3. P!PoolIsHonest
  BY DEF P!PoolIsHonest
<1>4. NextIsUsable
  BY InitialTotal DEF NextIsUsable, Usable
<1> QED BY <1>1, <1>2, <1>3, <1>4 DEF PoolInv

\* The fields a pooled transaction keeps, and those that only grow.
Grown(old, new) ==
    /\ new \in P!MultisigTransaction
    /\ new.weight = old.weight /\ new.high = old.high /\ new.seq = old.seq
    /\ new.checked = old.checked /\ new.requiredWeight = old.requiredWeight
    /\ P!Total(new.sigs) >= P!Total(old.sigs)
    /\ old.applied => new.applied

\* Every pooled transaction is one.
LEMMA PooledTyped ==
    ASSUME PoolTypes, NEW i \in DOMAIN pool
    PROVE  pool[i] \in P!MultisigTransaction
  BY DEF PoolTypes

\* The fields of a pooled transaction.
LEMMA PooledFields ==
    ASSUME NEW x \in P!MultisigTransaction
    PROVE  /\ x.weight \in Weights /\ x.high \in Nat /\ x.seq \in Nat /\ x.checked \in BOOLEAN
           /\ x.requiredWeight \in Nat /\ x.status \in P!Statuses /\ x.sigs \in Weights
           /\ x.late \in BOOLEAN /\ x.applied \in BOOLEAN
  BY DEF P!MultisigTransaction, Weights

\* A change of the status, the timebound or the mark of the ledger.
LEMMA StatusGrown ==
    ASSUME NEW x \in P!MultisigTransaction, NEW st \in P!Statuses
    PROVE  /\ Grown(x, [x EXCEPT !.status = st])
           /\ [x EXCEPT !.status = st].status = st /\ [x EXCEPT !.status = st].sigs = x.sigs
           /\ [x EXCEPT !.status = st].applied = x.applied
<1>1. P!Total(x.sigs) \in Nat
  BY PooledFields, TotalNat
<1>2. [x EXCEPT !.status = st].sigs = x.sigs
  BY DEF P!MultisigTransaction
<1> QED BY <1>1, <1>2 DEF Grown, P!MultisigTransaction

\* A transaction marked late has grown.
LEMMA LateGrown ==
    ASSUME NEW x \in P!MultisigTransaction, NEW y, y = [x EXCEPT !.late = TRUE]
    PROVE  Grown(x, y) /\ y.status = x.status /\ y.sigs = x.sigs /\ y.applied = x.applied
<1>1. P!Total(x.sigs) \in Nat
  BY PooledFields, TotalNat
<1>2. y \in P!MultisigTransaction
  BY DEF P!MultisigTransaction
<1>3. y.weight = x.weight /\ y.high = x.high /\ y.seq = x.seq /\ y.requiredWeight = x.requiredWeight
      /\ y.status = x.status /\ y.sigs = x.sigs
  BY DEF P!MultisigTransaction
<1>4. y.checked = x.checked
  BY DEF P!MultisigTransaction
<1>5. y.applied = x.applied
  BY DEF P!MultisigTransaction
<1>6. Grown(x, y)
  BY <1>1, <1>2, <1>3, <1>4, <1>5 DEF Grown
<1> QED BY <1>3, <1>5, <1>6

\* A transaction that was applied has grown.
LEMMA AppliedGrown ==
    ASSUME NEW x \in P!MultisigTransaction, NEW y, y = [x EXCEPT !.applied = TRUE]
    PROVE  Grown(x, y) /\ y.status = x.status /\ y.sigs = x.sigs /\ y.applied = TRUE
<1>1. P!Total(x.sigs) \in Nat
  BY PooledFields, TotalNat
<1>2. y \in P!MultisigTransaction
  BY DEF P!MultisigTransaction
<1>3. y.weight = x.weight /\ y.high = x.high /\ y.seq = x.seq /\ y.requiredWeight = x.requiredWeight
      /\ y.status = x.status /\ y.sigs = x.sigs
  BY DEF P!MultisigTransaction
<1>4. y.checked = x.checked
  BY DEF P!MultisigTransaction
<1>5. y.applied = TRUE
  BY DEF P!MultisigTransaction
<1>6. Grown(x, y)
  BY <1>1, <1>2, <1>3, <1>4, <1>5 DEF Grown
<1> QED BY <1>3, <1>5, <1>6

\* A signature of a key that has none yet adds its weight.
LEMMA SignedGrown ==
    ASSUME NEW x \in P!MultisigTransaction, NEW y \in P!MultisigTransaction, NEW k \in Keys, NEW n \in Nat,
           y.weight = x.weight, y.high = x.high, y.seq = x.seq, y.checked = x.checked,
           y.requiredWeight = x.requiredWeight, y.applied = x.applied,
           x.sigs[k] = 0, y.sigs = [x.sigs EXCEPT ![k] = n]
    PROVE  Grown(x, y) /\ P!Total(y.sigs) = P!Total(x.sigs) + n
<1>1. x.sigs \in Weights /\ y.sigs \in Weights
  BY PooledFields
<1>2. y.sigs[k] = n /\ \A j \in Keys : j # k => y.sigs[j] = x.sigs[j]
  BY <1>1 DEF Weights
<1>3. P!Total(x.sigs) \in Nat /\ P!Total(y.sigs) = P!Total(x.sigs) - x.sigs[k] + y.sigs[k]
  BY <1>1, <1>2, TotalNat, TotalUpdate
<1>4. P!Total(y.sigs) = P!Total(x.sigs) + n
  BY <1>2, <1>3
<1> QED BY <1>3, <1>4 DEF Grown

\* Changing one row so leaves the types, what was collected and what comes next.
LEMMA RowGrows ==
    ASSUME PoolTypes, NEW i \in DOMAIN pool, NEW row, Grown(pool[i], row), pool' = [pool EXCEPT ![i] = row]
    PROVE  /\ pool' \in Seq(P!MultisigTransaction) /\ DOMAIN pool' = DOMAIN pool
           /\ pool'[i] = row /\ \A j \in DOMAIN pool : j # i => pool'[j] = pool[j]
           /\ \A j \in DOMAIN pool : Grown(pool[j], pool'[j])
<1>1. row \in P!MultisigTransaction
  BY DEF Grown
<1>2. pool' \in Seq(P!MultisigTransaction) /\ DOMAIN pool' = DOMAIN pool
  BY <1>1, ExceptSeq DEF PoolTypes
<1>3. pool'[i] = row /\ \A j \in DOMAIN pool : j # i => pool'[j] = pool[j]
  OBVIOUS
<1>4. \A j \in DOMAIN pool : Grown(pool[j], pool[j])
  <2> TAKE j \in DOMAIN pool
  <2>1. pool[j] \in P!MultisigTransaction
    BY PooledTyped
  <2>2. P!Total(pool[j].sigs) \in Nat
    BY <2>1, PooledFields, TotalNat
  <2> QED BY <2>1, <2>2 DEF Grown
<1> QED BY <1>2, <1>3, <1>4

\* Signatures that suffice keep sufficing.
LEMMA CollectedStays ==
    ASSUME PoolTypes, NEW j \in DOMAIN pool, Grown(pool[j], pool'[j]), Collected(pool[j])
    PROVE  Collected(pool'[j])
<1>1. pool[j] \in P!MultisigTransaction /\ pool'[j] \in P!MultisigTransaction
  BY PooledTyped DEF Grown
<1>2. P!Total(pool[j].sigs) \in Nat /\ P!Total(pool'[j].sigs) \in Nat
  BY <1>1, PooledFields, TotalNat
<1>3. pool[j].requiredWeight \in Nat
  BY <1>1, PooledFields
<1> QED BY <1>2, <1>3 DEF Collected, Grown

\* What could be applied next still leaves a usable account.
LEMMA NextStays ==
    ASSUME PoolTypes, NextIsUsable, account' = account, unchecked' = unchecked, DOMAIN pool' = DOMAIN pool,
           \A j \in DOMAIN pool : Grown(pool[j], pool'[j])
    PROVE  NextIsUsable'
  BY DEF NextIsUsable, Usable, Grown

\* propose, for any transaction that would leave a usable account.
LEMMA ProposeInv ==
    ASSUME PoolInv, NEW category \in P!ThresholdCategory, NEW weight \in Weights, NEW high \in Nat,
           NEW checked \in BOOLEAN, checked /\ ~unchecked => Usable(weight, high),
           P!Propose(category, weight, high, checked)
    PROVE  PoolInv'
<1> USE DEF PoolInv
<1> DEFINE new == [category |-> category, weight |-> weight, high |-> high, seq |-> account.seq + 1,
                   checked |-> checked, requiredWeight |-> P!RequiredWeight(category),
                   status |-> "PENDING_SIGNATURES", sigs |-> [k \in Keys |-> 0],
                   late |-> FALSE, applied |-> FALSE]
<1>1. pool' = Append(pool, new) /\ account' = account /\ poolCalls' = poolCalls /\ unchecked' = unchecked
      /\ lostAnswers' = lostAnswers
  BY DEF P!Propose
<1>2. account.seq \in Nat /\ account.high \in Nat
  BY DEF PoolTypes
<1>3. P!RequiredWeight(category) \in Nat
  BY <1>2, MaxOne DEF P!RequiredWeight
<1>4. new \in P!MultisigTransaction
  BY <1>2, <1>3 DEF P!MultisigTransaction, Weights, P!Statuses
<1>5. new.status = "PENDING_SIGNATURES" /\ new.seq = account.seq + 1 /\ new.weight = weight /\ new.high = high
  OBVIOUS
<1>6. new.checked = checked
  OBVIOUS
<1> HIDE DEF new
<1>7. /\ pool' \in Seq(P!MultisigTransaction) /\ DOMAIN pool' = DOMAIN pool \cup {Len(pool) + 1}
      /\ pool'[Len(pool) + 1] = new /\ \A i \in DOMAIN pool : pool'[i] = pool[i]
      /\ Len(pool) \in Nat /\ DOMAIN pool = 1..Len(pool)
  BY <1>1, <1>4, AppendProperties DEF PoolTypes
<1>8. PoolTypes'
  BY <1>1, <1>7 DEF PoolTypes
<1>9. PoolCallsOK'
  BY <1>1, <1>7 DEF PoolCallsOK, CallHolds, Collected
<1>10. P!PoolIsHonest'
  BY <1>5, <1>7 DEF P!PoolIsHonest
<1>11. NextIsUsable'
  BY <1>1, <1>2, <1>5, <1>6, <1>7 DEF NextIsUsable
<1> QED BY <1>8, <1>9, <1>10, <1>11

\* setupMultisig and rotateSigners propose a change of the signers, others a payment.
LEMMA BuildInv ==
    ASSUME PoolInv,
           \/ \E dto \in Setups : P!BuildEnableMultisig(dto)
           \/ \E old, new \in Keys, weight \in 1..2 : P!BuildRotateKey(old, new, weight)
           \/ P!ProposePayment
    PROVE  PoolInv'
<1> USE DEF PoolInv
<1>0. account.weight \in Weights /\ account.high \in Nat
  BY DEF PoolTypes
<1>1. ASSUME NEW dto \in Setups, P!BuildEnableMultisig(dto) PROVE PoolInv'
  <2> DEFINE w == P!ResultingSigners(dto.weights)
             h == IF dto.high = 0 THEN account.high ELSE dto.high
  <2>1. w \in Weights /\ dto.high \in Nat
    BY <1>0, PoolAssumption DEF P!ResultingSigners, Weights
  <2>2. P!Propose("HIGH", w, h, dto.high # 0) /\ P!Total(w) >= 1 /\ dto.high <= P!Total(w)
    BY <1>1 DEF P!BuildEnableMultisig, P!ResultingSigners
  <2>3. h \in Nat /\ (dto.high # 0) \in BOOLEAN /\ "HIGH" \in P!ThresholdCategory /\ (dto.high # 0 => h = dto.high)
    BY <1>0, <2>1 DEF P!ThresholdCategory
  <2> HIDE DEF w, h
  <2>4. dto.high # 0 => Usable(w, h)
    BY <2>1, <2>2, <2>3, TotalNat DEF Usable
  <2> QED BY <2>1, <2>2, <2>3, <2>4, ProposeInv
<1>2. ASSUME NEW old \in Keys, NEW new \in Keys, NEW weight \in 1..2, P!BuildRotateKey(old, new, weight) PROVE PoolInv'
  <2> DEFINE u == [account.weight EXCEPT ![new] = weight]
             w == [u EXCEPT ![old] = 0]
             same == weight = account.weight[old]
  <2>1. old # new /\ account.weight[new] = 0 /\ P!Propose("HIGH", w, account.high, same)
    BY <1>2 DEF P!BuildRotateKey
  <2>2. u \in Weights /\ u[new] = weight /\ u[old] = account.weight[old] /\ weight \in Nat
        /\ \A k \in Keys : k # new => u[k] = account.weight[k]
    BY <1>0, <2>1 DEF Weights
  <2>3. w \in Weights /\ w[old] = 0 /\ \A k \in Keys : k # old => w[k] = u[k]
    BY <2>2 DEF Weights
  <2> HIDE DEF u, w
  <2>4. P!Total(u) = P!Total(account.weight) - account.weight[new] + u[new]
    BY <1>0, <2>2, TotalUpdate
  <2>5. P!Total(w) = P!Total(u) - u[old] + w[old]
    BY <2>2, <2>3, TotalUpdate
  <2>6. P!Total(account.weight) \in Nat /\ account.weight[old] \in Nat
    BY <1>0, TotalNat DEF Weights
  <2>7. same => P!Total(w) = P!Total(account.weight)
    BY <2>1, <2>2, <2>3, <2>4, <2>5, <2>6
  <2>8. same /\ ~unchecked => Usable(w, account.high)
    BY <2>7 DEF NextIsUsable, Usable
  <2>9. same \in BOOLEAN /\ "HIGH" \in P!ThresholdCategory
    BY DEF P!ThresholdCategory
  <2> HIDE DEF same
  <2> QED BY <1>0, <2>1, <2>3, <2>8, <2>9, ProposeInv
<1>3. CASE P!ProposePayment
  <2>1. P!Propose("MEDIUM", account.weight, account.high, TRUE) /\ "MEDIUM" \in P!ThresholdCategory
    BY <1>3 DEF P!ProposePayment, P!ThresholdCategory
  <2>2. ~unchecked => Usable(account.weight, account.high)
    BY DEF NextIsUsable
  <2> QED BY <1>0, <2>1, <2>2, ProposeInv
<1> QED BY <1>1, <1>2, <1>3

\* A status or a timebound changes and no call does.
LEMMA ElapseInv ==
    ASSUME PoolInv, NEW i \in DOMAIN pool,
           P!ExpireIfElapsed(i, "PENDING_SIGNATURES") \/ P!ExpireIfElapsed(i, "READY") \/ P!Elapse(i)
    PROVE  PoolInv'
<1> USE DEF PoolInv
<1>0. pool[i] \in P!MultisigTransaction
  BY PooledTyped
<1>1. PICK row : /\ pool' = [pool EXCEPT ![i] = row] /\ Grown(pool[i], row) /\ row.sigs = pool[i].sigs
                 /\ row.status \in {pool[i].status, "EXPIRED"} /\ row.applied = pool[i].applied
  <2>1. CASE P!Elapse(i)
    <3>1. pool' = [pool EXCEPT ![i] = [pool[i] EXCEPT !.late = TRUE]]
      BY <2>1 DEF P!Elapse
    <3>2. Grown(pool[i], [pool[i] EXCEPT !.late = TRUE]) /\ [pool[i] EXCEPT !.late = TRUE].sigs = pool[i].sigs
          /\ [pool[i] EXCEPT !.late = TRUE].status = pool[i].status /\ [pool[i] EXCEPT !.late = TRUE].applied = pool[i].applied
      BY <1>0, LateGrown
    <3> QED BY <3>1, <3>2
  <2>2. CASE P!ExpireIfElapsed(i, "PENDING_SIGNATURES") \/ P!ExpireIfElapsed(i, "READY")
    <3>1. pool' = [pool EXCEPT ![i] = [pool[i] EXCEPT !.status = "EXPIRED"]]
      BY <2>2 DEF P!ExpireIfElapsed
    <3>2. "EXPIRED" \in P!Statuses
      BY DEF P!Statuses
    <3>3. Grown(pool[i], [pool[i] EXCEPT !.status = "EXPIRED"])
          /\ [pool[i] EXCEPT !.status = "EXPIRED"].sigs = pool[i].sigs
          /\ [pool[i] EXCEPT !.status = "EXPIRED"].status = "EXPIRED"
          /\ [pool[i] EXCEPT !.status = "EXPIRED"].applied = pool[i].applied
      BY <1>0, <3>2, StatusGrown
    <3> QED BY <3>1, <3>3
  <2> QED BY <2>1, <2>2
<1>2. account' = account /\ poolCalls' = poolCalls /\ unchecked' = unchecked /\ lostAnswers' = lostAnswers
  BY DEF P!ExpireIfElapsed, P!Elapse
<1>3. /\ pool' \in Seq(P!MultisigTransaction) /\ DOMAIN pool' = DOMAIN pool
      /\ pool'[i] = row /\ \A j \in DOMAIN pool : j # i => pool'[j] = pool[j]
      /\ \A j \in DOMAIN pool : Grown(pool[j], pool'[j])
  BY <1>1, RowGrows
<1>a. \A j \in DOMAIN pool : pool'[j].sigs = pool[j].sigs /\ pool'[j].requiredWeight = pool[j].requiredWeight
                             /\ pool'[j].applied = pool[j].applied
  BY <1>1, <1>3 DEF Grown
<1>4. PoolTypes'
  BY <1>2, <1>3 DEF PoolTypes
<1>5. PoolCallsOK'
  BY <1>2, <1>3, <1>a DEF PoolCallsOK, CallHolds, Collected
<1>6. P!PoolIsHonest'
  BY <1>1, <1>3, <1>a DEF P!PoolIsHonest
<1>7. NextIsUsable'
  BY <1>2, <1>3, NextStays
<1> QED BY <1>4, <1>5, <1>6, <1>7

\* A step that changes one call only.
LEMMA CallOnly ==
    ASSUME PoolInv, UNCHANGED <<account, pool, unchecked, lostAnswers>>, NEW c \in PoolCallers, NEW call \in PoolCall,
           poolCalls' = [poolCalls EXCEPT ![c] = call], CallHolds(pool, call),
           call.at = "commit" => \A d \in PoolCallers \ {c} :
              poolCalls[d].at = "commit" => poolCalls[d].tx # call.tx \/ poolCalls[d].key # call.key
    PROVE  PoolInv'
<1> USE DEF PoolInv
<1>1. PoolTypes'
  BY DEF PoolTypes
<1>2. PoolCallsOK'
  <2>1. \A d \in PoolCallers : poolCalls'[d] = IF d = c THEN call ELSE poolCalls[d]
    BY DEF PoolTypes
  <2>2. \A d \in PoolCallers : CallHolds(pool', poolCalls'[d])
    BY <2>1 DEF PoolCallsOK
  <2> QED BY <2>1, <2>2 DEF PoolCallsOK
<1>3. P!PoolIsHonest' /\ NextIsUsable'
  BY DEF P!PoolIsHonest, NextIsUsable
<1> QED BY <1>1, <1>2, <1>3

\* addSignature, broadcast and cancel read the transaction and check its status.
LEMMA CheckInv ==
    ASSUME PoolInv, NEW c \in PoolCallers, NEW i \in DOMAIN pool,
           P!BroadcastCheck(c, i) \/ P!CancelCheck(c, i) \/ \E k \in Keys : P!SignCheck(c, i, k)
    PROVE  PoolInv'
<1> USE DEF PoolInv
<1>0. i \in Nat /\ pool[i] \in P!MultisigTransaction
  BY PooledTyped DEF PoolTypes
<1>1. CASE P!BroadcastCheck(c, i)
  <2> DEFINE call == [at |-> "submit", tx |-> i, sigs |-> pool[i].sigs]
  <2>1. call \in PoolCall /\ call.at = "submit" /\ call.tx = i
    BY <1>0, PooledFields DEF PoolCall
  <2>2. poolCalls' = [poolCalls EXCEPT ![c] = call] /\ UNCHANGED <<account, pool, unchecked, lostAnswers>> /\ Collected(pool[i])
    BY <1>1 DEF P!BroadcastCheck, P!PoolIsHonest, Collected
  <2> HIDE DEF call
  <2>3. CallHolds(pool, call)
    BY <2>1, <2>2 DEF CallHolds
  <2> QED BY <2>1, <2>2, <2>3, CallOnly
<1>2. CASE P!CancelCheck(c, i)
  <2> DEFINE call == [at |-> "save", tx |-> i, status |-> "CANCELLED"]
  <2>1. call \in PoolCall /\ call.at = "save" /\ call.tx = i /\ call.status = "CANCELLED"
    BY <1>0 DEF PoolCall
  <2>2. poolCalls' = [poolCalls EXCEPT ![c] = call] /\ UNCHANGED <<account, pool, unchecked, lostAnswers>>
    BY <1>2 DEF P!CancelCheck
  <2> HIDE DEF call
  <2>3. CallHolds(pool, call)
    BY <2>1, <2>2 DEF CallHolds
  <2> QED BY <2>1, <2>2, <2>3, CallOnly
<1>3. ASSUME NEW k \in Keys, P!SignCheck(c, i, k) PROVE PoolInv'
  <2> DEFINE call == [at |-> "insert", tx |-> i, key |-> k, weight |-> account.weight[k]]
  <2>0. account.weight[k] \in Nat \ {0}
    BY <1>3 DEF P!SignCheck, PoolTypes, Weights
  <2>1. call \in PoolCall /\ call.at = "insert" /\ call.tx = i
    BY <1>0, <2>0 DEF PoolCall
  <2>2. poolCalls' = [poolCalls EXCEPT ![c] = call] /\ UNCHANGED <<account, pool, unchecked, lostAnswers>>
    BY <1>3 DEF P!SignCheck
  <2> HIDE DEF call
  <2>3. CallHolds(pool, call)
    BY <2>1, <2>2 DEF CallHolds
  <2> QED BY <2>1, <2>2, <2>3, CallOnly
<1> QED BY <1>1, <1>2, <1>3

\* What the calls of each kind carry.
LEMMA CallFields ==
    ASSUME PoolTypes, NEW c \in PoolCallers
    PROVE  /\ poolCalls[c].at \in {"insert", "commit"} =>
                poolCalls[c].key \in Keys /\ poolCalls[c].weight \in Nat \ {0}
           /\ poolCalls[c].at # "idle" => poolCalls[c].tx \in Nat
           /\ poolCalls[c].at = "commit" => poolCalls[c].ready \in BOOLEAN
           /\ poolCalls[c].at = "submit" => poolCalls[c].sigs \in Weights
           /\ poolCalls[c].at = "save" => poolCalls[c].status \in {"FAILED", "SUBMITTED", "CANCELLED"}
<1>1. poolCalls[c] \in PoolCall
  BY DEF PoolTypes
<1> QED BY <1>1 DEF PoolCall

\* An idle call holds of every pool.
LEMMA IdleCall == P!NoCall \in PoolCall /\ P!NoCall.at = "idle" /\ (\A p : CallHolds(p, P!NoCall))
  BY DEF P!NoCall, PoolCall, CallHolds

\* addSignature inserts the signature, unless the key signed in the meantime.
LEMMA InsertInv == ASSUME PoolInv, NEW c \in PoolCallers, P!SignInsert(c) PROVE PoolInv'
<1> USE DEF PoolInv
<1> DEFINE call == poolCalls[c]
           tx == pool[call.tx]
           ready == P!Total(tx.sigs) + call.weight >= tx.requiredWeight
           new == [at |-> "commit", tx |-> call.tx, key |-> call.key, weight |-> call.weight, ready |-> ready]
<1>0. UNCHANGED <<account, pool, unchecked, lostAnswers>> /\ call.at = "insert"
  BY DEF P!SignInsert, P!At
<1>1. /\ call.tx \in DOMAIN pool /\ call.tx \in Nat /\ call.key \in Keys /\ call.weight \in Nat \ {0}
  BY <1>0, CallFields DEF PoolCallsOK, CallHolds
<1>2. CASE tx.sigs[call.key] > 0
  <2>1. poolCalls' = [poolCalls EXCEPT ![c] = P!NoCall]
    BY <1>2 DEF P!SignInsert, P!Finish
  <2> QED BY <1>0, <2>1, IdleCall, CallOnly
<1>3. CASE ~(tx.sigs[call.key] > 0)
  <2>1. poolCalls' = [poolCalls EXCEPT ![c] = new]
    BY <1>3 DEF P!SignInsert
  <2>2. new \in PoolCall
    BY <1>1 DEF PoolCall
  <2>3. new.at = "commit" /\ new.tx = call.tx /\ new.key = call.key /\ new.weight = call.weight
    OBVIOUS
  <2>4. new.ready = ready
    OBVIOUS
  <2>5. tx.sigs[call.key] = 0
    <3>1. tx.sigs \in Weights
      BY <1>1, PooledTyped, PooledFields
    <3> QED BY <1>1, <1>3, <3>1 DEF Weights
  <2>6. \A d \in PoolCallers \ {c} :
           poolCalls[d].at = "commit" => poolCalls[d].tx # call.tx \/ poolCalls[d].key # call.key
    BY DEF P!SignInsert, P!At
  <2> HIDE DEF new
  <2>7. CallHolds(pool, new)
    BY <1>1, <2>3, <2>4, <2>5 DEF CallHolds
  <2> QED BY <1>0, <2>1, <2>2, <2>3, <2>6, <2>7, CallOnly
<1> QED BY <1>2, <1>3

\* What a call holds stays so while rows grow and no other call spends its key.
LEMMA HoldsStays ==
    ASSUME PoolTypes, NEW c \in PoolCallers, CallHolds(pool, poolCalls[c]), DOMAIN pool' = DOMAIN pool,
           \A j \in DOMAIN pool : Grown(pool[j], pool'[j]),
           poolCalls[c].at = "commit" => pool'[poolCalls[c].tx].sigs[poolCalls[c].key] = 0
    PROVE  CallHolds(pool', poolCalls[c])
<1> DEFINE call == poolCalls[c]
<1>1. call.at # "idle" => call.tx \in DOMAIN pool /\ call.tx \in DOMAIN pool'
  BY DEF CallHolds
<1>2. call.at # "idle" /\ Collected(pool[call.tx]) => Collected(pool'[call.tx])
  BY <1>1, CollectedStays
<1>3. call.at # "idle" /\ pool[call.tx].applied => pool'[call.tx].applied
  BY <1>1 DEF Grown
<1>4. ASSUME call.at = "commit", call.ready
      PROVE  P!Total(pool'[call.tx].sigs) + call.weight >= pool'[call.tx].requiredWeight
  <2>1. Grown(pool[call.tx], pool'[call.tx]) /\ call.weight \in Nat
        /\ P!Total(pool[call.tx].sigs) + call.weight >= pool[call.tx].requiredWeight
    BY <1>1, <1>4, CallFields DEF CallHolds
  <2>2. pool[call.tx] \in P!MultisigTransaction /\ pool'[call.tx] \in P!MultisigTransaction
    BY <1>1, <1>4, <2>1, PooledTyped DEF Grown
  <2>3. P!Total(pool[call.tx].sigs) \in Nat /\ P!Total(pool'[call.tx].sigs) \in Nat
        /\ pool[call.tx].requiredWeight \in Nat
    BY <2>2, PooledFields, TotalNat
  <2> QED BY <2>1, <2>3 DEF Grown
<1> QED BY <1>1, <1>2, <1>3, <1>4 DEF CallHolds

\* A step that changes the transaction of its call: what the other calls hold
\* stays so when only the key of the call gets a signature.
LEMMA RowAndCall ==
    ASSUME PoolInv, NEW c \in PoolCallers, poolCalls[c].at # "idle", NEW row, Grown(pool[poolCalls[c].tx], row),
           pool' = [pool EXCEPT ![poolCalls[c].tx] = row],
           NEW call \in PoolCall, poolCalls' = [poolCalls EXCEPT ![c] = call],
           call.at # "commit", CallHolds(pool', call),
           \A k \in Keys : row.sigs[k] = pool[poolCalls[c].tx].sigs[k] \/ (poolCalls[c].at = "commit" /\ poolCalls[c].key = k)
    PROVE  /\ PoolCallsOK' /\ pool' \in Seq(P!MultisigTransaction) /\ DOMAIN pool' = DOMAIN pool
           /\ pool'[poolCalls[c].tx] = row
           /\ \A j \in DOMAIN pool : j # poolCalls[c].tx => pool'[j] = pool[j]
           /\ \A j \in DOMAIN pool : Grown(pool[j], pool'[j])
<1> USE DEF PoolInv
<1> DEFINE i == poolCalls[c].tx
<1>0. i \in DOMAIN pool
  BY DEF PoolCallsOK, CallHolds
<1>1. /\ pool' \in Seq(P!MultisigTransaction) /\ DOMAIN pool' = DOMAIN pool
      /\ pool'[i] = row /\ \A j \in DOMAIN pool : j # i => pool'[j] = pool[j]
      /\ \A j \in DOMAIN pool : Grown(pool[j], pool'[j])
  BY <1>0, RowGrows
<1>2. \A d \in PoolCallers : poolCalls'[d] = IF d = c THEN call ELSE poolCalls[d]
  BY DEF PoolTypes
<1>3. ASSUME NEW d \in PoolCallers, d # c PROVE CallHolds(pool', poolCalls[d])
  <2>1. CallHolds(pool, poolCalls[d])
    BY DEF PoolCallsOK
  <2>2. ASSUME poolCalls[d].at = "commit" PROVE pool'[poolCalls[d].tx].sigs[poolCalls[d].key] = 0
    <3>1. pool[poolCalls[d].tx].sigs[poolCalls[d].key] = 0 /\ poolCalls[d].key \in Keys /\ poolCalls[d].tx \in DOMAIN pool
      BY <2>1, <2>2, CallFields DEF CallHolds
    <3>2. poolCalls[d].tx = i => row.sigs[poolCalls[d].key] = pool[i].sigs[poolCalls[d].key]
      BY <1>3, <2>2, <3>1 DEF PoolCallsOK
    <3> QED BY <1>1, <3>1, <3>2
  <2> QED BY <1>1, <2>1, <2>2, HoldsStays
<1>4. PoolCallsOK'
  <2>1. \A d \in PoolCallers : CallHolds(pool', poolCalls'[d])
    BY <1>2, <1>3
  <2>2. \A d, e \in PoolCallers :
           poolCalls'[d].at = "commit" /\ poolCalls'[e].at = "commit" /\ d # e =>
              poolCalls'[d].tx # poolCalls'[e].tx \/ poolCalls'[d].key # poolCalls'[e].key
    BY <1>2 DEF PoolCallsOK
  <2> QED BY <2>1, <2>2 DEF PoolCallsOK
<1> QED BY <1>1, <1>4

\* addSignature commits the signature and the new status.
LEMMA CommitInv == ASSUME PoolInv, NEW c \in PoolCallers, P!SignCommit(c) PROVE PoolInv'
<1> USE DEF PoolInv
<1> DEFINE call == poolCalls[c]
           x == pool[call.tx]
           st == IF call.ready THEN "READY" ELSE x.status
           sigs == [x.sigs EXCEPT ![call.key] = call.weight]
           row == [x EXCEPT !.sigs = sigs, !.status = st]
<1>0. /\ call.at = "commit" /\ call.tx \in DOMAIN pool /\ call.key \in Keys /\ call.weight \in Nat
      /\ x.sigs[call.key] = 0
      /\ call.ready => P!Total(x.sigs) + call.weight >= x.requiredWeight
  BY CallFields DEF P!SignCommit, P!At, PoolCallsOK, CallHolds
<1>1. account' = account /\ unchecked' = unchecked /\ lostAnswers' = lostAnswers
      /\ poolCalls' = [poolCalls EXCEPT ![c] = P!NoCall]
  BY DEF P!SignCommit, P!Finish
<1>2. x \in P!MultisigTransaction /\ x.sigs \in Weights
  BY <1>0, PooledTyped, PooledFields
<1>3. st \in P!Statuses
  BY <1>2, PooledFields DEF P!Statuses
<1>4. pool' = [pool EXCEPT ![call.tx] = row]
  BY <1>0, <1>2 DEF P!SignCommit
<1>5. /\ Grown(x, row) /\ row.status = st /\ row.sigs = sigs
      /\ row.applied = x.applied /\ P!Total(row.sigs) = P!Total(x.sigs) + call.weight
  <2>1. /\ row \in P!MultisigTransaction /\ row.status = st /\ row.sigs = sigs
        /\ row.weight = x.weight /\ row.high = x.high /\ row.seq = x.seq /\ row.requiredWeight = x.requiredWeight
    BY <1>0, <1>2, <1>3 DEF P!MultisigTransaction, Weights
  <2>2. row.checked = x.checked
    BY <1>2 DEF P!MultisigTransaction
  <2>3. row.applied = x.applied
    BY <1>2 DEF P!MultisigTransaction
  <2> HIDE DEF row, st
  <2>4. Grown(x, row) /\ P!Total(row.sigs) = P!Total(x.sigs) + call.weight
    BY <1>0, <1>2, <2>1, <2>2, <2>3, SignedGrown
  <2> QED BY <2>1, <2>3, <2>4
<1>6. st \in {"READY", x.status} /\ (st = "READY" /\ x.status # "READY" => call.ready)
  OBVIOUS
<1> HIDE DEF row, st
<1>7. \A k \in Keys : row.sigs[k] = x.sigs[k] \/ (call.at = "commit" /\ call.key = k)
  BY <1>0, <1>2, <1>5 DEF Weights
<1>8. /\ PoolCallsOK' /\ pool' \in Seq(P!MultisigTransaction) /\ DOMAIN pool' = DOMAIN pool
      /\ pool'[call.tx] = row /\ \A j \in DOMAIN pool : j # call.tx => pool'[j] = pool[j]
      /\ \A j \in DOMAIN pool : Grown(pool[j], pool'[j])
  BY <1>0, <1>1, <1>4, <1>5, <1>7, IdleCall, RowAndCall, ZenonT(30)
<1>9. PoolTypes'
  BY <1>1, <1>8, IdleCall DEF PoolTypes
<1>10. NextIsUsable'
  BY <1>1, <1>8, NextStays
<1>11. P!PoolIsHonest'
  <2>1. row.status \in {"READY", "SUBMITTED", "FAILED"} => P!Total(row.sigs) >= row.requiredWeight
    <3>1. CASE x.status \in {"READY", "SUBMITTED", "FAILED"}
      <4>1. Collected(x)
        BY <1>0, <3>1 DEF P!PoolIsHonest, Collected
      <4> QED BY <1>0, <1>8, <4>1, CollectedStays DEF Collected
    <3>2. CASE x.status \notin {"READY", "SUBMITTED", "FAILED"}
      BY <1>0, <1>5, <1>6, <3>2 DEF Grown
    <3> QED BY <3>1, <3>2
  <2>2. row.status = "SUBMITTED" => row.applied
    BY <1>0, <1>5, <1>6 DEF P!PoolIsHonest
  <2> QED BY <1>8, <2>1, <2>2 DEF P!PoolIsHonest
<1> QED BY <1>8, <1>9, <1>10, <1>11

\* broadcast and cancel save the outcome.
LEMMA SaveOutcomeInv == ASSUME PoolInv, NEW c \in PoolCallers, P!BroadcastSave(c) PROVE PoolInv'
<1> USE DEF PoolInv
<1> DEFINE call == poolCalls[c]
           x == pool[call.tx]
           row == [x EXCEPT !.status = call.status]
<1>0. /\ call.at = "save" /\ call.tx \in DOMAIN pool /\ call.status \in {"FAILED", "SUBMITTED", "CANCELLED"}
      /\ call.status # "CANCELLED" => Collected(x)
      /\ call.status = "SUBMITTED" => x.applied
  BY CallFields DEF P!BroadcastSave, P!At, PoolCallsOK, CallHolds
<1>1. account' = account /\ unchecked' = unchecked /\ lostAnswers' = lostAnswers
      /\ poolCalls' = [poolCalls EXCEPT ![c] = P!NoCall] /\ pool' = [pool EXCEPT ![call.tx] = row]
  BY DEF P!BroadcastSave, P!Finish
<1>2. x \in P!MultisigTransaction /\ call.status \in P!Statuses
  BY <1>0, PooledTyped DEF P!Statuses
<1>3. Grown(x, row) /\ row.status = call.status /\ row.sigs = x.sigs /\ row.applied = x.applied
  BY <1>2, StatusGrown
<1> HIDE DEF row
<1>4. /\ PoolCallsOK' /\ pool' \in Seq(P!MultisigTransaction) /\ DOMAIN pool' = DOMAIN pool
      /\ pool'[call.tx] = row /\ \A j \in DOMAIN pool : j # call.tx => pool'[j] = pool[j]
      /\ \A j \in DOMAIN pool : Grown(pool[j], pool'[j])
  BY <1>0, <1>1, <1>3, IdleCall, RowAndCall
<1>5. PoolTypes'
  BY <1>1, <1>4, IdleCall DEF PoolTypes
<1>6. NextIsUsable'
  BY <1>1, <1>4, NextStays
<1>7. P!PoolIsHonest'
  BY <1>0, <1>3, <1>4 DEF P!PoolIsHonest, Collected, Grown
<1> QED BY <1>4, <1>5, <1>6, <1>7

\* broadcast submits: the ledger applies it or not, and the answer may be lost.
LEMMA SubmitInv ==
    ASSUME PoolInv, NEW c \in PoolCallers, NEW lost \in BOOLEAN, P!BroadcastSubmit(c, lost)
    PROVE  PoolInv'
<1> USE DEF PoolInv
<1> DEFINE i == poolCalls[c].tx
           x == pool[i]
<1>0. poolCalls[c].at = "submit" /\ i \in DOMAIN pool /\ i \in Nat /\ Collected(x) /\ x \in P!MultisigTransaction
  BY CallFields, PooledTyped DEF P!BroadcastSubmit, P!At, PoolCallsOK, CallHolds
<1>1. CASE ~P!LedgerAccepts(x, poolCalls[c].sigs)
  <2> DEFINE call == [at |-> "save", tx |-> i, status |-> "FAILED"]
  <2>1. call \in PoolCall /\ call.at = "save" /\ call.tx = i /\ call.status = "FAILED"
    BY <1>0 DEF PoolCall
  <2>2. poolCalls' = [poolCalls EXCEPT ![c] = call] /\ UNCHANGED <<account, pool, unchecked, lostAnswers>>
    BY <1>1 DEF P!BroadcastSubmit
  <2> HIDE DEF call
  <2>3. CallHolds(pool, call)
    BY <1>0, <2>1 DEF CallHolds
  <2> QED BY <2>1, <2>2, <2>3, CallOnly
<1>2. CASE P!LedgerAccepts(x, poolCalls[c].sigs)
  <2> DEFINE st == IF lost THEN "FAILED" ELSE "SUBMITTED"
             call == [at |-> "save", tx |-> i, status |-> st]
             row == [x EXCEPT !.applied = TRUE]
  <2>1. call \in PoolCall /\ call.at = "save" /\ call.tx = i
    BY <1>0 DEF PoolCall
  <2>2. /\ account' = [weight |-> x.weight, high |-> x.high, seq |-> x.seq]
        /\ pool' = [pool EXCEPT ![i] = row]
        /\ unchecked' = (unchecked \/ ~x.checked)
        /\ lostAnswers' = lostAnswers + (IF lost THEN 1 ELSE 0)
        /\ poolCalls' = [poolCalls EXCEPT ![c] = call]
    BY <1>2 DEF P!BroadcastSubmit
  <2>3. x.seq = account.seq + 1
    BY <1>2 DEF P!LedgerAccepts
  <2>4. Grown(x, row) /\ row.status = x.status /\ row.sigs = x.sigs /\ row.applied = TRUE
    BY <1>0, AppliedGrown
  <2> HIDE DEF row, call
  <2>5. pool'[i] = row
    BY <1>0, <2>2 DEF PoolTypes
  <2>6. CallHolds(pool', call)
    <3>1. Collected(row)
      BY <1>0, <2>4 DEF Collected, Grown
    <3> QED BY <1>0, <2>1, <2>2, <2>4, <2>5, <3>1 DEF CallHolds, PoolTypes
  <2>7. /\ PoolCallsOK' /\ pool' \in Seq(P!MultisigTransaction) /\ DOMAIN pool' = DOMAIN pool
        /\ pool'[i] = row /\ \A j \in DOMAIN pool : j # i => pool'[j] = pool[j]
        /\ \A j \in DOMAIN pool : Grown(pool[j], pool'[j])
    BY <1>0, <2>1, <2>2, <2>4, <2>6, RowAndCall
  <2>8. x.weight \in Weights /\ x.high \in Nat /\ x.seq \in Nat /\ x.checked \in BOOLEAN
    BY <1>0, PooledFields
  <2>9. PoolTypes'
    <3>1. account' \in [weight : Weights, high : Nat, seq : Nat]
      BY <2>2, <2>8
    <3>2. unchecked' \in BOOLEAN /\ lostAnswers' \in Nat
      BY <2>2, <2>8 DEF PoolTypes
    <3> QED BY <2>1, <2>2, <2>7, <3>1, <3>2 DEF PoolTypes
  <2>10. P!PoolIsHonest'
    <3>1. row.requiredWeight = x.requiredWeight
      BY <2>4 DEF Grown
    <3> QED BY <1>0, <2>4, <2>7, <3>1 DEF P!PoolIsHonest
  <2>11. NextIsUsable'
    <3>1. account'.weight = x.weight /\ account'.high = x.high /\ account'.seq = x.seq
      BY <2>2
    <3>2. ~unchecked' => Usable(x.weight, x.high)
      BY <1>0, <2>2, <2>3, <2>8 DEF NextIsUsable
    <3>3. \A j \in DOMAIN pool : pool'[j].seq <= account.seq + 1
      BY <2>7 DEF NextIsUsable, Grown
    <3>4. account.seq \in Nat
      BY DEF PoolTypes
    <3>5. \A j \in DOMAIN pool : pool'[j].seq \in Nat
      BY <2>7, PooledFields DEF Grown
    <3>6. \A j \in DOMAIN pool : pool'[j].seq <= account'.seq + 1 /\ pool'[j].seq # account'.seq + 1
      BY <2>3, <3>1, <3>3, <3>4, <3>5
    <3> QED BY <2>7, <3>1, <3>2, <3>6 DEF NextIsUsable
  <2> QED BY <2>7, <2>9, <2>10, <2>11
<1> QED BY <1>1, <1>2

\* Every step keeps the invariant.
LEMMA PoolInvStep == PoolInv /\ [P!Next]_(P!vars) => PoolInv'
<1> SUFFICES ASSUME PoolInv, [P!Next]_(P!vars) PROVE PoolInv'
  OBVIOUS
<1>1. CASE P!Next
  BY <1>1, BuildInv, ElapseInv, CheckInv, InsertInv, CommitInv, SaveOutcomeInv, SubmitInv DEF P!Next
<1>2. CASE UNCHANGED P!vars
  BY <1>2 DEF P!vars, PoolInv, PoolTypes, PoolCallsOK, P!PoolIsHonest, NextIsUsable
<1> QED BY <1>1, <1>2

\* The pool shows a transaction as what it is on the ledger and in its signatures,
\* and checked changes of signers leave an account that can still be changed, for any
\* keys, weights and thresholds (addSignature, broadcast, setupMultisig, rotateSigners).
THEOREM MultisigSound == Spec => []MultisigIsSound
<1>1. Init => PoolInv
  BY PoolInit DEF Init
<1>2. PoolInv => MultisigIsSound
  <2> SUFFICES ASSUME PoolInv PROVE P!TypeOK /\ P!PoolIsHonest /\ P!AccountStaysUsable
    BY DEF MultisigIsSound
  <2>1. account.weight \in Weights /\ account.high \in Nat
    BY DEF PoolInv, PoolTypes
  <2>2. P!Total(account.weight) \in Nat
    BY <2>1, TotalNat
  <2>3. ~unchecked => P!Total(account.weight) >= P!Max({account.high, 1})
    BY <2>1, <2>2, MaxOne DEF PoolInv, NextIsUsable, Usable
  <2> QED BY <2>3 DEF PoolInv, PoolTypes, P!TypeOK, P!AccountStaysUsable
<1> QED BY <1>1, <1>2, PoolPart, PoolInvStep, PTL DEF Spec

-----------------------------------------------------------------------------
(* Rate limits *)

\* A step of the system is a step of the rate limiter or leaves it alone.
LEMMA QuotaPart == (Init => Q!Init) /\ ([Next]_vars => [Q!Next]_(Q!vars))
<1>1. Init => Q!Init BY DEF Init
<1>2. ASSUME [Next]_vars PROVE [Q!Next]_(Q!vars)
  <2>1. CASE Next BY <2>1 DEF Next, Q!vars, quotaVars
  <2>2. CASE UNCHANGED vars BY <2>2 DEF vars, Q!vars, quotaVars
  <2> QED BY <1>2, <2>1, <2>2
<1> QED BY <1>1, <1>2

\* The count of RateLimiting is such a sum.
LEMMA CountIs ==
    ASSUME NEW w, NEW X PROVE Q!Total(w, X) = SumOf(w, X)[X]
  BY DEF Q!Total, Q!MapThenSumSet, Q!MapThenFoldSet, IsSum, SumOf, Pick

\* The requests counted in a span of time.
LEMMA CountMono ==
    ASSUME NEW Y \in SUBSET Q!Times, NEW w \in [Q!Times -> Nat], NEW u \in [Q!Times -> Nat],
           \A x \in Y : w[x] <= u[x]
    PROVE  /\ Q!Total(w, Y) <= Q!Total(u, Q!Times)
           /\ Q!Total(w, Y) <= Q!Total(u, Y)
           /\ Q!Total(w, Y) \in Nat /\ Q!Total(u, Y) \in Nat /\ Q!Total(u, Q!Times) \in Nat
<1>1. IsFiniteSet(Q!Times) BY QuotaAssumption, FS_Interval DEF Q!Times
<1>2. IsFiniteSet(Y) BY <1>1, FS_Subset
<1>3. \A x \in Q!Times : w[x] \in Nat /\ u[x] \in Nat OBVIOUS
<1>4. \A x \in Y : w[x] \in Nat /\ u[x] \in Nat OBVIOUS
<1>5. SumOf(w, Y)[Y] <= SumOf(u, Q!Times)[Q!Times] BY <1>1, <1>3, SumMono
<1>6. SumOf(w, Y)[Y] <= SumOf(u, Y)[Y]
  <2>1. Y \in SUBSET Y OBVIOUS
  <2> QED BY <1>2, <1>4, <2>1, SumMono
<1>7. SumOf(w, Y)[Y] \in Nat /\ SumOf(u, Y)[Y] \in Nat /\ SumOf(u, Q!Times)[Q!Times] \in Nat
  <2>1. SumOf(w, Y)[Y] \in Nat BY <1>2, <1>4, SumNat
  <2>2. SumOf(u, Y)[Y] \in Nat BY <1>2, <1>4, SumNat
  <2>3. SumOf(u, Q!Times)[Q!Times] \in Nat BY <1>1, <1>3, SumNat
  <2> QED BY <2>1, <2>2, <2>3
<1> QED BY <1>5, <1>6, <1>7, CountIs

\* One more request at a time t.
LEMMA CountOneMore ==
    ASSUME NEW w \in [Q!Times -> Nat], NEW t \in Q!Times
    PROVE  Q!Total([w EXCEPT ![t] = @ + 1], Q!Times) = Q!Total(w, Q!Times) + 1
<1> DEFINE u == [w EXCEPT ![t] = @ + 1]
<1>1. u \in [Q!Times -> Nat] /\ u[t] = w[t] + 1 /\ \A x \in Q!Times : x # t => u[x] = w[x] OBVIOUS
<1>2. IsFiniteSet(Q!Times) BY QuotaAssumption, FS_Interval DEF Q!Times
<1> HIDE DEF u
<1>3. SumOf(u, Q!Times)[Q!Times] = SumOf(w, Q!Times)[Q!Times] - w[t] + u[t] BY <1>1, <1>2, SumUpdate
<1>4. SumOf(w, Q!Times)[Q!Times] \in Nat /\ w[t] \in Nat
  <2>1. \A x \in Q!Times : w[x] \in Nat OBVIOUS
  <2> QED BY <1>2, <2>1, SumNat
<1>5. Q!Total(u, Q!Times) = Q!Total(w, Q!Times) + 1 BY <1>1, <1>3, <1>4, CountIs
<1> QED BY <1>5 DEF u

\* An empty window counts nothing.
LEMMA CountNone ==
    ASSUME NEW Y \in SUBSET Q!Times PROVE Q!Total([t \in Q!Times |-> 0], Y) = 0
<1> DEFINE w == [t \in Q!Times |-> 0]
<1>1. w \in [Q!Times -> Nat] /\ \A x \in Y : w[x] <= w[x] OBVIOUS
<1>2. IsFiniteSet(Q!Times) BY QuotaAssumption, FS_Interval DEF Q!Times
<1>3. Q!Total(w, Q!Times) = 0 BY <1>2, SumZero, CountIs
<1> HIDE DEF w
<1>4. Q!Total(w, Y) <= Q!Total(w, Q!Times) /\ Q!Total(w, Y) \in Nat BY <1>1, CountMono
<1>5. Q!Total(w, Y) = 0 BY <1>3, <1>4
<1> QED BY <1>5 DEF w

\* The types of the limiter, and the range of its clock and its counters.
QuotaTypes ==
    /\ Q!TypeOK
    /\ clock \in Q!Times /\ strategy \in {"sliding_window", "fixed_window"}
    /\ checks \in Nat /\ checks <= MaxChecks
    /\ storedQuota \in Quotas \cup {Q!Unlimited}

\* No request passed in the future.
NothingAhead == \A r \in Q!Routes, t \in Q!Times : t > clock => passed[r][t] = 0

\* What the strategy at time t still counts was counted.
CountedAll ==
    quotaCache # Q!Infinity =>
        \A r \in Q!Routes : \A t \in Q!Times \ Q!Expired(clock) : passed[r][t] <= windowSets[r][t]

\* No more passed than were checked.
PassedFew == \A r \in Q!Routes : Q!Total(passed[r], Q!Times) <= checks

\* The inductive invariant of the limiter.
QuotaInv == QuotaTypes /\ NothingAhead /\ CountedAll /\ PassedFew /\ Q!QuotaHolds

\* Multiplication by the length of a window keeps order.
LEMMA Blocks ==
    ASSUME NEW w \in Nat \ {0}, NEW t \in Nat
    PROVE  /\ t \div w \in Nat
           /\ (t \div w) * w <= t /\ t < (t \div w) * w + w
  OBVIOUS

\* A later block begins after an earlier one has ended.
LEMMA ScaleOrder ==
    ASSUME NEW w \in Nat \ {0}, NEW a \in Nat, NEW b \in Nat, a < b
    PROVE  a * w + w <= b * w
<1>1. PICK d \in Nat : b = a + 1 + d
  <2>1. b - a - 1 \in Nat /\ b = a + 1 + (b - a - 1) OBVIOUS
  <2> QED BY <2>1
<1>2. b * w = a * w + w + d * w BY <1>1
<1>3. d * w \in Nat OBVIOUS
<1>4. a * w \in Nat /\ b * w \in Nat OBVIOUS
<1> QED BY <1>2, <1>3, <1>4

\* Nothing that is gone comes back as time goes on.
LEMMA ExpiredGrows ==
    ASSUME NEW t \in Nat PROVE Q!Expired(t) \subseteq Q!Expired(t + 1)
<1>1. CASE strategy = "sliding_window"
  BY <1>1, QuotaAssumption DEF Q!Expired, Q!Times
<1>2. CASE strategy # "sliding_window"
  <2> DEFINE a == t \div WINDOW
             b == (t + 1) \div WINDOW
  <2>1. a \in Nat /\ a * WINDOW <= t /\ t < a * WINDOW + WINDOW BY QuotaAssumption, Blocks
  <2>2. b \in Nat /\ b * WINDOW <= t + 1 /\ t + 1 < b * WINDOW + WINDOW
    <3>1. t + 1 \in Nat OBVIOUS
    <3> QED BY <3>1, QuotaAssumption, Blocks
  <2>3. Q!Expired(t) = {u \in Q!Times : u < a * WINDOW} /\ Q!Expired(t + 1) = {u \in Q!Times : u < b * WINDOW}
    BY <1>2 DEF Q!Expired
  <2> HIDE DEF a, b
  <2>4. a <= b
    <3> SUFFICES ASSUME b < a PROVE FALSE BY <2>1, <2>2
    <3>1. b * WINDOW + WINDOW <= a * WINDOW BY <2>1, <2>2, QuotaAssumption, ScaleOrder
    <3>2. a * WINDOW \in Nat /\ b * WINDOW \in Nat /\ WINDOW \in Nat BY <2>1, <2>2, QuotaAssumption
    <3> QED BY <2>1, <2>2, <3>1, <3>2
  <2>5. a * WINDOW <= b * WINDOW
    <3>1. a * WINDOW \in Nat /\ b * WINDOW \in Nat /\ WINDOW \in Nat BY <2>1, <2>2, QuotaAssumption
    <3>2. CASE a = b BY <3>1, <3>2
    <3>3. CASE a < b
      <4>1. a * WINDOW + WINDOW <= b * WINDOW BY <2>1, <2>2, <3>3, QuotaAssumption, ScaleOrder
      <4> QED BY <3>1, <4>1
    <3> QED BY <2>1, <2>2, <2>4, <3>2, <3>3
  <2>6. a * WINDOW \in Nat /\ b * WINDOW \in Nat BY <2>1, <2>2, QuotaAssumption
  <2> DEFINE A == a * WINDOW
             B == b * WINDOW
  <2>7. A \in Nat /\ B \in Nat /\ A <= B BY <2>5, <2>6
  <2>8. Q!Expired(t) = {u \in Q!Times : u < A} /\ Q!Expired(t + 1) = {u \in Q!Times : u < B} BY <2>3
  <2> HIDE DEF A, B
  <2> QED BY <2>7, <2>8, QuotaAssumption DEF Q!Times
<1> QED BY <1>1, <1>2

\* Min of FiniteSetsExt, of two times.
LEMMA EarlierOf ==
    ASSUME NEW a \in Int, NEW b \in Int
    PROVE  Q!Min({a, b}) \in {a, b} /\ Q!Min({a, b}) <= a /\ Q!Min({a, b}) <= b
  BY DEF Q!Min

\* Max of FiniteSetsExt, of two counts.
LEMMA LargerOf ==
    ASSUME NEW a \in Int, NEW b \in Int
    PROVE  Q!Max({a, b}) \in {a, b} /\ Q!Max({a, b}) >= a /\ Q!Max({a, b}) >= b
  BY DEF Q!Max

\* A span lies within the times, and what of it is not in the future is
\* counted when a request comes in it.
LEMMA SpanIsCounted ==
    ASSUME NEW span \in Q!Spans, strategy \in {"sliding_window", "fixed_window"}
    PROVE  /\ span \in SUBSET Q!Times
           /\ \A t \in span, u \in span : u <= t => u \notin Q!Expired(t)
<1>1. CASE strategy = "sliding_window"
  <2>1. PICK s \in 0 .. MaxTime - WINDOW + 1 : span = s .. s + WINDOW - 1 BY <1>1 DEF Q!Spans
  <2> QED BY <1>1, <2>1, QuotaAssumption DEF Q!Expired, Q!Times
<1>2. CASE strategy = "fixed_window"
  <2>1. PICK k \in 0 .. MaxTime \div WINDOW :
           span = k * WINDOW .. Q!Min({MaxTime, (k + 1) * WINDOW - 1})
    BY <1>2 DEF Q!Spans
  <2>2. k \in Nat /\ WINDOW \in Nat \ {0} /\ MaxTime \in Nat BY QuotaAssumption
  <2> DEFINE K0 == k * WINDOW
             top == (k + 1) * WINDOW - 1
  <2>3. K0 \in Nat /\ top = K0 + WINDOW - 1 /\ top \in Int BY <2>2
  <2>4. Q!Min({MaxTime, top}) \in {MaxTime, top} /\ Q!Min({MaxTime, top}) <= MaxTime
        /\ Q!Min({MaxTime, top}) <= top
    <3> HIDE DEF top
    <3>1. MaxTime \in Int /\ top \in Int BY <2>2, <2>3
    <3> QED BY <3>1, EarlierOf
  <2>5. span = K0 .. Q!Min({MaxTime, top}) BY <2>1
  <2> HIDE DEF K0, top
  <2>6. \A t \in span : t \in Nat /\ t <= MaxTime /\ K0 <= t /\ t <= K0 + WINDOW - 1
    BY <2>2, <2>3, <2>4, <2>5
  <2>7. ASSUME NEW t \in span, NEW u \in span, u \in Q!Expired(t) PROVE FALSE
    <3> DEFINE a == t \div WINDOW
    <3>1. a \in Nat /\ a * WINDOW <= t /\ t < a * WINDOW + WINDOW BY <2>2, <2>6, Blocks
    <3>2. u < a * WINDOW BY <2>7, <1>2 DEF Q!Expired
    <3> HIDE DEF a
    <3>3. K0 = k * WINDOW BY DEF K0
    <3>4. a * WINDOW \in Nat BY <3>1, <2>2
    <3>5. ~(k < a)
      <4> SUFFICES ASSUME k < a PROVE FALSE OBVIOUS
      <4>1. k * WINDOW + WINDOW <= a * WINDOW BY <2>2, <3>1, ScaleOrder
      <4> QED BY <2>2, <2>3, <2>6, <3>1, <3>3, <3>4, <4>1
    <3>6. ~(a < k)
      <4> SUFFICES ASSUME a < k PROVE FALSE OBVIOUS
      <4>1. a * WINDOW + WINDOW <= k * WINDOW BY <2>2, <3>1, ScaleOrder
      <4> QED BY <2>2, <2>3, <2>6, <3>1, <3>3, <3>4, <4>1
    <3>7. a = k BY <2>2, <3>1, <3>5, <3>6
    <3> QED BY <2>3, <2>6, <3>2, <3>3, <3>7
  <2> QED BY <2>6, <2>7 DEF Q!Times
<1> QED BY <1>1, <1>2

\* What the invariant says of the types.
LEMMA QuotaFacts ==
    ASSUME QuotaInv
    PROVE  /\ \A r \in Q!Routes : passed[r] \in [Q!Times -> Nat] /\ windowSets[r] \in [Q!Times -> Nat]
           /\ quotaCache \in Nat /\ clock \in Q!Times /\ clock \in Nat
           /\ checks \in Nat /\ checks <= MaxChecks /\ MaxChecks \in Nat /\ OVERRIDE \in Nat
           /\ MaxChecks <= Q!Infinity /\ Q!Infinity \in Nat
  BY QuotaAssumption DEF QuotaInv, QuotaTypes, Q!TypeOK, Q!Infinity, Q!Times

\* Cleared counts are all zero.
LEMMA EmptyCounts ==
    /\ Q!Empty \in [Q!Routes -> [Q!Times -> Nat]]
    /\ \A r \in Q!Routes : /\ Q!Empty[r] = [t \in Q!Times |-> 0]
                            /\ \A Y \in SUBSET Q!Times : Q!Total(Q!Empty[r], Y) = 0
<1>1. \A r \in Q!Routes : Q!Empty[r] = [t \in Q!Times |-> 0] BY DEF Q!Empty
<1>2. Q!Empty \in [Q!Routes -> [Q!Times -> Nat]] BY DEF Q!Empty
<1>3. \A Y \in SUBSET Q!Times : Q!Total([t \in Q!Times |-> 0], Y) = 0 BY CountNone, Zenon
<1> QED BY <1>1, <1>2, <1>3

\* The invariant holds of the first, empty windows.
LEMMA QuotaInit == Q!Init => QuotaInv
<1> SUFFICES ASSUME Q!Init PROVE QuotaInv OBVIOUS
<1>1. QuotaTypes
  BY EmptyCounts, QuotaAssumption DEF Q!Init, QuotaTypes, Q!TypeOK, Q!Times
<1>2. \A r \in Q!Routes, t \in Q!Times : passed[r][t] = 0 /\ windowSets[r][t] = 0
  BY EmptyCounts DEF Q!Init
<1>3. NothingAhead /\ CountedAll BY <1>2 DEF NothingAhead, CountedAll, Q!Expired
<1>4. PassedFew
  BY EmptyCounts DEF Q!Init, PassedFew
<1>5. Q!QuotaHolds
  <2> SUFFICES ASSUME NEW span \in Q!Spans
               PROVE  /\ Q!Total(passed["plain"], span) <= quotaCache
                      /\ OVERRIDE <= quotaCache /\ quotaCache # Q!Infinity => Q!Total(passed["decorated"], span) <= OVERRIDE
    BY DEF Q!QuotaHolds
  <2>1. span \in SUBSET Q!Times BY <1>1, SpanIsCounted DEF QuotaTypes
  <2>2. Q!Total(passed["plain"], span) = 0 /\ Q!Total(passed["decorated"], span) = 0
    BY <2>1, EmptyCounts DEF Q!Init, Q!Routes
  <2> QED BY <2>2, QuotaAssumption DEF Q!Init
<1> QED BY <1>1, <1>3, <1>4, <1>5 DEF QuotaInv

\* A request is let through: of the route's count and of the spans it is in.
LEMMA QuotaCheckInv ==
    ASSUME QuotaInv, NEW route \in Q!Routes, Q!CanActivate(route)
    PROVE  QuotaInv'
<1> DEFINE count == Q!Total(Q!Window(route), Q!Times)
           more == [passed[route] EXCEPT ![clock] = @ + 1]
<1>0. /\ windowSets \in [Q!Routes -> [Q!Times -> Nat]] /\ passed \in [Q!Routes -> [Q!Times -> Nat]]
      /\ quotaCache # Q!Infinity
  BY DEF QuotaInv, QuotaTypes, Q!TypeOK, Q!CanActivate
<1>1. /\ UNCHANGED <<strategy, storedQuota, disabled, quotaCache, admins, quotaChanges, clock>>
      /\ checks' = checks + 1 /\ checks < MaxChecks
      /\ windowSets' = [windowSets EXCEPT ![route] = Q!Window(route)]
      /\ passed' = IF Q!Allowed(route, count) THEN [passed EXCEPT ![route] = more] ELSE passed
  BY DEF Q!CanActivate, Q!quotaVars
<1>2. Q!Window(route) \in [Q!Times -> Nat]
  BY <1>0, QuotaFacts DEF Q!Window
<1>3. \A t \in Q!Times \ Q!Expired(clock) : Q!Window(route)[t] = windowSets[route][t] + IF t = clock THEN 1 ELSE 0
  BY DEF Q!Window
<1>4. more \in [Q!Times -> Nat] /\ more[clock] = passed[route][clock] + 1
      /\ \A t \in Q!Times : t # clock => more[t] = passed[route][t]
  BY QuotaFacts
<1>5. \A t \in Q!Times \ Q!Expired(clock) : /\ passed[route][t] <= Q!Window(route)[t]
                                              /\ more[t] <= Q!Window(route)[t]
  <2> SUFFICES ASSUME NEW t \in Q!Times \ Q!Expired(clock)
               PROVE  passed[route][t] <= Q!Window(route)[t] /\ more[t] <= Q!Window(route)[t]
    OBVIOUS
  <2>1. passed[route][t] \in Nat /\ windowSets[route][t] \in Nat /\ passed[route][t] <= windowSets[route][t]
    BY <1>0 DEF QuotaInv, CountedAll
  <2>2. Q!Window(route)[t] = windowSets[route][t] + IF t = clock THEN 1 ELSE 0 BY <1>3
  <2> HIDE DEF more
  <2> QED BY <1>4, <2>1, <2>2
<1> DEFINE now == IF Q!Allowed(route, count) THEN more ELSE passed[route]
<1>6. passed' = [passed EXCEPT ![route] = now]
  <2>1. CASE Q!Allowed(route, count) BY <1>1, <2>1
  <2>2. CASE ~Q!Allowed(route, count)
    <3>1. passed' = passed /\ now = passed[route] BY <1>1, <2>2
    <3> QED BY <3>1, <1>0
  <2> QED BY <2>1, <2>2
<1>7. now \in [Q!Times -> Nat] BY <1>0, <1>4
<1>8. \A t \in Q!Times \ Q!Expired(clock) : now[t] <= Q!Window(route)[t] BY <1>5
<1>9. \A t \in Q!Times : t # clock => now[t] = passed[route][t] BY <1>4
<1>10. Q!Total(now, Q!Times) <= checks + 1
  <2>1. Q!Total(passed[route], Q!Times) <= checks BY DEF QuotaInv, PassedFew
  <2>2. Q!Total(more, Q!Times) = Q!Total(passed[route], Q!Times) + 1 BY QuotaFacts, CountOneMore
  <2>3. Q!Total(passed[route], Q!Times) \in Nat
    <3>1. passed[route] \in [Q!Times -> Nat] /\ \A x \in Q!Times : passed[route][x] <= passed[route][x] BY <1>0
    <3> QED BY <3>1, CountMono
  <2> HIDE DEF more, count
  <2>4. CASE Q!Allowed(route, count)
    <3>1. now = more BY <2>4
    <3> HIDE DEF now
    <3> QED BY <2>1, <2>2, <2>3, <3>1, QuotaFacts
  <2>5. CASE ~Q!Allowed(route, count)
    <3>1. now = passed[route] BY <2>5
    <3> HIDE DEF now
    <3> QED BY <2>1, <2>3, <3>1, QuotaFacts
  <2> QED BY <2>4, <2>5
<1>11. ASSUME NEW span \in Q!Spans, clock \in span
       PROVE  Q!Total(now, span) <= count /\ count \in Nat /\ Q!Total(now, span) \in Nat
  <2>1. span \in SUBSET Q!Times /\ \A u \in span : u <= clock => u \notin Q!Expired(clock)
    BY <1>11, SpanIsCounted DEF QuotaInv, QuotaTypes
  <2>2. \A u \in span : now[u] <= Q!Window(route)[u]
    <3> SUFFICES ASSUME NEW u \in span PROVE now[u] <= Q!Window(route)[u] OBVIOUS
    <3> HIDE DEF now
    <3>1. u \in Q!Times /\ u \in Nat BY <2>1 DEF Q!Times
    <3>2. CASE u <= clock BY <2>1, <3>1, <3>2, <1>8
    <3>3. CASE u > clock
      <4>1. now[u] = 0 BY <3>1, <3>3, <1>9, QuotaFacts DEF QuotaInv, NothingAhead
      <4>2. Q!Window(route)[u] \in Nat BY <1>2, <3>1
      <4> QED BY <4>1, <4>2
    <3> QED BY <3>1, <3>2, <3>3, QuotaFacts
  <2> HIDE DEF now
  <2> QED BY <1>2, <1>7, <2>1, <2>2, CountMono
<1>12. ASSUME NEW span \in Q!Spans, clock \notin span
       PROVE  Q!Total(now, span) <= Q!Total(passed[route], span)
              /\ Q!Total(now, span) \in Nat /\ Q!Total(passed[route], span) \in Nat
  <2>1. span \in SUBSET Q!Times
    BY SpanIsCounted DEF QuotaInv, QuotaTypes
  <2> HIDE DEF now
  <2>2. \A u \in span : now[u] <= passed[route][u]
    BY <1>0, <1>7, <1>9, <1>12, <2>1
  <2>3. passed[route] \in [Q!Times -> Nat] BY <1>0
  <2> QED BY <1>7, <2>1, <2>2, <2>3, CountMono
<1>n. Q!Allowed(route, count) \/ now = passed[route] OBVIOUS
<1>m. count \in Nat /\ count >= 0
  <2>1. \A x \in Q!Times : Q!Window(route)[x] <= Q!Window(route)[x] BY <1>2
  <2> QED BY <1>2, <2>1, CountMono
<1>13. route = "plain" /\ Q!Allowed(route, count) => count <= quotaCache
  BY DEF Q!Allowed
<1>14. route = "decorated" /\ Q!Allowed(route, count) /\ OVERRIDE <= quotaCache => count <= OVERRIDE
  <2> SUFFICES ASSUME route = "decorated", Q!Allowed(route, count), OVERRIDE <= quotaCache
               PROVE  count <= OVERRIDE
    OBVIOUS
  <2> DEFINE left == Q!Max({0, quotaCache - count})
  <2>1. OVERRIDE - (quotaCache - left) > 0 BY DEF Q!Allowed
  <2> HIDE DEF count
  <2>2. quotaCache - count \in Int /\ 0 \in Int BY <1>m, QuotaFacts
  <2>3. left \in {0, quotaCache - count} BY <2>2, LargerOf
  <2> HIDE DEF left
  <2> QED BY <1>m, <2>1, <2>3, QuotaFacts
<1> HIDE DEF now, more, count
<1>15. /\ passed' \in [Q!Routes -> [Q!Times -> Nat]] /\ passed'[route] = now
       /\ \A r \in Q!Routes : r # route => passed'[r] = passed[r]
  BY <1>0, <1>6, <1>7
<1>16. /\ windowSets' \in [Q!Routes -> [Q!Times -> Nat]] /\ windowSets'[route] = Q!Window(route)
       /\ \A r \in Q!Routes : r # route => windowSets'[r] = windowSets[r]
  BY <1>0, <1>1, <1>2
<1>17. QuotaTypes'
  BY <1>1, <1>15, <1>16, QuotaAssumption DEF QuotaInv, QuotaTypes, Q!TypeOK
<1>18. NothingAhead'
  <2> SUFFICES ASSUME NEW r \in Q!Routes, NEW t \in Q!Times, t > clock PROVE passed'[r][t] = 0
    BY <1>1 DEF NothingAhead
  <2>1. passed[r][t] = 0 /\ t # clock BY QuotaFacts DEF QuotaInv, NothingAhead
  <2> QED BY <2>1, <1>9, <1>15
<1>19. CountedAll'
  <2>1. Q!Expired(clock)' = Q!Expired(clock) BY <1>1 DEF Q!Expired
  <2>2. \A r \in Q!Routes : \A t \in Q!Times \ Q!Expired(clock) : passed'[r][t] <= windowSets'[r][t]
    BY <1>0, <1>8, <1>15, <1>16 DEF QuotaInv, CountedAll
  <2> QED BY <1>1, <2>1, <2>2 DEF CountedAll
<1>20. PassedFew'
  <2> SUFFICES ASSUME NEW r \in Q!Routes PROVE Q!Total(passed'[r], Q!Times) <= checks + 1
    BY <1>1 DEF PassedFew, Q!Total, Q!MapThenSumSet, Q!MapThenFoldSet
  <2>1. CASE r = route BY <2>1, <1>10, <1>15
  <2>2. CASE r # route
    <3>1. Q!Total(passed[r], Q!Times) <= checks /\ passed'[r] = passed[r] BY <2>2, <1>15 DEF QuotaInv, PassedFew
    <3>2. Q!Total(passed[r], Q!Times) \in Nat
      <4>1. passed[r] \in [Q!Times -> Nat] /\ \A x \in Q!Times : passed[r][x] <= passed[r][x] BY <1>0
      <4> QED BY <4>1, CountMono
    <3> QED BY <3>1, <3>2, QuotaFacts
  <2> QED BY <2>1, <2>2
<1>21. Q!QuotaHolds'
  <2>1. Q!Spans' = Q!Spans BY <1>1 DEF Q!Spans
  <2> SUFFICES ASSUME NEW span \in Q!Spans
               PROVE  /\ Q!Total(passed'["plain"], span) <= quotaCache
                      /\ OVERRIDE <= quotaCache /\ quotaCache # Q!Infinity =>
                            Q!Total(passed'["decorated"], span) <= OVERRIDE
    BY <1>1, <2>1 DEF Q!QuotaHolds, Q!Total, Q!MapThenSumSet, Q!MapThenFoldSet
  <2>2. /\ Q!Total(passed["plain"], span) <= quotaCache
        /\ OVERRIDE <= quotaCache /\ quotaCache # Q!Infinity => Q!Total(passed["decorated"], span) <= OVERRIDE
    BY DEF QuotaInv, Q!QuotaHolds
  <2>3. "plain" \in Q!Routes /\ "decorated" \in Q!Routes /\ route \in {"plain", "decorated"} BY DEF Q!Routes
  <2>4. CASE route = "plain"
    <3>1. passed'["decorated"] = passed["decorated"] /\ passed'["plain"] = now BY <2>3, <2>4, <1>15
    <3>2. Q!Total(now, span) <= quotaCache
      <4>1. CASE now = passed[route] BY <2>2, <2>4, <4>1
      <4>2. CASE Q!Allowed(route, count) /\ clock \in span
        BY <1>11, <1>13, <2>4, <4>2, QuotaFacts
      <4>3. CASE clock \notin span
        BY <1>12, <2>2, <2>4, <4>3, QuotaFacts
      <4> QED BY <4>1, <4>2, <4>3, <1>n
    <3> QED BY <2>2, <3>1, <3>2
  <2>5. CASE route = "decorated"
    <3>1. passed'["plain"] = passed["plain"] /\ passed'["decorated"] = now BY <2>3, <2>5, <1>15
    <3>2. ASSUME OVERRIDE <= quotaCache, quotaCache # Q!Infinity PROVE Q!Total(now, span) <= OVERRIDE
      <4>1. CASE now = passed[route] BY <2>2, <2>5, <3>2, <4>1
      <4>2. CASE Q!Allowed(route, count) /\ clock \in span
        BY <1>11, <1>14, <2>5, <3>2, <4>2, QuotaFacts
      <4>3. CASE clock \notin span
        BY <1>12, <2>2, <2>5, <3>2, <4>3, QuotaFacts
      <4> QED BY <4>1, <4>2, <4>3, <1>n
    <3> QED BY <2>2, <3>1, <3>2
  <2> QED BY <2>3, <2>4, <2>5
<1> QED BY <1>17, <1>18, <1>19, <1>20, <1>21 DEF QuotaInv

\* Time passes: more is expired, and nothing is counted anew.
LEMMA QuotaTickInv == ASSUME QuotaInv, Q!Tick PROVE QuotaInv'
<1>0. /\ clock' = clock + 1 /\ clock < MaxTime
      /\ UNCHANGED <<strategy, storedQuota, quotaCache, windowSets, passed, checks>>
  BY DEF Q!Tick, Q!quotaVars
<1>c. clock \in Nat /\ MaxTime \in Nat BY QuotaFacts, QuotaAssumption
<1>1. QuotaTypes' BY <1>0, <1>c DEF QuotaInv, QuotaTypes, Q!TypeOK, Q!Times
<1>2. NothingAhead'
  BY <1>0, <1>c DEF QuotaInv, NothingAhead, Q!Times
<1>3. CountedAll'
  <2>1. Q!Expired(clock)' = Q!Expired(clock + 1) BY <1>0 DEF Q!Expired
  <2>2. Q!Expired(clock) \subseteq Q!Expired(clock + 1) BY <1>c, ExpiredGrows
  <2> QED BY <1>0, <2>1, <2>2 DEF QuotaInv, CountedAll
<1>4. PassedFew'
  <2> SUFFICES ASSUME NEW r \in Q!Routes PROVE Q!Total(passed'[r], Q!Times) <= checks
    BY <1>0 DEF PassedFew, Q!Total, Q!MapThenSumSet, Q!MapThenFoldSet
  <2> QED BY <1>0 DEF QuotaInv, PassedFew
<1>5. Q!QuotaHolds'
  <2>1. Q!Spans' = Q!Spans BY <1>0 DEF Q!Spans
  <2> SUFFICES ASSUME NEW span \in Q!Spans
               PROVE  /\ Q!Total(passed'["plain"], span) <= quotaCache
                      /\ OVERRIDE <= quotaCache /\ quotaCache # Q!Infinity =>
                            Q!Total(passed'["decorated"], span) <= OVERRIDE
    BY <1>0, <2>1 DEF Q!QuotaHolds, Q!Total, Q!MapThenSumSet, Q!MapThenFoldSet
  <2> QED BY <1>0 DEF QuotaInv, Q!QuotaHolds
<1> QED BY <1>1, <1>2, <1>3, <1>4, <1>5 DEF QuotaInv

\* An unlimited tier counts nothing, but its requests are too few to reach Infinity.
LEMMA UnlimitedInv ==
    ASSUME QuotaInv, NEW route \in Q!Routes, Q!CanActivateUnlimited(route) PROVE QuotaInv'
<1> DEFINE more == [passed[route] EXCEPT ![clock] = @ + 1]
<1>0. /\ UNCHANGED <<strategy, storedQuota, quotaCache, clock, windowSets>>
      /\ checks' = checks + 1 /\ checks < MaxChecks /\ quotaCache = Q!Infinity
      /\ passed' = [passed EXCEPT ![route] = more]
  BY DEF Q!CanActivateUnlimited, Q!quotaVars
<1>1. /\ passed \in [Q!Routes -> [Q!Times -> Nat]] /\ clock \in Q!Times
  BY DEF QuotaInv, QuotaTypes, Q!TypeOK
<1>2. more \in [Q!Times -> Nat] /\ \A t \in Q!Times : t # clock => more[t] = passed[route][t]
  BY <1>1
<1>3. Q!Total(more, Q!Times) = Q!Total(passed[route], Q!Times) + 1 BY QuotaFacts, CountOneMore
<1> HIDE DEF more
<1>4. /\ passed' \in [Q!Routes -> [Q!Times -> Nat]] /\ passed'[route] = more
      /\ \A r \in Q!Routes : r # route => passed'[r] = passed[r]
  BY <1>0, <1>1, <1>2
<1>5. \A r \in Q!Routes : Q!Total(passed[r], Q!Times) \in Nat /\ Q!Total(passed[r], Q!Times) <= checks
  <2> SUFFICES ASSUME NEW r \in Q!Routes
               PROVE  Q!Total(passed[r], Q!Times) \in Nat /\ Q!Total(passed[r], Q!Times) <= checks
    OBVIOUS
  <2>1. passed[r] \in [Q!Times -> Nat] /\ \A x \in Q!Times : passed[r][x] <= passed[r][x] BY <1>1
  <2>2. Q!Total(passed[r], Q!Times) \in Nat BY <2>1, CountMono
  <2> QED BY <2>2 DEF QuotaInv, PassedFew
<1>6. \A r \in Q!Routes : Q!Total(passed'[r], Q!Times) <= checks + 1
  <2> SUFFICES ASSUME NEW r \in Q!Routes PROVE Q!Total(passed'[r], Q!Times) <= checks + 1 OBVIOUS
  <2>1. CASE r = route
    <3>1. Q!Total(passed'[r], Q!Times) = Q!Total(passed[route], Q!Times) + 1 BY <2>1, <1>3, <1>4
    <3> QED BY <3>1, <1>5, QuotaFacts
  <2>2. CASE r # route
    <3>1. Q!Total(passed'[r], Q!Times) = Q!Total(passed[r], Q!Times) BY <2>2, <1>4
    <3> QED BY <3>1, <1>5, QuotaFacts
  <2> QED BY <2>1, <2>2
<1>7. QuotaTypes' BY <1>0, <1>4, QuotaAssumption DEF QuotaInv, QuotaTypes, Q!TypeOK
<1>8. NothingAhead'
  <2> SUFFICES ASSUME NEW r \in Q!Routes, NEW t \in Q!Times, t > clock PROVE passed'[r][t] = 0
    BY <1>0 DEF NothingAhead
  <2>1. passed[r][t] = 0 /\ t # clock BY QuotaFacts DEF QuotaInv, NothingAhead
  <2> QED BY <2>1, <1>2, <1>4
<1>9. CountedAll' BY <1>0 DEF CountedAll
<1>10. PassedFew'
  BY <1>0, <1>6 DEF PassedFew, Q!Total, Q!MapThenSumSet, Q!MapThenFoldSet
<1>11. Q!QuotaHolds'
  <2>1. Q!Spans' = Q!Spans BY <1>0 DEF Q!Spans
  <2> SUFFICES ASSUME NEW span \in Q!Spans PROVE Q!Total(passed'["plain"], span) <= quotaCache
    BY <1>0, <2>1 DEF Q!QuotaHolds, Q!Total, Q!MapThenSumSet, Q!MapThenFoldSet
  <2>2. span \in SUBSET Q!Times BY SpanIsCounted DEF QuotaInv, QuotaTypes
  <2>3. "plain" \in Q!Routes BY DEF Q!Routes
  <2>4. passed'["plain"] \in [Q!Times -> Nat]
        /\ \A x \in span : passed'["plain"][x] <= passed'["plain"][x]
    BY <1>4, <2>2, <2>3
  <2>5. /\ Q!Total(passed'["plain"], span) <= Q!Total(passed'["plain"], Q!Times)
        /\ Q!Total(passed'["plain"], span) \in Nat /\ Q!Total(passed'["plain"], Q!Times) \in Nat
    BY <2>2, <2>4, CountMono
  <2>6. Q!Total(passed'["plain"], Q!Times) <= checks + 1 BY <1>6, <2>3
  <2> QED BY <1>0, <2>5, <2>6, QuotaFacts
<1> QED BY <1>7, <1>8, <1>9, <1>10, <1>11 DEF QuotaInv

\* Counts that are set back to nothing.
LEMMA Cleared ==
    ASSUME QuotaInv, UNCHANGED <<strategy, clock, checks>>,
           storedQuota' \in Quotas \cup {Q!Unlimited}, quotaCache' \in Quotas \cup {0, Q!Infinity},
           windowSets' \in [Q!Routes -> [Q!Times -> Nat]],
           passed' \in [Q!Routes -> [Q!Times -> Nat]],
           \A r \in Q!Routes : passed'[r] = Q!Empty[r] \/
              (passed'[r] = passed[r] /\ windowSets'[r] = windowSets[r] /\ quotaCache' = quotaCache)
    PROVE  QuotaInv'
<1>1. QuotaTypes' BY DEF QuotaInv, QuotaTypes, Q!TypeOK
<1>2. NothingAhead'
  <2> SUFFICES ASSUME NEW r \in Q!Routes, NEW t \in Q!Times, t > clock PROVE passed'[r][t] = 0
    BY DEF NothingAhead
  <2> QED BY EmptyCounts DEF QuotaInv, NothingAhead
<1>3. CountedAll'
  <2>1. Q!Expired(clock)' = Q!Expired(clock) BY DEF Q!Expired
  <2> SUFFICES ASSUME quotaCache' # Q!Infinity, NEW r \in Q!Routes, NEW t \in Q!Times \ Q!Expired(clock)
               PROVE  passed'[r][t] <= windowSets'[r][t]
    BY <2>1 DEF CountedAll
  <2>2. CASE passed'[r] = Q!Empty[r]
    <3>1. passed'[r][t] = 0 /\ windowSets'[r][t] \in Nat BY <2>2, EmptyCounts
    <3> QED BY <3>1
  <2>3. CASE passed'[r] # Q!Empty[r]
    BY <2>3 DEF QuotaInv, CountedAll
  <2> QED BY <2>2, <2>3
<1>4. PassedFew'
  <2> SUFFICES ASSUME NEW r \in Q!Routes PROVE Q!Total(passed'[r], Q!Times) <= checks
    BY DEF PassedFew, Q!Total, Q!MapThenSumSet, Q!MapThenFoldSet
  <2>1. CASE passed'[r] = Q!Empty[r]
    <3>1. Q!Times \in SUBSET Q!Times OBVIOUS
    <3>2. Q!Total(Q!Empty[r], Q!Times) = 0 BY <3>1, EmptyCounts, Zenon
    <3> QED BY <2>1, <3>2, QuotaFacts
  <2>2. CASE passed'[r] = passed[r] BY <2>2 DEF QuotaInv, PassedFew
  <2> QED BY <2>1, <2>2
<1>5. Q!QuotaHolds'
  <2>1. Q!Spans' = Q!Spans BY DEF Q!Spans
  <2> SUFFICES ASSUME NEW span \in Q!Spans
               PROVE  /\ Q!Total(passed'["plain"], span) <= quotaCache'
                      /\ OVERRIDE <= quotaCache' /\ quotaCache' # Q!Infinity =>
                            Q!Total(passed'["decorated"], span) <= OVERRIDE
    BY <2>1 DEF Q!QuotaHolds, Q!Total, Q!MapThenSumSet, Q!MapThenFoldSet
  <2>2. span \in SUBSET Q!Times BY SpanIsCounted DEF QuotaInv, QuotaTypes
  <2>3. "plain" \in Q!Routes /\ "decorated" \in Q!Routes BY DEF Q!Routes
  <2>4. \A r \in Q!Routes : Q!Total(Q!Empty[r], span) = 0 BY <2>2, EmptyCounts, Zenon
  <2>5. quotaCache' \in Nat /\ OVERRIDE \in Nat BY QuotaAssumption DEF Q!Infinity
  <2>6. /\ Q!Total(passed["plain"], span) <= quotaCache
        /\ OVERRIDE <= quotaCache /\ quotaCache # Q!Infinity => Q!Total(passed["decorated"], span) <= OVERRIDE
    BY DEF QuotaInv, Q!QuotaHolds
  <2>7. Q!Total(passed'["plain"], span) <= quotaCache'
    <3>1. CASE passed'["plain"] = Q!Empty["plain"] BY <2>3, <2>4, <2>5, <3>1
    <3>2. CASE passed'["plain"] = passed["plain"] /\ quotaCache' = quotaCache BY <2>6, <3>2
    <3> QED BY <2>3, <3>1, <3>2
  <2>8. ASSUME OVERRIDE <= quotaCache', quotaCache' # Q!Infinity
        PROVE  Q!Total(passed'["decorated"], span) <= OVERRIDE
    <3>1. CASE passed'["decorated"] = Q!Empty["decorated"] BY <2>3, <2>4, <2>5, <3>1
    <3>2. CASE passed'["decorated"] = passed["decorated"] /\ quotaCache' = quotaCache BY <2>6, <2>8, <3>2
    <3> QED BY <2>3, <3>1, <3>2
  <2> QED BY <2>7, <2>8
<1> QED BY <1>1, <1>2, <1>3, <1>4, <1>5 DEF QuotaInv

\* Steps that leave the counts, the clock and the quota in force alone.
LEMMA SameCounts ==
    ASSUME QuotaInv, UNCHANGED <<strategy, clock, windowSets, passed, quotaCache, checks>>,
           storedQuota' \in Quotas \cup {Q!Unlimited}
    PROVE  QuotaInv'
<1>1. /\ windowSets \in [Q!Routes -> [Q!Times -> Nat]] /\ passed \in [Q!Routes -> [Q!Times -> Nat]]
      /\ quotaCache \in Quotas \cup {0, Q!Infinity}
  BY DEF QuotaInv, QuotaTypes, Q!TypeOK
<1> QED BY <1>1, Cleared

\* Every step keeps the invariant.
LEMMA QuotaInvStep == QuotaInv /\ [Q!Next]_(Q!vars) => QuotaInv'
<1> SUFFICES ASSUME QuotaInv, [Q!Next]_(Q!vars) PROVE QuotaInv' OBVIOUS
<1>0. /\ windowSets \in [Q!Routes -> [Q!Times -> Nat]] /\ passed \in [Q!Routes -> [Q!Times -> Nat]]
      /\ storedQuota \in Quotas \cup {Q!Unlimited} /\ quotaCache \in Quotas \cup {0, Q!Infinity}
  BY DEF QuotaInv, QuotaTypes, Q!TypeOK
<1>1. ASSUME NEW route \in Q!Routes, Q!CanActivate(route) PROVE QuotaInv' BY <1>1, QuotaCheckInv
<1>2. ASSUME NEW route \in Q!Routes, Q!CanActivateUnlimited(route) PROVE QuotaInv' BY <1>2, UnlimitedInv
<1>3. ASSUME NEW route \in Q!Routes, Q!ClearKey(route) PROVE QuotaInv'
  <2>1. /\ windowSets' = [windowSets EXCEPT ![route] = Q!Empty[route]]
        /\ passed' = [passed EXCEPT ![route] = Q!Empty[route]]
        /\ UNCHANGED <<strategy, clock, checks, storedQuota, quotaCache>>
    BY <1>3 DEF Q!ClearKey, Q!quotaVars
  <2>2. Q!Empty[route] \in [Q!Times -> Nat] BY EmptyCounts
  <2>3. /\ windowSets' \in [Q!Routes -> [Q!Times -> Nat]]
        /\ passed' \in [Q!Routes -> [Q!Times -> Nat]]
    BY <1>0, <2>1, <2>2
  <2>4. \A r \in Q!Routes : passed'[r] = Q!Empty[r] \/
              (passed'[r] = passed[r] /\ windowSets'[r] = windowSets[r] /\ quotaCache' = quotaCache)
    BY <1>0, <2>1
  <2> QED BY <1>0, <2>1, <2>3, <2>4, Cleared
<1>4. ASSUME NEW a \in Admins, NEW q \in Quotas \cup {Q!Unlimited}, NEW off \in BOOLEAN, Q!UpsertConfig(a, q, off)
      PROVE  QuotaInv'
  BY <1>4, SameCounts DEF Q!UpsertConfig
<1>5. ASSUME NEW a \in Admins, Q!LoadConfigFromDb(a) PROVE QuotaInv'
  <2>1. /\ quotaCache' = Q!Effective(storedQuota, disabled)
        /\ passed' = IF quotaCache' = quotaCache THEN passed ELSE Q!Empty
        /\ UNCHANGED <<strategy, clock, checks, storedQuota, windowSets>>
    BY <1>5 DEF Q!LoadConfigFromDb
  <2>2. quotaCache' \in Quotas \cup {0, Q!Infinity}
    BY <1>0, <2>1, QuotaAssumption DEF Q!Effective, Q!Unlimited
  <2>3. /\ windowSets' \in [Q!Routes -> [Q!Times -> Nat]]
        /\ passed' \in [Q!Routes -> [Q!Times -> Nat]]
    BY <1>0, <2>1, EmptyCounts
  <2>4. \A r \in Q!Routes : passed'[r] = Q!Empty[r] \/
              (passed'[r] = passed[r] /\ windowSets'[r] = windowSets[r] /\ quotaCache' = quotaCache)
    BY <2>1
  <2> QED BY <1>0, <2>1, <2>2, <2>3, <2>4, Cleared
<1>6. ASSUME NEW a \in Admins, Q!LoadFails(a) PROVE QuotaInv'
  BY <1>0, <1>6, SameCounts DEF Q!LoadFails
<1>7. CASE Q!Tick BY <1>7, QuotaTickInv
<1>8. CASE UNCHANGED Q!vars BY <1>0, <1>8, SameCounts DEF Q!vars
<1> QED BY <1>1, <1>2, <1>3, <1>4, <1>5, <1>6, <1>7, <1>8 DEF Q!Next

\* No window lets more requests pass than its quota, wherever it begins, and a route
\* with an override below it no more than the override, for every quota and length of a
\* window and for both strategies (checkRateLimit, slidingWindowCheck, fixedWindowCheck).
THEOREM QuotasHold == Spec => []QuotaHolds
<1>1. Init => QuotaInv BY QuotaPart, QuotaInit
<1>2. QuotaInv /\ [Next]_vars => QuotaInv' BY QuotaPart, QuotaInvStep
<1>3. QuotaInv => QuotaHolds BY DEF QuotaHolds, QuotaInv, QuotaTypes
<1> QED BY <1>1, <1>2, <1>3, PTL DEF Spec

-----------------------------------------------------------------------------
(* Compliance *)

\* A step of the system is a step of the compliance service or leaves it alone.
LEMMA KycPart == (Init => K!Init) /\ ([Next]_vars => [K!Next]_(K!vars))
<1>1. Init => K!Init BY DEF Init
<1>2. ASSUME [Next]_vars PROVE [K!Next]_(K!vars)
  <2>1. CASE Next BY <2>1 DEF Next, K!vars, kycVars
  <2>2. CASE UNCHANGED vars BY <2>2 DEF vars, K!vars, kycVars
  <2> QED BY <1>2, <2>1, <2>2
<1> QED BY <1>1, <1>2

\* The requests in flight, with the copy each has read.
KycCallSet ==
    {K!NoCall}
    \cup [op : {"initiate"}, copy : K!KycVerification \cup {K!Absent}, region : K!Regions]
    \cup [op : {"level"}, copy : K!KycVerification, level : K!KycLevel, block : {"keep", "yes", "no"}]
    \cup [op : {"documents"}]
    \cup [op : {"row"}, types : SUBSET K!KycDocumentType]
    \cup [op : {"complete"}, copy : K!KycVerification, level : K!KycLevel]
    \cup [op : {"assess"}, copy : K!KycVerification, score : 0 .. 100]
    \cup [op : {"flag"}, id : Nat, copy : K!AmlFlag]

\* The levels that documents earn.
Raised == {"standard", "enhanced"}

\* A level is justified by the levels g an administrator gave and the documents v ever verified.
EarnedBy(level, g, v) ==
    level \in {"standard", "enhanced", "institutional"} =>
        \/ level \in g
        \/ level = "standard" /\ K!Required \subseteq v
        \/ level = "enhanced" /\ K!KycDocumentType \subseteq v

\* So is every level a request in flight may still write.
CallEarned(call, g, v) ==
    /\ call.op \in {"initiate", "level", "complete", "assess"} => EarnedBy(call.copy.level, g, v)
    /\ call.op = "complete" => EarnedBy(call.level, g, v) /\ call.level \in Raised
    /\ call.op = "row" => call.types \subseteq v

\* A call that will still raise the level.
Pending(call) ==
    \/ call.op = "documents"
    \/ call.op = "row" /\ K!Required \subseteq call.types
    \/ call.op = "complete"

\* The types of the rows and of the calls.
KycTypes == K!TypeOK /\ kycCalls \in [KycCallers -> KycCallSet]

\* A user with documents, or whose documents are being counted, has a row.
RowExists ==
    /\ documents # <<>> => kyc # K!Absent
    /\ \A c \in KycCallers : kycCalls[c].op \in {"documents", "row"} => kyc # K!Absent

\* Every level stored or held by a call is justified.
AllEarned ==
    /\ K!VerifiedTypes(documents) \subseteq everVerified
    /\ EarnedBy(kyc.level, granted, everVerified)
    /\ \A c \in KycCallers : CallEarned(kycCalls[c], granted, everVerified)

\* Verified documents have raised the level, or a call is about to raise it.
CompletionComes ==
    granted = {} /\ ~kycOverlap /\ ~kycCut /\ K!Required \subseteq K!VerifiedTypes(documents) =>
        kyc.level \in Raised \/ \E c \in KycCallers : Pending(kycCalls[c])

\* An ordered block is in the row.
BlockKept == ~kycOverlap /\ blockOrder => kyc # K!Absent /\ kyc.blocked

\* The inductive invariant of the compliance service.
KycInv == KycTypes /\ RowExists /\ AllEarned /\ CompletionComes /\ BlockKept

\* The invariant holds before the first request.
LEMMA KycInit == K!Init => KycInv
<1> SUFFICES ASSUME K!Init PROVE KycInv OBVIOUS
<1>1. K!TypeOK BY EmptySeq DEF K!Init, K!TypeOK
<1>2. kycCalls \in [KycCallers -> KycCallSet] BY DEF K!Init, KycCallSet
<1>3. RowExists BY DEF K!Init, RowExists, K!NoCall
<1>4. K!VerifiedTypes(documents) = {} BY EmptySeq DEF K!Init, K!VerifiedTypes
<1>5. AllEarned BY <1>4 DEF K!Init, AllEarned, EarnedBy, CallEarned, K!NoCall, K!Absent
<1>6. CompletionComes BY <1>4 DEF CompletionComes, K!Required
<1>7. BlockKept BY DEF K!Init, BlockKept
<1> QED BY <1>1, <1>2, <1>3, <1>5, <1>6, <1>7 DEF KycInv, KycTypes

\* What the calls of each kind carry.
LEMMA KycCallTyped ==
  ASSUME KycInv, NEW c \in KycCallers
  PROVE  /\ kycCalls[c].op = "initiate" =>
              kycCalls[c].copy \in K!KycVerification \cup {K!Absent} /\ kycCalls[c].region \in K!Regions
         /\ kycCalls[c].op = "level" =>
              kycCalls[c].copy \in K!KycVerification /\ kycCalls[c].level \in K!KycLevel
         /\ kycCalls[c].op = "row" => kycCalls[c].types \in SUBSET K!KycDocumentType
         /\ kycCalls[c].op = "complete" =>
              kycCalls[c].copy \in K!KycVerification /\ kycCalls[c].level \in K!KycLevel
         /\ kycCalls[c].op = "assess" =>
              kycCalls[c].copy \in K!KycVerification /\ kycCalls[c].score \in 0 .. 100
         /\ kycCalls[c].op = "flag" => kycCalls[c].id \in Nat /\ kycCalls[c].copy \in K!AmlFlag
<1>1. kycCalls[c] \in KycCallSet BY DEF KycInv, KycTypes
<1> QED BY <1>1 DEF KycCallSet, K!NoCall

\* The absent row is no row.
LEMMA NoRowIsNotARow == K!Absent \notin K!KycVerification
  BY DEF K!Absent, K!KycVerification, K!KycLevel

\* Only the call of one request changes.
LEMMA KycReads ==
  ASSUME KycInv, NEW c \in KycCallers, NEW call \in KycCallSet,
         kycCalls' = [kycCalls EXCEPT ![c] = call],
         UNCHANGED <<kyc, documents, flags, blockScore, granted, everVerified, blockOrder, kycOverlap>>,
         CallEarned(call, granted, everVerified),
         call.op \in {"documents", "row"} => kyc # K!Absent,
         \/ kycCut'
         \/ /\ kycCut' = kycCut
            /\ Pending(kycCalls[c]) /\ K!Required \subseteq K!VerifiedTypes(documents) =>
                  Pending(call) \/ kyc.level \in Raised
  PROVE  KycInv'
<1>1. /\ kycCalls' \in [KycCallers -> KycCallSet] /\ kycCalls'[c] = call
      /\ \A d \in KycCallers \ {c} : kycCalls'[d] = kycCalls[d]
  BY DEF KycInv, KycTypes
<1>2. KycTypes' BY <1>1 DEF KycInv, KycTypes, K!TypeOK
<1>3. RowExists' BY <1>1 DEF KycInv, RowExists
<1>4. AllEarned'
  <2>1. K!VerifiedTypes(documents)' = K!VerifiedTypes(documents) BY DEF K!VerifiedTypes
  <2>2. \A d \in KycCallers : CallEarned(kycCalls'[d], granted, everVerified)
    BY <1>1 DEF KycInv, AllEarned
  <2> QED BY <2>1, <2>2 DEF KycInv, AllEarned
<1>5. CompletionComes'
  <2>1. K!VerifiedTypes(documents)' = K!VerifiedTypes(documents) BY DEF K!VerifiedTypes
  <2> SUFFICES ASSUME granted = {}, ~kycOverlap, ~kycCut', K!Required \subseteq K!VerifiedTypes(documents),
                      kyc.level \notin Raised
               PROVE  \E d \in KycCallers : Pending(kycCalls'[d])
    BY <2>1 DEF CompletionComes
  <2>2. PICK d \in KycCallers : Pending(kycCalls[d]) BY DEF KycInv, CompletionComes
  <2>3. CASE d = c BY <2>2, <2>3, <1>1
  <2>4. CASE d # c BY <2>2, <2>4, <1>1
  <2> QED BY <2>3, <2>4
<1>6. BlockKept' BY DEF KycInv, BlockKept
<1> QED BY <1>2, <1>3, <1>4, <1>5, <1>6 DEF KycInv

\* The history only adds reasons.
LEMMA EarnedGrows ==
  ASSUME NEW g, NEW v, NEW g2, NEW v2, g \subseteq g2, v \subseteq v2, NEW level, EarnedBy(level, g, v)
  PROVE  EarnedBy(level, g2, v2)
  BY DEF EarnedBy

\* So it does for the calls.
LEMMA CallEarnedGrows ==
  ASSUME NEW g, NEW v, NEW g2, NEW v2, g \subseteq g2, v \subseteq v2, NEW call, CallEarned(call, g, v)
  PROVE  CallEarned(call, g2, v2)
<1>1. \A level : EarnedBy(level, g, v) => EarnedBy(level, g2, v2) BY EarnedGrows
<1> QED BY <1>1 DEF CallEarned

\* A row is saved, and the call is over.
LEMMA KycSaves ==
  ASSUME KycInv, NEW c \in KycCallers, NEW row \in K!KycVerification,
         K!SaveKyc(c, row), kycCalls' = [kycCalls EXCEPT ![c] = K!NoCall],
         UNCHANGED <<documents, flags, blockScore, everVerified, kycCut>>,
         granted \subseteq granted',
         EarnedBy(row.level, granted', everVerified),
         granted' = {} /\ kyc = kycCalls[c].copy =>
            row.level \in Raised \/ (~Pending(kycCalls[c]) /\ kyc.level \notin Raised),
         kyc = kycCalls[c].copy /\ ~kycOverlap /\ blockOrder' => row.blocked
  PROVE  KycInv'
<1>1. /\ kycCalls' \in [KycCallers -> KycCallSet] /\ kycCalls'[c] = K!NoCall
      /\ \A d \in KycCallers \ {c} : kycCalls'[d] = kycCalls[d]
  BY DEF KycInv, KycTypes, KycCallSet
<1>2. kyc' = row /\ kyc' # K!Absent /\ (~kycOverlap' => ~kycOverlap /\ kyc = kycCalls[c].copy)
  BY NoRowIsNotARow DEF K!SaveKyc
<1>3. KycTypes' BY <1>1, <1>2 DEF KycInv, KycTypes, K!TypeOK
<1>4. RowExists' BY <1>2 DEF RowExists
<1>v. K!VerifiedTypes(documents)' = K!VerifiedTypes(documents) BY DEF K!VerifiedTypes
<1>5. AllEarned'
  <2>1. CallEarned(K!NoCall, granted', everVerified) BY DEF CallEarned, K!NoCall
  <2>2. \A d \in KycCallers : CallEarned(kycCalls[d], granted', everVerified)
    BY CallEarnedGrows DEF KycInv, AllEarned
  <2>3. \A d \in KycCallers : CallEarned(kycCalls'[d], granted', everVerified)
    BY <1>1, <2>1, <2>2
  <2> QED BY <1>v, <1>2, <2>3 DEF KycInv, AllEarned
<1>6. CompletionComes'
  <2> SUFFICES ASSUME granted' = {}, ~kycOverlap', ~kycCut', K!Required \subseteq K!VerifiedTypes(documents),
                      row.level \notin Raised
               PROVE  \E d \in KycCallers : Pending(kycCalls'[d])
    BY <1>v, <1>2 DEF CompletionComes
  <2>1. ~Pending(kycCalls[c]) /\ kyc.level \notin Raised /\ granted = {} /\ ~kycOverlap /\ ~kycCut
    BY <1>2
  <2>2. PICK d \in KycCallers : Pending(kycCalls[d]) BY <2>1 DEF KycInv, CompletionComes
  <2> QED BY <2>1, <2>2, <1>1
<1>7. BlockKept' BY <1>2 DEF BlockKept
<1> QED BY <1>3, <1>4, <1>5, <1>6, <1>7 DEF KycInv

\* A new row is unverified and not blocked.
LEMMA NewRowTyped ==
  ASSUME NEW region \in K!Regions
  PROVE  /\ K!NewRow(region) \in K!KycVerification
         /\ K!NewRow(region).level = "unverified" /\ K!NewRow(region).blocked = FALSE
  BY DEF K!NewRow, K!KycVerification, K!KycLevel, K!AmlRiskLevel

\* initiateVerification reads the row.
LEMMA InitiateReadInv ==
  ASSUME KycInv, NEW c \in KycCallers, K!InitiateRead(c, "high")
  PROVE  KycInv'
<1> DEFINE call == [op |-> "initiate", copy |-> kyc, region |-> "high"]
<1>1. call \in KycCallSet BY DEF KycCallSet, KycInv, KycTypes, K!TypeOK, K!Regions
<1>2. CallEarned(call, granted, everVerified) BY DEF CallEarned, KycInv, AllEarned
<1>3. ~Pending(kycCalls[c]) BY DEF K!InitiateRead, K!Idle, Pending
<1>4. kycCalls' = [kycCalls EXCEPT ![c] = call] BY DEF K!InitiateRead, K!Call
<1>5. call.op \notin {"documents", "row"} OBVIOUS
<1> HIDE DEF call
<1> QED BY <1>1, <1>2, <1>3, <1>4, <1>5, KycReads DEF K!InitiateRead

\* initiateVerification saves it, or makes the first one.
LEMMA InitiateSaveInv ==
  ASSUME KycInv, NEW c \in KycCallers, K!InitiateSave(c)
  PROVE  KycInv'
<1> DEFINE call == kycCalls[c]
           row == IF call.copy = K!Absent THEN K!NewRow(call.region) ELSE [call.copy EXCEPT !.region = call.region]
<1>1. call.copy \in K!KycVerification \cup {K!Absent} /\ call.region \in K!Regions /\ call.op = "initiate"
  BY KycCallTyped DEF K!InitiateSave
<1>2. K!SaveKyc(c, row) /\ kycCalls' = [kycCalls EXCEPT ![c] = K!NoCall]
  BY DEF K!InitiateSave, K!Call
<1>3. UNCHANGED <<documents, flags, blockScore, granted, everVerified, blockOrder, kycCut>>
  BY DEF K!InitiateSave
<1>4. ~Pending(call) BY <1>1 DEF Pending
<1>5. EarnedBy(call.copy.level, granted, everVerified)
  BY <1>1 DEF KycInv, AllEarned, CallEarned
<1>6. /\ row \in K!KycVerification
      /\ EarnedBy(row.level, granted, everVerified)
      /\ kyc = call.copy => row.level = kyc.level \/ (kyc.level \notin Raised /\ row.level \notin Raised)
      /\ kyc = call.copy /\ ~kycOverlap /\ blockOrder => row.blocked
  <2>1. CASE call.copy = K!Absent
    <3>1. row = K!NewRow(call.region) BY <2>1
    <3>2. row \in K!KycVerification /\ row.level = "unverified" BY <1>1, <3>1, NewRowTyped
    <3>3. kyc = call.copy => kyc.level = "none" BY <2>1 DEF K!Absent
    <3>4. kyc = call.copy /\ ~kycOverlap /\ blockOrder => FALSE BY <2>1 DEF KycInv, BlockKept
    <3> QED BY <3>2, <3>3, <3>4 DEF EarnedBy, Raised
  <2>2. CASE call.copy # K!Absent
    <3>1. row = [call.copy EXCEPT !.region = call.region] /\ call.copy \in K!KycVerification BY <2>2, <1>1
    <3>2. row \in K!KycVerification /\ row.level = call.copy.level /\ row.blocked = call.copy.blocked
      BY <1>1, <3>1 DEF K!KycVerification
    <3>3. kyc = call.copy /\ ~kycOverlap /\ blockOrder => call.copy.blocked BY DEF KycInv, BlockKept
    <3> QED BY <1>5, <3>2, <3>3
  <2> QED BY <2>1, <2>2
<1> HIDE DEF row
<1> QED BY <1>2, <1>3, <1>4, <1>6, KycSaves

\* updateKycLevel reads the row.
LEMMA UpdateLevelReadInv ==
  ASSUME KycInv, NEW c \in KycCallers, NEW level \in {"unverified", "institutional"},
         NEW block \in {"keep", "yes", "no"}, K!UpdateLevelRead(c, level, block)
  PROVE  KycInv'
<1> DEFINE call == [op |-> "level", copy |-> kyc, level |-> level, block |-> block]
<1>0. kyc \in K!KycVerification BY DEF K!UpdateLevelRead, KycInv, KycTypes, K!TypeOK
<1>1. call \in KycCallSet BY <1>0 DEF KycCallSet, K!KycLevel
<1>2. CallEarned(call, granted, everVerified) BY DEF CallEarned, KycInv, AllEarned
<1>3. ~Pending(kycCalls[c]) BY DEF K!UpdateLevelRead, K!Idle, Pending
<1>4. kycCalls' = [kycCalls EXCEPT ![c] = call] BY DEF K!UpdateLevelRead, K!Call
<1>5. call.op \notin {"documents", "row"} OBVIOUS
<1> HIDE DEF call
<1> QED BY <1>1, <1>2, <1>3, <1>4, <1>5, KycReads DEF K!UpdateLevelRead

\* updateKycLevel saves it with a level an administrator gives.
LEMMA UpdateLevelSaveInv ==
  ASSUME KycInv, NEW c \in KycCallers, K!UpdateLevelSave(c)
  PROVE  KycInv'
<1> DEFINE call == kycCalls[c]
           b == IF call.block = "keep" THEN call.copy.blocked ELSE call.block = "yes"
           row == [call.copy EXCEPT !.level = call.level, !.blocked = b]
<1>1. call.copy \in K!KycVerification /\ call.level \in K!KycLevel /\ call.op = "level"
  BY KycCallTyped DEF K!UpdateLevelSave
<1>2. K!SaveKyc(c, row) /\ kycCalls' = [kycCalls EXCEPT ![c] = K!NoCall]
  BY DEF K!UpdateLevelSave, K!Call
<1>3. UNCHANGED <<documents, flags, blockScore, everVerified, kycCut>> /\ granted' = granted \cup {call.level}
      /\ blockOrder' = IF call.block = "keep" THEN blockOrder ELSE call.block = "yes"
  BY DEF K!UpdateLevelSave
<1>4. b \in BOOLEAN BY <1>1 DEF K!KycVerification
<1>5. row \in K!KycVerification /\ row.level = call.level
  <2> HIDE DEF b
  <2> QED BY <1>1, <1>4 DEF K!KycVerification
<1>6. row.blocked = b
  <2> HIDE DEF b
  <2> QED BY <1>1, <1>4 DEF K!KycVerification
<1>7. kyc = call.copy /\ ~kycOverlap /\ blockOrder' => row.blocked
  <2>1. kyc = call.copy /\ ~kycOverlap /\ blockOrder => call.copy.blocked BY DEF KycInv, BlockKept
  <2>2. kyc = call.copy /\ ~kycOverlap /\ blockOrder' => b BY <1>3, <2>1
  <2> HIDE DEF row, b
  <2> QED BY <1>6, <2>2
<1>8. EarnedBy(row.level, granted', everVerified) BY <1>3, <1>5 DEF EarnedBy
<1>9. granted' # {} /\ granted \subseteq granted' BY <1>3
<1> HIDE DEF row, b
<1> QED BY <1>2, <1>3, <1>5, <1>7, <1>8, <1>9, KycSaves

\* checkDocumentCompletion saves the level the documents earn.
LEMMA CompletionSaveInv ==
  ASSUME KycInv, NEW c \in KycCallers, K!CompletionSave(c)
  PROVE  KycInv'
<1> DEFINE call == kycCalls[c]
           row == [call.copy EXCEPT !.level = call.level]
<1>1. call.copy \in K!KycVerification /\ call.level \in K!KycLevel /\ call.op = "complete"
  BY KycCallTyped DEF K!CompletionSave
<1>2. K!SaveKyc(c, row) /\ kycCalls' = [kycCalls EXCEPT ![c] = K!NoCall]
  BY DEF K!CompletionSave, K!Call
<1>3. UNCHANGED <<documents, flags, blockScore, granted, everVerified, blockOrder, kycCut>>
  BY DEF K!CompletionSave
<1>4. row \in K!KycVerification /\ row.level = call.level /\ row.blocked = call.copy.blocked
  BY <1>1 DEF K!KycVerification
<1>5. EarnedBy(call.level, granted, everVerified) /\ call.level \in Raised
  BY <1>1 DEF KycInv, AllEarned, CallEarned
<1>6. kyc = call.copy /\ ~kycOverlap /\ blockOrder => call.copy.blocked BY DEF KycInv, BlockKept
<1> HIDE DEF row
<1> QED BY <1>2, <1>3, <1>4, <1>5, <1>6, KycSaves

\* updateRiskAssessment saves the copy with its score.
LEMMA AssessmentSaveInv ==
  ASSUME KycInv, NEW c \in KycCallers, K!AssessmentSave(c)
  PROVE  KycInv'
<1> DEFINE call == kycCalls[c]
           risk == K!ScoreToRiskLevel(call.score)
           row == [call.copy EXCEPT !.score = call.score, !.risk = risk]
<1>1. call.copy \in K!KycVerification /\ call.score \in 0 .. 100 /\ call.op = "assess"
  BY KycCallTyped DEF K!AssessmentSave
<1>2. K!SaveKyc(c, row) /\ kycCalls' = [kycCalls EXCEPT ![c] = K!NoCall]
  BY DEF K!AssessmentSave, K!Call
<1>3. UNCHANGED <<documents, flags, blockScore, granted, everVerified, blockOrder, kycCut>>
  BY DEF K!AssessmentSave
<1>0. risk \in K!AmlRiskLevel BY DEF K!ScoreToRiskLevel, K!AmlRiskLevel
<1>4. row \in K!KycVerification /\ row.level = call.copy.level /\ row.blocked = call.copy.blocked
  <2> HIDE DEF risk
  <2> QED BY <1>0, <1>1 DEF K!KycVerification
<1>5. EarnedBy(call.copy.level, granted, everVerified) /\ ~Pending(call)
  BY <1>1 DEF KycInv, AllEarned, CallEarned, Pending
<1>6. kyc = call.copy /\ ~kycOverlap /\ blockOrder => call.copy.blocked BY DEF KycInv, BlockKept
<1> HIDE DEF row
<1> QED BY <1>2, <1>3, <1>4, <1>5, <1>6, KycSaves

\* uploadDocument adds a pending document, which verifies nothing.
LEMMA UploadInv ==
  ASSUME KycInv, NEW c \in KycCallers, NEW type \in K!KycDocumentType, K!UploadDocument(c, type)
  PROVE  KycInv'
<1> DEFINE x == [type |-> type, status |-> "pending"]
<1>1. documents' = Append(documents, x)
      /\ UNCHANGED <<flags, blockScore, kycCalls, granted, everVerified, blockOrder, kycOverlap, kycCut>>
      /\ kyc' = IF kyc = K!Absent THEN K!NewRow("low") ELSE kyc
  BY DEF K!UploadDocument
<1>2. x \in K!KycDocument /\ x.status # "verified" BY DEF K!KycDocument, K!KycDocumentStatus
<1>3. documents \in Seq(K!KycDocument) /\ Len(documents) \in Nat BY LenProperties DEF KycInv, KycTypes, K!TypeOK
<1>4. K!NewRow("low") \in K!KycVerification /\ K!NewRow("low").level = "unverified"
  BY NewRowTyped DEF K!Regions
<1>5. kyc' \in K!KycVerification
  BY <1>1, <1>4 DEF KycInv, KycTypes, K!TypeOK
<1>6. kyc' # K!Absent BY <1>5, NoRowIsNotARow
<1>7. (kyc'.level \in Raised <=> kyc.level \in Raised) /\ EarnedBy(kyc'.level, granted, everVerified)
  <2>1. CASE kyc = K!Absent BY <2>1, <1>1, <1>4 DEF K!Absent, Raised, EarnedBy
  <2>2. CASE kyc # K!Absent BY <2>2, <1>1 DEF KycInv, AllEarned
  <2> QED BY <2>1, <2>2
<1> HIDE DEF x
<1>8. /\ documents' \in Seq(K!KycDocument) /\ Len(documents') = Len(documents) + 1
      /\ \A i \in 1 .. Len(documents) : documents'[i] = documents[i]
      /\ documents'[Len(documents) + 1] = x
      /\ DOMAIN documents = 1 .. Len(documents) /\ DOMAIN documents' = 1 .. (Len(documents) + 1)
  BY <1>1, <1>2, <1>3, AppendProperties, LenProperties
<1>9. K!VerifiedTypes(documents)' = K!VerifiedTypes(documents)
  <2> DEFINE D == {j \in DOMAIN documents : documents[j].status = "verified"}
             E == {j \in DOMAIN documents' : documents'[j].status = "verified"}
  <2>1. D = E BY <1>2, <1>3, <1>8
  <2>2. \A j \in D : documents'[j].type = documents[j].type BY <1>8
  <2>3. K!VerifiedTypes(documents) = {documents[i].type : i \in D} BY DEF K!VerifiedTypes
  <2>4. K!VerifiedTypes(documents)' = {documents'[i].type : i \in E} BY DEF K!VerifiedTypes
  <2> HIDE DEF D, E
  <2> QED BY <2>1, <2>2, <2>3, <2>4
<1>10. KycTypes' BY <1>1, <1>5, <1>8 DEF KycInv, KycTypes, K!TypeOK
<1>11. RowExists' BY <1>1, <1>6 DEF RowExists
<1>12. AllEarned' BY <1>1, <1>7, <1>9 DEF KycInv, AllEarned
<1>13. CompletionComes' BY <1>1, <1>7, <1>9 DEF KycInv, CompletionComes
<1>14. BlockKept' BY <1>1, <1>6 DEF KycInv, BlockKept
<1> QED BY <1>10, <1>11, <1>12, <1>13, <1>14 DEF KycInv

\* reviewDocument: its completion check is now due.
LEMMA ReviewInv ==
  ASSUME KycInv, NEW c \in KycCallers, NEW i \in DOMAIN documents, NEW status \in {"verified", "rejected"},
         K!ReviewDocument(c, i, status)
  PROVE  KycInv'
<1> DEFINE x == [documents[i] EXCEPT !.status = status]
           call == [op |-> "documents"]
<1>1. /\ documents' = [documents EXCEPT ![i] = x]
      /\ UNCHANGED <<kyc, flags, blockScore, granted, blockOrder, kycOverlap, kycCut>>
      /\ kycCalls' = [kycCalls EXCEPT ![c] = call]
      /\ everVerified' = IF status = "verified" THEN everVerified \cup {documents[i].type} ELSE everVerified
  BY DEF K!ReviewDocument, K!Call
<1>2. documents \in Seq(K!KycDocument) /\ Len(documents) \in Nat /\ DOMAIN documents = 1 .. Len(documents)
      /\ documents[i] \in K!KycDocument
  BY LenProperties, ElementOfSeq DEF KycInv, KycTypes, K!TypeOK
<1>3. x \in K!KycDocument /\ x.status = status /\ x.type = documents[i].type
  BY <1>2 DEF K!KycDocument, K!KycDocumentStatus
<1> HIDE DEF x
<1>4. /\ documents' \in Seq(K!KycDocument) /\ Len(documents') = Len(documents)
      /\ \A j \in 1 .. Len(documents) : documents'[j] = IF j = i THEN x ELSE documents[j]
  BY <1>1, <1>2, <1>3, ExceptSeq
<1>5. DOMAIN documents' = DOMAIN documents BY <1>1
<1>6. K!VerifiedTypes(documents)' \subseteq everVerified'
  <2> SUFFICES ASSUME NEW j \in DOMAIN documents', documents'[j].status = "verified"
               PROVE  documents'[j].type \in everVerified'
    BY DEF K!VerifiedTypes
  <2>1. CASE j = i BY <2>1, <1>1, <1>2, <1>3, <1>4, <1>5
  <2>2. CASE j # i
    <3>1. documents'[j] = documents[j] /\ j \in DOMAIN documents BY <2>2, <1>2, <1>4, <1>5
    <3>2. documents[j].type \in K!VerifiedTypes(documents) BY <3>1 DEF K!VerifiedTypes
    <3> QED BY <3>1, <3>2, <1>1 DEF KycInv, AllEarned
  <2> QED BY <2>1, <2>2
<1>7. /\ kycCalls' \in [KycCallers -> KycCallSet] /\ kycCalls'[c] = call
      /\ \A d \in KycCallers \ {c} : kycCalls'[d] = kycCalls[d]
  <2>1. call \in KycCallSet BY DEF KycCallSet
  <2> HIDE DEF call
  <2> QED BY <1>1, <2>1 DEF KycInv, KycTypes
<1>8. KycTypes' BY <1>1, <1>4, <1>7 DEF KycInv, KycTypes, K!TypeOK
<1>9. kyc # K!Absent
  BY <1>2, EmptySeq DEF KycInv, RowExists
<1>10. RowExists' BY <1>1, <1>9 DEF RowExists
<1>11. AllEarned'
  <2>1. everVerified \subseteq everVerified' BY <1>1
  <2>2. \A d \in KycCallers : CallEarned(kycCalls[d], granted, everVerified')
    BY <2>1, CallEarnedGrows DEF KycInv, AllEarned
  <2>3. CallEarned(call, granted, everVerified') BY DEF CallEarned
  <2>4. \A d \in KycCallers : CallEarned(kycCalls'[d], granted, everVerified')
    BY <2>2, <2>3, <1>7
  <2>5. EarnedBy(kyc.level, granted, everVerified') BY <2>1, EarnedGrows DEF KycInv, AllEarned
  <2> QED BY <1>1, <1>6, <2>4, <2>5 DEF AllEarned
<1>12. CompletionComes'
  <2>1. Pending(kycCalls'[c]) BY <1>7 DEF Pending
  <2> QED BY <2>1 DEF CompletionComes
<1>13. BlockKept' BY <1>1 DEF KycInv, BlockKept
<1> QED BY <1>8, <1>10, <1>11, <1>12, <1>13 DEF KycInv

\* checkDocumentCompletion reads the documents.
LEMMA CompletionDocumentsInv ==
  ASSUME KycInv, NEW c \in KycCallers, K!CompletionDocuments(c)
  PROVE  KycInv'
<1> DEFINE T == K!VerifiedTypes(documents)
           call == [op |-> "row", types |-> T]
<1>1. T \in SUBSET K!KycDocumentType
  <2>1. \A i \in DOMAIN documents : documents[i] \in K!KycDocument
    BY DEF KycInv, KycTypes, K!TypeOK
  <2> QED BY <2>1 DEF K!VerifiedTypes, K!KycDocument
<1>2. call \in KycCallSet /\ call.op = "row" /\ call.types = T
  <2> HIDE DEF T
  <2> QED BY <1>1 DEF KycCallSet
<1>3. kycCalls' = [kycCalls EXCEPT ![c] = call] BY DEF K!CompletionDocuments, K!Call
<1>4. kyc # K!Absent BY DEF K!CompletionDocuments, KycInv, RowExists
<1>5. T \subseteq everVerified BY DEF KycInv, AllEarned
<1> HIDE DEF call
<1>6. CallEarned(call, granted, everVerified) BY <1>2, <1>5 DEF CallEarned
<1>7. K!Required \subseteq T => Pending(call) BY <1>2 DEF Pending
<1> HIDE DEF T
<1>8. UNCHANGED <<kyc, documents, flags, blockScore, granted, everVerified, blockOrder, kycOverlap, kycCut>>
  BY DEF K!CompletionDocuments
<1> QED BY <1>2, <1>3, <1>4, <1>6, <1>7, <1>8, KycReads DEF T

\* checkDocumentCompletion reads the row and decides.
LEMMA CompletionRowInv ==
  ASSUME KycInv, NEW c \in KycCallers, K!CompletionRow(c)
  PROVE  KycInv'
<1> DEFINE types == kycCalls[c].types
           level == K!LevelFor(types, kyc.level)
           call == [op |-> "complete", copy |-> kyc, level |-> level]
<1>1. /\ kycCalls[c].op = "row" /\ types \in SUBSET K!KycDocumentType
      /\ types \subseteq everVerified /\ kyc # K!Absent
  BY KycCallTyped DEF K!CompletionRow, KycInv, AllEarned, CallEarned, RowExists
<1>2. UNCHANGED <<kyc, documents, flags, blockScore, granted, everVerified, blockOrder, kycOverlap, kycCut>>
  BY DEF K!CompletionRow
<1>3. K!Required \subseteq types => level \in Raised
  BY DEF K!LevelFor, Raised
<1>4. CASE level = kyc.level
  <2>1. kycCalls' = [kycCalls EXCEPT ![c] = K!NoCall] BY <1>4 DEF K!CompletionRow, K!Call
  <2>2. K!NoCall \in KycCallSet /\ CallEarned(K!NoCall, granted, everVerified)
        /\ K!NoCall.op \notin {"documents", "row"}
    BY DEF KycCallSet, CallEarned, K!NoCall
  <2>3. Pending(kycCalls[c]) => kyc.level \in Raised BY <1>1, <1>3, <1>4 DEF Pending
  <2> QED BY <1>2, <2>1, <2>2, <2>3, KycReads
<1>5. CASE level # kyc.level
  <2>1. kycCalls' = [kycCalls EXCEPT ![c] = call] BY <1>5 DEF K!CompletionRow, K!Call
  <2>2. K!Required \subseteq types BY <1>5 DEF K!LevelFor
  <2>3. level \in Raised BY <1>3, <2>2
  <2>4. EarnedBy(level, granted, everVerified)
    BY <1>1, <2>2 DEF EarnedBy, K!LevelFor, K!Required, K!KycDocumentType
  <2>5. level \in K!KycLevel /\ kyc \in K!KycVerification
    BY <1>1, <2>3 DEF Raised, K!KycLevel, KycInv, KycTypes, K!TypeOK
  <2> HIDE DEF level
  <2>6. call \in KycCallSet /\ call.op = "complete" /\ call.copy = kyc /\ call.level = level
    BY <2>5 DEF KycCallSet
  <2> HIDE DEF call
  <2>7. CallEarned(call, granted, everVerified)
    BY <2>3, <2>4, <2>6 DEF CallEarned, KycInv, AllEarned
  <2>8. Pending(call) BY <2>6 DEF Pending
  <2>9. call.op \notin {"documents", "row"} BY <2>6
  <2> QED BY <1>2, <2>1, <2>6, <2>7, <2>8, <2>9, KycReads
<1> QED BY <1>4, <1>5

\* The score is a number between 0 and 100.
LEMMA CappedScore ==
  ASSUME NEW x \in Nat PROVE K!Min({100, x}) \in 0 .. 100
<1>1. K!Min({100, x}) \in {100, x} /\ K!Min({100, x}) <= 100 /\ K!Min({100, x}) <= x
  BY DEF K!Min
<1> QED BY <1>1

\* calculateRiskScore returns a score.
LEMMA ScoreTyped ==
  ASSUME KycInv, kyc # K!Absent
  PROVE  K!CalculateRiskScore(kyc, documents, flags, 15) \in 0 .. 100
<1>1. kyc \in K!KycVerification /\ flags \in Seq(K!AmlFlag) /\ Len(flags) \in Nat
      /\ DOMAIN flags = 1 .. Len(flags)
  BY LenProperties DEF KycInv, KycTypes, K!TypeOK
<1>2. ASSUME NEW r PROVE K!CountRisk(flags, r) \in Nat
  <2> DEFINE N == {i \in DOMAIN flags : flags[i].risk = r}
  <2>1. IsFiniteSet(1 .. Len(flags)) BY <1>1, FS_Interval
  <2>2. IsFiniteSet(N) BY <1>1, <2>1, FS_Subset
  <2>3. Cardinality(N) \in Nat BY <2>2, FS_CardinalityType
  <2>4. K!CountRisk(flags, r) = Cardinality(N) BY DEF K!CountRisk, K!Cardinality, Cardinality
  <2> QED BY <2>3, <2>4
<1>3. K!FlagFactor(flags) \in Nat
  <2> DEFINE n == K!CountRisk(flags, "critical") * 40 + K!CountRisk(flags, "high") * 20 + Len(flags) * 5
  <2>1. n \in Nat
    <3>1. K!CountRisk(flags, "critical") \in Nat /\ K!CountRisk(flags, "high") \in Nat BY <1>2
    <3> QED BY <1>1, <3>1
  <2>2. K!FlagFactor(flags) = K!Min({100, n}) BY DEF K!FlagFactor
  <2> HIDE DEF n
  <2> QED BY <2>1, <2>2, CappedScore
<1>4. K!LevelFactor[kyc.level] \in Nat /\ K!RegionFactor[kyc.region] \in Nat
  BY <1>1 DEF K!KycVerification, K!KycLevel, K!Regions, K!LevelFactor, K!RegionFactor
<1>5. K!Cardinality(K!Required \ K!VerifiedTypes(documents)) \in Nat
  <2> DEFINE M == K!Required \ K!VerifiedTypes(documents)
  <2>1. IsFiniteSet({"id_verification", "address_proof"})
    <3>1. IsFiniteSet({"id_verification"} \cup {"address_proof"}) BY FS_Singleton, FS_AddElement
    <3> QED BY <3>1
  <2>2. IsFiniteSet(M) BY <2>1, FS_Subset DEF K!Required
  <2>3. Cardinality(M) \in Nat BY <2>2, FS_CardinalityType
  <2>4. K!Cardinality(M) = Cardinality(M) BY DEF K!Cardinality, Cardinality
  <2> QED BY <2>3, <2>4
<1> DEFINE sum == K!LevelFactor[kyc.level] + K!Cardinality(K!Required \ K!VerifiedTypes(documents)) * 100
                  + K!FlagFactor(flags) + 15 + K!RegionFactor[kyc.region]
           quotient == (sum * 1000 + 21) \div 42
<1>6. sum \in Nat BY <1>3, <1>4, <1>5
<1>7. K!CalculateRiskScore(kyc, documents, flags, 15) = K!Min({100, quotient})
  BY DEF K!CalculateRiskScore
<1> HIDE DEF sum
<1>8. quotient \in Nat BY <1>6
<1> HIDE DEF quotient
<1> QED BY <1>7, <1>8, CappedScore

\* updateRiskAssessment reads the row and computes the score.
LEMMA AssessmentReadInv ==
  ASSUME KycInv, NEW c \in KycCallers, K!AssessmentRead(c, 15)
  PROVE  KycInv'
<1> DEFINE score == K!CalculateRiskScore(kyc, documents, flags, 15)
           call == [op |-> "assess", copy |-> kyc, score |-> score]
<1>0. kyc # K!Absent /\ kyc \in K!KycVerification BY DEF K!AssessmentRead, KycInv, KycTypes, K!TypeOK
<1>1. score \in 0 .. 100 BY <1>0, ScoreTyped
<1>2. UNCHANGED <<kyc, documents, flags, blockScore, granted, everVerified, blockOrder, kycOverlap, kycCut>>
  BY DEF K!AssessmentRead
<1>3. kycCalls' = [kycCalls EXCEPT ![c] = call] BY DEF K!AssessmentRead, K!Call
<1>4. ~Pending(kycCalls[c]) BY DEF K!AssessmentRead, K!Idle, Pending
<1> HIDE DEF score
<1>5. call \in KycCallSet /\ call.op = "assess" /\ call.copy = kyc BY <1>0, <1>1 DEF KycCallSet
<1> HIDE DEF call
<1>6. CallEarned(call, granted, everVerified) /\ call.op \notin {"documents", "row"}
  BY <1>5 DEF CallEarned, KycInv, AllEarned
<1> QED BY <1>2, <1>3, <1>4, <1>5, <1>6, KycReads

\* Steps that leave the row, the documents and the history alone.
LEMMA FlagsAndConfig ==
  ASSUME KycInv, flags' \in Seq(K!AmlFlag), blockScore' \in 0 .. 100,
         UNCHANGED <<kyc, documents, kycCalls, granted, everVerified, blockOrder, kycOverlap, kycCut>>
  PROVE  KycInv'
<1>v. K!VerifiedTypes(documents)' = K!VerifiedTypes(documents) BY DEF K!VerifiedTypes
<1>1. KycTypes' BY DEF KycInv, KycTypes, K!TypeOK
<1>2. RowExists' /\ BlockKept' BY DEF KycInv, RowExists, BlockKept
<1>3. AllEarned' BY <1>v DEF KycInv, AllEarned
<1>4. CompletionComes' BY <1>v DEF KycInv, CompletionComes
<1> QED BY <1>1, <1>2, <1>3, <1>4 DEF KycInv

\* assessTransactionRisk may store a flag.
LEMMA AssessTransactionInv ==
  ASSUME KycInv, NEW c \in KycCallers, NEW rules \in {0, 25}, K!AssessTransaction(c, rules)
  PROVE  KycInv'
<1> DEFINE risk == K!ScoreToRiskLevel(K!TransactionScore(rules))
           x == [risk |-> risk, status |-> "pending"]
<1>1. risk \in K!AmlRiskLevel BY DEF K!ScoreToRiskLevel, K!AmlRiskLevel
<1>2. flags' = Append(flags, x) \/ flags' = flags BY DEF K!AssessTransaction
<1> HIDE DEF risk
<1>3. x \in K!AmlFlag BY <1>1 DEF K!AmlFlag, K!AmlFlagStatus
<1> HIDE DEF x
<1>4. flags' \in Seq(K!AmlFlag) BY <1>2, <1>3, AppendProperties DEF KycInv, KycTypes, K!TypeOK
<1>5. blockScore' \in 0 .. 100 BY DEF K!AssessTransaction, K!GetConfig, KycInv, KycTypes, K!TypeOK
<1> QED BY <1>4, <1>5, FlagsAndConfig DEF K!AssessTransaction

\* reviewFlag reads the flag.
LEMMA ReviewFlagReadInv ==
  ASSUME KycInv, NEW c \in KycCallers, NEW i \in DOMAIN flags, K!ReviewFlagRead(c, i)
  PROVE  KycInv'
<1> DEFINE call == [op |-> "flag", id |-> i, copy |-> flags[i]]
<1>1. flags[i] \in K!AmlFlag /\ i \in Nat
  BY ElementOfSeq, LenProperties DEF KycInv, KycTypes, K!TypeOK
<1>2. call \in KycCallSet BY <1>1 DEF KycCallSet
<1>3. call.op = "flag" OBVIOUS
<1>4. kycCalls' = [kycCalls EXCEPT ![c] = call] BY DEF K!ReviewFlagRead, K!Call
<1>5. ~Pending(kycCalls[c]) BY DEF K!ReviewFlagRead, K!Idle, Pending
<1> HIDE DEF call
<1>6. CallEarned(call, granted, everVerified) /\ call.op \notin {"documents", "row"} BY <1>3 DEF CallEarned
<1> QED BY <1>2, <1>4, <1>5, <1>6, KycReads DEF K!ReviewFlagRead

\* reviewFlag saves it.
LEMMA ReviewFlagSaveInv ==
  ASSUME KycInv, NEW c \in KycCallers, NEW status \in {"cleared", "confirmed"}, K!ReviewFlagSave(c, status)
  PROVE  KycInv'
<1> DEFINE x == [kycCalls[c].copy EXCEPT !.status = status]
           id == kycCalls[c].id
<1>1. kycCalls[c].copy \in K!AmlFlag /\ kycCalls[c].op = "flag"
  BY KycCallTyped DEF K!ReviewFlagSave
<1>2. x \in K!AmlFlag BY <1>1 DEF K!AmlFlag, K!AmlFlagStatus
<1>3. flags' = [flags EXCEPT ![id] = x] BY DEF K!ReviewFlagSave
<1>4. flags \in Seq(K!AmlFlag) /\ DOMAIN flags = 1 .. Len(flags)
  BY LenProperties DEF KycInv, KycTypes, K!TypeOK
<1>5. kycCalls' = [kycCalls EXCEPT ![c] = K!NoCall] BY DEF K!ReviewFlagSave, K!Call
<1>u. UNCHANGED <<kyc, documents, blockScore, granted, everVerified, blockOrder, kycOverlap, kycCut>>
  BY DEF K!ReviewFlagSave
<1> HIDE DEF x, id
<1>6. flags' \in Seq(K!AmlFlag)
  <2>1. CASE id \in 1 .. Len(flags) BY <1>2, <1>3, <1>4, <2>1, ExceptSeq
  <2>2. CASE id \notin 1 .. Len(flags)
    <3>1. flags' = flags BY <1>3, <1>4, <2>2
    <3> QED BY <1>4, <3>1
  <2> QED BY <2>1, <2>2
<1>7. /\ kycCalls' \in [KycCallers -> KycCallSet] /\ kycCalls'[c] = K!NoCall
      /\ \A d \in KycCallers \ {c} : kycCalls'[d] = kycCalls[d]
  BY <1>5 DEF KycInv, KycTypes, KycCallSet
<1>v. K!VerifiedTypes(documents)' = K!VerifiedTypes(documents) BY <1>u DEF K!VerifiedTypes
<1>8. KycTypes' BY <1>u, <1>6, <1>7 DEF KycInv, KycTypes, K!TypeOK
<1>9. RowExists' BY <1>u, <1>7 DEF KycInv, RowExists, K!NoCall
<1>10. AllEarned'
  <2>1. CallEarned(K!NoCall, granted, everVerified) BY DEF CallEarned, K!NoCall
  <2>2. \A d \in KycCallers : CallEarned(kycCalls'[d], granted, everVerified)
    BY <1>7, <2>1 DEF KycInv, AllEarned
  <2> QED BY <1>u, <1>v, <2>2 DEF KycInv, AllEarned
<1>11. CompletionComes'
  <2>1. ~Pending(kycCalls[c]) BY <1>1 DEF Pending
  <2>2. \A d \in KycCallers : Pending(kycCalls[d]) => Pending(kycCalls'[d]) BY <1>7, <2>1
  <2> QED BY <1>u, <1>v, <2>2 DEF KycInv, CompletionComes
<1>12. BlockKept' BY <1>u DEF KycInv, BlockKept
<1> QED BY <1>8, <1>9, <1>10, <1>11, <1>12 DEF KycInv

\* A call that is cut short is remembered as such.
LEMMA FailInv ==
  ASSUME KycInv, NEW c \in KycCallers, K!Fail(c) PROVE KycInv'
<1>1. K!NoCall \in KycCallSet /\ CallEarned(K!NoCall, granted, everVerified)
      /\ K!NoCall.op \notin {"documents", "row"}
  BY DEF KycCallSet, CallEarned, K!NoCall
<1>2. kycCalls' = [kycCalls EXCEPT ![c] = K!NoCall] /\ kycCut'
      /\ UNCHANGED <<kyc, documents, flags, blockScore, granted, everVerified, blockOrder, kycOverlap>>
  BY DEF K!Fail, K!Call
<1> QED BY <1>1, <1>2, KycReads

\* Every step keeps the invariant.
LEMMA KycInvStep == KycInv /\ [K!Next]_(K!vars) => KycInv'
<1> SUFFICES ASSUME KycInv, [K!Next]_(K!vars) PROVE KycInv' OBVIOUS
<1>1. CASE K!UpsertConfig(50)
  <2>1. flags' \in Seq(K!AmlFlag) BY <1>1 DEF K!UpsertConfig, KycInv, KycTypes, K!TypeOK
  <2>2. blockScore' \in 0 .. 100 BY <1>1 DEF K!UpsertConfig
  <2> QED BY <1>1, <2>1, <2>2, FlagsAndConfig DEF K!UpsertConfig
<1>2. CASE UNCHANGED K!vars
  <2>1. flags' \in Seq(K!AmlFlag) /\ blockScore' \in 0 .. 100
    BY <1>2 DEF K!vars, KycInv, KycTypes, K!TypeOK
  <2> QED BY <1>2, <2>1, FlagsAndConfig DEF K!vars
<1>3. ASSUME NEW c \in KycCallers, K!InitiateRead(c, "high") PROVE KycInv' BY <1>3, InitiateReadInv
<1>4. ASSUME NEW c \in KycCallers, NEW level \in {"unverified", "institutional"},
             NEW block \in {"keep", "yes", "no"}, K!UpdateLevelRead(c, level, block) PROVE KycInv'
  BY <1>4, UpdateLevelReadInv
<1>5. ASSUME NEW c \in KycCallers, NEW type \in K!KycDocumentType, K!UploadDocument(c, type) PROVE KycInv'
  BY <1>5, UploadInv
<1>6. ASSUME NEW c \in KycCallers, NEW i \in DOMAIN documents, NEW status \in {"verified", "rejected"},
             K!ReviewDocument(c, i, status) PROVE KycInv'
  BY <1>6, ReviewInv
<1>7. ASSUME NEW c \in KycCallers, K!AssessmentRead(c, 15) PROVE KycInv' BY <1>7, AssessmentReadInv
<1>8. ASSUME NEW c \in KycCallers, NEW rules \in {0, 25}, K!AssessTransaction(c, rules) PROVE KycInv'
  BY <1>8, AssessTransactionInv
<1>9. ASSUME NEW c \in KycCallers, NEW i \in DOMAIN flags, K!ReviewFlagRead(c, i) PROVE KycInv'
  BY <1>9, ReviewFlagReadInv
<1>10. ASSUME NEW c \in KycCallers, NEW status \in {"cleared", "confirmed"}, K!ReviewFlagSave(c, status)
       PROVE KycInv'
  BY <1>10, ReviewFlagSaveInv
<1>11. ASSUME NEW c \in KycCallers,
              K!InitiateSave(c) \/ K!UpdateLevelSave(c) \/ K!CompletionDocuments(c) \/ K!CompletionRow(c)
              \/ K!CompletionSave(c) \/ K!AssessmentSave(c) \/ K!Fail(c)
       PROVE  KycInv'
  BY <1>11, InitiateSaveInv, UpdateLevelSaveInv, CompletionDocumentsInv, CompletionRowInv,
     CompletionSaveInv, AssessmentSaveInv, FailInv
<1>12. CASE K!Next BY <1>1, <1>3, <1>4, <1>5, <1>6, <1>7, <1>8, <1>9, <1>10, <1>11, <1>12 DEF K!Next
<1> QED BY <1>2, <1>12

\* A level was set by an administrator or earned by its documents, verified documents
\* do raise it, and an ordered block stands until it is lifted, for any number of requests
\* in flight and of documents (updateKycLevel, checkDocumentCompletion, updateRiskAssessment).
THEOREM KycSound == Spec => []KycIsSound
<1>1. Init => KycInv BY KycPart, KycInit
<1>2. KycInv /\ [Next]_vars => KycInv' BY KycPart, KycInvStep
<1>3. KycInv => KycIsSound
  <2> SUFFICES ASSUME KycInv PROVE K!TypeOK /\ K!LevelIsEarned /\ K!BlockStands BY DEF KycIsSound
  <2>1. K!LevelIsEarned
    <3>1. \A c \in KycCallers : K!Idle(c) => ~Pending(kycCalls[c]) BY DEF K!Idle, Pending
    <3>2. EarnedBy(kyc.level, granted, everVerified) BY DEF KycInv, AllEarned
    <3>3. (granted = {} /\ ~kycOverlap /\ ~kycCut /\ \A c \in KycCallers : K!Idle(c)) =>
             (K!Required \subseteq K!VerifiedTypes(documents) => kyc.level \in {"standard", "enhanced"})
      BY <3>1 DEF KycInv, CompletionComes, Raised
    <3> QED BY <3>2, <3>3 DEF K!LevelIsEarned, EarnedBy
  <2>2. K!BlockStands BY DEF KycInv, BlockKept, K!BlockStands, K!ShouldBlock
  <2> QED BY <2>1, <2>2 DEF KycInv, KycTypes
<1> QED BY <1>1, <1>2, <1>3, PTL DEF Spec

-----------------------------------------------------------------------------
(* Authorization and delegation *)

\* A step of the system is a step of the authorization or leaves it alone.
LEMMA PermissionPart == (Init => Z!Init) /\ ([Next]_vars => [Z!Next]_(Z!vars))
<1>1. Init => Z!Init BY DEF Init
<1>2. ASSUME [Next]_vars PROVE [Z!Next]_(Z!vars)
  <2>1. CASE Next BY <2>1 DEF Next, Z!vars, permissionVars
  <2>2. CASE UNCHANGED vars BY <2>2 DEF vars, Z!vars, permissionVars
  <2> QED BY <1>2, <2>1, <2>2
<1> QED BY <1>1, <1>2

\* The states of a delegation.
Statuses == {"pending", "active", "revoked", "expired"}

\* The delegations there can be,
DelegationSet ==
    [from : People, to : People, expires : Int, chain : SUBSET UNION Chains,
     approvals : SUBSET UNION Chains, status : Statuses]

\* and the entries of the trail.
EntrySet ==
    {[subject |-> req.subject, permission |-> req.permission, amount |-> req.amount,
      decision |-> answer, viaDelegation |-> via] :
        req \in AuthRequests, answer \in {"allow", "deny"}, via \in BOOLEAN}

\* The types of the delegations and the trail.
PermissionTypes ==
    delegations \in Seq(DelegationSet) /\ trail \in Seq(EntrySet) /\ hour \in Int

\* An active delegation has all its approvals.
ActiveIsApproved ==
    \A d \in 1 .. Len(delegations) :
        delegations[d].status = "active" => delegations[d].chain \subseteq delegations[d].approvals

\* A delegation that was ever revoked is revoked.
RevokedIsFinal ==
    \A d \in everRevoked : d \in 1 .. Len(delegations) /\ delegations[d].status = "revoked"

\* The inductive invariant of the delegations.
PermissionInv == PermissionTypes /\ ActiveIsApproved /\ RevokedIsFinal

\* Every delegation is one.
LEMMA DelegationTyped ==
  ASSUME PermissionInv, NEW d \in Z!Ids
  PROVE  /\ delegations[d] \in DelegationSet
         /\ d \in 1 .. Len(delegations) /\ d \in Nat
  BY ElementOfSeq DEF PermissionInv, PermissionTypes, Z!Ids

\* Writes of the status and the approvals change nothing else.
LEMMA DelegationWrite ==
  ASSUME NEW x \in DelegationSet, NEW s \in Statuses, NEW a \in SUBSET UNION Chains
  PROVE  /\ [x EXCEPT !.status = s] \in DelegationSet
         /\ [x EXCEPT !.status = s].status = s
         /\ [x EXCEPT !.status = s].chain = x.chain
         /\ [x EXCEPT !.status = s].approvals = x.approvals
         /\ [x EXCEPT !.approvals = a, !.status = s] \in DelegationSet
         /\ [x EXCEPT !.approvals = a, !.status = s].status = s
         /\ [x EXCEPT !.approvals = a, !.status = s].chain = x.chain
         /\ [x EXCEPT !.approvals = a, !.status = s].approvals = a
  BY DEF DelegationSet

\* One delegation is replaced.
LEMMA DelegationReplaced ==
  ASSUME PermissionInv, NEW d \in Z!Ids, NEW x \in DelegationSet,
         delegations' = [delegations EXCEPT ![d] = x],
         x.status = "active" => x.chain \subseteq x.approvals,
         everRevoked' \subseteq everRevoked \cup {d},
         d \in everRevoked' => x.status = "revoked",
         UNCHANGED <<trail, hour>>
  PROVE  PermissionInv'
<1>1. d \in 1 .. Len(delegations) /\ delegations \in Seq(DelegationSet)
  BY DelegationTyped DEF PermissionInv, PermissionTypes
<1>2. /\ delegations' \in Seq(DelegationSet) /\ Len(delegations') = Len(delegations)
      /\ \A i \in 1 .. Len(delegations) : delegations'[i] = IF i = d THEN x ELSE delegations[i]
  BY <1>1, ExceptSeq
<1>3. PermissionTypes' BY <1>2 DEF PermissionInv, PermissionTypes
<1>4. ActiveIsApproved' BY <1>2 DEF PermissionInv, ActiveIsApproved
<1>5. RevokedIsFinal' BY <1>1, <1>2 DEF PermissionInv, RevokedIsFinal
<1> QED BY <1>3, <1>4, <1>5 DEF PermissionInv

\* The invariant holds without delegations.
LEMMA PermissionInit == Z!Init => PermissionInv
  BY EmptySeq DEF Z!Init, PermissionInv, PermissionTypes, ActiveIsApproved, RevokedIsFinal

\* A new delegation is active only when nobody has to approve it.
LEMMA DelegateInv ==
  ASSUME PermissionInv, NEW from \in People, NEW to \in People, NEW chain \in Chains,
         NEW expires \in 1 .. MaxHour, Z!CreateDelegation(from, to, chain, expires)
  PROVE  PermissionInv'
<1> DEFINE s == IF chain \ {to} = {} THEN "active" ELSE "pending"
           x == [from |-> from, to |-> to, expires |-> expires, chain |-> chain \ {to},
                 approvals |-> {}, status |-> s]
<1>1. x \in DelegationSet
  <2>1. chain \ {to} \in SUBSET UNION Chains OBVIOUS
  <2>2. s \in Statuses BY DEF Statuses
  <2>3. expires \in Int OBVIOUS
  <2> QED BY <2>1, <2>2, <2>3 DEF DelegationSet
<1>2. x.status = "active" => x.chain \subseteq x.approvals OBVIOUS
<1>3. delegations' = Append(delegations, x) /\ UNCHANGED <<trail, hour, everRevoked>>
  BY DEF Z!CreateDelegation
<1> HIDE DEF x
<1>4. /\ delegations \in Seq(DelegationSet) /\ delegations' \in Seq(DelegationSet)
      /\ Len(delegations') = Len(delegations) + 1
      /\ \A i \in 1 .. Len(delegations) : delegations'[i] = delegations[i]
      /\ delegations'[Len(delegations) + 1] = x
  BY <1>1, <1>3, AppendProperties DEF PermissionInv, PermissionTypes
<1>5. Len(delegations) \in Nat BY <1>4, LenProperties
<1>6. PermissionTypes' BY <1>3, <1>4 DEF PermissionInv, PermissionTypes
<1>7. ActiveIsApproved'
  <2> SUFFICES ASSUME NEW i \in 1 .. Len(delegations') , delegations'[i].status = "active"
               PROVE delegations'[i].chain \subseteq delegations'[i].approvals
      BY DEF ActiveIsApproved
  <2>1. CASE i = Len(delegations) + 1 BY <2>1, <1>4, <1>2
  <2>2. CASE i # Len(delegations) + 1
    <3>1. i \in 1 .. Len(delegations) BY <2>2, <1>4, <1>5
    <3> QED BY <3>1, <1>4 DEF PermissionInv, ActiveIsApproved
  <2> QED BY <2>1, <2>2
<1>8. RevokedIsFinal' BY <1>3, <1>4, <1>5 DEF PermissionInv, RevokedIsFinal
<1> QED BY <1>6, <1>7, <1>8 DEF PermissionInv

\* approve never touches a revoked delegation, and activates on the last approval.
LEMMA ApproveInv ==
  ASSUME PermissionInv, NEW d \in Z!Ids, NEW p \in People, Z!ApproveDelegation(d, p)
  PROVE  PermissionInv'
<1>1. delegations[d] \in DelegationSet /\ d \in 1 .. Len(delegations) /\ delegations \in Seq(DelegationSet)
  BY DelegationTyped DEF PermissionInv, PermissionTypes
<1>2. /\ UNCHANGED <<trail, hour, everRevoked>> /\ d \notin everRevoked
  BY DEF Z!ApproveDelegation, PermissionInv, RevokedIsFinal
<1>3. CASE delegations[d].status = "expired" \/ Z!IsExpired(d)
  <2> DEFINE x == [delegations[d] EXCEPT !.status = "expired"]
  <2>1. delegations' = [delegations EXCEPT ![d] = x]
    BY <1>1, <1>3 DEF Z!ApproveDelegation
  <2>2. x \in DelegationSet /\ x.status = "expired"
    BY <1>1, DelegationWrite DEF Statuses
  <2> HIDE DEF x
  <2> QED BY <2>1, <2>2, <1>2, DelegationReplaced
<1>4. CASE ~(delegations[d].status = "expired" \/ Z!IsExpired(d))
  <2> DEFINE a == delegations[d].approvals \cup {p}
             s == IF delegations[d].chain \subseteq a THEN "active" ELSE delegations[d].status
             x == [delegations[d] EXCEPT !.approvals = a, !.status = s]
  <2>1. p \in delegations[d].chain BY <1>4 DEF Z!ApproveDelegation
  <2>2. a \in SUBSET UNION Chains BY <1>1, <2>1 DEF DelegationSet
  <2>3. s \in Statuses BY <1>1 DEF Statuses, DelegationSet
  <2>4. delegations' = [delegations EXCEPT ![d] = x]
    BY <1>1, <1>4 DEF Z!ApproveDelegation
  <2>5. delegations[d].status = "active" => delegations[d].chain \subseteq a
    BY <1>1 DEF PermissionInv, ActiveIsApproved
  <2>6. s = "active" => delegations[d].chain \subseteq a BY <2>5
  <2> HIDE DEF a, s
  <2>7. x \in DelegationSet /\ x.status = s /\ x.chain = delegations[d].chain /\ x.approvals = a
    BY <1>1, <2>2, <2>3 DEF DelegationSet
  <2> HIDE DEF x
  <2> QED BY <2>4, <2>6, <2>7, <1>2, DelegationReplaced
<1> QED BY <1>3, <1>4

\* revoke is final.
LEMMA RevokeDelegationInv ==
  ASSUME PermissionInv, NEW d \in Z!Ids, NEW p \in People, Z!RevokeDelegation(d, p)
  PROVE  PermissionInv'
<1> DEFINE x == [delegations[d] EXCEPT !.status = "revoked"]
<1>1. delegations[d] \in DelegationSet /\ d \in 1 .. Len(delegations) /\ delegations \in Seq(DelegationSet)
  BY DelegationTyped DEF PermissionInv, PermissionTypes
<1>2. /\ delegations' = [delegations EXCEPT ![d] = x]
      /\ everRevoked' = everRevoked \cup {d} /\ UNCHANGED <<trail, hour>>
  BY <1>1 DEF Z!RevokeDelegation
<1>3. x \in DelegationSet /\ x.status = "revoked"
  BY <1>1, DelegationWrite DEF Statuses
<1> HIDE DEF x
<1> QED BY <1>2, <1>3, DelegationReplaced

\* authorize marks what has expired; it activates nothing.
LEMMA AuthorizeInv ==
  ASSUME PermissionInv, NEW req \in AuthRequests, Z!Authorize(req)
  PROVE  PermissionInv'
<1> DEFINE F(d) == IF d \in Z!ActiveFor(req.subject) /\ Z!IsExpired(d)
                   THEN [delegations[d] EXCEPT !.status = "expired"] ELSE delegations[d]
<1>1. delegations \in Seq(DelegationSet) /\ Len(delegations) \in Nat
  BY LenProperties DEF PermissionInv, PermissionTypes
<1>2. \A d \in 1 .. Len(delegations) : F(d) \in DelegationSet
  <2> TAKE d \in 1 .. Len(delegations)
  <2>1. delegations[d] \in DelegationSet BY DelegationTyped DEF Z!Ids
  <2> QED BY <2>1, DelegationWrite DEF Statuses
<1>3. \A d \in 1 .. Len(delegations) :
         /\ F(d).status = "active" => delegations[d].status = "active"
         /\ F(d).chain = delegations[d].chain
         /\ F(d).approvals = delegations[d].approvals
         /\ delegations[d].status = "revoked" => F(d).status = "revoked"
  <2> TAKE d \in 1 .. Len(delegations)
  <2>1. delegations[d] \in DelegationSet BY DelegationTyped DEF Z!Ids
  <2> QED BY <2>1, DelegationWrite DEF Statuses, Z!ActiveFor
<1>4. delegations' = [d \in 1 .. Len(delegations) |-> F(d)] /\ UNCHANGED <<hour, everRevoked>>
  BY DEF Z!Authorize, Z!MarkExpired, Z!Ids
<1>5. trail' \in Seq(EntrySet)
  <2> DEFINE ok == (req.permission \in Z!PermissionsFor(req.roles) \/ req.permission \in Z!Delegated(req.subject)) /\ Z!Evaluate(req)
             via == ~(req.permission \in Z!PermissionsFor(req.roles)) /\ req.permission \in Z!Delegated(req.subject)
             ans == IF ok THEN "allow" ELSE "deny"
             x == [subject |-> req.subject, permission |-> req.permission, amount |-> req.amount,
                   decision |-> ans, viaDelegation |-> via]
  <2>1. trail' = Append(trail, x) BY DEF Z!Authorize, Z!Record
  <2>2. ans \in {"allow", "deny"} /\ via \in BOOLEAN OBVIOUS
  <2>3. x \in EntrySet
    <3> HIDE DEF ans, via
    <3> QED BY <2>2 DEF EntrySet
  <2> HIDE DEF x
  <2> QED BY <2>1, <2>3, AppendProperties DEF PermissionInv, PermissionTypes
<1> HIDE DEF F
<1>6. delegations' \in Seq(DelegationSet) /\ Len(delegations') = Len(delegations)
  <2>1. DOMAIN delegations = 1 .. Len(delegations) BY <1>1, LenProperties
  <2>2. delegations' \in [DOMAIN delegations -> DelegationSet] BY <1>2, <1>4, <2>1
  <2> QED BY <1>1, <2>2, MapSeq
<1>7. /\ delegations' \in Seq(DelegationSet) /\ Len(delegations') = Len(delegations)
      /\ \A d \in 1 .. Len(delegations) : delegations'[d] = F(d)
  BY <1>4, <1>6
<1>8. PermissionTypes' BY <1>4, <1>5, <1>7 DEF PermissionInv, PermissionTypes
<1>9. ActiveIsApproved'
  BY <1>3, <1>7 DEF PermissionInv, ActiveIsApproved
<1>10. RevokedIsFinal' BY <1>3, <1>4, <1>7 DEF PermissionInv, RevokedIsFinal
<1> QED BY <1>8, <1>9, <1>10 DEF PermissionInv

\* An amount outside the limits is turned down without a look at the delegations.
LEMMA TurnedDown ==
  ASSUME PermissionInv, NEW req \in AuthRequests, Z!Record(req, FALSE, FALSE),
         UNCHANGED <<delegations, hour, everRevoked>>
  PROVE  PermissionInv'
<1> DEFINE ans == "deny"
           via == FALSE
           x == [subject |-> req.subject, permission |-> req.permission, amount |-> req.amount,
                 decision |-> ans, viaDelegation |-> via]
<1>1. trail' = Append(trail, x) BY DEF Z!Record
<1>2. x \in EntrySet
  <2>1. ans \in {"allow", "deny"} /\ via \in BOOLEAN OBVIOUS
  <2> HIDE DEF ans, via
  <2> QED BY <2>1 DEF EntrySet
<1> HIDE DEF x
<1>3. trail' \in Seq(EntrySet)
  BY <1>1, <1>2, AppendProperties DEF PermissionInv, PermissionTypes
<1> QED BY <1>3 DEF PermissionInv, PermissionTypes, ActiveIsApproved, RevokedIsFinal

\* Every step keeps the invariant.
LEMMA PermissionInvStep == PermissionInv /\ [Z!Next]_(Z!vars) => PermissionInv'
<1> SUFFICES ASSUME PermissionInv, [Z!Next]_(Z!vars) PROVE PermissionInv' OBVIOUS
<1> USE DEF PermissionInv, PermissionTypes, ActiveIsApproved, RevokedIsFinal
<1>1. ASSUME NEW from \in People, NEW to \in People, NEW chain \in Chains, NEW expires \in 1 .. MaxHour,
             Z!CreateDelegation(from, to, chain, expires) PROVE PermissionInv'
  BY <1>1, DelegateInv
<1>2. ASSUME NEW d \in Z!Ids, NEW p \in People, Z!ApproveDelegation(d, p) PROVE PermissionInv'
  BY <1>2, ApproveInv
<1>3. ASSUME NEW d \in Z!Ids, NEW p \in People, Z!RevokeDelegation(d, p) PROVE PermissionInv'
  BY <1>3, RevokeDelegationInv
<1>4. ASSUME NEW q \in Policies, Z!RegisterPolicy(q) PROVE PermissionInv'
  BY <1>4 DEF Z!RegisterPolicy
<1>5. ASSUME NEW q \in Policies, Z!RemovePolicy(q) PROVE PermissionInv'
  BY <1>5 DEF Z!RemovePolicy
<1>6. ASSUME NEW p \in People, Z!RecordAction(p) PROVE PermissionInv'
  BY <1>6 DEF Z!RecordAction
<1>7. ASSUME NEW req \in AuthRequests, Z!Authorize(req) PROVE PermissionInv'
  BY <1>7, AuthorizeInv
<1>8. ASSUME NEW req \in AuthRequests, NEW m \in Markets, Z!AuthorizeWithThresholds(req, m) PROVE PermissionInv'
  BY <1>8, AuthorizeInv, TurnedDown DEF Z!AuthorizeWithThresholds
<1>9. CASE Z!Tick BY <1>9 DEF Z!Tick
<1>10. CASE UNCHANGED Z!vars BY <1>10 DEF Z!vars
<1> HIDE DEF PermissionInv
<1> QED BY <1>1, <1>2, <1>3, <1>4, <1>5, <1>6, <1>7, <1>8, <1>9, <1>10 DEF Z!Next

\* What every step says of the decisions it adds.
NewEntriesAreLive ==
    \A e \in (1 .. Len(trail')) \ (1 .. Len(trail)) :
        trail'[e].decision = "allow" /\ trail'[e].viaDelegation =>
            \E d \in Z!Ids :
                /\ delegations[d].to = trail'[e].subject
                /\ delegations[d].chain \subseteq delegations[d].approvals
                /\ delegations[d].expires > hour
                /\ d \notin everRevoked

\* A decision by delegation found an active one that has not run out.
LEMMA AuthorizeLive ==
  ASSUME PermissionInv, NEW req \in AuthRequests, Z!Authorize(req)
  PROVE  NewEntriesAreLive
<1> DEFINE ok == (req.permission \in Z!PermissionsFor(req.roles) \/ req.permission \in Z!Delegated(req.subject)) /\ Z!Evaluate(req)
           via == ~(req.permission \in Z!PermissionsFor(req.roles)) /\ req.permission \in Z!Delegated(req.subject)
           x == [subject |-> req.subject, permission |-> req.permission, amount |-> req.amount,
                 decision |-> IF ok THEN "allow" ELSE "deny", viaDelegation |-> via]
<1>1. trail' = Append(trail, x) BY DEF Z!Authorize, Z!Record
<1>2. x.subject = req.subject /\ (x.viaDelegation => via)
  BY Zenon
<1>3. via => \E d \in Z!ActiveFor(req.subject) : ~Z!IsExpired(d)
  BY DEF Z!Delegated
<1> HIDE DEF x, via
<1>4. trail \in Seq(EntrySet) /\ Len(trail) \in Nat BY LenProperties DEF PermissionInv, PermissionTypes
<1>5. Len(trail') = Len(trail) + 1 /\ trail'[Len(trail) + 1] = x
  BY <1>1, <1>4 
<1> SUFFICES ASSUME NEW e \in (1 .. Len(trail')) \ (1 .. Len(trail)), trail'[e].viaDelegation
             PROVE  \E d \in Z!Ids :
                       /\ delegations[d].to = trail'[e].subject
                       /\ delegations[d].chain \subseteq delegations[d].approvals
                       /\ delegations[d].expires > hour
                       /\ d \notin everRevoked
    BY DEF NewEntriesAreLive
<1>6. e = Len(trail) + 1 BY <1>4, <1>5
<1>7. trail'[e] = x BY <1>5, <1>6
<1>8. via BY <1>2, <1>7
<1>9. PICK d \in Z!ActiveFor(req.subject) : ~Z!IsExpired(d) BY <1>3, <1>8
<1>10. d \in Z!Ids /\ delegations[d].to = req.subject /\ delegations[d].status = "active"
  BY DEF Z!ActiveFor
<1>11. delegations[d] \in DelegationSet /\ d \in 1 .. Len(delegations) BY <1>10, DelegationTyped
<1>12. delegations[d].expires > hour
  BY <1>9, <1>11 DEF Z!IsExpired, DelegationSet, PermissionInv, PermissionTypes
<1>13. delegations[d].chain \subseteq delegations[d].approvals
  BY <1>10, <1>11 DEF PermissionInv, ActiveIsApproved
<1>14. d \notin everRevoked BY <1>10 DEF PermissionInv, RevokedIsFinal
<1> QED BY <1>2, <1>7, <1>10, <1>12, <1>13, <1>14

\* No other step adds a decision by delegation.
LEMMA LiveStep == PermissionInv /\ [Z!Next]_(Z!vars) => NewEntriesAreLive
<1> SUFFICES ASSUME PermissionInv, [Z!Next]_(Z!vars) PROVE NewEntriesAreLive OBVIOUS
<1>0. trail' = trail => NewEntriesAreLive BY DEF NewEntriesAreLive
<1>1. ASSUME NEW from \in People, NEW to \in People, NEW chain \in Chains, NEW expires \in 1 .. MaxHour,
             Z!CreateDelegation(from, to, chain, expires) PROVE NewEntriesAreLive
  BY <1>0, <1>1 DEF Z!CreateDelegation
<1>2. ASSUME NEW d \in Z!Ids, NEW p \in People, Z!ApproveDelegation(d, p) PROVE NewEntriesAreLive
  BY <1>0, <1>2 DEF Z!ApproveDelegation
<1>3. ASSUME NEW d \in Z!Ids, NEW p \in People, Z!RevokeDelegation(d, p) PROVE NewEntriesAreLive
  BY <1>0, <1>3 DEF Z!RevokeDelegation
<1>4. ASSUME NEW q \in Policies, Z!RegisterPolicy(q) PROVE NewEntriesAreLive
  BY <1>0, <1>4 DEF Z!RegisterPolicy
<1>5. ASSUME NEW q \in Policies, Z!RemovePolicy(q) PROVE NewEntriesAreLive
  BY <1>0, <1>5 DEF Z!RemovePolicy
<1>6. ASSUME NEW p \in People, Z!RecordAction(p) PROVE NewEntriesAreLive
  BY <1>0, <1>6 DEF Z!RecordAction
<1>7. ASSUME NEW req \in AuthRequests, Z!Authorize(req) PROVE NewEntriesAreLive
  BY <1>7, AuthorizeLive
<1>8. ASSUME NEW req \in AuthRequests, NEW m \in Markets, Z!AuthorizeWithThresholds(req, m)
      PROVE  NewEntriesAreLive
  <2>1. CASE Z!Authorize(req) BY <2>1, AuthorizeLive
  <2>2. CASE Z!Record(req, FALSE, FALSE)
    <3> DEFINE x == [subject |-> req.subject, permission |-> req.permission, amount |-> req.amount,
                     decision |-> "deny", viaDelegation |-> FALSE]
    <3>1. trail' = Append(trail, x) BY <2>2 DEF Z!Record
    <3>2. x.decision = "deny" OBVIOUS
    <3> HIDE DEF x
    <3>3. trail \in Seq(EntrySet) /\ Len(trail) \in Nat BY LenProperties DEF PermissionInv, PermissionTypes
    <3>4. Len(trail') = Len(trail) + 1 /\ trail'[Len(trail) + 1] = x BY <3>1, <3>3
    <3>5. \A e \in (1 .. Len(trail')) \ (1 .. Len(trail)) : e = Len(trail) + 1 BY <3>3, <3>4
    <3>6. \A e \in (1 .. Len(trail')) \ (1 .. Len(trail)) : trail'[e].decision = "deny" BY <3>2, <3>4, <3>5
    <3> QED BY <3>6 DEF NewEntriesAreLive
  <2> QED BY <1>8, <2>1, <2>2 DEF Z!AuthorizeWithThresholds
<1>9. CASE Z!Tick BY <1>0, <1>9 DEF Z!Tick
<1>10. CASE UNCHANGED Z!vars BY <1>0, <1>10 DEF Z!vars
<1> QED BY <1>1, <1>2, <1>3, <1>4, <1>5, <1>6, <1>7, <1>8, <1>9, <1>10 DEF Z!Next

\* Only a delegation with all its approvals, not expired and never revoked, gives a
\* permission, for any people, chains and policies (findActiveDelegation, approve, revoke).
THEOREM DelegationsLive == Spec => DelegationIsLive
<1>1. Init => PermissionInv BY PermissionPart, PermissionInit
<1>2. PermissionInv /\ [Next]_vars => PermissionInv' BY PermissionPart, PermissionInvStep
<1>3. PermissionInv /\ [Next]_vars => [NewEntriesAreLive]_(Z!vars) BY PermissionPart, LiveStep
<1>4. DelegationIsLive <=> [][NewEntriesAreLive]_(Z!vars)
  BY DEF DelegationIsLive, Z!DelegationIsLive, NewEntriesAreLive, Z!vars
<1> QED BY <1>1, <1>2, <1>3, <1>4, PTL DEF Spec
=============================================================================
