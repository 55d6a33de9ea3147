-------------------------------- MODULE Sums --------------------------------
(* Sums over finite sets.  MapThenSumSet adds its terms in an order of its  *)
(* own; induction over the subsets of the set, in that order, gives what    *)
(* the accounts need: a sum grows with its terms, may take any term first,  *)
(* splits over disjoint sets, and is at most another sum in which each of   *)
(* its positive terms has a larger one of its own.                          *)
EXTENDS Integers, FiniteSets, FiniteSetsExt, FiniteSetTheorems, WellFoundedInduction, TLAPS

(* The element that a fold over T takes first.                             *)
Pick(T) == CHOOSE x \in T : TRUE

Rest(T) == T \ {Pick(T)}

(* it sums f over every subset of S, the way MapThenSumSet does.           *)
Unrolls(it, f, S) ==
    it = [T \in SUBSET S |-> IF T = {} THEN 0 ELSE f[Pick(T)] + it[T \ {Pick(T)}]]

Sums(f, S) == CHOOSE it : Unrolls(it, f, S)

Total(f, S) == Sums(f, S)[S]

(* MapThenSumSet is the total of a function.                               *)
LEMMA SumIsTotal ==
    ASSUME NEW f, NEW S
    PROVE  MapThenSumSet(LAMBDA s : f[s], S) = Total(f, S)
    BY DEF MapThenSumSet, MapThenFoldSet, Total, Sums, Unrolls, Pick

(* Every set of numbers has a least one.                                   *)
LEMMA Smallest ==
    ASSUME NEW T \in SUBSET Nat, T # {}
    PROVE  \E x \in T : \A y \in T : x <= y
    <1>1. IsWellFoundedOn(OpToRel(<, Nat), Nat)
        BY NatLessThanWellFounded
    <1>2. PICK x \in T : \A y \in T : ~(<<y, x>> \in OpToRel(<, Nat))
        BY <1>1, WFMin
    <1>3. \A y \in T : ~(y < x)
        BY <1>2 DEF OpToRel
    <1> QED BY <1>3

(* What removing the first element leaves is smaller.                      *)
LEMMA RestIsLess ==
    ASSUME NEW S, IsFiniteSet(S), NEW T \in SUBSET S, T # {}
    PROVE  /\ Pick(T) \in T /\ Rest(T) \in SUBSET S
           /\ Cardinality(T) \in Nat \ {0} /\ Cardinality(Rest(T)) = Cardinality(T) - 1
    <1>1. Pick(T) \in T
        BY DEF Pick
    <1>2. IsFiniteSet(T)
        BY FS_Subset
    <1>3. Cardinality(T) \in Nat /\ Cardinality(T) # 0
        BY <1>2, FS_CardinalityType, FS_EmptySet
    <1>4. Cardinality(Rest(T)) = Cardinality(T) - 1
        BY <1>1, <1>2, FS_RemoveElement DEF Rest
    <1> QED BY <1>1, <1>3, <1>4 DEF Rest

(* Induction over the subsets of a finite set, in the order of the fold.   *)
LEMMA SubsetsByPick ==
    ASSUME NEW S, IsFiniteSet(S), NEW P \in SUBSET (SUBSET S), {} \in P,
           \A T \in SUBSET S : T # {} /\ Rest(T) \in P => T \in P
    PROVE  P = SUBSET S
    <1> DEFINE Sizes == {n \in Nat : \E T \in SUBSET S : T \notin P /\ Cardinality(T) = n}
    <1>1. SUFFICES ASSUME NEW T \in SUBSET S, T \notin P PROVE FALSE
        OBVIOUS
    <1>2. Cardinality(T) \in Sizes
        BY <1>1, RestIsLess
    <1>3. PICK n \in Sizes : \A k \in Sizes : n <= k
        BY <1>2, Smallest
    <1>4. PICK U \in SUBSET S : U \notin P /\ Cardinality(U) = n
        BY <1>3
    <1>5. U # {}
        BY <1>4
    <1>6. Rest(U) \in SUBSET S /\ Cardinality(Rest(U)) = n - 1 /\ n - 1 \in Nat
        BY <1>4, <1>5, RestIsLess
    <1>7. Rest(U) \notin P
        BY <1>4, <1>5
    <1>8. n - 1 \in Sizes
        BY <1>6, <1>7
    <1> QED BY <1>3, <1>6, <1>8

(* The recursion of the fold has a solution.                               *)
LEMMA SumsExist ==
    ASSUME NEW S, IsFiniteSet(S), NEW f
    PROVE  \E it : Unrolls(it, f, S)
    <1> DEFINE Small(n) == {T \in SUBSET S : Cardinality(T) <= n}
               Step(g, T) == IF T = {} THEN 0 ELSE f[Pick(T)] + g[Rest(T)]
               Partial(g, n) == g = [T \in Small(n) |-> Step(g, T)]
               Missing == {n \in Nat : ~\E g : Partial(g, n)}
    <1>1. \A T \in SUBSET S : Cardinality(T) \in Nat
        BY FS_Subset, FS_CardinalityType
    <1>2. Partial([T \in Small(0) |-> 0], 0)
        <2>1. \A T \in Small(0) : T = {}
            BY <1>1, RestIsLess
        <2> QED BY <2>1
    <1>3. ASSUME NEW n \in Nat, NEW g, Partial(g, n)
          PROVE  Partial([T \in Small(n + 1) |-> Step(g, T)], n + 1)
        <2> DEFINE h == [T \in Small(n + 1) |-> Step(g, T)]
        <2>1. \A T \in Small(n) : T \in Small(n + 1)
            BY <1>1
        <2>2. \A T \in Small(n) : h[T] = g[T]
            <3>1. \A T \in Small(n) : h[T] = Step(g, T)
                BY <2>1
            <3>2. \A T \in Small(n) : g[T] = Step(g, T)
                <4> HIDE DEF Small, Step
                <4> QED BY <1>3
            <3> QED BY <3>1, <3>2
        <2>3. \A T \in Small(n + 1) : T # {} => Rest(T) \in Small(n)
            BY <1>1, RestIsLess
        <2>4. \A T \in Small(n + 1) : Step(g, T) = Step(h, T)
            <3> HIDE DEF Small, h
            <3> QED BY <2>2, <2>3
        <2> HIDE DEF Small, Step
        <2> QED BY <2>4
    <1>4. Missing = {}
        <2>1. SUFFICES ASSUME Missing # {} PROVE FALSE
            OBVIOUS
        <2>2. PICK n \in Missing : \A k \in Missing : n <= k
            BY <2>1, Smallest
        <2>3. n # 0
            BY <1>2, <2>2
        <2>4. n - 1 \in Nat /\ n - 1 \notin Missing
            <3>1. n \in Nat \ {0}
                BY <2>3
            <3> HIDE DEF Missing
            <3> QED BY <2>2, <3>1
        <2>5. PICK g : Partial(g, n - 1)
            BY <2>4
        <2>6. (n - 1) + 1 = n
            OBVIOUS
        <2> HIDE DEF Partial
        <2> QED BY <1>3, <2>2, <2>4, <2>5, <2>6
    <1>5. Cardinality(S) \in Nat
        BY <1>1
    <1>6. PICK g : Partial(g, Cardinality(S))
        BY <1>4, <1>5
    <1>7. Small(Cardinality(S)) = SUBSET S
        BY FS_Subset
    <1> QED BY <1>6, <1>7 DEF Unrolls, Rest

(* What the sums are: nothing over no symbol, and one more term with each. *)
LEMMA SumsUnroll ==
    ASSUME NEW S, IsFiniteSet(S), NEW f
    PROVE  /\ Sums(f, S)[{}] = 0
           /\ \A T \in SUBSET S : T # {} => Sums(f, S)[T] = f[Pick(T)] + Sums(f, S)[Rest(T)]
    <1> DEFINE it == Sums(f, S)
    <1>1. Unrolls(it, f, S)
        BY SumsExist DEF Sums
    <1> HIDE DEF it
    <1>2. it[{}] = 0 /\ \A T \in SUBSET S : T # {} => it[T] = f[Pick(T)] + it[Rest(T)]
        BY <1>1 DEF Unrolls, Rest
    <1> QED BY <1>2 DEF it

LEMMA SumsAreIntegers ==
    ASSUME NEW S, IsFiniteSet(S), NEW f \in [S -> Int]
    PROVE  \A T \in SUBSET S : Sums(f, S)[T] \in Int
    <1> DEFINE P == {T \in SUBSET S : Sums(f, S)[T] \in Int}
    <1>1. {} \in P
        BY SumsUnroll
    <1>2. ASSUME NEW T \in SUBSET S, T # {}, Rest(T) \in P PROVE T \in P
        <2>1. Sums(f, S)[T] = f[Pick(T)] + Sums(f, S)[Rest(T)] /\ f[Pick(T)] \in Int
            BY <1>2, SumsUnroll, RestIsLess
        <2> QED BY <2>1, <1>2
    <1> HIDE DEF P
    <1>3. P = SUBSET S
        <2>1. P \in SUBSET (SUBSET S)
            BY DEF P
        <2> QED BY <1>1, <1>2, <2>1, SubsetsByPick
    <1> QED BY <1>3 DEF P

(* A sum grows with its terms.                                             *)
LEMMA TotalGrows ==
    ASSUME NEW S, IsFiniteSet(S), NEW f \in [S -> Int], NEW g \in [S -> Int],
           \A s \in S : f[s] <= g[s]
    PROVE  Total(f, S) <= Total(g, S) /\ Total(f, S) \in Int /\ Total(g, S) \in Int
    <1> DEFINE P == {T \in SUBSET S : Sums(f, S)[T] <= Sums(g, S)[T]}
    <1>1. {} \in P
        BY SumsUnroll
    <1>2. ASSUME NEW T \in SUBSET S, T # {}, Rest(T) \in P PROVE T \in P
        <2>1. /\ Sums(f, S)[T] = f[Pick(T)] + Sums(f, S)[Rest(T)]
              /\ Sums(g, S)[T] = g[Pick(T)] + Sums(g, S)[Rest(T)]
              /\ f[Pick(T)] \in Int /\ g[Pick(T)] \in Int /\ f[Pick(T)] <= g[Pick(T)]
            BY <1>2, SumsUnroll, RestIsLess
        <2>2. Sums(f, S)[Rest(T)] \in Int /\ Sums(g, S)[Rest(T)] \in Int
            BY <1>2, SumsAreIntegers
        <2> QED BY <2>1, <2>2, <1>2
    <1> HIDE DEF P
    <1>3. P = SUBSET S
        <2>1. P \in SUBSET (SUBSET S)
            BY DEF P
        <2> QED BY <1>1, <1>2, <2>1, SubsetsByPick
    <1>4. S \in P
        BY <1>3
    <1> QED BY <1>4, SumsAreIntegers DEF P, Total

(* One term that changes moves the sum by as much.                         *)
LEMMA TotalMoves ==
    ASSUME NEW S, IsFiniteSet(S), NEW f \in [S -> Int], NEW g \in [S -> Int],
           NEW x \in S, \A s \in S : s # x => g[s] = f[s]
    PROVE  Total(g, S) = Total(f, S) - f[x] + g[x]
    <1> DEFINE Change(T) == IF x \in T THEN g[x] - f[x] ELSE 0
               P == {T \in SUBSET S : Sums(g, S)[T] = Sums(f, S)[T] + Change(T)}
    <1>1. {} \in P
        BY SumsUnroll
    <1>2. ASSUME NEW T \in SUBSET S, T # {}, Rest(T) \in P PROVE T \in P
        <2>1. /\ Sums(f, S)[T] = f[Pick(T)] + Sums(f, S)[Rest(T)]
              /\ Sums(g, S)[T] = g[Pick(T)] + Sums(g, S)[Rest(T)]
              /\ f[Pick(T)] \in Int /\ g[Pick(T)] \in Int /\ f[x] \in Int /\ g[x] \in Int
              /\ Pick(T) \in T
            BY <1>2, SumsUnroll, RestIsLess
        <2>2. Sums(f, S)[Rest(T)] \in Int /\ Sums(g, S)[Rest(T)] = Sums(f, S)[Rest(T)] + Change(Rest(T))
            BY <1>2, SumsAreIntegers
        <2>3. CASE Pick(T) = x
            <3>1. Change(T) = g[x] - f[x] /\ Change(Rest(T)) = 0
                BY <2>1, <2>3 DEF Rest
            <3> QED BY <2>1, <2>2, <2>3, <3>1
        <2>4. CASE Pick(T) # x
            <3>1. Change(T) = Change(Rest(T)) /\ g[Pick(T)] = f[Pick(T)] /\ Change(T) \in Int
                BY <2>1, <2>4 DEF Rest
            <3> HIDE DEF Change
            <3> QED BY <2>1, <2>2, <3>1
        <2> QED BY <2>3, <2>4
    <1> HIDE DEF P
    <1>3. P = SUBSET S
        <2>1. P \in SUBSET (SUBSET S)
            BY DEF P
        <2> QED BY <1>1, <1>2, <2>1, SubsetsByPick
    <1>4. S \in P
        BY <1>3
    <1>5. Sums(f, S)[S] \in Int /\ f[x] \in Int /\ g[x] \in Int
        BY SumsAreIntegers
    <1> QED BY <1>4, <1>5 DEF P, Total

(* A sum over part of a set is the sum over that part alone.               *)
LEMMA SumsAreLocal ==
    ASSUME NEW S, IsFiniteSet(S), NEW T \in SUBSET S, NEW f, NEW g, \A s \in T : f[s] = g[s]
    PROVE  Sums(f, S)[T] = Total(g, T)
    <1> DEFINE P == {U \in SUBSET T : Sums(f, S)[U] = Sums(g, T)[U]}
    <1>1. IsFiniteSet(T)
        BY FS_Subset
    <1>2. {} \in P
        BY <1>1, SumsUnroll
    <1>3. ASSUME NEW U \in SUBSET T, U # {}, Rest(U) \in P PROVE U \in P
        <2>1. U \in SUBSET S /\ Pick(U) \in T
            BY <1>1, <1>3, RestIsLess
        <2>2. Sums(f, S)[U] = f[Pick(U)] + Sums(f, S)[Rest(U)]
            BY <1>3, <2>1, SumsUnroll
        <2>3. Sums(g, T)[U] = g[Pick(U)] + Sums(g, T)[Rest(U)]
            BY <1>1, <1>3, SumsUnroll
        <2> QED BY <2>1, <2>2, <2>3, <1>3
    <1> HIDE DEF P
    <1>4. P = SUBSET T
        <2>1. P \in SUBSET (SUBSET T)
            BY DEF P
        <2> QED BY <1>1, <1>2, <1>3, <2>1, SubsetsByPick
    <1> QED BY <1>4 DEF P, Total

LEMMA TotalAgrees ==
    ASSUME NEW S, IsFiniteSet(S), NEW f, NEW g, \A s \in S : f[s] = g[s]
    PROVE  Total(f, S) = Total(g, S)
    BY SumsAreLocal DEF Total

(* The sum over nothing, and the terms of a sum in the order of the fold.  *)
LEMMA TotalOfNone == \A f : Total(f, {}) = 0
    <1>1. IsFiniteSet({})
        BY FS_EmptySet
    <1> QED BY <1>1, SumsUnroll DEF Total

LEMMA TotalUnrolls ==
    ASSUME NEW S, IsFiniteSet(S), NEW f, NEW T \in SUBSET S, T # {}
    PROVE  Total(f, T) = f[Pick(T)] + Total(f, Rest(T))
    <1>1. IsFiniteSet(T) /\ Rest(T) \in SUBSET T
        BY FS_Subset DEF Rest
    <1>2. Sums(f, T)[T] = f[Pick(T)] + Sums(f, T)[Rest(T)]
        BY <1>1, SumsUnroll
    <1>3. Sums(f, T)[Rest(T)] = Total(f, Rest(T))
        BY <1>1, SumsAreLocal
    <1> QED BY <1>2, <1>3 DEF Total

LEMMA RestIs == \A T : Rest(T) = T \ {Pick(T)}
    BY DEF Rest

LEMMA TotalIsInt ==
    ASSUME NEW S, IsFiniteSet(S), NEW f, \A s \in S : f[s] \in Int
    PROVE  Total(f, S) \in Int
    <1> DEFINE g == [s \in S |-> f[s]]
    <1>1. g \in [S -> Int] /\ \A s \in S : f[s] = g[s]
        OBVIOUS
    <1> HIDE DEF g
    <1>2. Total(g, S) \in Int
        BY <1>1, SumsAreIntegers DEF Total
    <1> QED BY <1>1, <1>2, TotalAgrees

(* Any element may be taken first.                                         *)
LEMMA TotalTakes ==
    ASSUME NEW S, IsFiniteSet(S), NEW f, \A s \in S : f[s] \in Int, NEW x \in S
    PROVE  Total(f, S) = f[x] + Total(f, S \ {x})
    <1> DEFINE P == {T \in SUBSET S : \A y \in T : Total(f, T) = f[y] + Total(f, T \ {y})}
               Sizes == {n \in Nat : \E T \in SUBSET S : T \notin P /\ Cardinality(T) = n}
    <1>1. SUFFICES ASSUME NEW T \in SUBSET S, T \notin P PROVE FALSE
        OBVIOUS
    <1>2. \A U \in SUBSET S : IsFiniteSet(U) /\ Cardinality(U) \in Nat
        BY FS_Subset, FS_CardinalityType
    <1>3. Cardinality(T) \in Sizes
        BY <1>1, <1>2
    <1>4. PICK n \in Sizes : \A k \in Sizes : n <= k
        BY <1>3, Smallest
    <1>5. PICK U \in SUBSET S : U \notin P /\ Cardinality(U) = n
        BY <1>4
    <1>6. PICK y \in U : Total(f, U) # f[y] + Total(f, U \ {y})
        BY <1>5
    <1>7. \A z \in U : Cardinality(U \ {z}) = n - 1 /\ U \ {z} \in SUBSET S
        BY <1>2, <1>5, FS_RemoveElement
    <1>8. \A z \in U : U \ {z} \in P
        <2> SUFFICES ASSUME NEW z \in U, U \ {z} \notin P PROVE FALSE
            OBVIOUS
        <2>1. Cardinality(U \ {z}) \in Sizes
            BY <1>2, <1>7
        <2>2. Cardinality(U \ {z}) = n - 1 /\ n \in Nat
            BY <1>7
        <2>3. n <= n - 1
            <3> HIDE DEF Sizes, P
            <3> QED BY <1>4, <2>1, <2>2
        <2> QED BY <2>2, <2>3
    <1> DEFINE p == Pick(U)
    <1>9. p \in U /\ U # {} /\ Total(f, U) = f[p] + Total(f, U \ {p})
        <2>1. U # {} /\ U \in SUBSET S
            BY <1>6
        <2>2. Pick(U) \in U
            BY <2>1, RestIsLess
        <2>3. Total(f, U) = f[Pick(U)] + Total(f, Rest(U))
            BY <2>1, TotalUnrolls
        <2>4. Rest(U) = U \ {Pick(U)}
            BY RestIs
        <2> QED BY <2>1, <2>2, <2>3, <2>4
    <1>10. p # y
        BY <1>6, <1>9
    <1> HIDE DEF p
    <1>11. /\ Total(f, U \ {p}) = f[y] + Total(f, (U \ {p}) \ {y})
           /\ Total(f, U \ {y}) = f[p] + Total(f, (U \ {y}) \ {p})
        BY <1>8, <1>6, <1>9, <1>10
    <1>12. (U \ {p}) \ {y} = (U \ {y}) \ {p}
        OBVIOUS
    <1>13. PICK rest \in Int : rest = Total(f, (U \ {y}) \ {p})
        <2>1. (U \ {y}) \ {p} \in SUBSET S
            OBVIOUS
        <2> QED BY <1>2, <2>1, TotalIsInt
    <1>14. f[p] \in Int /\ f[y] \in Int
        BY <1>6, <1>9
    <1>15. Total(f, U) = f[p] + (f[y] + rest) /\ f[y] + Total(f, U \ {y}) = f[y] + (f[p] + rest)
        BY <1>9, <1>11, <1>12, <1>13
    <1> QED BY <1>6, <1>13, <1>14, <1>15

(* Sums over disjoint sets add up.                                         *)
LEMMA TotalJoins ==
    ASSUME NEW A, NEW B, IsFiniteSet(A), IsFiniteSet(B), A \cap B = {}, NEW f, \A s \in A \cup B : f[s] \in Int
    PROVE  Total(f, A \cup B) = Total(f, A) + Total(f, B)
    <1> DEFINE P == {T \in SUBSET A : Total(f, T \cup B) = Total(f, T) + Total(f, B)}
    <1>1. \A T \in SUBSET A : IsFiniteSet(T) /\ IsFiniteSet(T \cup B) /\ Total(f, T) \in Int
        BY FS_Subset, FS_Union, TotalIsInt
    <1>2. Total(f, B) \in Int
        BY TotalIsInt
    <1>3. {} \in P
        <2>1. {} \cup B = B
            OBVIOUS
        <2> QED BY <1>2, <2>1, TotalOfNone
    <1>4. ASSUME NEW T \in SUBSET A, T # {}, Rest(T) \in P PROVE T \in P
        <2>1. Pick(T) \in T /\ Rest(T) \in SUBSET A /\ Total(f, T) = f[Pick(T)] + Total(f, Rest(T))
            BY <1>4, RestIsLess, TotalUnrolls
        <2>2. (T \cup B) \ {Pick(T)} = Rest(T) \cup B
            BY <2>1 DEF Rest
        <2>3. Total(f, T \cup B) = f[Pick(T)] + Total(f, Rest(T) \cup B)
            <3>1. IsFiniteSet(T \cup B) /\ Pick(T) \in T \cup B /\ \A s \in T \cup B : f[s] \in Int
                BY <1>1, <2>1
            <3> QED BY <2>2, <3>1, TotalTakes
        <2>4. f[Pick(T)] \in Int /\ Total(f, Rest(T)) \in Int
            BY <1>1, <2>1
        <2> QED BY <1>2, <1>4, <2>1, <2>3, <2>4
    <1> HIDE DEF P
    <1>5. P = SUBSET A
        <2>1. P \in SUBSET (SUBSET A)
            BY DEF P
        <2> QED BY <1>3, <1>4, <2>1, SubsetsByPick
    <1> QED BY <1>5 DEF P

(* A sum of sums, and a sum of multiples.                                  *)
LEMMA TotalAdds ==
    ASSUME NEW S, IsFiniteSet(S), NEW f, NEW g, NEW h,
           \A s \in S : f[s] \in Int /\ g[s] \in Int /\ h[s] = f[s] + g[s]
    PROVE  Total(h, S) = Total(f, S) + Total(g, S)
    <1> DEFINE P == {T \in SUBSET S : Total(h, T) = Total(f, T) + Total(g, T)}
    <1>1. {} \in P
        BY TotalOfNone
    <1>2. ASSUME NEW T \in SUBSET S, T # {}, Rest(T) \in P PROVE T \in P
        <2>1. /\ Total(f, T) = f[Pick(T)] + Total(f, Rest(T))
              /\ Total(g, T) = g[Pick(T)] + Total(g, Rest(T))
              /\ Total(h, T) = h[Pick(T)] + Total(h, Rest(T))
            BY <1>2, TotalUnrolls
        <2>2. Pick(T) \in S /\ Rest(T) \in SUBSET S /\ IsFiniteSet(Rest(T))
            BY <1>2, RestIsLess, FS_Subset
        <2>3. Total(f, Rest(T)) \in Int /\ Total(g, Rest(T)) \in Int
            BY <2>2, TotalIsInt
        <2> QED BY <1>2, <2>1, <2>2, <2>3
    <1> HIDE DEF P
    <1>3. P = SUBSET S
        <2>1. P \in SUBSET (SUBSET S)
            BY DEF P
        <2> QED BY <1>1, <1>2, <2>1, SubsetsByPick
    <1> QED BY <1>3 DEF P

LEMMA Distributes == \A a, b, c \in Int : a * (b + c) = a * b + a * c /\ a * b \in Int
    OBVIOUS

(* The terms of h are v times those of f.                                  *)
Scales(S, v, f, h) == v \in Int /\ \A s \in S : f[s] \in Int /\ h[s] = v * f[s]

LEMMA TotalScales ==
    ASSUME NEW S, IsFiniteSet(S), NEW v, NEW f, NEW h, Scales(S, v, f, h)
    PROVE  Total(h, S) = v * Total(f, S)
    <1> DEFINE P == {T \in SUBSET S : Total(h, T) = v * Total(f, T)}
    <1>0. v \in Int /\ \A s \in S : f[s] \in Int /\ h[s] = v * f[s]
        BY DEF Scales
    <1>1. {} \in P
        BY <1>0, TotalOfNone
    <1>2. ASSUME NEW T \in SUBSET S, T # {}, Rest(T) \in P PROVE T \in P
        <2>1. /\ Total(f, T) = f[Pick(T)] + Total(f, Rest(T))
              /\ Total(h, T) = h[Pick(T)] + Total(h, Rest(T))
            BY <1>2, TotalUnrolls
        <2>2. Pick(T) \in S /\ Rest(T) \in SUBSET S /\ IsFiniteSet(Rest(T))
            BY <1>2, RestIsLess, FS_Subset
        <2>3. Total(f, Rest(T)) \in Int
            BY <1>0, <2>2, TotalIsInt
        <2>4. Total(h, Rest(T)) = v * Total(f, Rest(T)) /\ h[Pick(T)] = v * f[Pick(T)]
            BY <1>0, <1>2, <2>2
        <2>5. v * (f[Pick(T)] + Total(f, Rest(T))) = v * f[Pick(T)] + v * Total(f, Rest(T))
            BY <1>0, <2>2, <2>3, Distributes
        <2> QED BY <2>1, <2>4, <2>5
    <1> HIDE DEF P
    <1>3. P = SUBSET S
        <2>1. P \in SUBSET (SUBSET S)
            BY DEF P
        <2> QED BY <1>1, <1>2, <2>1, SubsetsByPick
    <1> QED BY <1>3 DEF P

LEMMA TotalIsNat ==
    ASSUME NEW S, IsFiniteSet(S), NEW f, \A s \in S : f[s] \in Nat
    PROVE  Total(f, S) \in Nat
    <1> DEFINE P == {T \in SUBSET S : Total(f, T) \in Nat}
    <1>1. {} \in P
        BY TotalOfNone
    <1>2. ASSUME NEW T \in SUBSET S, T # {}, Rest(T) \in P PROVE T \in P
        <2>1. Total(f, T) = f[Pick(T)] + Total(f, Rest(T)) /\ f[Pick(T)] \in Nat
            BY <1>2, TotalUnrolls, RestIsLess
        <2> QED BY <1>2, <2>1
    <1> HIDE DEF P
    <1>3. P = SUBSET S
        <2>1. P \in SUBSET (SUBSET S)
            BY DEF P
        <2> QED BY <1>1, <1>2, <2>1, SubsetsByPick
    <1> QED BY <1>3 DEF P

(* A sum is at most another in which each of its positive terms has a      *)
(* larger one of its own.                                                  *)
LEMMA TotalWithin ==
    ASSUME NEW S, IsFiniteSet(S), NEW T, IsFiniteSet(T), NEW f, NEW g, NEW b,
           \A s \in S : f[s] \in Int /\ (f[s] <= 0 \/ (b[s] \in T /\ f[s] <= g[b[s]])),
           \A t \in T : g[t] \in Nat,
           \A r, s \in S : r # s => b[r] # b[s]
    PROVE  Total(f, S) <= Total(g, T)
    <1> DEFINE Covers(U, V) == \A s \in U : f[s] <= 0 \/ (b[s] \in V /\ f[s] <= g[b[s]])
               P == {U \in SUBSET S : \A V \in SUBSET T : Covers(U, V) => Total(f, U) <= Total(g, V)}
    <1>1. \A V \in SUBSET T : IsFiniteSet(V) /\ Total(g, V) \in Nat
        BY FS_Subset, TotalIsNat
    <1>2. {} \in P
        BY <1>1, TotalOfNone
    <1>3. ASSUME NEW U \in SUBSET S, U # {}, Rest(U) \in P PROVE U \in P
        <2> SUFFICES ASSUME NEW V \in SUBSET T, Covers(U, V) PROVE Total(f, U) <= Total(g, V)
            OBVIOUS
        <2> DEFINE x == Pick(U)
        <2>1. Total(f, U) = f[x] + Total(f, Rest(U)) /\ x \in U /\ Rest(U) = U \ {x} /\ Rest(U) \in SUBSET S
            BY <1>3, TotalUnrolls, RestIsLess, RestIs
        <2>2. Total(f, Rest(U)) \in Int /\ f[x] \in Int
            BY <2>1, FS_Subset, TotalIsInt
        <2>3. CASE f[x] <= 0
            <3>1. Total(f, Rest(U)) <= Total(g, V)
                BY <1>3, <2>1
            <3> QED BY <1>1, <2>1, <2>2, <2>3, <3>1
        <2>4. CASE b[x] \in V /\ f[x] <= g[b[x]]
            <3>1. Covers(Rest(U), V \ {b[x]})
                BY <2>1
            <3>2. Total(f, Rest(U)) <= Total(g, V \ {b[x]})
                BY <1>3, <3>1
            <3>3. Total(g, V) = g[b[x]] + Total(g, V \ {b[x]})
                BY <1>1, <2>4, TotalTakes
            <3>4. Total(g, V \ {b[x]}) \in Nat /\ g[b[x]] \in Nat
                BY <1>1, <2>4
            <3> QED BY <2>1, <2>2, <2>4, <3>2, <3>3, <3>4
        <2> QED BY <2>1, <2>3, <2>4
    <1> HIDE DEF P
    <1>4. P = SUBSET S
        <2>1. P \in SUBSET (SUBSET S)
            BY DEF P
        <2> QED BY <1>2, <1>3, <2>1, SubsetsByPick
    <1> QED BY <1>4 DEF P

(* G divides S among the keys in K.                                        *)
Divides(G, K, S) ==
    /\ \A k \in K : G[k] \subseteq S
    /\ \A s \in S : \E k \in K : s \in G[k]
    /\ \A j, k \in K : j # k => G[j] \cap G[k] = {}

(* Summing by key first changes nothing.                                   *)
LEMMA TotalByKey ==
    ASSUME NEW S, IsFiniteSet(S), NEW K, IsFiniteSet(K), NEW f, \A s \in S : f[s] \in Int,
           NEW G, Divides(G, K, S), NEW h, \A k \in K : h[k] = Total(f, G[k])
    PROVE  Total(h, K) = Total(f, S)
    <1> DEFINE Of(J) == {s \in S : \E k \in J : s \in G[k]}
               P == {J \in SUBSET K : Total(h, J) = Total(f, Of(J))}
    <1>1. {} \in P
        <2>1. Of({}) = {}
            OBVIOUS
        <2> QED BY <2>1, TotalOfNone
    <1>2. ASSUME NEW J \in SUBSET K, J # {}, Rest(J) \in P PROVE J \in P
        <2> DEFINE A == G[Pick(J)]
        <2>1. Total(h, J) = h[Pick(J)] + Total(h, Rest(J)) /\ Pick(J) \in J /\ Rest(J) = J \ {Pick(J)}
            BY <1>2, TotalUnrolls, RestIsLess, RestIs
        <2>2. A \subseteq S
            BY <2>1 DEF Divides
        <2>3. Of(J) = A \cup Of(Rest(J))
            BY <2>1, <2>2
        <2>4. A \cap Of(Rest(J)) = {}
            BY <2>1 DEF Divides
        <2>5. IsFiniteSet(A) /\ IsFiniteSet(Of(Rest(J)))
            BY <2>2, FS_Subset
        <2>6. h[Pick(J)] = Total(f, A)
            BY <2>1
        <2>7. \A s \in A \cup Of(Rest(J)) : f[s] \in Int
            BY <2>2
        <2> HIDE DEF A, Of
        <2>8. Total(f, Of(J)) = Total(f, A) + Total(f, Of(Rest(J)))
            BY <2>3, <2>4, <2>5, <2>7, TotalJoins
        <2>9. Total(h, Rest(J)) = Total(f, Of(Rest(J)))
            BY <1>2
        <2> QED BY <2>1, <2>6, <2>8, <2>9
    <1> HIDE DEF P
    <1>3. P = SUBSET K
        <2>1. P \in SUBSET (SUBSET K)
            BY DEF P
        <2> QED BY <1>1, <1>2, <2>1, SubsetsByPick
    <1>4. Of(K) = S
        BY DEF Divides
    <1> QED BY <1>3, <1>4 DEF P

LEMMA TotalLeq ==
    ASSUME NEW S, IsFiniteSet(S), NEW f, NEW g, \A s \in S : f[s] \in Int /\ g[s] \in Int /\ f[s] <= g[s]
    PROVE  Total(f, S) <= Total(g, S)
    <1> DEFINE F == [s \in S |-> f[s]]
               G == [s \in S |-> g[s]]
    <1>1. F \in [S -> Int] /\ G \in [S -> Int] /\ \A s \in S : F[s] = f[s] /\ G[s] = g[s] /\ F[s] <= G[s]
        OBVIOUS
    <1> HIDE DEF F, G
    <1>2. Total(F, S) <= Total(G, S)
        BY <1>1, TotalGrows
    <1>3. Total(F, S) = Total(f, S) /\ Total(G, S) = Total(g, S)
        BY <1>1, TotalAgrees
    <1> QED BY <1>2, <1>3

(* The values of a function on a finite set are finitely many.             *)
LEMMA ValuesAreFinite ==
    ASSUME NEW S, IsFiniteSet(S), NEW f
    PROVE  IsFiniteSet({f[s] : s \in S})
    <1> DEFINE F == [s \in S |-> f[s]]
    <1>1. F \in Surjection(S, {f[s] : s \in S})
        BY DEF Surjection
    <1> QED BY <1>1, FS_Surjection
=============================================================================
