---------------------------- MODULE Sums_proofs ----------------------------
(***************************************************************************)
(* Sums over finite sets.  SumOver is a fold, which is a recursive function *)
(* on the subsets of the set it ranges over.  A recursive definition means  *)
(* CHOOSE of a function that solves an equation: that there is one          *)
(* (SumDefined) and only one (SumUnique) is proved here from the            *)
(* well-foundedness of the naturals, and nothing else is used of it.        *)
(***************************************************************************)
EXTENDS Sums, FiniteSetTheorems, TLAPS

\* Induction on the naturals, for a set instead of a predicate.
LEMMA SetInduction ==
  ASSUME NEW P, 0 \in P, \A n \in Nat : n \in P => n + 1 \in P
  PROVE  Nat \subseteq P
<1> DEFINE Less == {pair \in Nat \X Nat : pair[1] < pair[2]}
           Bad == Nat \ P
<1>1. IsWellFoundedOn(Less, Nat)
  BY NatLessThanWellFounded DEF OpToRel
<1>2. ASSUME Bad # {} PROVE FALSE
  <2>1. PICK n \in Bad : \A m \in Bad : ~ (<<m, n>> \in Less)
    <3> HIDE DEF Less
    <3>1. Bad \subseteq Nat
      OBVIOUS
    <3> HIDE DEF Bad
    <3> QED BY <1>1, <1>2, <3>1, WFMin
  <2>2. n # 0 /\ n - 1 \in Nat /\ n - 1 < n
    OBVIOUS
  <2>3. n - 1 \in Bad
    BY <2>2
  <2> QED BY <2>1, <2>2, <2>3
<1> QED BY <1>2

Pick(T) == CHOOSE x \in T : TRUE

\* g is the recursive function of the sum of f over the subsets of S.
IsSum(f, S, g) ==
  g = [T \in SUBSET S |-> IF T = {} THEN 0 ELSE f[Pick(T)] + g[T \ {Pick(T)}]]

\* Taking an element out of a finite set leaves a smaller one.
LEMMA Smaller ==
  ASSUME NEW T, IsFiniteSet(T), NEW x \in T
  PROVE  /\ IsFiniteSet(T \ {x})
         /\ Cardinality(T) \in Nat \ {0}
         /\ Cardinality(T \ {x}) = Cardinality(T) - 1
  BY FS_RemoveElement, FS_CardinalityType, FS_EmptySet

\* The recursive function exists: it is built up from the smaller subsets.
LEMMA SumDefined ==
  ASSUME NEW f, NEW S, IsFiniteSet(S)
  PROVE  \E g : IsSum(f, S, g)
<1> DEFINE Upto(n) == {T \in SUBSET S : Cardinality(T) <= n}
           Solves(n, g) ==
             g = [T \in Upto(n) |->
                    IF T = {} THEN 0 ELSE f[Pick(T)] + g[T \ {Pick(T)}]]
           P == {n \in Nat : \E g : Solves(n, g)}
<1>0. \A T \in SUBSET S : /\ IsFiniteSet(T) /\ Cardinality(T) \in Nat
                          /\ Cardinality(T) <= Cardinality(S)
                          /\ T # {} => /\ Pick(T) \in T
                                       /\ T \ {Pick(T)} \in SUBSET S
                                       /\ Cardinality(T) # 0
                                       /\ Cardinality(T \ {Pick(T)})
                                            = Cardinality(T) - 1
  <2> TAKE T \in SUBSET S
  <2>1. /\ IsFiniteSet(T) /\ Cardinality(T) \in Nat
        /\ Cardinality(T) <= Cardinality(S)
    BY FS_Subset, FS_CardinalityType
  <2>2. T # {} => Pick(T) \in T
    BY DEF Pick
  <2> QED BY <2>1, <2>2, Smaller
<1>1. 0 \in P
  <2> DEFINE g == [T \in Upto(0) |-> 0]
  <2>1. \A T \in Upto(0) : T = {}
    <3> SUFFICES ASSUME NEW T \in SUBSET S, Cardinality(T) <= 0 PROVE T = {}
      OBVIOUS
    <3>1. Cardinality(T) = 0
      <4>1. Cardinality(T) \in Nat
        BY <1>0
      <4> QED BY <4>1
    <3> QED BY <1>0, <3>1
  <2>2. Solves(0, g)
    BY <2>1
  <2> QED BY <2>2
<1>2. ASSUME NEW n \in Nat, n \in P PROVE n + 1 \in P
  <2>1. PICK g : Solves(n, g)
    BY <1>2
  <2> DEFINE h == [T \in Upto(n + 1) |->
                     IF T = {} THEN 0 ELSE f[Pick(T)] + g[T \ {Pick(T)}]]
  <2>2. \A T \in Upto(n) : T \in Upto(n + 1) /\ h[T] = g[T]
    <3> TAKE T \in Upto(n)
    <3>1. T \in Upto(n + 1)
      <4>1. Cardinality(T) \in Nat /\ Cardinality(T) <= n
        BY <1>0
      <4> QED BY <4>1
    <3>2. g[T] = IF T = {} THEN 0 ELSE f[Pick(T)] + g[T \ {Pick(T)}]
      BY <2>1
    <3> QED BY <3>1, <3>2
  <2>3. \A T \in Upto(n + 1) : T # {} => T \ {Pick(T)} \in Upto(n)
    BY <1>0
  <2>4. Solves(n + 1, h)
    BY <2>2, <2>3
  <2> HIDE DEF h, Solves
  <2> QED BY <2>4
<1>3. Cardinality(S) \in P
  <2>1. Cardinality(S) \in Nat
    BY FS_CardinalityType
  <2> HIDE DEF P
  <2> QED BY <1>1, <1>2, <2>1, SetInduction
<1>4. Upto(Cardinality(S)) = SUBSET S
  BY <1>0
<1> QED BY <1>3, <1>4 DEF IsSum

\* It is the only one, and the set it is defined for does not matter.
LEMMA SumUnique ==
  ASSUME NEW f, NEW S, NEW R, IsFiniteSet(S), NEW g, NEW h,
         IsSum(f, S, g), IsSum(f, R, h)
  PROVE  \A T \in SUBSET (S \cap R) : g[T] = h[T]
<1> DEFINE P == {n \in Nat : \A T \in SUBSET (S \cap R) :
                               Cardinality(T) = n => g[T] = h[T]}
<1>0. \A T \in SUBSET (S \cap R) :
        /\ IsFiniteSet(T) /\ Cardinality(T) \in Nat
        /\ g[T] = IF T = {} THEN 0 ELSE f[Pick(T)] + g[T \ {Pick(T)}]
        /\ h[T] = IF T = {} THEN 0 ELSE f[Pick(T)] + h[T \ {Pick(T)}]
        /\ T # {} => Pick(T) \in T
  <2> TAKE T \in SUBSET (S \cap R)
  <2>1. T \in SUBSET S /\ T \in SUBSET R
    OBVIOUS
  <2>2. T # {} => Pick(T) \in T
    BY DEF Pick
  <2> QED BY <2>1, <2>2, FS_Subset, FS_CardinalityType DEF IsSum
<1>1. 0 \in P
  BY <1>0, FS_EmptySet
<1>2. ASSUME NEW n \in Nat, n \in P PROVE n + 1 \in P
  <2> SUFFICES ASSUME NEW T \in SUBSET (S \cap R), Cardinality(T) = n + 1
               PROVE  g[T] = h[T]
    OBVIOUS
  <2>1. T # {}
    BY FS_EmptySet
  <2>2. Cardinality(T \ {Pick(T)}) = n /\ T \ {Pick(T)} \in SUBSET (S \cap R)
    <3>1. IsFiniteSet(T) /\ Pick(T) \in T
      BY <1>0, <2>1
    <3> QED BY <3>1, Smaller
  <2>3. g[T \ {Pick(T)}] = h[T \ {Pick(T)}]
    BY <1>2, <2>2
  <2> QED BY <1>0, <2>1, <2>3
<1>3. Nat \subseteq P
  <2> HIDE DEF P
  <2> QED BY <1>1, <1>2, SetInduction
<1> QED BY <1>0, <1>3

\* The fold of the community modules is that function.
LEMMA SumIsChosen ==
  ASSUME NEW f, NEW S
  PROVE  SumOver(f, S) = (CHOOSE g : IsSum(f, S, g))[S]
  BY DEF SumOver, MapThenSumSet, MapThenFoldSet, IsSum, Pick

\* So the sum over a finite set is the value of any solution there.
LEMMA SumSolved ==
  ASSUME NEW f, NEW S, IsFiniteSet(S)
  PROVE  \E g : IsSum(f, S, g) /\ SumOver(f, S) = g[S]
  BY SumDefined, SumIsChosen

\* The sum over nothing, and taking out the element the fold picks.
LEMMA SumEquation ==
  ASSUME NEW f, NEW S, IsFiniteSet(S)
  PROVE  SumOver(f, S) =
           IF S = {} THEN 0 ELSE f[Pick(S)] + SumOver(f, S \ {Pick(S)})
<1>1. PICK g : IsSum(f, S, g) /\ SumOver(f, S) = g[S]
  BY SumSolved
<1>2. g[S] = IF S = {} THEN 0 ELSE f[Pick(S)] + g[S \ {Pick(S)}]
  BY <1>1 DEF IsSum
<1>3. ASSUME S # {} PROVE g[S \ {Pick(S)}] = SumOver(f, S \ {Pick(S)})
  <2> DEFINE R == S \ {Pick(S)}
  <2>1. IsFiniteSet(R) /\ R \in SUBSET (S \cap R)
    BY FS_Subset
  <2> HIDE DEF R
  <2>2. PICK h : IsSum(f, R, h) /\ SumOver(f, R) = h[R]
    BY <2>1, SumSolved
  <2>3. g[R] = h[R]
    BY <1>1, <2>1, <2>2, SumUnique
  <2> QED BY <2>2, <2>3 DEF R
<1> QED BY <1>1, <1>2, <1>3

\* The sum over nothing is nothing.
LEMMA SumEmpty ==
  ASSUME NEW f
  PROVE  SumOver(f, {}) = 0
  BY SumEquation, FS_EmptySet

\* A property of finite sets that taking out elements preserves.
LEMMA SumInduction ==
  ASSUME NEW S, IsFiniteSet(S), NEW Good, {} \in Good,
         \A T \in SUBSET S :
           (T # {} /\ \A x \in T : T \ {x} \in Good) => T \in Good
  PROVE  SUBSET S \subseteq Good
<1> DEFINE P == {n \in Nat : \A T \in SUBSET S : Cardinality(T) = n => T \in Good}
<1>0. \A T \in SUBSET S : IsFiniteSet(T) /\ Cardinality(T) \in Nat
  BY FS_Subset, FS_CardinalityType
<1>1. 0 \in P
  BY <1>0, FS_EmptySet
<1>2. ASSUME NEW n \in Nat, n \in P PROVE n + 1 \in P
  <2> SUFFICES ASSUME NEW T \in SUBSET S, Cardinality(T) = n + 1
               PROVE  T \in Good
    OBVIOUS
  <2>1. T # {}
    BY FS_EmptySet
  <2>2. ASSUME NEW x \in T PROVE T \ {x} \in Good
    <3>1. Cardinality(T \ {x}) = n
      BY <1>0, Smaller
    <3> QED BY <1>2, <3>1
  <2> QED BY <2>1, <2>2
<1>3. Nat \subseteq P
  <2> HIDE DEF P
  <2> QED BY <1>1, <1>2, SetInduction
<1> QED BY <1>0, <1>3

\* Integers add up to an integer.
LEMMA SumType ==
  ASSUME NEW S, IsFiniteSet(S), NEW f, \A x \in S : f[x] \in Int
  PROVE  SumOver(f, S) \in Int
<1> DEFINE Good == {T \in SUBSET S : SumOver(f, T) \in Int}
<1>1. {} \in Good
  BY SumEmpty
<1>2. ASSUME NEW T \in SUBSET S, T # {}, \A x \in T : T \ {x} \in Good
      PROVE  T \in Good
  <2>1. Pick(T) \in T
    BY <1>2 DEF Pick
  <2>2. SumOver(f, T) = f[Pick(T)] + SumOver(f, T \ {Pick(T)})
    BY <1>2, SumEquation, FS_Subset
  <2>3. SumOver(f, T \ {Pick(T)}) \in Int /\ f[Pick(T)] \in Int
    BY <1>2, <2>1
  <2> QED BY <2>2, <2>3
<1>3. SUBSET S \subseteq Good
  <2> HIDE DEF Good
  <2> QED BY <1>1, <1>2, SumInduction
<1> QED BY <1>3

\* Functions that agree on a set have the same sum over it.
LEMMA SumSame ==
  ASSUME NEW S, IsFiniteSet(S), NEW f, NEW g, \A x \in S : f[x] = g[x]
  PROVE  SumOver(f, S) = SumOver(g, S)
<1> DEFINE Good == {T \in SUBSET S : SumOver(f, T) = SumOver(g, T)}
<1>1. {} \in Good
  BY SumEmpty
<1>2. ASSUME NEW T \in SUBSET S, T # {}, \A x \in T : T \ {x} \in Good
      PROVE  T \in Good
  <2>1. Pick(T) \in T
    BY <1>2 DEF Pick
  <2>2. /\ SumOver(f, T) = f[Pick(T)] + SumOver(f, T \ {Pick(T)})
        /\ SumOver(g, T) = g[Pick(T)] + SumOver(g, T \ {Pick(T)})
    BY <1>2, SumEquation, FS_Subset
  <2>3. SumOver(f, T \ {Pick(T)}) = SumOver(g, T \ {Pick(T)})
    BY <1>2, <2>1
  <2> QED BY <2>1, <2>2, <2>3
<1>3. SUBSET S \subseteq Good
  <2> HIDE DEF Good
  <2> QED BY <1>1, <1>2, SumInduction
<1> QED BY <1>3

\* Any element can be taken out of a sum, whichever one the fold picks.
LEMMA SumRemove ==
  ASSUME NEW S, IsFiniteSet(S), NEW f, \A x \in S : f[x] \in Int,
         NEW a \in S
  PROVE  SumOver(f, S) = f[a] + SumOver(f, S \ {a})
<1> DEFINE Good == {T \in SUBSET S :
                      \A x \in T : SumOver(f, T) = f[x] + SumOver(f, T \ {x})}
<1>1. {} \in Good
  OBVIOUS
<1>2. ASSUME NEW T \in SUBSET S, T # {}, \A x \in T : T \ {x} \in Good
      PROVE  T \in Good
  <2> SUFFICES ASSUME NEW x \in T
               PROVE  SumOver(f, T) = f[x] + SumOver(f, T \ {x})
    OBVIOUS
  <2> DEFINE p == Pick(T)
  <2>1. p \in T /\ f[p] \in Int /\ f[x] \in Int
    BY <1>2 DEF Pick
  <2>2. SumOver(f, T) = f[p] + SumOver(f, T \ {p})
    BY <1>2, SumEquation, FS_Subset
  <2> HIDE DEF p
  <2>3. CASE x = p
    BY <2>2, <2>3
  <2>4. CASE x # p
    <3> DEFINE rest == (T \ {p}) \ {x}
    <3>1. rest = (T \ {x}) \ {p}
      OBVIOUS
    <3>2. SumOver(f, T \ {p}) = f[x] + SumOver(f, rest)
      BY <1>2, <2>1, <2>4
    <3>3. SumOver(f, T \ {x}) = f[p] + SumOver(f, rest)
      BY <1>2, <2>1, <2>4, <3>1
    <3>4. SumOver(f, rest) \in Int
      <4>1. IsFiniteSet(rest) /\ \A y \in rest : f[y] \in Int
        BY FS_Subset
      <4> HIDE DEF rest
      <4> QED BY <4>1, SumType
    <3> HIDE DEF rest
    <3> QED BY <2>1, <2>2, <3>2, <3>3, <3>4
  <2> QED BY <2>3, <2>4
<1>3. SUBSET S \subseteq Good
  <2> HIDE DEF Good
  <2> QED BY <1>1, <1>2, SumInduction
<1> QED BY <1>3

\* A new element brings its value to the sum.
LEMMA SumAdd ==
  ASSUME NEW S, IsFiniteSet(S), NEW a, a \notin S, NEW f,
         \A x \in S \cup {a} : f[x] \in Int
  PROVE  SumOver(f, S \cup {a}) = f[a] + SumOver(f, S)
<1>1. IsFiniteSet(S \cup {a})
  BY FS_AddElement
<1>2. (S \cup {a}) \ {a} = S
  OBVIOUS
<1> QED BY <1>1, <1>2, SumRemove

\* Values that are not negative do not add up to less than nothing.
LEMMA SumNat ==
  ASSUME NEW S, IsFiniteSet(S), NEW f, \A x \in S : f[x] \in Nat
  PROVE  SumOver(f, S) \in Nat
<1> DEFINE Good == {T \in SUBSET S : SumOver(f, T) \in Nat}
<1>1. {} \in Good
  BY SumEmpty
<1>2. ASSUME NEW T \in SUBSET S, T # {}, \A x \in T : T \ {x} \in Good
      PROVE  T \in Good
  <2>1. Pick(T) \in T
    BY <1>2 DEF Pick
  <2>2. SumOver(f, T) = f[Pick(T)] + SumOver(f, T \ {Pick(T)})
    BY <1>2, SumEquation, FS_Subset
  <2>3. SumOver(f, T \ {Pick(T)}) \in Nat /\ f[Pick(T)] \in Nat
    BY <1>2, <2>1
  <2> QED BY <2>2, <2>3
<1>3. SUBSET S \subseteq Good
  <2> HIDE DEF Good
  <2> QED BY <1>1, <1>2, SumInduction
<1> QED BY <1>3

\* Values that are nothing add up to nothing.
LEMMA SumZero ==
  ASSUME NEW S, IsFiniteSet(S), NEW f, \A x \in S : f[x] = 0
  PROVE  SumOver(f, S) = 0
<1> DEFINE Good == {T \in SUBSET S : SumOver(f, T) = 0}
<1>1. {} \in Good
  BY SumEmpty
<1>2. ASSUME NEW T \in SUBSET S, T # {}, \A x \in T : T \ {x} \in Good
      PROVE  T \in Good
  <2>1. Pick(T) \in T
    BY <1>2 DEF Pick
  <2>2. SumOver(f, T) = f[Pick(T)] + SumOver(f, T \ {Pick(T)})
    BY <1>2, SumEquation, FS_Subset
  <2> QED BY <1>2, <2>1, <2>2
<1>3. SUBSET S \subseteq Good
  <2> HIDE DEF Good
  <2> QED BY <1>1, <1>2, SumInduction
<1> QED BY <1>3

\* A change of one value changes the sum by as much.
LEMMA SumChange ==
  ASSUME NEW S, IsFiniteSet(S), NEW a \in S, NEW f, NEW g,
         \A x \in S : f[x] \in Int /\ g[x] \in Int,
         \A x \in S \ {a} : g[x] = f[x]
  PROVE  SumOver(g, S) = SumOver(f, S) + (g[a] - f[a])
<1>1. IsFiniteSet(S \ {a})
  BY FS_Subset
<1>2. SumOver(f, S \ {a}) = SumOver(g, S \ {a})
  BY <1>1, SumSame
<1>3. SumOver(f, S \ {a}) \in Int
  BY <1>1, SumType
<1>4. /\ SumOver(f, S) = f[a] + SumOver(f, S \ {a})
      /\ SumOver(g, S) = g[a] + SumOver(g, S \ {a})
  BY SumRemove
<1> QED BY <1>2, <1>3, <1>4
=============================================================================
