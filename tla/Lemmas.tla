------------------------------- MODULE Lemmas -------------------------------
(***************************************************************************)
(* Sums over finite sets, and multiples: what the facts about the spend    *)
(* ledger, the sink's tables and the report's flows are proved from.  Then *)
(* arrays, filtered, sorted and flattened: what the facts about the        *)
(* dashboard's pages are proved from.                                      *)
(*                                                                         *)
(* The summand is a function, so that every fact can be instantiated, and  *)
(* induction over a finite set is a statement about a set of its subsets:  *)
(* no lemma takes an operator.                                             *)
(***************************************************************************)
EXTENDS Arrays, FiniteSetTheorems, TLAPS

-----------------------------------------------------------------------------
(* Induction                                                                *)

LEMMA Least ==
  ASSUME NEW S, S \subseteq Nat, S # {}
  PROVE  \E x \in S : \A y \in S : x <= y
<1>1. PICK x \in S : \A y \in S : ~(<<y, x>> \in OpToRel(<, Nat))
  BY NatLessThanWellFounded, WFMin
<1>2. \A y \in S : ~(y < x)
  BY <1>1 DEF OpToRel
<1> QED BY <1>2

\* A set G of subsets of a finite S that has a subset whenever it has what is
\* left of it without any one element has S: G is what an induction is about.
LEMMA SetInduction ==
  ASSUME NEW S, IsFiniteSet(S), NEW G,
         \A T \in SUBSET S : (\A x \in T : T \ {x} \in G) => T \in G
  PROVE  S \in G
<1> DEFINE Bad == {T \in SUBSET S : T \notin G}
           Sizes == {Cardinality(T) : T \in Bad}
<1>1. SUFFICES ASSUME Bad # {} PROVE FALSE
  OBVIOUS
<1>2. \A T \in SUBSET S : IsFiniteSet(T) /\ Cardinality(T) \in Nat
  BY FS_Subset, FS_CardinalityType
<1>3. Sizes \subseteq Nat /\ Sizes # {}
  BY <1>1, <1>2
<1>4. PICK n \in Sizes : \A m \in Sizes : n <= m
  <2> HIDE DEF Sizes
  <2> QED BY <1>3, Least
<1>5. PICK T \in Bad : n = Cardinality(T)
  OBVIOUS
<1>6. n \in Nat
  BY <1>2, <1>5
<1>7. PICK x \in T : T \ {x} \in Bad
  OBVIOUS
<1>8. Cardinality(T \ {x}) = n - 1
  BY <1>2, <1>5, FS_RemoveElement
<1>9. n - 1 \in Sizes
  BY <1>7, <1>8
<1>10. n <= n - 1
  <2> HIDE DEF Sizes
  <2> QED BY <1>4, <1>9
<1> QED BY <1>6, <1>10

-----------------------------------------------------------------------------
(* The fold                                                                 *)

Pick(s) == CHOOSE x \in s : TRUE

Step(w, g, s) == IF s = {} THEN 0 ELSE w[Pick(s)] + g[s \ {Pick(s)}]

\* g gives every subset of S its sum, one element at a time.
Folds(w, S, g) == g = [s \in SUBSET S |-> Step(w, g, s)]

LEMMA SumIs ==
  ASSUME NEW w, NEW S
  PROVE  SumFunctionOnSet(w, S) = (CHOOSE g : Folds(w, S, g))[S]
BY DEF SumFunctionOnSet, FoldFunctionOnSet, MapThenFoldSet, Folds, Step, Pick

LEMMA PickIn ==
  ASSUME NEW s, s # {}
  PROVE  Pick(s) \in s
BY DEF Pick

\* Two folds agree on the finite sets both are defined on.
LEMMA FoldsAgree ==
  ASSUME NEW w, NEW S, NEW T, T \subseteq S, IsFiniteSet(T),
         NEW g, Folds(w, S, g), NEW h, Folds(w, T, h)
  PROVE  g[T] = h[T]
<1> DEFINE G == {s \in SUBSET T : g[s] = h[s]}
<1>1. ASSUME NEW s \in SUBSET T, \A x \in s : s \ {x} \in G PROVE s \in G
  <2>1. g[s] = Step(w, g, s) /\ h[s] = Step(w, h, s)
    BY DEF Folds
  <2> QED BY <1>1, <2>1, PickIn DEF Step
<1>2. T \in G
  <2> HIDE DEF G
  <2> QED BY <1>1, SetInduction
<1> QED BY <1>2

\* A fold of S cut down to a subset of S is a fold of the subset.
LEMMA FoldCut ==
  ASSUME NEW w, NEW S, NEW T, T \subseteq S, NEW g, Folds(w, S, g)
  PROVE  Folds(w, T, [s \in SUBSET T |-> g[s]])
<1> DEFINE h == [s \in SUBSET T |-> g[s]]
<1>1. ASSUME NEW s \in SUBSET T PROVE h[s] = Step(w, h, s)
  <2>1. g[s] = Step(w, g, s)
    BY DEF Folds
  <2> QED BY <2>1, PickIn DEF Step
<1> QED BY <1>1 DEF Folds

\* Where a set has a fold its sum unfolds.
LEMMA Unfolds ==
  ASSUME NEW w, NEW S, IsFiniteSet(S), S # {}, NEW g, Folds(w, S, g)
  PROVE  SumFunctionOnSet(w, S) = w[Pick(S)] + SumFunctionOnSet(w, S \ {Pick(S)})
<1> DEFINE T == S \ {Pick(S)}
           F(R) == CHOOSE f : Folds(w, R, f)
<1>1. Folds(w, S, F(S))
  OBVIOUS
<1>2. Folds(w, T, F(T))
  BY FoldCut
<1>3. IsFiniteSet(T)
  BY FS_Subset
<1>4. F(S)[T] = F(T)[T]
  BY <1>1, <1>2, <1>3, FoldsAgree
<1>5. F(S)[S] = w[Pick(S)] + F(S)[T]
  BY <1>1 DEF Folds, Step
<1> QED BY <1>4, <1>5, SumIs

LEMMA FoldExists ==
  ASSUME NEW w, NEW S, IsFiniteSet(S)
  PROVE  \E g : Folds(w, S, g)
<1> DEFINE G == {T \in SUBSET S : \E g : Folds(w, T, g)}
<1>1. ASSUME NEW T \in SUBSET S, \A x \in T : T \ {x} \in G PROVE T \in G
  <2> DEFINE k == [s \in SUBSET T |-> SumFunctionOnSet(w, s)]
             h == [s \in SUBSET T |-> Step(w, k, s)]
  <2>1. ASSUME NEW s \in SUBSET T, s # T PROVE \E g : Folds(w, s, g)
    <3>1. PICK x \in T : s \subseteq T \ {x}
      BY <2>1
    <3>2. PICK g : Folds(w, T \ {x}, g)
      BY <1>1
    <3> QED BY <3>1, <3>2, FoldCut
  <2>2. ASSUME NEW s \in SUBSET T, s # T PROVE k[s] = Step(w, k, s)
    <3>1. PICK g : Folds(w, s, g)
      BY <2>1, <2>2
    <3>2. CASE s = {}
      <4>1. Folds(w, s, CHOOSE f : Folds(w, s, f))
        BY <3>1
      <4>2. (CHOOSE f : Folds(w, s, f))[s] = 0
        BY <3>2, <4>1 DEF Folds, Step
      <4> QED BY <3>2, <4>2, SumIs DEF Step
    <3>3. CASE s # {}
      <4>1. IsFiniteSet(s)
        BY FS_Subset
      <4>2. k[s] = w[Pick(s)] + SumFunctionOnSet(w, s \ {Pick(s)})
        BY <3>1, <3>3, <4>1, Unfolds
      <4> QED BY <3>3, <4>2 DEF Step
    <3> QED BY <3>2, <3>3
  <2>3. ASSUME NEW s \in SUBSET T PROVE h[s] = Step(w, h, s)
    <3>1. CASE s = {}
      BY <3>1 DEF Step
    <3>2. CASE s # {}
      <4>1. Pick(s) \in s
        BY <3>2, PickIn
      <4>2. h[s \ {Pick(s)}] = k[s \ {Pick(s)}]
        BY <2>2, <4>1
      <4> HIDE DEF k
      <4>3. h[s] = w[Pick(s)] + k[s \ {Pick(s)}]
        BY <3>2 DEF Step
      <4> HIDE DEF h
      <4> QED BY <3>2, <4>2, <4>3 DEF Step
    <3> QED BY <3>1, <3>2
  <2>4. Folds(w, T, h)
    <3> HIDE DEF k
    <3>1. h = [s \in SUBSET T |-> h[s]]
      OBVIOUS
    <3> HIDE DEF h
    <3> QED BY <2>3, <3>1 DEF Folds
  <2> QED BY <2>4
<1>2. S \in G
  <2> HIDE DEF G
  <2> QED BY <1>1, SetInduction
<1> QED BY <1>2

-----------------------------------------------------------------------------
(* Sums                                                                     *)

LEMMA SumEmpty ==
  ASSUME NEW w
  PROVE  SumFunctionOnSet(w, {}) = 0
<1>1. PICK g : Folds(w, {}, g)
  BY FoldExists, FS_EmptySet
<1>2. Folds(w, {}, CHOOSE f : Folds(w, {}, f))
  BY <1>1
<1>3. (CHOOSE f : Folds(w, {}, f))[{}] = 0
  BY <1>2 DEF Folds, Step
<1> QED BY <1>3, SumIs

LEMMA SumPick ==
  ASSUME NEW w, NEW S, IsFiniteSet(S), S # {}
  PROVE  SumFunctionOnSet(w, S) = w[Pick(S)] + SumFunctionOnSet(w, S \ {Pick(S)})
BY FoldExists, Unfolds

\* Weights that agree on a set have the same sum over it.
LEMMA SumSame ==
  ASSUME NEW S, IsFiniteSet(S), NEW w, NEW v, \A x \in S : w[x] = v[x]
  PROVE  SumFunctionOnSet(w, S) = SumFunctionOnSet(v, S)
<1> DEFINE G == {T \in SUBSET S : SumFunctionOnSet(w, T) = SumFunctionOnSet(v, T)}
<1>1. ASSUME NEW T \in SUBSET S, \A x \in T : T \ {x} \in G PROVE T \in G
  <2>1. CASE T = {}
    BY <2>1, SumEmpty
  <2>2. CASE T # {}
    <3>1. IsFiniteSet(T) /\ Pick(T) \in T
      BY <2>2, FS_Subset, PickIn
    <3>2. T \ {Pick(T)} \in G
      BY <1>1, <3>1
    <3>3. SumFunctionOnSet(w, T) = w[Pick(T)] + SumFunctionOnSet(w, T \ {Pick(T)})
      BY <2>2, <3>1, SumPick
    <3>4. SumFunctionOnSet(v, T) = v[Pick(T)] + SumFunctionOnSet(v, T \ {Pick(T)})
      BY <2>2, <3>1, SumPick
    <3> QED BY <3>1, <3>2, <3>3, <3>4
  <2> QED BY <2>1, <2>2
<1>2. S \in G
  <2> HIDE DEF G
  <2> QED BY <1>1, SetInduction
<1> QED BY <1>2

LEMMA SumInt ==
  ASSUME NEW S, IsFiniteSet(S), NEW w, \A x \in S : w[x] \in Int
  PROVE  SumFunctionOnSet(w, S) \in Int
<1> DEFINE G == {T \in SUBSET S : SumFunctionOnSet(w, T) \in Int}
<1>1. ASSUME NEW T \in SUBSET S, \A x \in T : T \ {x} \in G PROVE T \in G
  <2>1. CASE T = {}
    BY <2>1, SumEmpty
  <2>2. CASE T # {}
    <3>1. IsFiniteSet(T) /\ Pick(T) \in T
      BY <2>2, FS_Subset, PickIn
    <3>2. T \ {Pick(T)} \in G
      BY <1>1, <3>1
    <3>3. SumFunctionOnSet(w, T) = w[Pick(T)] + SumFunctionOnSet(w, T \ {Pick(T)})
      BY <2>2, <3>1, SumPick
    <3> QED BY <3>1, <3>2, <3>3
  <2> QED BY <2>1, <2>2
<1>2. S \in G
  <2> HIDE DEF G
  <2> QED BY <1>1, SetInduction
<1> QED BY <1>2

\* Any element of a set can be the one that is taken out first.
LEMMA SumRemove ==
  ASSUME NEW S, IsFiniteSet(S), NEW w, \A x \in S : w[x] \in Int, NEW x \in S
  PROVE  SumFunctionOnSet(w, S) = w[x] + SumFunctionOnSet(w, S \ {x})
<1> DEFINE Out(T, y) == SumFunctionOnSet(w, T) = w[y] + SumFunctionOnSet(w, T \ {y})
           G == {T \in SUBSET S : \A y \in T : Out(T, y)}
<1>1. \A T \in SUBSET S : IsFiniteSet(T) /\ SumFunctionOnSet(w, T) \in Int
  <2> TAKE T \in SUBSET S
  <2>1. IsFiniteSet(T)
    BY FS_Subset
  <2> QED BY <2>1, SumInt
<1>2. ASSUME NEW T \in SUBSET S, \A y \in T : T \ {y} \in G, NEW y \in T
      PROVE  Out(T, y)
  <2> DEFINE p == Pick(T)
  <2>1. p \in T /\ Out(T, p)
    BY <1>1, PickIn, SumPick
  <2> HIDE DEF p
  <2>2. CASE y = p
    BY <2>1, <2>2
  <2>3. CASE y # p
    <3>1. Out(T \ {p}, y) /\ Out(T \ {y}, p)
      BY <1>2, <2>1, <2>3
    <3>2. (T \ {p}) \ {y} = (T \ {y}) \ {p}
      OBVIOUS
    <3> DEFINE c == SumFunctionOnSet(w, (T \ {p}) \ {y})
    <3>3. c \in Int /\ w[p] \in Int /\ w[y] \in Int
      BY <1>1, <2>1
    <3>4. SumFunctionOnSet(w, T \ {p}) = w[y] + c
      BY <3>1
    <3>5. SumFunctionOnSet(w, T \ {y}) = w[p] + c
      BY <3>1, <3>2
    <3>6. SumFunctionOnSet(w, T) = w[p] + (w[y] + c)
      BY <2>1, <3>4
    <3> HIDE DEF c
    <3> QED BY <3>3, <3>5, <3>6
  <2> QED BY <2>2, <2>3
<1>3. S \in G
  <2>1. \A T \in SUBSET S : (\A y \in T : T \ {y} \in G) => T \in G
    BY <1>2
  <2> HIDE DEF G
  <2> QED BY <2>1, SetInduction
<1> QED BY <1>3

LEMMA SumAdd ==
  ASSUME NEW S, IsFiniteSet(S), NEW x, x \notin S,
         NEW w, \A y \in S \cup {x} : w[y] \in Int
  PROVE  SumFunctionOnSet(w, S \cup {x}) = w[x] + SumFunctionOnSet(w, S)
<1>1. IsFiniteSet(S \cup {x})
  BY FS_AddElement
<1>2. (S \cup {x}) \ {x} = S
  OBVIOUS
<1>3. x \in S \cup {x}
  OBVIOUS
<1>4. SumFunctionOnSet(w, S \cup {x}) = w[x] + SumFunctionOnSet(w, (S \cup {x}) \ {x})
  BY <1>1, <1>3, SumRemove
<1> QED BY <1>2, <1>4

\* The sum over a set splits at any subset of it.
LEMMA SumSplit ==
  ASSUME NEW S, IsFiniteSet(S), NEW R \in SUBSET S,
         NEW w, \A x \in S : w[x] \in Int
  PROVE  SumFunctionOnSet(w, S) = SumFunctionOnSet(w, R) + SumFunctionOnSet(w, S \ R)
<1> DEFINE Splits(T) == SumFunctionOnSet(w, T)
                          = SumFunctionOnSet(w, T \cap R) + SumFunctionOnSet(w, T \ R)
           G == {T \in SUBSET S : Splits(T)}
<1>1. \A T \in SUBSET S : IsFiniteSet(T) /\ SumFunctionOnSet(w, T) \in Int
  <2> TAKE T \in SUBSET S
  <2>1. IsFiniteSet(T)
    BY FS_Subset
  <2> QED BY <2>1, SumInt
<1>2. ASSUME NEW T \in SUBSET S, \A y \in T : T \ {y} \in G PROVE Splits(T)
  <2>1. CASE T = {}
    <3>1. T \cap R = {} /\ T \ R = {}
      BY <2>1
    <3> QED BY <2>1, <3>1, SumEmpty
  <2>2. ASSUME NEW y \in T PROVE Splits(T)
    <3>1. Splits(T \ {y})
      BY <1>2
    <3>2. SumFunctionOnSet(w, T) = w[y] + SumFunctionOnSet(w, T \ {y})
      BY <1>1, SumRemove
    <3> DEFINE a == SumFunctionOnSet(w, (T \ {y}) \cap R)
               b == SumFunctionOnSet(w, (T \ {y}) \ R)
    <3>3. a \in Int /\ b \in Int /\ w[y] \in Int
      BY <1>1
    <3>4. CASE y \in R
      <4>1. /\ (T \cap R) \ {y} = (T \ {y}) \cap R
            /\ T \ R = (T \ {y}) \ R
            /\ T \cap R \in SUBSET S /\ y \in T \cap R
        BY <3>4
      <4>2. SumFunctionOnSet(w, T \cap R) = w[y] + SumFunctionOnSet(w, (T \cap R) \ {y})
        BY <1>1, <4>1, SumRemove
      <4>3. SumFunctionOnSet(w, T \cap R) = w[y] + a /\ SumFunctionOnSet(w, T \ R) = b
        BY <4>1, <4>2
      <4>4. SumFunctionOnSet(w, T) = w[y] + (a + b)
        BY <3>1, <3>2
      <4> HIDE DEF a, b
      <4> QED BY <3>3, <4>3, <4>4
    <3>5. CASE y \notin R
      <4>1. /\ (T \ R) \ {y} = (T \ {y}) \ R
            /\ T \cap R = (T \ {y}) \cap R
            /\ T \ R \in SUBSET S /\ y \in T \ R
        BY <3>5
      <4>2. SumFunctionOnSet(w, T \ R) = w[y] + SumFunctionOnSet(w, (T \ R) \ {y})
        BY <1>1, <4>1, SumRemove
      <4>3. SumFunctionOnSet(w, T \ R) = w[y] + b /\ SumFunctionOnSet(w, T \cap R) = a
        BY <4>1, <4>2
      <4>4. SumFunctionOnSet(w, T) = w[y] + (a + b)
        BY <3>1, <3>2
      <4> HIDE DEF a, b
      <4> QED BY <3>3, <4>3, <4>4
    <3> QED BY <3>4, <3>5
  <2> QED BY <2>1, <2>2
<1>3. S \in G
  <2>1. \A T \in SUBSET S : (\A y \in T : T \ {y} \in G) => T \in G
    BY <1>2
  <2> HIDE DEF G
  <2> QED BY <2>1, SetInduction
<1>4. Splits(S)
  BY <1>3
<1>5. S \cap R = R
  OBVIOUS
<1> QED BY <1>4, <1>5

\* A weight nowhere above another has no greater sum.
LEMMA SumMonotone ==
  ASSUME NEW S, IsFiniteSet(S), NEW w, NEW v,
         \A x \in S : w[x] \in Int /\ v[x] \in Int /\ w[x] <= v[x]
  PROVE  SumFunctionOnSet(w, S) <= SumFunctionOnSet(v, S)
<1> DEFINE G == {T \in SUBSET S : SumFunctionOnSet(w, T) <= SumFunctionOnSet(v, T)}
<1>1. ASSUME NEW T \in SUBSET S, \A x \in T : T \ {x} \in G PROVE T \in G
  <2>1. CASE T = {}
    BY <2>1, SumEmpty
  <2>2. ASSUME NEW x \in T PROVE T \in G
    <3> DEFINE a == SumFunctionOnSet(w, T \ {x})
               b == SumFunctionOnSet(v, T \ {x})
    <3>1. IsFiniteSet(T) /\ IsFiniteSet(T \ {x})
      BY FS_Subset
    <3>2. SumFunctionOnSet(w, T) = w[x] + a
      BY <3>1, SumRemove
    <3>3. SumFunctionOnSet(v, T) = v[x] + b
      BY <3>1, SumRemove
    <3>4. a <= b
      BY <1>1
    <3>5. a \in Int
      BY <3>1, SumInt
    <3>6. b \in Int
      BY <3>1, SumInt
    <3>7. w[x] \in Int /\ v[x] \in Int /\ w[x] <= v[x]
      OBVIOUS
    <3> HIDE DEF a, b
    <3>8. w[x] + a <= v[x] + b
      BY <3>4, <3>5, <3>6, <3>7
    <3> QED BY <3>2, <3>3, <3>8
  <2> QED BY <2>1, <2>2
<1>2. S \in G
  <2> HIDE DEF G
  <2> QED BY <1>1, SetInduction
<1> QED BY <1>2

LEMMA SumZero ==
  ASSUME NEW S, IsFiniteSet(S), NEW w, \A x \in S : w[x] = 0
  PROVE  SumFunctionOnSet(w, S) = 0
<1> DEFINE G == {T \in SUBSET S : SumFunctionOnSet(w, T) = 0}
<1>1. ASSUME NEW T \in SUBSET S, \A x \in T : T \ {x} \in G PROVE T \in G
  <2>1. CASE T = {}
    BY <2>1, SumEmpty
  <2>2. CASE T # {}
    <3>1. IsFiniteSet(T) /\ Pick(T) \in T
      BY <2>2, FS_Subset, PickIn
    <3>2. SumFunctionOnSet(w, T \ {Pick(T)}) = 0 /\ w[Pick(T)] = 0
      BY <1>1, <3>1
    <3>3. SumFunctionOnSet(w, T) = w[Pick(T)] + SumFunctionOnSet(w, T \ {Pick(T)})
      BY <2>2, <3>1, SumPick
    <3> QED BY <3>2, <3>3
  <2> QED BY <2>1, <2>2
<1>2. S \in G
  <2> HIDE DEF G
  <2> QED BY <1>1, SetInduction
<1> QED BY <1>2

LEMMA SumNat ==
  ASSUME NEW S, IsFiniteSet(S), NEW w, \A x \in S : w[x] \in Nat
  PROVE  SumFunctionOnSet(w, S) \in Nat
<1> DEFINE zero == [x \in S |-> 0]
<1>1. SumFunctionOnSet(zero, S) = 0
  BY SumZero
<1>2. SumFunctionOnSet(zero, S) <= SumFunctionOnSet(w, S)
  BY SumMonotone
<1>3. SumFunctionOnSet(w, S) \in Int
  BY SumInt
<1> QED BY <1>1, <1>2, <1>3

\* With no negative weight a subset has no greater sum.
LEMMA SumSubset ==
  ASSUME NEW S, IsFiniteSet(S), NEW R \in SUBSET S,
         NEW w, \A x \in S : w[x] \in Nat
  PROVE  SumFunctionOnSet(w, R) <= SumFunctionOnSet(w, S)
<1>1. IsFiniteSet(R) /\ IsFiniteSet(S \ R)
  BY FS_Subset
<1>2. SumFunctionOnSet(w, R) \in Nat
  BY <1>1, SumNat
<1>3. SumFunctionOnSet(w, S \ R) \in Nat
  BY <1>1, SumNat
<1>4. SumFunctionOnSet(w, S) = SumFunctionOnSet(w, R) + SumFunctionOnSet(w, S \ R)
  BY SumSplit
<1> QED BY <1>2, <1>3, <1>4

\* The sum follows the elements when they are renamed one to one.
LEMMA SumImage ==
  ASSUME NEW S, IsFiniteSet(S), NEW f,
         \A x, y \in S : f[x] = f[y] => x = y,
         NEW w, NEW v, \A x \in S : w[x] \in Int /\ v[f[x]] = w[x]
  PROVE  SumFunctionOnSet(v, {f[x] : x \in S}) = SumFunctionOnSet(w, S)
<1> DEFINE Image(T) == {f[x] : x \in T}
           Equal(T) == SumFunctionOnSet(v, Image(T)) = SumFunctionOnSet(w, T)
           G == {T \in SUBSET S : Equal(T)}
<1>1. ASSUME NEW T \in SUBSET S, \A x \in T : T \ {x} \in G PROVE Equal(T)
  <2>1. CASE T = {}
    <3>1. Image(T) = {}
      BY <2>1
    <3> QED BY <2>1, <3>1, SumEmpty
  <2>2. ASSUME NEW x \in T PROVE Equal(T)
    <3>1. IsFiniteSet(T)
      BY FS_Subset
    <3>2. IsFiniteSet(Image(T))
      <4> DEFINE g == [y \in T |-> f[y]]
      <4>1. g \in Surjection(T, Image(T))
        BY DEF Surjection
      <4> HIDE DEF g, Image
      <4> QED BY <3>1, <4>1, FS_Surjection
    <3>3. Image(T) \ {f[x]} = Image(T \ {x})
      OBVIOUS
    <3>4. SumFunctionOnSet(w, T) = w[x] + SumFunctionOnSet(w, T \ {x})
      BY <3>1, SumRemove
    <3>5. \A y \in Image(T) : v[y] \in Int
      OBVIOUS
    <3>6. f[x] \in Image(T) /\ v[f[x]] = w[x]
      OBVIOUS
    <3>7. Equal(T \ {x})
      BY <1>1
    <3> HIDE DEF Image
    <3>8. SumFunctionOnSet(v, Image(T))
            = v[f[x]] + SumFunctionOnSet(v, Image(T) \ {f[x]})
      BY <3>2, <3>5, <3>6, SumRemove
    <3> QED BY <3>3, <3>4, <3>6, <3>7, <3>8
  <2> QED BY <2>1, <2>2
<1>2. S \in G
  <2>1. \A T \in SUBSET S : (\A y \in T : T \ {y} \in G) => T \in G
    BY <1>1
  <2> HIDE DEF G
  <2> QED BY <2>1, SetInduction
<1> QED BY <1>2

-----------------------------------------------------------------------------
(* Differences                                                              *)

LEMMA Greatest ==
  ASSUME NEW n \in Nat, NEW T \in SUBSET (1 .. n), T # {}
  PROVE  \E b \in T : \A x \in T : x <= b
<1> DEFINE S == {n - x : x \in T}
<1>1. S \subseteq Nat
  OBVIOUS
<1>2. S # {}
  <2>1. PICK x \in T : TRUE
    OBVIOUS
  <2>2. n - x \in S
    BY <2>1
  <2> QED BY <2>2
<1>3. PICK s \in S : \A y \in S : s <= y
  BY <1>1, <1>2, Least
<1>4. PICK b \in T : s = n - b
  BY <1>3
<1>5. \A x \in T : n - b <= n - x
  BY <1>3, <1>4
<1>6. \A x \in T : x <= b
  BY <1>5
<1> QED BY <1>6

\* prev takes each element of T but the least to the next one below it.
Linked(T, prev) ==
    \A g, h \in T : g < h => prev[h] \in T /\ g <= prev[h] /\ prev[h] < h

\* The weights are differences to what comes before.
Differences(w, v, prev, T) == \A h \in T : w[h] = v[h] - v[prev[h]]

Telescoped(w, v, prev, T) ==
    \E a, b \in T : /\ \A x \in T : a <= x /\ x <= b
                    /\ SumFunctionOnSet(w, T) = v[b] - v[prev[a]]

\* Differences along a chain add up to the difference between its newest
\* element and what came before its oldest.
LEMMA Telescope ==
  ASSUME NEW n \in Nat, NEW T, T \subseteq 1 .. n, T # {},
         NEW v, v \in [1 .. n -> Int], NEW prev, prev \in [T -> 1 .. n],
         Linked(T, prev), NEW w, Differences(w, v, prev, T)
  PROVE  Telescoped(w, v, prev, T)
<1>1. T \subseteq Nat /\ IsFiniteSet(T)
  <2>1. IsFiniteSet(1 .. n)
    BY FS_Interval
  <2>2. IsFiniteSet(T)
    BY <2>1, FS_Subset
  <2> QED BY <2>2
<1>2. PICK a \in T : \A x \in T : a <= x
  BY <1>1, Least
<1>3. \A x \in T : v[x] \in Int /\ v[prev[x]] \in Int /\ w[x] \in Int
  BY DEF Differences
<1> DEFINE Initial(U) == \A h \in U, g \in T : g < h => g \in U
           Ends(U) == \E b \in U : /\ \A x \in U : x <= b
                                   /\ SumFunctionOnSet(w, U) = v[b] - v[prev[a]]
           G == {U \in SUBSET T : Initial(U) /\ U # {} => Ends(U)}
<1>4. ASSUME NEW U \in SUBSET T, \A x \in U : U \ {x} \in G,
             Initial(U), U # {}
      PROVE  Ends(U)
  <2>1. PICK b \in U : \A x \in U : x <= b
    <3>1. U \in SUBSET (1 .. n)
      OBVIOUS
    <3> QED BY <3>1, <1>4, Greatest
  <2>2. IsFiniteSet(U) /\ b \in T
    BY <1>1, FS_Subset
  <2>3. SumFunctionOnSet(w, U) = w[b] + SumFunctionOnSet(w, U \ {b})
    BY <1>3, <2>2, SumRemove
  <2>4. CASE U \ {b} = {}
    <3>1. a = b
      <4>1. U = {b}
        BY <2>1, <2>4
      <4>2. ~(a < b)
        BY <1>2, <1>4, <4>1
      <4> QED BY <1>1, <1>2, <2>2, <4>2
    <3>2. SumFunctionOnSet(w, U \ {b}) = 0
      BY <2>4, SumEmpty
    <3>3. w[b] = v[b] - v[prev[a]] /\ w[b] \in Int
      BY <1>3, <2>2, <3>1 DEF Differences
    <3>4. SumFunctionOnSet(w, U) = v[b] - v[prev[a]]
      BY <2>3, <3>2, <3>3
    <3> QED BY <2>1, <3>4
  <2>5. CASE U \ {b} # {}
    <3>1. Initial(U \ {b})
      <4> SUFFICES ASSUME NEW h \in U \ {b}, NEW g \in T, g < h
                   PROVE  g \in U /\ g # b
        OBVIOUS
      <4>1. h <= b /\ h \in Nat /\ g \in Nat /\ b \in Nat
        BY <1>1, <2>1
      <4> QED BY <1>4, <4>1
    <3>2. Ends(U \ {b})
      BY <1>4, <2>5, <3>1
    <3>3. PICK c \in U \ {b} :
            /\ \A x \in U \ {b} : x <= c
            /\ SumFunctionOnSet(w, U \ {b}) = v[c] - v[prev[a]]
      BY <3>2
    <3>4. c \in T /\ c \in Nat /\ b \in Nat /\ c < b
      BY <1>1, <2>1
    <3>5. prev[b] \in T /\ c <= prev[b] /\ prev[b] < b
      BY <2>2, <3>4 DEF Linked
    <3>6. prev[b] \in U \ {b}
      <4>1. prev[b] # b
        BY <1>1, <3>4, <3>5
      <4> QED BY <1>4, <3>5, <4>1
    <3>7. prev[b] = c
      <4>1. prev[b] <= c
        BY <3>3, <3>6
      <4> QED BY <1>1, <3>4, <3>5, <4>1
    <3>8. /\ w[b] = v[b] - v[c]
          /\ v[b] \in Int /\ v[c] \in Int /\ v[prev[a]] \in Int
      BY <1>2, <1>3, <2>2, <3>4, <3>7 DEF Differences
    <3>9. SumFunctionOnSet(w, U) = v[b] - v[prev[a]]
      BY <2>3, <3>3, <3>8
    <3> QED BY <2>1, <3>9
  <2> QED BY <2>4, <2>5
<1>5. T \in G
  <2>1. \A U \in SUBSET T : (\A x \in U : U \ {x} \in G) => U \in G
    BY <1>4
  <2> HIDE DEF G
  <2> QED BY <1>1, <2>1, SetInduction
<1>6. Ends(T)
  BY <1>5
<1> QED BY <1>2, <1>6 DEF Telescoped

-----------------------------------------------------------------------------
(* Multiples                                                                *)

\* What division and remainder are to each other.
LEMMA DivMod ==
  ASSUME NEW n \in Int, n > 0, NEW b \in Int
  PROVE  /\ b \div n \in Int
         /\ b % n \in 0 .. n - 1
         /\ b = n * (b \div n) + (b % n)
<1>1. b \div n \in Int
  BY SMT
<1>2. b % n \in 0 .. n - 1
  BY SMT
<1>3. b = n * (b \div n) + (b % n)
  BY SMT
<1> QED BY <1>1, <1>2, <1>3

LEMMA MultiplesGap ==
  ASSUME NEW n \in Int, n > 0, NEW p \in Int, NEW q \in Int, n * p < n * q
  PROVE  n * q - n * p >= n
BY SMT

\* Multiples keep the order of their factors.
LEMMA MultiplesOrder ==
  ASSUME NEW n \in Int, n > 0, NEW p \in Int, NEW q \in Int
  PROVE  /\ p * n \in Int /\ q * n \in Int
         /\ p <= q => p * n <= q * n
         /\ p < q => p * n + n <= q * n
<1>1. p * n \in Int /\ q * n \in Int
  BY SMT
<1>2. p <= q => p * n <= q * n
  BY SMT
<1>3. p < q => p * n + n <= q * n
  BY SMT
<1> QED BY <1>1, <1>2, <1>3

\* A number is below a multiple when its quotient is below the factor.
LEMMA DivBelow ==
  ASSUME NEW n \in Int, n > 0, NEW b \in Int, NEW j \in Int
  PROVE  /\ b \div n \in Int /\ j * n \in Int
         /\ b \div n < j <=> b < j * n
<1> DEFINE q == b \div n
           r == b % n
<1>1. q \in Int /\ r \in 0 .. n - 1 /\ b = n * q + r
  BY DivMod
<1> HIDE DEF q, r
<1>2. q * n \in Int /\ n * q = q * n /\ j * n \in Int
  BY <1>1, SMT
<1>3. q < j => q * n + n <= j * n
  BY <1>1, MultiplesOrder
<1>4. j <= q => j * n <= q * n
  BY <1>1, MultiplesOrder
<1>5. b = q * n + r
  BY <1>1, <1>2
<1>6. q < j <=> b < j * n
  BY <1>1, <1>2, <1>3, <1>4, <1>5
<1> QED BY <1>1, <1>2, <1>6 DEF q

LEMMA DivOrder ==
  ASSUME NEW n \in Int, n > 0, NEW b \in Int, NEW c \in Int, b <= c
  PROVE  b \div n <= c \div n
<1> DEFINE p == b \div n
           q == c \div n
<1>1. p \in Int /\ q \in Int
  BY DivMod
<1>2. /\ c \div n < p <=> c < p * n
      /\ b \div n < p <=> b < p * n
      /\ p * n \in Int
  <2> HIDE DEF p
  <2> QED BY <1>1, DivBelow
<1>3. ~(b < p * n)
  BY <1>1, <1>2
<1> HIDE DEF p, q
<1>4. ~(c < p * n)
  BY <1>2, <1>3
<1>5. ~(q < p)
  BY <1>2, <1>4 DEF q
<1> QED BY <1>1, <1>5 DEF p, q

\* Numbers of one small interval are of one interval of several of them.
LEMMA DivNested ==
  ASSUME NEW n \in Int, n > 0, NEW d \in Int, d > 0, d % n = 0,
         NEW b \in Int, NEW c \in Int, b \div d < c \div d
  PROVE  b \div n < c \div n
<1> DEFINE j == c \div d
           k == d \div n
<1>1. j \in Int /\ k \in Int /\ d = n * k + (d % n)
  BY DivMod
<1>2. b \div d < j
  OBVIOUS
<1>3. ~(c \div d < j)
  BY <1>1
<1> HIDE DEF j, k
<1>4. d = n * k
  <2>1. n * k \in Int
    BY <1>1, SMT
  <2> QED BY <1>1, <2>1
<1>5. b < j * d /\ ~(c < j * d)
  BY <1>1, <1>2, <1>3, DivBelow
<1>6. j * k \in Int /\ j * d = (j * k) * n
  BY <1>1, <1>4, SMT
<1>7. b < (j * k) * n /\ ~(c < (j * k) * n)
  BY <1>5, <1>6
<1>8. b \div n < j * k /\ ~(c \div n < j * k)
  BY <1>6, <1>7, DivBelow
<1>9. b \div n \in Int /\ c \div n \in Int
  BY DivMod
<1> QED BY <1>6, <1>8, <1>9

-----------------------------------------------------------------------------
(* Sequences and their ranges                                               *)
LEMMA RangeIs ==
  ASSUME NEW X, NEW s \in Seq(X)
  PROVE  /\ Range(s) \subseteq X /\ IsSeq(s)
         /\ \A x : x \in Range(s) <=> \E i \in DOMAIN s : s[i] = x
<1>1. s \in [1 .. Len(s) -> X] /\ DOMAIN s = 1 .. Len(s) /\ Len(s) \in Nat
  OBVIOUS
<1>2. \A i \in DOMAIN s : s[i] \in X
  BY <1>1
<1>3. \A i \in 1 .. Len(s) : s[i] \in Range(s)
  BY <1>1 DEF Range
<1>4. s = [i \in 1 .. Len(s) |-> s[i]]
  BY <1>1
<1>5. s \in [1 .. Len(s) -> Range(s)]
  BY <1>3, <1>4
<1>6. s \in Seq(Range(s))
  BY <1>1, <1>5
<1> QED BY <1>2, <1>6 DEF Range, IsSeq

LEMMA SingleIs ==
  ASSUME NEW x
  PROVE  IsSeq(<<x>>) /\ Range(<<x>>) = {x}
<1>1. <<x>> \in Seq({x})
  OBVIOUS
<1>2. DOMAIN <<x>> = {1} /\ <<x>>[1] = x
  OBVIOUS
<1>3. Range(<<x>>) = {x}
  BY <1>2 DEF Range
<1> QED BY <1>1, <1>3, RangeIs

LEMMA EmptyIs == IsSeq(<< >>) /\ Range(<< >>) = {}
<1>1. DOMAIN << >> = {} /\ << >> \in Seq({})
  OBVIOUS
<1>2. Range(<< >>) = {}
  BY <1>1 DEF Range
<1> QED BY <1>1, <1>2 DEF IsSeq

LEMMA MapIs ==
  ASSUME NEW n \in Nat, NEW X, NEW f, DOMAIN f = 1 .. n, \A i \in 1 .. n : f[i] \in X,
         f = [i \in 1 .. n |-> f[i]]
  PROVE  f \in Seq(X)
<1>1. f \in [1 .. n -> X]
  OBVIOUS
<1> QED BY <1>1

LEMMA RangeAppend ==
  ASSUME NEW s, IsSeq(s), NEW x
  PROVE  IsSeq(Append(s, x)) /\ Range(Append(s, x)) = Range(s) \cup {x}
<1> DEFINE X == Range(s) \cup {x}
           u == Append(s, x)
<1>1. s \in Seq(Range(s)) /\ Len(s) \in Nat /\ DOMAIN s = 1 .. Len(s)
  BY DEF IsSeq
<1>2. s \in Seq(X)
  <2>1. Range(s) \subseteq X
    OBVIOUS
  <2> HIDE DEF X
  <2> QED BY <1>1, <2>1
<1>3. x \in X
  OBVIOUS
<1> HIDE DEF X
<1>4. /\ u \in Seq(X) /\ DOMAIN u = 1 .. Len(s) + 1 /\ u[Len(s) + 1] = x
      /\ \A i \in 1 .. Len(s) : u[i] = s[i]
  BY <1>1, <1>2, <1>3
<1> HIDE DEF u
<1>5. IsSeq(u) /\ Range(u) \subseteq X
  BY <1>4, RangeIs
<1>6. x \in Range(u)
  BY <1>1, <1>4 DEF Range
<1>7. Range(s) \subseteq Range(u)
  <2> SUFFICES ASSUME NEW i \in DOMAIN s PROVE s[i] \in Range(u)
    BY DEF Range
  <2>1. i \in DOMAIN u /\ u[i] = s[i]
    BY <1>1, <1>4
  <2> QED BY <2>1 DEF Range
<1> QED BY <1>5, <1>6, <1>7 DEF X, u

LEMMA RangeConcat ==
  ASSUME NEW X, NEW s \in Seq(X), NEW t \in Seq(X)
  PROVE  s \o t \in Seq(X) /\ Range(s \o t) = Range(s) \cup Range(t)
<1> DEFINE u == s \o t
<1>1. /\ u \in Seq(X) /\ Len(s) \in Nat /\ Len(t) \in Nat
      /\ DOMAIN s = 1 .. Len(s) /\ DOMAIN t = 1 .. Len(t)
      /\ DOMAIN u = 1 .. Len(s) + Len(t)
      /\ \A i \in 1 .. Len(s) : u[i] = s[i]
  OBVIOUS
<1>2. \A i \in DOMAIN t : Len(s) + i \in DOMAIN u /\ u[Len(s) + i] = t[i]
  BY <1>1
<1>3. \A k \in DOMAIN u : \/ k \in DOMAIN s
                          \/ k - Len(s) \in DOMAIN t /\ u[k] = t[k - Len(s)]
  <2> SUFFICES ASSUME NEW k \in DOMAIN u, k \notin DOMAIN s
               PROVE  k - Len(s) \in DOMAIN t /\ u[k] = t[k - Len(s)]
    OBVIOUS
  <2>1. k - Len(s) \in DOMAIN t /\ Len(s) + (k - Len(s)) = k
    BY <1>1
  <2> HIDE DEF u
  <2> QED BY <2>1, <1>2
<1> HIDE DEF u
<1>4. Range(s) \subseteq Range(u)
  <2> SUFFICES ASSUME NEW i \in DOMAIN s PROVE s[i] \in Range(u)
    BY DEF Range
  <2>1. i \in DOMAIN u /\ u[i] = s[i]
    BY <1>1
  <2> QED BY <2>1 DEF Range
<1>5. Range(t) \subseteq Range(u)
  BY <1>2 DEF Range
<1>6. Range(u) \subseteq Range(s) \cup Range(t)
  <2> SUFFICES ASSUME NEW k \in DOMAIN u PROVE u[k] \in Range(s) \cup Range(t)
    BY DEF Range
  <2>1. k \in DOMAIN s => u[k] = s[k]
    BY <1>1
  <2> QED BY <2>1, <1>3 DEF Range
<1> QED BY <1>1, <1>4, <1>5, <1>6 DEF u

LEMMA RangeTail ==
  ASSUME NEW X, NEW s \in Seq(X), s # << >>
  PROVE  /\ Head(s) \in X /\ Tail(s) \in Seq(X)
         /\ Range(s) = {Head(s)} \cup Range(Tail(s))
<1> DEFINE u == Tail(s)
<1>1. /\ Len(s) \in Nat /\ Len(s) # 0 /\ DOMAIN s = 1 .. Len(s) /\ Head(s) = s[1]
      /\ u \in Seq(X) /\ DOMAIN u = 1 .. Len(s) - 1
      /\ \A i \in 1 .. Len(s) - 1 : u[i] = s[i + 1]
      /\ Head(s) \in X
  OBVIOUS
<1> HIDE DEF u
<1>2. \A i \in DOMAIN u : i + 1 \in DOMAIN s /\ u[i] = s[i + 1]
  BY <1>1
<1>3. \A i \in DOMAIN s : i = 1 \/ (i - 1 \in DOMAIN u /\ u[i - 1] = s[i])
  <2> SUFFICES ASSUME NEW i \in DOMAIN s, i # 1
               PROVE  i - 1 \in DOMAIN u /\ u[i - 1] = s[i]
    OBVIOUS
  <2>1. i - 1 \in DOMAIN u /\ (i - 1) + 1 = i
    BY <1>1
  <2> QED BY <2>1, <1>2
<1>4. 1 \in DOMAIN s
  BY <1>1
<1>5. Range(u) \subseteq Range(s) /\ Head(s) \in Range(s)
  BY <1>1, <1>2, <1>4 DEF Range
<1>6. Range(s) \subseteq {Head(s)} \cup Range(u)
  <2> SUFFICES ASSUME NEW i \in DOMAIN s PROVE s[i] \in {Head(s)} \cup Range(u)
    BY DEF Range
  <2> QED BY <1>1, <1>3 DEF Range
<1> QED BY <1>1, <1>5, <1>6 DEF u

\* A sequence of files is one still when there are more files.
LEMMA SeqGrows ==
  ASSUME NEW X, NEW Y, X \subseteq Y, NEW s \in Seq(X)
  PROVE  s \in Seq(Y)
OBVIOUS

\* The vaults the form asks for are finitely many.
LEMMA RangeFinite ==
  ASSUME NEW X, NEW s \in Seq(X)
  PROVE  IsFiniteSet(Range(s))
<1>1. DOMAIN s = 1 .. Len(s) /\ Len(s) \in Nat
  OBVIOUS
<1>4. s \in [1 .. Len(s) -> X]
  OBVIOUS
<1>5. s = [i \in 1 .. Len(s) |-> s[i]]
  BY <1>4
<1> DEFINE n == Len(s)
<1> HIDE DEF n
<1>6. s \in [1 .. n -> Range(s)]
  BY <1>1, <1>5 DEF Range, n
<1>7. \A y \in Range(s) : \E i \in 1 .. n : s[i] = y
  BY <1>1 DEF Range, n
<1>2. IsFiniteSet(1 .. Len(s))
  BY <1>1, FS_Interval
<1>3. s \in Surjection(1 .. Len(s), Range(s))
  BY <1>6, <1>7 DEF Surjection, n
<1> QED BY <1>2, <1>3, FS_Surjection

-----------------------------------------------------------------------------
(* filter                                                                   *)
LEMMA NatSetInduction ==
  ASSUME NEW G, 0 \in G, \A n \in Nat : n \in G => n + 1 \in G
  PROVE  Nat \subseteq G
<1>1. SUFFICES ASSUME Nat \ G # {} PROVE FALSE
  OBVIOUS
<1>2. PICK n \in Nat \ G : \A m \in Nat \ G : n <= m
  BY <1>1, Least
<1>3. n # 0 /\ n \in Nat
  BY <1>2
<1>4. n - 1 \in Nat /\ (n - 1) + 1 = n
  BY <1>3
<1>5. n - 1 \in G
  BY <1>2, <1>4
<1> QED BY <1>2, <1>4, <1>5

\* The recursion behind At, and that it has a solution.
KeptStep(s, indices, f, n) ==
    IF n = 0 THEN << >>
    ELSE IF n \in indices THEN Append(f[n - 1], s[n]) ELSE f[n - 1]
Keeps(s, indices, m, f) == f = [n \in 0 .. m |-> KeptStep(s, indices, f, n)]
LEMMA AtIs ==
  ASSUME NEW s, NEW indices
  PROVE  At(s, indices) = (CHOOSE f : Keeps(s, indices, Len(s), f))[Len(s)]
BY DEF At, Keeps, KeptStep

LEMMA KeepsExists ==
  ASSUME NEW s, NEW indices, NEW m \in Nat
  PROVE  \E f : Keeps(s, indices, m, f)
<1> DEFINE G == {k \in Nat : \E f : Keeps(s, indices, k, f)}
<1>1. 0 \in G
  <2>1. Keeps(s, indices, 0, [n \in 0 .. 0 |-> << >>])
    BY DEF Keeps, KeptStep
  <2> QED BY <2>1
<1>2. ASSUME NEW k \in Nat, k \in G PROVE k + 1 \in G
  <2>1. PICK f : Keeps(s, indices, k, f)
    BY <1>2
  <2> DEFINE h == [n \in 0 .. k + 1 |-> KeptStep(s, indices, f, n)]
  <2>2. \A n \in 0 .. k : h[n] = f[n]
    BY <2>1 DEF Keeps
  <2>3. \A n \in 0 .. k + 1 : KeptStep(s, indices, h, n) = KeptStep(s, indices, f, n)
    <3> SUFFICES ASSUME NEW n \in 0 .. k + 1
                 PROVE  KeptStep(s, indices, h, n) = KeptStep(s, indices, f, n)
      OBVIOUS
    <3>1. CASE n = 0
      BY <3>1 DEF KeptStep
    <3>2. CASE n # 0
      <4>1. n - 1 \in 0 .. k
        BY <3>2
      <4>2. h[n - 1] = f[n - 1]
        BY <4>1, <2>2
      <4> HIDE DEF h
      <4> QED BY <4>2 DEF KeptStep
    <3> QED BY <3>1, <3>2
  <2>4. Keeps(s, indices, k + 1, h)
    <3>1. h = [n \in 0 .. k + 1 |-> KeptStep(s, indices, h, n)]
      <4>1. [n \in 0 .. k + 1 |-> KeptStep(s, indices, h, n)]
              = [n \in 0 .. k + 1 |-> KeptStep(s, indices, f, n)]
        BY <2>3
      <4> QED BY <4>1
    <3> HIDE DEF h
    <3> QED BY <3>1 DEF Keeps
  <2> QED BY <2>4
<1>3. Nat \subseteq G
  <2> HIDE DEF G
  <2> QED BY <1>1, <1>2, NatSetInduction
<1> QED BY <1>3

\* t is what is left of s at some indices: e[k] is where the k-th stood.
Picks(t, s, indices, e) ==
    /\ e \in [DOMAIN t -> indices]
    /\ \A k \in DOMAIN t : t[k] = s[e[k]]
    /\ \A i \in indices : \E k \in DOMAIN t : e[k] = i
    /\ \A j, k \in DOMAIN t : j < k => e[j] < e[k]

LEMMA PicksOneMore ==
  ASSUME NEW X, NEW s \in Seq(X), NEW n \in 1 .. Len(s),
         NEW t \in Seq(X), NEW indices, indices \subseteq 1 .. n - 1,
         NEW e, Picks(t, s, indices, e)
  PROVE  /\ Append(t, s[n]) \in Seq(X)
         /\ \E d : Picks(Append(t, s[n]), s, indices \cup {n}, d)
<1> DEFINE u == Append(t, s[n])
           d == [k \in 1 .. Len(t) + 1 |-> IF k = Len(t) + 1 THEN n ELSE e[k]]
<1>1. s[n] \in X /\ Len(t) \in Nat /\ DOMAIN t = 1 .. Len(t)
  OBVIOUS
<1>2. /\ u \in Seq(X) /\ DOMAIN u = 1 .. Len(t) + 1
      /\ u[Len(t) + 1] = s[n] /\ \A k \in 1 .. Len(t) : u[k] = t[k]
  BY <1>1
<1> HIDE DEF u
<1>3. \A k \in 1 .. Len(t) : e[k] \in indices /\ t[k] = s[e[k]] /\ e[k] < n
  <2>1. \A k \in 1 .. Len(t) : e[k] \in indices /\ t[k] = s[e[k]]
    BY <1>1 DEF Picks
  <2>2. \A i \in indices : i < n
    OBVIOUS
  <2> QED BY <2>1, <2>2
<1>4. d[Len(t) + 1] = n /\ \A k \in 1 .. Len(t) : d[k] = e[k]
  BY <1>1
<1>5. d \in [DOMAIN u -> indices \cup {n}]
  BY <1>1, <1>2, <1>3
<1> HIDE DEF d
<1>6. \A k \in DOMAIN u : u[k] = s[d[k]]
  BY <1>1, <1>2, <1>3, <1>4
<1>7. \A i \in indices \cup {n} : \E k \in DOMAIN u : d[k] = i
  <2> SUFFICES ASSUME NEW i \in indices \cup {n} PROVE \E k \in DOMAIN u : d[k] = i
    OBVIOUS
  <2>1. CASE i = n
    <3>1. Len(t) + 1 \in DOMAIN u
      BY <1>1, <1>2
    <3> QED BY <3>1, <2>1, <1>4
  <2>2. CASE i \in indices
    <3>1. PICK k \in DOMAIN t : e[k] = i
      BY <2>2 DEF Picks
    <3>2. k \in DOMAIN u /\ d[k] = i
      BY <3>1, <1>1, <1>2, <1>4
    <3> QED BY <3>2
  <2> QED BY <2>1, <2>2
<1>8. \A j, k \in DOMAIN u : j < k => d[j] < d[k]
  <2> SUFFICES ASSUME NEW j \in DOMAIN u, NEW k \in DOMAIN u, j < k PROVE d[j] < d[k]
    OBVIOUS
  <2>1. j \in 1 .. Len(t) /\ d[j] = e[j]
    BY <1>1, <1>2, <1>4
  <2>2. CASE k = Len(t) + 1
    BY <2>1, <2>2, <1>3, <1>4
  <2>3. CASE k # Len(t) + 1
    <3>1. k \in DOMAIN t /\ j \in DOMAIN t /\ d[k] = e[k]
      BY <2>1, <2>3, <1>1, <1>2, <1>4
    <3> QED BY <3>1, <2>1 DEF Picks
  <2> QED BY <2>2, <2>3
<1>9. Picks(u, s, indices \cup {n}, d)
  BY <1>5, <1>6, <1>7, <1>8 DEF Picks
<1> QED BY <1>2, <1>9 DEF u

\* What is left of s at some indices: their elements, in order, each once.
LEMMA AtPicks ==
  ASSUME NEW X, NEW s \in Seq(X), NEW indices, indices \subseteq DOMAIN s
  PROVE  /\ At(s, indices) \in Seq(X)
         /\ \E e : Picks(At(s, indices), s, indices, e)
<1> DEFINE f == CHOOSE g : Keeps(s, indices, Len(s), g)
           Upto(n) == indices \cap (1 .. n)
           Good(n) == /\ f[n] \in Seq(X)
                      /\ \E e : Picks(f[n], s, Upto(n), e)
           G == {n \in Nat : n <= Len(s) => Good(n)}
<1>1. Len(s) \in Nat /\ DOMAIN s = 1 .. Len(s)
  OBVIOUS
<1>2. Keeps(s, indices, Len(s), f)
  BY <1>1, KeepsExists
<1> HIDE DEF f
<1>3. \A n \in 0 .. Len(s) : f[n] = KeptStep(s, indices, f, n)
  BY <1>2 DEF Keeps
<1>4. 0 \in G
  <2>1. f[0] = << >>
    BY <1>1, <1>3 DEF KeptStep
  <2>2. Upto(0) = {}
    OBVIOUS
  <2>3. Picks(<< >>, s, {}, << >>)
    BY DEF Picks
  <2>4. Good(0)
    <3> HIDE DEF Upto
    <3>1. Picks(f[0], s, Upto(0), << >>)
      BY <2>1, <2>2, <2>3
    <3>2. f[0] \in Seq(X)
      BY <2>1
    <3> QED BY <3>1, <3>2
  <2> QED BY <2>4
<1>5. ASSUME NEW n \in Nat, n \in G PROVE n + 1 \in G
  <2> SUFFICES ASSUME n + 1 <= Len(s)
               PROVE  Good(n + 1)
    <3> HIDE DEF Good
    <3> QED OBVIOUS
  <2>1. Good(n)
    <3> HIDE DEF Good
    <3> QED BY <1>1, <1>5
  <2>2. n + 1 \in 1 .. Len(s) /\ n + 1 \in 0 .. Len(s) /\ n + 1 # 0 /\ (n + 1) - 1 = n
    BY <1>1
  <2>3. f[n + 1] = IF n + 1 \in indices THEN Append(f[n], s[n + 1]) ELSE f[n]
    BY <2>2, <1>3 DEF KeptStep
  <2>4. CASE n + 1 \in indices
    <3>1. Upto(n) \cup {n + 1} = Upto(n + 1) /\ Upto(n) \subseteq 1 .. (n + 1) - 1
      BY <2>2, <2>4
    <3>2. PICK e : Picks(f[n], s, Upto(n), e)
      BY <2>1
    <3> HIDE DEF Upto
    <3>3. /\ Append(f[n], s[n + 1]) \in Seq(X)
          /\ \E d : Picks(Append(f[n], s[n + 1]), s, Upto(n) \cup {n + 1}, d)
      BY <2>1, <2>2, <3>1, <3>2, PicksOneMore
    <3> QED BY <2>3, <2>4, <3>1, <3>3
  <2>5. CASE n + 1 \notin indices
    <3>1. Upto(n) = Upto(n + 1)
      BY <2>2, <2>5
    <3> HIDE DEF Upto
    <3> QED BY <2>1, <2>3, <2>5, <3>1
  <2> QED BY <2>4, <2>5
<1>6. Len(s) \in G
  <2> HIDE DEF G
  <2> QED BY <1>1, <1>4, <1>5, NatSetInduction
<1>7. Upto(Len(s)) = indices
  BY <1>1
<1>8. At(s, indices) = f[Len(s)]
  BY AtIs DEF f
<1>9. Good(Len(s))
  <2> HIDE DEF Good
  <2> QED BY <1>1, <1>6
<1> HIDE DEF Upto
<1> QED BY <1>7, <1>8, <1>9

\* What is left of a sequence at some indices.
LEMMA RangeAt ==
  ASSUME NEW X, NEW s \in Seq(X), NEW indices, indices \subseteq DOMAIN s
  PROVE  At(s, indices) \in Seq(X) /\ Range(At(s, indices)) = {s[i] : i \in indices}
<1> DEFINE t == At(s, indices)
<1>1. t \in Seq(X)
  BY AtPicks
<1>2. PICK e : Picks(t, s, indices, e)
  BY AtPicks
<1> HIDE DEF t
<1>3. \A k \in DOMAIN t : e[k] \in indices /\ t[k] = s[e[k]]
  BY <1>2 DEF Picks
<1>4. \A i \in indices : \E k \in DOMAIN t : t[k] = s[i]
  BY <1>2, <1>3 DEF Picks
<1>5. Range(t) = {s[i] : i \in indices}
  <2>1. Range(t) \subseteq {s[i] : i \in indices}
    BY <1>3 DEF Range
  <2>2. {s[i] : i \in indices} \subseteq Range(t)
    BY <1>4 DEF Range
  <2> QED BY <2>1, <2>2
<1> QED BY <1>1, <1>5 DEF t

-----------------------------------------------------------------------------
(* sort                                                                     *)
\* R compares any two elements of S, as a stable sort's comparison of indices does.
Sorts(S, R) ==
    /\ \A a, b \in S : a # b => <<a, b>> \in R \/ <<b, a>> \in R
    /\ \A a, b, c \in S : <<a, b>> \in R /\ <<b, c>> \in R => <<a, c>> \in R

IsLast(T, R, b) == b \in T /\ \A x \in T \ {b} : <<x, b>> \in R

\* A finite set that R orders has a last element.
LEMMA LastExists ==
  ASSUME NEW S, IsFiniteSet(S), NEW R, Sorts(S, R), S # {}
  PROVE  \E b \in S : IsLast(S, R, b)
<1> DEFINE G == {T \in SUBSET S : T # {} => \E b \in T : IsLast(T, R, b)}
<1>1. \A T \in SUBSET S : (\A x \in T : T \ {x} \in G) => T \in G
  <2> SUFFICES ASSUME NEW T \in SUBSET S, \A x \in T : T \ {x} \in G, T # {}
               PROVE  \E b \in T : IsLast(T, R, b)
    OBVIOUS
  <2>1. PICK y \in T : TRUE
    OBVIOUS
  <2>2. CASE T \ {y} = {}
    <3>1. IsLast(T, R, y)
      BY <2>1, <2>2 DEF IsLast
    <3> QED BY <2>1, <3>1
  <2>3. CASE T \ {y} # {}
    <3>1. PICK c \in T \ {y} : IsLast(T \ {y}, R, c)
      BY <2>1, <2>3
    <3>2. c \in S /\ y \in S /\ c # y
      BY <2>1, <3>1
    <3>3. CASE <<c, y>> \in R
      <4>1. \A x \in T \ {y} : <<x, y>> \in R
        BY <2>1, <3>1, <3>2, <3>3 DEF IsLast, Sorts
      <4> QED BY <2>1, <4>1 DEF IsLast
    <3>4. CASE <<y, c>> \in R
      <4>1. \A x \in T \ {c} : <<x, c>> \in R
        BY <2>1, <3>1, <3>2, <3>4 DEF IsLast
      <4> QED BY <3>1, <4>1 DEF IsLast
    <3> QED BY <3>2, <3>3, <3>4 DEF Sorts
  <2> QED BY <2>2, <2>3
<1>2. S \in G
  <2> HIDE DEF G
  <2> QED BY <1>1, SetInduction
<1> QED BY <1>2

\* A sequence of the elements of S, each once, in the order of R.
Lines(S, R, p) ==
    /\ p \in [1 .. Cardinality(S) -> S]
    /\ \A i, j \in 1 .. Cardinality(S) : p[i] = p[j] => i = j
    /\ \A i, j \in 1 .. Cardinality(S) : i < j => <<p[i], p[j]>> \in R

\* Any finite set has one: its last element after the others.
LEMMA LinesExist ==
  ASSUME NEW S, IsFiniteSet(S), NEW R, Sorts(S, R)
  PROVE  \E p : Lines(S, R, p)
<1> DEFINE G == {T \in SUBSET S : \E p : Lines(T, R, p)}
<1>1. \A T \in SUBSET S : (\A x \in T : T \ {x} \in G) => T \in G
  <2> SUFFICES ASSUME NEW T \in SUBSET S, \A x \in T : T \ {x} \in G
               PROVE  \E p : Lines(T, R, p)
    OBVIOUS
  <2>1. IsFiniteSet(T)
    BY FS_Subset
  <2>2. CASE T = {}
    <3>1. Cardinality(T) = 0
      BY <2>2, FS_EmptySet
    <3>2. Lines(T, R, [i \in 1 .. 0 |-> i])
      BY <2>2, <3>1 DEF Lines
    <3> QED BY <3>2
  <2>3. CASE T # {}
    <3>1. Sorts(T, R)
      BY DEF Sorts
    <3>2. PICK b \in T : IsLast(T, R, b)
      BY <2>1, <2>3, <3>1, LastExists
    <3>3. PICK q : Lines(T \ {b}, R, q)
      BY <3>2
    <3> DEFINE n == Cardinality(T)
               p == [i \in 1 .. n |-> IF i = n THEN b ELSE q[i]]
    <3>4. n \in Nat /\ n # 0 /\ Cardinality(T \ {b}) = n - 1
      BY <2>1, <2>3, <3>2, FS_RemoveElement, FS_CardinalityType, FS_EmptySet
    <3> HIDE DEF n
    <3>5. \A i \in 1 .. n : i # n => i \in 1 .. n - 1
      BY <3>4
    <3>6. \A i \in 1 .. n - 1 : q[i] \in T \ {b} /\ p[i] = q[i]
      <4>1. \A i \in 1 .. n - 1 : q[i] \in T \ {b}
        BY <3>3, <3>4 DEF Lines
      <4>2. \A i \in 1 .. n - 1 : i \in 1 .. n /\ i # n
        BY <3>4
      <4> QED BY <4>1, <4>2
    <3>7. p[n] = b
      BY <3>4
    <3>8. p \in [1 .. n -> T]
      BY <3>3, <3>4, <3>5 DEF Lines
    <3> HIDE DEF p
    <3>9. \A i, j \in 1 .. n : p[i] = p[j] => i = j
      BY <3>3, <3>4, <3>5, <3>6, <3>7 DEF Lines
    <3>10. \A i, j \in 1 .. n : i < j => <<p[i], p[j]>> \in R
      <4> SUFFICES ASSUME NEW i \in 1 .. n, NEW j \in 1 .. n, i < j
                   PROVE  <<p[i], p[j]>> \in R
        OBVIOUS
      <4>1. i \in 1 .. n - 1
        BY <3>4
      <4>2. CASE j = n
        BY <4>1, <4>2, <3>2, <3>6, <3>7 DEF IsLast
      <4>3. CASE j # n
        <5>1. j \in 1 .. n - 1
          BY <4>3, <3>5
        <5> QED BY <4>1, <5>1, <3>3, <3>4, <3>6 DEF Lines
      <4> QED BY <4>2, <4>3
    <3>11. Lines(T, R, p)
      BY <3>8, <3>9, <3>10 DEF Lines, n
    <3> QED BY <3>11
  <2> QED BY <2>2, <2>3
<1>2. S \in G
  <2> HIDE DEF G
  <2> QED BY <1>1, SetInduction
<1> QED BY <1>2

\* A finite set is enumerated in order, each element once.
LEMMA AlongLines ==
  ASSUME NEW S, IsFiniteSet(S), NEW R, Sorts(S, R)
  PROVE  /\ Along(S, R) \in Seq(S)
         /\ Lines(S, R, Along(S, R))
         /\ DOMAIN Along(S, R) = 1 .. Cardinality(S)
         /\ \A x \in S : \E i \in DOMAIN Along(S, R) : Along(S, R)[i] = x
<1>1. Cardinality(S) \in Nat
  BY FS_CardinalityType
<1>2. \A p : Lines(S, R, p)
        <=> /\ p \in SetToSeqs(S)
            /\ \A i, j \in DOMAIN p : i < j => <<p[i], p[j]>> \in R
  BY DEF Lines, SetToSeqs
<1> DEFINE p == Along(S, R)
<1>3. Lines(S, R, p)
  <2>1. PICK q : Lines(S, R, q)
    BY LinesExist
  <2> QED BY <2>1, <1>2 DEF Along
<1> HIDE DEF p
<1>4. p \in [1 .. Cardinality(S) -> S]
  BY <1>3 DEF Lines
<1>5. p \in Seq(S)
  BY <1>1, <1>4
<1>6. p \in Injection(1 .. Cardinality(S), S)
  BY <1>3 DEF Lines, Injection, IsInjective
<1>7. Cardinality(1 .. Cardinality(S)) = Cardinality(S)
  BY <1>1, FS_Interval
<1>8. p \in Surjection(1 .. Cardinality(S), S)
  BY <1>6, <1>7, FS_Injection
<1>9. \A x \in S : \E i \in 1 .. Cardinality(S) : p[i] = x
  BY <1>8 DEF Surjection
<1> QED BY <1>3, <1>4, <1>5, <1>9 DEF p

\* t has the elements of s, each as often, in the order of R: its i-th stood at order[i].
Orders(t, s, R, order) ==
    /\ DOMAIN t = DOMAIN s
    /\ order \in [DOMAIN s -> DOMAIN s]
    /\ \A i \in DOMAIN s : t[i] = s[order[i]]
    /\ \A k \in DOMAIN s : \E i \in DOMAIN s : order[i] = k
    /\ \A i, j \in DOMAIN s : order[i] = order[j] => i = j
    /\ \A i, j \in DOMAIN s : i < j => <<order[i], order[j]>> \in R

LEMMA SetToSeqIs ==
  ASSUME NEW S, IsFiniteSet(S)
  PROVE  /\ Cardinality(S) \in Nat
         /\ SetToSeq(S) \in [1 .. Cardinality(S) -> S]
<1>1. PICK p : Lines(S, S \X S, p)
  <2>1. Sorts(S, S \X S)
    BY DEF Sorts
  <2> QED BY <2>1, LinesExist
<1>2. p \in [1 .. Cardinality(S) -> S] /\ IsInjective(p)
  BY <1>1 DEF Lines, IsInjective
<1>3. Cardinality(S) \in Nat
  BY FS_CardinalityType
<1> QED BY <1>2, <1>3 DEF SetToSeq

\* A sort is a permutation in the order of the relation.
LEMMA SortIs ==
  ASSUME NEW X, NEW s \in Seq(X), NEW R, Sorts(DOMAIN s, R)
  PROVE  /\ Sorted(s, R) \in Seq(X)
         /\ Orders(Sorted(s, R), s, R, Along(DOMAIN s, R))
<1> DEFINE D == DOMAIN s
           order == Along(D, R)
           t == Sorted(s, R)
<1>1. D = 1 .. Len(s) /\ Len(s) \in Nat /\ \A i \in D : s[i] \in X
  OBVIOUS
<1>2. IsFiniteSet(D) /\ Cardinality(D) = Len(s)
  BY <1>1, FS_Interval
<1>3. t = [i \in D |-> s[order[i]]]
  BY DEF Sorted
<1> HIDE DEF t, D, order
<1>4. /\ Lines(D, R, order) /\ \A x \in D : \E i \in DOMAIN order : order[i] = x
      /\ DOMAIN order = 1 .. Cardinality(D)
  BY <1>2, AlongLines DEF D, order
<1>5. /\ order \in [D -> D] /\ \A i, j \in D : i < j => <<order[i], order[j]>> \in R
      /\ \A i, j \in D : order[i] = order[j] => i = j
  BY <1>1, <1>2, <1>4 DEF Lines
<1>6. t \in [D -> X]
  BY <1>1, <1>3, <1>5
<1>7. t \in Seq(X)
  BY <1>1, <1>6
<1>8. DOMAIN t = D /\ \A i \in D : t[i] = s[order[i]]
  BY <1>3
<1>9. \A k \in D : \E i \in D : order[i] = k
  BY <1>4, <1>5
<1> QED BY <1>5, <1>7, <1>8, <1>9 DEF Orders, D, order, t

\* A sort loses nothing.
LEMMA SortedHas ==
  ASSUME NEW s, IsSeq(s), NEW R, Sorts(DOMAIN s, R)
  PROVE  /\ Sorted(s, R) \in Seq(Range(s))
         /\ \A x \in Range(s) : \E i \in DOMAIN Sorted(s, R) : Sorted(s, R)[i] = x
<1> DEFINE t == Sorted(s, R)
<1>1. s \in Seq(Range(s))
  BY DEF IsSeq
<1>2. t \in Seq(Range(s)) /\ Orders(t, s, R, Along(DOMAIN s, R))
  BY <1>1, SortIs
<1> HIDE DEF t
<1>3. \A x \in Range(s) : \E i \in DOMAIN t : t[i] = x
  <2> SUFFICES ASSUME NEW k \in DOMAIN s PROVE \E i \in DOMAIN t : t[i] = s[k]
    BY DEF Range
  <2>1. PICK i \in DOMAIN s : Along(DOMAIN s, R)[i] = k
    BY <1>2 DEF Orders
  <2> QED BY <2>1, <1>2 DEF Orders
<1> QED BY <1>2, <1>3 DEF t

-----------------------------------------------------------------------------
(* flatMap                                                                  *)
\* The recursion behind FlattenSeq, and that it has a solution.
FlatStep(ss, f, i) == IF i = 1 THEN ss[1] ELSE f[i - 1] \o ss[i]

Flattens(ss, m, f) == f = [i \in 1 .. m |-> FlatStep(ss, f, i)]

LEMMA FlatIs ==
  ASSUME NEW ss
  PROVE  FlattenSeq(ss) = IF Len(ss) = 0 THEN ss
                          ELSE (CHOOSE f : Flattens(ss, Len(ss), f))[Len(ss)]
<1> DEFINE Lib(f) == f = [i \in 1 .. Len(ss) |-> IF i = 1 THEN ss[i] ELSE f[i - 1] \o ss[i]]
<1>1. \A f : Lib(f) <=> Flattens(ss, Len(ss), f)
  <2>1. \A f : [i \in 1 .. Len(ss) |-> IF i = 1 THEN ss[i] ELSE f[i - 1] \o ss[i]]
                 = [i \in 1 .. Len(ss) |-> FlatStep(ss, f, i)]
    BY DEF FlatStep
  <2> QED BY <2>1 DEF Flattens
<1>2. (CHOOSE f : Lib(f)) = (CHOOSE f : Flattens(ss, Len(ss), f))
  <2> HIDE DEF Lib
  <2> QED BY <1>1
<1>3. FlattenSeq(ss) = IF Len(ss) = 0 THEN ss ELSE (CHOOSE f : Lib(f))[Len(ss)]
  BY DEF FlattenSeq
<1> HIDE DEF Lib
<1> QED BY <1>2, <1>3

LEMMA FlattensExists ==
  ASSUME NEW ss, NEW m \in Nat
  PROVE  \E f : Flattens(ss, m, f)
<1> DEFINE G == {k \in Nat : \E f : Flattens(ss, k, f)}
<1>1. 0 \in G
  <2>1. Flattens(ss, 0, [n \in 1 .. 0 |-> n])
    BY DEF Flattens, FlatStep
  <2> QED BY <2>1
<1>2. ASSUME NEW k \in Nat, k \in G PROVE k + 1 \in G
  <2>1. PICK f : Flattens(ss, k, f)
    BY <1>2
  <2> DEFINE h == [n \in 1 .. k + 1 |-> FlatStep(ss, f, n)]
  <2>2. \A n \in 1 .. k : h[n] = f[n]
    BY <2>1 DEF Flattens
  <2>3. \A n \in 1 .. k + 1 : FlatStep(ss, h, n) = FlatStep(ss, f, n)
    <3> SUFFICES ASSUME NEW n \in 1 .. k + 1
                 PROVE  FlatStep(ss, h, n) = FlatStep(ss, f, n)
      OBVIOUS
    <3>1. CASE n = 1
      BY <3>1 DEF FlatStep
    <3>2. CASE n # 1
      <4>1. n - 1 \in 1 .. k
        BY <3>2
      <4>2. h[n - 1] = f[n - 1]
        BY <4>1, <2>2
      <4> HIDE DEF h
      <4> QED BY <4>2 DEF FlatStep
    <3> QED BY <3>1, <3>2
  <2>4. h = [n \in 1 .. k + 1 |-> FlatStep(ss, h, n)]
    <3>1. [n \in 1 .. k + 1 |-> FlatStep(ss, h, n)]
            = [n \in 1 .. k + 1 |-> FlatStep(ss, f, n)]
      BY <2>3
    <3> QED BY <3>1
  <2> HIDE DEF h
  <2>5. Flattens(ss, k + 1, h)
    BY <2>4 DEF Flattens
  <2> QED BY <2>5
<1>3. Nat \subseteq G
  <2> HIDE DEF G
  <2> QED BY <1>1, <1>2, NatSetInduction
<1> QED BY <1>3

\* t has the elements of the first n of the sequences and no others.
Collects(t, ss, n) ==
    /\ \A k \in DOMAIN t : \E i \in 1 .. n : \E j \in DOMAIN ss[i] : t[k] = ss[i][j]
    /\ \A i \in 1 .. n : \A j \in DOMAIN ss[i] : \E k \in DOMAIN t : t[k] = ss[i][j]

LEMMA CollectsOneMore ==
  ASSUME NEW X, NEW ss \in Seq(Seq(X)), NEW n \in Nat, n + 1 <= Len(ss),
         NEW t \in Seq(X), Collects(t, ss, n)
  PROVE  t \o ss[n + 1] \in Seq(X) /\ Collects(t \o ss[n + 1], ss, n + 1)
<1> DEFINE s == ss[n + 1]
           u == t \o s
<1>1. n + 1 \in DOMAIN ss
  OBVIOUS
<1>2. s \in Seq(X)
  BY <1>1
<1> HIDE DEF s
<1>3. /\ u \in Seq(X) /\ Len(t) \in Nat /\ Len(s) \in Nat
      /\ DOMAIN t = 1 .. Len(t) /\ DOMAIN s = 1 .. Len(s)
      /\ DOMAIN u = 1 .. Len(t) + Len(s)
      /\ \A k \in 1 .. Len(t) : u[k] = t[k]
  BY <1>2
<1>4. \A k \in DOMAIN s : Len(t) + k \in DOMAIN u /\ u[Len(t) + k] = s[k]
  BY <1>2, <1>3
<1> HIDE DEF u
<1>5. \A k \in DOMAIN u : \/ k \in DOMAIN t
                          \/ k - Len(t) \in DOMAIN s /\ u[k] = s[k - Len(t)]
  <2> SUFFICES ASSUME NEW k \in DOMAIN u, k \notin DOMAIN t
               PROVE  k - Len(t) \in DOMAIN s /\ u[k] = s[k - Len(t)]
    OBVIOUS
  <2>1. k - Len(t) \in DOMAIN s /\ Len(t) + (k - Len(t)) = k
    BY <1>3
  <2> QED BY <2>1, <1>4
<1>6. 1 .. n + 1 = (1 .. n) \cup {n + 1}
  OBVIOUS
<1>7. \A k \in DOMAIN u : \E i \in 1 .. n + 1 : \E j \in DOMAIN ss[i] : u[k] = ss[i][j]
  <2> SUFFICES ASSUME NEW k \in DOMAIN u
               PROVE  \E i \in 1 .. n + 1 : \E j \in DOMAIN ss[i] : u[k] = ss[i][j]
    OBVIOUS
  <2>1. CASE k \in DOMAIN t
    <3>1. u[k] = t[k]
      BY <2>1, <1>3
    <3>2. \E i \in 1 .. n : \E j \in DOMAIN ss[i] : t[k] = ss[i][j]
      BY <2>1 DEF Collects
    <3> QED BY <3>1, <3>2, <1>6
  <2>2. CASE k - Len(t) \in DOMAIN s /\ u[k] = s[k - Len(t)]
    BY <2>2, <1>6 DEF s
  <2> QED BY <2>1, <2>2, <1>5
<1>8. \A i \in 1 .. n + 1 : \A j \in DOMAIN ss[i] : \E k \in DOMAIN u : u[k] = ss[i][j]
  <2> SUFFICES ASSUME NEW i \in 1 .. n + 1, NEW j \in DOMAIN ss[i]
               PROVE  \E k \in DOMAIN u : u[k] = ss[i][j]
    OBVIOUS
  <2>1. CASE i \in 1 .. n
    <3>1. PICK k \in DOMAIN t : t[k] = ss[i][j]
      BY <2>1 DEF Collects
    <3>2. k \in DOMAIN u /\ u[k] = t[k]
      BY <1>3
    <3> QED BY <3>1, <3>2
  <2>2. CASE i = n + 1
    <3>1. j \in DOMAIN s /\ ss[i][j] = s[j]
      BY <2>2 DEF s
    <3> QED BY <3>1, <1>4
  <2> QED BY <2>1, <2>2, <1>6
<1>9. Collects(u, ss, n + 1)
  BY <1>7, <1>8 DEF Collects
<1> QED BY <1>3, <1>9 DEF u, s

\* A flattened sequence has the elements of its parts.
LEMMA FlatCollects ==
  ASSUME NEW X, NEW ss \in Seq(Seq(X))
  PROVE  /\ FlattenSeq(ss) \in Seq(X)
         /\ Collects(FlattenSeq(ss), ss, Len(ss))
<1>1. Len(ss) \in Nat /\ DOMAIN ss = 1 .. Len(ss)
  OBVIOUS
<1>2. CASE Len(ss) = 0
  <2>1. FlattenSeq(ss) = ss
    BY <1>2, FlatIs
  <2>2. ss = << >>
    BY <1>1, <1>2
  <2> QED BY <1>1, <1>2, <2>1, <2>2 DEF Collects
<1>3. CASE Len(ss) # 0
  <2> DEFINE f == CHOOSE g : Flattens(ss, Len(ss), g)
             Good(n) == f[n] \in Seq(X) /\ Collects(f[n], ss, n)
             G == {n \in Nat : n + 1 <= Len(ss) => Good(n + 1)}
  <2>1. Flattens(ss, Len(ss), f)
    BY <1>1, FlattensExists
  <2> HIDE DEF f
  <2>2. \A n \in 1 .. Len(ss) : f[n] = FlatStep(ss, f, n)
    BY <2>1 DEF Flattens
  <2>3. 0 \in G
    <3>1. 1 \in DOMAIN ss
      BY <1>1, <1>3
    <3>2. f[1] = ss[1] /\ ss[1] \in Seq(X)
      BY <1>1, <3>1, <2>2 DEF FlatStep
    <3>3. Collects(ss[1], ss, 1)
      BY <3>2 DEF Collects
    <3>4. Good(1)
      BY <3>2, <3>3
    <3> HIDE DEF Good
    <3> QED BY <3>4
  <2>4. ASSUME NEW n \in Nat, n \in G PROVE n + 1 \in G
    <3> SUFFICES ASSUME (n + 1) + 1 <= Len(ss)
                 PROVE  Good((n + 1) + 1)
      <4> HIDE DEF Good
      <4> QED OBVIOUS
    <3>1. Good(n + 1)
      <4> HIDE DEF Good
      <4> QED BY <1>1, <2>4
    <3>2. /\ (n + 1) + 1 \in 1 .. Len(ss) /\ (n + 1) + 1 # 1 /\ ((n + 1) + 1) - 1 = n + 1
          /\ n + 1 \in Nat
      BY <1>1
    <3>3. f[(n + 1) + 1] = f[n + 1] \o ss[(n + 1) + 1]
      BY <3>2, <2>2 DEF FlatStep
    <3>4. /\ f[n + 1] \o ss[(n + 1) + 1] \in Seq(X)
          /\ Collects(f[n + 1] \o ss[(n + 1) + 1], ss, (n + 1) + 1)
      BY <3>1, <3>2, CollectsOneMore
    <3> QED BY <3>3, <3>4
  <2>5. Nat \subseteq G
    <3> HIDE DEF G
    <3> QED BY <2>3, <2>4, NatSetInduction
  <2>6. Good(Len(ss))
    <3>1. Len(ss) - 1 \in Nat /\ (Len(ss) - 1) + 1 = Len(ss)
      BY <1>1, <1>3
    <3>2. Len(ss) - 1 \in G
      BY <3>1, <2>5
    <3> HIDE DEF Good
    <3> QED BY <3>1, <3>2
  <2>7. FlattenSeq(ss) = f[Len(ss)]
    BY <1>3, FlatIs DEF f
  <2> QED BY <2>6, <2>7
<1> QED BY <1>2, <1>3
=============================================================================
