----------------------------- MODULE FiniteSums -----------------------------
(***************************************************************************)
(* Facts about SumFunctionOnSet, which is defined by recursion on finite   *)
(* sets.  Induction is stated for a set of sets, not for a predicate, so   *)
(* that a proof can use it by name.                                        *)
(***************************************************************************)
EXTENDS Integers, FiniteSets, Functions, FiniteSetTheorems, WellFoundedInduction, TLAPS

\* A set of numbers that is not empty has a least one.
LEMMA LeastOfSet ==
  ASSUME NEW T \in SUBSET Nat, T # {}
  PROVE  \E m \in T : \A k \in T : m <= k
<1> DEFINE R == {ss \in Nat \X Nat : ss[1] < ss[2]}
<1>1. PICK m \in T : \A k \in T : ~ (<<k, m>> \in R)
  <2>1. IsWellFoundedOn(R, Nat)
    BY NatLessThanWellFounded, Zenon DEF OpToRel
  <2> HIDE DEF R
  <2> QED BY <2>1, WFMin
<1>2. ASSUME NEW k \in T PROVE m <= k
  <2>1. k \in Nat /\ m \in Nat /\ <<k, m>> \notin R
    BY <1>1
  <2>2. ~(k < m)
    BY <2>1
  <2> QED BY <2>1, <2>2
<1> QED BY <1>2

\* What holds for no elements, and for a set once it holds for the set without
\* any one of its elements, holds for every finite set.
LEMMA SubsetInduction ==
  ASSUME NEW S, IsFiniteSet(S), NEW P \in SUBSET (SUBSET S),
         {} \in P,
         \A s \in SUBSET S : s # {} /\ (\A x \in s : s \ {x} \in P) => s \in P
  PROVE  P = SUBSET S
<1> DEFINE Bad == (SUBSET S) \ P
           Sizes == {Cardinality(s) : s \in Bad}
<1> SUFFICES ASSUME Bad # {} PROVE FALSE
  OBVIOUS
<1>1. \A s \in SUBSET S : IsFiniteSet(s) /\ Cardinality(s) \in Nat
  BY FS_Subset, FS_CardinalityType
<1>2. Sizes \in SUBSET Nat /\ Sizes # {}
  BY <1>1
<1>3. PICK m \in Sizes : \A k \in Sizes : m <= k
  <2> HIDE DEF Sizes
  <2> QED BY <1>2, LeastOfSet
<1>4. PICK s \in Bad : Cardinality(s) = m
  OBVIOUS
<1>5. s # {}
  OBVIOUS
<1>6. ASSUME NEW x \in s PROVE s \ {x} \in P
  <2>1. Cardinality(s \ {x}) = Cardinality(s) - 1
    BY <1>1, <1>4, FS_RemoveElement
  <2>2. Cardinality(s \ {x}) \in Nat /\ Cardinality(s) \in Nat
    BY <1>1, <1>4
  <2> DEFINE k == Cardinality(s \ {x})
  <2>3. k \in Nat /\ m \in Nat /\ k < m
    BY <1>4, <2>1, <2>2
  <2>4. k \notin Sizes
    <3> HIDE DEF Sizes, k
    <3> QED BY <1>3, <2>3
  <2> QED BY <2>4
<1> QED BY <1>4, <1>5, <1>6

-----------------------------------------------------------------------------
(* The recursion has a solution, and only one.                             *)

Chosen(s) == CHOOSE x \in s : TRUE

SumStep(f, g, s) == IF s = {} THEN 0 ELSE f[Chosen(s)] + g[s \ {Chosen(s)}]

SumsUp(f, S, g) == g = [s \in SUBSET S |-> SumStep(f, g, s)]

LEMMA SumUnfolds ==
  ASSUME NEW f, NEW S
  PROVE  SumFunctionOnSet(f, S) = (CHOOSE g : SumsUp(f, S, g))[S]
BY DEF SumFunctionOnSet, FoldFunctionOnSet, MapThenFoldSet, SumsUp, SumStep, Chosen

LEMMA ChosenIn == ASSUME NEW s, s # {} PROVE Chosen(s) \in s
BY DEF Chosen

LEMMA SumsAgree ==
  ASSUME NEW f, NEW S, IsFiniteSet(S), NEW T, S \subseteq T,
         NEW g, SumsUp(f, S, g), NEW h, SumsUp(f, T, h)
  PROVE  \A s \in SUBSET S : g[s] = h[s]
<1> DEFINE P == {s \in SUBSET S : g[s] = h[s]}
<1>0. \A s \in SUBSET S : g[s] = SumStep(f, g, s) /\ h[s] = SumStep(f, h, s)
  BY DEF SumsUp
<1>1. {} \in P
  BY <1>0 DEF SumStep
<1>2. ASSUME NEW s \in SUBSET S, s # {}, \A x \in s : s \ {x} \in P PROVE s \in P
  BY <1>0, <1>2, ChosenIn DEF SumStep
<1>3. P = SUBSET S
  <2>1. P \in SUBSET (SUBSET S)
    OBVIOUS
  <2> HIDE DEF P
  <2> QED BY <1>1, <1>2, <2>1, SubsetInduction
<1> QED BY <1>3

LEMMA SumsExist ==
  ASSUME NEW D, NEW f \in [D -> Nat], NEW S \in SUBSET D, IsFiniteSet(S)
  PROVE  \E g \in [SUBSET S -> Nat] : SumsUp(f, S, g)
<1> DEFINE Solved(s) == \E g \in [SUBSET s -> Nat] : SumsUp(f, s, g)
           Of(s) == CHOOSE g \in [SUBSET s -> Nat] : SumsUp(f, s, g)
           P == {s \in SUBSET S : Solved(s)}
<1>1. {} \in P
  <2> DEFINE g == [s \in SUBSET {} |-> 0]
  <2>1. g \in [SUBSET {} -> Nat] /\ SumsUp(f, {}, g)
    BY DEF SumsUp, SumStep
  <2> QED BY <2>1
<1>2. ASSUME NEW s \in SUBSET S, s # {}, \A x \in s : s \ {x} \in P PROVE s \in P
  <2>1. ASSUME NEW t \in SUBSET s, t # s PROVE Solved(t)
    <3>1. PICK x \in s : x \notin t
      BY <2>1
    <3>2. PICK g \in [SUBSET (s \ {x}) -> Nat] : SumsUp(f, s \ {x}, g)
      BY <1>2
    <3> DEFINE h == [u \in SUBSET t |-> g[u]]
    <3>3. SUBSET t \subseteq SUBSET (s \ {x})
      BY <3>1
    <3>4. h \in [SUBSET t -> Nat]
      BY <3>3
    <3>5. \A u \in SUBSET t : h[u] = SumStep(f, h, u)
      BY <3>2, <3>3, ChosenIn DEF SumsUp, SumStep
    <3>6. SumsUp(f, t, h)
      BY <3>5 DEF SumsUp
    <3> QED BY <3>4, <3>6
  <2>2. \A t \in SUBSET s : t # s => Of(t) \in [SUBSET t -> Nat] /\ SumsUp(f, t, Of(t))
    BY <2>1
  <2> DEFINE c == Chosen(s)
             G == [t \in SUBSET s |-> IF t = s THEN f[c] + Of(s \ {c})[s \ {c}] ELSE Of(t)[t]]
  <2>3. c \in s /\ s \ {c} \in SUBSET s /\ s \ {c} # s
    BY <1>2, ChosenIn
  <2>4. G \in [SUBSET s -> Nat]
    <3>1. \A t \in SUBSET s : t # s => Of(t)[t] \in Nat
      <4> HIDE DEF Of
      <4> QED BY ZenonT(60), <2>2
    <3> HIDE DEF Of, c
    <3>2. f[c] \in Nat
      BY <2>3
    <3>3. f[c] + Of(s \ {c})[s \ {c}] \in Nat
      BY <2>3, <3>1, <3>2
    <3> QED BY <3>1, <3>3
  <2>5. ASSUME NEW t \in SUBSET s PROVE G[t] = SumStep(f, G, t)
    <3> HIDE DEF Of
    <3>1. CASE t = s
      BY <3>1, <1>2, <2>3 DEF SumStep
    <3>2. CASE t # s /\ t = {}
      BY <2>2, <3>2 DEF SumsUp, SumStep
    <3>3. CASE t # s /\ t # {}
      <4> DEFINE d == Chosen(t)
                 u == t \ {d}
      <4>1. d \in t /\ u \in SUBSET s /\ u # s /\ u \subseteq t
        BY <3>3, ChosenIn
      <4>2. Of(t)[t] = f[d] + Of(t)[u]
        BY <2>2, <3>3 DEF SumsUp, SumStep
      <4>3. Of(u)[u] = Of(t)[u]
        <5>1. IsFiniteSet(u)
          BY <4>1, FS_Subset
        <5>2. SumsUp(f, u, Of(u)) /\ SumsUp(f, t, Of(t))
          BY <2>2, <4>1, <3>3
        <5> HIDE DEF u
        <5> QED BY <5>1, <5>2, <4>1, SumsAgree
      <4> HIDE DEF d, u
      <4>4. G[t] = f[d] + G[u]
        BY <3>3, <4>1, <4>2, <4>3
      <4> QED BY <4>4, <3>3 DEF SumStep, d, u
    <3> QED BY <3>1, <3>2, <3>3
  <2>6. SumsUp(f, s, G)
    <3> HIDE DEF Of
    <3> QED BY <2>5 DEF SumsUp
  <2> HIDE DEF G
  <2> QED BY <2>4, <2>6
<1>3. P = SUBSET S
  <2>1. P \in SUBSET (SUBSET S)
    OBVIOUS
  <2> HIDE DEF P
  <2> QED BY <1>1, <1>2, <2>1, SubsetInduction
<1> QED BY <1>3

-----------------------------------------------------------------------------
(* What the proofs use.                                                    *)

\* The sum over S is the value at S of any solution.
LEMMA SumIsSolution ==
  ASSUME NEW D, NEW f \in [D -> Nat], NEW S \in SUBSET D, IsFiniteSet(S),
         NEW T \in SUBSET S, NEW g, SumsUp(f, S, g)
  PROVE  SumFunctionOnSet(f, T) = g[T] /\ SumFunctionOnSet(f, T) \in Nat
<1>1. IsFiniteSet(T) /\ T \in SUBSET D
  BY FS_Subset
<1>2. PICK h \in [SUBSET T -> Nat] : SumsUp(f, T, h)
  BY <1>1, SumsExist
<1> DEFINE k == CHOOSE k : SumsUp(f, T, k)
<1>3. SumsUp(f, T, k)
  BY <1>2
<1> HIDE DEF k
<1>4. k[T] = h[T] /\ k[T] = g[T]
  BY <1>1, <1>2, <1>3, SumsAgree
<1>5. SumFunctionOnSet(f, T) = k[T]
  BY SumUnfolds DEF k
<1> QED BY <1>2, <1>4, <1>5

\* A sum of naturals is a natural, and the empty sum is 0.
LEMMA SumType ==
  ASSUME NEW D, NEW f \in [D -> Nat], NEW S \in SUBSET D, IsFiniteSet(S)
  PROVE  SumFunctionOnSet(f, S) \in Nat /\ SumFunctionOnSet(f, {}) = 0
<1>1. PICK g \in [SUBSET S -> Nat] : SumsUp(f, S, g)
  BY SumsExist
<1>2. g[{}] = 0
  BY <1>1 DEF SumsUp, SumStep
<1> QED BY <1>1, <1>2, SumIsSolution

LEMMA SumOfChosen ==
  ASSUME NEW D, NEW f \in [D -> Nat], NEW S \in SUBSET D, IsFiniteSet(S), S # {}
  PROVE  SumFunctionOnSet(f, S) = f[Chosen(S)] + SumFunctionOnSet(f, S \ {Chosen(S)})
<1>1. PICK g \in [SUBSET S -> Nat] : SumsUp(f, S, g)
  BY SumsExist
<1>2. g[S] = f[Chosen(S)] + g[S \ {Chosen(S)}]
  BY <1>1 DEF SumsUp, SumStep
<1>3. S \ {Chosen(S)} \in SUBSET S /\ S \in SUBSET S
  OBVIOUS
<1> QED BY <1>1, <1>2, <1>3, SumIsSolution

\* The order of summation does not matter: any element can be taken out.
LEMMA SumWithout ==
  ASSUME NEW D, NEW f \in [D -> Nat], NEW S \in SUBSET D, IsFiniteSet(S), NEW x \in S
  PROVE  SumFunctionOnSet(f, S) = f[x] + SumFunctionOnSet(f, S \ {x})
<1> DEFINE Sum(s) == SumFunctionOnSet(f, s)
           P == {s \in SUBSET S : \A y \in s : Sum(s) = f[y] + Sum(s \ {y})}
<1>0. \A s \in SUBSET S : IsFiniteSet(s) /\ s \in SUBSET D /\ Sum(s) \in Nat
  BY FS_Subset, SumType
<1>1. {} \in P
  OBVIOUS
<1>2. ASSUME NEW s \in SUBSET S, s # {}, \A y \in s : s \ {y} \in P PROVE s \in P
  <2> SUFFICES ASSUME NEW y \in s PROVE Sum(s) = f[y] + Sum(s \ {y})
    OBVIOUS
  <2> DEFINE c == Chosen(s)
  <2>1. c \in s /\ Sum(s) = f[c] + Sum(s \ {c})
    BY <1>0, <1>2, ChosenIn, SumOfChosen
  <2> HIDE DEF c
  <2>2. CASE y = c
    BY <2>1, <2>2
  <2>3. CASE y # c
    <3> DEFINE e == s \ {c, y}
    <3>1. s \ {c} \in P /\ s \ {y} \in P /\ y \in s \ {c} /\ c \in s \ {y}
      BY <1>2, <2>1, <2>3
    <3>2. (s \ {c}) \ {y} = e /\ (s \ {y}) \ {c} = e /\ e \in SUBSET S
      OBVIOUS
    <3>3. Sum(s \ {c}) = f[y] + Sum(e) /\ Sum(s \ {y}) = f[c] + Sum(e)
      BY <3>1, <3>2
    <3>4. f[c] \in Nat /\ f[y] \in Nat /\ Sum(e) \in Nat
      BY <1>0, <2>1, <3>2
    <3> HIDE DEF Sum, e
    <3> QED BY <2>1, <3>3, <3>4
  <2> QED BY <2>2, <2>3
<1>3. P = SUBSET S
  <2>1. P \in SUBSET (SUBSET S)
    OBVIOUS
  <2> HIDE DEF P
  <2> QED BY <1>1, <1>2, <2>1, SubsetInduction
<1> QED BY <1>3

LEMMA SumWith ==
  ASSUME NEW D, NEW f \in [D -> Nat], NEW S \in SUBSET D, IsFiniteSet(S), NEW x \in D \ S
  PROVE  SumFunctionOnSet(f, S \cup {x}) = SumFunctionOnSet(f, S) + f[x]
<1>1. IsFiniteSet(S \cup {x}) /\ S \cup {x} \in SUBSET D /\ (S \cup {x}) \ {x} = S
  BY FS_AddElement
<1>2. SumFunctionOnSet(f, S) \in Nat /\ f[x] \in Nat
  BY SumType
<1>3. SumFunctionOnSet(f, S \cup {x}) = f[x] + SumFunctionOnSet(f, S)
  BY <1>1, SumWithout
<1> QED BY <1>2, <1>3

\* A sum of larger numbers is larger.
LEMMA SumMonotone ==
  ASSUME NEW D, NEW f \in [D -> Nat], NEW g \in [D -> Nat], NEW S \in SUBSET D, IsFiniteSet(S),
         \A x \in S : f[x] <= g[x]
  PROVE  SumFunctionOnSet(f, S) <= SumFunctionOnSet(g, S)
<1> DEFINE P == {s \in SUBSET S : SumFunctionOnSet(f, s) <= SumFunctionOnSet(g, s)}
<1>0. \A s \in SUBSET S : /\ IsFiniteSet(s) /\ s \in SUBSET D
                          /\ SumFunctionOnSet(f, s) \in Nat /\ SumFunctionOnSet(g, s) \in Nat
  BY FS_Subset, SumType
<1>1. {} \in P
  <2>1. SumFunctionOnSet(f, {}) = 0 /\ SumFunctionOnSet(g, {}) = 0
    BY SumType
  <2> QED BY <2>1
<1>2. ASSUME NEW s \in SUBSET S, s # {}, \A y \in s : s \ {y} \in P PROVE s \in P
  <2>1. PICK y \in s : TRUE
    BY <1>2
  <2>2. /\ SumFunctionOnSet(f, s) = f[y] + SumFunctionOnSet(f, s \ {y})
        /\ SumFunctionOnSet(g, s) = g[y] + SumFunctionOnSet(g, s \ {y})
    BY <1>0, SumWithout
  <2>3. SumFunctionOnSet(f, s \ {y}) <= SumFunctionOnSet(g, s \ {y})
    BY <1>2
  <2>4. f[y] \in Nat /\ g[y] \in Nat /\ f[y] <= g[y]
    OBVIOUS
  <2>5. SumFunctionOnSet(f, s \ {y}) \in Nat /\ SumFunctionOnSet(g, s \ {y}) \in Nat
    BY <1>0
  <2> QED BY <2>2, <2>3, <2>4, <2>5
<1>3. P = SUBSET S
  <2>1. P \in SUBSET (SUBSET S)
    OBVIOUS
  <2> HIDE DEF P
  <2> QED BY <1>1, <1>2, <2>1, SubsetInduction
<1> QED BY <1>3

\* When one number changes, the sum changes by as much.
LEMMA SumChanged ==
  ASSUME NEW D, IsFiniteSet(D), NEW f \in [D -> Nat], NEW g \in [D -> Nat], NEW x \in D,
         \A y \in D : y # x => g[y] = f[y]
  PROVE  SumFunctionOnSet(g, D) + f[x] = SumFunctionOnSet(f, D) + g[x]
<1> DEFINE R == D \ {x}
<1>1. R \in SUBSET D /\ IsFiniteSet(R)
  BY FS_RemoveElement
<1>2. SumFunctionOnSet(f, R) \in Nat /\ SumFunctionOnSet(g, R) \in Nat
  BY <1>1, SumType
<1>3. SumFunctionOnSet(f, R) <= SumFunctionOnSet(g, R)
  <2>1. \A y \in R : f[y] <= g[y]
    OBVIOUS
  <2> QED BY <1>1, <2>1, SumMonotone
<1>4. SumFunctionOnSet(g, R) <= SumFunctionOnSet(f, R)
  <2>1. \A y \in R : g[y] <= f[y]
    OBVIOUS
  <2> QED BY <1>1, <2>1, SumMonotone
<1>5. /\ SumFunctionOnSet(f, D) = f[x] + SumFunctionOnSet(f, R)
      /\ SumFunctionOnSet(g, D) = g[x] + SumFunctionOnSet(g, R)
  BY SumWithout
<1>6. f[x] \in Nat /\ g[x] \in Nat
  OBVIOUS
<1> HIDE DEF R
<1> QED BY <1>2, <1>3, <1>4, <1>5, <1>6

\* A sum over fewer elements is no larger.
LEMMA SumOfFewer ==
  ASSUME NEW D, NEW f \in [D -> Nat], NEW S \in SUBSET D, IsFiniteSet(S), NEW T \in SUBSET S
  PROVE  SumFunctionOnSet(f, T) <= SumFunctionOnSet(f, S)
<1> DEFINE P == {s \in SUBSET S : \A t \in SUBSET s : SumFunctionOnSet(f, t) <= SumFunctionOnSet(f, s)}
<1>0. \A s \in SUBSET S : IsFiniteSet(s) /\ s \in SUBSET D /\ SumFunctionOnSet(f, s) \in Nat
  BY FS_Subset, SumType
<1>1. {} \in P
  BY <1>0
<1>2. ASSUME NEW s \in SUBSET S, s # {}, \A y \in s : s \ {y} \in P PROVE s \in P
  <2> SUFFICES ASSUME NEW t \in SUBSET s PROVE SumFunctionOnSet(f, t) <= SumFunctionOnSet(f, s)
    OBVIOUS
  <2>1. CASE t = s
    BY <1>0, <2>1
  <2>2. CASE t # s
    <3>1. PICK y \in s : y \notin t
      BY <2>2
    <3>2. SumFunctionOnSet(f, t) <= SumFunctionOnSet(f, s \ {y})
      BY <1>2, <3>1
    <3>3. SumFunctionOnSet(f, s) = f[y] + SumFunctionOnSet(f, s \ {y})
      BY <1>0, SumWithout
    <3>4. /\ f[y] \in Nat /\ SumFunctionOnSet(f, s \ {y}) \in Nat
          /\ SumFunctionOnSet(f, t) \in Nat
      BY <1>0
    <3> QED BY <3>2, <3>3, <3>4
  <2> QED BY <2>1, <2>2
<1>3. P = SUBSET S
  <2>1. P \in SUBSET (SUBSET S)
    OBVIOUS
  <2> HIDE DEF P
  <2> QED BY <1>1, <1>2, <2>1, SubsetInduction
<1> QED BY <1>3

\* A sum of zeros is 0.
LEMMA SumOfZeros ==
  ASSUME NEW D, NEW f \in [D -> Nat], IsFiniteSet(D), \A x \in D : f[x] = 0
  PROVE  SumFunctionOnSet(f, D) = 0
<1> DEFINE P == {s \in SUBSET D : SumFunctionOnSet(f, s) = 0}
<1>0. \A s \in SUBSET D : IsFiniteSet(s)
  BY FS_Subset
<1>1. {} \in P
  BY <1>0, SumType
<1>2. ASSUME NEW s \in SUBSET D, s # {}, \A x \in s : s \ {x} \in P PROVE s \in P
  <2>1. PICK x \in s : TRUE
    BY <1>2
  <2>2. SumFunctionOnSet(f, s) = f[x] + SumFunctionOnSet(f, s \ {x})
    BY <1>0, SumWithout
  <2>3. SumFunctionOnSet(f, s \ {x}) = 0 /\ f[x] = 0
    BY <1>2
  <2> QED BY <2>2, <2>3
<1>3. P = SUBSET D
  <2>1. P \in SUBSET (SUBSET D)
    OBVIOUS
  <2> HIDE DEF P
  <2> QED BY <1>1, <1>2, <2>1, SubsetInduction
<1> QED BY <1>3
=============================================================================
