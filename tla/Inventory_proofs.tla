--------------------------- MODULE Inventory_proofs ---------------------------
(***************************************************************************)
(* What a character carries, for any items, stack sizes, slots, bags and   *)
(* vaults; and what two players trade of it, for any players, windows and  *)
(* coin.                                                                   *)
(***************************************************************************)
EXTENDS Inventory, Trade, FiniteSetTheorems, WellFoundedInduction, TLAPS

-----------------------------------------------------------------------------
(* Induction, and folds over finite sets *)

\* A set of naturals that is not empty has a least element.
LEMMA LeastMember ==
  ASSUME NEW T \in SUBSET Nat, T # {}
  PROVE  \E x \in T : \A y \in T : x <= y
<1> DEFINE R == {ss \in Nat \X Nat : ss[1] < ss[2]}
<1>1. IsWellFoundedOn(R, Nat)
  BY NatLessThanWellFounded DEF OpToRel
<1> HIDE DEF R
<1>2. PICK x \in T : \A y \in T : ~ (<<y, x>> \in R)
  BY <1>1, WFMin
<1>3. \A y \in T : ~ (y < x)
  BY <1>2 DEF R
<1> QED
  BY <1>3

\* Induction over the naturals, for a set in place of a predicate.
LEMMA Induction ==
  ASSUME NEW T, 0 \in T, \A n \in Nat : n \in T => n + 1 \in T
  PROVE  Nat \subseteq T
<1> DEFINE M == {n \in Nat : n \notin T}
<1> SUFFICES ASSUME M # {} PROVE FALSE
  OBVIOUS
<1>1. PICK m \in M : \A y \in M : m <= y
  BY LeastMember
<1>2. m # 0 /\ m - 1 \in Nat /\ m - 1 \notin M
  BY <1>1
<1> QED
  BY <1>1, <1>2

\* Taking an element out of a subset of a finite set.
LEMMA Smaller ==
  ASSUME NEW S, IsFiniteSet(S), NEW s \in SUBSET S
  PROVE  /\ Cardinality(s) \in Nat
         /\ s = {} <=> Cardinality(s) = 0
         /\ \A x \in s : Cardinality(s \ {x}) = Cardinality(s) - 1
BY FS_Subset, FS_CardinalityType, FS_EmptySet, FS_RemoveElement

\* Induction over the subsets of a finite set.
LEMMA SubsetInduction ==
  ASSUME NEW S, IsFiniteSet(S), NEW T, {} \in T,
         \A s \in SUBSET S : s # {} /\ (\A x \in s : s \ {x} \in T) => s \in T
  PROVE  SUBSET S \subseteq T
<1> DEFINE P(n) == \A s \in SUBSET S : Cardinality(s) = n => s \in T
           N == {n \in Nat : P(n)}
<1>1. P(0)
  BY Smaller
<1>2. ASSUME NEW n \in Nat, P(n)
      PROVE  P(n + 1)
  <2> SUFFICES ASSUME NEW s \in SUBSET S, Cardinality(s) = n + 1
               PROVE  s \in T
    OBVIOUS
  <2>1. s # {}
    BY Smaller
  <2>2. ASSUME NEW x \in s
        PROVE  s \ {x} \in T
    <3>1. s \ {x} \in SUBSET S /\ Cardinality(s \ {x}) = n
      BY Smaller
    <3> QED
      BY <1>2, <3>1
  <2> QED
    BY <2>1, <2>2
<1> HIDE DEF P
<1>3. 0 \in N /\ \A n \in Nat : n \in N => n + 1 \in N
  BY <1>1, <1>2
<1> HIDE DEF N
<1>4. Nat \subseteq N
  BY <1>3, Induction
<1> QED
  BY <1>4, Smaller DEF N, P

\* g folds F over the subsets of S, taking them apart as C picks.
Folding(S, C, base, F, g) ==
  /\ g = [s \in SUBSET S |-> g[s]]
  /\ g[{}] = base
  /\ \A s \in SUBSET S : s # {} => g[s] = F[<<C[s], g[s \ {C[s]}]>>]

Foldable(S, C, base, F) == \E g : Folding(S, C, base, F, g)

FoldStep(s, C, base, F, g) == IF s = {} THEN base ELSE F[<<C[s], g[s \ {C[s]}]>>]

\* Such a function exists: without this the CHOOSE behind a recursive function
\* says nothing.
LEMMA FoldExists ==
  ASSUME NEW S, IsFiniteSet(S), NEW C, \A s \in SUBSET S : s # {} => C[s] \in s,
         NEW base, NEW F
  PROVE  Foldable(S, C, base, F)
<1> DEFINE D(n) == {s \in SUBSET S : Cardinality(s) <= n}
           Good(n, g) == g = [s \in D(n) |-> FoldStep(s, C, base, F, g)]
           P(n) == \E g : Good(n, g)
           T == {n \in Nat : P(n)}
<1>1. P(0)
  <2> DEFINE g == [s \in D(0) |-> base]
  <2>1. \A s \in D(0) : s = {}
    BY Smaller
  <2>2. Good(0, g)
    BY <2>1 DEF FoldStep
  <2> QED
    BY <2>2
<1>2. ASSUME NEW n \in Nat, P(n)
      PROVE  P(n + 1)
  <2>1. PICK g : Good(n, g)
    BY <1>2
  <2> DEFINE h == [s \in D(n + 1) |-> FoldStep(s, C, base, F, g)]
  <2>2. \A s \in D(n) : s \in D(n + 1) /\ h[s] = g[s]
    BY <2>1, Smaller
  <2>3. \A s \in D(n + 1) : s # {} => s \ {C[s]} \in D(n)
    BY Smaller
  <2>4. \A s \in D(n + 1) : FoldStep(s, C, base, F, g) = FoldStep(s, C, base, F, h)
    BY <2>2, <2>3 DEF FoldStep
  <2>5. Good(n + 1, h)
    BY <2>4
  <2> QED
    BY <2>5
<1>3. Cardinality(S) \in T
  <2> HIDE DEF P
  <2>1. 0 \in T /\ \A n \in Nat : n \in T => n + 1 \in T
    BY <1>1, <1>2
  <2> HIDE DEF T
  <2>2. Nat \subseteq T
    BY <2>1, Induction
  <2> QED
    BY <2>2, FS_CardinalityType
<1>4. D(Cardinality(S)) = SUBSET S
  BY FS_Subset
<1>5. PICK g : Good(Cardinality(S), g)
  BY <1>3
<1>6. Folding(S, C, base, F, g)
  BY <1>4, <1>5 DEF FoldStep, Folding
<1> QED
  BY <1>6 DEF Foldable

-----------------------------------------------------------------------------
(* Sums over finite sets *)

\* g adds up f over the subsets of S as SumFunctionOnSet does.
Adding(f, S, g) ==
  g = [s \in SUBSET S |->
         IF s = {} THEN 0 ELSE f[CHOOSE x \in s : TRUE] + g[s \ {CHOOSE x \in s : TRUE}]]

LEMMA SumIs ==
  ASSUME NEW S, IsFiniteSet(S), NEW f, \A x \in S : f[x] \in Int
  PROVE  /\ \E g : Adding(f, S, g) /\ SumFunctionOnSet(f, S) = g[S]
         /\ SumFunctionOnSet(f, S) \in Int
<1> DEFINE C == [s \in SUBSET S |-> CHOOSE x \in s : TRUE]
           F == [p \in S \X Int |-> f[p[1]] + p[2]]
           it == CHOOSE g : Adding(f, S, g)
<1>1. SumFunctionOnSet(f, S) = it[S]
  BY DEF SumFunctionOnSet, FoldFunctionOnSet, MapThenFoldSet, Adding
<1>2. \A s \in SUBSET S : s # {} => C[s] \in s
  OBVIOUS
<1>3. PICK g : Folding(S, C, 0, F, g)
  <2> HIDE DEF C, F
  <2> QED
    BY <1>2, FoldExists DEF Foldable
<1>4. \A s \in SUBSET S : g[s] \in Int
  <2> DEFINE T == {s \in SUBSET S : g[s] \in Int}
  <2> HIDE DEF C
  <2>1. {} \in T
    BY <1>3 DEF Folding
  <2>2. ASSUME NEW s \in SUBSET S, s # {}, \A x \in s : s \ {x} \in T
        PROVE  s \in T
    <3>1. C[s] \in s /\ g[s \ {C[s]}] \in Int
      BY <1>2, <2>2
    <3>2. g[s] = F[<<C[s], g[s \ {C[s]}]>>]
      BY <1>3, <2>2 DEF Folding
    <3> QED
      BY <2>2, <3>1, <3>2
  <2> HIDE DEF T
  <2>3. SUBSET S \subseteq T
    BY <2>1, <2>2, SubsetInduction
  <2> QED
    BY <2>3 DEF T
<1>5. Adding(f, S, g)
  <2>1. ASSUME NEW s \in SUBSET S, s # {}
        PROVE  g[s] = f[C[s]] + g[s \ {C[s]}]
    <3> HIDE DEF C
    <3>1. g[s] = F[<<C[s], g[s \ {C[s]}]>>]
      BY <1>3, <2>1 DEF Folding
    <3> QED
      BY <1>2, <1>4, <2>1, <3>1
  <2>2. g = [s \in SUBSET S |-> g[s]] /\ g[{}] = 0
    BY <1>3 DEF Folding
  <2> QED
    BY <2>1, <2>2 DEF Adding
<1>6. Adding(f, S, it)
  BY <1>5
<1>7. it[S] \in Int
  <2> DEFINE T == {s \in SUBSET S : it[s] = g[s]}
  <2> HIDE DEF it
  <2>1. {} \in T
    BY <1>5, <1>6 DEF Adding
  <2>2. ASSUME NEW s \in SUBSET S, s # {}, \A x \in s : s \ {x} \in T
        PROVE  s \in T
    <3> DEFINE c == CHOOSE x \in s : TRUE
    <3>1. c \in s
      BY <2>2
    <3>2. g[s] = f[c] + g[s \ {c}]
      BY <1>5, <2>2 DEF Adding
    <3>3. it[s] = f[c] + it[s \ {c}]
      BY <1>6, <2>2 DEF Adding
    <3> HIDE DEF c
    <3>4. it[s \ {c}] = g[s \ {c}]
      BY <2>2, <3>1
    <3> QED
      BY <3>2, <3>3, <3>4
  <2> HIDE DEF T
  <2>3. SUBSET S \subseteq T
    BY <2>1, <2>2, SubsetInduction
  <2> QED
    BY <1>4, <2>3 DEF T
<1> QED
  BY <1>1, <1>6, <1>7

\* Two such functions agree where both say something.
LEMMA AddingAgree ==
  ASSUME NEW S, NEW U \in SUBSET S, IsFiniteSet(U), NEW f, NEW g, NEW h,
         Adding(f, S, g), Adding(f, U, h)
  PROVE  \A s \in SUBSET U : g[s] = h[s]
<1> DEFINE T == {s \in SUBSET U : g[s] = h[s]}
<1>1. {} \in T
  BY DEF Adding
<1>2. ASSUME NEW s \in SUBSET U, s # {}, \A x \in s : s \ {x} \in T
      PROVE  s \in T
  <2> DEFINE c == CHOOSE x \in s : TRUE
  <2>1. c \in s /\ s \in SUBSET S /\ s \in SUBSET U
    BY <1>2
  <2>2. g[s] = f[c] + g[s \ {c}]
    BY <1>2, <2>1 DEF Adding
  <2>3. h[s] = f[c] + h[s \ {c}]
    BY <1>2, <2>1 DEF Adding
  <2> HIDE DEF c
  <2>4. g[s \ {c}] = h[s \ {c}]
    BY <1>2, <2>1
  <2> QED
    BY <2>1, <2>2, <2>3, <2>4
<1> HIDE DEF T
<1>3. SUBSET U \subseteq T
  BY <1>1, <1>2, SubsetInduction
<1> QED
  BY <1>3 DEF T

LEMMA SumEmpty ==
  ASSUME NEW f
  PROVE  SumFunctionOnSet(f, {}) = 0
<1>1. PICK g : Adding(f, {}, g) /\ SumFunctionOnSet(f, {}) = g[{}]
  BY SumIs, FS_EmptySet
<1> QED
  BY <1>1 DEF Adding

LEMMA SumChosen ==
  ASSUME NEW S, IsFiniteSet(S), S # {}, NEW f, \A x \in S : f[x] \in Int
  PROVE  \E x \in S : SumFunctionOnSet(f, S) = f[x] + SumFunctionOnSet(f, S \ {x})
<1> DEFINE c == CHOOSE x \in S : TRUE
<1>1. PICK g : Adding(f, S, g) /\ SumFunctionOnSet(f, S) = g[S]
  BY SumIs
<1>2. IsFiniteSet(S \ {c})
  BY FS_Subset
<1>3. PICK h : Adding(f, S \ {c}, h) /\ SumFunctionOnSet(f, S \ {c}) = h[S \ {c}]
  <2> HIDE DEF c
  <2> QED
    BY <1>2, SumIs
<1>4. g[S \ {c}] = h[S \ {c}]
  <2> HIDE DEF c
  <2> QED
    BY <1>1, <1>2, <1>3, AddingAgree
<1>5. g[S] = f[c] + g[S \ {c}]
  BY <1>1 DEF Adding
<1> QED
  BY <1>1, <1>3, <1>4, <1>5

\* Any element may be taken out of a sum first.
LEMMA SumRemove ==
  ASSUME NEW S, IsFiniteSet(S), NEW f, \A x \in S : f[x] \in Int, NEW x \in S
  PROVE  SumFunctionOnSet(f, S) = f[x] + SumFunctionOnSet(f, S \ {x})
<1> DEFINE T == {s \in SUBSET S : \A y \in s :
                   SumFunctionOnSet(f, s) = f[y] + SumFunctionOnSet(f, s \ {y})}
<1>1. {} \in T
  OBVIOUS
<1>2. ASSUME NEW s \in SUBSET S, s # {}, \A y \in s : s \ {y} \in T
      PROVE  s \in T
  <2>1. \A t \in SUBSET S : IsFiniteSet(t) /\ \A y \in t : f[y] \in Int
    BY FS_Subset
  <2>2. PICK c \in s : SumFunctionOnSet(f, s) = f[c] + SumFunctionOnSet(f, s \ {c})
    <3>1. IsFiniteSet(s) /\ s # {} /\ \A y \in s : f[y] \in Int
      BY <1>2, <2>1
    <3> QED
      BY ONLY <3>1, SumChosen
  <2> SUFFICES ASSUME NEW y \in s, y # c
               PROVE  SumFunctionOnSet(f, s) = f[y] + SumFunctionOnSet(f, s \ {y})
    BY <2>2
  <2> DEFINE r == (s \ {c}) \ {y}
  <2>3. (s \ {y}) \ {c} = r
    OBVIOUS
  <2>4. SumFunctionOnSet(f, s \ {c}) = f[y] + SumFunctionOnSet(f, r)
    BY <1>2
  <2>5. SumFunctionOnSet(f, s \ {y}) = f[c] + SumFunctionOnSet(f, r)
    BY <1>2, <2>3
  <2>6. SumFunctionOnSet(f, r) \in Int /\ f[c] \in Int /\ f[y] \in Int
    BY <2>1, SumIs
  <2> QED
    BY <2>2, <2>4, <2>5, <2>6
<1> HIDE DEF T
<1>3. SUBSET S \subseteq T
  BY <1>1, <1>2, SubsetInduction
<1> QED
  BY <1>3 DEF T

LEMMA SumSame ==
  ASSUME NEW S, IsFiniteSet(S), NEW f, NEW g, \A x \in S : f[x] \in Int /\ f[x] = g[x]
  PROVE  SumFunctionOnSet(f, S) = SumFunctionOnSet(g, S)
<1> DEFINE T == {s \in SUBSET S : SumFunctionOnSet(f, s) = SumFunctionOnSet(g, s)}
<1>1. {} \in T
  BY SumEmpty
<1>2. ASSUME NEW s \in SUBSET S, s # {}, \A x \in s : s \ {x} \in T
      PROVE  s \in T
  <2>1. IsFiniteSet(s) /\ (\A x \in s : f[x] \in Int) /\ \A x \in s : g[x] \in Int
    BY FS_Subset
  <2>2. PICK x \in s : TRUE
    BY <1>2
  <2>3. SumFunctionOnSet(f, s) = f[x] + SumFunctionOnSet(f, s \ {x})
    BY <2>1, SumRemove
  <2>4. SumFunctionOnSet(g, s) = g[x] + SumFunctionOnSet(g, s \ {x})
    BY <2>1, SumRemove
  <2> QED
    BY <1>2, <2>3, <2>4
<1> HIDE DEF T
<1>3. SUBSET S \subseteq T
  BY <1>1, <1>2, SubsetInduction
<1> QED
  BY <1>3 DEF T

\* A sum of naturals is one, and is naught only if they all are.
LEMMA SumNat ==
  ASSUME NEW S, IsFiniteSet(S), NEW f, \A x \in S : f[x] \in Nat
  PROVE  /\ SumFunctionOnSet(f, S) \in Nat
         /\ (\A x \in S : f[x] = 0) => SumFunctionOnSet(f, S) = 0
<1> DEFINE T == {s \in SUBSET S : /\ SumFunctionOnSet(f, s) \in Nat
                                  /\ (\A x \in s : f[x] = 0) => SumFunctionOnSet(f, s) = 0}
<1>1. {} \in T
  BY SumEmpty
<1>2. ASSUME NEW s \in SUBSET S, s # {}, \A x \in s : s \ {x} \in T
      PROVE  s \in T
  <2>1. IsFiniteSet(s) /\ \A x \in s : f[x] \in Int
    BY FS_Subset
  <2>2. PICK x \in s : TRUE
    BY <1>2
  <2>3. SumFunctionOnSet(f, s) = f[x] + SumFunctionOnSet(f, s \ {x})
    BY <2>1, SumRemove
  <2> QED
    BY <1>2, <2>3
<1> HIDE DEF T
<1>3. SUBSET S \subseteq T
  BY <1>1, <1>2, SubsetInduction
<1> QED
  BY <1>3 DEF T

\* What is naught outside a part may be left out.
LEMMA SumPart ==
  ASSUME NEW S, IsFiniteSet(S), NEW f, \A x \in S : f[x] \in Int,
         NEW U \in SUBSET S, \A x \in S \ U : f[x] = 0
  PROVE  SumFunctionOnSet(f, U) = SumFunctionOnSet(f, S)
<1> DEFINE T == {s \in SUBSET S : SumFunctionOnSet(f, s \cap U) = SumFunctionOnSet(f, s)}
<1>1. {} \in T
  <2>1. {} \cap U = {}
    OBVIOUS
  <2> QED
    BY <2>1
<1>2. ASSUME NEW s \in SUBSET S, s # {}, \A x \in s : s \ {x} \in T
      PROVE  s \in T
  <2>1. IsFiniteSet(s) /\ IsFiniteSet(s \cap U) /\ \A x \in s : f[x] \in Int
    BY FS_Subset
  <2>2. PICK x \in s : TRUE
    BY <1>2
  <2>3. SumFunctionOnSet(f, s) = f[x] + SumFunctionOnSet(f, s \ {x})
    BY <2>1, SumRemove
  <2>4. SumFunctionOnSet(f, (s \ {x}) \cap U) = SumFunctionOnSet(f, s \ {x})
    BY <1>2
  <2>5. CASE x \in U
    <3>1. SumFunctionOnSet(f, s \cap U) = f[x] + SumFunctionOnSet(f, (s \cap U) \ {x})
      BY <2>1, <2>5, SumRemove
    <3>2. (s \cap U) \ {x} = (s \ {x}) \cap U
      OBVIOUS
    <3> QED
      BY <2>3, <2>4, <3>1, <3>2
  <2>6. CASE x \notin U
    <3>1. s \cap U = (s \ {x}) \cap U /\ f[x] = 0
      BY <2>6
    <3>2. SumFunctionOnSet(f, s \ {x}) \in Int
      BY <2>1, SumIs, FS_Subset
    <3>3. SumFunctionOnSet(f, s) = SumFunctionOnSet(f, s \ {x})
      BY <2>3, <3>1, <3>2
    <3>4. SumFunctionOnSet(f, s \cap U) = SumFunctionOnSet(f, s)
      BY <2>4, <3>1, <3>3
    <3> QED
      BY <3>4
  <2> QED
    BY <2>5, <2>6
<1> HIDE DEF T
<1>3. S \in T
  BY <1>1, <1>2, SubsetInduction
<1>4. S \cap U = U
  OBVIOUS
<1> QED
  BY <1>3, <1>4 DEF T

\* The terms may be summed in other places.
LEMMA SumMoved ==
  ASSUME NEW S, IsFiniteSet(S), NEW p \in [S -> S], \A x, y \in S : p[x] = p[y] => x = y,
         \A y \in S : \E x \in S : p[x] = y,
         NEW f, \A x \in S : f[x] \in Int
  PROVE  SumFunctionOnSet([x \in S |-> f[p[x]]], S) = SumFunctionOnSet(f, S)
<1> DEFINE h == [x \in S |-> f[p[x]]]
           To(s) == {p[x] : x \in s}
           T == {s \in SUBSET S : SumFunctionOnSet(h, s) = SumFunctionOnSet(f, To(s))}
<1>0. \A x \in S : h[x] = f[p[x]] /\ h[x] \in Int
  OBVIOUS
<1> HIDE DEF h
<1>1. {} \in T
  <2>1. To({}) = {}
    OBVIOUS
  <2> QED
    BY <2>1, SumEmpty
<1>2. ASSUME NEW s \in SUBSET S, s # {}, \A x \in s : s \ {x} \in T
      PROVE  s \in T
  <2>1. IsFiniteSet(s) /\ IsFiniteSet(To(s))
    <3>1. To(s) \in SUBSET S
      OBVIOUS
    <3> QED
      BY <3>1, FS_Subset
  <2>2. PICK x \in s : TRUE
    BY <1>2
  <2>3. SumFunctionOnSet(h, s) = h[x] + SumFunctionOnSet(h, s \ {x})
    BY <1>0, <2>1, SumRemove
  <2>4. p[x] \in To(s) /\ \A y \in To(s) : f[y] \in Int
    OBVIOUS
  <2>5. SumFunctionOnSet(f, To(s)) = f[p[x]] + SumFunctionOnSet(f, To(s) \ {p[x]})
    <3> HIDE DEF To
    <3> QED
      BY <2>1, <2>4, SumRemove
  <2>6. To(s) \ {p[x]} = To(s \ {x})
    OBVIOUS
  <2> QED
    BY <1>0, <1>2, <2>3, <2>5, <2>6
<1>3. To(S) = S
  OBVIOUS
<1> HIDE DEF T
<1>4. S \in T
  BY <1>1, <1>2, SubsetInduction
<1> QED
  BY <1>3, <1>4 DEF T, h

\* Two sums whose terms differ at one place, or at two.
LEMMA SumOne ==
  ASSUME NEW S, IsFiniteSet(S), NEW f, NEW g, \A z \in S : f[z] \in Int /\ g[z] \in Int,
         NEW x \in S, \A z \in S \ {x} : f[z] = g[z]
  PROVE  SumFunctionOnSet(g, S) = SumFunctionOnSet(f, S) - f[x] + g[x]
<1> DEFINE R == S \ {x}
<1>1. IsFiniteSet(R)
  BY FS_Subset
<1>2. SumFunctionOnSet(f, R) = SumFunctionOnSet(g, R) /\ SumFunctionOnSet(f, R) \in Int
  <2> HIDE DEF R
  <2>1. \A z \in R : f[z] \in Int /\ f[z] = g[z]
    BY DEF R
  <2> QED
    BY <1>1, <2>1, SumSame, SumIs
<1>3. SumFunctionOnSet(f, S) = f[x] + SumFunctionOnSet(f, R)
  BY SumRemove
<1>4. SumFunctionOnSet(g, S) = g[x] + SumFunctionOnSet(g, R)
  BY SumRemove
<1> HIDE DEF R
<1> QED
  BY <1>2, <1>3, <1>4

LEMMA SumTwo ==
  ASSUME NEW S, IsFiniteSet(S), NEW f, NEW g, \A z \in S : f[z] \in Int /\ g[z] \in Int,
         NEW x \in S, NEW y \in S, x # y, \A z \in S \ {x, y} : f[z] = g[z]
  PROVE  SumFunctionOnSet(g, S) = SumFunctionOnSet(f, S) - f[x] - f[y] + g[x] + g[y]
<1> DEFINE h == [z \in S |-> IF z = x THEN g[x] ELSE f[z]]
<1>1. \A z \in S : h[z] \in Int /\ h[x] = g[x] /\ h[y] = f[y]
  OBVIOUS
<1>2. (\A z \in S \ {x} : f[z] = h[z]) /\ \A z \in S \ {y} : h[z] = g[z]
  OBVIOUS
<1> HIDE DEF h
<1>3. SumFunctionOnSet(h, S) = SumFunctionOnSet(f, S) - f[x] + h[x]
  BY <1>1, <1>2, SumOne
<1>4. SumFunctionOnSet(g, S) = SumFunctionOnSet(h, S) - h[y] + g[y]
  BY <1>1, <1>2, SumOne
<1>5. SumFunctionOnSet(f, S) \in Int
  BY SumIs
<1> QED
  BY <1>1, <1>3, <1>4, <1>5

-----------------------------------------------------------------------------
(* How much of an item there is *)

\* A stack that is no more than its item may stack.
Fitting == {a \in Stacks : a # Empty => a.count <= MaxStack[a.item]}

Of(stack, item) == IF stack.item = item THEN stack.count ELSE 0

LEMMA StackFacts ==
  /\ Empty \in Fitting /\ Fitting \subseteq Stacks
  /\ \A item \in Items : MaxStack[item] \in Nat \ {0} /\ item # NoItem
  /\ \A a \in Stacks : /\ a.count \in Nat /\ a.item \in Items \cup {NoItem}
                       /\ a = Empty <=> a.item = NoItem
                       /\ a = Empty <=> a.count = 0
                       /\ a = [item |-> a.item, count |-> a.count]
                       /\ \A item : Of(a, item) \in Nat
  /\ \A a \in Fitting : a # Empty => a.count <= MaxStack[a.item]
  /\ \A item \in Items, n \in Nat : n <= MaxStack[item] => Stack(item, n) \in Fitting
  /\ \A item \in Items, n \in Nat, x \in Items : Of(Stack(item, n), x) = IF x = item THEN n ELSE 0
  /\ \A item \in Items : Of(Empty, item) = 0
BY NoItemIsNone, ItemKinds DEF Fitting, Stacks, Empty, Of, Stack

Weights(cells, item) == [s \in DOMAIN cells |-> Of(cells[s], item)]

LEMMA CountIs ==
  ASSUME NEW D, IsFiniteSet(D), NEW cells \in [D -> Stacks], NEW item
  PROVE  /\ CountIn(cells, item) = SumFunctionOnSet(Weights(cells, item), D)
         /\ CountIn(cells, item) \in Nat
         /\ \A s \in D : Weights(cells, item)[s] = Of(cells[s], item)
         /\ \A s \in D : Weights(cells, item)[s] \in Nat
<1> DEFINE w == Weights(cells, item)
           f == [s \in DOMAIN cells |-> cells[s].count]
           U == {s \in DOMAIN cells : cells[s].item = item}
<1>1. \A s \in D : w[s] = Of(cells[s], item) /\ w[s] \in Nat
  BY StackFacts DEF Weights
<1>2. U \in SUBSET D /\ \A s \in D : f[s] \in Nat
  BY StackFacts
<1>3. \A s \in D \ U : w[s] = 0
  BY <1>1 DEF Of
<1>4. \A s \in U : f[s] = w[s]
  BY <1>1 DEF Of
<1>5. CountIn(cells, item) = SumFunctionOnSet(f, U)
  BY DEF CountIn
<1> HIDE DEF w, f, U
<1>6. SumFunctionOnSet(f, U) = SumFunctionOnSet(w, U)
  BY <1>2, <1>4, SumSame, FS_Subset
<1>7. SumFunctionOnSet(w, U) = SumFunctionOnSet(w, D)
  BY <1>1, <1>2, <1>3, SumPart
<1>8. SumFunctionOnSet(w, D) \in Nat
  BY <1>1, SumNat
<1> QED
  BY <1>1, <1>5, <1>6, <1>7, <1>8 DEF w

LEMMA CountOne ==
  ASSUME NEW D, IsFiniteSet(D), NEW c \in [D -> Stacks], NEW d \in [D -> Stacks], NEW item,
         NEW x \in D, \A z \in D \ {x} : c[z] = d[z]
  PROVE  CountIn(d, item) = CountIn(c, item) - Of(c[x], item) + Of(d[x], item)
<1> DEFINE f == Weights(c, item)
           g == Weights(d, item)
<1>1. \A z \in D : f[z] = Of(c[z], item) /\ g[z] = Of(d[z], item) /\ f[z] \in Int /\ g[z] \in Int
  BY CountIs
<1>2. \A z \in D \ {x} : f[z] = g[z]
  BY <1>1
<1>3. CountIn(c, item) = SumFunctionOnSet(f, D) /\ CountIn(d, item) = SumFunctionOnSet(g, D)
  BY CountIs
<1> HIDE DEF f, g
<1>4. SumFunctionOnSet(g, D) = SumFunctionOnSet(f, D) - f[x] + g[x]
  BY <1>1, <1>2, SumOne
<1> QED
  BY <1>1, <1>3, <1>4

LEMMA CountTwo ==
  ASSUME NEW D, IsFiniteSet(D), NEW c \in [D -> Stacks], NEW d \in [D -> Stacks], NEW item,
         NEW x \in D, NEW y \in D, x # y, \A z \in D \ {x, y} : c[z] = d[z]
  PROVE  CountIn(d, item) = CountIn(c, item) - Of(c[x], item) - Of(c[y], item)
                              + Of(d[x], item) + Of(d[y], item)
<1> DEFINE f == Weights(c, item)
           g == Weights(d, item)
<1>1. \A z \in D : f[z] = Of(c[z], item) /\ g[z] = Of(d[z], item) /\ f[z] \in Int /\ g[z] \in Int
  BY CountIs
<1>2. \A z \in D \ {x, y} : f[z] = g[z]
  BY <1>1
<1>3. CountIn(c, item) = SumFunctionOnSet(f, D) /\ CountIn(d, item) = SumFunctionOnSet(g, D)
  BY CountIs
<1> HIDE DEF f, g
<1>4. SumFunctionOnSet(g, D) = SumFunctionOnSet(f, D) - f[x] - f[y] + g[x] + g[y]
  BY <1>1, <1>2, SumTwo
<1> QED
  BY <1>1, <1>3, <1>4

LEMMA CountMoved ==
  ASSUME NEW D, IsFiniteSet(D), NEW c \in [D -> Stacks], NEW d \in [D -> Stacks], NEW item,
         NEW p \in [D -> D], \A x, y \in D : p[x] = p[y] => x = y,
         \A y \in D : \E x \in D : p[x] = y, \A x \in D : d[x] = c[p[x]]
  PROVE  CountIn(d, item) = CountIn(c, item)
<1> DEFINE f == Weights(c, item)
           g == Weights(d, item)
<1>1. \A z \in D : f[z] = Of(c[z], item) /\ g[z] = Of(d[z], item) /\ f[z] \in Int /\ g[z] \in Int
  BY CountIs
<1>2. CountIn(c, item) = SumFunctionOnSet(f, D) /\ CountIn(d, item) = SumFunctionOnSet(g, D)
  BY CountIs
<1>3. DOMAIN g = D /\ g = [x \in DOMAIN g |-> g[x]]
  BY DEF Weights
<1> HIDE DEF f, g
<1>4. g = [x \in D |-> f[p[x]]]
  BY <1>1, <1>3
<1>5. SumFunctionOnSet([x \in D |-> f[p[x]]], D) = SumFunctionOnSet(f, D)
  BY <1>1, SumMoved
<1> QED
  BY <1>2, <1>4, <1>5

-----------------------------------------------------------------------------
(* Sets put in order *)

Earlier(S, B, x) == {y \in S : <<y, x>> \in B}

\* o has at each place an element with so many before it, if there is one.
Ranked(S, B, o) ==
  /\ o = [i \in 1 .. Cardinality(S) |-> o[i]]
  /\ \A i \in 1 .. Cardinality(S), x \in S : Cardinality(Earlier(S, B, x)) = i - 1 =>
       o[i] \in S /\ Cardinality(Earlier(S, B, o[i])) = i - 1

Ordering(S, B) ==
  /\ \A x \in S : <<x, x>> \notin B
  /\ \A x, y \in S : x # y => <<x, y>> \in B \/ <<y, x>> \in B
  /\ \A x, y, z \in S : <<x, y>> \in B /\ <<y, z>> \in B => <<x, z>> \in B

\* A sequence that names each element of S, and nothing else.
Lists(order, S) ==
  /\ order \in [1 .. Cardinality(S) -> S]
  /\ \A x \in S : \E i \in 1 .. Cardinality(S) : order[i] = x

LEMMA RankedLists ==
  ASSUME NEW S, IsFiniteSet(S), NEW B, Ordering(S, B), NEW o, Ranked(S, B, o)
  PROVE  Lists(o, S)
<1> DEFINE n == Cardinality(S)
           rank == [x \in S |-> Cardinality(Earlier(S, B, x))]
<1>1. n \in Nat
  BY FS_CardinalityType
<1>2. \A x \in S : rank[x] \in 0 .. n - 1
  <2> TAKE x \in S
  <2>1. Earlier(S, B, x) \subseteq S \ {x}
    BY DEF Earlier, Ordering
  <2>2. IsFiniteSet(S \ {x}) /\ Cardinality(S \ {x}) = n - 1
    BY FS_RemoveElement
  <2>3. Cardinality(Earlier(S, B, x)) \in Nat /\ Cardinality(Earlier(S, B, x)) <= n - 1
    BY <2>1, <2>2, FS_Subset, FS_CardinalityType
  <2> QED
    BY <1>1, <2>3
<1>3. ASSUME NEW x \in S, NEW y \in S, <<x, y>> \in B
      PROVE  rank[x] # rank[y]
  <2>1. Earlier(S, B, x) \subseteq Earlier(S, B, y)
    BY <1>3 DEF Earlier, Ordering
  <2>2. x \in Earlier(S, B, y) /\ x \notin Earlier(S, B, x)
    BY <1>3 DEF Earlier, Ordering
  <2>3. IsFiniteSet(Earlier(S, B, y))
    BY FS_Subset DEF Earlier
  <2>4. Cardinality(Earlier(S, B, x)) # Cardinality(Earlier(S, B, y))
    BY <2>1, <2>2, <2>3, FS_Subset
  <2> QED
    BY <2>4
<1>4. \A x, y \in S : rank[x] = rank[y] => x = y
  <2> HIDE DEF rank
  <2> QED
    BY <1>3 DEF Ordering
<1>5. IsFiniteSet(0 .. n - 1) /\ Cardinality(0 .. n - 1) = n
  BY <1>1, FS_Interval
<1>6. rank \in Injection(S, 0 .. n - 1)
  <2>1. rank \in [S -> 0 .. n - 1]
    BY <1>2
  <2> HIDE DEF rank, n
  <2> QED
    BY <1>4, <2>1 DEF Injection, IsInjective
<1>7. rank \in Surjection(S, 0 .. n - 1)
  <2> HIDE DEF rank
  <2> QED
    BY <1>5, <1>6, FS_Injection
<1>8. \A i \in 1 .. n : \E x \in S : rank[x] = i - 1
  <2> HIDE DEF rank
  <2>1. \A i \in 1 .. n : i - 1 \in 0 .. n - 1
    BY <1>1
  <2> QED
    BY <1>7, <2>1 DEF Surjection
<1>9. \A i \in 1 .. n : o[i] \in S /\ rank[o[i]] = i - 1
  BY <1>8 DEF Ranked
<1>10. o \in [1 .. n -> S]
  <2>1. o = [i \in 1 .. n |-> o[i]]
    BY DEF Ranked
  <2> HIDE DEF rank
  <2> QED
    BY <1>9, <2>1
<1>11. ASSUME NEW x \in S
       PROVE  \E i \in 1 .. n : o[i] = x
  <2>1. rank[x] \in 0 .. n - 1
    BY <1>2
  <2> HIDE DEF rank, n
  <2>2. PICK i \in 1 .. n : i - 1 = rank[x]
    <3>1. rank[x] + 1 \in 1 .. n /\ (rank[x] + 1) - 1 = rank[x]
      BY <1>1, <2>1
    <3> QED
      BY <3>1
  <2>3. o[i] \in S /\ rank[o[i]] = rank[x]
    BY <1>9, <2>2
  <2> QED
    BY <1>4, <2>3
<1> QED
  BY <1>10, <1>11 DEF Lists

\* The slots, and what kinds they are of.
LEMMA SlotFacts ==
  /\ IsFiniteSet(Slots)
  /\ Slots = BaseRefs \cup BagRefs \cup EquipRefs \cup {Cursor}
  /\ \A s \in BaseRefs : /\ Kind(s) = "base" /\ s[2] \in BaseSlots /\ s = Base(s[2])
                         /\ s[3] = 0 /\ s[2] \in Nat
  /\ \A s \in BagRefs : /\ Kind(s) = "bag" /\ s[2] \in Keys /\ s[3] \in BagCells
                        /\ s = Bag(s[2], s[3]) /\ s[2] \in Nat /\ s[3] \in Nat
  /\ \A s \in EquipRefs : Kind(s) = "equip" /\ s[2] \in EquipSlots /\ s = Equip(s[2])
  /\ Kind(Cursor) = "cursor"
  /\ Held \notin BaseSlots
<1>1. IsFiniteSet(BaseSlots) /\ IsFiniteSet(Keys)
  <2>1. IsFiniteSet(BaseSlots)
    <3>1. \A n \in Int : IsFiniteSet(0 .. n)
      BY FS_Interval
    <3>2. PICK n \in Int : n = 254
      OBVIOUS
    <3>3. BaseSlots \subseteq 0 .. n
      BY <3>2, SlotsAreNaturals
    <3> QED
      BY <3>1, <3>3, FS_Subset
  <2> QED
    BY <2>1, FS_AddElement, FS_Singleton, FS_Union DEF Keys
<1>2. IsFiniteSet(BaseRefs)
  <2> DEFINE f == [i \in BaseSlots |-> Base(i)]
  <2>1. f \in Surjection(BaseSlots, BaseRefs)
    BY DEF Surjection, BaseRefs
  <2> QED
    BY <1>1, <2>1, FS_Surjection
<1>3. IsFiniteSet(EquipRefs)
  <2> DEFINE f == [e \in EquipSlots |-> Equip(e)]
  <2>1. f \in Surjection(EquipSlots, EquipRefs)
    BY DEF Surjection, EquipRefs
  <2> QED
    BY SlotsAreFinite, <2>1, FS_Surjection
<1>4. IsFiniteSet(BagRefs)
  <2> DEFINE f == [p \in Keys \X BagCells |-> Bag(p[1], p[2])]
  <2>1. \A k \in Keys, s \in BagCells : <<k, s>> \in Keys \X BagCells /\ f[<<k, s>>] = Bag(k, s)
    OBVIOUS
  <2>2. f \in Surjection(Keys \X BagCells, BagRefs)
    <3>1. f \in [Keys \X BagCells -> BagRefs]
      BY DEF BagRefs
    <3>2. \A t \in BagRefs : \E p \in Keys \X BagCells : f[p] = t
      <4> SUFFICES ASSUME NEW k \in Keys, NEW s \in BagCells
                   PROVE  \E p \in Keys \X BagCells : f[p] = Bag(k, s)
        BY DEF BagRefs
      <4> HIDE DEF f
      <4> QED
        BY <2>1
    <3> HIDE DEF f
    <3> QED
      BY <3>1, <3>2 DEF Surjection
  <2>3. IsFiniteSet(Keys \X BagCells)
    BY <1>1, SlotsAreFinite, FS_Product
  <2> QED
    BY <2>2, <2>3, FS_Surjection
<1>5. IsFiniteSet(Slots)
  BY <1>2, <1>3, <1>4, FS_Union, FS_AddElement DEF Slots
<1>6. Keys \subseteq Nat /\ BaseSlots \subseteq Nat /\ Held \notin BaseSlots
  BY SlotsAreNaturals DEF Keys, Held
<1> QED
  BY <1>5, <1>6, SlotsAreNaturals DEF Slots, BaseRefs, BagRefs, EquipRefs, Cursor, Kind, Base, Bag, Equip

\* The placer's scan goes over the slots it may use, each of them.
LEMMA ScanLists ==
  ASSUME NEW v
  PROVE  /\ Lists(ScanOrder(v), Usable(v))
         /\ IsFiniteSet(Usable(v))
         /\ Usable(v) \subseteq BaseRefs \cup BagRefs
         /\ Usable(v) \subseteq Slots
<1> DEFINE U == Usable(v)
           B == {p \in U \X U : Scanned(p[1], p[2])}
<1>1. U \subseteq BaseRefs \cup BagRefs /\ U \subseteq Slots
  BY SlotFacts DEF Usable
<1>2. IsFiniteSet(U)
  BY <1>1, SlotFacts, FS_Subset
<1> HIDE DEF U
<1>3. \A x \in U : /\ x[1] = "base" \/ x[1] = "bag"
                   /\ x[2] \in Nat /\ x[3] \in Nat
                   /\ x = <<x[1], x[2], x[3]>>
  BY <1>1, SlotFacts DEF Kind, Base, Bag
<1>4. \A x, y \in U : <<x, y>> \in B <=> Scanned(x, y)
  OBVIOUS
<1>5. \A x, y \in U : Earlier(U, B, x) = {z \in U : Scanned(z, x)}
  BY <1>4 DEF Earlier
<1> HIDE DEF B
<1>6. Ordering(U, B)
  <2>1. \A x \in U : ~ Scanned(x, x)
    BY <1>3 DEF Scanned
  <2>2. \A x, y \in U : x # y => Scanned(x, y) \/ Scanned(y, x)
    BY <1>3 DEF Scanned
  <2>3. \A x, y, z \in U : Scanned(x, y) /\ Scanned(y, z) => Scanned(x, z)
    BY <1>3 DEF Scanned
  <2> QED
    BY <1>4, <2>1, <2>2, <2>3 DEF Ordering
<1> DEFINE o == InOrder(U, Scanned)
<1>7. Ranked(U, B, o)
  <2>1. o = [i \in 1 .. Cardinality(U) |->
               CHOOSE x \in U : Cardinality({y \in U : Scanned(y, x)}) = i - 1]
    BY DEF InOrder
  <2> DEFINE N(x) == Cardinality({y \in U : Scanned(y, x)})
  <2>2. \A i \in 1 .. Cardinality(U) : o[i] = CHOOSE x \in U : N(x) = i - 1
    BY <2>1
  <2>3. \A x \in U : N(x) = Cardinality(Earlier(U, B, x))
    BY <1>5
  <2>4. o = [i \in 1 .. Cardinality(U) |-> o[i]]
    BY <2>1
  <2> HIDE DEF o, N
  <2>5. ASSUME NEW i \in 1 .. Cardinality(U), NEW x \in U,
               Cardinality(Earlier(U, B, x)) = i - 1
        PROVE  o[i] \in U /\ Cardinality(Earlier(U, B, o[i])) = i - 1
    BY <2>2, <2>3, <2>5
  <2> QED
    BY <2>4, <2>5 DEF Ranked
<1>8. Lists(o, U)
  <2> HIDE DEF o
  <2> QED
    BY <1>2, <1>6, <1>7, RankedLists
<1> QED
  BY <1>1, <1>2, <1>8 DEF ScanOrder, U

LEMMA VaultLists ==
  ASSUME NEW V \in SUBSET Nat, IsFiniteSet(V)
  PROVE  Lists(InOrder(V, <), V)
<1> DEFINE B == {p \in V \X V : p[1] < p[2]}
<1>1. \A x, y \in V : <<x, y>> \in B <=> x < y
  OBVIOUS
<1>2. \A x \in V : Earlier(V, B, x) = {z \in V : z < x}
  BY <1>1 DEF Earlier
<1> HIDE DEF B
<1>3. Ordering(V, B)
  BY <1>1 DEF Ordering
<1> DEFINE o == InOrder(V, <)
<1>4. Ranked(V, B, o)
  <2>1. o = [i \in 1 .. Cardinality(V) |->
               CHOOSE x \in V : Cardinality({y \in V : y < x}) = i - 1]
    BY DEF InOrder
  <2> DEFINE N(x) == Cardinality({y \in V : y < x})
  <2>2. \A i \in 1 .. Cardinality(V) : o[i] = CHOOSE x \in V : N(x) = i - 1
    BY <2>1
  <2>3. \A x \in V : N(x) = Cardinality(Earlier(V, B, x))
    BY <1>2
  <2>4. o = [i \in 1 .. Cardinality(V) |-> o[i]]
    BY <2>1
  <2> HIDE DEF o, N
  <2>5. ASSUME NEW i \in 1 .. Cardinality(V), NEW x \in V,
               Cardinality(Earlier(V, B, x)) = i - 1
        PROVE  o[i] \in V /\ Cardinality(Earlier(V, B, o[i])) = i - 1
    BY <2>2, <2>3, <2>5
  <2> QED
    BY <2>4, <2>5 DEF Ranked
<1>5. Lists(o, V)
  <2> HIDE DEF o
  <2> QED
    BY <1>3, <1>4, RankedLists
<1> QED
  BY <1>5

-----------------------------------------------------------------------------
(* Folds over sequences *)

LEMMA MaxFacts ==
  ASSUME NEW n \in Nat
  PROVE  /\ \A s \in SUBSET (1 .. n) : s # {} => Max(s) \in s
         /\ \A i \in 1 .. n : Max(1 .. i) = i /\ (1 .. i) \ {i} = 1 .. i - 1
                              /\ 1 .. i \in SUBSET (1 .. n)
         /\ IsFiniteSet(1 .. n)
<1>1. ASSUME NEW s \in SUBSET (1 .. n), s # {}
      PROVE  Max(s) \in s
  <2> DEFINE T == {n - x : x \in s}
  <2>1. T \in SUBSET Nat /\ T # {}
    <3>1. \A x \in s : n - x \in Nat /\ n - x \in T
      OBVIOUS
    <3> QED
      BY <1>1, <3>1
  <2> HIDE DEF T
  <2>2. PICK t \in T : \A u \in T : t <= u
    BY <2>1, LeastMember
  <2>3. PICK x \in s : t = n - x
    BY <2>2 DEF T
  <2>4. \A y \in s : n - y \in T
    BY DEF T
  <2>5. \A y \in s : x >= y
    BY <2>2, <2>3, <2>4
  <2> QED
    BY <2>5 DEF Max
<1>2. ASSUME NEW i \in 1 .. n
      PROVE  Max(1 .. i) = i /\ (1 .. i) \ {i} = 1 .. i - 1 /\ 1 .. i \in SUBSET (1 .. n)
  <2>1. i \in 1 .. i /\ \A y \in 1 .. i : i >= y
    OBVIOUS
  <2>2. \A x \in 1 .. i : (\A y \in 1 .. i : x >= y) => x = i
    BY <2>1
  <2>3. (CHOOSE x \in 1 .. i : \A y \in 1 .. i : x >= y) = i
    BY <2>1, <2>2
  <2>4. (1 .. i) \ {i} = 1 .. i - 1
    OBVIOUS
  <2>5. \A x \in 1 .. i : x \in 1 .. n
    OBVIOUS
  <2> QED
    BY <2>3, <2>4, <2>5 DEF Max
<1>3. IsFiniteSet(1 .. n)
  BY FS_Interval
<1> QED
  BY <1>1, <1>2, <1>3

\* g folds G over the numbers to n from the first to the last.
Running(n, base, G, g) ==
  /\ g = [s \in SUBSET (1 .. n) |-> g[s]]
  /\ g[{}] = base
  /\ \A s \in SUBSET (1 .. n) : s # {} => g[s] = G[<<Max(s), g[s \ {Max(s)}]>>]

LEMMA RunExists ==
  ASSUME NEW n \in Nat, NEW A, NEW base \in A, NEW G,
         \A i \in 1 .. n, a \in A : G[<<i, a>>] \in A
  PROVE  \E g : Running(n, base, G, g) /\ \A s \in SUBSET (1 .. n) : g[s] \in A
<1> DEFINE S == 1 .. n
           C == [s \in SUBSET S |-> Max(s)]
<1>1. IsFiniteSet(S) /\ \A s \in SUBSET S : s # {} => C[s] = Max(s) /\ Max(s) \in s
  BY MaxFacts
<1>2. PICK g : Folding(S, C, base, G, g)
  <2> HIDE DEF S, C
  <2> QED
    BY <1>1, FoldExists DEF Foldable
<1>3. Running(n, base, G, g)
  <2> HIDE DEF C
  <2> QED
    BY <1>1, <1>2 DEF Folding, Running
<1>4. \A s \in SUBSET S : g[s] \in A
  <2> DEFINE T == {s \in SUBSET S : g[s] \in A}
  <2>1. {} \in T
    BY <1>3 DEF Running
  <2>2. ASSUME NEW s \in SUBSET S, s # {}, \A x \in s : s \ {x} \in T
        PROVE  s \in T
    BY <1>1, <1>3, <2>2 DEF Running
  <2> HIDE DEF T, S
  <2>3. SUBSET S \subseteq T
    BY <1>1, <2>1, <2>2, SubsetInduction
  <2> QED
    BY <2>3 DEF T
<1> QED
  BY <1>3, <1>4

\* J says, place by place, what holds of it.
Keeping(n, A, J) == J \in [0 .. n -> SUBSET A]

LEMMA RunKeeps ==
  ASSUME NEW n \in Nat, NEW A, NEW J, Keeping(n, A, J), NEW h, h[0] \in J[0],
         \A i \in 1 .. n : h[i - 1] \in J[i - 1] => h[i] \in J[i]
  PROVE  h[n] \in J[n]
<1> DEFINE T == {i \in Nat : i <= n => h[i] \in J[i]}
<1>1. 0 \in T
  OBVIOUS
<1>2. ASSUME NEW i \in Nat, i \in T
      PROVE  i + 1 \in T
  <2> SUFFICES ASSUME i + 1 <= n
               PROVE  h[i + 1] \in J[i + 1]
    OBVIOUS
  <2>1. i + 1 \in 1 .. n /\ (i + 1) - 1 = i /\ h[i] \in J[i]
    BY <1>2
  <2> QED
    BY <2>1
<1> HIDE DEF T
<1>3. n \in T
  BY <1>1, <1>2, Induction
<1> QED
  BY <1>3 DEF T

LEMMA TopUpKeeps ==
  ASSUME NEW n \in Nat, NEW S, NEW order \in [1 .. n -> S], NEW item,
         NEW A, NEW base \in A, \A a \in A, s \in S : TopUp(a, s, item) \in A,
         NEW J, Keeping(n, A, J), base \in J[0],
         \A i \in 1 .. n : \A a \in J[i - 1] : TopUp(a, order[i], item) \in J[i]
  PROVE  TopUpAll(base, order, item) \in J[n]
<1> DEFINE G == [p \in (1 .. n) \X A |-> TopUp(p[2], order[p[1]], item)]
           Sol(f) == f = [s \in SUBSET (1 .. n) |->
                            IF s = {} THEN base
                            ELSE TopUp(f[s \ {Max(s)}], order[Max(s)], item)]
           it == CHOOSE f : Sol(f)
<1>1. TopUpAll(base, order, item) = it[1 .. n]
  <2>1. DOMAIN order = 1 .. n
    OBVIOUS
  <2> QED
    BY <2>1 DEF TopUpAll, FoldLeft, MapThenFoldSet
<1>2. \A i \in 1 .. n, a \in A : G[<<i, a>>] = TopUp(a, order[i], item)
  OBVIOUS
<1> HIDE DEF G
<1>3. \A i \in 1 .. n, a \in A : G[<<i, a>>] \in A
  BY <1>2
<1>4. PICK g : Running(n, base, G, g) /\ \A s \in SUBSET (1 .. n) : g[s] \in A
  BY <1>3, RunExists
<1>5. Sol(g)
  <2>1. ASSUME NEW s \in SUBSET (1 .. n), s # {}
        PROVE  g[s] = TopUp(g[s \ {Max(s)}], order[Max(s)], item)
    <3>1. Max(s) \in 1 .. n /\ g[s \ {Max(s)}] \in A
      BY <1>4, <2>1, MaxFacts
    <3> QED
      BY <1>2, <1>4, <2>1, <3>1 DEF Running
  <2>2. g = [s \in SUBSET (1 .. n) |-> g[s]] /\ g[{}] = base
    BY <1>4 DEF Running
  <2> QED
    BY <2>1, <2>2
<1>6. Sol(it)
  <2> HIDE DEF Sol
  <2> QED
    BY <1>5
<1> HIDE DEF it
<1> DEFINE h == [i \in 0 .. n |-> it[1 .. i]]
<1>7. h[0] \in J[0]
  <2>1. 1 .. 0 = {}
    OBVIOUS
  <2> QED
    BY <1>6, <2>1
<1>8. ASSUME NEW i \in 1 .. n, h[i - 1] \in J[i - 1]
      PROVE  h[i] \in J[i]
  <2>1. Max(1 .. i) = i /\ (1 .. i) \ {i} = 1 .. i - 1 /\ 1 .. i \in SUBSET (1 .. n)
    BY MaxFacts
  <2>0. i \in 1 .. i
    OBVIOUS
  <2>2. it[1 .. i] = TopUp(it[1 .. i - 1], order[i], item)
    BY <1>6, <2>0, <2>1
  <2>3. h[i] = TopUp(h[i - 1], order[i], item)
    BY <2>2
  <2> HIDE DEF h
  <2> QED
    BY <1>8, <2>3
<1>9. h[n] = it[1 .. n]
  OBVIOUS
<1> HIDE DEF h, Sol
<1> QED
  BY <1>1, <1>7, <1>8, <1>9, RunKeeps

LEMMA ClaimKeeps ==
  ASSUME NEW n \in Nat, NEW S, NEW order \in [1 .. n -> S], NEW item,
         NEW A, NEW base \in A, \A a \in A, s \in S : ClaimEmpty(a, s, item) \in A,
         NEW J, Keeping(n, A, J), base \in J[0],
         \A i \in 1 .. n : \A a \in J[i - 1] : ClaimEmpty(a, order[i], item) \in J[i]
  PROVE  ClaimAll(base, order, item) \in J[n]
<1> DEFINE G == [p \in (1 .. n) \X A |-> ClaimEmpty(p[2], order[p[1]], item)]
           Sol(f) == f = [s \in SUBSET (1 .. n) |->
                            IF s = {} THEN base
                            ELSE ClaimEmpty(f[s \ {Max(s)}], order[Max(s)], item)]
           it == CHOOSE f : Sol(f)
<1>1. ClaimAll(base, order, item) = it[1 .. n]
  <2>1. DOMAIN order = 1 .. n
    OBVIOUS
  <2> QED
    BY <2>1 DEF ClaimAll, FoldLeft, MapThenFoldSet
<1>2. \A i \in 1 .. n, a \in A : G[<<i, a>>] = ClaimEmpty(a, order[i], item)
  OBVIOUS
<1> HIDE DEF G
<1>3. \A i \in 1 .. n, a \in A : G[<<i, a>>] \in A
  BY <1>2
<1>4. PICK g : Running(n, base, G, g) /\ \A s \in SUBSET (1 .. n) : g[s] \in A
  BY <1>3, RunExists
<1>5. Sol(g)
  <2>1. ASSUME NEW s \in SUBSET (1 .. n), s # {}
        PROVE  g[s] = ClaimEmpty(g[s \ {Max(s)}], order[Max(s)], item)
    <3>1. Max(s) \in 1 .. n /\ g[s \ {Max(s)}] \in A
      BY <1>4, <2>1, MaxFacts
    <3> QED
      BY <1>2, <1>4, <2>1, <3>1 DEF Running
  <2>2. g = [s \in SUBSET (1 .. n) |-> g[s]] /\ g[{}] = base
    BY <1>4 DEF Running
  <2> QED
    BY <2>1, <2>2
<1>6. Sol(it)
  <2> HIDE DEF Sol
  <2> QED
    BY <1>5
<1> HIDE DEF it
<1> DEFINE h == [i \in 0 .. n |-> it[1 .. i]]
<1>7. h[0] \in J[0]
  <2>1. 1 .. 0 = {}
    OBVIOUS
  <2> QED
    BY <1>6, <2>1
<1>8. ASSUME NEW i \in 1 .. n, h[i - 1] \in J[i - 1]
      PROVE  h[i] \in J[i]
  <2>1. Max(1 .. i) = i /\ (1 .. i) \ {i} = 1 .. i - 1 /\ 1 .. i \in SUBSET (1 .. n)
    BY MaxFacts
  <2>0. i \in 1 .. i
    OBVIOUS
  <2>2. it[1 .. i] = ClaimEmpty(it[1 .. i - 1], order[i], item)
    BY <1>6, <2>0, <2>1
  <2>3. h[i] = ClaimEmpty(h[i - 1], order[i], item)
    BY <2>2
  <2> HIDE DEF h
  <2> QED
    BY <1>8, <2>3
<1>9. h[n] = it[1 .. n]
  OBVIOUS
<1> HIDE DEF h, Sol
<1> QED
  BY <1>1, <1>7, <1>8, <1>9, RunKeeps

LEMMA VaultTopUpKeeps ==
  ASSUME NEW n \in Nat, NEW S, NEW order \in [1 .. n -> S], NEW item,
         NEW A, NEW base \in A, \A a \in A, s \in S : VaultTopUp(a, s, item) \in A,
         NEW J, Keeping(n, A, J), base \in J[0],
         \A i \in 1 .. n : \A a \in J[i - 1] : VaultTopUp(a, order[i], item) \in J[i]
  PROVE  VaultTopUpAll(base, order, item) \in J[n]
<1> DEFINE G == [p \in (1 .. n) \X A |-> VaultTopUp(p[2], order[p[1]], item)]
           Sol(f) == f = [s \in SUBSET (1 .. n) |->
                            IF s = {} THEN base
                            ELSE VaultTopUp(f[s \ {Max(s)}], order[Max(s)], item)]
           it == CHOOSE f : Sol(f)
<1>1. VaultTopUpAll(base, order, item) = it[1 .. n]
  <2>1. DOMAIN order = 1 .. n
    OBVIOUS
  <2> QED
    BY <2>1 DEF VaultTopUpAll, FoldLeft, MapThenFoldSet
<1>2. \A i \in 1 .. n, a \in A : G[<<i, a>>] = VaultTopUp(a, order[i], item)
  OBVIOUS
<1> HIDE DEF G
<1>3. \A i \in 1 .. n, a \in A : G[<<i, a>>] \in A
  BY <1>2
<1>4. PICK g : Running(n, base, G, g) /\ \A s \in SUBSET (1 .. n) : g[s] \in A
  BY <1>3, RunExists
<1>5. Sol(g)
  <2>1. ASSUME NEW s \in SUBSET (1 .. n), s # {}
        PROVE  g[s] = VaultTopUp(g[s \ {Max(s)}], order[Max(s)], item)
    <3>1. Max(s) \in 1 .. n /\ g[s \ {Max(s)}] \in A
      BY <1>4, <2>1, MaxFacts
    <3> QED
      BY <1>2, <1>4, <2>1, <3>1 DEF Running
  <2>2. g = [s \in SUBSET (1 .. n) |-> g[s]] /\ g[{}] = base
    BY <1>4 DEF Running
  <2> QED
    BY <2>1, <2>2
<1>6. Sol(it)
  <2> HIDE DEF Sol
  <2> QED
    BY <1>5
<1> HIDE DEF it
<1> DEFINE h == [i \in 0 .. n |-> it[1 .. i]]
<1>7. h[0] \in J[0]
  <2>1. 1 .. 0 = {}
    OBVIOUS
  <2> QED
    BY <1>6, <2>1
<1>8. ASSUME NEW i \in 1 .. n, h[i - 1] \in J[i - 1]
      PROVE  h[i] \in J[i]
  <2>1. Max(1 .. i) = i /\ (1 .. i) \ {i} = 1 .. i - 1 /\ 1 .. i \in SUBSET (1 .. n)
    BY MaxFacts
  <2>0. i \in 1 .. i
    OBVIOUS
  <2>2. it[1 .. i] = VaultTopUp(it[1 .. i - 1], order[i], item)
    BY <1>6, <2>0, <2>1
  <2>3. h[i] = VaultTopUp(h[i - 1], order[i], item)
    BY <2>2
  <2> HIDE DEF h
  <2> QED
    BY <1>8, <2>3
<1>9. h[n] = it[1 .. n]
  OBVIOUS
<1> HIDE DEF h, Sol
<1> QED
  BY <1>1, <1>7, <1>8, <1>9, RunKeeps

LEMMA VaultClaimKeeps ==
  ASSUME NEW n \in Nat, NEW S, NEW order \in [1 .. n -> S], NEW item,
         NEW A, NEW base \in A, \A a \in A, s \in S : VaultClaim(a, s, item) \in A,
         NEW J, Keeping(n, A, J), base \in J[0],
         \A i \in 1 .. n : \A a \in J[i - 1] : VaultClaim(a, order[i], item) \in J[i]
  PROVE  VaultClaimAll(base, order, item) \in J[n]
<1> DEFINE G == [p \in (1 .. n) \X A |-> VaultClaim(p[2], order[p[1]], item)]
           Sol(f) == f = [s \in SUBSET (1 .. n) |->
                            IF s = {} THEN base
                            ELSE VaultClaim(f[s \ {Max(s)}], order[Max(s)], item)]
           it == CHOOSE f : Sol(f)
<1>1. VaultClaimAll(base, order, item) = it[1 .. n]
  <2>1. DOMAIN order = 1 .. n
    OBVIOUS
  <2> QED
    BY <2>1 DEF VaultClaimAll, FoldLeft, MapThenFoldSet
<1>2. \A i \in 1 .. n, a \in A : G[<<i, a>>] = VaultClaim(a, order[i], item)
  OBVIOUS
<1> HIDE DEF G
<1>3. \A i \in 1 .. n, a \in A : G[<<i, a>>] \in A
  BY <1>2
<1>4. PICK g : Running(n, base, G, g) /\ \A s \in SUBSET (1 .. n) : g[s] \in A
  BY <1>3, RunExists
<1>5. Sol(g)
  <2>1. ASSUME NEW s \in SUBSET (1 .. n), s # {}
        PROVE  g[s] = VaultClaim(g[s \ {Max(s)}], order[Max(s)], item)
    <3>1. Max(s) \in 1 .. n /\ g[s \ {Max(s)}] \in A
      BY <1>4, <2>1, MaxFacts
    <3> QED
      BY <1>2, <1>4, <2>1, <3>1 DEF Running
  <2>2. g = [s \in SUBSET (1 .. n) |-> g[s]] /\ g[{}] = base
    BY <1>4 DEF Running
  <2> QED
    BY <2>1, <2>2
<1>6. Sol(it)
  <2> HIDE DEF Sol
  <2> QED
    BY <1>5
<1> HIDE DEF it
<1> DEFINE h == [i \in 0 .. n |-> it[1 .. i]]
<1>7. h[0] \in J[0]
  <2>1. 1 .. 0 = {}
    OBVIOUS
  <2> QED
    BY <1>6, <2>1
<1>8. ASSUME NEW i \in 1 .. n, h[i - 1] \in J[i - 1]
      PROVE  h[i] \in J[i]
  <2>1. Max(1 .. i) = i /\ (1 .. i) \ {i} = 1 .. i - 1 /\ 1 .. i \in SUBSET (1 .. n)
    BY MaxFacts
  <2>0. i \in 1 .. i
    OBVIOUS
  <2>2. it[1 .. i] = VaultClaim(it[1 .. i - 1], order[i], item)
    BY <1>6, <2>0, <2>1
  <2>3. h[i] = VaultClaim(h[i - 1], order[i], item)
    BY <2>2
  <2> HIDE DEF h
  <2> QED
    BY <1>8, <2>3
<1>9. h[n] = it[1 .. n]
  OBVIOUS
<1> HIDE DEF h, Sol
<1> QED
  BY <1>1, <1>7, <1>8, <1>9, RunKeeps

LEMMA TakeBackKeeps ==
  ASSUME NEW n \in Nat, NEW S, NEW order \in [1 .. n -> S],
         NEW A, NEW base \in A, \A a \in A, s \in S : TakeBack(a, s) \in A,
         NEW J, Keeping(n, A, J), base \in J[0],
         \A i \in 1 .. n : \A a \in J[i - 1] : TakeBack(a, order[i]) \in J[i]
  PROVE  TakeBackAll(base, order) \in J[n]
<1> DEFINE G == [p \in (1 .. n) \X A |-> TakeBack(p[2], order[p[1]])]
           Sol(f) == f = [s \in SUBSET (1 .. n) |->
                            IF s = {} THEN base
                            ELSE TakeBack(f[s \ {Max(s)}], order[Max(s)])]
           it == CHOOSE f : Sol(f)
<1>1. TakeBackAll(base, order) = it[1 .. n]
  <2>1. DOMAIN order = 1 .. n
    OBVIOUS
  <2> QED
    BY <2>1 DEF TakeBackAll, FoldLeft, MapThenFoldSet
<1>2. \A i \in 1 .. n, a \in A : G[<<i, a>>] = TakeBack(a, order[i])
  OBVIOUS
<1> HIDE DEF G
<1>3. \A i \in 1 .. n, a \in A : G[<<i, a>>] \in A
  BY <1>2
<1>4. PICK g : Running(n, base, G, g) /\ \A s \in SUBSET (1 .. n) : g[s] \in A
  BY <1>3, RunExists
<1>5. Sol(g)
  <2>1. ASSUME NEW s \in SUBSET (1 .. n), s # {}
        PROVE  g[s] = TakeBack(g[s \ {Max(s)}], order[Max(s)])
    <3>1. Max(s) \in 1 .. n /\ g[s \ {Max(s)}] \in A
      BY <1>4, <2>1, MaxFacts
    <3> QED
      BY <1>2, <1>4, <2>1, <3>1 DEF Running
  <2>2. g = [s \in SUBSET (1 .. n) |-> g[s]] /\ g[{}] = base
    BY <1>4 DEF Running
  <2> QED
    BY <2>1, <2>2
<1>6. Sol(it)
  <2> HIDE DEF Sol
  <2> QED
    BY <1>5
<1> HIDE DEF it
<1> DEFINE h == [i \in 0 .. n |-> it[1 .. i]]
<1>7. h[0] \in J[0]
  <2>1. 1 .. 0 = {}
    OBVIOUS
  <2> QED
    BY <1>6, <2>1
<1>8. ASSUME NEW i \in 1 .. n, h[i - 1] \in J[i - 1]
      PROVE  h[i] \in J[i]
  <2>1. Max(1 .. i) = i /\ (1 .. i) \ {i} = 1 .. i - 1 /\ 1 .. i \in SUBSET (1 .. n)
    BY MaxFacts
  <2>0. i \in 1 .. i
    OBVIOUS
  <2>2. it[1 .. i] = TakeBack(it[1 .. i - 1], order[i])
    BY <1>6, <2>0, <2>1
  <2>3. h[i] = TakeBack(h[i - 1], order[i])
    BY <2>2
  <2> HIDE DEF h
  <2> QED
    BY <1>8, <2>3
<1>9. h[n] = it[1 .. n]
  OBVIOUS
<1> HIDE DEF h, Sol
<1> QED
  BY <1>1, <1>7, <1>8, <1>9, RunKeeps

-----------------------------------------------------------------------------
(* Inventories that are sound *)

\* What every operation keeps: stacks within their caps, no bag in a bag, a Vec
\* for every bag on a base slot and for nothing else there, contents only where
\* there is a Vec and a bag to hold them, and worn pieces where they fit.
Inventories == [cells : [Slots -> Fitting], bags : SUBSET Keys]

Sound(v) ==
  /\ v \in Inventories
  /\ \A s \in BagRefs : ~ IsBag(v.cells[s])
  /\ \A i \in BaseSlots : i \in v.bags <=> IsBag(v.cells[Base(i)])
  /\ \A k \in Keys, s \in BagCells : v.cells[Bag(k, s)] # Empty =>
       k \in v.bags /\ IsBag(v.cells[HostOf(k)])
  /\ \A e \in EquipSlots : v.cells[Equip(e)] # Empty =>
       v.cells[Equip(e)].item \in EquippableIn[e]

\* Which slots are which, and which differ.
LEMMA SlotKinds ==
  /\ \A i \in BaseSlots : Base(i) \in Slots /\ Base(i) \in BaseRefs
  /\ \A k \in Keys, s \in BagCells : /\ Bag(k, s) \in Slots /\ Bag(k, s) \in BagRefs
                                     /\ Bag(k, s)[2] = k /\ Bag(k, s)[3] = s
  /\ \A e \in EquipSlots : Equip(e) \in Slots /\ Equip(e) \in EquipRefs
  /\ Cursor \in Slots
  /\ \A s \in Slots : /\ Kind(s) = "bag" <=> s \in BagRefs
                      /\ Kind(s) = "base" <=> s \in BaseRefs
                      /\ Kind(s) = "equip" <=> s \in EquipRefs
                      /\ Kind(s) = "cursor" <=> s = Cursor
  /\ \A i \in BaseSlots : Base(i) = HostOf(i) /\ KeyOf(Base(i)) = i /\ i \in Keys /\ i # Held
  /\ HostOf(Held) = Cursor /\ KeyOf(Cursor) = Held /\ Held \in Keys
  /\ \A k \in Keys : k \in BaseSlots \/ k = Held
  /\ Keys = BaseSlots \cup {Held}
BY SlotFacts DEF Slots, BaseRefs, BagRefs, EquipRefs, Cursor, Kind, Base, Bag, Equip, HostOf, KeyOf, Keys

\* ensure_bag_init after an edit: what it is called for is put right, and
\* nothing is lost if no bag went away from its contents.
LEMMA EnsureSound ==
  ASSUME NEW w \in Inventories, NEW slots \in SUBSET Slots,
         \A s \in BagRefs : ~ IsBag(w.cells[s]),
         \A i \in BaseSlots \ Touched(slots) : i \in w.bags <=> IsBag(w.cells[Base(i)]),
         \A k \in Keys \ Touched(slots), s \in BagCells : w.cells[Bag(k, s)] # Empty =>
           IsBag(w.cells[HostOf(k)]) /\ (k = Held => k \in w.bags),
         \A e \in EquipSlots : w.cells[Equip(e)] # Empty =>
           w.cells[Equip(e)].item \in EquippableIn[e]
  PROVE  /\ Sound(EnsureBagsInit(w, slots))
         /\ (\A i \in Touched(slots), s \in BagCells : w.cells[Bag(i, s)] # Empty =>
               IsBag(w.cells[Base(i)]))
            => EnsureBagsInit(w, slots).cells = w.cells
<1> DEFINE T == Touched(slots)
           H == Holding(w, T)
           c == [s \in Slots |-> IF Kind(s) = "bag" /\ s[2] \in T \ H THEN Empty ELSE w.cells[s]]
           b == (w.bags \ (T \ H)) \cup H
           r == EnsureBagsInit(w, slots)
<1>1. r = [cells |-> c, bags |-> b]
  BY DEF EnsureBagsInit
<1>2. T \in SUBSET BaseSlots
  BY SlotFacts DEF Touched
<1>3. \A i \in T : i \in H <=> IsBag(w.cells[Base(i)])
  BY DEF Holding
<1>4. H \in SUBSET T
  BY DEF Holding
<1>5. c \in [Slots -> Fitting]
  BY StackFacts DEF Inventories
<1>6. \A s \in Slots : c[s] = w.cells[s] \/ (s \in BagRefs /\ c[s] = Empty)
  BY SlotKinds
<1>7. \A k \in Keys, s \in BagCells : c[Bag(k, s)] = IF k \in T \ H THEN Empty ELSE w.cells[Bag(k, s)]
  BY SlotKinds, SlotFacts
<1>8. ~ IsBag(Empty)
  BY NoItemIsNone, ItemKinds DEF IsBag, Empty
<1>9. \A s \in Slots \ BagRefs : c[s] = w.cells[s]
  BY SlotKinds
<1>10. r.cells = c /\ r.bags = b
  BY <1>1
<1> HIDE DEF c, H, r, T
<1>11. \A i \in BaseSlots : i \in b <=> IsBag(w.cells[Base(i)])
  BY <1>3, <1>4 DEF T
<1>12. b \in SUBSET Keys
  BY <1>2, <1>4, SlotKinds DEF Inventories
<1>13. \A i \in BaseSlots : c[Base(i)] = w.cells[Base(i)]
  BY <1>9, SlotKinds, SlotFacts
<1>14. c[Cursor] = w.cells[Cursor] /\ \A e \in EquipSlots : c[Equip(e)] = w.cells[Equip(e)]
  BY <1>9, SlotKinds, SlotFacts
<1>15. ASSUME NEW k \in Keys, NEW s \in BagCells, c[Bag(k, s)] # Empty
       PROVE  k \in b /\ IsBag(c[HostOf(k)])
  <2>1. k \notin T \ H
    BY <1>7, <1>15
  <2>2. w.cells[Bag(k, s)] # Empty
    BY <1>7, <1>15
  <2>3. CASE k \in T
    BY <1>2, <1>3, <1>13, <2>1, <2>3, SlotKinds
  <2>4. CASE k \notin T
    BY <1>2, <1>11, <1>13, <1>14, <2>2, <2>4, SlotKinds DEF T
  <2> QED
    BY <2>3, <2>4
<1> HIDE DEF b
<1>16. Sound(r)
  <2>1. r \in Inventories
    BY <1>1, <1>5, <1>12 DEF Inventories
  <2>2. \A s \in BagRefs : ~ IsBag(c[s])
    BY <1>6, <1>8, SlotFacts
  <2>3. \A i \in BaseSlots : i \in b <=> IsBag(c[Base(i)])
    BY <1>11, <1>13
  <2>4. \A e \in EquipSlots : c[Equip(e)] # Empty => c[Equip(e)].item \in EquippableIn[e]
    BY <1>14
  <2> QED
    BY <1>10, <1>15, <2>1, <2>2, <2>3, <2>4 DEF Sound
<1>17. ASSUME \A i \in T, s \in BagCells : w.cells[Bag(i, s)] # Empty => IsBag(w.cells[Base(i)])
       PROVE  c = w.cells
  <2>1. \A s \in BagRefs : c[s] = w.cells[s]
    <3> SUFFICES ASSUME NEW k \in Keys, NEW s \in BagCells
                 PROVE  c[Bag(k, s)] = w.cells[Bag(k, s)]
      BY DEF BagRefs
    <3> QED
      BY <1>2, <1>3, <1>7, <1>17
  <2>2. \A s \in Slots : c[s] = w.cells[s]
    BY <1>9, <2>1
  <2> QED
    BY <1>5, <2>2 DEF Inventories
<1> QED
  BY <1>10, <1>16, <1>17 DEF T, r

LEMMA SetFacts ==
  ASSUME NEW v \in Inventories, NEW slot \in Slots, NEW stack \in Fitting
  PROVE  /\ Set(v, slot, stack) \in Inventories
         /\ Set(v, slot, stack).bags = v.bags
         /\ Set(v, slot, stack).cells = [v.cells EXCEPT ![slot] = stack]
         /\ \A s \in Slots : Set(v, slot, stack).cells[s] = IF s = slot THEN stack ELSE v.cells[s]
BY DEF Set, Inventories

LEMMA TouchedIs ==
  ASSUME NEW slot \in Slots
  PROVE  /\ slot \in BaseRefs => Touched({slot}) = {slot[2]}
         /\ slot \notin BaseRefs => Touched({slot}) = {}
<1>1. CASE slot \in BaseRefs
  <2>1. {slot} \cap BaseRefs = {slot}
    BY <1>1
  <2>2. {s[2] : s \in {slot}} = {slot[2]}
    OBVIOUS
  <2> QED
    BY <1>1, <2>1, <2>2 DEF Touched
<1>2. CASE slot \notin BaseRefs
  <2>1. {slot} \cap BaseRefs = {}
    BY <1>2
  <2> QED
    BY <1>2, <2>1 DEF Touched
<1> QED
  BY <1>1, <1>2

\* Whether a slot may come to hold a stack.
Takes(v, slot, stack) ==
  /\ slot \in BagRefs => /\ ~ IsBag(stack)
                         /\ stack # Empty => slot[2] \in v.bags /\ slot[2] # Held
  /\ IsHost(slot) /\ IsBag(v.cells[slot]) /\ BagNonempty(v, KeyOf(slot)) => IsBag(stack)
  /\ slot \in EquipRefs /\ stack # Empty => stack.item \in EquippableIn[slot[2]]

\* One slot changed, and ensure_bag_init called for it.
LEMMA PutSound ==
  ASSUME NEW v, Sound(v), NEW slot \in Slots, NEW stack \in Fitting, Takes(v, slot, stack)
  PROVE  /\ Sound(EnsureBagsInit(Set(v, slot, stack), {slot}))
         /\ EnsureBagsInit(Set(v, slot, stack), {slot}).cells = [v.cells EXCEPT ![slot] = stack]
         /\ (IsBag(v.cells[slot]) => IsBag(stack)) =>
              v.bags \subseteq EnsureBagsInit(Set(v, slot, stack), {slot}).bags
         /\ slot \notin BaseRefs => Sound(Set(v, slot, stack))
<1> DEFINE w == Set(v, slot, stack)
           T == Touched({slot})
<1>1. v \in Inventories
  BY DEF Sound
<1>2. /\ w \in Inventories /\ w.bags = v.bags
      /\ w.cells = [v.cells EXCEPT ![slot] = stack]
      /\ \A s \in Slots : w.cells[s] = IF s = slot THEN stack ELSE v.cells[s]
  BY <1>1, SetFacts
<1>3. \A s \in BagRefs : ~ IsBag(w.cells[s])
  BY <1>2, SlotFacts DEF Takes, Sound
<1>4. \A i \in BaseSlots \ T : i \in w.bags <=> IsBag(w.cells[Base(i)])
  <2> SUFFICES ASSUME NEW i \in BaseSlots \ T
               PROVE  i \in w.bags <=> IsBag(w.cells[Base(i)])
    OBVIOUS
  <2>1. Base(i) # slot
    BY TouchedIs, SlotKinds, SlotFacts DEF Base
  <2> QED
    BY <1>2, <2>1, SlotKinds DEF Sound
<1>5. ASSUME NEW k \in Keys, NEW s \in BagCells, w.cells[Bag(k, s)] # Empty
      PROVE  k \in w.bags /\ IsBag(w.cells[HostOf(k)])
  <2>1. k \in v.bags /\ IsBag(v.cells[HostOf(k)])
    <3>1. CASE Bag(k, s) = slot
      <4>1. k \in v.bags /\ k # Held /\ k \in BaseSlots
        BY <1>2, <1>5, <3>1, SlotKinds DEF Takes
      <4> QED
        BY <4>1, SlotKinds DEF Sound
    <3>2. CASE Bag(k, s) # slot
      BY <1>2, <1>5, <3>2, SlotKinds DEF Sound
    <3> QED
      BY <3>1, <3>2
  <2>2. CASE HostOf(k) # slot
    <3>1. HostOf(k) \in Slots
      BY SlotKinds
    <3> QED
      BY <1>2, <2>1, <2>2, <3>1
  <2>3. CASE HostOf(k) = slot
    <3>1. IsHost(slot) /\ KeyOf(slot) = k /\ Bag(k, s) # slot
      BY <2>3, SlotKinds, SlotFacts DEF IsHost
    <3>2. v.cells[Bag(k, s)] # Empty
      BY <1>2, <1>5, <3>1, SlotKinds
    <3>3. IsBag(stack)
      BY <2>1, <2>3, <3>1, <3>2 DEF Takes, BagNonempty
    <3> QED
      BY <1>2, <2>1, <2>3, <3>3
  <2> QED
    BY <2>2, <2>3
<1>6. \A e \in EquipSlots : w.cells[Equip(e)] # Empty =>
        w.cells[Equip(e)].item \in EquippableIn[e]
  <2> SUFFICES ASSUME NEW e \in EquipSlots, w.cells[Equip(e)] # Empty
               PROVE  w.cells[Equip(e)].item \in EquippableIn[e]
    OBVIOUS
  <2>1. Equip(e) \in Slots /\ Equip(e) \in EquipRefs /\ Equip(e)[2] = e
    BY SlotKinds DEF Equip
  <2> QED
    BY <1>2, <2>1 DEF Takes, Sound
<1>7. T \in SUBSET BaseSlots
  BY SlotFacts DEF Touched
<1>8. \A i \in T : HostOf(i) = Base(i) /\ i \in Keys
  BY <1>7, SlotKinds
<1>9. Sound(EnsureBagsInit(w, {slot})) /\ EnsureBagsInit(w, {slot}).cells = w.cells
  <2> HIDE DEF w
  <2> QED
    BY <1>2, <1>3, <1>4, <1>5, <1>6, <1>8, EnsureSound
<1>10. ASSUME IsBag(v.cells[slot]) => IsBag(stack)
       PROVE  v.bags \subseteq EnsureBagsInit(w, {slot}).bags
  <2>1. EnsureBagsInit(w, {slot}).bags = (w.bags \ (T \ Holding(w, T))) \cup Holding(w, T)
    BY DEF EnsureBagsInit
  <2>2. ASSUME NEW i \in T, i \in v.bags
        PROVE  i \in Holding(w, T)
    <3>0. slot \in BaseRefs /\ i = slot[2]
      BY <2>2, TouchedIs
    <3>1. slot = Base(i) /\ i \in BaseSlots
      BY <3>0, SlotFacts
    <3>2. IsBag(v.cells[Base(i)]) /\ w.cells[Base(i)] = stack
      BY <1>2, <2>2, <3>0, <3>1 DEF Sound
    <3> QED
      BY <1>10, <2>2, <3>1, <3>2 DEF Holding
  <2> QED
    BY <1>2, <2>1, <2>2
<1>11. ASSUME slot \notin BaseRefs
       PROVE  Sound(w)
  <2>1. T = {}
    BY <1>11, TouchedIs
  <2> HIDE DEF w, T
  <2> QED
    BY <1>2, <1>3, <1>4, <1>5, <1>6, <2>1 DEF Sound
<1> QED
  BY <1>2, <1>9, <1>10, <1>11

LEMMA TotalNat ==
  ASSUME NEW v \in Inventories, NEW item
  PROVE  Total(v, item) \in Nat
<1>1. v.cells \in [Slots -> Stacks]
  BY StackFacts DEF Inventories
<1> QED
  BY <1>1, SlotFacts, CountIs DEF Total

\* What one slot more or less does to a total.
LEMMA TotalPut ==
  ASSUME NEW v \in Inventories, NEW slot \in Slots, NEW stack \in Fitting,
         NEW r, r.cells = [v.cells EXCEPT ![slot] = stack], NEW item
  PROVE  Total(r, item) = Total(v, item) - Of(v.cells[slot], item) + Of(stack, item)
<1> DEFINE c == v.cells
           d == r.cells
<1>1. c \in [Slots -> Stacks] /\ d \in [Slots -> Stacks]
  BY StackFacts DEF Inventories
<1>2. d[slot] = stack /\ \A z \in Slots \ {slot} : c[z] = d[z]
  BY DEF Inventories
<1> HIDE DEF c, d
<1>3. CountIn(d, item) = CountIn(c, item) - Of(c[slot], item) + Of(d[slot], item)
  BY <1>1, <1>2, SlotFacts, CountOne
<1> QED
  BY <1>2, <1>3 DEF Total, c, d

\* Some of a stack taken out, unless it is a bag with contents.
LEMMA RemoveSound ==
  ASSUME NEW v, Sound(v), NEW slot \in Reachable, v.cells[slot] # Empty,
         NEW n \in 1 .. v.cells[slot].count,
         IsHost(slot) /\ IsBag(v.cells[slot]) => ~ BagNonempty(v, KeyOf(slot))
  PROVE  /\ Sound(EnsureBagsInit(Remove1(v, slot, n), {slot}))
         /\ \A item \in Items : Total(EnsureBagsInit(Remove1(v, slot, n), {slot}), item)
              = Total(v, item) - IF item = v.cells[slot].item THEN n ELSE 0
<1> DEFINE a == v.cells[slot]
           stack == Stack(a.item, a.count - n)
           r == EnsureBagsInit(Remove1(v, slot, n), {slot})
<1>1. v \in Inventories /\ slot \in Slots
  BY DEF Sound, Reachable
<1>2. a \in Fitting
  BY <1>1 DEF Inventories
<1>3. /\ a.item \in Items /\ a.count \in Nat /\ a.count - n \in Nat
      /\ a.count - n <= MaxStack[a.item]
  <2> HIDE DEF a
  <2> QED
    BY <1>2, StackFacts DEF a
<1>4. stack \in Fitting /\ (stack # Empty => stack.item = a.item)
  BY <1>3, StackFacts DEF Stack
<1>5. Takes(v, slot, stack)
  <2>1. ~ IsBag(a) => ~ IsBag(stack)
    BY <1>4, NoItemIsNone, ItemKinds DEF IsBag, Empty
  <2>2. ASSUME slot \in BagRefs
        PROVE  ~ IsBag(stack) /\ (stack # Empty => slot[2] \in v.bags /\ slot[2] # Held)
    <3>1. slot = Bag(slot[2], slot[3]) /\ slot[2] \in Keys /\ slot[3] \in BagCells
      BY <2>2, SlotFacts
    <3>2. slot[2] # Held
      BY <3>1 DEF Reachable
    <3>3. slot[2] \in v.bags
      BY <3>1 DEF Sound
    <3> QED
      BY <2>1, <2>2, <3>2, <3>3 DEF Sound
  <2>3. slot \notin EquipRefs
    BY DEF Reachable
  <2> HIDE DEF stack
  <2> QED
    BY <2>2, <2>3 DEF Takes
<1>6. Remove1(v, slot, n) = Set(v, slot, stack)
  BY DEF Remove1, Peek
<1> HIDE DEF stack
<1>7. Sound(r) /\ r.cells = [v.cells EXCEPT ![slot] = stack]
  BY <1>1, <1>4, <1>5, <1>6, PutSound, SMTT(30)
<1>8. ASSUME NEW item \in Items
      PROVE  Total(r, item) = Total(v, item) - IF item = a.item THEN n ELSE 0
  <2> HIDE DEF r
  <2>1. Total(r, item) = Total(v, item) - Of(a, item) + Of(stack, item)
    BY <1>1, <1>4, <1>7, TotalPut
  <2>2. Of(stack, item) = IF item = a.item THEN a.count - n ELSE 0
    BY <1>3, StackFacts DEF stack
  <2>3. Of(a, item) = IF item = a.item THEN a.count ELSE 0
    BY DEF Of
  <2>4. Total(v, item) \in Nat
    BY <1>1, TotalNat
  <2> HIDE DEF a
  <2> QED
    BY <1>3, <2>1, <2>2, <2>3, <2>4
<1> QED
  BY <1>7, <1>8

\* Two slots changed, neither of which had or has a bag.
LEMMA PairSound ==
  ASSUME NEW v, Sound(v), NEW w \in Inventories, w.bags = v.bags,
         NEW pair \in SUBSET Slots, NEW slots \in SUBSET pair,
         \A s \in Slots \ pair : w.cells[s] = v.cells[s],
         \A s \in pair :
           /\ ~ IsBag(v.cells[s]) /\ ~ IsBag(w.cells[s])
           /\ s \in BagRefs /\ w.cells[s] # Empty => s[2] \in v.bags /\ s[2] # Held
           /\ s \in EquipRefs /\ w.cells[s] # Empty => w.cells[s].item \in EquippableIn[s[2]]
  PROVE  Sound(EnsureBagsInit(w, slots)) /\ EnsureBagsInit(w, slots).cells = w.cells
<1>1. \A s \in Slots : IsBag(w.cells[s]) <=> IsBag(v.cells[s])
  OBVIOUS
<1>2. \A s \in BagRefs : ~ IsBag(w.cells[s])
  BY <1>1, SlotFacts DEF Sound
<1>3. \A i \in BaseSlots : i \in w.bags <=> IsBag(w.cells[Base(i)])
  BY <1>1, SlotKinds DEF Sound
<1>4. ASSUME NEW k \in Keys, NEW s \in BagCells, w.cells[Bag(k, s)] # Empty
      PROVE  k \in w.bags /\ IsBag(w.cells[HostOf(k)])
  <2>1. HostOf(k) \in Slots /\ Bag(k, s) \in Slots
    BY SlotKinds
  <2>2. CASE Bag(k, s) \in pair
    <3>1. k \in v.bags /\ k \in BaseSlots
      BY <1>4, <2>2, SlotKinds
    <3> QED
      BY <1>3, <3>1, SlotKinds
  <2>3. CASE Bag(k, s) \notin pair
    <3>1. v.cells[Bag(k, s)] # Empty
      BY <1>4, <2>1, <2>3
    <3> QED
      BY <1>1, <2>1, <3>1 DEF Sound
  <2> QED
    BY <2>2, <2>3
<1>5. \A e \in EquipSlots : w.cells[Equip(e)] # Empty =>
        w.cells[Equip(e)].item \in EquippableIn[e]
  <2> SUFFICES ASSUME NEW e \in EquipSlots, w.cells[Equip(e)] # Empty
               PROVE  w.cells[Equip(e)].item \in EquippableIn[e]
    OBVIOUS
  <2>1. Equip(e) \in Slots /\ Equip(e) \in EquipRefs /\ Equip(e)[2] = e
    BY SlotKinds DEF Equip
  <2> QED
    BY <2>1 DEF Sound
<1>6. \A i \in Touched(slots) : HostOf(i) = Base(i) /\ i \in Keys
  <2>1. Touched(slots) \in SUBSET BaseSlots
    BY SlotFacts DEF Touched
  <2> QED
    BY <2>1, SlotKinds
<1> QED
  BY <1>2, <1>3, <1>4, <1>5, <1>6, EnsureSound

\* What two slots more or less do to a total.
LEMMA TotalTwo ==
  ASSUME NEW v \in Inventories, NEW w \in Inventories, NEW r, r.cells = w.cells,
         NEW x \in Slots, NEW y \in Slots, x # y,
         \A s \in Slots \ {x, y} : w.cells[s] = v.cells[s], NEW item,
         Of(w.cells[x], item) + Of(w.cells[y], item)
           = Of(v.cells[x], item) + Of(v.cells[y], item)
  PROVE  Total(r, item) = Total(v, item)
<1> DEFINE c == v.cells
           d == w.cells
<1>1. c \in [Slots -> Stacks] /\ d \in [Slots -> Stacks]
  BY StackFacts DEF Inventories
<1>2. \A z \in Slots \ {x, y} : c[z] = d[z]
  OBVIOUS
<1>3. Of(d[x], item) + Of(d[y], item) = Of(c[x], item) + Of(c[y], item)
  OBVIOUS
<1> HIDE DEF c, d
<1>4. CountIn(d, item) = CountIn(c, item) - Of(c[x], item) - Of(c[y], item)
                           + Of(d[x], item) + Of(d[y], item)
  BY <1>1, <1>2, SlotFacts, CountTwo
<1>5. CountIn(c, item) \in Nat
  BY <1>1, SlotFacts, CountIs
<1>6. /\ Of(c[x], item) \in Nat /\ Of(c[y], item) \in Nat
      /\ Of(d[x], item) \in Nat /\ Of(d[y], item) \in Nat
  BY <1>1, StackFacts
<1>7. CountIn(d, item) = CountIn(c, item)
  BY <1>3, <1>4, <1>5, <1>6
<1> QED
  BY <1>7 DEF Total, c, d

-----------------------------------------------------------------------------
(* Moves *)

\* merge_capped never fills a stack over its cap, nor loses any of it.
LEMMA LeftoverFacts ==
  ASSUME NEW b \in Fitting, b # Empty, NEW n \in Nat
  PROVE  /\ Leftover(b, n) \in 0 .. n
         /\ b.count + n - Leftover(b, n) \in 1 .. MaxStack[b.item]
<1>1. /\ b.item \in Items /\ b.count \in Nat \ {0} /\ b.count <= MaxStack[b.item]
      /\ MaxStack[b.item] \in Nat
  BY StackFacts
<1> QED
  BY <1>1 DEF Leftover, Least

LEMMA MergeSound ==
  ASSUME NEW v, Sound(v), NEW src, NEW dst, CanMove(v, src, dst),
         Merges(Peek(v, src), Peek(v, dst))
  PROVE  Sound(Move(v, src, dst)) /\ \A item \in Items : Total(Move(v, src, dst), item) = Total(v, item)
<1> DEFINE a == v.cells[src]
           b == v.cells[dst]
           left == Leftover(b, a.count)
           x == Stack(a.item, left)
           y == [b EXCEPT !.count = @ + a.count - left]
           w == [v EXCEPT !.cells[src] = x, !.cells[dst] = y]
           r == EnsureBagsInit(w, {src, dst})
<1>1. /\ v \in Inventories /\ src \in Slots /\ dst \in Slots /\ src # dst
      /\ src \in Reachable /\ dst \in Reachable
      /\ Exists(v, src) /\ Exists(v, dst) /\ a # Empty
      /\ a.item = b.item /\ ~ IsBag(a)
  BY DEF Sound, Reachable, CanMove, Merges, Peek
<1>2. a \in Fitting /\ b \in Fitting
  BY <1>1 DEF Inventories
<1> DEFINE w0 == [v EXCEPT !.cells[src] = x, !.cells[dst].count = @ + a.count - left]
<1>3. w0 = w
  BY <1>1 DEF Inventories
<1>4. Move(v, src, dst) = r
  <2>1. Move(v, src, dst) = EnsureBagsInit(w0, {src, dst})
    BY <1>1 DEF Move, Merges, Peek
  <2> HIDE DEF w, w0
  <2> QED
    BY <1>3, <2>1
<1> HIDE DEF a, b
<1>5. /\ a.item \in Items /\ a.count \in Nat \ {0} /\ a.count <= MaxStack[a.item]
      /\ MaxStack[a.item] \in Nat /\ b # Empty /\ b.count \in Nat
      /\ b = [item |-> a.item, count |-> b.count]
  BY <1>1, <1>2, StackFacts
<1>6. left \in 0 .. a.count /\ b.count + a.count - left \in 1 .. MaxStack[a.item]
  BY <1>1, <1>2, <1>5, LeftoverFacts
<1> HIDE DEF left
<1>7. y = Stack(a.item, b.count + a.count - left) /\ y.item = a.item
  BY <1>5, <1>6 DEF Stack
<1>8. x \in Fitting /\ y \in Fitting
  BY <1>5, <1>6, <1>7, StackFacts
<1>9. ~ IsBag(x) /\ ~ IsBag(y) /\ ~ IsBag(b)
  BY <1>1, <1>5, <1>7, NoItemIsNone, ItemKinds DEF IsBag, Stack, Empty
<1>10. /\ w \in Inventories /\ w.bags = v.bags
       /\ w.cells[src] = x /\ w.cells[dst] = y
       /\ \A s \in Slots \ {src, dst} : w.cells[s] = v.cells[s]
  <2> HIDE DEF x, y
  <2> QED
    BY <1>1, <1>8 DEF Inventories
<1> HIDE DEF x, y, w
<1>11. \A s \in {src, dst} :
         /\ ~ IsBag(v.cells[s]) /\ ~ IsBag(w.cells[s])
         /\ s \in BagRefs => s[2] \in v.bags /\ s[2] # Held
         /\ s \notin EquipRefs
  BY <1>1, <1>9, <1>10, SlotKinds, SlotFacts DEF a, b, Reachable, Exists
<1>12. Sound(r) /\ r.cells = w.cells
  <2> DEFINE pair == {src, dst}
  <2>1. pair \in SUBSET Slots /\ pair \in SUBSET pair
    BY <1>1
  <2>2. \A s \in Slots \ pair : w.cells[s] = v.cells[s]
    BY <1>10
  <2>3. \A s \in pair :
          /\ ~ IsBag(v.cells[s]) /\ ~ IsBag(w.cells[s])
          /\ s \in BagRefs /\ w.cells[s] # Empty => s[2] \in v.bags /\ s[2] # Held
          /\ s \in EquipRefs /\ w.cells[s] # Empty => w.cells[s].item \in EquippableIn[s[2]]
    BY <1>11
  <2> HIDE DEF pair
  <2>4. Sound(EnsureBagsInit(w, pair)) /\ EnsureBagsInit(w, pair).cells = w.cells
    BY <1>10, <2>1, <2>2, <2>3, PairSound
  <2> QED
    BY <2>4 DEF pair
<1>13. ASSUME NEW item \in Items
       PROVE  Of(x, item) + Of(y, item) = Of(a, item) + Of(b, item)
  <2>1. Of(x, item) = (IF item = a.item THEN left ELSE 0)
    BY <1>5, <1>6, StackFacts DEF x
  <2>2. Of(y, item) = (IF item = a.item THEN b.count + a.count - left ELSE 0)
    BY <1>5, <1>6, <1>7, StackFacts
  <2> QED
    BY <1>1, <1>5, <1>6, <2>1, <2>2 DEF Of
<1>14. \A item \in Items : Total(r, item) = Total(v, item)
  <2> HIDE DEF r
  <2> QED
    BY <1>1, <1>10, <1>12, <1>13, TotalTwo DEF a, b
<1> QED
  BY <1>4, <1>12, <1>14

LEMMA SwapSound ==
  ASSUME NEW v, Sound(v), NEW src, NEW dst, CanMove(v, src, dst),
         ~ Merges(Peek(v, src), Peek(v, dst)), ~ (IsHost(src) /\ IsHost(dst))
  PROVE  Sound(Move(v, src, dst)) /\ \A item \in Items : Total(Move(v, src, dst), item) = Total(v, item)
<1> DEFINE a == v.cells[src]
           b == v.cells[dst]
           w == [v EXCEPT !.cells[src] = b, !.cells[dst] = a]
           r == EnsureBagsInit(w, {src, dst})
<1>1. /\ v \in Inventories /\ src \in Slots /\ dst \in Slots /\ src # dst
      /\ src \in Reachable /\ dst \in Reachable
      /\ Exists(v, src) /\ Exists(v, dst) /\ a # Empty
      /\ (Kind(dst) = "bag" /\ Kind(src) # "bag" => ~ IsBag(a))
      /\ (Kind(src) = "bag" /\ Kind(dst) # "bag" => ~ IsBag(b))
  BY DEF Sound, Reachable, CanMove, Peek
<1>2. a \in Fitting /\ b \in Fitting
  BY <1>1 DEF Inventories
<1>3. Move(v, src, dst) = r
  BY <1>1 DEF Move, Peek
<1>4. src \notin EquipRefs /\ dst \notin EquipRefs
  BY DEF Reachable, CanMove
<1>5. ~ IsBag(a) /\ ~ IsBag(b)
  <2>1. (src \in BagRefs => ~ IsBag(a)) /\ (dst \in BagRefs => ~ IsBag(b))
    BY DEF Sound
  <2>2. src \in BagRefs \/ dst \in BagRefs
    BY <1>1, <1>4, SlotKinds, SlotFacts DEF IsHost
  <2> QED
    BY <1>1, <2>1, <2>2, SlotKinds
<1> HIDE DEF a, b
<1>6. /\ w \in Inventories /\ w.bags = v.bags
      /\ w.cells[src] = b /\ w.cells[dst] = a
      /\ \A s \in Slots \ {src, dst} : w.cells[s] = v.cells[s]
  BY <1>1, <1>2 DEF Inventories
<1> HIDE DEF w
<1>7. \A s \in {src, dst} :
         /\ ~ IsBag(v.cells[s]) /\ ~ IsBag(w.cells[s])
         /\ s \in BagRefs => s[2] \in v.bags /\ s[2] # Held
         /\ s \notin EquipRefs
  BY <1>1, <1>4, <1>5, <1>6, SlotKinds, SlotFacts DEF a, b, Reachable, Exists
<1>8. Sound(r) /\ r.cells = w.cells
  <2> DEFINE pair == {src, dst}
  <2>1. pair \in SUBSET Slots /\ pair \in SUBSET pair
    BY <1>1
  <2>2. \A s \in Slots \ pair : w.cells[s] = v.cells[s]
    BY <1>6
  <2>3. \A s \in pair :
          /\ ~ IsBag(v.cells[s]) /\ ~ IsBag(w.cells[s])
          /\ s \in BagRefs /\ w.cells[s] # Empty => s[2] \in v.bags /\ s[2] # Held
          /\ s \in EquipRefs /\ w.cells[s] # Empty => w.cells[s].item \in EquippableIn[s[2]]
    BY <1>7
  <2> HIDE DEF pair
  <2>4. Sound(EnsureBagsInit(w, pair)) /\ EnsureBagsInit(w, pair).cells = w.cells
    BY <1>6, <2>1, <2>2, <2>3, PairSound
  <2> QED
    BY <2>4 DEF pair
<1>9. \A item \in Items : Of(b, item) + Of(a, item) = Of(a, item) + Of(b, item)
  BY <1>2, StackFacts
<1>10. \A item \in Items : Total(r, item) = Total(v, item)
  <2> HIDE DEF r
  <2> QED
    BY <1>1, <1>6, <1>8, <1>9, TotalTwo DEF a, b
<1> QED
  BY <1>3, <1>8, <1>10

\* Between two hosts the bags change places with their contents.
LEMMA ExchangeSound ==
  ASSUME NEW v, Sound(v), NEW src, NEW dst, CanMove(v, src, dst),
         ~ Merges(Peek(v, src), Peek(v, dst)), IsHost(src), IsHost(dst)
  PROVE  Sound(Move(v, src, dst)) /\ \A item \in Items : Total(Move(v, src, dst), item) = Total(v, item)
<1> DEFINE k1 == KeyOf(src)
           k2 == KeyOf(dst)
           Swapped(k) == OtherHost(k, k1, k2)
           w0 == [v EXCEPT !.cells[src] = v.cells[dst], !.cells[dst] = v.cells[src]]
           w == ExchangeContents(w0, k1, k2)
           r == EnsureBagsInit(w, {src, dst})
           p == [s \in Slots |-> IF s \in BagRefs THEN Bag(Swapped(s[2]), s[3])
                                 ELSE IF s = src THEN dst ELSE IF s = dst THEN src ELSE s]
<1>1. /\ v \in Inventories /\ src \in Slots /\ dst \in Slots /\ src # dst
      /\ src \notin BagRefs /\ dst \notin BagRefs
      /\ src \notin EquipRefs /\ dst \notin EquipRefs
  BY SlotFacts DEF Sound, Reachable, CanMove, IsHost
<1>2. /\ k1 \in Keys /\ k2 \in Keys /\ k1 # k2
      /\ HostOf(k1) = src /\ HostOf(k2) = dst
  BY <1>1, SlotKinds, SlotFacts DEF IsHost
<1>3. \A k \in Keys : /\ Swapped(k) \in Keys /\ Swapped(Swapped(k)) = k
                      /\ k \notin {k1, k2} => Swapped(k) = k
                      /\ HostOf(k) \in Slots /\ HostOf(k) \notin BagRefs
  BY <1>2, SlotKinds, SlotFacts DEF OtherHost
<1>4. \A k \in Keys : p[HostOf(k)] = HostOf(Swapped(k))
  <2>1. \A k \in Keys : k \notin {k1, k2} => HostOf(k) # src /\ HostOf(k) # dst
    BY <1>1, SlotKinds, SlotFacts
  <2> QED
    BY <1>1, <1>2, <1>3, <2>1 DEF OtherHost
<1>5. \A k \in Keys, s \in BagCells : p[Bag(k, s)] = Bag(Swapped(k), s)
  <2> HIDE DEF Swapped
  <2> QED
    BY SlotKinds
<1>6. \A s \in EquipRefs : s \in Slots /\ p[s] = s
  BY <1>1, SlotFacts, SlotKinds
<1>7. p \in [Slots -> Slots]
  <2>1. \A s \in BagRefs : Bag(Swapped(s[2]), s[3]) \in Slots
    BY <1>3, SlotKinds, SlotFacts
  <2> QED
    BY <1>1, <2>1
<1>8. \A x \in Slots : p[p[x]] = x
  <2> TAKE x \in Slots
  <2>1. CASE x \in BagRefs
    <3>1. PICK k \in Keys, s \in BagCells : x = Bag(k, s)
      BY <2>1 DEF BagRefs
    <3> HIDE DEF p, Swapped
    <3> QED
      BY <1>3, <1>5, <3>1
  <2>2. CASE x \notin BagRefs
    BY <1>1, <2>2
  <2> QED
    BY <2>1, <2>2
<1>9. w0 \in Inventories /\ w0.bags = v.bags
  BY <1>1 DEF Inventories
<1>10. \A s \in Slots : w0.cells[s] = IF s = src THEN v.cells[dst]
                                      ELSE IF s = dst THEN v.cells[src] ELSE v.cells[s]
  BY <1>1 DEF Inventories
<1> HIDE DEF w0
<1>11. w.cells = [s \in Slots |-> v.cells[p[s]]]
  <2>1. w.cells = [s \in Slots |-> IF Kind(s) = "bag" THEN w0.cells[Bag(Swapped(s[2]), s[3])]
                                   ELSE w0.cells[s]]
    BY DEF ExchangeContents
  <2>2. ASSUME NEW s \in Slots
        PROVE  (IF Kind(s) = "bag" THEN w0.cells[Bag(Swapped(s[2]), s[3])] ELSE w0.cells[s])
                 = v.cells[p[s]]
    <3>1. CASE s \in BagRefs
      <4>1. Bag(Swapped(s[2]), s[3]) \in Slots /\ Bag(Swapped(s[2]), s[3]) \in BagRefs
        BY <1>3, <3>1, SlotKinds, SlotFacts
      <4>2. w0.cells[Bag(Swapped(s[2]), s[3])] = v.cells[Bag(Swapped(s[2]), s[3])]
        BY <1>1, <1>10, <4>1
      <4> QED
        BY <3>1, <4>2, SlotKinds
    <3>2. CASE s \notin BagRefs
      BY <1>10, <3>2, SlotKinds
    <3> QED
      BY <3>1, <3>2
  <2> HIDE DEF w, p, Swapped
  <2> QED
    BY <2>1, <2>2
<1>12. w.bags = {Swapped(k) : k \in v.bags}
  BY <1>9 DEF ExchangeContents
<1>13. w \in Inventories
  <2>1. w = [cells |-> w.cells, bags |-> w.bags]
    BY DEF ExchangeContents
  <2>2. w.cells \in [Slots -> Fitting]
    <3> HIDE DEF w, p
    <3> QED
      BY <1>1, <1>7, <1>11 DEF Inventories
  <2>3. w.bags \in SUBSET Keys
    BY <1>1, <1>3, <1>12 DEF Inventories
  <2> HIDE DEF w
  <2> QED
    BY <2>1, <2>2, <2>3 DEF Inventories
<1>14. Move(v, src, dst) = r
  BY DEF Move, Peek, w0
<1>15. \A k \in Keys : k \in w.bags <=> Swapped(k) \in v.bags
  <2> HIDE DEF w, Swapped
  <2> QED
    BY <1>1, <1>3, <1>12 DEF Inventories
<1>16. \A k \in Keys : w.cells[HostOf(k)] = v.cells[HostOf(Swapped(k))]
  BY <1>3, <1>4, <1>11
<1>17. \A k \in Keys, s \in BagCells : w.cells[Bag(k, s)] = v.cells[Bag(Swapped(k), s)]
  BY <1>5, <1>11, SlotKinds
<1> HIDE DEF w, p, Swapped, k1, k2
<1>18. \A s \in BagRefs : ~ IsBag(w.cells[s])
  <2> SUFFICES ASSUME NEW k \in Keys, NEW s \in BagCells
               PROVE  ~ IsBag(w.cells[Bag(k, s)])
    BY DEF BagRefs
  <2> QED
    BY <1>3, <1>17, SlotKinds DEF Sound
<1>19. ASSUME NEW k \in Keys, NEW s \in BagCells, w.cells[Bag(k, s)] # Empty
       PROVE  k \in w.bags /\ IsBag(w.cells[HostOf(k)])
  <2>1. Swapped(k) \in v.bags /\ IsBag(v.cells[HostOf(Swapped(k))])
    BY <1>3, <1>17, <1>19 DEF Sound
  <2> QED
    BY <1>15, <1>16, <2>1
<1>20. \A e \in EquipSlots : w.cells[Equip(e)] # Empty =>
         w.cells[Equip(e)].item \in EquippableIn[e]
  <2>1. \A e \in EquipSlots : w.cells[Equip(e)] = v.cells[Equip(e)]
    BY <1>6, <1>11, SlotKinds
  <2> QED
    BY <2>1 DEF Sound
<1> DEFINE pair == {src, dst}
<1>21. \A k \in {k1, k2} : k \in BaseSlots => k \in Touched(pair)
  <2>1. \A k \in {k1, k2} : k \in BaseSlots => Base(k) \in pair /\ Base(k) \in BaseRefs /\ Base(k)[2] = k
    BY <1>2, SlotKinds DEF Base
  <2> QED
    BY <2>1 DEF Touched
<1>22. \A i \in BaseSlots \ Touched(pair) : i \in w.bags <=> IsBag(w.cells[Base(i)])
  <2> SUFFICES ASSUME NEW i \in BaseSlots \ Touched(pair)
               PROVE  i \in w.bags <=> IsBag(w.cells[Base(i)])
    OBVIOUS
  <2>1. i \in Keys /\ Swapped(i) = i /\ HostOf(i) = Base(i)
    BY <1>3, <1>21, SlotKinds
  <2> QED
    BY <1>15, <1>16, <2>1 DEF Sound
<1>23. Touched(pair) \in SUBSET BaseSlots
  BY SlotFacts DEF Touched
<1>24. \A i \in Touched(pair) : HostOf(i) = Base(i) /\ i \in Keys
  BY <1>23, SlotKinds
<1>25. pair \in SUBSET Slots
  BY <1>1
<1> HIDE DEF pair
<1>26. Sound(EnsureBagsInit(w, pair)) /\ EnsureBagsInit(w, pair).cells = w.cells
  BY <1>13, <1>18, <1>19, <1>20, <1>22, <1>24, <1>25, EnsureSound
<1>27. Sound(r) /\ r.cells = w.cells
  BY <1>26 DEF pair
<1>28. ASSUME NEW item \in Items
       PROVE  Total(r, item) = Total(v, item)
  <2> DEFINE c == v.cells
             d == w.cells
  <2>1. c \in [Slots -> Stacks] /\ d \in [Slots -> Stacks]
    BY <1>1, <1>13, StackFacts DEF Inventories
  <2>2. \A x \in Slots : d[x] = c[p[x]]
    BY <1>11
  <2>3. (\A x, y \in Slots : p[x] = p[y] => x = y) /\ \A y \in Slots : \E x \in Slots : p[x] = y
    BY <1>7, <1>8
  <2> HIDE DEF c, d
  <2>4. CountIn(d, item) = CountIn(c, item)
    BY <1>7, <2>1, <2>2, <2>3, SlotFacts, CountMoved
  <2> HIDE DEF r
  <2> QED
    BY <1>27, <2>4 DEF Total, c, d
<1> QED
  BY <1>14, <1>27, <1>28

LEMMA MoveSound ==
  ASSUME NEW v, Sound(v), NEW src, NEW dst, CanMove(v, src, dst)
  PROVE  Sound(Move(v, src, dst)) /\ \A item \in Items : Total(Move(v, src, dst), item) = Total(v, item)
BY MergeSound, SwapSound, ExchangeSound

\* A split loses nothing, unless it takes the last of a bag with contents.
LEMMA SplitSound ==
  ASSUME NEW v, Sound(v), NEW src \in BaseRefs, NEW dst \in BaseRefs, NEW n \in Int,
         CanSplit(v, src, dst, n)
  PROVE  /\ Sound(Split(v, src, dst, n))
         /\ ~ BagNonempty(v, KeyOf(src)) =>
              \A item \in Items : Total(Split(v, src, dst, n), item) = Total(v, item)
<1> DEFINE a == v.cells[src]
           b == v.cells[dst]
           x == Stack(a.item, a.count - n)
           y == Stack(a.item, b.count + n)
           w == [v EXCEPT !.cells[src] = x, !.cells[dst] = y]
           pair == {src, dst}
           r == EnsureBagsInit(w, pair)
<1>1. /\ v \in Inventories /\ src \in Slots /\ dst \in Slots /\ src # dst
      /\ src \notin BagRefs /\ dst \notin BagRefs
      /\ src \notin EquipRefs /\ dst \notin EquipRefs
      /\ src = Base(src[2]) /\ dst = Base(dst[2])
      /\ src[2] \in BaseSlots /\ dst[2] \in BaseSlots /\ KeyOf(src) = src[2]
  BY SlotFacts, SlotKinds DEF Sound, CanSplit
<1>2. a \in Fitting /\ b \in Fitting
  BY <1>1 DEF Inventories
<1>3. Split(v, src, dst, n) = r
  BY DEF Split, Peek
<1>4. /\ n > 0 /\ a.count >= n
      /\ b = Empty \/ (b.item = a.item /\ b.count + n <= MaxStack[a.item])
  BY DEF CanSplit, Peek
<1> HIDE DEF a, b
<1>5. /\ a.item \in Items /\ a.count \in Nat \ {0} /\ a.count <= MaxStack[a.item]
      /\ MaxStack[a.item] \in Nat /\ b.count \in Nat /\ (b = Empty => b.count = 0)
  BY <1>2, <1>4, StackFacts
<1>6. /\ a.count - n \in Nat /\ a.count - n <= MaxStack[a.item]
      /\ b.count + n \in Nat \ {0} /\ b.count + n <= MaxStack[a.item]
  BY <1>4, <1>5
<1>7. x \in Fitting /\ y \in Fitting
  BY <1>5, <1>6, StackFacts
<1>8. (IsBag(b) => IsBag(y)) /\ (~ IsBag(a) => ~ IsBag(x))
  BY <1>4, <1>5, <1>6, NoItemIsNone, ItemKinds DEF IsBag, Stack, Empty
<1>9. /\ w \in Inventories /\ w.bags = v.bags
      /\ w.cells[src] = x /\ w.cells[dst] = y
      /\ \A s \in Slots \ pair : w.cells[s] = v.cells[s]
  <2> HIDE DEF x, y
  <2> QED
    BY <1>1, <1>7 DEF Inventories
<1> HIDE DEF x, y, w
<1>10. \A s \in BagRefs \cup EquipRefs \cup {Cursor} : w.cells[s] = v.cells[s]
  BY <1>1, <1>9, SlotFacts
<1>11. Touched(pair) = {src[2], dst[2]}
  <2>1. pair \cap BaseRefs = {src, dst}
    OBVIOUS
  <2>2. {s[2] : s \in {src, dst}} = {src[2], dst[2]}
    OBVIOUS
  <2> QED
    BY <2>1, <2>2 DEF Touched
<1>12. \A i \in BaseSlots \ Touched(pair) : w.cells[Base(i)] = v.cells[Base(i)]
  BY <1>1, <1>9, <1>11, SlotKinds, SlotFacts
<1> HIDE DEF pair
<1>13. pair \in SUBSET Slots
  BY <1>1 DEF pair
<1>14. \A k \in Keys \ Touched(pair), s \in BagCells : w.cells[Bag(k, s)] # Empty =>
         IsBag(w.cells[HostOf(k)]) /\ (k = Held => k \in w.bags)
  <2> SUFFICES ASSUME NEW k \in Keys \ Touched(pair), NEW s \in BagCells,
                      w.cells[Bag(k, s)] # Empty
               PROVE  IsBag(w.cells[HostOf(k)]) /\ k \in w.bags
    OBVIOUS
  <2>1. v.cells[Bag(k, s)] # Empty
    BY <1>10, SlotKinds
  <2>2. w.cells[HostOf(k)] = v.cells[HostOf(k)]
    BY <1>10, <1>12, SlotKinds
  <2> QED
    BY <1>9, <2>1, <2>2 DEF Sound
<1>15. \A i \in BaseSlots \ Touched(pair) : i \in w.bags <=> IsBag(w.cells[Base(i)])
  BY <1>9, <1>12 DEF Sound
<1>16. /\ \A s \in BagRefs : ~ IsBag(w.cells[s])
       /\ \A e \in EquipSlots : w.cells[Equip(e)] # Empty =>
            w.cells[Equip(e)].item \in EquippableIn[e]
  BY <1>10, SlotKinds DEF Sound
<1>17. Sound(r)
  BY <1>9, <1>13, <1>14, <1>15, <1>16, EnsureSound
<1>18. ASSUME ~ BagNonempty(v, KeyOf(src)), NEW item \in Items
       PROVE  Total(r, item) = Total(v, item)
  <2>1. ASSUME NEW i \in Touched(pair), NEW s \in BagCells, w.cells[Bag(i, s)] # Empty
        PROVE  IsBag(w.cells[Base(i)])
    <3>1. i \in Keys /\ i \in {src[2], dst[2]}
      BY <1>1, <1>11, <2>1, SlotKinds
    <3>2. v.cells[Bag(i, s)] # Empty
      BY <1>10, <2>1, <3>1, SlotKinds
    <3>3. i = dst[2]
      BY <1>1, <1>18, <3>1, <3>2 DEF BagNonempty
    <3>4. IsBag(b)
      BY <1>1, <3>1, <3>2, <3>3, SlotKinds DEF Sound, b
    <3> QED
      BY <1>1, <1>8, <1>9, <3>3, <3>4
  <2>2. r.cells = w.cells
    BY <1>9, <1>13, <1>14, <1>15, <1>16, <2>1, EnsureSound
  <2>3. Of(x, item) = (IF item = a.item THEN a.count - n ELSE 0)
    BY <1>5, <1>6, StackFacts DEF x
  <2>4. Of(y, item) = (IF item = a.item THEN b.count + n ELSE 0)
    BY <1>5, <1>6, StackFacts DEF y
  <2>5. Of(x, item) + Of(y, item) = Of(a, item) + Of(b, item)
    BY <1>4, <1>5, <2>3, <2>4, NoItemIsNone DEF Of, Empty
  <2>6. \A s \in Slots \ {src, dst} : w.cells[s] = v.cells[s]
    BY <1>9 DEF pair
  <2> HIDE DEF r
  <2> QED
    BY <1>1, <1>9, <2>2, <2>5, <2>6, TotalTwo DEF a, b
<1> QED
  BY <1>3, <1>17, <1>18

\* A piece and what is worn change places.
LEMMA WearSound ==
  ASSUME NEW v, Sound(v), NEW src \in Reachable, Exists(v, src), NEW e \in EquipSlots,
         v.cells[src] = Empty \/ v.cells[src].item \in EquippableIn[e]
  PROVE  LET r == EnsureBagsInit([v EXCEPT !.cells[src] = v.cells[Equip(e)],
                                           !.cells[Equip(e)] = v.cells[src]], {src})
         IN  Sound(r) /\ \A item \in Items : Total(r, item) = Total(v, item)
<1> DEFINE dst == Equip(e)
           a == v.cells[src]
           b == v.cells[dst]
           w == [v EXCEPT !.cells[src] = b, !.cells[dst] = a]
           r == EnsureBagsInit(w, {src})
<1>1. /\ v \in Inventories /\ src \in Slots /\ dst \in Slots /\ src # dst
      /\ dst \in EquipRefs /\ dst \notin BagRefs /\ src \notin EquipRefs /\ dst[2] = e
  BY SlotKinds, SlotFacts DEF Sound, Reachable, Equip
<1>2. a \in Fitting /\ b \in Fitting
  BY <1>1 DEF Inventories
<1>3. b = Empty \/ b.item \in EquippableIn[e]
  BY DEF Sound
<1>4. ~ IsBag(a) /\ ~ IsBag(b)
  BY <1>3, NoItemIsNone, ItemKinds DEF IsBag, Empty
<1>5. a = Empty \/ a.item \in EquippableIn[e]
  OBVIOUS
<1> HIDE DEF a, b
<1>6. /\ w \in Inventories /\ w.bags = v.bags
      /\ w.cells[src] = b /\ w.cells[dst] = a
      /\ \A s \in Slots \ {src, dst} : w.cells[s] = v.cells[s]
  <2> HIDE DEF dst
  <2> QED
    BY <1>1, <1>2 DEF Inventories
<1> HIDE DEF w
<1>7. Sound(r) /\ r.cells = w.cells
  <2> DEFINE pair == {src, dst}
             one == {src}
  <2>1. pair \in SUBSET Slots /\ one \in SUBSET pair
    BY <1>1
  <2>2. \A s \in Slots \ pair : w.cells[s] = v.cells[s]
    BY <1>6
  <2>3. \A s \in pair :
          /\ ~ IsBag(v.cells[s]) /\ ~ IsBag(w.cells[s])
          /\ s \in BagRefs /\ w.cells[s] # Empty => s[2] \in v.bags /\ s[2] # Held
          /\ s \in EquipRefs /\ w.cells[s] # Empty => w.cells[s].item \in EquippableIn[s[2]]
    BY <1>1, <1>4, <1>5, <1>6, SlotKinds, SlotFacts DEF a, b, Reachable, Exists
  <2> HIDE DEF pair, one
  <2>4. Sound(EnsureBagsInit(w, one)) /\ EnsureBagsInit(w, one).cells = w.cells
    BY <1>6, <2>1, <2>2, <2>3, PairSound
  <2> QED
    BY <2>4 DEF one
<1>8. \A item \in Items : Of(b, item) + Of(a, item) = Of(a, item) + Of(b, item)
  BY <1>2, StackFacts
<1>9. \A item \in Items : Total(r, item) = Total(v, item)
  <2> HIDE DEF r, dst
  <2> QED
    BY <1>1, <1>6, <1>7, <1>8, TotalTwo DEF a, b
<1> QED
  BY <1>7, <1>9 DEF w, a, b

LEMMA EquipSound ==
  ASSUME NEW v, Sound(v), NEW src, NEW e \in EquipSlots, CanEquip(v, src, e)
  PROVE  Sound(EquipFrom(v, src, e)) /\
         \A item \in Items : Total(EquipFrom(v, src, e), item) = Total(v, item)
<1>1. src \in Reachable /\ Exists(v, src) /\ v.cells[src].item \in EquippableIn[e]
  BY DEF CanEquip, Peek
<1> QED
  BY <1>1, WearSound DEF EquipFrom, Peek

LEMMA UnequipSound ==
  ASSUME NEW v, Sound(v), NEW e \in EquipSlots, NEW dst, CanUnequip(v, e, dst)
  PROVE  Sound(Unequip(v, e, dst)) /\
         \A item \in Items : Total(Unequip(v, e, dst), item) = Total(v, item)
<1>1. dst \in BaseRefs \cup {Cursor}
  BY DEF CanUnequip
<1>2. dst \in Reachable /\ Exists(v, dst)
  BY <1>1, SlotFacts, SlotKinds DEF Reachable, Exists
<1>3. v.cells[dst] = Empty \/ v.cells[dst].item \in EquippableIn[e]
  BY DEF CanUnequip, Peek
<1> QED
  BY <1>2, <1>3, WearSound DEF Unequip, Peek

\* The scan goes through the slots in one order.
LEMMA ScannedFacts ==
  \A x, y, z \in BaseRefs \cup BagRefs :
    /\ ~ Scanned(x, x)
    /\ x # y => Scanned(x, y) \/ Scanned(y, x)
    /\ Scanned(x, y) /\ Scanned(y, z) => Scanned(x, z)
<1>1. \A x \in BaseRefs \cup BagRefs : /\ x[1] = "base" \/ x[1] = "bag"
                                       /\ x[2] \in Nat /\ x[3] \in Nat
                                       /\ x = <<x[1], x[2], x[3]>>
  BY SlotFacts DEF Kind, Base, Bag
<1> QED
  BY <1>1 DEF Scanned

\* There is a slot to park in if there is one at all.
LEMMA ParkSlotIs ==
  ASSUME NEW v, ParkSlots(v) # {}
  PROVE  ParkSlot(v) \in ParkSlots(v)
<1> DEFINE P == ParkSlots(v)
           First(s) == \E x \in s : \A t \in s \ {x} : Scanned(x, t)
           T == {s \in SUBSET P : s # {} => First(s)}
<1>1. P \subseteq BaseRefs \cup BagRefs /\ IsFiniteSet(P)
  <2>1. P \subseteq Usable(v)
    BY DEF ParkSlots
  <2> QED
    BY <2>1, ScanLists, FS_Subset
<1> HIDE DEF P
<1>2. {} \in T
  OBVIOUS
<1>3. ASSUME NEW s \in SUBSET P, s # {}, \A x \in s : s \ {x} \in T
      PROVE  s \in T
  <2>1. PICK x \in s : TRUE
    BY <1>3
  <2>2. CASE s \ {x} = {}
    <3>1. \A t \in s \ {x} : Scanned(x, t)
      BY <2>2
    <3> QED
      BY <2>1, <3>1
  <2>3. CASE s \ {x} # {}
    <3>1. PICK y \in s \ {x} : \A t \in (s \ {x}) \ {y} : Scanned(y, t)
      BY <1>3, <2>3
    <3>2. x \in BaseRefs \cup BagRefs /\ \A t \in s : t \in BaseRefs \cup BagRefs
      BY <1>1
    <3>3. CASE Scanned(x, y)
      <4>1. \A t \in s \ {x} : Scanned(x, t)
        BY <3>1, <3>2, <3>3, ScannedFacts
      <4> QED
        BY <4>1
    <3>4. CASE Scanned(y, x)
      <4>1. \A t \in s \ {y} : Scanned(y, t)
        BY <3>1, <3>4
      <4> QED
        BY <4>1
    <3> QED
      BY <3>1, <3>2, <3>3, <3>4, ScannedFacts
  <2> QED
    BY <2>2, <2>3
<1> HIDE DEF T
<1>4. P \in T
  BY <1>1, <1>2, <1>3, SubsetInduction
<1>5. \E x \in P : \A t \in P \ {x} : Scanned(x, t)
  BY <1>4 DEF P, T
<1> QED
  BY <1>5 DEF ParkSlot, P

LEMMA ParkSound ==
  ASSUME NEW v, Sound(v), CanPark(v)
  PROVE  Sound(Park(v)) /\ \A item \in Items : Total(Park(v), item) = Total(v, item)
<1> DEFINE s == ParkSlot(v)
<1>1. s \in ParkSlots(v)
  BY ParkSlotIs DEF CanPark
<1> HIDE DEF s
<1>2. /\ s \in Usable(v) /\ Peek(v, s) = Empty
      /\ Kind(s) = "bag" => ~ IsBag(Peek(v, Cursor))
  BY <1>1 DEF ParkSlots
<1>3. s \in Slots /\ s \notin EquipRefs /\ s # Cursor /\ Exists(v, s)
  BY <1>2, SlotFacts, SlotKinds DEF Usable, Exists
<1>4. s \notin {Bag(Held, c) : c \in BagCells}
  BY <1>2, SlotFacts, SlotKinds DEF Usable
<1>5. Cursor \in Reachable /\ Exists(v, Cursor) /\ Kind(Cursor) = "cursor"
  BY SlotFacts, SlotKinds DEF Reachable, Exists
<1>6. CanMove(v, Cursor, s)
  BY <1>2, <1>3, <1>4, <1>5 DEF CanMove, CanPark, Reachable
<1> QED
  BY <1>6, MoveSound DEF Park, s

-----------------------------------------------------------------------------
(* Taking out *)

LEMMA DestroySound ==
  ASSUME NEW v, Sound(v), NEW slot, NEW n \in Nat, CanDestroy(v, slot)
  PROVE  /\ Sound(DestroyAt(v, slot, n))
         /\ Peek(v, slot).item \in Items
         /\ Taken(Peek(v, slot), n) \in 1 .. Peek(v, slot).count
         /\ n \in 1 .. Peek(v, slot).count => Taken(Peek(v, slot), n) = n
         /\ \A item \in Items : Total(DestroyAt(v, slot, n), item)
              = Total(v, item) - IF item = Peek(v, slot).item THEN Taken(Peek(v, slot), n) ELSE 0
<1> DEFINE a == v.cells[slot]
<1>1. slot \in Reachable /\ slot \in Slots /\ a # Empty /\ a \in Fitting
  BY DEF Sound, Inventories, CanDestroy, Reachable, Peek
<1>2. a.count \in Nat \ {0} /\ a.item \in Items
  BY <1>1, StackFacts
<1>3. Taken(a, n) \in 1 .. a.count /\ (n \in 1 .. a.count => Taken(a, n) = n)
  BY <1>2 DEF Taken
<1>4. IsHost(slot) => ~ BagNonempty(v, KeyOf(slot))
  BY DEF CanDestroy
<1> QED
  BY <1>1, <1>2, <1>3, <1>4, RemoveSound DEF DestroyAt, Peek

LEMMA DecrementSound ==
  ASSUME NEW v, Sound(v), NEW slot, CanDecrement(v, slot), ~ IsBag(Peek(v, slot))
  PROVE  /\ Sound(DecrementAt(v, slot))
         /\ Peek(v, slot).item \in Items
         /\ \A item \in Items : Total(DecrementAt(v, slot), item)
              = Total(v, item) - IF item = Peek(v, slot).item THEN 1 ELSE 0
<1> DEFINE a == v.cells[slot]
<1>1. slot \in Reachable /\ slot \in Slots /\ a # Empty /\ a \in Fitting
  BY DEF Sound, Inventories, CanDecrement, Reachable, Peek
<1>2. a.item \in Items /\ 1 \in 1 .. a.count
  BY <1>1, StackFacts
<1> QED
  BY <1>1, <1>2, RemoveSound DEF DecrementAt, Peek

-----------------------------------------------------------------------------
(* Putting in *)

RoomMap(v, item) == [s \in Slots |-> RoomAt(v.cells[s], s, item)]

\* The room for an item in the slots U.
RoomOver(v, U, item) == SumFunctionOnSet(RoomMap(v, item), U)

\* What u holds in a slot it held in v, and no less of it.
Grown(v, u) ==
  \A s \in Slots : v.cells[s] # Empty =>
    u.cells[s].item = v.cells[s].item /\ u.cells[s].count >= v.cells[s].count

\* How far the placer may have come with m of an item: what it has put is
\* there, no other item is more or less, and the room is less by as much.
Accs(v, item, m) ==
  {acc \in [inv : Inventories, left : 0 .. m] :
     /\ Sound(acc.inv) /\ v.bags \subseteq acc.inv.bags /\ Grown(v, acc.inv)
     /\ Total(acc.inv, item) + acc.left = Total(v, item) + m
     /\ \A x \in Items \ {item} : Total(acc.inv, x) = Total(v, x)
     /\ RoomOver(acc.inv, Usable(v), item) - acc.left = RoomOver(v, Usable(v), item) - m}

LEMMA RoomFacts ==
  ASSUME NEW v \in Inventories, NEW U \in SUBSET Slots, NEW item \in Items
  PROVE  /\ \A s \in U : RoomMap(v, item)[s] \in Nat
         /\ RoomOver(v, U, item) \in Nat
         /\ (\A s \in U : RoomAt(v.cells[s], s, item) = 0) => RoomOver(v, U, item) = 0
<1>1. IsFiniteSet(U)
  BY SlotFacts, FS_Subset
<1>2. \A a \in Fitting : RoomIn(a, item) \in Nat
  BY StackFacts DEF RoomIn
<1>3. \A s \in U : RoomMap(v, item)[s] = RoomAt(v.cells[s], s, item)
  BY DEF RoomMap
<1>4. \A s \in U : RoomMap(v, item)[s] \in Nat
  BY <1>2, <1>3 DEF RoomAt, Inventories
<1> QED
  BY <1>1, <1>3, <1>4, SumNat DEF RoomOver

\* One slot the placer may use, of this item or empty.
LEMMA PutIntoKeeps ==
  ASSUME NEW v, Sound(v), NEW item \in Items, NEW m \in Nat, NEW acc \in Accs(v, item, m),
         NEW slot \in Usable(v),
         \/ Peek(acc.inv, slot).item = item
         \/ Peek(acc.inv, slot) = Empty /\ ~ (Kind(slot) = "bag" /\ item \in BagItems)
  PROVE  LET r == PutInto(acc, slot, item)
         IN  /\ r \in Accs(v, item, m) /\ r.left <= acc.left
             /\ r.left > 0 => r.inv.cells[slot] = [item |-> item, count |-> MaxStack[item]]
             /\ \A s \in Slots \ {slot} : r.inv.cells[s] = acc.inv.cells[s]
<1> DEFINE U == Usable(v)
           i == acc.inv
           a == i.cells[slot]
           has == a.count
           n == Least(acc.left, MaxStack[item] - Least(has, MaxStack[item]))
           new == [item |-> item, count |-> has + n]
           put == Set(i, slot, new)
           j == EnsureBagsInit(put, {slot})
           r == PutInto(acc, slot, item)
<1>1. /\ i \in Inventories /\ Sound(i) /\ acc.left \in Nat /\ acc.left <= m
      /\ acc = [inv |-> i, left |-> acc.left] /\ v.bags \subseteq i.bags
  BY DEF Accs
<1>2. slot \in U /\ slot \in Slots /\ U \in SUBSET Slots /\ slot \in BaseRefs \cup BagRefs /\ IsFiniteSet(U)
  BY ScanLists
<1>3. a \in Fitting
  BY <1>1, <1>2 DEF Inventories
<1>4. a.item = item \/ (a = Empty /\ ~ (slot \in BagRefs /\ item \in BagItems))
  BY <1>2, SlotKinds DEF Peek
<1>5. r = IF n = 0 THEN acc ELSE [inv |-> j, left |-> acc.left - n]
  BY DEF PutInto, Peek
<1>6. slot \in BagRefs => slot[2] \in i.bags /\ slot[2] # Held
  BY <1>1, SlotFacts DEF Usable
<1>7. slot \in BagRefs => ~ IsBag(a)
  BY <1>1 DEF Sound
<1> HIDE DEF U, a, r
<1>8. /\ has \in Nat /\ has <= MaxStack[item] /\ MaxStack[item] \in Nat \ {0} /\ item # NoItem
      /\ (a = Empty => has = 0) /\ (a.item = item => a # Empty)
  BY <1>3, <1>4, StackFacts
<1>9. /\ n \in Nat /\ n <= acc.left /\ has + n <= MaxStack[item]
      /\ n = acc.left \/ has + n = MaxStack[item]
  BY <1>1, <1>8 DEF Least
<1>10. CASE n = 0
  <2>1. r = acc
    BY <1>5, <1>10
  <2>2. ASSUME acc.left > 0
        PROVE  a = [item |-> item, count |-> MaxStack[item]]
    <3>1. has = MaxStack[item]
      BY <1>8, <1>9, <1>10, <2>2
    <3>2. a.item = item
      BY <1>4, <1>8, <3>1
    <3> QED
      BY <1>3, <3>1, <3>2, StackFacts
  <2> HIDE DEF n
  <2>3. r.left <= acc.left
    BY <1>1, <2>1
  <2> QED
    BY <2>1, <2>2, <2>3 DEF r, a
<1>11. CASE n # 0
  <2>1. new \in Fitting /\ new # Empty /\ new.item = item /\ new.count = has + n
    <3>1. new = Stack(item, has + n)
      BY <1>8, <1>9, <1>11 DEF Stack
    <3>2. has + n \in Nat
      BY <1>8, <1>9
    <3>3. new \in Fitting
      BY <1>9, <3>1, <3>2, StackFacts
    <3> QED
      BY <1>8, <3>3 DEF Empty
  <2> HIDE DEF n, new
  <2>2. IsBag(a) => IsBag(new)
    BY <1>4, <2>1, NoItemIsNone, ItemKinds DEF IsBag, Empty
  <2>3. Takes(i, slot, new)
    <3>1. slot \in BagRefs => ~ IsBag(new)
      BY <1>4, <1>7, <2>1 DEF IsBag
    <3>2. slot \notin EquipRefs
      BY <1>2, SlotFacts
    <3> QED
      BY <1>6, <2>2, <3>1, <3>2 DEF Takes, a
  <2>4. /\ Sound(j) /\ j.cells = [i.cells EXCEPT ![slot] = new]
        /\ i.bags \subseteq j.bags
    BY <1>1, <1>2, <2>1, <2>2, <2>3, PutSound DEF a
  <2> HIDE DEF j
  <2>5. j \in Inventories /\ j.cells[slot] = new /\ \A s \in Slots \ {slot} : j.cells[s] = i.cells[s]
    BY <1>1, <1>2, <2>4 DEF Sound, Inventories
  <2>6. \A x \in Items : Total(j, x) = Total(i, x) - Of(a, x) + Of(new, x)
    BY <1>1, <1>2, <2>1, <2>4, TotalPut DEF a
  <2>7. \A x \in Items : Total(i, x) \in Nat /\ Total(v, x) \in Nat
    BY <1>1, TotalNat DEF Sound
  <2>8. Total(j, item) = Total(i, item) + n
    <3>1. Of(a, item) = has /\ Of(new, item) = has + n
      BY <1>4, <1>8, <2>1, StackFacts DEF Of
    <3> QED
      BY <1>8, <1>9, <2>6, <2>7, <3>1
  <2>9. ASSUME NEW x \in Items \ {item}
        PROVE  Total(j, x) = Total(i, x)
    <3>1. Of(a, x) = 0 /\ Of(new, x) = 0
      BY <1>4, <2>1, StackFacts DEF Of
    <3> QED
      BY <2>6, <2>7, <3>1
  <2>10. RoomOver(j, U, item) = RoomOver(i, U, item) - n
    <3> DEFINE f == RoomMap(i, item)
               g == RoomMap(j, item)
    <3>1. \A z \in U : f[z] \in Int /\ g[z] \in Int
      <4>1. \A z \in U : RoomMap(i, item)[z] \in Nat
        BY <1>1, <1>2, RoomFacts
      <4>2. \A z \in U : RoomMap(j, item)[z] \in Nat
        BY <1>2, <2>5, RoomFacts
      <4> HIDE DEF i
      <4> QED
        BY <4>1, <4>2
    <3>2. \A z \in U \ {slot} : f[z] = g[z]
      BY <1>2, <2>5 DEF RoomMap
    <3>3. f[slot] = MaxStack[item] - has
      <4>1. f[slot] = RoomAt(a, slot, item)
        BY <1>2 DEF RoomMap, a
      <4> QED
        BY <1>2, <1>4, <1>8, <4>1, SlotKinds DEF RoomAt, RoomIn
    <3>4. g[slot] = MaxStack[item] - (has + n)
      <4>1. g[slot] = RoomAt(new, slot, item)
        BY <1>2, <2>5 DEF RoomMap
      <4> QED
        BY <2>1, <4>1 DEF RoomAt, RoomIn
    <3> HIDE DEF f, g
    <3>5. SumFunctionOnSet(g, U) = SumFunctionOnSet(f, U) - f[slot] + g[slot]
      BY <1>2, <3>1, <3>2, SumOne
    <3>6. SumFunctionOnSet(f, U) \in Int
      BY <1>2, <3>1, SumIs
    <3> QED
      BY <1>8, <1>9, <3>3, <3>4, <3>5, <3>6 DEF RoomOver, f, g
  <2>11. RoomOver(i, U, item) \in Nat /\ RoomOver(v, U, item) \in Nat
    BY <1>1, <1>2, RoomFacts DEF Sound
  <2>12. r.inv = j /\ r.left = acc.left - n /\ r = [inv |-> j, left |-> acc.left - n]
    BY <1>5, <1>11
  <2> HIDE DEF i
  <2>13. r \in Accs(v, item, m)
    <3>1. r \in [inv : Inventories, left : 0 .. m]
      BY <1>1, <1>9, <2>5, <2>12
    <3>2. v.bags \subseteq j.bags
      BY <1>1, <2>4
    <3>3. Total(i, item) + acc.left = Total(v, item) + m
      BY DEF Accs, i
    <3>4. RoomOver(i, U, item) - acc.left = RoomOver(v, U, item) - m
      BY DEF Accs, i, U
    <3>5. \A x \in Items \ {item} : Total(j, x) = Total(v, x)
      BY <2>9 DEF Accs, i
    <3>6. Total(j, item) + (acc.left - n) = Total(v, item) + m
      BY <1>1, <1>9, <2>7, <2>8, <3>3
    <3>7. RoomOver(j, U, item) - (acc.left - n) = RoomOver(v, U, item) - m
      BY <1>1, <1>9, <2>10, <2>11, <3>4
    <3>8. Grown(v, j)
      <4>1. Grown(v, i)
        BY DEF Accs, i
      <4>2. \A s \in Slots : v.cells[s].count \in Nat /\ i.cells[s].count \in Nat
        BY <1>1, StackFacts DEF Sound, Inventories, Fitting
      <4>3. v.cells[slot] # Empty => new.item = v.cells[slot].item /\ new.count >= v.cells[slot].count
        <5> SUFFICES ASSUME v.cells[slot] # Empty
                     PROVE  new.item = v.cells[slot].item /\ new.count >= v.cells[slot].count
          OBVIOUS
        <5>1. a.item = v.cells[slot].item /\ a.count >= v.cells[slot].count
          BY <1>2, <4>1 DEF Grown, a, i
        <5>2. v.cells[slot] \in Stacks /\ v.cells[slot].item # NoItem /\ v.cells[slot].count # 0
          BY <1>2, StackFacts DEF Sound, Inventories, Fitting
        <5>3. a.item = item
          BY <1>4, <5>1, <5>2 DEF Empty
        <5> QED
          BY <1>2, <1>8, <1>9, <2>1, <4>2, <5>1, <5>3
      <4> QED
        BY <1>2, <2>5, <4>1, <4>3 DEF Grown
    <3> QED
      BY <2>4, <2>12, <3>1, <3>2, <3>5, <3>6, <3>7, <3>8 DEF Accs, U
  <2>14. r.left <= acc.left /\ (r.left > 0 => new.count = MaxStack[item])
    BY <1>1, <1>9, <2>1, <2>12
  <2> QED
    BY <2>1, <2>5, <2>12, <2>13, <2>14 DEF r, i, new
<1> QED
  BY <1>10, <1>11

\* No room is left in the item's stacks, and in none of the slots.
Filled(item) == [item |-> item, count |-> MaxStack[item]]
Topped(acc, s, item) ==
  acc.left > 0 /\ acc.inv.cells[s].item = item => acc.inv.cells[s] = Filled(item)
Packed(acc, s, item) == acc.left > 0 => RoomAt(acc.inv.cells[s], s, item) = 0

LEMMA TopUpStep ==
  ASSUME NEW v, Sound(v), NEW item \in Items, NEW m \in Nat, NEW acc \in Accs(v, item, m),
         NEW slot \in Usable(v)
  PROVE  LET r == TopUp(acc, slot, item)
         IN  /\ r \in Accs(v, item, m) /\ r.left <= acc.left
             /\ Topped(r, slot, item)
             /\ \A s \in Slots \ {slot} : r.inv.cells[s] = acc.inv.cells[s]
<1>1. CASE Peek(acc.inv, slot).item = item
  <2> DEFINE r == PutInto(acc, slot, item)
  <2>1. /\ r \in Accs(v, item, m) /\ r.left <= acc.left
        /\ r.left > 0 => r.inv.cells[slot] = Filled(item)
        /\ \A s \in Slots \ {slot} : r.inv.cells[s] = acc.inv.cells[s]
    BY <1>1, PutIntoKeeps DEF Filled
  <2> HIDE DEF r
  <2>2. TopUp(acc, slot, item) = r
    BY <1>1 DEF TopUp, r
  <2> QED
    BY <2>1, <2>2 DEF Topped
<1>2. CASE Peek(acc.inv, slot).item # item
  <2>1. TopUp(acc, slot, item) = acc /\ acc.left \in Nat
    BY <1>2 DEF TopUp, Accs
  <2> QED
    BY <1>2, <2>1 DEF Topped, Peek
<1> QED
  BY <1>1, <1>2

LEMMA ClaimStep ==
  ASSUME NEW v, Sound(v), NEW item \in Items, NEW m \in Nat, NEW acc \in Accs(v, item, m),
         NEW slot \in Usable(v), Topped(acc, slot, item)
  PROVE  LET r == ClaimEmpty(acc, slot, item)
         IN  /\ r \in Accs(v, item, m) /\ r.left <= acc.left
             /\ Topped(r, slot, item) /\ Packed(r, slot, item)
             /\ \A s \in Slots \ {slot} : r.inv.cells[s] = acc.inv.cells[s]
<1>1. slot \in Slots /\ acc.inv \in Inventories /\ acc.left \in Nat
  BY ScanLists DEF Accs
<1>2. /\ acc.inv.cells[slot] \in Fitting /\ MaxStack[item] \in Nat /\ item # NoItem
      /\ Filled(item) # Empty /\ Filled(item).item = item /\ Filled(item).count = MaxStack[item]
  BY <1>1, StackFacts DEF Inventories, Filled, Empty
<1>3. RoomAt(Filled(item), slot, item) = 0
  BY <1>2 DEF RoomAt, RoomIn
<1> DEFINE Claims == Peek(acc.inv, slot) = Empty /\ ~ (Kind(slot) = "bag" /\ item \in BagItems)
<1>4. CASE Claims
  <2> DEFINE r == PutInto(acc, slot, item)
  <2>1. /\ r \in Accs(v, item, m) /\ r.left <= acc.left
        /\ r.left > 0 => r.inv.cells[slot] = Filled(item)
        /\ \A s \in Slots \ {slot} : r.inv.cells[s] = acc.inv.cells[s]
    BY <1>4, PutIntoKeeps DEF Filled
  <2> HIDE DEF r
  <2>2. ClaimEmpty(acc, slot, item) = r
    BY <1>4 DEF ClaimEmpty, r
  <2> QED
    BY <1>3, <2>1, <2>2 DEF Topped, Packed
<1>5. CASE ~ Claims
  <2>1. ClaimEmpty(acc, slot, item) = acc
    BY <1>5 DEF ClaimEmpty
  <2>2. Packed(acc, slot, item)
    <3> DEFINE a == acc.inv.cells[slot]
    <3> SUFFICES ASSUME acc.left > 0
                 PROVE  RoomAt(a, slot, item) = 0
      BY DEF Packed
    <3>1. CASE a.item = item
      BY <1>3, <3>1 DEF Topped
    <3>2. CASE a.item # item /\ a # Empty
      BY <3>2 DEF RoomAt, RoomIn
    <3>3. CASE a = Empty
      BY <1>5, <3>3 DEF RoomAt, Peek
    <3> QED
      BY <3>1, <3>2, <3>3
  <2> QED
    BY <1>1, <2>1, <2>2
<1> QED
  BY <1>4, <1>5

\* The placer uses all the room there is, and loses nothing.
LEMMA AddSound ==
  ASSUME NEW v, Sound(v), NEW item \in Items, NEW m \in Nat
  PROVE  LET r == AddItem(v, item, m)
         IN  /\ Sound(r.inv) /\ r.left \in 0 .. m
             /\ r = [inv |-> r.inv, left |-> r.left]
             /\ Total(r.inv, item) = Total(v, item) + m - r.left
             /\ \A x \in Items \ {item} : Total(r.inv, x) = Total(v, x)
             /\ r.left = m - Least(m, RoomOver(v, Usable(v), item))
             /\ Grown(v, r.inv)
<1> DEFINE U == Usable(v)
           order == ScanOrder(v)
           A == Accs(v, item, m)
           base == [inv |-> v, left |-> m]
           mid == TopUpAll(base, order, item)
           r == ClaimAll(mid, order, item)
           n == Cardinality(U)
           JT == [k \in 0 .. n |-> {acc \in A : \A j \in 1 .. k : Topped(acc, order[j], item)}]
           JC == [k \in 0 .. n |-> {acc \in A : /\ \A s \in U : Topped(acc, s, item)
                                                /\ \A j \in 1 .. k : Packed(acc, order[j], item)}]
<1>1. AddItem(v, item, m) = r
  BY DEF AddItem
<1>2. /\ n \in Nat /\ order \in [1 .. n -> U] /\ (\A x \in U : \E k \in 1 .. n : order[k] = x)
      /\ U \in SUBSET Slots /\ v \in Inventories
  BY ScanLists, FS_CardinalityType DEF Lists, Sound
<1> HIDE DEF n
<1>3. base \in A
  <2>1. Total(v, item) \in Nat
    BY <1>2, TotalNat
  <2>2. Grown(v, v)
    <3>1. \A s \in Slots : v.cells[s].count \in Nat
      BY <1>2, StackFacts DEF Inventories, Fitting
    <3> QED
      BY <3>1 DEF Grown
  <2> QED
    BY <1>2, <2>2 DEF Accs
<1>4. \A acc \in A, s \in U :
        /\ TopUp(acc, s, item) \in A /\ TopUp(acc, s, item).left <= acc.left
        /\ Topped(TopUp(acc, s, item), s, item)
        /\ \A t \in Slots \ {s} : TopUp(acc, s, item).inv.cells[t] = acc.inv.cells[t]
  BY TopUpStep
<1>5. \A acc \in A, s \in U : Topped(acc, s, item) =>
        /\ ClaimEmpty(acc, s, item) \in A /\ ClaimEmpty(acc, s, item).left <= acc.left
        /\ Topped(ClaimEmpty(acc, s, item), s, item)
        /\ Packed(ClaimEmpty(acc, s, item), s, item)
        /\ \A t \in Slots \ {s} : ClaimEmpty(acc, s, item).inv.cells[t] = acc.inv.cells[t]
  BY ClaimStep
<1>6. \A acc \in A : acc.left \in 0 .. m
  BY DEF Accs
<1> HIDE DEF A, U, order, base
<1>7. mid \in JT[n]
  <2>1. Keeping(n, A, JT)
    BY DEF Keeping
  <2>2. base \in JT[0]
    <3>1. JT[0] = {acc \in A : \A j \in 1 .. 0 : Topped(acc, order[j], item)}
      BY <1>2
    <3> QED
      BY <1>3, <3>1
  <2>3. ASSUME NEW k \in 1 .. n, NEW acc \in JT[k - 1]
        PROVE  TopUp(acc, order[k], item) \in JT[k]
    <3> DEFINE q == TopUp(acc, order[k], item)
    <3>1. /\ acc \in A /\ order[k] \in U
          /\ \A j \in 1 .. k - 1 : Topped(acc, order[j], item)
      BY <1>2, <2>3
    <3>2. /\ q \in A /\ q.left <= acc.left /\ Topped(q, order[k], item)
          /\ \A t \in Slots \ {order[k]} : q.inv.cells[t] = acc.inv.cells[t]
      BY <1>4, <3>1
    <3> HIDE DEF q
    <3>3. ASSUME NEW j \in 1 .. k
          PROVE  Topped(q, order[j], item)
      <4>1. CASE order[j] = order[k]
        BY <3>2, <4>1
      <4>2. CASE order[j] # order[k]
        <5>1. j \in 1 .. k - 1 /\ order[j] \in Slots
          BY <1>2, <4>2
        <5>2. q.inv.cells[order[j]] = acc.inv.cells[order[j]]
          BY <3>2, <4>2, <5>1
        <5>3. q.left > 0 => acc.left > 0
          BY <1>6, <3>1, <3>2
        <5> QED
          BY <3>1, <5>1, <5>2, <5>3 DEF Topped
      <4> QED
        BY <4>1, <4>2
    <3> QED
      BY <3>2, <3>3 DEF q
  <2> HIDE DEF JT
  <2>4. \A a \in A, s \in U : TopUp(a, s, item) \in A
    BY <1>4
  <2> QED
    BY <1>2, <1>3, <2>1, <2>2, <2>3, <2>4, TopUpKeeps
<1>8. mid \in A /\ \A s \in U : Topped(mid, s, item)
  <2> HIDE DEF mid
  <2>1. mid \in A /\ \A j \in 1 .. n : Topped(mid, order[j], item)
    BY <1>2, <1>7
  <2> QED
    BY <1>2, <2>1
<1> HIDE DEF mid, JT
<1>9. r \in JC[n]
  <2> DEFINE B == {acc \in A : \A s \in U : Topped(acc, s, item)}
  <2>1. Keeping(n, B, JC)
    BY DEF Keeping
  <2>2. mid \in JC[0] /\ mid \in B
    <3>1. JC[0] = {acc \in A : /\ \A s \in U : Topped(acc, s, item)
                               /\ \A j \in 1 .. 0 : Packed(acc, order[j], item)}
      BY <1>2
    <3> QED
      BY <1>8, <3>1
  <2>3. ASSUME NEW acc \in B, NEW s \in U
        PROVE  ClaimEmpty(acc, s, item) \in B
    <3> DEFINE q == ClaimEmpty(acc, s, item)
    <3>1. /\ q \in A /\ q.left <= acc.left /\ Topped(q, s, item)
          /\ \A t \in Slots \ {s} : q.inv.cells[t] = acc.inv.cells[t]
      BY <1>5
    <3> HIDE DEF q
    <3>2. ASSUME NEW t \in U, t # s
          PROVE  Topped(q, t, item)
      <4>1. q.inv.cells[t] = acc.inv.cells[t] /\ Topped(acc, t, item)
        BY <1>2, <3>1, <3>2
      <4>2. q.left > 0 => acc.left > 0
        BY <1>6, <3>1
      <4> QED
        BY <4>1, <4>2 DEF Topped
    <3> QED
      BY <3>1, <3>2 DEF q
  <2>4. ASSUME NEW k \in 1 .. n, NEW acc \in JC[k - 1]
        PROVE  ClaimEmpty(acc, order[k], item) \in JC[k]
    <3> DEFINE q == ClaimEmpty(acc, order[k], item)
    <3>1. /\ acc \in A /\ order[k] \in U /\ acc \in B
          /\ \A j \in 1 .. k - 1 : Packed(acc, order[j], item)
      BY <1>2, <2>4
    <3>2. q \in B
      BY <2>3, <3>1
    <3>3. /\ q \in A /\ q.left <= acc.left /\ Packed(q, order[k], item)
          /\ \A t \in Slots \ {order[k]} : q.inv.cells[t] = acc.inv.cells[t]
      BY <1>5, <3>1
    <3> HIDE DEF q
    <3>4. ASSUME NEW j \in 1 .. k
          PROVE  Packed(q, order[j], item)
      <4>1. CASE order[j] = order[k]
        BY <3>3, <4>1
      <4>2. CASE order[j] # order[k]
        <5>1. j \in 1 .. k - 1 /\ order[j] \in Slots
          BY <1>2, <4>2
        <5>2. q.inv.cells[order[j]] = acc.inv.cells[order[j]]
          BY <3>3, <4>2, <5>1
        <5>3. q.left > 0 => acc.left > 0
          BY <1>6, <3>1, <3>3
        <5> QED
          BY <3>1, <5>1, <5>2, <5>3 DEF Packed
      <4> QED
        BY <4>1, <4>2
    <3> QED
      BY <3>2, <3>4 DEF q
  <2> HIDE DEF JC, B
  <2> QED
    BY <1>2, <2>1, <2>2, <2>3, <2>4, ClaimKeeps
<1>10. r \in A /\ \A s \in U : Packed(r, s, item)
  <2> HIDE DEF r
  <2>1. r \in A /\ \A j \in 1 .. n : Packed(r, order[j], item)
    BY <1>2, <1>9
  <2> QED
    BY <1>2, <2>1
<1> HIDE DEF r, JC
<1>11. /\ Sound(r.inv) /\ r.left \in 0 .. m /\ r = [inv |-> r.inv, left |-> r.left]
       /\ r.inv \in Inventories
       /\ Total(r.inv, item) + r.left = Total(v, item) + m
       /\ \A x \in Items \ {item} : Total(r.inv, x) = Total(v, x)
       /\ RoomOver(r.inv, U, item) - r.left = RoomOver(v, U, item) - m
       /\ Grown(v, r.inv)
  BY <1>10 DEF Accs, A, U
<1>12. Total(r.inv, item) \in Nat /\ Total(v, item) \in Nat
  BY <1>2, <1>11, TotalNat
<1>13. RoomOver(r.inv, U, item) \in Nat /\ RoomOver(v, U, item) \in Nat
  BY <1>2, <1>11, RoomFacts
<1>14. r.left > 0 => RoomOver(r.inv, U, item) = 0
  BY <1>2, <1>10, <1>11, RoomFacts DEF Packed
<1>15. r.left = m - Least(m, RoomOver(v, U, item))
  BY <1>11, <1>13, <1>14 DEF Least
<1>16. Total(r.inv, item) = Total(v, item) + m - r.left
  BY <1>11, <1>12
<1> QED
  BY <1>1, <1>11, <1>15, <1>16 DEF U

-----------------------------------------------------------------------------
(* The vaults *)

VaultsOver(V) == [V -> Fitting]

VaultRoom(vault, item) == [s \in DOMAIN vault |-> RoomIn(vault[s], item)]

\* How far a deposit of m of an item may have come.
VaultAccs(V, vault, item, m) ==
  {acc \in [vault : VaultsOver(V), left : 0 .. m] :
     /\ CountIn(acc.vault, item) + acc.left = CountIn(vault, item) + m
     /\ \A x \in Items \ {item} : CountIn(acc.vault, x) = CountIn(vault, x)
     /\ SumFunctionOnSet(VaultRoom(acc.vault, item), V) - acc.left
          = SumFunctionOnSet(VaultRoom(vault, item), V) - m}

LEMMA VaultFacts ==
  ASSUME NEW V, IsFiniteSet(V), NEW vault \in VaultsOver(V), NEW item \in Items
  PROVE  /\ \A s \in V : VaultRoom(vault, item)[s] = RoomIn(vault[s], item)
         /\ \A s \in V : VaultRoom(vault, item)[s] \in Nat
         /\ SumFunctionOnSet(VaultRoom(vault, item), V) \in Nat
         /\ (\A s \in V : RoomIn(vault[s], item) = 0) =>
              SumFunctionOnSet(VaultRoom(vault, item), V) = 0
         /\ CapacityFor(vault, item) = SumFunctionOnSet(VaultRoom(vault, item), V)
         /\ \A x : CountIn(vault, x) \in Nat
<1>1. \A s \in V : VaultRoom(vault, item)[s] = RoomIn(vault[s], item)
  BY DEF VaultsOver, VaultRoom
<1>2. \A a \in Fitting : RoomIn(a, item) \in Nat
  BY StackFacts DEF RoomIn
<1>3. \A s \in V : VaultRoom(vault, item)[s] \in Nat
  BY <1>1, <1>2 DEF VaultsOver
<1>4. vault \in [V -> Stacks]
  BY StackFacts DEF VaultsOver
<1>5. \A x : CountIn(vault, x) \in Nat
  BY <1>4, CountIs
<1>6. CapacityFor(vault, item) = SumFunctionOnSet(VaultRoom(vault, item), V)
  <2>1. DOMAIN [s \in DOMAIN vault |-> RoomIn(vault[s], item)] = V
    BY DEF VaultsOver
  <2> QED
    BY <2>1 DEF CapacityFor, SumFunction, VaultRoom
<1> QED
  BY <1>1, <1>3, <1>5, <1>6, SumNat

LEMMA VaultPutKeeps ==
  ASSUME NEW V, IsFiniteSet(V), NEW vault \in VaultsOver(V), NEW item \in Items, NEW m \in Nat,
         NEW acc \in VaultAccs(V, vault, item, m), NEW s \in V,
         acc.vault[s] = Empty \/ acc.vault[s].item = item
  PROVE  LET r == VaultPut(acc, s, item)
         IN  /\ r \in VaultAccs(V, vault, item, m) /\ r.left <= acc.left
             /\ r.left > 0 => r.vault[s] = Filled(item)
             /\ \A t \in V \ {s} : r.vault[t] = acc.vault[t]
<1> DEFINE u == acc.vault
           a == u[s]
           n == Least(acc.left, MaxStack[item] - a.count)
           new == [item |-> item, count |-> a.count + n]
           w == [u EXCEPT ![s] = new]
           r == VaultPut(acc, s, item)
<1>1. u \in VaultsOver(V) /\ acc.left \in Nat /\ acc.left <= m /\ acc = [vault |-> u, left |-> acc.left]
  BY DEF VaultAccs
<1>2. a \in Fitting /\ (a = Empty \/ a.item = item)
  BY <1>1 DEF VaultsOver
<1>3. r = IF n = 0 THEN acc ELSE [vault |-> w, left |-> acc.left - n]
  <2>1. [u EXCEPT ![s] = [item |-> item, count |-> @.count + n]] = w
    OBVIOUS
  <2> QED
    BY <2>1 DEF VaultPut
<1> HIDE DEF a, r
<1>4. /\ a.count \in Nat /\ a.count <= MaxStack[item] /\ MaxStack[item] \in Nat \ {0}
      /\ item # NoItem /\ (a = Empty => a.count = 0) /\ (a.item = item => a # Empty)
  BY <1>2, StackFacts
<1>5. /\ n \in Nat /\ n <= acc.left /\ a.count + n <= MaxStack[item]
      /\ n = acc.left \/ a.count + n = MaxStack[item]
  BY <1>1, <1>4 DEF Least
<1>6. CASE n = 0
  <2>1. r = acc /\ r.left <= acc.left
    BY <1>1, <1>3, <1>6
  <2>2. ASSUME acc.left > 0
        PROVE  a = Filled(item)
    <3>1. a.count = MaxStack[item]
      BY <1>4, <1>5, <1>6, <2>2
    <3>2. a.item = item
      BY <1>2, <1>4, <3>1
    <3> QED
      BY <1>2, <3>1, <3>2, StackFacts DEF Filled
  <2> HIDE DEF n
  <2> QED
    BY <2>1, <2>2 DEF r, a
<1>7. CASE n # 0
  <2>1. new \in Fitting /\ new # Empty /\ new.item = item /\ new.count = a.count + n
    <3>1. new = Stack(item, a.count + n)
      BY <1>4, <1>5, <1>7 DEF Stack
    <3>2. a.count + n \in Nat
      BY <1>4, <1>5
    <3>3. new \in Fitting
      BY <1>5, <3>1, <3>2, StackFacts
    <3> QED
      BY <1>4, <3>3 DEF Empty
  <2> HIDE DEF n, new
  <2>2. w \in VaultsOver(V) /\ w[s] = new /\ \A t \in V \ {s} : w[t] = u[t]
    BY <1>1, <2>1 DEF VaultsOver
  <2>3. r.vault = w /\ r.left = acc.left - n /\ r = [vault |-> w, left |-> acc.left - n]
    BY <1>3, <1>7
  <2> HIDE DEF w, u
  <2>4. u \in [V -> Stacks] /\ w \in [V -> Stacks]
    BY <1>1, <2>2, StackFacts DEF VaultsOver
  <2>5. \A x : CountIn(w, x) = CountIn(u, x) - Of(a, x) + Of(new, x)
    BY <2>2, <2>4, CountOne DEF a
  <2>6. \A x : CountIn(u, x) \in Nat /\ CountIn(vault, x) \in Nat
    BY <1>1, VaultFacts
  <2>7. CountIn(w, item) = CountIn(u, item) + n
    <3>1. Of(a, item) = a.count /\ Of(new, item) = a.count + n
      BY <1>2, <1>4, <2>1, StackFacts DEF Of
    <3> QED
      BY <1>4, <1>5, <2>5, <2>6, <3>1
  <2>8. ASSUME NEW x \in Items \ {item}
        PROVE  CountIn(w, x) = CountIn(u, x)
    <3>1. Of(a, x) = 0 /\ Of(new, x) = 0
      BY <1>2, <2>1, StackFacts DEF Of
    <3> QED
      BY <2>5, <2>6, <3>1
  <2> DEFINE f == VaultRoom(u, item)
             g == VaultRoom(w, item)
             F == SumFunctionOnSet(f, V)
             G == SumFunctionOnSet(g, V)
             O == SumFunctionOnSet(VaultRoom(vault, item), V)
  <2>9. \A z \in V : f[z] = RoomIn(u[z], item) /\ f[z] \in Nat
    BY <1>1, VaultFacts
  <2>10. \A z \in V : g[z] = RoomIn(w[z], item) /\ g[z] \in Nat
    BY <2>2, VaultFacts
  <2>11. f[s] = MaxStack[item] - a.count
    BY <1>2, <1>4, <2>9 DEF RoomIn, a
  <2>12. g[s] = MaxStack[item] - (a.count + n)
    BY <2>1, <2>2, <2>10 DEF RoomIn
  <2>13. F \in Nat /\ O \in Nat
    BY <1>1, VaultFacts
  <2>14. \A z \in V \ {s} : f[z] = g[z]
    BY <2>2, <2>9, <2>10
  <2> HIDE DEF f, g
  <2>15. G = F - f[s] + g[s]
    BY <2>9, <2>10, <2>14, SumOne
  <2> HIDE DEF F, G, O
  <2>16. G = F - n
    BY <1>4, <1>5, <2>11, <2>12, <2>13, <2>15
  <2>17. r \in VaultAccs(V, vault, item, m)
    <3>1. r \in [vault : VaultsOver(V), left : 0 .. m]
      BY <1>1, <1>5, <2>2, <2>3
    <3>2. CountIn(u, item) + acc.left = CountIn(vault, item) + m
      BY DEF VaultAccs, u
    <3>3. F - acc.left = O - m
      BY DEF VaultAccs, u, F, O, f
    <3>4. \A x \in Items \ {item} : CountIn(w, x) = CountIn(vault, x)
      BY <2>8 DEF VaultAccs, u
    <3>5. CountIn(w, item) + (acc.left - n) = CountIn(vault, item) + m
      BY <1>1, <1>5, <2>6, <2>7, <3>2
    <3>6. G - (acc.left - n) = O - m
      BY <1>1, <1>5, <2>13, <2>16, <3>3
    <3> QED
      BY <2>3, <3>1, <3>4, <3>5, <3>6 DEF VaultAccs, G, O, g
  <2>18. r.left <= acc.left /\ (r.left > 0 => new = Filled(item))
    BY <1>1, <1>5, <2>1, <2>3 DEF new, Filled
  <2> QED
    BY <2>2, <2>3, <2>17, <2>18 DEF r, u
<1> QED
  BY <1>6, <1>7

VaultTopped(acc, s, item) ==
  acc.left > 0 /\ acc.vault[s].item = item => acc.vault[s] = Filled(item)
VaultPacked(acc, s, item) == acc.left > 0 => RoomIn(acc.vault[s], item) = 0

LEMMA VaultTopUpStep ==
  ASSUME NEW V, IsFiniteSet(V), NEW vault \in VaultsOver(V), NEW item \in Items, NEW m \in Nat,
         NEW acc \in VaultAccs(V, vault, item, m), NEW s \in V
  PROVE  LET r == VaultTopUp(acc, s, item)
         IN  /\ r \in VaultAccs(V, vault, item, m) /\ r.left <= acc.left
             /\ VaultTopped(r, s, item)
             /\ \A t \in V \ {s} : r.vault[t] = acc.vault[t]
<1>1. CASE acc.vault[s].item = item
  <2> DEFINE r == VaultPut(acc, s, item)
  <2>1. /\ r \in VaultAccs(V, vault, item, m) /\ r.left <= acc.left
        /\ r.left > 0 => r.vault[s] = Filled(item)
        /\ \A t \in V \ {s} : r.vault[t] = acc.vault[t]
    BY <1>1, VaultPutKeeps
  <2> HIDE DEF r
  <2>2. VaultTopUp(acc, s, item) = r
    BY <1>1 DEF VaultTopUp, r
  <2> QED
    BY <2>1, <2>2 DEF VaultTopped
<1>2. CASE acc.vault[s].item # item
  <2>1. VaultTopUp(acc, s, item) = acc /\ acc.left \in Nat
    BY <1>2 DEF VaultTopUp, VaultAccs
  <2> QED
    BY <1>2, <2>1 DEF VaultTopped
<1> QED
  BY <1>1, <1>2

LEMMA VaultClaimStep ==
  ASSUME NEW V, IsFiniteSet(V), NEW vault \in VaultsOver(V), NEW item \in Items, NEW m \in Nat,
         NEW acc \in VaultAccs(V, vault, item, m), NEW s \in V, VaultTopped(acc, s, item)
  PROVE  LET r == VaultClaim(acc, s, item)
         IN  /\ r \in VaultAccs(V, vault, item, m) /\ r.left <= acc.left
             /\ VaultTopped(r, s, item) /\ VaultPacked(r, s, item)
             /\ \A t \in V \ {s} : r.vault[t] = acc.vault[t]
<1>1. acc.vault[s] \in Fitting /\ acc.left \in Nat
  BY DEF VaultAccs, VaultsOver
<1>2. /\ MaxStack[item] \in Nat /\ item # NoItem
      /\ Filled(item) # Empty /\ Filled(item).item = item /\ Filled(item).count = MaxStack[item]
  BY StackFacts DEF Filled, Empty
<1>3. RoomIn(Filled(item), item) = 0
  BY <1>2 DEF RoomIn
<1>4. CASE acc.vault[s] = Empty
  <2> DEFINE r == VaultPut(acc, s, item)
  <2>1. /\ r \in VaultAccs(V, vault, item, m) /\ r.left <= acc.left
        /\ r.left > 0 => r.vault[s] = Filled(item)
        /\ \A t \in V \ {s} : r.vault[t] = acc.vault[t]
    BY <1>4, VaultPutKeeps
  <2> HIDE DEF r
  <2>2. VaultClaim(acc, s, item) = r
    BY <1>4 DEF VaultClaim, r
  <2> QED
    BY <1>3, <2>1, <2>2 DEF VaultTopped, VaultPacked
<1>5. CASE acc.vault[s] # Empty
  <2>1. VaultClaim(acc, s, item) = acc
    BY <1>5 DEF VaultClaim
  <2>2. VaultPacked(acc, s, item)
    <3>1. CASE acc.vault[s].item = item
      BY <1>3, <3>1 DEF VaultTopped, VaultPacked
    <3>2. CASE acc.vault[s].item # item
      BY <1>5, <3>2 DEF RoomIn, VaultPacked
    <3> QED
      BY <3>1, <3>2
  <2> QED
    BY <1>1, <2>1, <2>2
<1> QED
  BY <1>4, <1>5

\* A deposit of no more than capacity_for is stored whole.
LEMMA DepositSound ==
  ASSUME NEW V \in SUBSET Nat, IsFiniteSet(V), NEW vault \in VaultsOver(V), NEW item \in Items,
         NEW m \in Nat, m <= CapacityFor(vault, item)
  PROVE  LET u == Deposit(vault, item, m).vault
         IN  /\ u \in VaultsOver(V)
             /\ CountIn(u, item) = CountIn(vault, item) + m
             /\ \A x \in Items \ {item} : CountIn(u, x) = CountIn(vault, x)
<1> DEFINE order == InOrder(V, <)
           A == VaultAccs(V, vault, item, m)
           base == [vault |-> vault, left |-> m]
           mid == VaultTopUpAll(base, order, item)
           r == VaultClaimAll(mid, order, item)
           n == Cardinality(V)
           JT == [k \in 0 .. n |-> {acc \in A : \A j \in 1 .. k : VaultTopped(acc, order[j], item)}]
           JC == [k \in 0 .. n |-> {acc \in A : /\ \A s \in V : VaultTopped(acc, s, item)
                                                /\ \A j \in 1 .. k : VaultPacked(acc, order[j], item)}]
<1>1. Deposit(vault, item, m) = r
  <2>1. DOMAIN vault = V
    BY DEF VaultsOver
  <2> QED
    BY <2>1 DEF Deposit
<1> HIDE DEF order
<1>2. /\ n \in Nat /\ order \in [1 .. n -> V] /\ (\A x \in V : \E k \in 1 .. n : order[k] = x)
  BY VaultLists, FS_CardinalityType DEF Lists, order
<1> HIDE DEF n
<1>3. base \in A
  <2>1. CountIn(vault, item) \in Nat
    BY VaultFacts
  <2> QED
    BY DEF VaultAccs
<1>4. \A acc \in A, s \in V :
        /\ VaultTopUp(acc, s, item) \in A /\ VaultTopUp(acc, s, item).left <= acc.left
        /\ VaultTopped(VaultTopUp(acc, s, item), s, item)
        /\ \A t \in V \ {s} : VaultTopUp(acc, s, item).vault[t] = acc.vault[t]
  BY VaultTopUpStep
<1>5. \A acc \in A, s \in V : VaultTopped(acc, s, item) =>
        /\ VaultClaim(acc, s, item) \in A /\ VaultClaim(acc, s, item).left <= acc.left
        /\ VaultTopped(VaultClaim(acc, s, item), s, item)
        /\ VaultPacked(VaultClaim(acc, s, item), s, item)
        /\ \A t \in V \ {s} : VaultClaim(acc, s, item).vault[t] = acc.vault[t]
  BY VaultClaimStep
<1>6. \A acc \in A : acc.left \in 0 .. m
  BY DEF VaultAccs
<1> HIDE DEF A, base
<1>7. mid \in JT[n]
  <2>1. Keeping(n, A, JT)
    BY DEF Keeping
  <2>2. base \in JT[0]
    <3>1. JT[0] = {acc \in A : \A j \in 1 .. 0 : VaultTopped(acc, order[j], item)}
      BY <1>2
    <3> QED
      BY <1>3, <3>1
  <2>3. ASSUME NEW k \in 1 .. n, NEW acc \in JT[k - 1]
        PROVE  VaultTopUp(acc, order[k], item) \in JT[k]
    <3> DEFINE q == VaultTopUp(acc, order[k], item)
    <3>1. /\ acc \in A /\ order[k] \in V
          /\ \A j \in 1 .. k - 1 : VaultTopped(acc, order[j], item)
      BY <1>2, <2>3
    <3>2. /\ q \in A /\ q.left <= acc.left /\ VaultTopped(q, order[k], item)
          /\ \A t \in V \ {order[k]} : q.vault[t] = acc.vault[t]
      BY <1>4, <3>1
    <3> HIDE DEF q
    <3>3. ASSUME NEW j \in 1 .. k
          PROVE  VaultTopped(q, order[j], item)
      <4>1. CASE order[j] = order[k]
        BY <3>2, <4>1
      <4>2. CASE order[j] # order[k]
        <5>1. j \in 1 .. k - 1 /\ order[j] \in V
          BY <1>2, <4>2
        <5>2. q.vault[order[j]] = acc.vault[order[j]]
          BY <3>2, <4>2, <5>1
        <5>3. q.left > 0 => acc.left > 0
          BY <1>6, <3>1, <3>2
        <5> QED
          BY <3>1, <5>1, <5>2, <5>3 DEF VaultTopped
      <4> QED
        BY <4>1, <4>2
    <3> QED
      BY <3>2, <3>3 DEF q
  <2> HIDE DEF JT
  <2>4. \A a \in A, s \in V : VaultTopUp(a, s, item) \in A
    BY <1>4
  <2> QED
    BY <1>2, <1>3, <2>1, <2>2, <2>3, <2>4, VaultTopUpKeeps
<1>8. mid \in A /\ \A s \in V : VaultTopped(mid, s, item)
  <2> HIDE DEF mid
  <2>1. mid \in A /\ \A j \in 1 .. n : VaultTopped(mid, order[j], item)
    BY <1>2, <1>7
  <2> QED
    BY <1>2, <2>1
<1> HIDE DEF mid, JT
<1>9. r \in JC[n]
  <2> DEFINE B == {acc \in A : \A s \in V : VaultTopped(acc, s, item)}
  <2>1. Keeping(n, B, JC)
    BY DEF Keeping
  <2>2. mid \in JC[0] /\ mid \in B
    <3>1. JC[0] = {acc \in A : /\ \A s \in V : VaultTopped(acc, s, item)
                               /\ \A j \in 1 .. 0 : VaultPacked(acc, order[j], item)}
      BY <1>2
    <3> QED
      BY <1>8, <3>1
  <2>3. ASSUME NEW acc \in B, NEW s \in V
        PROVE  VaultClaim(acc, s, item) \in B
    <3> DEFINE q == VaultClaim(acc, s, item)
    <3>1. /\ q \in A /\ q.left <= acc.left /\ VaultTopped(q, s, item)
          /\ \A t \in V \ {s} : q.vault[t] = acc.vault[t]
      BY <1>5
    <3> HIDE DEF q
    <3>2. ASSUME NEW t \in V, t # s
          PROVE  VaultTopped(q, t, item)
      <4>1. q.vault[t] = acc.vault[t] /\ VaultTopped(acc, t, item)
        BY <3>1, <3>2
      <4>2. q.left > 0 => acc.left > 0
        BY <1>6, <3>1
      <4> QED
        BY <4>1, <4>2 DEF VaultTopped
    <3> QED
      BY <3>1, <3>2 DEF q
  <2>4. ASSUME NEW k \in 1 .. n, NEW acc \in JC[k - 1]
        PROVE  VaultClaim(acc, order[k], item) \in JC[k]
    <3> DEFINE q == VaultClaim(acc, order[k], item)
    <3>1. /\ acc \in A /\ order[k] \in V /\ acc \in B
          /\ \A j \in 1 .. k - 1 : VaultPacked(acc, order[j], item)
      BY <1>2, <2>4
    <3>2. q \in B
      BY <2>3, <3>1
    <3>3. /\ q \in A /\ q.left <= acc.left /\ VaultPacked(q, order[k], item)
          /\ \A t \in V \ {order[k]} : q.vault[t] = acc.vault[t]
      BY <1>5, <3>1
    <3> HIDE DEF q
    <3>4. ASSUME NEW j \in 1 .. k
          PROVE  VaultPacked(q, order[j], item)
      <4>1. CASE order[j] = order[k]
        BY <3>3, <4>1
      <4>2. CASE order[j] # order[k]
        <5>1. j \in 1 .. k - 1 /\ order[j] \in V
          BY <1>2, <4>2
        <5>2. q.vault[order[j]] = acc.vault[order[j]]
          BY <3>3, <4>2, <5>1
        <5>3. q.left > 0 => acc.left > 0
          BY <1>6, <3>1, <3>3
        <5> QED
          BY <3>1, <5>1, <5>2, <5>3 DEF VaultPacked
      <4> QED
        BY <4>1, <4>2
    <3> QED
      BY <3>2, <3>4 DEF q
  <2> HIDE DEF JC, B
  <2> QED
    BY <1>2, <2>1, <2>2, <2>3, <2>4, VaultClaimKeeps
<1>10. r \in A /\ \A s \in V : VaultPacked(r, s, item)
  <2> HIDE DEF r
  <2>1. r \in A /\ \A j \in 1 .. n : VaultPacked(r, order[j], item)
    BY <1>2, <1>9
  <2> QED
    BY <1>2, <2>1
<1> HIDE DEF r, JC
<1> DEFINE O == SumFunctionOnSet(VaultRoom(vault, item), V)
           G == SumFunctionOnSet(VaultRoom(r.vault, item), V)
<1>11. /\ r.vault \in VaultsOver(V) /\ r.left \in 0 .. m
       /\ CountIn(r.vault, item) + r.left = CountIn(vault, item) + m
       /\ \A x \in Items \ {item} : CountIn(r.vault, x) = CountIn(vault, x)
       /\ G - r.left = O - m
  BY <1>10 DEF A, VaultAccs
<1>12. /\ CountIn(r.vault, item) \in Nat /\ CountIn(vault, item) \in Nat
       /\ G \in Nat /\ O \in Nat /\ m <= O
  BY <1>11, VaultFacts
<1>13. r.left > 0 => G = 0
  BY <1>10, <1>11, VaultFacts DEF VaultPacked
<1> HIDE DEF G, O
<1>14. r.left = 0
  BY <1>11, <1>12, <1>13
<1> QED
  BY <1>1, <1>11, <1>12, <1>14

-----------------------------------------------------------------------------
(* Saving and loading *)

\* What to_rows writes, from_rows puts back where it was.
LEMMA LoadedSound ==
  ASSUME NEW v, Sound(v)
  PROVE  FromRows(ToRows(v)).cells = v.cells /\ Sound(FromRows(ToRows(v)))
<1> DEFINE rows == ToRows(v)
           hosts == {k \in Keys : IsBag(RowAt(rows, HostOf(k)))}
           c == [s \in Slots |-> IF Kind(s) = "bag" /\ s[2] \notin hosts THEN Empty ELSE RowAt(rows, s)]
           r == FromRows(rows)
<1>1. r = [cells |-> c, bags |-> hosts]
  BY DEF FromRows, Loaded
<1>2. v \in Inventories
  BY DEF Sound
<1>3. ASSUME NEW s \in Slots
      PROVE  RowAt(rows, s) = v.cells[s]
  <2>1. \A q \in rows : q.slot = s => q.stack = v.cells[s]
    BY DEF ToRows
  <2>2. CASE v.cells[s] = Empty
    <3>1. ~ \E q \in rows : q.slot = s
      BY <2>2 DEF ToRows
    <3> QED
      BY <2>2, <3>1 DEF RowAt
  <2>3. CASE v.cells[s] # Empty
    <3>1. [slot |-> s, stack |-> v.cells[s]] \in rows
      BY <2>3 DEF ToRows
    <3> DEFINE q0 == CHOOSE q \in rows : q.slot = s
    <3>2. \E q \in rows : q.slot = s
      BY <3>1
    <3>3. q0 \in rows /\ q0.slot = s
      BY <3>2
    <3> HIDE DEF rows, q0
    <3>4. q0.stack = v.cells[s]
      BY <2>1, <3>3
    <3> QED
      BY <3>2, <3>4 DEF RowAt, q0
  <2> QED
    BY <2>2, <2>3
<1> HIDE DEF rows
<1>4. \A k \in Keys : k \in hosts <=> IsBag(v.cells[HostOf(k)])
  BY <1>3, SlotKinds
<1>5. \A s \in Slots : c[s] = IF s \in BagRefs /\ s[2] \notin hosts THEN Empty ELSE v.cells[s]
  BY <1>3, SlotKinds
<1>6. r.cells = c /\ r.bags = hosts
  BY <1>1
<1>7. \A s \in BagRefs : s[2] \notin hosts => v.cells[s] = Empty
  <2> SUFFICES ASSUME NEW s \in BagRefs, s[2] \notin hosts
               PROVE  v.cells[s] = Empty
    OBVIOUS
  <2>1. s[2] \in Keys /\ s[3] \in BagCells /\ s = Bag(s[2], s[3])
    BY SlotFacts
  <2> HIDE DEF hosts
  <2>2. v.cells[Bag(s[2], s[3])] = Empty
    BY <1>4, <2>1 DEF Sound
  <2> QED
    BY <2>1, <2>2
<1>8. hosts \in SUBSET Keys /\ c = [s \in Slots |-> c[s]]
  OBVIOUS
<1> HIDE DEF hosts, c
<1>9. \A s \in Slots : c[s] = v.cells[s]
  BY <1>5, <1>7
<1>10. c = v.cells
  BY <1>2, <1>8, <1>9 DEF Inventories
<1>11. r \in Inventories
  BY <1>1, <1>2, <1>8, <1>10 DEF Inventories
<1>12. \A i \in BaseSlots : i \in hosts <=> IsBag(v.cells[Base(i)])
  BY <1>4, SlotKinds
<1>13. \A k \in Keys, s \in BagCells : v.cells[Bag(k, s)] # Empty =>
         k \in hosts /\ IsBag(v.cells[HostOf(k)])
  BY <1>4 DEF Sound
<1> HIDE DEF r
<1>14. Sound(r) /\ r.cells = v.cells
  BY <1>6, <1>10, <1>11, <1>12, <1>13 DEF Sound
<1> QED
  BY <1>14 DEF r, rows

LEMMA PurgeSound ==
  ASSUME NEW v, Sound(v)
  PROVE  Sound(PurgeNoRent(v))
<1> DEFINE c == [s \in Slots |-> IF v.cells[s].item \in NoRent THEN Empty ELSE v.cells[s]]
           r == PurgeNoRent(v)
<1>1. v \in Inventories
  BY DEF Sound
<1>2. r = [v EXCEPT !.cells = c]
  BY DEF PurgeNoRent
<1>3. \A s \in Slots : c[s] = Empty \/ c[s] = v.cells[s]
  OBVIOUS
<1>4. \A s \in Slots : IsBag(c[s]) <=> IsBag(v.cells[s])
  BY GoneAreNoBags, NoItemIsNone, ItemKinds DEF IsBag, Empty
<1>5. c \in [Slots -> Fitting]
  BY <1>1, StackFacts DEF Inventories
<1> HIDE DEF c
<1>6. r \in Inventories /\ r.cells = c /\ r.bags = v.bags
  BY <1>1, <1>2, <1>5 DEF Inventories
<1> HIDE DEF r
<1>7. \A s \in BagRefs : ~ IsBag(c[s])
  BY <1>4, SlotFacts DEF Sound
<1>8. \A i \in BaseSlots : i \in v.bags <=> IsBag(c[Base(i)])
  BY <1>4, SlotKinds DEF Sound
<1>9. \A k \in Keys, s \in BagCells : c[Bag(k, s)] # Empty =>
        k \in v.bags /\ IsBag(c[HostOf(k)])
  BY <1>3, <1>4, SlotKinds DEF Sound
<1>10. \A e \in EquipSlots : c[Equip(e)] # Empty => c[Equip(e)].item \in EquippableIn[e]
  BY <1>3, SlotKinds DEF Sound
<1> QED
  BY <1>6, <1>7, <1>8, <1>9, <1>10 DEF Sound, r

LEMMA CountNone ==
  ASSUME NEW D, IsFiniteSet(D), NEW c \in [D -> Stacks], \A s \in D : c[s] = Empty,
         NEW item \in Items
  PROVE  CountIn(c, item) = 0
<1> DEFINE w == Weights(c, item)
<1>1. CountIn(c, item) = SumFunctionOnSet(w, D) /\ \A s \in D : w[s] \in Nat /\ w[s] = Of(c[s], item)
  BY CountIs
<1>2. \A s \in D : w[s] = 0
  BY <1>1, StackFacts
<1> HIDE DEF w
<1>3. SumFunctionOnSet(w, D) = 0
  BY <1>1, <1>2, SumNat
<1> QED
  BY <1>1, <1>3

LEMMA EmptySound ==
  Sound(NoInventory) /\ \A item \in Items : Total(NoInventory, item) = 0
<1>1. NoInventory \in Inventories /\ \A s \in Slots : NoInventory.cells[s] = Empty
  BY StackFacts DEF NoInventory, Inventories
<1>2. NoInventory.bags = {}
  BY DEF NoInventory
<1>3. ~ IsBag(Empty)
  BY NoItemIsNone, ItemKinds DEF IsBag, Empty
<1>4. Sound(NoInventory)
  BY <1>1, <1>2, <1>3, SlotFacts, SlotKinds DEF Sound
<1>5. NoInventory.cells \in [Slots -> Stacks]
  BY <1>1, StackFacts DEF Inventories
<1>6. \A item \in Items : Total(NoInventory, item) = 0
  BY <1>1, <1>5, SlotFacts, CountNone DEF Total
<1> QED
  BY <1>4, <1>6

-----------------------------------------------------------------------------
(* The corpse *)

CorpseRows ==
  {r \in [stack : Fitting, worn : BOOLEAN, slot : Slots] :
     r.stack # Empty /\ (r.worn => r.slot \in EquipRefs)}

LEMMA CorpseFacts ==
  ASSUME NEW v, Sound(v)
  PROVE  CorpseStacks(v) \in SUBSET CorpseRows /\ IsFiniteSet(CorpseStacks(v))
<1> DEFINE row(s) == [stack |-> v.cells[s], worn |-> s[1] = "equip", slot |-> s]
           S == {t \in Slots : v.cells[t] # Empty}
           f == [s \in S |-> row(s)]
<1>1. CorpseStacks(v) = {row(s) : s \in S}
  BY DEF CorpseStacks
<1>2. \A s \in S : row(s) \in CorpseRows
  <2> TAKE s \in S
  <2>1. s \in Slots /\ v.cells[s] \in Fitting
    BY DEF Sound, Inventories
  <2>2. s[1] = "equip" => s \in EquipRefs
    BY <2>1, SlotKinds DEF Kind
  <2> QED
    BY <2>1, <2>2 DEF CorpseRows
<1>3. IsFiniteSet(S)
  BY SlotFacts, FS_Subset
<1>4. f \in Surjection(S, CorpseStacks(v))
  <2> HIDE DEF S
  <2> QED
    BY <1>1 DEF Surjection
<1> QED
  BY <1>1, <1>2, <1>3, <1>4, FS_Surjection

\* How far a looting may have come: what was got is there.
Takings(v) ==
  {acc \in [inv : Inventories, got : [Items -> Nat], rest : SUBSET CorpseRows] :
     /\ Sound(acc.inv) /\ IsFiniteSet(acc.rest)
     /\ \A x \in Items : Total(acc.inv, x) = Total(v, x) + acc.got[x]}

LEMMA PickSound ==
  ASSUME NEW v, Sound(v), NEW item \in Items, NEW n \in 1 .. MaxStack[item],
         Peek(v, Cursor) = Empty
  PROVE  LET r == Set(v, Cursor, Stack(item, n))
         IN  /\ Sound(r)
             /\ \A x \in Items : Total(r, x) = Total(v, x) + IF x = item THEN n ELSE 0
<1> DEFINE a == Stack(item, n)
           r == Set(v, Cursor, a)
<1>1. v \in Inventories /\ Cursor \in Slots /\ Cursor \notin BagRefs \cup EquipRefs \cup BaseRefs
  BY SlotFacts, SlotKinds DEF Sound
<1>2. n \in Nat /\ n <= MaxStack[item]
  BY StackFacts
<1>3. a \in Fitting /\ v.cells[Cursor] = Empty
  BY <1>2, StackFacts DEF Peek
<1>4. \A x \in Items : Of(a, x) = (IF x = item THEN n ELSE 0) /\ Of(Empty, x) = 0
  BY <1>2, StackFacts
<1> HIDE DEF a
<1>5. Takes(v, Cursor, a)
  BY <1>1, <1>3, NoItemIsNone, ItemKinds DEF Takes, IsBag, Empty
<1>6. Sound(r)
  BY <1>1, <1>3, <1>5, PutSound
<1>7. r.cells = [v.cells EXCEPT ![Cursor] = a]
  BY <1>1, <1>3, SetFacts
<1> HIDE DEF r
<1>8. ASSUME NEW x \in Items
      PROVE  Total(r, x) = Total(v, x) + IF x = item THEN n ELSE 0
  <2>1. Total(r, x) = Total(v, x) - Of(v.cells[Cursor], x) + Of(a, x)
    BY <1>1, <1>3, <1>7, TotalPut
  <2>2. Total(v, x) \in Nat
    BY <1>1, TotalNat
  <2> QED
    BY <1>2, <1>3, <1>4, <2>1, <2>2
<1> QED
  BY <1>6, <1>8 DEF r, a

LEMMA WornSound ==
  ASSUME NEW v, Sound(v), NEW r \in CorpseRows, r.worn,
         CanRestoreWorn(v, r.stack.item, r.slot[2])
  PROVE  /\ Sound(Set(v, r.slot, r.stack))
         /\ \A x \in Items : Total(Set(v, r.slot, r.stack), x)
              = Total(v, x) + IF x = r.stack.item THEN r.stack.count ELSE 0
<1> DEFINE a == r.stack
           s == r.slot
           w == Set(v, s, a)
<1>1. /\ v \in Inventories /\ a \in Fitting /\ a # Empty /\ s \in Slots /\ s \in EquipRefs
      /\ s[2] \in EquipSlots /\ s = Equip(s[2]) /\ Kind(s) = "equip" /\ s \notin BagRefs \cup BaseRefs
  BY SlotFacts DEF CorpseRows, Sound
<1>2. v.cells[s] = Empty /\ a.item \in EquippableIn[s[2]]
  BY <1>1 DEF CanRestoreWorn, Peek
<1> HIDE DEF a, s
<1>3. Takes(v, s, a)
  BY <1>1, <1>2 DEF Takes, IsHost
<1>4. Sound(w)
  BY <1>1, <1>3, PutSound
<1>5. w.cells = [v.cells EXCEPT ![s] = a]
  BY <1>1, SetFacts
<1> HIDE DEF w
<1>6. ASSUME NEW x \in Items
      PROVE  Total(w, x) = Total(v, x) + IF x = a.item THEN a.count ELSE 0
  <2>1. Total(w, x) = Total(v, x) - Of(v.cells[s], x) + Of(a, x)
    BY <1>1, <1>5, TotalPut
  <2>2. Total(v, x) \in Nat /\ Of(Empty, x) = 0 /\ a.count \in Nat
    BY <1>1, TotalNat, StackFacts
  <2> QED
    BY <1>2, <2>1, <2>2 DEF Of
<1> QED
  BY <1>4, <1>6 DEF w, s, a

LEMMA TakeBackStep ==
  ASSUME NEW v, Sound(v), NEW acc \in Takings(v), NEW r \in CorpseRows
  PROVE  TakeBack(acc, r) \in Takings(v)
<1> DEFINE i == acc.inv
           item == r.stack.item
           m == r.stack.count
           worn == r.worn /\ CanRestoreWorn(i, item, r.slot[2])
           put == [inv |-> Set(i, r.slot, r.stack), left |-> 0]
           added == AddItem(i, item, m)
           a == IF worn THEN put ELSE added
           got == [acc.got EXCEPT ![item] = @ + m - a.left]
           rest == acc.rest \cup (IF a.left = 0 THEN {} ELSE {[r EXCEPT !.stack.count = a.left]})
<1>1. /\ Sound(i) /\ i \in Inventories /\ acc.got \in [Items -> Nat]
      /\ acc.rest \in SUBSET CorpseRows /\ IsFiniteSet(acc.rest)
      /\ \A x \in Items : Total(i, x) = Total(v, x) + acc.got[x]
  BY DEF Takings
<1>2. TakeBack(acc, r) = [inv |-> a.inv, got |-> got, rest |-> rest]
  BY DEF TakeBack
<1>3. /\ r.stack \in Fitting /\ r.stack # Empty
      /\ item \in Items /\ m \in Nat \ {0} /\ m <= MaxStack[item]
      /\ r.stack = [item |-> item, count |-> m]
  BY StackFacts DEF CorpseRows
<1>4. /\ Sound(a.inv) /\ a.left \in 0 .. m
      /\ \A x \in Items : Total(a.inv, x) = Total(i, x) + IF x = item THEN m - a.left ELSE 0
  <2>0. \A x \in Items : Total(i, x) \in Nat
    BY <1>1, TotalNat
  <2>1. CASE worn
    <3>1. /\ Sound(put.inv) /\ put.left = 0
          /\ \A x \in Items : Total(put.inv, x) = Total(i, x) + IF x = item THEN m ELSE 0
      BY <1>1, <2>1, WornSound
    <3>2. a = put
      BY <2>1
    <3> HIDE DEF put, a, m, item
    <3> QED
      BY <1>3, <3>1, <3>2
  <2>2. CASE ~ worn
    <3>1. /\ Sound(added.inv) /\ added.left \in 0 .. m
          /\ Total(added.inv, item) = Total(i, item) + m - added.left
          /\ \A x \in Items \ {item} : Total(added.inv, x) = Total(i, x)
      <4> HIDE DEF i, item, m
      <4> QED
        BY <1>1, <1>3, AddSound
    <3>2. a = added
      BY <2>2
    <3> HIDE DEF added, a, m, item
    <3> QED
      BY <1>3, <2>0, <3>1, <3>2
  <2> QED
    BY <2>1, <2>2
<1> HIDE DEF a, put, added, worn
<1>5. got \in [Items -> Nat] /\ \A x \in Items : got[x] = acc.got[x] + IF x = item THEN m - a.left ELSE 0
  <2> HIDE DEF m, item
  <2> QED
    BY <1>1, <1>3, <1>4
<1>6. rest \in SUBSET CorpseRows /\ IsFiniteSet(rest)
  <2>1. CASE a.left = 0
    <3>1. rest = acc.rest
      BY <2>1
    <3> QED
      BY <1>1, <3>1
  <2>2. CASE a.left # 0
    <3> DEFINE q == [r EXCEPT !.stack.count = a.left]
    <3>1. q = [r EXCEPT !.stack = Stack(item, a.left)]
      BY <1>3, <2>2 DEF CorpseRows, Stack
    <3>2. Stack(item, a.left) \in Fitting /\ Stack(item, a.left) # Empty
      <4> HIDE DEF item, m
      <4>1. a.left \in Nat /\ a.left <= MaxStack[item]
        BY <1>3, <1>4, StackFacts
      <4> QED
        BY <1>3, <2>2, <4>1, StackFacts DEF Stack, Empty
    <3>3. q \in CorpseRows
      <4> HIDE DEF item
      <4> QED
        BY <3>1, <3>2 DEF CorpseRows
    <3>4. rest = acc.rest \cup {q}
      BY <2>2
    <3> HIDE DEF q, rest
    <3> QED
      BY <1>1, <3>3, <3>4, FS_AddElement
  <2> QED
    BY <2>1, <2>2
<1> HIDE DEF got, rest
<1>7. \A x \in Items : Total(a.inv, x) = Total(v, x) + got[x]
  <2>1. \A x \in Items : /\ Total(i, x) = Total(v, x) + acc.got[x] /\ Total(i, x) \in Nat
                           /\ acc.got[x] \in Nat /\ Total(v, x) \in Nat
    BY <1>1, TotalNat DEF Sound
  <2> HIDE DEF i, m, item
  <2>2. \A x \in Items : m - a.left \in Nat
    BY <1>3, <1>4
  <2> QED
    BY <1>3, <1>4, <1>5, <2>1, <2>2
<1>8. a.inv \in Inventories
  BY <1>4 DEF Sound
<1> QED
  BY <1>2, <1>4, <1>5, <1>6, <1>7, <1>8 DEF Takings

\* What is looted is what lies on the corpse.
LEMMA OrdersAre ==
  ASSUME NEW S, IsFiniteSet(S), NEW order \in SetToSeqs(S)
  PROVE  order \in Seq(S)
<1>1. order \in [1 .. Cardinality(S) -> S]
  BY DEF SetToSeqs
<1>2. Cardinality(S) \in Nat
  BY FS_CardinalityType
<1> QED
  BY <1>1, <1>2

LEMMA LootSound ==
  ASSUME NEW v, Sound(v), NEW stacks \in SUBSET CorpseRows, IsFiniteSet(stacks),
         NEW order \in LootOrders(stacks)
  PROVE  TakeBackAll([inv |-> v, got |-> [item \in Items |-> 0], rest |-> {}], order) \in Takings(v)
<1> DEFINE A == Takings(v)
           base == [inv |-> v, got |-> [item \in Items |-> 0], rest |-> {}]
           W == {r \in stacks : r.worn}
           C == {r \in stacks : ~ r.worn}
           n == Len(order)
           J == [k \in 0 .. n |-> A]
<1>1. order \in Seq(CorpseRows)
  <2> DEFINE X == SetToSeqs(W)
             Y == SetToSeqs(C)
  <2>0. LootOrders(stacks) = {worn \o carried : worn \in X, carried \in Y}
    BY DEF LootOrders
  <2> HIDE DEF X, Y
  <2>1. PICK worn \in X, carried \in Y : order = worn \o carried
    BY <2>0
  <2>2. IsFiniteSet(W) /\ IsFiniteSet(C)
    BY FS_Subset
  <2>3. worn \in Seq(W) /\ carried \in Seq(C)
    <3> HIDE DEF W, C
    <3> QED
      BY <2>1, <2>2, OrdersAre DEF X, Y
  <2>4. worn \in Seq(CorpseRows) /\ carried \in Seq(CorpseRows)
    BY <2>3
  <2> QED
    BY <2>1, <2>4
<1>2. n \in Nat /\ order \in [1 .. n -> CorpseRows]
  BY <1>1
<1> HIDE DEF n
<1>3. base \in A
  <2>1. \A x \in Items : Total(v, x) \in Nat
    BY TotalNat DEF Sound
  <2>2. base.got \in [Items -> Nat] /\ \A x \in Items : base.got[x] = 0
    OBVIOUS
  <2>3. /\ base.inv = v /\ base.rest = {} /\ v \in Inventories
        /\ base = [inv |-> base.inv, got |-> base.got, rest |-> base.rest]
    BY DEF Sound
  <2> HIDE DEF base
  <2>4. \A x \in Items : Total(base.inv, x) = Total(v, x) + base.got[x]
    BY <2>1, <2>2, <2>3
  <2> QED
    BY <2>2, <2>3, <2>4, FS_EmptySet DEF Takings
<1> HIDE DEF base
<1>4. \A acc \in A, r \in CorpseRows : TakeBack(acc, r) \in A
  BY TakeBackStep
<1> HIDE DEF A
<1>5. \A i \in 1 .. n : \A a \in J[i - 1] : TakeBack(a, order[i]) \in J[i]
  <2> TAKE i \in 1 .. n
  <2>1. J[i - 1] = A /\ J[i] = A /\ order[i] \in CorpseRows
    BY <1>2
  <2> HIDE DEF J
  <2> QED
    BY <1>4, <2>1
<1>6. Keeping(n, A, J) /\ base \in J[0] /\ J[n] = A
  BY <1>2, <1>3 DEF Keeping
<1> HIDE DEF J
<1>7. TakeBackAll(base, order) \in J[n]
  BY <1>2, <1>3, <1>4, <1>5, <1>6, TakeBackKeeps
<1> QED
  BY <1>6, <1>7 DEF base, A

-----------------------------------------------------------------------------
(* The inductive invariant *)

Stocked ==
  /\ Sound(inv)
  /\ vaults \in [VaultNames -> VaultsOver(VaultSlots)]
  /\ ledger \in [Items -> Int]
  /\ corpse \in SUBSET CorpseRows /\ IsFiniteSet(corpse)

\* What is in the vaults, whatever is carried.
Banked(item) == CountIn(vaults["own"], item) + CountIn(vaults["shared"], item)

LEMMA VaultsNat ==
  ASSUME NEW u \in [VaultNames -> VaultsOver(VaultSlots)], NEW v \in VaultNames
  PROVE  u[v] \in VaultsOver(VaultSlots) /\ \A item : CountIn(u[v], item) \in Nat
<1>1. u[v] \in [VaultSlots -> Stacks]
  BY StackFacts DEF VaultsOver
<1> QED
  BY <1>1, VaultSlotsNat, CountIs

\* The books balance after a step that puts on the ledger what it changed.
LEMMA Booked ==
  ASSUME Stocked, Stocked', BooksBalance,
         \A item \in Items : ledger'[item] - ledger[item]
           = (Total(inv', item) - Total(inv, item)) + (Banked(item)' - Banked(item))
  PROVE  BooksBalance'
<1>1. ASSUME NEW item \in Items
      PROVE  ledger'[item] = Holdings(item)'
  <2>1. /\ Total(inv, item) \in Nat /\ ledger[item] \in Int
        /\ CountIn(vaults["own"], item) \in Nat /\ CountIn(vaults["shared"], item) \in Nat
    BY TotalNat, VaultsNat DEF Stocked, Sound, VaultNames
  <2>2. /\ Total(inv', item) \in Nat /\ ledger'[item] \in Int
        /\ CountIn(vaults'["own"], item) \in Nat /\ CountIn(vaults'["shared"], item) \in Nat
    BY TotalNat, VaultsNat DEF Stocked, Sound, VaultNames
  <2>3. ledger[item] = Total(inv, item) + CountIn(vaults["own"], item) + CountIn(vaults["shared"], item)
    BY DEF BooksBalance, Holdings
  <2>4. Holdings(item)' = Total(inv', item) + CountIn(vaults'["own"], item) + CountIn(vaults'["shared"], item)
    BY DEF Holdings
  <2>5. /\ Banked(item) = CountIn(vaults["own"], item) + CountIn(vaults["shared"], item)
        /\ Banked(item)' = CountIn(vaults'["own"], item) + CountIn(vaults'["shared"], item)
    BY DEF Banked
  <2>6. ledger'[item] - ledger[item]
           = (Total(inv', item) - Total(inv, item)) + (Banked(item)' - Banked(item))
    OBVIOUS
  <2> QED
    BY <2>1, <2>2, <2>3, <2>4, <2>5, <2>6
<1> QED
  BY <1>1 DEF BooksBalance

\* What a step must do: keep the invariant, and the books in balance.
Kept == Stocked' /\ (BooksBalance => BooksBalance')

LEMMA Rearranged ==
  ASSUME Stocked, Sound(inv'), \A item \in Items : Total(inv', item) = Total(inv, item),
         UNCHANGED <<vaults, ledger, corpse>>
  PROVE  Kept
<1>1. Stocked'
  BY DEF Stocked
<1>2. \A item \in Items : Banked(item)' = Banked(item)
  BY DEF Banked
<1>3. \A item \in Items : /\ Total(inv, item) \in Nat /\ Banked(item) \in Nat
                          /\ ledger[item] \in Int
  BY TotalNat, VaultsNat DEF Stocked, Sound, Banked, VaultNames
<1>4. \A item \in Items : ledger'[item] - ledger[item]
        = (Total(inv', item) - Total(inv, item)) + (Banked(item)' - Banked(item))
  BY <1>2, <1>3
<1> QED
  BY <1>1, <1>4, Booked DEF Kept

LEMMA MoveKeeps ==
  ASSUME Stocked, NEW src \in Slots, NEW dst \in Slots, MoveItem(src, dst)
  PROVE  Kept
BY MoveSound, Rearranged DEF MoveItem, Stocked

\* Only a split that takes the last of a bag with contents loses something.
LEMMA SplitKeeps ==
  ASSUME Stocked, NEW src \in BaseRefs, NEW dst \in BaseRefs,
         NEW n \in 1 .. Peek(inv, src).count, SplitStack(src, dst, n)
  PROVE  Stocked' /\ (SplitsFullBags = FALSE => Kept)
<1>1. n \in Int
  BY DEF SplitStack, CanSplit
<1>2. /\ Sound(inv')
      /\ ~ BagNonempty(inv, KeyOf(src)) => \A item \in Items : Total(inv', item) = Total(inv, item)
  BY <1>1, SplitSound DEF SplitStack, Stocked
<1>3. Stocked'
  BY <1>2 DEF SplitStack, Stocked
<1>4. ASSUME SplitsFullBags = FALSE
      PROVE  Kept
  <2>1. \A item \in Items : Total(inv', item) = Total(inv, item)
    BY <1>2, <1>4 DEF SplitStack
  <2> QED
    BY <1>2, <2>1, Rearranged DEF SplitStack
<1> QED
  BY <1>3, <1>4

LEMMA EquipKeeps ==
  ASSUME Stocked, NEW src \in Slots, NEW e \in EquipSlots, EquipItem(src, e)
  PROVE  Kept
BY EquipSound, Rearranged DEF EquipItem, Stocked

LEMMA UnequipKeeps ==
  ASSUME Stocked, NEW e \in EquipSlots, NEW dst \in Slots, UnequipItem(e, dst)
  PROVE  Kept
BY UnequipSound, Rearranged DEF UnequipItem, Stocked

LEMMA ParkKeeps ==
  ASSUME Stocked, ParkHeld
  PROVE  Kept
BY ParkSound, Rearranged DEF ParkHeld, Stocked

\* A step that changes what is carried of one item, and books it.
LEMMA Carried ==
  ASSUME Stocked, Sound(inv'), NEW item \in Items, NEW d \in Int,
         \A x \in Items : Total(inv', x) = Total(inv, x) + IF x = item THEN d ELSE 0,
         Record(item, d), UNCHANGED <<vaults, corpse>>
  PROVE  Kept
<1>1. /\ ledger' \in [Items -> Int]
      /\ \A x \in Items : ledger'[x] = ledger[x] + IF x = item THEN d ELSE 0
  BY DEF Record, Stocked
<1>2. Stocked'
  BY <1>1 DEF Stocked
<1>3. \A x \in Items : Banked(x)' = Banked(x)
  BY DEF Banked
<1>4. \A x \in Items : Total(inv, x) \in Nat /\ Banked(x) \in Nat /\ ledger[x] \in Int
  BY TotalNat, VaultsNat DEF Stocked, Sound, Banked, VaultNames
<1>5. \A x \in Items : ledger'[x] - ledger[x]
        = (Total(inv', x) - Total(inv, x)) + (Banked(x)' - Banked(x))
  BY <1>1, <1>3, <1>4
<1> QED
  BY <1>2, <1>5, Booked DEF Kept

LEMMA DestroyKeeps ==
  ASSUME Stocked, NEW slot \in Slots, NEW n \in 0 .. Peek(inv, slot).count, DestroyItem(slot, n)
  PROVE  Kept
<1> DEFINE a == Peek(inv, slot)
           d == Taken(a, n)
<1>1. a.count \in Nat
  BY StackFacts DEF Stocked, Sound, Inventories, Peek
<1>2. n \in Nat
  BY <1>1
<1>3. /\ Sound(inv') /\ a.item \in Items /\ d \in 1 .. a.count
      /\ \A x \in Items : Total(inv', x) = Total(inv, x) - IF x = a.item THEN d ELSE 0
  BY <1>2, DestroySound DEF DestroyItem, Stocked
<1>4. Record(a.item, - d) /\ UNCHANGED <<vaults, corpse>>
  BY DEF DestroyItem
<1> HIDE DEF a, d
<1>5. - d \in Int
  BY <1>1, <1>3
<1>6. \A x \in Items : Total(inv, x) \in Nat
  BY TotalNat DEF Stocked, Sound
<1>7. \A x \in Items : Total(inv', x) = Total(inv, x) + IF x = a.item THEN - d ELSE 0
  BY <1>1, <1>3, <1>6
<1> QED
  BY <1>3, <1>4, <1>5, <1>7, Carried

LEMMA UseKeeps ==
  ASSUME Stocked, NEW slot \in Slots, UseConsumable(slot)
  PROVE  Kept
<1> DEFINE a == Peek(inv, slot)
           d == -1
<1>1. ~ IsBag(a)
  BY GoneAreNoBags DEF UseConsumable, IsBag
<1>2. /\ Sound(inv') /\ a.item \in Items
      /\ \A x \in Items : Total(inv', x) = Total(inv, x) - IF x = a.item THEN 1 ELSE 0
  BY <1>1, DecrementSound DEF UseConsumable, Stocked
<1>3. Record(a.item, d) /\ UNCHANGED <<vaults, corpse>>
  BY DEF UseConsumable
<1> HIDE DEF a
<1>4. \A x \in Items : Total(inv, x) \in Nat
  BY TotalNat DEF Stocked, Sound
<1>5. d \in Int /\ \A x \in Items : Total(inv', x) = Total(inv, x) + IF x = a.item THEN d ELSE 0
  BY <1>2, <1>4
<1> HIDE DEF d
<1> QED
  BY <1>2, <1>3, <1>5, Carried

LEMMA GiveKeeps ==
  ASSUME Stocked, NEW item \in Items, NEW n \in Counts(item), GmGive(item, n)
  PROVE  Kept
<1> DEFINE r == AddItem(inv, item, n)
           d == n - r.left
<1>1. n \in Nat
  BY MaxOwnedNat DEF Counts
<1>2. /\ Sound(r.inv) /\ r.left \in 0 .. n
      /\ Total(r.inv, item) = Total(inv, item) + n - r.left
      /\ \A x \in Items \ {item} : Total(r.inv, x) = Total(inv, x)
  BY <1>1, AddSound DEF Stocked
<1>3. inv' = r.inv /\ Record(item, d) /\ UNCHANGED <<vaults, corpse>>
  BY DEF GmGive
<1> HIDE DEF r
<1>4. \A x \in Items : Total(inv, x) \in Nat
  BY TotalNat DEF Stocked, Sound
<1>5. d \in Int /\ \A x \in Items : Total(inv', x) = Total(inv, x) + IF x = item THEN d ELSE 0
  BY <1>1, <1>2, <1>3, <1>4
<1> HIDE DEF d
<1> QED
  BY <1>2, <1>3, <1>5, Carried

LEMMA PickKeeps ==
  ASSUME Stocked, NEW item \in Items, NEW n \in Counts(item), PickUp(item, n)
  PROVE  Kept
<1>1. n \in 1 .. MaxStack[item]
  BY MaxOwnedNat, StackFacts DEF Counts, PickUp
<1>2. /\ Sound(inv')
      /\ \A x \in Items : Total(inv', x) = Total(inv, x) + IF x = item THEN n ELSE 0
  BY <1>1, PickSound DEF PickUp, Stocked
<1>3. n \in Int
  BY MaxOwnedNat DEF Counts
<1> QED
  BY <1>2, <1>3, Carried DEF PickUp

\* What leaves the bags is in the vault: n is no more than it can take.
LEMMA StoreKeeps ==
  ASSUME Stocked, NEW v \in VaultNames, NEW slot \in Slots, BankStore(v, slot)
  PROVE  Kept
<1> DEFINE a == Peek(inv, slot)
           n == Least(a.count, CapacityFor(vaults[v], a.item))
           u == Deposit(vaults[v], a.item, n).vault
<1>1. /\ CanDestroy(inv, slot) /\ n > 0 /\ inv' = DestroyAt(inv, slot, n)
      /\ vaults' = [vaults EXCEPT ![v] = u]
      /\ UNCHANGED <<ledger, corpse>>
  BY DEF BankStore
<1>2. a \in Fitting /\ a # Empty
  BY <1>1 DEF Stocked, Sound, Inventories, Peek, CanDestroy
<1> HIDE DEF a
<1>3. a.count \in Nat \ {0} /\ a.item \in Items
  BY <1>2, StackFacts
<1>4. vaults[v] \in VaultsOver(VaultSlots) /\ \A item : CountIn(vaults[v], item) \in Nat
  BY VaultsNat DEF Stocked
<1>5. CapacityFor(vaults[v], a.item) \in Nat
  BY <1>3, <1>4, VaultFacts, VaultSlotsNat
<1>6. n \in 1 .. a.count /\ n <= CapacityFor(vaults[v], a.item) /\ n \in Nat
  BY <1>1, <1>3, <1>5 DEF Least
<1> HIDE DEF n
<1>7. /\ Sound(inv')
      /\ \A x \in Items : Total(inv', x) = Total(inv, x) - IF x = a.item THEN n ELSE 0
  BY <1>1, <1>6, DestroySound DEF Stocked, a
<1>8. /\ u \in VaultsOver(VaultSlots)
      /\ CountIn(u, a.item) = CountIn(vaults[v], a.item) + n
      /\ \A x \in Items \ {a.item} : CountIn(u, x) = CountIn(vaults[v], x)
  BY <1>3, <1>4, <1>6, DepositSound, VaultSlotsNat
<1> HIDE DEF u
<1>9. Stocked'
  BY <1>1, <1>7, <1>8 DEF Stocked
<1>10. vaults \in [VaultNames -> VaultsOver(VaultSlots)]
  BY DEF Stocked
<1>11. ASSUME NEW x \in Items
       PROVE  ledger'[x] - ledger[x]
                = (Total(inv', x) - Total(inv, x)) + (Banked(x)' - Banked(x))
  <2>1. /\ Total(inv, x) \in Nat /\ ledger[x] \in Int
        /\ CountIn(vaults["own"], x) \in Nat /\ CountIn(vaults["shared"], x) \in Nat
    BY TotalNat, VaultsNat DEF Stocked, Sound, VaultNames
  <2>2. vaults'[v] = u /\ \A w \in VaultNames \ {v} : vaults'[w] = vaults[w]
    BY <1>1, <1>10
  <2>3. CountIn(u, x) = CountIn(vaults[v], x) + IF x = a.item THEN n ELSE 0
    BY <1>4, <1>8
  <2>4. Banked(x)' = CountIn(vaults'["own"], x) + CountIn(vaults'["shared"], x)
    BY DEF Banked
  <2>5. Banked(x)' - Banked(x) = IF x = a.item THEN n ELSE 0
    <3>1. CASE v = "own"
      BY <1>6, <2>1, <2>2, <2>3, <2>4, <3>1 DEF Banked, VaultNames
    <3>2. CASE v = "shared"
      BY <1>6, <2>1, <2>2, <2>3, <2>4, <3>2 DEF Banked, VaultNames
    <3> QED
      BY <3>1, <3>2 DEF VaultNames
  <2>6. Total(inv', x) - Total(inv, x) = IF x = a.item THEN - n ELSE 0
    BY <1>6, <1>7, <2>1
  <2>7. ledger'[x] - ledger[x] = 0
    BY <1>1, <2>1
  <2> HIDE DEF a
  <2> QED
    BY <1>6, <2>5, <2>6, <2>7
<1> QED
  BY <1>9, <1>11, Booked DEF Kept

\* What comes out of the vault is in the bags, or back in its slot.
LEMMA WithdrawKeeps ==
  ASSUME Stocked, NEW v \in VaultNames, NEW s \in VaultSlots, BankWithdraw(v, s)
  PROVE  Kept
<1> DEFINE a == vaults[v][s]
           r == AddItem(inv, a.item, a.count)
           u == Restore(TakeAll(vaults[v], s), s, a.item, r.left)
           rest == Stack(a.item, r.left)
<1>1. /\ a # Empty /\ inv' = r.inv /\ vaults' = [vaults EXCEPT ![v] = u]
      /\ UNCHANGED <<ledger, corpse>>
  BY DEF BankWithdraw
<1>2. vaults[v] \in VaultsOver(VaultSlots) /\ \A item : CountIn(vaults[v], item) \in Nat
  BY VaultsNat DEF Stocked
<1>3. a \in Fitting
  BY <1>2 DEF VaultsOver
<1>4. u = [vaults[v] EXCEPT ![s] = rest]
  <2>1. [[vaults[v] EXCEPT ![s] = Empty] EXCEPT ![s] = rest] = [vaults[v] EXCEPT ![s] = rest]
    BY <1>2 DEF VaultsOver
  <2> HIDE DEF r, a
  <2>2. r.left = 0 => rest = Empty
    BY DEF Stack
  <2> HIDE DEF rest
  <2> QED
    BY <2>1, <2>2 DEF Restore, TakeAll, rest
<1> HIDE DEF a, u, rest
<1>5. a.count \in Nat \ {0} /\ a.item \in Items /\ a.count <= MaxStack[a.item] /\ MaxStack[a.item] \in Nat
  BY <1>1, <1>3, StackFacts
<1>6. /\ Sound(r.inv) /\ r.left \in 0 .. a.count
      /\ Total(r.inv, a.item) = Total(inv, a.item) + a.count - r.left
      /\ \A x \in Items \ {a.item} : Total(r.inv, x) = Total(inv, x)
  BY <1>5, AddSound DEF Stocked
<1> HIDE DEF r
<1>7. /\ r.left \in Nat /\ rest \in Fitting
      /\ \A x \in Items : Of(rest, x) = IF x = a.item THEN r.left ELSE 0
  <2>1. r.left \in Nat /\ r.left <= MaxStack[a.item]
    BY <1>5, <1>6
  <2> QED
    BY <1>5, <2>1, StackFacts DEF rest
<1>8. u \in VaultsOver(VaultSlots)
  BY <1>2, <1>4, <1>7 DEF VaultsOver
<1>9. ASSUME NEW x \in Items
      PROVE  CountIn(u, x) = CountIn(vaults[v], x) - IF x = a.item THEN a.count - r.left ELSE 0
  <2> DEFINE w == vaults[v]
  <2>1. w \in [VaultSlots -> Stacks] /\ u \in [VaultSlots -> Stacks]
    BY <1>2, <1>8, StackFacts DEF VaultsOver
  <2>2. u[s] = rest /\ \A z \in VaultSlots \ {s} : w[z] = u[z]
    BY <1>2, <1>4 DEF VaultsOver
  <2>3. w[s] = a
    BY DEF a
  <2>4. CountIn(w, x) \in Nat
    BY <1>2
  <2>0. IsFiniteSet(VaultSlots)
    BY VaultSlotsNat
  <2> HIDE DEF w
  <2>5. CountIn(u, x) = CountIn(w, x) - Of(w[s], x) + Of(u[s], x)
    BY <2>0, <2>1, <2>2, CountOne, SMTT(30)
  <2>6. Of(a, x) = IF x = a.item THEN a.count ELSE 0
    BY DEF Of
  <2>7. CountIn(u, x) = CountIn(w, x) - IF x = a.item THEN a.count - r.left ELSE 0
    BY <1>5, <1>7, <2>2, <2>3, <2>4, <2>5, <2>6
  <2> QED
    BY <2>7 DEF w
<1>10. Stocked'
  BY <1>1, <1>6, <1>8 DEF Stocked
<1>11. vaults \in [VaultNames -> VaultsOver(VaultSlots)]
  BY DEF Stocked
<1>12. ASSUME NEW x \in Items
       PROVE  ledger'[x] - ledger[x]
                = (Total(inv', x) - Total(inv, x)) + (Banked(x)' - Banked(x))
  <2> DEFINE d == IF x = a.item THEN a.count - r.left ELSE 0
  <2>0. d \in Int
    BY <1>5, <1>7
  <2>1. /\ Total(inv, x) \in Nat /\ ledger[x] \in Int
        /\ CountIn(vaults["own"], x) \in Nat /\ CountIn(vaults["shared"], x) \in Nat
    BY TotalNat, VaultsNat DEF Stocked, Sound, VaultNames
  <2>2. vaults'[v] = u /\ \A w \in VaultNames \ {v} : vaults'[w] = vaults[w]
    BY <1>1, <1>11
  <2>3. CountIn(u, x) = CountIn(vaults[v], x) - d
    BY <1>9
  <2>4. Total(inv', x) = Total(inv, x) + d
    BY <1>1, <1>5, <1>6, <1>7, <2>1
  <2> HIDE DEF d
  <2>5. Banked(x)' = CountIn(vaults'["own"], x) + CountIn(vaults'["shared"], x)
    BY DEF Banked
  <2>6. Banked(x)' - Banked(x) = - d
    <3>1. CASE v = "own"
      BY <2>0, <2>1, <2>2, <2>3, <2>5, <3>1 DEF Banked, VaultNames
    <3>2. CASE v = "shared"
      BY <2>0, <2>1, <2>2, <2>3, <2>5, <3>2 DEF Banked, VaultNames
    <3> QED
      BY <3>1, <3>2 DEF VaultNames
  <2>7. ledger'[x] - ledger[x] = 0
    BY <1>1, <2>1
  <2> QED
    BY <2>0, <2>1, <2>4, <2>6, <2>7
<1> QED
  BY <1>10, <1>12, Booked DEF Kept

LEMMA DieKeeps ==
  ASSUME Stocked, Die
  PROVE  Kept
<1> DEFINE gone == [item \in Items |-> - Total(inv, item)]
<1>1. /\ corpse' = CorpseStacks(inv) /\ inv' = NoInventory /\ vaults' = vaults
      /\ ledger' = [item \in Items |-> ledger[item] + gone[item]]
  BY DEF Die, RecordAll, ClearAll
<1>2. \A x \in Items : Total(inv, x) \in Nat /\ ledger[x] \in Int /\ Banked(x) \in Nat
  BY TotalNat, VaultsNat DEF Stocked, Sound, Banked, VaultNames
<1>3. \A x \in Items : gone[x] = - Total(inv, x)
  OBVIOUS
<1> HIDE DEF gone
<1>4. \A x \in Items : ledger'[x] = ledger[x] - Total(inv, x)
  BY <1>1, <1>2, <1>3
<1>5. ledger' \in [Items -> Int]
  BY <1>1, <1>2, <1>3
<1>6. Stocked'
  BY <1>1, <1>5, EmptySound, CorpseFacts DEF Stocked
<1>7. \A x \in Items : Banked(x)' = Banked(x) /\ Total(inv', x) = 0
  BY <1>1, EmptySound DEF Banked
<1>8. \A x \in Items : ledger'[x] - ledger[x]
        = (Total(inv', x) - Total(inv, x)) + (Banked(x)' - Banked(x))
  BY <1>2, <1>4, <1>7
<1> QED
  BY <1>6, <1>8, Booked DEF Kept

LEMMA LootKeeps ==
  ASSUME Stocked, NEW stacks \in SUBSET corpse, LootCorpse(stacks)
  PROVE  Kept
<1> DEFINE base == [inv |-> inv, got |-> [item \in Items |-> 0], rest |-> {}]
<1>1. PICK order \in LootOrders(stacks) :
        /\ inv' = TakeBackAll(base, order).inv
        /\ corpse' = (corpse \ stacks) \cup TakeBackAll(base, order).rest
        /\ RecordAll(TakeBackAll(base, order).got)
  BY DEF LootCorpse
<1> DEFINE r == TakeBackAll(base, order)
<1>2. stacks \in SUBSET CorpseRows /\ IsFiniteSet(stacks)
  BY FS_Subset DEF Stocked
<1>3. r \in Takings(inv)
  BY <1>2, LootSound DEF Stocked
<1>4. /\ inv' = r.inv /\ corpse' = (corpse \ stacks) \cup r.rest
      /\ RecordAll(r.got) /\ vaults' = vaults
  BY <1>1 DEF LootCorpse
<1> HIDE DEF r
<1>5. /\ Sound(r.inv) /\ r.got \in [Items -> Nat]
      /\ r.rest \in SUBSET CorpseRows /\ IsFiniteSet(r.rest)
      /\ \A x \in Items : Total(r.inv, x) = Total(inv, x) + r.got[x]
  BY <1>3 DEF Takings
<1>6. \A x \in Items : Total(inv, x) \in Nat /\ ledger[x] \in Int /\ Banked(x) \in Nat
  BY TotalNat, VaultsNat DEF Stocked, Sound, Banked, VaultNames
<1>7. ledger' \in [Items -> Int] /\ \A x \in Items : ledger'[x] = ledger[x] + r.got[x]
  BY <1>4, <1>5, <1>6 DEF RecordAll
<1>8. corpse' \in SUBSET CorpseRows /\ IsFiniteSet(corpse')
  <2>1. IsFiniteSet(corpse \ stacks)
    BY FS_Subset DEF Stocked
  <2> QED
    BY <1>4, <1>5, <2>1, FS_Union DEF Stocked
<1>9. Stocked'
  BY <1>4, <1>5, <1>7, <1>8 DEF Stocked
<1>10. \A x \in Items : Banked(x)' = Banked(x)
  BY <1>4 DEF Banked
<1>11. \A x \in Items : ledger'[x] - ledger[x]
        = (Total(inv', x) - Total(inv, x)) + (Banked(x)' - Banked(x))
  BY <1>4, <1>5, <1>6, <1>7, <1>10
<1> QED
  BY <1>9, <1>11, Booked DEF Kept

\* What is gone after thirty minutes away is put on the ledger.
LEMMA ReloginKeeps ==
  ASSUME Stocked, NEW away \in BOOLEAN, Relogin(away)
  PROVE  Kept
<1> DEFINE loaded == FromRows(ToRows(inv))
           kept == IF away THEN PurgeNoRent(loaded) ELSE loaded
           purged == [v \in VaultNames |-> [s \in VaultSlots |->
                        IF vaults[v][s].item \in NoRent THEN Empty ELSE vaults[v][s]]]
           keptVaults == IF away THEN purged ELSE vaults
           gone(item) == Total(loaded, item) - Total(kept, item)
             + CountIn(vaults["own"], item) - CountIn(keptVaults["own"], item)
             + CountIn(vaults["shared"], item) - CountIn(keptVaults["shared"], item)
<1>1. /\ inv' = kept /\ vaults' = keptVaults /\ corpse' = corpse
      /\ ledger' = [item \in Items |-> ledger[item] + [x \in Items |-> - gone(x)][item]]
  BY DEF Relogin, RecordAll
<1>2. Sound(loaded) /\ loaded.cells = inv.cells
  BY LoadedSound DEF Stocked
<1>3. \A item : Total(loaded, item) = Total(inv, item)
  BY <1>2 DEF Total
<1>4. Sound(kept)
  BY <1>2, PurgeSound
<1>5. keptVaults \in [VaultNames -> VaultsOver(VaultSlots)]
  <2>1. vaults \in [VaultNames -> VaultsOver(VaultSlots)]
    BY DEF Stocked
  <2>2. purged \in [VaultNames -> VaultsOver(VaultSlots)]
    BY <2>1, StackFacts DEF VaultsOver
  <2> HIDE DEF purged
  <2> QED
    BY <2>1, <2>2
<1> HIDE DEF loaded, kept, purged, keptVaults
<1>6. ASSUME NEW x \in Items
      PROVE  /\ Total(inv, x) \in Nat /\ Total(kept, x) \in Nat /\ ledger[x] \in Int
             /\ CountIn(vaults["own"], x) \in Nat /\ CountIn(vaults["shared"], x) \in Nat
             /\ CountIn(keptVaults["own"], x) \in Nat /\ CountIn(keptVaults["shared"], x) \in Nat
  BY <1>4, <1>5, TotalNat, VaultsNat DEF Stocked, Sound, VaultNames
<1>7. \A x \in Items : gone(x) = Total(inv, x) - Total(kept, x)
             + CountIn(vaults["own"], x) - CountIn(keptVaults["own"], x)
             + CountIn(vaults["shared"], x) - CountIn(keptVaults["shared"], x)
  BY <1>3
<1>8. \A x \in Items : ledger'[x] = ledger[x] + (- gone(x))
  BY <1>1
<1> HIDE DEF gone
<1>9. \A x \in Items : gone(x) \in Int
  BY <1>6, <1>7
<1>10. ledger' \in [Items -> Int]
  BY <1>1, <1>6, <1>9
<1>11. Stocked'
  BY <1>1, <1>4, <1>5, <1>10 DEF Stocked
<1>12. ASSUME NEW x \in Items
       PROVE  ledger'[x] - ledger[x]
                = (Total(inv', x) - Total(inv, x)) + (Banked(x)' - Banked(x))
  <2>1. Banked(x)' = CountIn(keptVaults["own"], x) + CountIn(keptVaults["shared"], x)
    BY <1>1 DEF Banked
  <2>2. Banked(x) = CountIn(vaults["own"], x) + CountIn(vaults["shared"], x)
    BY DEF Banked
  <2>3. Total(inv', x) = Total(kept, x)
    BY <1>1
  <2> QED
    BY <1>6, <1>7, <1>8, <1>9, <2>1, <2>2, <2>3
<1> QED
  BY <1>11, <1>12, Booked DEF Kept

-----------------------------------------------------------------------------
(* The theorems *)

LEMMA StockedInit == Init => Stocked /\ BooksBalance
<1> SUFFICES ASSUME Init PROVE Stocked /\ BooksBalance
  OBVIOUS
<1>1. inv = NoInventory /\ ledger = [item \in Items |-> 0] /\ corpse = {}
  BY DEF Init
<1>2. vaults \in [VaultNames -> VaultsOver(VaultSlots)] /\
      \A v \in VaultNames, s \in VaultSlots : vaults[v][s] = Empty
  BY StackFacts DEF Init, NoVault, VaultsOver
<1>3. Stocked
  BY <1>1, <1>2, EmptySound, FS_EmptySet DEF Stocked
<1>4. ASSUME NEW item \in Items
      PROVE  ledger[item] = Holdings(item)
  <2>1. \A v \in VaultNames : vaults[v] \in [VaultSlots -> Stacks]
    BY <1>2, StackFacts DEF VaultsOver
  <2>2. \A v \in VaultNames : CountIn(vaults[v], item) = 0
    BY <1>2, <2>1, CountNone, VaultSlotsNat
  <2>3. CountIn(vaults["own"], item) = 0 /\ CountIn(vaults["shared"], item) = 0
    BY <2>2 DEF VaultNames
  <2>4. Total(inv, item) = 0
    BY <1>1, EmptySound
  <2> QED
    BY <1>1, <2>3, <2>4 DEF Holdings
<1> QED
  BY <1>3, <1>4 DEF BooksBalance

LEMMA StockedNext ==
  ASSUME Stocked, [Next]_vars
  PROVE  Stocked' /\ (SplitsFullBags = FALSE => Kept)
<1>1. ASSUME NEW src \in Slots, NEW dst \in Slots, MoveItem(src, dst)
      PROVE  Kept
  BY <1>1, MoveKeeps
<1>2. ASSUME NEW src \in BaseRefs, NEW dst \in BaseRefs, NEW n \in 1 .. Peek(inv, src).count,
             SplitStack(src, dst, n)
      PROVE  Stocked' /\ (SplitsFullBags = FALSE => Kept)
  BY <1>2, SplitKeeps
<1>3. ASSUME NEW src \in Slots, NEW e \in EquipSlots, EquipItem(src, e)
      PROVE  Kept
  BY <1>3, EquipKeeps
<1>4. ASSUME NEW e \in EquipSlots, NEW dst \in Slots, UnequipItem(e, dst)
      PROVE  Kept
  BY <1>4, UnequipKeeps
<1>5. ASSUME ParkHeld
      PROVE  Kept
  BY <1>5, ParkKeeps
<1>6. ASSUME NEW slot \in Slots, NEW n \in 0 .. Peek(inv, slot).count, DestroyItem(slot, n)
      PROVE  Kept
  BY <1>6, DestroyKeeps
<1>7. ASSUME NEW slot \in Slots, UseConsumable(slot)
      PROVE  Kept
  BY <1>7, UseKeeps
<1>8. ASSUME NEW item \in Items, NEW n \in Counts(item), GmGive(item, n) \/ PickUp(item, n)
      PROVE  Kept
  BY <1>8, GiveKeeps, PickKeeps
<1>9. ASSUME NEW v \in VaultNames, NEW slot \in Slots, BankStore(v, slot)
      PROVE  Kept
  BY <1>9, StoreKeeps
<1>10. ASSUME NEW v \in VaultNames, NEW s \in VaultSlots, BankWithdraw(v, s)
       PROVE  Kept
  BY <1>10, WithdrawKeeps
<1>11. ASSUME Die
       PROVE  Kept
  BY <1>11, DieKeeps
<1>12. ASSUME LootCorpse(corpse)
       PROVE  Kept
  BY <1>12, LootKeeps
<1>13. ASSUME NEW r \in corpse, LootCorpse({r})
       PROVE  Kept
  <2>1. {r} \in SUBSET corpse
    OBVIOUS
  <2> QED
    BY <1>13, <2>1, LootKeeps
<1>14. ASSUME NEW away \in BOOLEAN, Relogin(away)
       PROVE  Kept
  BY <1>14, ReloginKeeps
<1>15. ASSUME UNCHANGED vars
       PROVE  Kept
  BY <1>15, Rearranged DEF vars, Stocked
<1>16. Kept => Stocked'
  BY DEF Kept
<1> QED
  BY <1>1, <1>2, <1>3, <1>4, <1>5, <1>6, <1>7, <1>8, <1>9, <1>10, <1>11, <1>12, <1>13,
     <1>14, <1>15, <1>16 DEF Next

LEMMA AlwaysStocked == Spec => []Stocked
<1>1. Stocked /\ [Next]_vars => Stocked'
  BY StockedNext
<1> QED
  BY <1>1, StockedInit, PTL DEF Spec

LEMMA StockedTypes ==
  ASSUME Stocked
  PROVE  TypeOK
<1>1. inv \in [cells : [Slots -> Stacks], bags : SUBSET Keys]
  BY StackFacts DEF Stocked, Sound, Inventories
<1>2. vaults \in [VaultNames -> [VaultSlots -> Stacks]]
  BY StackFacts DEF Stocked, VaultsOver
<1>3. \A r \in corpse : r.stack \in Stacks \ {Empty} /\ r.worn \in BOOLEAN
  BY StackFacts DEF Stocked, CorpseRows
<1> QED
  BY <1>1, <1>2, <1>3 DEF TypeOK, Stocked

\* Every variable keeps its type on every operation of world/inventory.rs.
THEOREM TypesHold == Spec => []TypeOK
BY AlwaysStocked, StockedTypes, PTL

LEMMA StockedStores ==
  ASSUME Stocked
  PROVE  StoresSound
<1>1. inv.bags \cap BaseSlots = {i \in BaseSlots : IsBag(inv.cells[Base(i)])}
  BY DEF Stocked, Sound
<1>2. BagNonempty(inv, Held) => IsBag(inv.cells[Cursor])
  BY SlotKinds DEF Stocked, Sound, BagNonempty
<1>3. \A k \in Keys : BagNonempty(inv, k) => k \in inv.bags
  BY DEF Stocked, Sound, BagNonempty
<1>4. \A a \in Fitting : WithinCap(a)
  BY DEF Fitting, WithinCap
<1>5. \A s \in Slots : WithinCap(inv.cells[s])
  BY <1>4 DEF Stocked, Sound, Inventories
<1>6. \A v \in VaultNames, s \in VaultSlots : WithinCap(vaults[v][s])
  BY <1>4 DEF Stocked, VaultsOver
<1>7. \A r \in corpse : WithinCap(r.stack)
  BY <1>4 DEF Stocked, CorpseRows
<1> QED
  BY <1>1, <1>2, <1>3, <1>5, <1>6, <1>7 DEF StoresSound, Stocked, Sound

\* No bag is ever inside a bag, contents never outlive their bag, what is worn
\* fits, and no stack carried, banked or on a corpse is over its cap, on every
\* path through the hand, a swap, a merge, a load or a looting, a split of a
\* full bag included.
THEOREM StoresKeepShape == Spec => []StoresSound
BY AlwaysStocked, StockedStores, PTL

LEMMA StockedSaves ==
  ASSUME Stocked
  PROVE  SavedWhole
BY LoadedSound DEF Stocked, SavedWhole

\* from_rows puts back every stack that to_rows writes, in its slot.
THEOREM SaveLosesNothing == Spec => []SavedWhole
BY AlwaysStocked, StockedSaves, PTL

LEMMA StockedPlaces ==
  ASSUME Stocked
  PROVE  PlacerFillsRoom
<1>1. ASSUME NEW item \in Items, NEW n \in Counts(item)
      PROVE  AddItem(inv, item, n).left = n - Least(n, Room(item))
  <2>1. n \in Nat
    BY MaxOwnedNat DEF Counts
  <2>2. AddItem(inv, item, n).left = n - Least(n, RoomOver(inv, Usable(inv), item))
    BY <2>1, AddSound DEF Stocked
  <2>3. Room(item) = RoomOver(inv, Usable(inv), item)
    BY DEF Room, RoomOver, RoomMap
  <2> QED
    BY <2>2, <2>3
<1> QED
  BY <1>1 DEF PlacerFillsRoom

\* add_item_locating leaves over exactly what exceeds the room in the slots it
\* may use: its two passes, in their order, waste none of it.
THEOREM PlacerWastesNothing == Spec => []PlacerFillsRoom
BY AlwaysStocked, StockedPlaces, PTL

\* Unless a client splits off the last of a bag that holds something, the sum
\* of an item's rows is always what the character has of it.
THEOREM LedgerIsHoldings ==
  ASSUME SplitsFullBags = FALSE
  PROVE  Spec => []BooksBalance
<1>1. Stocked /\ BooksBalance /\ [Next]_vars => (Stocked /\ BooksBalance)'
  BY StockedNext DEF Kept
<1> QED
  BY <1>1, StockedInit, PTL DEF Spec

-----------------------------------------------------------------------------
(* The windows of a trade *)

\* What can be offered: no worn piece, nothing in the hand or in a bag there.
Offerable == Reachable \ {Cursor}

\* What a player can have been shown.
Payloads == [stacks : [Window -> Stacks], coins : Nat]

\* The offers of a side name different slots and a stack each.
OffersSound(side) ==
  /\ \A v, w \in Window :
       side.offers[v] # None /\ side.offers[w] # None
         /\ side.offers[v].slot = side.offers[w].slot => v = w
  /\ \A w \in Window : side.offers[w] # None =>
       side.offers[w].slot \in Offerable /\ side.offers[w].stack # Empty

\* A side beside the other one: an accept is of what the other side holds.
SideSound(side, other, shown) ==
  /\ OffersSound(side)
  /\ side.accepted => shown = Payload(other) /\ ~ other.accepted

\* A session and the index of its parties.
SessionSound(s, id, index, shown) ==
  /\ s.a.cid # s.b.cid
  /\ index[s.a.cid] = id /\ index[s.b.cid] = id
  /\ SideSound(s.a, s.b, shown[s.a.cid])
  /\ SideSound(s.b, s.a, shown[s.b.cid])

WindowsSound ==
  /\ sessions \in [SessionIds -> Session \cup {None}]
  /\ byCid \in [Players -> SessionIds \cup {None}]
  /\ seen \in [Players -> Payloads \cup {None}]
  /\ \A p \in Players : byCid[p] # None =>
       sessions[byCid[p]] # None /\ p \in {sessions[byCid[p]].a.cid, sessions[byCid[p]].b.cid}
  /\ \A id \in SessionIds : sessions[id] # None =>
       SessionSound(sessions[id], id, byCid, seen)

\* The two sides of a player's session.
LEMMA Sides ==
  ASSUME WindowsSound, NEW p \in Players, InSession(p)
  PROVE  LET s == SessionOf(p) IN
         /\ byCid[p] \in SessionIds /\ s \in Session /\ s = sessions[byCid[p]] /\ s # None
         /\ SideOf(p).cid = p /\ SideOf(p) \in Side
         /\ Partner(p) \in Players \ {p} /\ InSession(Partner(p))
         /\ byCid[Partner(p)] = byCid[p] /\ SessionOf(Partner(p)) = s
         /\ SideOf(Partner(p)).cid = Partner(p) /\ SideOf(Partner(p)) \in Side
         /\ Partner(Partner(p)) = p
         /\ {p, Partner(p)} = {s.a.cid, s.b.cid}
         /\ Own(p) \in {"a", "b"} /\ Other(p) \in {"a", "b"}
         /\ p = s.a.cid => /\ Own(p) = "a" /\ Other(p) = "b" /\ SideOf(p) = s.a
                           /\ Own(Partner(p)) = "b" /\ SideOf(Partner(p)) = s.b
         /\ p # s.a.cid => /\ Own(p) = "b" /\ Other(p) = "a" /\ SideOf(p) = s.b
                           /\ Own(Partner(p)) = "a" /\ SideOf(Partner(p)) = s.a
<1> DEFINE s == SessionOf(p)
           q == Partner(p)
<1>1. byCid[p] \in SessionIds /\ s \in Session /\ s = sessions[byCid[p]] /\ s # None
  BY NoneIsNoRecord DEF WindowsSound, InSession, SessionOf
<1>2. /\ s.a.cid # s.b.cid /\ p \in {s.a.cid, s.b.cid}
      /\ byCid[s.a.cid] = byCid[p] /\ byCid[s.b.cid] = byCid[p]
      /\ s.a.cid \in Players /\ s.b.cid \in Players
  BY <1>1 DEF WindowsSound, InSession, SessionSound, Session, Side
<1>3. s.a \in Side /\ s.b \in Side /\ s["a"] = s.a /\ s["b"] = s.b
  BY <1>1 DEF Session
<1>4. CASE p = s.a.cid
  <2>1. Own(p) = "a" /\ Other(p) = "b" /\ SideOf(p) = s.a /\ q = s.b.cid
    BY <1>3, <1>4 DEF Own, Other, SideOf, Partner
  <2>2. SessionOf(q) = s /\ q # s.a.cid
    BY <1>2, <2>1 DEF SessionOf
  <2>3. Own(q) = "b" /\ Other(q) = "a" /\ SideOf(q) = s.b /\ Partner(q) = p
    BY <1>3, <1>4, <2>2 DEF Own, Other, SideOf, Partner
  <2> QED
    BY <1>1, <1>2, <1>3, <1>4, <2>1, <2>2, <2>3 DEF InSession
<1>5. CASE p # s.a.cid
  <2>1. Own(p) = "b" /\ Other(p) = "a" /\ SideOf(p) = s.b /\ q = s.a.cid
    BY <1>3, <1>5 DEF Own, Other, SideOf, Partner
  <2>2. SessionOf(q) = s
    BY <1>2, <2>1 DEF SessionOf
  <2>3. Own(q) = "a" /\ Other(q) = "b" /\ SideOf(q) = s.a /\ Partner(q) = p
    BY <1>2, <1>3, <1>5, <2>1, <2>2 DEF Own, Other, SideOf, Partner
  <2> QED
    BY <1>1, <1>2, <1>3, <1>5, <2>1, <2>2, <2>3 DEF InSession
<1> QED
  BY <1>4, <1>5

LEMMA WindowsPromise ==
  ASSUME WindowsSound
  PROVE  SessionsSound
<1>1. IndexAgrees
  BY DEF WindowsSound, SessionSound, IndexAgrees, InSession, SessionOf
<1>2. ASSUME NEW p \in Players, InSession(p)
      PROVE  OffersDistinct(p) /\ AcceptStands(p)
  <2>1. SessionSound(SessionOf(p), byCid[p], byCid, seen)
    BY <1>2, Sides DEF WindowsSound
  <2> DEFINE mine == SideOf(p)
             theirs == SideOf(Partner(p))
  <2>2. SideSound(mine, theirs, seen[p])
    BY <1>2, <2>1, Sides DEF SessionSound
  <2> QED
    BY <2>2 DEF SideSound, OffersSound, OffersDistinct, AcceptStands
<1> QED
  BY <1>1, <1>2 DEF SessionsSound

-----------------------------------------------------------------------------
(* What a step may do to the windows *)

\* A session is another one, of the same parties.
Redrawn(id, t) ==
  /\ id \in SessionIds /\ sessions[id] \in Session /\ t \in Session
  /\ t.a.cid = sessions[id].a.cid /\ t.b.cid = sessions[id].b.cid
  /\ sessions' = [sessions EXCEPT ![id] = t] /\ byCid' = byCid
  /\ seen' \in [Players -> Payloads \cup {None}]
  /\ \A r \in Players \ {t.a.cid, t.b.cid} : seen'[r] = seen[r]
  /\ SideSound(t.a, t.b, seen'[t.a.cid]) /\ SideSound(t.b, t.a, seen'[t.b.cid])

LEMMA RedrawnSound ==
  ASSUME WindowsSound, NEW id, NEW t, Redrawn(id, t)
  PROVE  WindowsSound'
<1> DEFINE s == sessions[id]
<1>0. /\ id \in SessionIds /\ s \in Session /\ t \in Session
      /\ t.a.cid = s.a.cid /\ t.b.cid = s.b.cid
      /\ sessions' = [sessions EXCEPT ![id] = t] /\ byCid' = byCid
      /\ seen' \in [Players -> Payloads \cup {None}]
      /\ \A r \in Players \ {s.a.cid, s.b.cid} : seen'[r] = seen[r]
      /\ SideSound(t.a, t.b, seen'[t.a.cid]) /\ SideSound(t.b, t.a, seen'[t.b.cid])
  BY DEF Redrawn
<1>1. sessions' \in [SessionIds -> Session \cup {None}] /\ sessions'[id] = t
  BY <1>0 DEF WindowsSound
<1>2. \A i \in SessionIds \ {id} : sessions'[i] = sessions[i]
  BY <1>0 DEF WindowsSound
<1>3. s # None /\ t # None
  BY <1>0, NoneIsNoRecord
<1>4. ASSUME NEW p \in Players, byCid'[p] # None
      PROVE  /\ sessions'[byCid'[p]] # None
             /\ p \in {sessions'[byCid'[p]].a.cid, sessions'[byCid'[p]].b.cid}
  BY <1>0, <1>1, <1>2, <1>3, <1>4 DEF WindowsSound
<1>5. ASSUME NEW i \in SessionIds, sessions'[i] # None
      PROVE  SessionSound(sessions'[i], i, byCid', seen')
  <2>1. CASE i = id
    BY <1>0, <1>1, <1>3, <2>1 DEF WindowsSound, SessionSound
  <2>2. CASE i # id
    <3> DEFINE u == sessions[i]
    <3>1. sessions'[i] = u /\ u # None /\ u \in Session
      BY <1>2, <1>5, <2>2 DEF WindowsSound
    <3>2. SessionSound(u, i, byCid, seen) /\ SessionSound(s, id, byCid, seen)
      BY <1>0, <1>3, <3>1 DEF WindowsSound
    <3>3. {u.a.cid, u.b.cid} \subseteq Players \ {s.a.cid, s.b.cid}
      BY <2>2, <3>1, <3>2 DEF SessionSound, Session, Side
    <3>4. seen'[u.a.cid] = seen[u.a.cid] /\ seen'[u.b.cid] = seen[u.b.cid]
      BY <1>0, <3>3
    <3> QED
      BY <1>0, <3>1, <3>2, <3>4 DEF SessionSound
  <2> QED
    BY <2>1, <2>2
<1> QED
  BY <1>0, <1>1, <1>4, <1>5 DEF WindowsSound

\* No window changed.
LEMMA NoneChanged ==
  ASSUME WindowsSound, UNCHANGED windowVars
  PROVE  WindowsSound'
BY DEF WindowsSound, windowVars

LEMMA CloseSound ==
  ASSUME WindowsSound, NEW p \in Players, InSession(p), Close(p)
  PROVE  WindowsSound'
<1> DEFINE id == byCid[p]
           s == sessions[id]
           q == Partner(p)
<1>1. /\ id \in SessionIds /\ s \in Session /\ s # None /\ q \in Players \ {p}
      /\ {p, q} = {s.a.cid, s.b.cid} /\ byCid[q] = id
  BY Sides
<1>2. /\ sessions' = [sessions EXCEPT ![id] = None]
      /\ byCid' = [byCid EXCEPT ![p] = None, ![q] = None]
      /\ seen' = [seen EXCEPT ![p] = None, ![q] = None]
  BY DEF Close
<1> HIDE DEF id, s, q
<1>3. /\ sessions' \in [SessionIds -> Session \cup {None}] /\ sessions'[id] = None
      /\ \A i \in SessionIds \ {id} : sessions'[i] = sessions[i]
  BY <1>1, <1>2 DEF WindowsSound
<1>4. /\ byCid' \in [Players -> SessionIds \cup {None}]
      /\ byCid'[p] = None /\ byCid'[q] = None
      /\ \A r \in Players \ {p, q} : byCid'[r] = byCid[r]
  BY <1>1, <1>2 DEF WindowsSound
<1>5. /\ seen' \in [Players -> Payloads \cup {None}]
      /\ \A r \in Players \ {p, q} : seen'[r] = seen[r]
  BY <1>1, <1>2 DEF WindowsSound
<1>6. ASSUME NEW r \in Players, byCid'[r] # None
      PROVE  /\ sessions'[byCid'[r]] # None
             /\ r \in {sessions'[byCid'[r]].a.cid, sessions'[byCid'[r]].b.cid}
  <2>1. r \notin {p, q} /\ byCid'[r] = byCid[r]
    BY <1>4, <1>6
  <2>2. byCid[r] # id
    BY <1>1, <1>6, <2>1 DEF WindowsSound, s
  <2> QED
    BY <1>3, <1>6, <2>1, <2>2 DEF WindowsSound
<1>7. ASSUME NEW i \in SessionIds, sessions'[i] # None
      PROVE  SessionSound(sessions'[i], i, byCid', seen')
  <2> DEFINE u == sessions[i]
  <2>1. i # id /\ sessions'[i] = u /\ u # None /\ u \in Session
    BY <1>3, <1>7 DEF WindowsSound
  <2>2. SessionSound(u, i, byCid, seen)
    BY <2>1 DEF WindowsSound
  <2>3. {u.a.cid, u.b.cid} \subseteq Players \ {p, q}
    BY <1>1, <2>1, <2>2 DEF SessionSound, Session, Side, id
  <2>4. /\ seen'[u.a.cid] = seen[u.a.cid] /\ seen'[u.b.cid] = seen[u.b.cid]
        /\ byCid'[u.a.cid] = byCid[u.a.cid] /\ byCid'[u.b.cid] = byCid[u.b.cid]
    BY <1>4, <1>5, <2>3
  <2> QED
    BY <2>1, <2>2, <2>4 DEF SessionSound
<1> QED
  BY <1>3, <1>4, <1>5, <1>6, <1>7 DEF WindowsSound

\* While two players trade with nobody there is an id to spare.
LEMMA FreeId ==
  ASSUME WindowsSound, NEW p \in Players, NEW q \in Players, p # q,
         ~ InSession(p), ~ InSession(q)
  PROVE  \E i \in SessionIds : sessions[i] = None
<1> SUFFICES ASSUME \A i \in SessionIds : sessions[i] # None
             PROVE  FALSE
  OBVIOUS
<1> DEFINE A == {sessions[i].a.cid : i \in SessionIds}
           B == {sessions[i].b.cid : i \in SessionIds}
           f == [i \in SessionIds |-> sessions[i].a.cid]
           g == [i \in SessionIds |-> sessions[i].b.cid]
           rest == Players \ {p, q}
           n == Cardinality(SessionIds)
<1>1. \A i \in SessionIds :
        /\ sessions[i].a.cid \in Players /\ sessions[i].b.cid \in Players
        /\ byCid[sessions[i].a.cid] = i /\ byCid[sessions[i].b.cid] = i
        /\ sessions[i].a.cid # sessions[i].b.cid
  BY DEF WindowsSound, SessionSound, Session, Side
<1>2. \A i \in SessionIds : sessions[i].a.cid \in rest /\ sessions[i].b.cid \in rest
  BY <1>1, NoneIsNothing DEF InSession
<1>3. A \subseteq rest /\ B \subseteq rest /\ A \cap B = {}
  BY <1>1, <1>2
<1>4. f \in Injection(SessionIds, A) /\ g \in Injection(SessionIds, B)
  BY <1>1 DEF Injection, IsInjective
<1>5. IsFiniteSet(rest) /\ Cardinality(rest) = Cardinality(Players) - 2
  <2>1. IsFiniteSet(Players \ {p}) /\ Cardinality(Players \ {p}) = Cardinality(Players) - 1
    BY EnoughIds, FS_RemoveElement
  <2>2. q \in Players \ {p} /\ (Players \ {p}) \ {q} = rest
    OBVIOUS
  <2>3. Cardinality(Players) \in Nat
    BY EnoughIds, FS_CardinalityType
  <2> HIDE DEF rest
  <2>4. IsFiniteSet(rest) /\ Cardinality(rest) = Cardinality(Players \ {p}) - 1
    BY <2>1, <2>2, FS_RemoveElement
  <2> QED
    BY <2>1, <2>3, <2>4
<1> HIDE DEF A, B, f, g, rest
<1>6. IsFiniteSet(A) /\ IsFiniteSet(B)
  BY <1>3, <1>5, FS_Subset
<1>7. n <= Cardinality(A) /\ n <= Cardinality(B)
  BY <1>4, <1>6, FS_Injection
<1>8. A \cup B \in SUBSET rest
  BY <1>3
<1>9. Cardinality(A \cup B) = Cardinality(A) + Cardinality(B)
  <2>1. Cardinality(A \cup B) = Cardinality(A) + Cardinality(B) - 0
    BY <1>3, <1>6, FS_Union, FS_EmptySet
  <2> QED
    BY <1>6, <2>1, FS_CardinalityType
<1>10. Cardinality(A \cup B) <= Cardinality(Players) - 2
  BY <1>5, <1>8, FS_Subset
<1>11. /\ n \in Nat /\ Cardinality(Players) \in Nat /\ 2 * n >= Cardinality(Players)
       /\ Cardinality(A) \in Nat /\ Cardinality(B) \in Nat
  BY <1>6, EnoughIds, FS_CardinalityType
<1> HIDE DEF n
<1> QED
  BY <1>7, <1>9, <1>10, <1>11

LEMMA RequestSound ==
  ASSUME WindowsSound, NEW p \in Players, NEW q \in Players, Request(p, q)
  PROVE  /\ WindowsSound'
         /\ \E id \in SessionIds :
              /\ sessions[id] = None
              /\ sessions' = [sessions EXCEPT ![id] = [a |-> NewSide(p), b |-> NewSide(q)]]
              /\ byCid' = [byCid EXCEPT ![p] = id, ![q] = id] /\ seen' = seen
<1> DEFINE id == CHOOSE i \in SessionIds : sessions[i] = None
           t == [a |-> NewSide(p), b |-> NewSide(q)]
<1>1. p # q /\ ~ InSession(p) /\ ~ InSession(q)
  BY DEF Request
<1>2. id \in SessionIds /\ sessions[id] = None
  BY <1>1, FreeId
<1>3. /\ sessions' = [sessions EXCEPT ![id] = t]
      /\ byCid' = [byCid EXCEPT ![p] = id, ![q] = id]
      /\ seen' = seen
  BY DEF Request
<1> HIDE DEF id
<1>4. t.a = NewSide(p) /\ t.b = NewSide(q) /\ t \in Session /\ t # None
  <2>1. NewSide(p) \in Side /\ NewSide(q) \in Side
    BY DEF NewSide, Side
  <2> QED
    BY <2>1, NoneIsNoRecord DEF Session
<1>5. /\ NewSide(p).cid = p /\ NewSide(q).cid = q
      /\ ~ NewSide(p).accepted /\ ~ NewSide(q).accepted
      /\ \A w \in Window : NewSide(p).offers[w] = None /\ NewSide(q).offers[w] = None
  BY DEF NewSide
<1> HIDE DEF t
<1>6. /\ sessions' \in [SessionIds -> Session \cup {None}] /\ sessions'[id] = t
      /\ \A i \in SessionIds \ {id} : sessions'[i] = sessions[i]
      /\ byCid' \in [Players -> SessionIds \cup {None}]
      /\ byCid'[p] = id /\ byCid'[q] = id
      /\ \A r \in Players \ {p, q} : byCid'[r] = byCid[r]
      /\ seen' \in [Players -> Payloads \cup {None}]
  BY <1>1, <1>2, <1>3, <1>4 DEF WindowsSound
<1>7. ASSUME NEW r \in Players, byCid'[r] # None
      PROVE  /\ sessions'[byCid'[r]] # None
             /\ r \in {sessions'[byCid'[r]].a.cid, sessions'[byCid'[r]].b.cid}
  <2>1. CASE r \in {p, q}
    BY <1>4, <1>5, <1>6, <2>1
  <2>2. CASE r \notin {p, q}
    <3>1. byCid[r] \in SessionIds /\ byCid[r] # id /\ byCid'[r] = byCid[r]
      BY <1>2, <1>6, <1>7, <2>2 DEF WindowsSound
    <3> QED
      BY <1>6, <1>7, <3>1 DEF WindowsSound
  <2> QED
    BY <2>1, <2>2
<1>8. ASSUME NEW i \in SessionIds, sessions'[i] # None
      PROVE  SessionSound(sessions'[i], i, byCid', seen')
  <2>1. CASE i = id
    <3>1. SideSound(t.a, t.b, seen'[p]) /\ SideSound(t.b, t.a, seen'[q])
      BY <1>4, <1>5 DEF SideSound, OffersSound
    <3> QED
      BY <1>1, <1>4, <1>5, <1>6, <2>1, <3>1 DEF SessionSound
  <2>2. CASE i # id
    <3> DEFINE u == sessions[i]
    <3>1. sessions'[i] = u /\ u # None /\ u \in Session
      BY <1>6, <1>8, <2>2 DEF WindowsSound
    <3>2. SessionSound(u, i, byCid, seen)
      BY <3>1 DEF WindowsSound
    <3>3. {u.a.cid, u.b.cid} \subseteq Players \ {p, q}
      BY <1>1, <3>1, <3>2, NoneIsNothing DEF SessionSound, Session, Side, InSession
    <3>4. byCid'[u.a.cid] = byCid[u.a.cid] /\ byCid'[u.b.cid] = byCid[u.b.cid]
      BY <1>6, <3>3
    <3> QED
      BY <1>3, <3>1, <3>2, <3>4 DEF SessionSound
  <2> QED
    BY <2>1, <2>2
<1> QED
  BY <1>2, <1>3, <1>6, <1>7, <1>8 DEF WindowsSound, t

-----------------------------------------------------------------------------
(* The intents *)

\* What an accept, or taking both back, does to a session.
LEMMA SidesEdited ==
  ASSUME NEW s \in Session, NEW x \in BOOLEAN, NEW y \in BOOLEAN
  PROVE  /\ [s EXCEPT !.a.accepted = x] =
              [a |-> [s.a EXCEPT !.accepted = x], b |-> s.b]
         /\ [s EXCEPT !.b.accepted = y] =
              [a |-> s.a, b |-> [s.b EXCEPT !.accepted = y]]
         /\ [s EXCEPT !.a.accepted = x, !.b.accepted = y] =
              [a |-> [s.a EXCEPT !.accepted = x], b |-> [s.b EXCEPT !.accepted = y]]
<1> DEFINE v == [s.a EXCEPT !.accepted = x]
           w == [s.b EXCEPT !.accepted = y]
<1>1. s = [a |-> s.a, b |-> s.b] /\ DOMAIN s = {"a", "b"}
  BY DEF Session
<1> HIDE DEF v, w
<1>2. [s EXCEPT !.a = v] = [a |-> v, b |-> s.b]
  BY <1>1
<1>3. [s EXCEPT !.b = w] = [a |-> s.a, b |-> w]
  BY <1>1
<1>4. [s EXCEPT !.a = v, !.b = w] = [a |-> v, b |-> w]
  <2> DEFINE u == [a |-> v, b |-> s.b]
  <2>1. [u EXCEPT !.b = w] = [a |-> v, b |-> w]
    OBVIOUS
  <2>2. [s EXCEPT !.a = v, !.b = w] = [[s EXCEPT !.a = v] EXCEPT !.b = w]
    OBVIOUS
  <2> QED
    BY <1>2, <2>1, <2>2
<1> QED
  BY <1>2, <1>3, <1>4 DEF v, w

\* A session is redrawn with no accept in it.
Reset ==
  \E id \in SessionIds, t \in Session :
    Redrawn(id, t) /\ ~ t.a.accepted /\ ~ t.b.accepted

LEMMA ResetSound ==
  ASSUME WindowsSound, Reset
  PROVE  WindowsSound'
BY RedrawnSound DEF Reset

LEMMA SeenCleared ==
  ASSUME WindowsSound, NEW p \in Players, InSession(p),
         seen' = [seen EXCEPT ![p] = None, ![Partner(p)] = None]
  PROVE  /\ seen' \in [Players -> Payloads \cup {None}]
         /\ \A r \in Players \ {p, Partner(p)} : seen'[r] = seen[r]
BY Sides DEF WindowsSound

\* Any two sides with the session's parties and sound offers may be drawn.
LEMMA ResetTo ==
  ASSUME WindowsSound, NEW p \in Players, InSession(p), NEW t \in Session,
         t.a.cid = SessionOf(p).a.cid, t.b.cid = SessionOf(p).b.cid,
         OffersSound(t.a), OffersSound(t.b), ~ t.a.accepted, ~ t.b.accepted,
         sessions' = [sessions EXCEPT ![byCid[p]] = t], byCid' = byCid,
         seen' = [seen EXCEPT ![p] = None, ![Partner(p)] = None]
  PROVE  Reset
<1> DEFINE id == byCid[p]
<1>1. /\ id \in SessionIds /\ sessions[id] \in Session /\ SessionOf(p) = sessions[id]
      /\ {p, Partner(p)} = {sessions[id].a.cid, sessions[id].b.cid}
  BY Sides
<1>2. /\ seen' \in [Players -> Payloads \cup {None}]
      /\ \A r \in Players \ {t.a.cid, t.b.cid} : seen'[r] = seen[r]
  BY <1>1, SeenCleared
<1>3. SideSound(t.a, t.b, seen'[t.a.cid]) /\ SideSound(t.b, t.a, seen'[t.b.cid])
  BY DEF SideSound
<1> QED
  BY <1>1, <1>2, <1>3 DEF Reset, Redrawn

LEMMA SidesOffer ==
  ASSUME WindowsSound, NEW p \in Players, InSession(p)
  PROVE  OffersSound(SessionOf(p).a) /\ OffersSound(SessionOf(p).b) /\ OffersSound(SideOf(p))
<1>1. SessionSound(SessionOf(p), byCid[p], byCid, seen)
  BY Sides DEF WindowsSound
<1> QED
  BY <1>1, Sides DEF SessionSound, SideSound

LEMMA ChangeResets ==
  ASSUME WindowsSound, NEW p \in Players, InSession(p),
         NEW side \in Side, side.cid = p, OffersSound(side),
         ChangeSide(p, side), byCid' = byCid
  PROVE  Reset
<1> DEFINE s == SessionOf(p)
           u == [s EXCEPT ![Own(p)] = side]
           t == [u EXCEPT !.a.accepted = FALSE, !.b.accepted = FALSE]
<1>1. s \in Session /\ s = sessions[byCid[p]] /\ byCid[p] \in SessionIds
  BY Sides
<1>2. /\ sessions' = [sessions EXCEPT ![byCid[p]] = t]
      /\ seen' = [seen EXCEPT ![p] = None, ![Partner(p)] = None]
  BY <1>1 DEF ChangeSide, WindowsSound
<1>3. /\ u \in Session /\ u.a.cid = s.a.cid /\ u.b.cid = s.b.cid
      /\ OffersSound(u.a) /\ OffersSound(u.b)
  <2>1. CASE p = s.a.cid
    <3>1. Own(p) = "a" /\ u = [a |-> side, b |-> s.b]
      BY <1>1, <2>1, Sides DEF Session
    <3> QED
      BY <1>1, <2>1, <3>1, SidesOffer DEF Session
  <2>2. CASE p # s.a.cid
    <3>1. Own(p) = "b" /\ u = [a |-> s.a, b |-> side] /\ p = s.b.cid
      BY <1>1, <2>2, Sides DEF Session
    <3> QED
      BY <1>1, <2>2, <3>1, SidesOffer DEF Session
  <2> QED
    BY <2>1, <2>2
<1> HIDE DEF u
<1>4. t = [a |-> [u.a EXCEPT !.accepted = FALSE], b |-> [u.b EXCEPT !.accepted = FALSE]]
  BY <1>3, SidesEdited
<1> HIDE DEF t
<1>5. /\ t \in Session /\ t.a.cid = s.a.cid /\ t.b.cid = s.b.cid
      /\ ~ t.a.accepted /\ ~ t.b.accepted
      /\ t.a.offers = u.a.offers /\ t.b.offers = u.b.offers
  BY <1>3, <1>4 DEF Session, Side
<1>6. OffersSound(t.a) /\ OffersSound(t.b)
  BY <1>3, <1>5 DEF OffersSound
<1> HIDE DEF s
<1> QED
  BY <1>2, <1>5, <1>6, ResetTo DEF s

LEMMA ClearResets ==
  ASSUME WindowsSound, NEW p \in Players, InSession(p), ClearAccepts(p), byCid' = byCid
  PROVE  Reset
<1> DEFINE s == SessionOf(p)
           t == [a |-> [s.a EXCEPT !.accepted = FALSE], b |-> [s.b EXCEPT !.accepted = FALSE]]
<1>1. s \in Session /\ s = sessions[byCid[p]] /\ byCid[p] \in SessionIds
  BY Sides
<1>2. /\ sessions' = [sessions EXCEPT ![byCid[p]] = t]
      /\ seen' = [seen EXCEPT ![p] = None, ![Partner(p)] = None]
  <2>1. [s EXCEPT !.a.accepted = FALSE, !.b.accepted = FALSE] = t
    BY <1>1, SidesEdited
  <2>2. sessions \in [SessionIds -> Session \cup {None}]
    BY DEF WindowsSound
  <2> DEFINE u == [s EXCEPT !.a.accepted = FALSE, !.b.accepted = FALSE]
  <2>3. sessions' = [sessions EXCEPT ![byCid[p]] = u]
    BY <1>1, <2>2 DEF ClearAccepts
  <2> HIDE DEF t, u
  <2>4. u = t
    BY <2>1 DEF u
  <2> QED
    BY <2>3, <2>4 DEF ClearAccepts
<1>3. /\ t \in Session /\ t.a.cid = s.a.cid /\ t.b.cid = s.b.cid
      /\ ~ t.a.accepted /\ ~ t.b.accepted
      /\ t.a.offers = s.a.offers /\ t.b.offers = s.b.offers
  BY <1>1 DEF Session, Side
<1> HIDE DEF t
<1>4. OffersSound(t.a) /\ OffersSound(t.b)
  BY <1>3, SidesOffer DEF OffersSound
<1> HIDE DEF s
<1> QED
  BY <1>2, <1>3, <1>4, ResetTo DEF s

\* Offers that leave the window leave the others as they are.
LEMMA FailChangedResets ==
  ASSUME WindowsSound, NEW p \in Players, FailChanged(p)
  PROVE  Reset
<1> DEFINE s == SessionOf(p)
           q == Partner(p)
           kept(side, x) == [side EXCEPT
             !.offers = [w \in Window |-> IF w \in ChangedOffers(x) THEN None ELSE @[w]],
             !.accepted = FALSE]
           t == [a |-> kept(s.a, s.a.cid), b |-> kept(s.b, s.b.cid)]
<1>0. InSession(p)
  BY DEF FailChanged, AcceptSecond
<1>1. s \in Session /\ s = sessions[byCid[p]] /\ byCid[p] \in SessionIds
  BY <1>0, Sides
<1>2. /\ sessions' = [sessions EXCEPT ![byCid[p]] = t]
      /\ seen' = [seen EXCEPT ![p] = None, ![Partner(p)] = None]
      /\ byCid' = byCid
  BY <1>1 DEF FailChanged, WindowsSound
<1>3. ASSUME NEW side \in Side, NEW x, OffersSound(side)
      PROVE  /\ kept(side, x) \in Side /\ kept(side, x).cid = side.cid
             /\ ~ kept(side, x).accepted /\ OffersSound(kept(side, x))
  <2>1. /\ kept(side, x) \in Side /\ kept(side, x).cid = side.cid
        /\ ~ kept(side, x).accepted
        /\ \A w \in Window : kept(side, x).offers[w] \in {None, side.offers[w]}
    BY DEF Side
  <2> HIDE DEF kept
  <2> QED
    BY <1>3, <2>1 DEF OffersSound
<1>4. s.a \in Side /\ s.b \in Side /\ OffersSound(s.a) /\ OffersSound(s.b)
  BY <1>0, <1>1, SidesOffer DEF Session
<1>5. t.a = kept(s.a, s.a.cid) /\ t.b = kept(s.b, s.b.cid)
  OBVIOUS
<1>6. t \in Session
  BY <1>3, <1>4 DEF Session
<1> HIDE DEF kept
<1> QED
  <2> HIDE DEF t
  <2>1. /\ t.a.cid = s.a.cid /\ t.b.cid = s.b.cid /\ OffersSound(t.a) /\ OffersSound(t.b)
        /\ ~ t.a.accepted /\ ~ t.b.accepted
    BY <1>3, <1>4, <1>5
  <2> HIDE DEF s
  <2> QED
    BY <1>0, <1>2, <1>6, <2>1, ResetTo DEF s

LEMMA PayloadType ==
  ASSUME NEW side \in Side
  PROVE  Payload(side) \in Payloads
<1>1. \A w \in Window : side.offers[w] # None => side.offers[w].stack \in Stacks
  BY DEF Side, Offers
<1>2. Empty \in Stacks
  BY DEF Stacks
<1> QED
  BY <1>1, <1>2 DEF Payload, Payloads, Side

\* The first accept is of what the partner's side holds.
LEMMA AcceptRedraws ==
  ASSUME WindowsSound, NEW p \in Players, AcceptFirst(p)
  PROVE  \E t \in Session :
           /\ Redrawn(byCid[p], t)
           /\ ~ SideOf(Partner(p)).accepted
           /\ seen' = [seen EXCEPT ![p] = Payload(SideOf(Partner(p)))]
           /\ p = t.a.cid => t.b = SessionOf(p).b /\ t.a = [SessionOf(p).a EXCEPT !.accepted = TRUE]
           /\ p # t.a.cid => t.a = SessionOf(p).a /\ t.b = [SessionOf(p).b EXCEPT !.accepted = TRUE]
<1> DEFINE s == SessionOf(p)
           q == Partner(p)
           t == [s EXCEPT ![Own(p)].accepted = TRUE]
<1>0. InSession(p) /\ ~ SideOf(q).accepted
  BY DEF AcceptFirst
<1>1. /\ s \in Session /\ s = sessions[byCid[p]] /\ byCid[p] \in SessionIds
      /\ q \in Players \ {p} /\ SideOf(q) \in Side
  BY <1>0, Sides
<1>2. /\ sessions' = [sessions EXCEPT ![byCid[p]] = t] /\ byCid' = byCid
      /\ seen' = [seen EXCEPT ![p] = Payload(SideOf(q))]
  BY <1>1 DEF AcceptFirst, WindowsSound
<1>3. /\ seen' \in [Players -> Payloads \cup {None}]
      /\ seen'[p] = Payload(SideOf(q))
      /\ \A r \in Players \ {p} : seen'[r] = seen[r]
  BY <1>1, <1>2, PayloadType DEF WindowsSound
<1>4. OffersSound(s.a) /\ OffersSound(s.b)
  BY <1>0, SidesOffer
<1>5. CASE p = s.a.cid
  <2>1. Own(p) = "a" /\ SideOf(q) = s.b /\ q = s.b.cid
    BY <1>0, <1>1, <1>5, Sides
  <2>2. t = [a |-> [s.a EXCEPT !.accepted = TRUE], b |-> s.b]
    BY <1>1, <2>1, SidesEdited
  <2> HIDE DEF t
  <2>3. /\ t \in Session /\ t.a.cid = s.a.cid /\ t.b = s.b
        /\ t.a.offers = s.a.offers /\ t.a = [s.a EXCEPT !.accepted = TRUE]
    BY <1>1, <2>2 DEF Session, Side
  <2>4. SideSound(t.a, t.b, seen'[t.a.cid]) /\ SideSound(t.b, t.a, seen'[t.b.cid])
    BY <1>0, <1>3, <1>4, <1>5, <2>1, <2>3 DEF SideSound, OffersSound
  <2>5. Redrawn(byCid[p], t)
    BY <1>1, <1>2, <1>3, <1>5, <2>3, <2>4 DEF Redrawn
  <2> QED
    BY <1>0, <1>2, <1>5, <2>3, <2>5
<1>6. CASE p # s.a.cid
  <2>1. Own(p) = "b" /\ SideOf(q) = s.a /\ q = s.a.cid /\ p = s.b.cid
    BY <1>0, <1>1, <1>6, Sides
  <2>2. t = [a |-> s.a, b |-> [s.b EXCEPT !.accepted = TRUE]]
    BY <1>1, <2>1, SidesEdited
  <2> HIDE DEF t
  <2>3. /\ t \in Session /\ t.b.cid = s.b.cid /\ t.a = s.a
        /\ t.b.offers = s.b.offers /\ t.b = [s.b EXCEPT !.accepted = TRUE]
    BY <1>1, <2>2 DEF Session, Side
  <2>4. SideSound(t.a, t.b, seen'[t.a.cid]) /\ SideSound(t.b, t.a, seen'[t.b.cid])
    BY <1>0, <1>3, <1>4, <1>6, <2>1, <2>3 DEF SideSound, OffersSound
  <2>5. Redrawn(byCid[p], t)
    BY <1>1, <1>2, <1>3, <1>6, <2>1, <2>3, <2>4 DEF Redrawn
  <2> QED
    BY <1>0, <1>2, <1>6, <2>3, <2>5
<1> QED
  BY <1>5, <1>6

LEMMA RetrieveResets ==
  ASSUME WindowsSound, NEW p \in Players, NEW w \in Window, RetrieveItem(p, w)
  PROVE  Reset
<1> DEFINE mine == SideOf(p)
           side == [mine EXCEPT !.offers[w] = None]
<1>1. InSession(p) /\ ChangeSide(p, side) /\ byCid' = byCid
  BY DEF RetrieveItem
<1>2. mine \in Side /\ mine.cid = p /\ OffersSound(mine)
  BY <1>1, Sides, SidesOffer
<1>3. /\ side \in Side /\ side.cid = p
      /\ \A v \in Window : side.offers[v] \in {None, mine.offers[v]}
  BY <1>2 DEF Side
<1> HIDE DEF side, mine
<1>4. OffersSound(side)
  BY <1>2, <1>3 DEF OffersSound
<1> QED
  BY <1>1, <1>3, <1>4, ChangeResets

LEMMA CoinsReset ==
  ASSUME WindowsSound, NEW p \in Players, NEW n \in Nat, OfferCoins(p, n)
  PROVE  Reset
<1> DEFINE mine == SideOf(p)
           side == [mine EXCEPT !.coins = n]
<1>1. InSession(p) /\ ChangeSide(p, side) /\ byCid' = byCid
  BY DEF OfferCoins
<1>2. mine \in Side /\ mine.cid = p /\ OffersSound(mine)
  BY <1>1, Sides, SidesOffer
<1>3. side \in Side /\ side.cid = p /\ side.offers = mine.offers
  BY <1>2 DEF Side
<1> HIDE DEF side, mine
<1>4. OffersSound(side)
  BY <1>2, <1>3 DEF OffersSound
<1> QED
  BY <1>1, <1>3, <1>4, ChangeResets

-----------------------------------------------------------------------------
(* What an operation on a slot leaves alone *)

\* A slot is not in the bag on another one, or in the hand.
Apart(o, slot) == o # slot /\ (o \in BagRefs /\ IsHost(slot) => o[2] # KeyOf(slot))

LEMMA EnsureElsewhere ==
  ASSUME NEW w, NEW slots \in SUBSET Slots, NEW o \in Slots,
         o \in BagRefs => o[2] \notin Touched(slots)
  PROVE  EnsureBagsInit(w, slots).cells[o] = w.cells[o]
BY SlotKinds DEF EnsureBagsInit

LEMMA TouchedHosts ==
  ASSUME NEW slots \in SUBSET Slots, NEW k \in Touched(slots)
  PROVE  \E s \in slots : IsHost(s) /\ KeyOf(s) = k /\ s \in BaseRefs
<1>1. PICK s \in slots \cap BaseRefs : s[2] = k
  BY DEF Touched
<1>2. s = Base(s[2]) /\ Kind(s) = "base" /\ s[2] \in BaseSlots
  BY <1>1, SlotFacts
<1>3. KeyOf(s) = s[2] /\ IsHost(s)
  BY <1>2, SlotKinds DEF IsHost
<1> QED
  BY <1>1, <1>3

LEMMA MoveElsewhere ==
  ASSUME NEW v, Sound(v), NEW src, NEW dst, CanMove(v, src, dst),
         NEW o \in Slots, Apart(o, src), Apart(o, dst)
  PROVE  Move(v, src, dst).cells[o] = v.cells[o]
<1> DEFINE a == Peek(v, src)
           b == Peek(v, dst)
           left == Leftover(b, a.count)
           merged == [v EXCEPT !.cells[src] = Stack(a.item, left),
                               !.cells[dst].count = @ + a.count - left]
           swapped == [v EXCEPT !.cells[src] = b, !.cells[dst] = a]
           k1 == KeyOf(src)
           k2 == KeyOf(dst)
           exchanged == ExchangeContents(swapped, k1, k2)
<1>1. src \in Slots /\ dst \in Slots /\ v \in Inventories /\ o # src /\ o # dst
  BY DEF CanMove, Reachable, Sound, Apart
<1>2. merged.cells[o] = v.cells[o] /\ swapped.cells[o] = v.cells[o]
  BY <1>1 DEF Inventories
<1>3. o \in BagRefs => o[2] \notin Touched({src, dst})
  BY <1>1, TouchedHosts DEF Apart
<1>4. CASE Merges(a, b)
  <2>1. Move(v, src, dst) = EnsureBagsInit(merged, {src, dst})
    BY <1>4 DEF Move
  <2> HIDE DEF merged
  <2> QED
    BY <1>1, <1>2, <1>3, <2>1, EnsureElsewhere
<1>5. CASE ~ Merges(a, b) /\ ~ (IsHost(src) /\ IsHost(dst))
  <2>1. Move(v, src, dst) = EnsureBagsInit(swapped, {src, dst})
    BY <1>5 DEF Move
  <2> HIDE DEF swapped
  <2> QED
    BY <1>1, <1>2, <1>3, <2>1, EnsureElsewhere
<1>6. CASE ~ Merges(a, b) /\ IsHost(src) /\ IsHost(dst)
  <2>1. Move(v, src, dst) = EnsureBagsInit(exchanged, {src, dst})
    BY <1>6 DEF Move
  <2> HIDE DEF swapped
  <2>2. exchanged.cells[o] = swapped.cells[o]
    <3>1. CASE o \in BagRefs
      <4>1. o[2] # k1 /\ o[2] # k2 /\ o = Bag(o[2], o[3])
        BY <1>6, <3>1, SlotFacts DEF Apart
      <4>2. OtherHost(o[2], k1, k2) = o[2]
        BY <4>1 DEF OtherHost
      <4> QED
        BY <1>1, <4>1, <4>2 DEF ExchangeContents
    <3>2. CASE o \notin BagRefs
      <4>1. Kind(o) # "bag"
        BY <3>2, SlotKinds
      <4> QED
        BY <1>1, <4>1 DEF ExchangeContents
    <3> QED
      BY <3>1, <3>2
  <2> HIDE DEF exchanged
  <2> QED
    BY <1>1, <1>2, <1>3, <2>1, <2>2, EnsureElsewhere
<1> QED
  BY <1>4, <1>5, <1>6

\* A held stack that is parked is where it was parked, and nothing else moved.
LEMMA ParkPuts ==
  ASSUME NEW v, Sound(v), CanPark(v)
  PROVE  /\ ParkSlot(v) \in Offerable /\ Peek(v, ParkSlot(v)) = Empty
         /\ Peek(Park(v), ParkSlot(v)) = Peek(v, Cursor)
         /\ \A o \in Offerable : Peek(v, o) # Empty => Peek(Park(v), o) = Peek(v, o)
<1> DEFINE s == ParkSlot(v)
           a == Peek(v, Cursor)
           swapped == [v EXCEPT !.cells[Cursor] = Empty, !.cells[s] = a]
<1>1. s \in ParkSlots(v)
  BY ParkSlotIs DEF CanPark
<1> HIDE DEF s
<1>2. /\ s \in Usable(v) /\ Peek(v, s) = Empty
      /\ Kind(s) = "bag" => ~ IsBag(Peek(v, Cursor))
  BY <1>1 DEF ParkSlots
<1>3. s \in Slots /\ s \notin EquipRefs /\ s # Cursor /\ Exists(v, s)
  BY <1>2, SlotFacts, SlotKinds DEF Usable, Exists
<1>4. s \notin {Bag(Held, c) : c \in BagCells} /\ (s \in BagRefs => s[2] # Held)
  BY <1>2, SlotFacts, SlotKinds DEF Usable
<1>5. Cursor \in Reachable /\ Exists(v, Cursor) /\ Kind(Cursor) = "cursor"
  BY SlotFacts, SlotKinds DEF Reachable, Exists
<1>6. CanMove(v, Cursor, s) /\ s \in Reachable
  BY <1>2, <1>3, <1>4, <1>5 DEF CanMove, CanPark, Reachable
<1>7. a \in Stacks /\ a.item # NoItem /\ Empty.item = NoItem
  BY <1>5, StackFacts DEF CanPark, Sound, Inventories, Fitting, Peek, Reachable, Empty
<1>8. ~ Merges(a, Peek(v, s))
  BY <1>2, <1>7 DEF Merges
<1>9. Peek(Park(v), s) = a
  <2> DEFINE placed == IF IsHost(Cursor) /\ IsHost(s)
                       THEN ExchangeContents(swapped, KeyOf(Cursor), KeyOf(s))
                       ELSE swapped
  <2>1. Park(v) = EnsureBagsInit(placed, {Cursor, s})
    BY <1>2, <1>8 DEF Park, Move, s
  <2>2. swapped.cells[s] = a
    BY <1>3 DEF Sound, Inventories
  <2> HIDE DEF swapped
  <2>3. CASE s \in BagRefs
    <3>1. placed = swapped
      BY <1>3, <2>3, SlotKinds DEF IsHost
    <3>2. Touched({Cursor, s}) = {}
      BY <2>3, SlotFacts, SlotKinds DEF Touched
    <3> HIDE DEF placed
    <3> QED
      BY <1>3, <1>5, <2>1, <2>2, <3>1, <3>2, EnsureElsewhere DEF Peek, Reachable
  <2>4. CASE s \notin BagRefs
    <3>1. placed.cells[s] = swapped.cells[s]
      BY <1>3, <2>4, SlotKinds DEF ExchangeContents
    <3> HIDE DEF placed
    <3> QED
      BY <1>3, <1>5, <2>1, <2>2, <2>4, <3>1, EnsureElsewhere DEF Peek, Reachable
  <2> QED
    BY <2>3, <2>4
<1>10. ASSUME NEW o \in Offerable, Peek(v, o) # Empty
       PROVE  Peek(Park(v), o) = Peek(v, o)
  <2>1. o \in Slots /\ o # Cursor /\ o # s /\ (o \in BagRefs => o[2] # Held)
    BY <1>2, <1>10, SlotFacts DEF Offerable, Reachable
  <2>2. Apart(o, Cursor)
    BY <2>1, SlotKinds DEF Apart
  <2>3. Apart(o, s)
    <3> SUFFICES ASSUME o \in BagRefs, IsHost(s), o[2] = KeyOf(s)
                 PROVE  FALSE
      BY <2>1 DEF Apart
    <3>1. s \in BaseRefs
      BY <1>3, SlotKinds DEF IsHost
    <3>2. HostOf(o[2]) = s /\ o[2] \in Keys /\ o[3] \in BagCells /\ o = Bag(o[2], o[3])
      BY <3>1, SlotFacts, SlotKinds
    <3>3. IsBag(v.cells[s])
      BY <1>10, <3>2 DEF Sound, Peek
    <3> QED
      BY <1>2, <3>3, NoItemIsNone, ItemKinds DEF IsBag, Empty, Peek
  <2> QED
    BY <1>6, <2>1, <2>2, <2>3, MoveElsewhere DEF Park, Peek, s
<1> QED
  BY <1>2, <1>3, <1>6, <1>9, <1>10 DEF Offerable, s

-----------------------------------------------------------------------------
(* An offer *)

Carrying == invs \in [Players -> Inventories] /\ \A p \in Players : Sound(invs[p])

\* What p holds becomes u, with nothing gone from a slot that can be offered.
Shuffled(p, u) ==
  /\ invs' = [invs EXCEPT ![p] = u] /\ Sound(u)
  /\ \A item \in Items : Total(u, item) = Total(invs[p], item)
  /\ \A o \in Offerable : Peek(invs[p], o) # Empty => Peek(u, o) = Peek(invs[p], o)

LEMMA OfferSound ==
  ASSUME Carrying, WindowsSound, NEW p \in Players, NEW w \in Window, NEW from \in Slots,
         OfferItem(p, w, from)
  PROVE  /\ Reset \/ UNCHANGED windowVars
         /\ \E u : Shuffled(p, u)
<1> DEFINE v == invs[p]
           slot == IF from = Cursor THEN ParkSlot(v) ELSE from
           parked == IF from = Cursor THEN Park(v) ELSE v
           stack == Peek(parked, slot)
           offer == [slot |-> slot, stack |-> stack]
           mine == SideOf(p)
           side == [mine EXCEPT !.offers[w] = offer]
<1>1. /\ InSession(p) /\ from \in Reachable /\ Peek(v, from) # Empty
      /\ from = Cursor => CanPark(v)
      /\ invs' = [invs EXCEPT ![p] = parked]
      /\ IF Refused(p, w, parked, slot) THEN UNCHANGED <<sessions, seen>>
         ELSE ChangeSide(p, side)
      /\ byCid' = byCid
  BY DEF OfferItem
<1>2. Sound(v) /\ v \in Inventories
  BY DEF Carrying
<1>3. /\ slot \in Offerable /\ stack # Empty /\ Shuffled(p, parked)
  <2>1. CASE from = Cursor
    <3>1. slot = ParkSlot(v) /\ parked = Park(v)
      BY <2>1
    <3> HIDE DEF slot, parked
    <3>2. slot \in Offerable /\ stack = Peek(v, Cursor)
          /\ \A o \in Offerable : Peek(v, o) # Empty => Peek(parked, o) = Peek(v, o)
      BY <1>1, <1>2, <2>1, <3>1, ParkPuts
    <3>3. Sound(parked) /\ \A item \in Items : Total(parked, item) = Total(v, item)
      BY <1>1, <1>2, <2>1, <3>1, ParkSound
    <3> QED
      BY <1>1, <2>1, <3>2, <3>3 DEF Shuffled
  <2>2. CASE from # Cursor
    <3>1. slot = from /\ parked = v
      BY <2>2
    <3> HIDE DEF slot, parked
    <3> QED
      BY <1>1, <1>2, <2>2, <3>1 DEF Offerable, Shuffled
  <2> QED
    BY <2>1, <2>2
<1> HIDE DEF slot, parked
<1>4. offer \in Offers /\ offer.slot = slot /\ offer.stack = stack
  <2>1. slot \in Slots
    BY <1>3 DEF Offerable, Reachable
  <2>2. stack \in Stacks
    BY <1>3, <2>1, StackFacts DEF Shuffled, Sound, Inventories, Peek
  <2> QED
    BY <2>1, <2>2 DEF Offers
<1>5. ASSUME ~ Refused(p, w, parked, slot)
      PROVE  Reset
  <2>1. mine \in Side /\ mine.cid = p /\ OffersSound(mine)
    BY <1>1, Sides, SidesOffer
  <2>2. \A v1 \in Window : mine.offers[v1] # None => mine.offers[v1].slot # slot
    BY <1>5 DEF Refused, OfferedSlots
  <2> HIDE DEF offer, mine
  <2>3. /\ side \in Side /\ side.cid = p /\ side.offers[w] = offer
        /\ \A v1 \in Window \ {w} : side.offers[v1] = mine.offers[v1]
    BY <1>4, <2>1 DEF Side
  <2>4. ChangeSide(p, side)
    BY <1>1, <1>5 DEF mine, offer
  <2> HIDE DEF side, stack
  <2>5. OffersSound(side)
    BY <1>3, <1>4, <2>1, <2>2, <2>3 DEF OffersSound
  <2> QED
    BY <1>1, <2>3, <2>4, <2>5, ChangeResets
<1> QED
  BY <1>1, <1>3, <1>5 DEF windowVars

-----------------------------------------------------------------------------
(* What is agreed *)

\* What a side of a window agreed to.
Agreed(side, other, shown) ==
  IF side.accepted
  THEN [with |-> other.cid, gives |-> Shown(Payload(side)), gets |-> Shown(shown)]
  ELSE None

AgreedBy(p, ss, index, shown) ==
  IF index[p] = None THEN None
  ELSE LET s == ss[index[p]]
       IN  IF s.a.cid = p THEN Agreed(s.a, s.b, shown[p]) ELSE Agreed(s.b, s.a, shown[p])

LEMMA DealIs ==
  ASSUME NEW p \in Players
  PROVE  /\ Deal[p] = AgreedBy(p, sessions, byCid, seen)
         /\ Deal'[p] = AgreedBy(p, sessions', byCid', seen')
         /\ Deal = [r \in Players |-> Deal[r]] /\ Deal' = [r \in Players |-> Deal'[r]]
BY DEF Deal, AgreedBy, Agreed, InSession, SideOf, SessionOf, Partner, Own, Other

LEMMA RedrawnDeals ==
  ASSUME WindowsSound, NEW id, NEW t, Redrawn(id, t)
  PROVE  LET s == sessions[id] IN
         /\ \A r \in Players \ {t.a.cid, t.b.cid} : Deal'[r] = Deal[r]
         /\ Deal[t.a.cid] = Agreed(s.a, s.b, seen[t.a.cid])
         /\ Deal[t.b.cid] = Agreed(s.b, s.a, seen[t.b.cid])
         /\ Deal'[t.a.cid] = Agreed(t.a, t.b, seen'[t.a.cid])
         /\ Deal'[t.b.cid] = Agreed(t.b, t.a, seen'[t.b.cid])
         /\ {t.a.cid, t.b.cid} \subseteq Players /\ t.a.cid # t.b.cid
<1> DEFINE s == sessions[id]
<1>1. /\ id \in SessionIds /\ s \in Session /\ t \in Session /\ s # None /\ id # None
      /\ t.a.cid = s.a.cid /\ t.b.cid = s.b.cid
      /\ sessions'[id] = t /\ byCid' = byCid
      /\ \A i \in SessionIds \ {id} : sessions'[i] = sessions[i]
      /\ \A r \in Players \ {t.a.cid, t.b.cid} : seen'[r] = seen[r]
  BY NoneIsNoRecord, NoneIsNothing DEF Redrawn, WindowsSound
<1>2. /\ byCid[t.a.cid] = id /\ byCid[t.b.cid] = id /\ t.a.cid # t.b.cid
      /\ {t.a.cid, t.b.cid} \subseteq Players
  BY <1>1 DEF WindowsSound, SessionSound, Session, Side
<1>3. ASSUME NEW r \in Players \ {t.a.cid, t.b.cid}
      PROVE  Deal'[r] = Deal[r]
  <2>1. byCid[r] # None => byCid[r] \in SessionIds \ {id}
    BY <1>1, <1>3 DEF WindowsSound
  <2> QED
    BY <1>1, <2>1, DealIs DEF AgreedBy
<1>4. /\ Deal[t.a.cid] = Agreed(s.a, s.b, seen[t.a.cid])
      /\ Deal[t.b.cid] = Agreed(s.b, s.a, seen[t.b.cid])
  BY <1>1, <1>2, DealIs DEF AgreedBy
<1>5. /\ Deal'[t.a.cid] = Agreed(t.a, t.b, seen'[t.a.cid])
      /\ Deal'[t.b.cid] = Agreed(t.b, t.a, seen'[t.b.cid])
  BY <1>1, <1>2, DealIs DEF AgreedBy
<1> QED
  BY <1>2, <1>3, <1>4, <1>5

\* Taking accepts back, or closing, ends agreements and makes none.
Ended == \A r \in Players : Deal'[r] \in {Deal[r], None}

LEMMA ResetEnds ==
  ASSUME WindowsSound, Reset
  PROVE  Ended
<1>1. PICK id \in SessionIds, t \in Session : Redrawn(id, t) /\ ~ t.a.accepted /\ ~ t.b.accepted
  BY DEF Reset
<1>2. /\ \A r \in Players \ {t.a.cid, t.b.cid} : Deal'[r] = Deal[r]
      /\ Deal'[t.a.cid] = Agreed(t.a, t.b, seen'[t.a.cid])
      /\ Deal'[t.b.cid] = Agreed(t.b, t.a, seen'[t.b.cid])
  BY <1>1, RedrawnDeals
<1> QED
  BY <1>1, <1>2 DEF Ended, Agreed

LEMMA CloseDeals ==
  ASSUME WindowsSound, NEW p \in Players, InSession(p), Close(p)
  PROVE  /\ Deal'[p] = None /\ Deal'[Partner(p)] = None
         /\ \A r \in Players \ {p, Partner(p)} : Deal'[r] = Deal[r]
<1> DEFINE id == byCid[p]
           s == sessions[id]
           q == Partner(p)
<1>1. /\ id \in SessionIds /\ s \in Session /\ s # None /\ q \in Players \ {p}
      /\ {p, q} = {s.a.cid, s.b.cid}
  BY Sides
<1>2. /\ sessions' = [sessions EXCEPT ![id] = None]
      /\ byCid' = [byCid EXCEPT ![p] = None, ![q] = None]
      /\ seen' = [seen EXCEPT ![p] = None, ![q] = None]
  BY DEF Close
<1> HIDE DEF id, s, q
<1>3. /\ \A i \in SessionIds \ {id} : sessions'[i] = sessions[i]
      /\ byCid'[p] = None /\ byCid'[q] = None
      /\ \A r \in Players \ {p, q} : byCid'[r] = byCid[r] /\ seen'[r] = seen[r]
  BY <1>1, <1>2 DEF WindowsSound
<1>4. ASSUME NEW r \in Players \ {p, q}
      PROVE  Deal'[r] = Deal[r]
  <2>1. byCid[r] # None => byCid[r] \in SessionIds \ {id}
    BY <1>1, <1>4 DEF WindowsSound, s
  <2> QED
    BY <1>3, <2>1, DealIs DEF AgreedBy
<1>5. Deal'[p] = None /\ Deal'[q] = None
  BY <1>1, <1>3, DealIs DEF AgreedBy
<1> QED
  BY <1>4, <1>5 DEF q

LEMMA CloseEnds ==
  ASSUME WindowsSound, NEW p \in Players, InSession(p), Close(p)
  PROVE  Ended
BY CloseDeals DEF Ended

LEMMA RequestAgreesNothing ==
  ASSUME WindowsSound, NEW p \in Players, NEW q \in Players, Request(p, q)
  PROVE  \A r \in Players : Deal'[r] = Deal[r]
<1>1. PICK id \in SessionIds :
        /\ sessions[id] = None
        /\ sessions' = [sessions EXCEPT ![id] = [a |-> NewSide(p), b |-> NewSide(q)]]
        /\ byCid' = [byCid EXCEPT ![p] = id, ![q] = id] /\ seen' = seen
  BY RequestSound
<1>2. p # q /\ byCid[p] = None /\ byCid[q] = None
  BY DEF Request, InSession
<1> DEFINE t == [a |-> NewSide(p), b |-> NewSide(q)]
<1>3. /\ t.a.cid = p /\ t.b.cid = q /\ ~ t.a.accepted /\ ~ t.b.accepted
  BY DEF NewSide
<1>4. /\ sessions'[id] = t /\ \A i \in SessionIds \ {id} : sessions'[i] = sessions[i]
      /\ byCid'[p] = id /\ byCid'[q] = id
      /\ \A r \in Players \ {p, q} : byCid'[r] = byCid[r]
      /\ seen' = seen /\ id # None
  BY <1>1, <1>2, NoneIsNothing DEF WindowsSound
<1> HIDE DEF t
<1>5. ASSUME NEW r \in Players \ {p, q}
      PROVE  Deal'[r] = Deal[r]
  <2>1. byCid[r] # None => byCid[r] \in SessionIds \ {id}
    BY <1>1, <1>5 DEF WindowsSound
  <2> QED
    BY <1>4, <1>5, <2>1, DealIs DEF AgreedBy
<1>6. ASSUME NEW r \in {p, q}
      PROVE  Deal'[r] = None /\ Deal[r] = None
  <2>1. AgreedBy(r, sessions, byCid, seen) = None
    BY <1>2 DEF AgreedBy
  <2>2. AgreedBy(r, sessions', byCid', seen') = None
    BY <1>2, <1>3, <1>4 DEF AgreedBy, Agreed
  <2> QED
    BY <2>1, <2>2, DealIs
<1> QED
  BY <1>5, <1>6

-----------------------------------------------------------------------------
(* The commit: everything given is taken off, then everything got is placed *)

TakenOff(acc, o) == DestroyAt(acc, o.slot, 0)
TakenAll(v, order) == FoldLeft(TakenOff, v, order)

Granted(acc, g) ==
  LET r == AddItem(acc.inv, g.item, g.count)
  IN  [inv |-> r.inv, left |-> acc.left + r.left]
GrantedAll(acc, order) == FoldLeft(Granted, acc, order)

LEMMA CommitFolds ==
  ASSUME NEW p
  PROVE  /\ Given(p) = TakenAll(invs[p], GivesOf(p))
         /\ \A v, grants : AddAll(v, grants) = GrantedAll([inv |-> v, left |-> 0], grants)
BY DEF Given, TakenAll, TakenOff, AddAll, GrantedAll, Granted

LEMMA TakenKeeps ==
  ASSUME NEW n \in Nat, NEW S, NEW order \in [1 .. n -> S],
         NEW A, NEW base \in A, \A a \in A, s \in S : TakenOff(a, s) \in A,
         NEW J, Keeping(n, A, J), base \in J[0],
         \A i \in 1 .. n : \A a \in J[i - 1] : TakenOff(a, order[i]) \in J[i]
  PROVE  TakenAll(base, order) \in J[n]
<1> DEFINE G == [p \in (1 .. n) \X A |-> TakenOff(p[2], order[p[1]])]
           Sol(f) == f = [s \in SUBSET (1 .. n) |->
                            IF s = {} THEN base
                            ELSE TakenOff(f[s \ {Max(s)}], order[Max(s)])]
           it == CHOOSE f : Sol(f)
<1>1. TakenAll(base, order) = it[1 .. n]
  <2>1. DOMAIN order = 1 .. n
    OBVIOUS
  <2> QED
    BY <2>1 DEF TakenAll, FoldLeft, MapThenFoldSet
<1>2. \A i \in 1 .. n, a \in A : G[<<i, a>>] = TakenOff(a, order[i])
  OBVIOUS
<1> HIDE DEF G
<1>3. \A i \in 1 .. n, a \in A : G[<<i, a>>] \in A
  BY <1>2
<1>4. PICK g : Running(n, base, G, g) /\ \A s \in SUBSET (1 .. n) : g[s] \in A
  BY <1>3, RunExists
<1>5. Sol(g)
  <2>1. ASSUME NEW s \in SUBSET (1 .. n), s # {}
        PROVE  g[s] = TakenOff(g[s \ {Max(s)}], order[Max(s)])
    <3>1. Max(s) \in 1 .. n /\ g[s \ {Max(s)}] \in A
      BY <1>4, <2>1, MaxFacts
    <3> QED
      BY <1>2, <1>4, <2>1, <3>1 DEF Running
  <2>2. g = [s \in SUBSET (1 .. n) |-> g[s]] /\ g[{}] = base
    BY <1>4 DEF Running
  <2> QED
    BY <2>1, <2>2
<1>6. Sol(it)
  <2> HIDE DEF Sol
  <2> QED
    BY <1>5
<1> HIDE DEF it
<1> DEFINE h == [i \in 0 .. n |-> it[1 .. i]]
<1>7. h[0] \in J[0]
  <2>1. 1 .. 0 = {}
    OBVIOUS
  <2> QED
    BY <1>6, <2>1
<1>8. ASSUME NEW i \in 1 .. n, h[i - 1] \in J[i - 1]
      PROVE  h[i] \in J[i]
  <2>1. Max(1 .. i) = i /\ (1 .. i) \ {i} = 1 .. i - 1 /\ 1 .. i \in SUBSET (1 .. n)
    BY MaxFacts
  <2>0. i \in 1 .. i
    OBVIOUS
  <2>2. it[1 .. i] = TakenOff(it[1 .. i - 1], order[i])
    BY <1>6, <2>0, <2>1
  <2>3. h[i] = TakenOff(h[i - 1], order[i])
    BY <2>2
  <2> HIDE DEF h
  <2> QED
    BY <1>8, <2>3
<1>9. h[n] = it[1 .. n]
  OBVIOUS
<1> HIDE DEF h, Sol
<1> QED
  BY <1>1, <1>7, <1>8, <1>9, RunKeeps

LEMMA GrantedKeeps ==
  ASSUME NEW n \in Nat, NEW S, NEW order \in [1 .. n -> S],
         NEW A, NEW base \in A, \A a \in A, s \in S : Granted(a, s) \in A,
         NEW J, Keeping(n, A, J), base \in J[0],
         \A i \in 1 .. n : \A a \in J[i - 1] : Granted(a, order[i]) \in J[i]
  PROVE  GrantedAll(base, order) \in J[n]
<1> DEFINE G == [p \in (1 .. n) \X A |-> Granted(p[2], order[p[1]])]
           Sol(f) == f = [s \in SUBSET (1 .. n) |->
                            IF s = {} THEN base
                            ELSE Granted(f[s \ {Max(s)}], order[Max(s)])]
           it == CHOOSE f : Sol(f)
<1>1. GrantedAll(base, order) = it[1 .. n]
  <2>1. DOMAIN order = 1 .. n
    OBVIOUS
  <2> QED
    BY <2>1 DEF GrantedAll, FoldLeft, MapThenFoldSet
<1>2. \A i \in 1 .. n, a \in A : G[<<i, a>>] = Granted(a, order[i])
  OBVIOUS
<1> HIDE DEF G
<1>3. \A i \in 1 .. n, a \in A : G[<<i, a>>] \in A
  BY <1>2
<1>4. PICK g : Running(n, base, G, g) /\ \A s \in SUBSET (1 .. n) : g[s] \in A
  BY <1>3, RunExists
<1>5. Sol(g)
  <2>1. ASSUME NEW s \in SUBSET (1 .. n), s # {}
        PROVE  g[s] = Granted(g[s \ {Max(s)}], order[Max(s)])
    <3>1. Max(s) \in 1 .. n /\ g[s \ {Max(s)}] \in A
      BY <1>4, <2>1, MaxFacts
    <3> QED
      BY <1>2, <1>4, <2>1, <3>1 DEF Running
  <2>2. g = [s \in SUBSET (1 .. n) |-> g[s]] /\ g[{}] = base
    BY <1>4 DEF Running
  <2> QED
    BY <2>1, <2>2
<1>6. Sol(it)
  <2> HIDE DEF Sol
  <2> QED
    BY <1>5
<1> HIDE DEF it
<1> DEFINE h == [i \in 0 .. n |-> it[1 .. i]]
<1>7. h[0] \in J[0]
  <2>1. 1 .. 0 = {}
    OBVIOUS
  <2> QED
    BY <1>6, <2>1
<1>8. ASSUME NEW i \in 1 .. n, h[i - 1] \in J[i - 1]
      PROVE  h[i] \in J[i]
  <2>1. Max(1 .. i) = i /\ (1 .. i) \ {i} = 1 .. i - 1 /\ 1 .. i \in SUBSET (1 .. n)
    BY MaxFacts
  <2>0. i \in 1 .. i
    OBVIOUS
  <2>2. it[1 .. i] = Granted(it[1 .. i - 1], order[i])
    BY <1>6, <2>0, <2>1
  <2>3. h[i] = Granted(h[i - 1], order[i])
    BY <2>2
  <2> HIDE DEF h
  <2> QED
    BY <1>8, <2>3
<1>9. h[n] = it[1 .. n]
  OBVIOUS
<1> HIDE DEF h, Sol
<1> QED
  BY <1>1, <1>7, <1>8, <1>9, RunKeeps

LEMMA ListsOnce ==
  ASSUME NEW S, IsFiniteSet(S), NEW order, Lists(order, S)
  PROVE  /\ Cardinality(S) \in Nat /\ DOMAIN order = 1 .. Cardinality(S)
         /\ \A i, j \in 1 .. Cardinality(S) : order[i] = order[j] => i = j
<1> DEFINE n == Cardinality(S)
<1>1. n \in Nat /\ order \in [1 .. n -> S] /\ \A x \in S : \E i \in 1 .. n : order[i] = x
  BY FS_CardinalityType DEF Lists
<1>2. IsFiniteSet(1 .. n) /\ Cardinality(1 .. n) = n
  BY <1>1, FS_Interval
<1>3. order \in Surjection(1 .. n, S)
  BY <1>1 DEF Surjection
<1>4. order \in Injection(1 .. n, S)
  BY <1>2, <1>3, FS_Surjection
<1> QED
  BY <1>1, <1>4 DEF Injection, IsInjective

\* The sum of f over the first k of a list.
PartSum(f, order, k) == SumFunctionOnSet(f, {order[j] : j \in 1 .. k})

LEMMA PartSums ==
  ASSUME NEW S, IsFiniteSet(S), NEW order, Lists(order, S), NEW f, \A x \in S : f[x] \in Int
  PROVE  /\ PartSum(f, order, 0) = 0
         /\ PartSum(f, order, Cardinality(S)) = SumFunctionOnSet(f, S)
         /\ \A k \in 1 .. Cardinality(S) :
              PartSum(f, order, k) = f[order[k]] + PartSum(f, order, k - 1)
         /\ \A k \in 0 .. Cardinality(S) : PartSum(f, order, k) \in Int
<1> DEFINE n == Cardinality(S)
           U(k) == {order[j] : j \in 1 .. k}
<1>1. /\ n \in Nat /\ order \in [1 .. n -> S]
      /\ \A x \in S : \E i \in 1 .. n : order[i] = x
      /\ \A i, j \in 1 .. n : order[i] = order[j] => i = j
  BY ListsOnce DEF Lists
<1> HIDE DEF n
<1>2. U(0) = {} /\ U(n) = S
  BY <1>1
<1>3. ASSUME NEW k \in 0 .. n
      PROVE  U(k) \in SUBSET S /\ IsFiniteSet(U(k))
  <2>1. U(k) \in SUBSET S
    BY <1>1
  <2> HIDE DEF U
  <2> QED
    BY <2>1, FS_Subset
<1>4. ASSUME NEW k \in 1 .. n
      PROVE  order[k] \in U(k) /\ U(k) \ {order[k]} = U(k - 1)
  BY <1>1
<1>5. ASSUME NEW k \in 1 .. n
      PROVE  SumFunctionOnSet(f, U(k)) = f[order[k]] + SumFunctionOnSet(f, U(k - 1))
  <2>1. k \in 0 .. n
    BY <1>1
  <2>2. U(k) \in SUBSET S /\ IsFiniteSet(U(k)) /\ order[k] \in U(k) /\ U(k) \ {order[k]} = U(k - 1)
    BY <1>3, <1>4, <2>1
  <2> HIDE DEF U
  <2> QED
    BY <2>2, SumRemove
<1>6. ASSUME NEW k \in 0 .. n
      PROVE  SumFunctionOnSet(f, U(k)) \in Int
  <2>1. U(k) \in SUBSET S /\ IsFiniteSet(U(k))
    BY <1>3
  <2> HIDE DEF U
  <2> QED
    BY <2>1, SumIs
<1>7. SumFunctionOnSet(f, U(0)) = 0
  BY <1>2, SumEmpty
<1> QED
  BY <1>2, <1>5, <1>6, <1>7 DEF PartSum, n

\* A stack taken off whole leaves its slot empty, and nothing else.
LEMMA TakenOffIs ==
  ASSUME NEW v, Sound(v), NEW o \in Offers, o.slot \in Offerable, o.stack # Empty,
         v.cells[o.slot] = o.stack,
         Kind(o.slot) = "base" => ~ BagNonempty(v, o.slot[2])
  PROVE  /\ Sound(TakenOff(v, o))
         /\ TakenOff(v, o).cells = [v.cells EXCEPT ![o.slot] = Empty]
<1> DEFINE slot == o.slot
           a == v.cells[slot]
<1>1. slot \in Slots /\ slot # Cursor /\ slot \notin EquipRefs
  BY DEF Offerable, Reachable
<1>2. a \in Stacks /\ a.count \in Nat /\ a.count # 0 /\ Empty \in Fitting
  BY <1>1, StackFacts DEF Sound, Inventories, Fitting
<1>3. Taken(a, 0) = a.count
  BY DEF Taken
<1>4. Remove1(v, slot, a.count) = Set(v, slot, Empty)
  <2>1. a.count - a.count = 0
    BY <1>2
  <2> QED
    BY <2>1 DEF Remove1, Peek, Stack
<1>5. TakenOff(v, o) = EnsureBagsInit(Set(v, slot, Empty), {slot})
  BY <1>3, <1>4 DEF TakenOff, DestroyAt, Peek
<1>6. Takes(v, slot, Empty)
  <2>1. ~ IsBag(Empty)
    BY NoItemIsNone, ItemKinds DEF IsBag, Empty
  <2>2. IsHost(slot) => ~ BagNonempty(v, KeyOf(slot))
    <3> SUFFICES ASSUME IsHost(slot)
                 PROVE  ~ BagNonempty(v, KeyOf(slot))
      OBVIOUS
    <3>1. Kind(slot) = "base" /\ KeyOf(slot) = slot[2]
      BY <1>1, SlotKinds DEF IsHost, KeyOf
    <3> QED
      BY <3>1
  <2> QED
    BY <1>1, <2>1, <2>2 DEF Takes
<1> QED
  BY <1>1, <1>2, <1>5, <1>6, PutSound

LEMMA TakenOffType ==
  ASSUME NEW v \in Inventories, NEW o \in Offers
  PROVE  TakenOff(v, o) \in Inventories
<1> DEFINE slot == o.slot
           a == v.cells[slot]
           w == Set(v, slot, Empty)
<1>1. slot \in Slots /\ a \in Stacks /\ a.count \in Nat /\ Empty \in Fitting
  BY StackFacts DEF Inventories, Fitting, Offers
<1>2. Taken(a, 0) = a.count /\ a.count - a.count = 0
  BY <1>1 DEF Taken
<1>3. TakenOff(v, o) = EnsureBagsInit(w, {slot})
  BY <1>2 DEF TakenOff, DestroyAt, Peek, Remove1, Stack
<1>4. w \in Inventories
  BY <1>1, SetFacts
<1>5. Touched({slot}) \subseteq Keys
  BY <1>1, TouchedHosts, SlotKinds, SlotFacts DEF Touched
<1> HIDE DEF w
<1> DEFINE T == Touched({slot})
           H == Holding(w, T)
           cells == [s \in Slots |-> IF Kind(s) = "bag" /\ s[2] \in T \ H THEN Empty ELSE w.cells[s]]
           bags == (w.bags \ (T \ H)) \cup H
<1>6. EnsureBagsInit(w, {slot}) = [cells |-> cells, bags |-> bags]
  BY DEF EnsureBagsInit
<1>7. H \subseteq T
  BY DEF Holding
<1> HIDE DEF T, H
<1>8. cells \in [Slots -> Fitting]
  BY <1>1, <1>4 DEF Inventories
<1>9. bags \in SUBSET Keys
  BY <1>4, <1>5, <1>7 DEF Inventories, T
<1> HIDE DEF cells, bags
<1> QED
  BY <1>3, <1>6, <1>8, <1>9 DEF Inventories

\* How much of an item a side offers.
Offered(side, item) == CountIn(Payload(side).stacks, item)

FullSlots(side) == {w \in Window : side.offers[w] # None}

\* Every offer of a side, in the order of the window.
OffersIn(side, order) == [i \in DOMAIN order |-> side.offers[order[i]]]

OfferWeights(side, item) == Weights(Payload(side).stacks, item)

LEMMA OfferedIs ==
  ASSUME NEW side \in Side, NEW item \in Items
  PROVE  /\ IsFiniteSet(FullSlots(side)) /\ FullSlots(side) \in SUBSET Window
         /\ \A w \in FullSlots(side) :
              /\ side.offers[w] \in Offers
              /\ OfferWeights(side, item)[w] = Of(side.offers[w].stack, item)
              /\ OfferWeights(side, item)[w] \in Int
         /\ SumFunctionOnSet(OfferWeights(side, item), FullSlots(side)) = Offered(side, item)
         /\ Offered(side, item) \in Nat
<1> DEFINE cells == Payload(side).stacks
           f == OfferWeights(side, item)
           U == FullSlots(side)
<1>1. IsFiniteSet(U) /\ U \in SUBSET Window
  BY WindowSlots, FS_Subset DEF FullSlots
<1>2. cells \in [Window -> Stacks]
  BY PayloadType DEF Payloads
<1>3. \A w \in Window : cells[w] = IF side.offers[w] = None THEN Empty ELSE side.offers[w].stack
  BY DEF Payload
<1> HIDE DEF cells
<1>4. /\ CountIn(cells, item) = SumFunctionOnSet(Weights(cells, item), Window)
      /\ CountIn(cells, item) \in Nat
      /\ \A w \in Window : Weights(cells, item)[w] = Of(cells[w], item)
      /\ \A w \in Window : Weights(cells, item)[w] \in Nat
  BY <1>2, WindowSlots, CountIs
<1>5. \A w \in Window \ U : Weights(cells, item)[w] = 0
  BY <1>3, <1>4, StackFacts DEF FullSlots
<1>6. SumFunctionOnSet(Weights(cells, item), U) = SumFunctionOnSet(Weights(cells, item), Window)
  <2> DEFINE g == Weights(cells, item)
  <2>1. \A w \in Window : g[w] \in Int /\ (w \notin U => g[w] = 0)
    BY <1>4, <1>5
  <2> HIDE DEF g, U
  <2>2. U \in SUBSET Window /\ IsFiniteSet(Window)
    BY <1>1, WindowSlots
  <2>3. SumFunctionOnSet(g, U) = SumFunctionOnSet(g, Window)
    BY <2>1, <2>2, SumPart
  <2> QED
    BY <2>3 DEF g
<1>7. \A w \in U : /\ side.offers[w] \in Offers /\ cells[w] = side.offers[w].stack
                   /\ w \in Window
  BY <1>3 DEF FullSlots, Side
<1>8. f = Weights(cells, item)
  BY DEF OfferWeights, cells
<1> HIDE DEF f, U
<1> QED
  BY <1>1, <1>4, <1>6, <1>7, <1>8 DEF Offered, cells, f, U

\* What the first k of a side's offers come to.
LEMMA OfferSums ==
  ASSUME NEW side \in Side, NEW order, Lists(order, FullSlots(side)), NEW item \in Items
  PROVE  LET n == Cardinality(FullSlots(side))
             part(k) == PartSum(OfferWeights(side, item), order, k)
         IN  /\ part(0) = 0 /\ part(n) = Offered(side, item)
             /\ \A k \in 1 .. n :
                  part(k) = Of(side.offers[order[k]].stack, item) + part(k - 1)
             /\ \A k \in 0 .. n : part(k) \in Int
<1> DEFINE U == FullSlots(side)
           n == Cardinality(U)
           g == OfferWeights(side, item)
<1>1. /\ IsFiniteSet(U) /\ Lists(order, U) /\ SumFunctionOnSet(g, U) = Offered(side, item)
      /\ \A w \in U : g[w] = Of(side.offers[w].stack, item) /\ g[w] \in Int
  BY OfferedIs
<1>2. n = Cardinality(U)
  OBVIOUS
<1> HIDE DEF U, n, g
<1>3. order \in [1 .. n -> U]
  BY <1>1, <1>2 DEF Lists
<1>4. /\ PartSum(g, order, 0) = 0
      /\ PartSum(g, order, n) = SumFunctionOnSet(g, U)
      /\ \A k \in 1 .. n : PartSum(g, order, k) = g[order[k]] + PartSum(g, order, k - 1)
      /\ \A k \in 0 .. n : PartSum(g, order, k) \in Int
  BY <1>1, <1>2, PartSums
<1>5. \A k \in 1 .. n : g[order[k]] = Of(side.offers[order[k]].stack, item)
  BY <1>1, <1>3
<1>6. /\ PartSum(g, order, n) = Offered(side, item)
      /\ \A k \in 1 .. n : PartSum(g, order, k) =
           Of(side.offers[order[k]].stack, item) + PartSum(g, order, k - 1)
  BY <1>1, <1>4, <1>5
<1> QED
  BY <1>4, <1>6 DEF U, n, g

\* Taking a side's offers off its owner takes what it offers, if the slots
\* still hold what was offered.
Takeable(v, side) ==
  \A w \in FullSlots(side) :
    /\ v.cells[side.offers[w].slot] = side.offers[w].stack
    /\ Kind(side.offers[w].slot) = "base" => ~ BagNonempty(v, side.offers[w].slot[2])

LEMMA TakenAllSound ==
  ASSUME NEW v, Sound(v), NEW side \in Side, OffersSound(side), Takeable(v, side),
         NEW order, Lists(order, FullSlots(side))
  PROVE  LET r == TakenAll(v, OffersIn(side, order))
         IN  /\ Sound(r)
             /\ \A item \in Items : Total(r, item) = Total(v, item) - Offered(side, item)
<1> DEFINE U == FullSlots(side)
           n == Cardinality(U)
           seq == OffersIn(side, order)
           f(item) == OfferWeights(side, item)
           J == [k \in 0 .. n |->
             {u \in Inventories :
                /\ Sound(u)
                /\ \A j \in k + 1 .. n :
                     /\ u.cells[seq[j].slot] = seq[j].stack
                     /\ Kind(seq[j].slot) = "base" => ~ BagNonempty(u, seq[j].slot[2])
                /\ \A item \in Items :
                     Total(u, item) = Total(v, item) - PartSum(f(item), order, k)}]
<1>1. IsFiniteSet(U) /\ U \in SUBSET Window /\ v \in Inventories
  BY WindowSlots, FS_Subset DEF FullSlots, Sound
<1>2. /\ n \in Nat /\ DOMAIN order = 1 .. n /\ order \in [1 .. n -> U]
      /\ \A i, j \in 1 .. n : order[i] = order[j] => i = j
  BY <1>1, ListsOnce DEF Lists
<1>3. \A w \in U : /\ side.offers[w] \in Offers /\ side.offers[w].slot \in Offerable
                   /\ side.offers[w].stack # Empty /\ w \in Window /\ side.offers[w] # None
  BY DEF FullSlots, Side, OffersSound
<1>4. /\ seq \in [1 .. n -> Offers] /\ DOMAIN seq = 1 .. n
      /\ \A j \in 1 .. n : seq[j] = side.offers[order[j]]
  BY <1>2, <1>3 DEF OffersIn
<1>5. \A i, j \in 1 .. n : i # j => seq[i].slot # seq[j].slot
  BY <1>2, <1>3, <1>4 DEF OffersSound
<1>6. \A item \in Items :
        /\ PartSum(f(item), order, 0) = 0
        /\ PartSum(f(item), order, n) = Offered(side, item)
        /\ \A k \in 1 .. n : PartSum(f(item), order, k) =
             Of(seq[k].stack, item) + PartSum(f(item), order, k - 1)
        /\ \A k \in 0 .. n : PartSum(f(item), order, k) \in Int
  BY <1>4, OfferSums
<1> HIDE DEF n, U, seq, f
<1>7. v \in J[0]
  <2>1. \A item \in Items : Total(v, item) = Total(v, item) - PartSum(f(item), order, 0)
    BY <1>1, <1>6, TotalNat
  <2>2. \A j \in 1 .. n :
          /\ v.cells[seq[j].slot] = seq[j].stack
          /\ Kind(seq[j].slot) = "base" => ~ BagNonempty(v, seq[j].slot[2])
    BY <1>2, <1>4 DEF Takeable, U
  <2>3. 0 \in 0 .. n /\ 0 + 1 .. n = 1 .. n
    BY <1>2
  <2> QED
    BY <1>1, <2>1, <2>2, <2>3
<1>8. ASSUME NEW k \in 1 .. n, NEW u \in J[k - 1]
      PROVE  TakenOff(u, seq[k]) \in J[k]
  <2> DEFINE o == seq[k]
             q == TakenOff(u, o)
  <2>1. k \in 0 .. n /\ k - 1 \in 0 .. n /\ (k - 1) + 1 = k /\ k \in k .. n
    BY <1>2
  <2>2. /\ u \in Inventories /\ Sound(u)
        /\ \A j \in k .. n :
             /\ u.cells[seq[j].slot] = seq[j].stack
             /\ Kind(seq[j].slot) = "base" => ~ BagNonempty(u, seq[j].slot[2])
        /\ \A item \in Items : Total(u, item) = Total(v, item) - PartSum(f(item), order, k - 1)
    BY <1>8, <2>1
  <2>3. o \in Offers /\ o.slot \in Offerable /\ o.stack # Empty /\ o.slot \in Slots
    <3>1. order[k] \in U /\ o = side.offers[order[k]]
      BY <1>2, <1>4
    <3> HIDE DEF o
    <3> QED
      BY <1>3, <3>1 DEF Offerable, Reachable
  <2>4. /\ Sound(q) /\ q.cells = [u.cells EXCEPT ![o.slot] = Empty] /\ q \in Inventories
    <3>1. Sound(q) /\ q.cells = [u.cells EXCEPT ![o.slot] = Empty]
      BY <2>1, <2>2, <2>3, TakenOffIs
    <3> HIDE DEF q
    <3> QED
      BY <3>1 DEF Sound
  <2> HIDE DEF q
  <2>5. \A item \in Items : Total(q, item) = Total(u, item) - Of(o.stack, item)
    <3> TAKE item \in Items
    <3>1. Total(q, item) = Total(u, item) - Of(u.cells[o.slot], item) + Of(Empty, item)
      BY <2>2, <2>3, <2>4, StackFacts, TotalPut
    <3>2. Of(Empty, item) = 0 /\ u.cells[o.slot] = o.stack /\ Of(o.stack, item) \in Nat
      BY <2>1, <2>2, <2>3, StackFacts DEF Offers
    <3> QED
      BY <2>2, <3>1, <3>2, TotalNat
  <2>6. \A item \in Items : Total(q, item) = Total(v, item) - PartSum(f(item), order, k)
    <3> TAKE item \in Items
    <3>1. Of(o.stack, item) \in Nat /\ Total(u, item) \in Nat /\ Total(v, item) \in Nat
      BY <1>1, <2>2, <2>3, StackFacts, TotalNat DEF Offers
    <3> HIDE DEF o
    <3> QED
      BY <1>6, <2>1, <2>2, <2>5, <3>1 DEF o
  <2>7. ASSUME NEW j \in k + 1 .. n
        PROVE  /\ q.cells[seq[j].slot] = seq[j].stack
               /\ Kind(seq[j].slot) = "base" => ~ BagNonempty(q, seq[j].slot[2])
    <3>1. j \in 1 .. n /\ j \in k .. n /\ j # k
      BY <1>2
    <3>2. seq[j].slot # o.slot /\ seq[j].slot \in Slots
      BY <1>2, <1>3, <1>4, <1>5, <3>1 DEF Offerable, Reachable
    <3>3. \A s \in Slots : q.cells[s] \in {u.cells[s], Empty}
      BY <2>2, <2>3, <2>4 DEF Inventories
    <3>4. q.cells[seq[j].slot] = seq[j].stack
      BY <2>2, <2>4, <3>1, <3>2 DEF Inventories
    <3>5. ASSUME Kind(seq[j].slot) = "base"
          PROVE  ~ BagNonempty(q, seq[j].slot[2])
      <4>1. seq[j].slot[2] \in Keys
        BY <3>2, <3>5, SlotFacts, SlotKinds
      <4>2. ~ BagNonempty(u, seq[j].slot[2])
        BY <2>2, <3>1, <3>5
      <4> QED
        BY <3>3, <4>1, <4>2, SlotKinds DEF BagNonempty
    <3> QED
      BY <3>4, <3>5
  <2> QED
    BY <2>1, <2>4, <2>6, <2>7 DEF q
<1>9. TakenAll(v, seq) \in J[n]
  <2>1. Keeping(n, Inventories, J)
    BY DEF Keeping
  <2>2. \A a \in Inventories, o \in Offers : TakenOff(a, o) \in Inventories
    BY TakenOffType
  <2> HIDE DEF J
  <2> QED
    BY <1>1, <1>2, <1>4, <1>7, <1>8, <2>1, <2>2, TakenKeeps
<1>10. /\ Sound(TakenAll(v, seq))
       /\ \A item \in Items :
            Total(TakenAll(v, seq), item) = Total(v, item) - PartSum(f(item), order, n)
  BY <1>2, <1>9
<1> QED
  BY <1>6, <1>10 DEF seq

\* Placing a side's offers adds what it offers, if everything fits.
LEMMA GrantedAllSound ==
  ASSUME NEW v, Sound(v), NEW side \in Side, OffersSound(side),
         NEW order, Lists(order, FullSlots(side))
  PROVE  LET gets == OffersIn(side, order)
             r == GrantedAll([inv |-> v, left |-> 0], [i \in DOMAIN gets |-> gets[i].stack])
         IN  /\ Sound(r.inv) /\ r.left \in Nat
             /\ r.left = 0 => \A item \in Items :
                  Total(r.inv, item) = Total(v, item) + Offered(side, item)
<1> DEFINE U == FullSlots(side)
           n == Cardinality(U)
           gets == OffersIn(side, order)
           seq == [i \in DOMAIN gets |-> gets[i].stack]
           f(item) == OfferWeights(side, item)
           G == {g \in Stacks : g # Empty}
           A == {acc \in [inv : Inventories, left : Nat] : Sound(acc.inv)}
           base == [inv |-> v, left |-> 0]
           J == [k \in 0 .. n |->
             {acc \in A : acc.left = 0 => \A item \in Items :
                Total(acc.inv, item) = Total(v, item) + PartSum(f(item), order, k)}]
<1>1. IsFiniteSet(U) /\ U \in SUBSET Window /\ v \in Inventories
  BY WindowSlots, FS_Subset DEF FullSlots, Sound
<1>2. n \in Nat /\ DOMAIN order = 1 .. n /\ order \in [1 .. n -> U]
  BY <1>1, ListsOnce DEF Lists
<1>3. \A w \in U : side.offers[w].stack \in G
  BY DEF FullSlots, Side, Offers, OffersSound
<1>4. /\ seq \in [1 .. n -> G]
      /\ \A j \in 1 .. n : seq[j] = side.offers[order[j]].stack
  BY <1>2, <1>3 DEF OffersIn
<1>5. \A item \in Items :
        /\ PartSum(f(item), order, 0) = 0
        /\ PartSum(f(item), order, n) = Offered(side, item)
        /\ \A k \in 1 .. n : PartSum(f(item), order, k) =
             Of(seq[k], item) + PartSum(f(item), order, k - 1)
        /\ \A k \in 0 .. n : PartSum(f(item), order, k) \in Int
  BY <1>4, OfferSums
<1>6. ASSUME NEW a \in A, NEW g \in G
      PROVE  /\ Granted(a, g) \in A
             /\ Granted(a, g).left = 0 =>
                  /\ a.left = 0
                  /\ \A item \in Items :
                       Total(Granted(a, g).inv, item) = Total(a.inv, item) + Of(g, item)
  <2> DEFINE r == AddItem(a.inv, g.item, g.count)
  <2>1. g.item \in Items /\ g.count \in Nat /\ Sound(a.inv) /\ a.left \in Nat
    BY DEF Stacks
  <2>2. /\ Sound(r.inv) /\ r.left \in 0 .. g.count
        /\ Total(r.inv, g.item) = Total(a.inv, g.item) + g.count - r.left
        /\ \A x \in Items \ {g.item} : Total(r.inv, x) = Total(a.inv, x)
    BY <2>1, AddSound
  <2>3. Granted(a, g) = [inv |-> r.inv, left |-> a.left + r.left]
    BY DEF Granted
  <2> HIDE DEF r
  <2>4. r.inv \in Inventories /\ r.left \in Nat
    BY <2>1, <2>2 DEF Sound
  <2>5. \A item \in Items : Total(a.inv, item) \in Nat
    BY <2>1, TotalNat DEF Sound
  <2> QED
    BY <2>1, <2>2, <2>3, <2>4, <2>5 DEF Of
<1> HIDE DEF n, U, seq, f
<1>7. base \in J[0]
  <2>1. \A item \in Items : Total(v, item) = Total(v, item) + PartSum(f(item), order, 0)
    BY <1>1, <1>5, TotalNat
  <2> QED
    BY <1>1, <1>2, <2>1
<1>8. ASSUME NEW k \in 1 .. n, NEW a \in J[k - 1]
      PROVE  Granted(a, seq[k]) \in J[k]
  <2> DEFINE q == Granted(a, seq[k])
  <2>1. k \in 0 .. n /\ k - 1 \in 0 .. n
    BY <1>2
  <2>2. /\ a \in A /\ Sound(a.inv) /\ seq[k] \in G
        /\ a.left = 0 => \A item \in Items :
             Total(a.inv, item) = Total(v, item) + PartSum(f(item), order, k - 1)
    BY <1>2, <1>4, <2>1
  <2>3. /\ q \in A
        /\ q.left = 0 => /\ a.left = 0
                         /\ \A item \in Items :
                              Total(q.inv, item) = Total(a.inv, item) + Of(seq[k], item)
    BY <1>6, <2>2
  <2> HIDE DEF q
  <2>4. q.left = 0 => \A item \in Items :
          Total(q.inv, item) = Total(v, item) + PartSum(f(item), order, k)
    <3> SUFFICES ASSUME q.left = 0, NEW item \in Items
                 PROVE  Total(q.inv, item) = Total(v, item) + PartSum(f(item), order, k)
      OBVIOUS
    <3>1. Of(seq[k], item) \in Nat /\ Total(v, item) \in Nat
      BY <1>1, <2>2, StackFacts, TotalNat
    <3> QED
      BY <1>5, <2>1, <2>2, <2>3, <3>1
  <2> QED
    BY <2>1, <2>3, <2>4 DEF q
<1>9. GrantedAll(base, seq) \in J[n]
  <2>1. Keeping(n, A, J)
    BY DEF Keeping
  <2>2. \A a \in A, g \in G : Granted(a, g) \in A
    BY <1>6
  <2>3. base \in A
    BY <1>1
  <2> HIDE DEF J, A, G, base
  <2> QED
    BY <1>2, <1>4, <1>7, <1>8, <2>1, <2>2, <2>3, GrantedKeeps
<1> HIDE DEF base
<1>10. /\ Sound(GrantedAll(base, seq).inv) /\ GrantedAll(base, seq).left \in Nat
       /\ GrantedAll(base, seq).left = 0 => \A item \in Items :
            Total(GrantedAll(base, seq).inv, item) = Total(v, item) + PartSum(f(item), order, n)
  BY <1>2, <1>9
<1> QED
  BY <1>5, <1>10 DEF seq, base

LEMMA WindowOrder ==
  ASSUME NEW side
  PROVE  Lists(InOrder(FullSlots(side), <), FullSlots(side))
<1>1. FullSlots(side) \in SUBSET Nat /\ IsFiniteSet(FullSlots(side))
  BY WindowSlots, FS_Subset DEF FullSlots
<1> QED
  BY <1>1, VaultLists

LEMMA GivesOfIs ==
  ASSUME NEW p
  PROVE  GivesOf(p) = OffersIn(SideOf(p), InOrder(FullSlots(SideOf(p)), <))
BY DEF GivesOf, OffersIn, FullSlots

\* What a party holds after a commit: without what the partner was shown, and
\* with what the partner showed.
LEMMA ReceivedSound ==
  ASSUME Carrying, WindowsSound, NEW p \in Players, InSession(p),
         ChangedOffers(p) = {}, Fits(p)
  PROVE  /\ Sound(Received(p).inv)
         /\ \A item \in Items :
              /\ Total(Received(p).inv, item) = Total(invs[p], item)
                   - Offered(SideOf(p), item) + Offered(SideOf(Partner(p)), item)
              /\ Offered(SideOf(p), item) <= Total(invs[p], item)
<1> DEFINE q == Partner(p)
           mine == SideOf(p)
           theirs == SideOf(q)
           v == invs[p]
           u == Given(p)
           r == Received(p)
<1>1. /\ mine \in Side /\ OffersSound(mine) /\ q \in Players
      /\ theirs \in Side /\ OffersSound(theirs)
  BY Sides, SidesOffer
<1>2. Sound(v)
  BY DEF Carrying
<1>3. Takeable(v, mine)
  BY DEF Takeable, ChangedOffers, Changed, FullSlots, Peek
<1> DEFINE order == InOrder(FullSlots(mine), <)
           other == InOrder(FullSlots(theirs), <)
           gets == OffersIn(theirs, other)
<1>4. u = TakenAll(v, OffersIn(mine, order)) /\ Lists(order, FullSlots(mine))
  BY CommitFolds, GivesOfIs, WindowOrder
<1>5. /\ r = GrantedAll([inv |-> u, left |-> 0], [i \in DOMAIN gets |-> gets[i].stack])
      /\ r.left = 0 /\ Lists(other, FullSlots(theirs))
  BY CommitFolds, GivesOfIs, WindowOrder DEF Received, Fits
<1> HIDE DEF u, r, v, mine, theirs, order, other
<1>6. Sound(u) /\ \A item \in Items : Total(u, item) = Total(v, item) - Offered(mine, item)
  BY <1>1, <1>2, <1>3, <1>4, TakenAllSound
<1>7. Sound(r.inv) /\ \A item \in Items : Total(r.inv, item) = Total(u, item) + Offered(theirs, item)
  BY <1>1, <1>5, <1>6, GrantedAllSound
<1>8. \A item \in Items : /\ Total(u, item) \in Nat /\ Total(v, item) \in Nat
                            /\ Offered(mine, item) \in Nat /\ Offered(theirs, item) \in Nat
  BY <1>1, <1>2, <1>6, TotalNat, OfferedIs DEF Sound
<1>9. \A item \in Items :
         /\ Total(r.inv, item) = Total(v, item) - Offered(mine, item) + Offered(theirs, item)
         /\ Offered(mine, item) <= Total(v, item)
  BY <1>6, <1>7, <1>8
<1> QED
  BY <1>7, <1>9 DEF r, v, mine, theirs

-----------------------------------------------------------------------------
(* What holds throughout *)

PlayersTyped ==
  /\ coins \in [Players -> Nat]
  /\ life \in [Players -> {"alive", "dying", "dead", "gone"}]
  /\ near \subseteq Players

\* The inductive invariant: what a player carries is sound, and the windows
\* agree with their index and with what was shown.
TradeSound == Carrying /\ WindowsSound /\ PlayersTyped

\* The escrow of one player, over one step.
Escrowed(p) ==
  InSession(p) /\ byCid'[p] = byCid[p] /\ life'[p] # "dead" =>
    \A o \in OfferedSlots(p) : Peek(invs[p], o) # Empty =>
      /\ Peek(invs'[p], o).item = Peek(invs[p], o).item
      /\ Peek(invs'[p], o).count >= Peek(invs[p], o).count

\* What every step is shown to do.
Advances ==
  TradeSound' /\ [Contract!Next]_<<Hold, Deal>> /\ \A p \in Players : Escrowed(p)

LEMMA OfferedAre ==
  ASSUME WindowsSound, NEW p \in Players, InSession(p)
  PROVE  OfferedSlots(p) \subseteq Offerable
BY SidesOffer DEF OfferedSlots, OffersSound

\* A player whose cells are as they were.
LEMMA EscrowedSame ==
  ASSUME TradeSound, NEW p \in Players, invs'[p].cells = invs[p].cells
  PROVE  Escrowed(p)
<1>1. \A o \in Slots : Peek(invs[p], o).count \in Nat /\ Peek(invs'[p], o) = Peek(invs[p], o)
  BY StackFacts DEF TradeSound, Carrying, Inventories, Peek
<1>2. InSession(p) => OfferedSlots(p) \subseteq Slots
  BY OfferedAre DEF TradeSound, Offerable, Reachable
<1> QED
  BY <1>1, <1>2 DEF Escrowed

LEMMA HoldIs ==
  ASSUME NEW p \in Players
  PROVE  /\ Hold = [r \in Players |-> Hold[r]] /\ Hold' = [r \in Players |-> Hold'[r]]
         /\ Hold[p] = [g \in Goods |-> IF g = "coin" THEN coins[p] ELSE Total(invs[p], g)]
         /\ Hold'[p] = [g \in Goods |-> IF g = "coin" THEN coins'[p] ELSE Total(invs'[p], g)]
BY DEF Hold

LEMMA HoldOf ==
  ASSUME NEW p \in Players, NEW item \in Items
  PROVE  Hold[p][item] = Total(invs[p], item) /\ Hold'[p][item] = Total(invs'[p], item)
<1>1. item \in Goods /\ item # "coin"
  BY CoinIsNoItem DEF Goods
<1> QED
  BY <1>1, HoldIs

LEMMA HoldSame ==
  ASSUME NEW p \in Players, coins'[p] = coins[p],
         \A item \in Items : Total(invs'[p], item) = Total(invs[p], item)
  PROVE  Hold'[p] = Hold[p]
<1>1. \A g \in Goods : (IF g = "coin" THEN coins'[p] ELSE Total(invs'[p], g))
        = (IF g = "coin" THEN coins[p] ELSE Total(invs[p], g))
  BY DEF Goods
<1>2. [g \in Goods |-> IF g = "coin" THEN coins'[p] ELSE Total(invs'[p], g)]
        = [g \in Goods |-> IF g = "coin" THEN coins[p] ELSE Total(invs[p], g)]
  BY <1>1
<1>3. Hold[p] = [g \in Goods |-> IF g = "coin" THEN coins[p] ELSE Total(invs[p], g)]
  BY HoldIs
<1>4. Hold'[p] = [g \in Goods |-> IF g = "coin" THEN coins'[p] ELSE Total(invs'[p], g)]
  BY HoldIs
<1> QED
  BY <1>2, <1>3, <1>4

\* A step of the windows: everyone has what they had, and nothing is agreed.
LEMMA TalkAdvances ==
  ASSUME TradeSound, Carrying', WindowsSound', Ended, UNCHANGED <<coins, life, near>>,
         \A p \in Players : Escrowed(p),
         \A p \in Players, item \in Items : Total(invs'[p], item) = Total(invs[p], item)
  PROVE  Advances
<1>1. TradeSound'
  BY DEF TradeSound, PlayersTyped
<1>2. Hold' = Hold
  <2>1. \A p \in Players : Hold'[p] = Hold[p]
    BY HoldSame
  <2> QED
    BY <2>1 DEF Hold
<1>3. Contract!Withdraw
  BY <1>2 DEF Contract!Withdraw, Ended
<1> QED
  BY <1>1, <1>3 DEF Advances, Contract!Next

\* The same, when the inventories are as they were.
LEMMA OnlyTalkAdvances ==
  ASSUME TradeSound, WindowsSound', Ended, UNCHANGED <<invs, coins, life, near>>
  PROVE  Advances
<1>1. Carrying' /\ \A p \in Players : Escrowed(p)
  BY EscrowedSame DEF TradeSound, Carrying
<1> QED
  BY <1>1, TalkAdvances

\* A step of one player, outside the windows.
LEMMA AloneAdvances ==
  ASSUME TradeSound, Carrying', PlayersTyped', UNCHANGED windowVars, NEW p \in Players,
         Escrowed(p), \A q \in Players \ {p} : invs'[q] = invs[q] /\ coins'[q] = coins[q]
  PROVE  Advances
<1>1. TradeSound'
  BY NoneChanged DEF TradeSound
<1>2. \A q \in Players : Escrowed(q)
  BY EscrowedSame
<1>3. \A q \in Players \ {p} : Hold'[q] = Hold[q]
  BY HoldSame
<1>4. Deal' = Deal
  <2>1. \A q \in Players : Deal'[q] = Deal[q]
    BY DealIs DEF windowVars
  <2> QED
    BY <2>1 DEF Deal
<1>5. Contract!Alone(p)
  BY <1>3, <1>4 DEF Contract!Alone
<1> QED
  BY <1>1, <1>2, <1>5 DEF Advances, Contract!Next

-----------------------------------------------------------------------------
(* The steps of the windows *)

LEMMA RequestAdvances ==
  ASSUME TradeSound, NEW p \in Players, NEW q \in Players, Request(p, q)
  PROVE  Advances
<1>1. WindowsSound' /\ Ended
  BY RequestSound, RequestAgreesNothing DEF TradeSound, Ended
<1> QED
  BY <1>1, OnlyTalkAdvances DEF Request

LEMMA OfferAdvances ==
  ASSUME TradeSound, NEW p \in Players, NEW w \in Window, NEW from \in Slots,
         OfferItem(p, w, from)
  PROVE  Advances
<1>1. PICK u : Shuffled(p, u)
  BY OfferSound DEF TradeSound
<1>2. /\ invs' = [invs EXCEPT ![p] = u] /\ u \in Inventories /\ Sound(u)
      /\ invs \in [Players -> Inventories]
  BY <1>1 DEF Shuffled, Sound, TradeSound, Carrying
<1>3. invs'[p] = u /\ \A q \in Players \ {p} : invs'[q] = invs[q]
  BY <1>2
<1>4. Carrying'
  BY <1>2, <1>3 DEF TradeSound, Carrying
<1>5. Escrowed(p)
  <2>1. \A o \in Offerable : Peek(invs[p], o) # Empty =>
          Peek(invs'[p], o) = Peek(invs[p], o) /\ Peek(invs[p], o).count \in Nat
    BY <1>1, <1>3, StackFacts
       DEF Shuffled, TradeSound, Carrying, Inventories, Peek, Offerable, Reachable
  <2> QED
    BY <2>1, OfferedAre DEF Escrowed, TradeSound
<1>6. \A q \in Players : Escrowed(q)
  BY <1>3, <1>5, EscrowedSame
<1>7. \A q \in Players, item \in Items : Total(invs'[q], item) = Total(invs[q], item)
  BY <1>1, <1>3 DEF Shuffled
<1>8. WindowsSound' /\ Ended
  <2>1. CASE Reset
    BY <2>1, ResetSound, ResetEnds DEF TradeSound
  <2>2. CASE UNCHANGED windowVars
    BY <2>2, NoneChanged, DealIs DEF TradeSound, Ended, windowVars
  <2> QED
    BY <2>1, <2>2, OfferSound DEF TradeSound
<1> QED
  BY <1>4, <1>6, <1>7, <1>8, TalkAdvances DEF OfferItem

\* The steps that take accepts back.
LEMMA ResetAdvances ==
  ASSUME TradeSound, Reset, UNCHANGED <<invs, coins, life, near>>
  PROVE  Advances
BY ResetSound, ResetEnds, OnlyTalkAdvances DEF TradeSound

\* The steps that close a session.
LEMMA CloseAdvances ==
  ASSUME TradeSound, NEW p \in Players, InSession(p), Close(p),
         UNCHANGED <<invs, coins, life, near>>
  PROVE  Advances
BY CloseSound, CloseEnds, OnlyTalkAdvances DEF TradeSound

LEMMA AcceptAdvances ==
  ASSUME TradeSound, NEW p \in Players, AcceptFirst(p)
  PROVE  Advances
<1> DEFINE s == SessionOf(p)
<1>1. PICK t \in Session :
        /\ Redrawn(byCid[p], t)
        /\ ~ SideOf(Partner(p)).accepted
        /\ seen' = [seen EXCEPT ![p] = Payload(SideOf(Partner(p)))]
        /\ p = t.a.cid => t.b = s.b /\ t.a = [s.a EXCEPT !.accepted = TRUE]
        /\ p # t.a.cid => t.a = s.a /\ t.b = [s.b EXCEPT !.accepted = TRUE]
  BY AcceptRedraws DEF TradeSound
<1>2. InSession(p) /\ UNCHANGED <<invs, coins, life, near>>
  BY DEF AcceptFirst
<1>3. WindowsSound' /\ s = sessions[byCid[p]] /\ s \in Session
  BY <1>1, <1>2, RedrawnSound, Sides DEF TradeSound
<1>4. /\ \A r \in Players \ {t.a.cid, t.b.cid} : Deal'[r] = Deal[r]
      /\ Deal[t.a.cid] = Agreed(s.a, s.b, seen[t.a.cid])
      /\ Deal[t.b.cid] = Agreed(s.b, s.a, seen[t.b.cid])
      /\ Deal'[t.a.cid] = Agreed(t.a, t.b, seen'[t.a.cid])
      /\ Deal'[t.b.cid] = Agreed(t.b, t.a, seen'[t.b.cid])
      /\ t.a.cid # t.b.cid /\ t.a.cid = s.a.cid /\ t.b.cid = s.b.cid
  <2> DEFINE u == sessions[byCid[p]]
  <2>1. /\ \A r \in Players \ {t.a.cid, t.b.cid} : Deal'[r] = Deal[r]
        /\ Deal[t.a.cid] = Agreed(u.a, u.b, seen[t.a.cid])
        /\ Deal[t.b.cid] = Agreed(u.b, u.a, seen[t.b.cid])
        /\ Deal'[t.a.cid] = Agreed(t.a, t.b, seen'[t.a.cid])
        /\ Deal'[t.b.cid] = Agreed(t.b, t.a, seen'[t.b.cid])
        /\ t.a.cid # t.b.cid
    BY <1>1, RedrawnDeals DEF TradeSound
  <2>2. u = s /\ t.a.cid = u.a.cid /\ t.b.cid = u.b.cid
    BY <1>1, <1>3 DEF Redrawn
  <2> HIDE DEF u, s
  <2> QED
    BY <2>1, <2>2
<1>5. SideOf(p).accepted => seen[p] = Payload(SideOf(Partner(p)))
  BY <1>2, WindowsPromise DEF TradeSound, SessionsSound, AcceptStands
<1>6. seen'[p] = Payload(SideOf(Partner(p)))
  BY <1>1 DEF TradeSound, WindowsSound
<1>7. p = s.a.cid => SideOf(p) = s.a /\ SideOf(Partner(p)) = s.b
  BY <1>2, Sides DEF TradeSound
<1>8. p # s.a.cid => p = s.b.cid /\ SideOf(p) = s.b /\ SideOf(Partner(p)) = s.a
  BY <1>2, Sides DEF TradeSound
<1>9. \A side \in Side : side.accepted => [side EXCEPT !.accepted = TRUE] = side
  BY DEF Side
<1>10. s.a \in Side /\ s.b \in Side
  BY <1>3 DEF Session
<1> HIDE DEF s
<1>11. \A r \in Players \ {p} : Deal'[r] = Deal[r]
  BY <1>1, <1>4, <1>7, <1>8 DEF Agreed
<1>12. ASSUME SideOf(p).accepted
       PROVE  Deal'[p] = Deal[p]
  <2>0. seen'[p] = seen[p]
    BY <1>5, <1>6, <1>12
  <2>1. CASE p = s.a.cid
    <3>1. t.a = s.a /\ t.b = s.b
      BY <1>1, <1>4, <1>7, <1>9, <1>10, <1>12, <2>1
    <3> QED
      BY <1>4, <2>0, <2>1, <3>1
  <2>2. CASE p # s.a.cid
    <3>1. t.a = s.a /\ t.b = s.b /\ p = s.b.cid
      BY <1>1, <1>4, <1>8, <1>9, <1>10, <1>12, <2>2
    <3> QED
      BY <1>4, <2>0, <3>1
  <2> QED
    BY <2>1, <2>2
<1>13. ~ SideOf(p).accepted => Deal[p] = None
  BY <1>4, <1>7, <1>8 DEF Agreed
<1>14. CASE SideOf(p).accepted
  <2>1. Ended
    BY <1>11, <1>12, <1>14 DEF Ended
  <2> QED
    BY <1>2, <1>3, <2>1, OnlyTalkAdvances
<1>15. CASE ~ SideOf(p).accepted
  <2>1. TradeSound' /\ \A r \in Players : Escrowed(r)
    BY <1>2, <1>3, EscrowedSame DEF TradeSound, Carrying, PlayersTyped
  <2>2. Hold' = Hold
    BY <1>2 DEF Hold
  <2>3. Contract!Agree(p)
    BY <1>11, <1>13, <1>15, <2>2 DEF Contract!Agree, Contract!Nothing
  <2> QED
    BY <2>1, <2>3 DEF Advances, Contract!Next
<1> QED
  BY <1>14, <1>15

LEMMA FailAdvances ==
  ASSUME TradeSound, NEW p \in Players,
         \/ FailCoins(p) \/ FailChanged(p) \/ FailFull(p)
  PROVE  Advances
<1>1. InSession(p) /\ UNCHANGED <<invs, coins, life, near, byCid>>
  BY DEF FailCoins, FailChanged, FailFull, Valid, AcceptSecond
<1>2. Reset
  <2>1. CASE FailChanged(p)
    BY <2>1, FailChangedResets DEF TradeSound
  <2>2. CASE ClearAccepts(p)
    BY <1>1, <2>2, ClearResets DEF TradeSound
  <2> QED
    BY <2>1, <2>2 DEF FailCoins, FailFull
<1> QED
  BY <1>1, <1>2, ResetAdvances

LEMMA ClosingAdvances ==
  ASSUME TradeSound, NEW p \in Players,
         \/ Cancel(p) \/ FailApart(p) \/ FailSave(p) \/ Sweep(p)
  PROVE  Advances
<1>1. InSession(p) /\ Close(p) /\ UNCHANGED <<invs, coins, life, near>>
  BY DEF Cancel, FailApart, FailSave, Sweep, Valid, AcceptSecond
<1> QED
  BY <1>1, CloseAdvances

LEMMA ShownIs ==
  ASSUME NEW side \in Side
  PROVE  /\ Shown(Payload(side)) \in [Goods -> Nat]
         /\ Shown(Payload(side))["coin"] = side.coins
         /\ \A item \in Items : Shown(Payload(side))[item] = Offered(side, item)
<1>1. Payload(side).coins = side.coins /\ side.coins \in Nat
  BY DEF Payload, Side
<1>2. \A item \in Items : CountIn(Payload(side).stacks, item) \in Nat
  BY OfferedIs DEF Offered
<1> QED
  BY <1>1, <1>2, CoinIsNoItem DEF Shown, Goods, Offered

\* What the party who has accepted agreed to is what both sides hold now.
LEMMA DealOf ==
  ASSUME WindowsSound, NEW q \in Players, InSession(q), SideOf(q).accepted
  PROVE  /\ Deal[q] # None
         /\ Deal[q] = [with |-> Partner(q), gives |-> Shown(Payload(SideOf(q))),
                       gets |-> Shown(Payload(SideOf(Partner(q))))]
<1> DEFINE d == [with |-> Partner(q), gives |-> Shown(Payload(SideOf(q))),
                 gets |-> Shown(Payload(SideOf(Partner(q))))]
<1>1. seen[q] = Payload(SideOf(Partner(q)))
  BY WindowsPromise DEF SessionsSound, AcceptStands
<1>2. Deal[q] = d
  BY <1>1 DEF Deal
<1>3. d \in Deals
  BY Sides, ShownIs DEF Deals
<1> QED
  BY <1>2, <1>3, NoneIsNoDeal

\* The commit is the swap both agreed to.
LEMMA CommitSwaps ==
  ASSUME TradeSound, NEW p \in Players, Commit(p)
  PROVE  Advances
<1> DEFINE q == Partner(p)
           mine == SideOf(p)
           theirs == SideOf(q)
<1>1. /\ InSession(p) /\ Valid(p) /\ Fits(p) /\ Fits(q) /\ theirs.accepted
      /\ mine.coins <= coins[p] /\ theirs.coins <= coins[q]
      /\ ChangedOffers(p) = {} /\ ChangedOffers(q) = {}
      /\ invs' = [invs EXCEPT ![p] = Received(p).inv, ![q] = Received(q).inv]
      /\ coins' = [coins EXCEPT ![p] = @ - mine.coins + theirs.coins,
                                ![q] = @ - theirs.coins + mine.coins]
      /\ Close(p) /\ UNCHANGED <<life, near>>
  BY DEF Commit, Valid, AcceptSecond, CoinsCovered
<1>2. /\ q \in Players /\ q # p /\ InSession(q) /\ Partner(q) = p
      /\ mine \in Side /\ theirs \in Side
  BY <1>1, Sides DEF TradeSound
<1>3. /\ Sound(Received(p).inv)
      /\ \A item \in Items :
           /\ Total(Received(p).inv, item)
                = Total(invs[p], item) - Offered(mine, item) + Offered(theirs, item)
           /\ Offered(mine, item) <= Total(invs[p], item)
  BY <1>1, ReceivedSound DEF TradeSound
<1>4. /\ Sound(Received(q).inv)
      /\ \A item \in Items :
           /\ Total(Received(q).inv, item)
                = Total(invs[q], item) - Offered(theirs, item) + Offered(mine, item)
           /\ Offered(theirs, item) <= Total(invs[q], item)
  BY <1>1, <1>2, ReceivedSound DEF TradeSound
<1>5. /\ Deal[q] # None /\ Deal[q].with = p
      /\ Deal[q].gives = Shown(Payload(theirs)) /\ Deal[q].gets = Shown(Payload(mine))
  <2> HIDE DEF q
  <2>1. Deal[q] # None
        /\ Deal[q] = [with |-> Partner(q), gives |-> Shown(Payload(SideOf(q))),
                      gets |-> Shown(Payload(SideOf(Partner(q))))]
    BY <1>1, <1>2, DealOf DEF TradeSound
  <2> QED
    BY <1>2, <2>1
<1>6. /\ Deal'[p] = None /\ Deal'[q] = None
      /\ \A r \in Players \ {p, q} : Deal'[r] = Deal[r]
  BY <1>1, CloseDeals DEF TradeSound
<1>7. byCid'[p] = None /\ byCid'[q] = None
  BY <1>1, <1>2 DEF Close, TradeSound, WindowsSound
<1>8. WindowsSound'
  BY <1>1, CloseSound DEF TradeSound
<1>9. /\ mine.coins \in Nat /\ theirs.coins \in Nat
      /\ coins[p] \in Nat /\ coins[q] \in Nat /\ coins \in [Players -> Nat]
      /\ invs \in [Players -> Inventories]
      /\ Received(p).inv \in Inventories /\ Received(q).inv \in Inventories
  BY <1>2, <1>3, <1>4 DEF Side, TradeSound, PlayersTyped, Carrying, Sound
<1>10. /\ Shown(Payload(mine))["coin"] = mine.coins /\ Shown(Payload(theirs))["coin"] = theirs.coins
       /\ \A item \in Items :
            /\ Shown(Payload(mine))[item] = Offered(mine, item)
            /\ Shown(Payload(theirs))[item] = Offered(theirs, item)
            /\ Offered(mine, item) \in Nat /\ Offered(theirs, item) \in Nat
  BY <1>2, ShownIs, OfferedIs
<1>11. \A item \in Items : Total(invs[p], item) \in Nat /\ Total(invs[q], item) \in Nat
  BY <1>2, <1>9, TotalNat
<1> HIDE DEF q, mine, theirs
<1>12. /\ invs'[p] = Received(p).inv /\ invs'[q] = Received(q).inv
       /\ invs' \in [Players -> Inventories]
       /\ \A r \in Players \ {p, q} : invs'[r] = invs[r]
  BY <1>1, <1>2, <1>9
<1>13. /\ coins'[p] = coins[p] - mine.coins + theirs.coins
       /\ coins'[q] = coins[q] - theirs.coins + mine.coins
       /\ coins' \in [Players -> Nat]
       /\ \A r \in Players \ {p, q} : coins'[r] = coins[r]
  BY <1>1, <1>2, <1>9
<1>14. TradeSound'
  <2>1. Carrying'
    BY <1>3, <1>4, <1>12 DEF TradeSound, Carrying
  <2> QED
    BY <1>1, <1>8, <1>13, <2>1 DEF TradeSound, PlayersTyped
<1>15. \A r \in Players : Escrowed(r)
  <2>1. \A r \in Players \ {p, q} : Escrowed(r)
    BY <1>12, EscrowedSame
  <2>2. Escrowed(p) /\ Escrowed(q)
    BY <1>1, <1>2, <1>7 DEF Escrowed, InSession
  <2> QED
    BY <2>1, <2>2
<1>16. Contract!Swap(p, q)
  <2>1. \A r \in Players \ {p, q} : Hold'[r] = Hold[r]
    BY <1>12, <1>13, HoldSame
  <2>2. ASSUME NEW g \in Goods
        PROVE  /\ Deal[q].gives[g] <= Hold[q][g]
               /\ Deal[q].gets[g] <= Hold[p][g]
               /\ Hold'[p][g] = Hold[p][g] + Deal[q].gives[g] - Deal[q].gets[g]
               /\ Hold'[q][g] = Hold[q][g] - Deal[q].gives[g] + Deal[q].gets[g]
    <3>1. CASE g = "coin"
      <4>1. /\ Hold[p][g] = coins[p] /\ Hold[q][g] = coins[q]
            /\ Hold'[p][g] = coins'[p] /\ Hold'[q][g] = coins'[q]
        BY <1>2, <2>2, <3>1, HoldIs
      <4>2. Deal[q].gives[g] = theirs.coins /\ Deal[q].gets[g] = mine.coins
        BY <1>5, <1>10, <3>1
      <4> QED
        BY <1>1, <1>9, <1>13, <4>1, <4>2
    <3>2. CASE g # "coin"
      <4>0. g \in Items
        BY <2>2, <3>2 DEF Goods
      <4>1. /\ Hold[p][g] = Total(invs[p], g) /\ Hold[q][g] = Total(invs[q], g)
            /\ Hold'[p][g] = Total(Received(p).inv, g) /\ Hold'[q][g] = Total(Received(q).inv, g)
        <5>1. Hold[p][g] = Total(invs[p], g) /\ Hold'[p][g] = Total(invs'[p], g)
          BY <4>0, HoldOf
        <5>2. Hold[q][g] = Total(invs[q], g) /\ Hold'[q][g] = Total(invs'[q], g)
          BY <1>2, <4>0, HoldOf
        <5> QED
          BY <1>12, <5>1, <5>2
      <4>2. Deal[q].gives[g] = Offered(theirs, g) /\ Deal[q].gets[g] = Offered(mine, g)
        BY <1>5, <1>10, <4>0
      <4> QED
        BY <1>3, <1>4, <1>10, <1>11, <4>0, <4>1, <4>2
    <3> QED
      BY <3>1, <3>2
  <2> QED
    BY <1>5, <1>6, <2>1, <2>2 DEF Contract!Swap, Contract!Nothing
<1> QED
  BY <1>2, <1>14, <1>15, <1>16 DEF Advances, Contract!Next

-----------------------------------------------------------------------------
(* The steps of one player *)

LEMMA NowCarries ==
  ASSUME Carrying, NEW p \in Players, NEW u, Sound(u), invs' = [invs EXCEPT ![p] = u]
  PROVE  Carrying' /\ invs'[p] = u /\ \A q \in Players \ {p} : invs'[q] = invs[q]
<1>1. u \in Inventories
  BY DEF Sound
<1> QED
  BY <1>1 DEF Carrying

\* A slot that is not locked is apart from every offered one.
LEMMA UnlockedApart ==
  ASSUME WindowsSound, NEW p \in Players, InSession(p), NEW slot \in Slots, ~ Locked(p, slot),
         NEW o \in OfferedSlots(p)
  PROVE  o \in Slots /\ Apart(o, slot)
<1>1. o \in Offerable
  BY OfferedAre
<1>2. o \in Slots /\ (o \in BagRefs => o[2] # Held)
  BY <1>1, SlotFacts DEF Offerable, Reachable
<1>3. o # slot
  BY DEF Locked
<1>4. ASSUME o \in BagRefs, IsHost(slot)
      PROVE  o[2] # KeyOf(slot)
  <2>1. CASE slot = Cursor
    BY <1>2, <1>4, <2>1, SlotKinds
  <2>2. CASE slot # Cursor
    <3>1. Kind(slot) = "base" /\ KeyOf(slot) = slot[2] /\ Kind(o) = "bag"
      BY <1>2, <1>4, <2>2, SlotKinds DEF IsHost, KeyOf
    <3> QED
      BY <3>1 DEF Locked
  <2> QED
    BY <2>1, <2>2
<1> QED
  BY <1>2, <1>3, <1>4 DEF Apart

\* The escrow, for an operation that leaves every offered slot or adds to it.
LEMMA EscrowedBy ==
  ASSUME TradeSound, NEW p \in Players,
         InSession(p) => \A o \in OfferedSlots(p) : invs'[p].cells[o] = invs[p].cells[o]
  PROVE  Escrowed(p)
<1>1. \A o \in Slots : Peek(invs[p], o).count \in Nat
  BY StackFacts DEF TradeSound, Carrying, Inventories, Peek
<1>2. InSession(p) => OfferedSlots(p) \subseteq Slots
  BY OfferedAre DEF TradeSound, Offerable, Reachable
<1> QED
  BY <1>1, <1>2 DEF Escrowed, Peek

LEMMA RearrangeAdvances ==
  ASSUME TradeSound, NEW p \in Players, NEW src \in Slots, NEW dst \in Slots,
         Rearrange(p, src, dst)
  PROVE  Advances
<1> DEFINE u == Move(invs[p], src, dst)
<1>1. /\ ~ Locked(p, src) /\ ~ Locked(p, dst) /\ CanMove(invs[p], src, dst)
      /\ UNCHANGED <<coins, life, near, windowVars>> /\ invs' = [invs EXCEPT ![p] = u]
  BY DEF Rearrange, TradeSound, Carrying
<1>2. Sound(invs[p]) /\ Sound(u)
  BY <1>1, MoveSound DEF TradeSound, Carrying
<1> HIDE DEF u
<1>3. Carrying' /\ invs'[p] = u /\ \A q \in Players \ {p} : invs'[q] = invs[q]
  BY <1>1, <1>2, NowCarries DEF TradeSound
<1>4. ASSUME InSession(p), NEW o \in OfferedSlots(p)
      PROVE  u.cells[o] = invs[p].cells[o]
  <2>1. o \in Slots /\ Apart(o, src) /\ Apart(o, dst)
    BY <1>1, <1>4, UnlockedApart DEF TradeSound
  <2> QED
    BY <1>1, <1>2, <2>1, MoveElsewhere DEF u
<1>5. Escrowed(p)
  BY <1>3, <1>4, EscrowedBy
<1> QED
  BY <1>1, <1>3, <1>5, AloneAdvances DEF TradeSound, PlayersTyped

LEMMA DestroyElsewhere ==
  ASSUME NEW v, Sound(v), NEW slot \in Slots, NEW n, NEW o \in Slots, Apart(o, slot)
  PROVE  DestroyAt(v, slot, n).cells[o] = v.cells[o]
<1> DEFINE w == Remove1(v, slot, Taken(Peek(v, slot), n))
<1>1. w.cells[o] = v.cells[o]
  BY DEF Remove1, Set, Apart, Sound, Inventories
<1>2. DestroyAt(v, slot, n) = EnsureBagsInit(w, {slot})
  BY DEF DestroyAt
<1>3. o \in BagRefs => o[2] \notin Touched({slot})
  BY TouchedHosts DEF Apart
<1> HIDE DEF w
<1> QED
  BY <1>1, <1>2, <1>3, EnsureElsewhere

LEMMA TakeOutAdvances ==
  ASSUME TradeSound, NEW p \in Players, NEW slot \in Slots, NEW n \in {0, 1},
         TakeOut(p, slot, n)
  PROVE  Advances
<1> DEFINE u == DestroyAt(invs[p], slot, n)
<1>1. /\ ~ Locked(p, slot) /\ CanDestroy(invs[p], slot)
      /\ UNCHANGED <<coins, life, near, windowVars>> /\ invs' = [invs EXCEPT ![p] = u]
  BY DEF TakeOut, TradeSound, Carrying
<1>2. Sound(invs[p]) /\ Sound(u)
  BY <1>1, DestroySound DEF TradeSound, Carrying
<1> HIDE DEF u
<1>3. Carrying' /\ invs'[p] = u /\ \A q \in Players \ {p} : invs'[q] = invs[q]
  BY <1>1, <1>2, NowCarries DEF TradeSound
<1>4. ASSUME InSession(p), NEW o \in OfferedSlots(p)
      PROVE  u.cells[o] = invs[p].cells[o]
  BY <1>1, <1>2, <1>4, UnlockedApart, DestroyElsewhere DEF TradeSound, u
<1>5. Escrowed(p)
  BY <1>3, <1>4, EscrowedBy
<1> QED
  BY <1>1, <1>3, <1>5, AloneAdvances DEF TradeSound, PlayersTyped

\* The placer asks no lock; it only adds.
LEMMA PutInAdvances ==
  ASSUME TradeSound, NEW p \in Players, NEW item \in Items, PutIn(p, item)
  PROVE  Advances
<1> DEFINE u == AddItem(invs[p], item, 1).inv
<1>1. UNCHANGED <<coins, life, near, windowVars>> /\ invs' = [invs EXCEPT ![p] = u]
  BY DEF PutIn, TradeSound, Carrying
<1>2. Sound(invs[p]) /\ Sound(u) /\ Grown(invs[p], u)
  BY AddSound DEF TradeSound, Carrying
<1> HIDE DEF u
<1>3. Carrying' /\ invs'[p] = u /\ \A q \in Players \ {p} : invs'[q] = invs[q]
  BY <1>1, <1>2, NowCarries DEF TradeSound
<1>4. InSession(p) => OfferedSlots(p) \subseteq Slots
  BY OfferedAre DEF TradeSound, Offerable, Reachable
<1>5. Escrowed(p)
  BY <1>2, <1>3, <1>4 DEF Escrowed, Grown, Peek
<1> QED
  BY <1>1, <1>3, <1>5, AloneAdvances DEF TradeSound, PlayersTyped

LEMMA StripAdvances ==
  ASSUME TradeSound, NEW p \in Players, Strip(p)
  PROVE  Advances
<1>1. /\ invs' = [invs EXCEPT ![p] = NoInventory] /\ UNCHANGED <<near, windowVars>>
      /\ coins' = [coins EXCEPT ![p] = 0] /\ life' = [life EXCEPT ![p] = "dead"]
  BY DEF Strip, ClearAll
<1>2. Carrying' /\ \A q \in Players \ {p} : invs'[q] = invs[q]
  BY <1>1, EmptySound, NowCarries DEF TradeSound
<1>3. PlayersTyped' /\ life'[p] = "dead" /\ \A q \in Players \ {p} : coins'[q] = coins[q]
  BY <1>1 DEF TradeSound, PlayersTyped
<1>4. Escrowed(p)
  BY <1>3 DEF Escrowed
<1> QED
  BY <1>1, <1>2, <1>3, <1>4, AloneAdvances

LEMMA ReturnAdvances ==
  ASSUME TradeSound, NEW p \in Players, Return(p)
  PROVE  Advances
<1> DEFINE u == FromRows(ToRows(invs[p]))
<1>1. /\ UNCHANGED <<coins, near, windowVars>> /\ invs' = [invs EXCEPT ![p] = u]
      /\ life' = [life EXCEPT ![p] = "alive"]
  BY DEF Return, TradeSound, Carrying
<1>2. Sound(u) /\ u.cells = invs[p].cells
  BY LoadedSound DEF TradeSound, Carrying
<1> HIDE DEF u
<1>3. Carrying' /\ invs'[p] = u /\ \A q \in Players \ {p} : invs'[q] = invs[q]
  BY <1>1, <1>2, NowCarries DEF TradeSound
<1>4. Escrowed(p)
  BY <1>2, <1>3, EscrowedSame
<1> QED
  BY <1>1, <1>3, <1>4, AloneAdvances DEF TradeSound, PlayersTyped

LEMMA OthersAdvance ==
  ASSUME TradeSound, NEW p \in Players,
         Spend(p) \/ Fall(p) \/ Respawn(p) \/ Depart(p) \/ Walk(p)
  PROVE  Advances
<1>1. UNCHANGED <<invs, windowVars>>
  BY DEF Spend, Fall, Respawn, Depart, Walk
<1>2. PlayersTyped' /\ \A q \in Players \ {p} : coins'[q] = coins[q]
  BY DEF TradeSound, PlayersTyped, Spend, Fall, Respawn, Depart, Walk
<1>3. Carrying' /\ Escrowed(p) /\ \A q \in Players : invs'[q] = invs[q]
  BY <1>1, EscrowedSame DEF TradeSound, Carrying
<1> QED
  BY <1>1, <1>2, <1>3, AloneAdvances

-----------------------------------------------------------------------------
(* The theorems *)

LEMMA TradeSoundInit == TradeInit => TradeSound /\ Contract!Init
<1> SUFFICES ASSUME TradeInit
             PROVE  TradeSound /\ Contract!Init
  OBVIOUS
<1>1. Carrying
  <2>1. NoInventory \in Inventories /\ Sound(NoInventory)
    BY EmptySound DEF Sound
  <2> QED
    BY <2>1 DEF TradeInit, Carrying
<1>2. PlayersTyped
  BY MaxCoinsNat DEF TradeInit, PlayersTyped
<1>3. WindowsSound
  BY DEF TradeInit, WindowsSound
<1>4. Contract!Init
  BY DEF TradeInit, Contract!Init, Contract!Nothing, Deal, InSession
<1> QED
  BY <1>1, <1>2, <1>3, <1>4 DEF TradeSound

LEMMA StepAdvances ==
  ASSUME TradeSound, [TradeNext]_tradeVars
  PROVE  Advances
<1>1. ASSUME NEW p \in Players, NEW q \in Players, Request(p, q)
      PROVE  Advances
  BY <1>1, RequestAdvances
<1>2. ASSUME NEW p \in Players, NEW w \in Window, NEW from \in Slots, OfferItem(p, w, from)
      PROVE  Advances
  BY <1>2, OfferAdvances
<1>3. ASSUME NEW p \in Players, NEW w \in Window, RetrieveItem(p, w)
      PROVE  Advances
  BY <1>3, RetrieveResets, ResetAdvances DEF TradeSound, RetrieveItem
<1>4. ASSUME NEW p \in Players, NEW n \in 0 .. MaxCoins, OfferCoins(p, n)
      PROVE  Advances
  <2>1. n \in Nat
    BY MaxCoinsNat
  <2> QED
    BY <1>4, <2>1, CoinsReset, ResetAdvances DEF TradeSound, OfferCoins
<1>5. ASSUME NEW p \in Players,
             \/ Cancel(p) \/ AcceptFirst(p) \/ FailApart(p) \/ FailCoins(p) \/ FailChanged(p)
             \/ FailFull(p) \/ FailSave(p) \/ Commit(p) \/ Sweep(p)
      PROVE  Advances
  BY <1>5, ClosingAdvances, AcceptAdvances, FailAdvances, CommitSwaps
<1>6. ASSUME NEW p \in Players, NEW src \in Slots, NEW dst \in Slots, Rearrange(p, src, dst)
      PROVE  Advances
  BY <1>6, RearrangeAdvances
<1>7. ASSUME NEW p \in Players, NEW slot \in Slots, NEW n \in {0, 1}, TakeOut(p, slot, n)
      PROVE  Advances
  BY <1>7, TakeOutAdvances
<1>8. ASSUME NEW p \in Players, NEW item \in Items, PutIn(p, item)
      PROVE  Advances
  BY <1>8, PutInAdvances
<1>9. ASSUME NEW p \in Players, Spend(p)
      PROVE  Advances
  BY <1>9, OthersAdvance
<1>10. ASSUME NEW p \in Mortals,
              Fall(p) \/ Strip(p) \/ Respawn(p) \/ Depart(p) \/ Return(p) \/ Walk(p)
       PROVE  Advances
  <2>1. p \in Players
    BY MortalsArePlayers
  <2> QED
    BY <1>10, <2>1, OthersAdvance, StripAdvances, ReturnAdvances
<1>11. CASE UNCHANGED tradeVars
  <2>1. UNCHANGED <<invs, coins, life, near, windowVars>>
    BY <1>11 DEF tradeVars
  <2>2. WindowsSound' /\ Ended
    BY <2>1, NoneChanged, DealIs DEF TradeSound, Ended, windowVars
  <2> QED
    BY <2>1, <2>2, OnlyTalkAdvances
<1> QED
  BY <1>1, <1>2, <1>3, <1>4, <1>5, <1>6, <1>7, <1>8, <1>9, <1>10, <1>11 DEF TradeNext

LEMMA AlwaysTradeSound == TradeSpec => []TradeSound
<1>1. TradeSound /\ [TradeNext]_tradeVars => TradeSound'
  BY StepAdvances DEF Advances
<1> QED
  BY <1>1, TradeSoundInit, PTL DEF TradeSpec

\* Through any trade, what a player carries and the windows stay well-formed.
THEOREM TradeTypes == TradeSpec => []TradeTypeOK
<1>1. TradeSound => TradeTypeOK
  BY StackFacts DEF TradeSound, Carrying, WindowsSound, PlayersTyped, TradeTypeOK, Inventories
<1> QED
  BY <1>1, AlwaysTradeSound, PTL

\* A player is in one session at most and its parties are indexed to it, no
\* slot is offered twice, and an accept that stands is of what is shown now.
THEOREM TradesAreSound == TradeSpec => []SessionsSound
<1>1. TradeSound => SessionsSound
  BY WindowsPromise DEF TradeSound
<1> QED
  BY <1>1, AlwaysTradeSound, PTL

\* While an offer stays in the window, nothing but its owner's death moves or
\* lessens the stack it names (the locks of every intent, and the placer that
\* asks none).
THEOREM OffersStayPut == TradeSpec => LockHolds
<1>1. ASSUME TradeSound, [TradeNext]_tradeVars, NEW p \in Players, NEW w \in Window
      PROVE  LET o == SideOf(p).offers[w]
             IN  /\ InSession(p) /\ o # None
                 /\ byCid'[p] = byCid[p] /\ SideOf(p)'.offers[w] = o
                 /\ life'[p] # "dead" /\ Peek(invs[p], o.slot) # Empty
                 => /\ Peek(invs'[p], o.slot).item = Peek(invs[p], o.slot).item
                    /\ Peek(invs'[p], o.slot).count >= Peek(invs[p], o.slot).count
  <2>1. Escrowed(p)
    BY <1>1, StepAdvances DEF Advances
  <2>2. SideOf(p).offers[w] # None => SideOf(p).offers[w].slot \in OfferedSlots(p)
    BY DEF OfferedSlots
  <2> QED
    BY <2>1, <2>2 DEF Escrowed
<1>2. TradeSound /\ [TradeNext]_tradeVars =>
        [\A p \in Players, w \in Window :
           LET o == SideOf(p).offers[w]
           IN  /\ InSession(p) /\ o # None
               /\ byCid'[p] = byCid[p] /\ SideOf(p)'.offers[w] = o
               /\ life'[p] # "dead" /\ Peek(invs[p], o.slot) # Empty
               => /\ Peek(invs'[p], o.slot).item = Peek(invs[p], o.slot).item
                  /\ Peek(invs'[p], o.slot).count >= Peek(invs[p], o.slot).count]_tradeVars
  BY <1>1
<1> QED
  BY <1>2, AlwaysTradeSound, PTL DEF TradeSpec, LockHolds

\* The trade window implements the contract: holdings of two players change in
\* one step only by the swap both accepted, stack for stack and coin for coin.
THEOREM TradeImplementsContract == TradeSpec => ImplementsContract
<1>1. TradeSound /\ [TradeNext]_tradeVars => [Contract!Next]_<<Hold, Deal>>
  BY StepAdvances DEF Advances
<1> QED
  BY <1>1, TradeSoundInit, AlwaysTradeSound, PTL
     DEF TradeSpec, ImplementsContract, Contract!Spec

=============================================================================
