---------------------------- MODULE Economy_proofs ---------------------------
(***************************************************************************)
(* The coin of the world balances and every purse pays exactly, for every  *)
(* number of characters and bags, every table of tiers in which each is    *)
(* worth so many whole coins of the one below, and every price and amount. *)
(*                                                                         *)
(* Purses: what a purse is worth is followed tier by tier (UptoIs), from   *)
(* what the fewest coins of an amount are worth (FromCopper) to the tiers  *)
(* that pay: Paying is what holds after each of them (TierPays), so that   *)
(* of an affordable cost nothing is owed at the end (SpendPays) and the    *)
(* purse differs from before only up to the tier that paid the last.       *)
(*                                                                         *)
(* Books: the rows of a character are its wallet and its bank, and the     *)
(* sums over the characters and the bags are what was issued.  Each is     *)
(* needed for the other's bounds: that a row total or the issue is not     *)
(* below naught is a consequence of the books, not of any one action.      *)
(***************************************************************************)
EXTENDS Economy, FiniteSetTheorems, WellFoundedInduction, TLAPS

\* A set of naturals that is not empty has a least element.
LEMMA LeastMember ==
  ASSUME NEW T \in SUBSET Nat, T # {}
  PROVE  \E x \in T : \A y \in T : x <= y
<1> DEFINE R == {ss \in Nat \X Nat : ss[1] < ss[2]}
<1>1. IsWellFoundedOn(R, Nat)
  BY NatLessThanWellFounded DEF OpToRel
<1> HIDE DEF R
<1>2. PICK x \in T : \A y \in T : ~ (<<y, x>> \in R)
  BY <1>1, WFMin
<1>3. \A y \in T : ~ (y < x)
  BY <1>2 DEF R
<1> QED
  BY <1>3

\* Induction over the naturals, for a set in place of a predicate.
LEMMA Induction ==
  ASSUME NEW T, 0 \in T, \A n \in Nat : n \in T => n + 1 \in T
  PROVE  Nat \subseteq T
<1> DEFINE M == {n \in Nat : n \notin T}
<1> SUFFICES ASSUME M # {} PROVE FALSE
  OBVIOUS
<1>1. PICK m \in M : \A y \in M : m <= y
  BY LeastMember
<1>2. m # 0 /\ m - 1 \in Nat /\ m - 1 \notin M
  BY <1>1
<1> QED
  BY <1>1, <1>2

-----------------------------------------------------------------------------
(* Division *)

\* What n \div d and n % d are.
LEMMA DivMod ==
  ASSUME NEW n \in Int, NEW d \in Nat \ {0}
  PROVE  /\ n \div d \in Int /\ n % d \in Nat /\ n % d < d
         /\ n = d * (n \div d) + (n % d)
BY SMT

LEMMA Times ==
  ASSUME NEW a \in Int, NEW b \in Int, NEW c \in Int
  PROVE  (a + b) * c = a * c + b * c
BY SMT

LEMMA TimesTwice ==
  ASSUME NEW a \in Int, NEW b \in Int, NEW c \in Int
  PROVE  (a * b) * c = a * (b * c) /\ a * b = b * a
BY SMT

LEMMA TimesMore ==
  ASSUME NEW a \in Int, NEW b \in Int, a <= b, NEW c \in Nat
  PROVE  a * c <= b * c
BY SMT

\* Only one quotient leaves a rest.
LEMMA OneQuotient ==
  ASSUME NEW d \in Nat \ {0}, NEW a \in Int, NEW b \in Int, NEW r \in Nat, NEW s \in Nat,
         r < d, s < d, d * a + r = d * b + s
  PROVE  a = b /\ r = s
BY SMT

\* What divides n with a rest below d is the quotient.
LEMMA DivIs ==
  ASSUME NEW n \in Int, NEW d \in Nat \ {0}, NEW a \in Int, NEW r \in Nat, r < d, n = d * a + r
  PROVE  n \div d = a /\ n % d = r
<1> DEFINE b == n \div d
           s == n % d
<1>1. b \in Int /\ s \in Nat /\ s < d /\ n = d * b + s
  BY DivMod
<1> HIDE DEF b, s
<1>2. a = b /\ r = s
  BY <1>1, OneQuotient
<1> QED
  BY <1>2 DEF b, s

Divides(d, e) == \E q \in Nat : e = q * d

\* What a multiple of d leaves of n leaves of n by d what n does.
LEMMA DividesRest ==
  ASSUME NEW d \in Nat \ {0}, NEW e \in Nat \ {0}, Divides(d, e), NEW n \in Nat
  PROVE  (n % e) % d = n % d
<1>1. PICK q \in Nat : e = q * d
  BY DEF Divides
<1> DEFINE a == n \div e
           m == n % e
           b == m \div d
           r == m % d
<1>2. a \in Int /\ m \in Nat /\ n = e * a + m
  BY DivMod
<1> HIDE DEF a, m
<1>3. b \in Int /\ r \in Nat /\ r < d /\ m = d * b + r
  BY <1>2, DivMod
<1> HIDE DEF b, r
<1>4. e * a = d * (q * a)
  BY <1>1, <1>2, SMT
<1>5. n = d * (q * a + b) + r
  <2>1. q * a \in Int
    BY <1>2
  <2> QED
    BY <1>2, <1>3, <1>4, <2>1, SMT
<1>6. q * a + b \in Int
  BY <1>2, <1>3
<1>7. n % d = r
  BY <1>3, <1>5, <1>6, DivIs
<1> QED
  BY <1>7 DEF r, m

LEMMA DividesTrans ==
  ASSUME NEW d \in Nat, NEW e \in Nat, NEW f \in Nat, Divides(d, e), Divides(e, f)
  PROVE  Divides(d, f)
<1>1. PICK q \in Nat : e = q * d
  BY DEF Divides
<1>2. PICK p \in Nat : f = p * e
  BY DEF Divides
<1>3. f = (p * q) * d /\ p * q \in Nat
  BY <1>1, <1>2, SMT
<1> QED
  BY <1>3 DEF Divides

LEMMA DividesMod ==
  ASSUME NEW d \in Nat \ {0}, NEW e \in Nat, e % d = 0
  PROVE  Divides(d, e)
<1>1. e = d * (e \div d) /\ e \div d \in Int
  BY DivMod
<1> DEFINE q == e \div d
<1> HIDE DEF q
<1>2. q \in Int /\ e = d * q
  BY <1>1 DEF q
<1>3. q \in Nat /\ e = q * d
  BY <1>2, SMT
<1> QED
  BY <1>3 DEF Divides

LEMMA DivNat ==
  ASSUME NEW n \in Nat, NEW d \in Nat \ {0}
  PROVE  n \div d \in Nat /\ (n \div d) * d <= n /\ n = (n \div d) * d + (n % d) /\ n % d \in Nat
         /\ n % d < d
<1> DEFINE q == n \div d
           r == n % d
<1>1. q \in Int /\ r \in Nat /\ r < d /\ n = d * q + r
  BY DivMod
<1> HIDE DEF q, r
<1>2. q \in Nat /\ q * d <= n /\ n = q * d + r
  BY <1>1, SMT
<1> QED
  BY <1>1, <1>2 DEF q, r

\* Taking an element out of a subset of a finite set.
LEMMA Smaller ==
  ASSUME NEW S, IsFiniteSet(S), NEW s \in SUBSET S
  PROVE  /\ Cardinality(s) \in Nat
         /\ s = {} <=> Cardinality(s) = 0
         /\ \A x \in s : Cardinality(s \ {x}) = Cardinality(s) - 1
BY FS_Subset, FS_CardinalityType, FS_EmptySet, FS_RemoveElement

\* Induction over the subsets of a finite set.
LEMMA SubsetInduction ==
  ASSUME NEW S, IsFiniteSet(S), NEW T, {} \in T,
         \A s \in SUBSET S : s # {} /\ (\A x \in s : s \ {x} \in T) => s \in T
  PROVE  SUBSET S \subseteq T
<1> DEFINE P(n) == \A s \in SUBSET S : Cardinality(s) = n => s \in T
           N == {n \in Nat : P(n)}
<1>1. P(0)
  BY Smaller
<1>2. ASSUME NEW n \in Nat, P(n)
      PROVE  P(n + 1)
  <2> SUFFICES ASSUME NEW s \in SUBSET S, Cardinality(s) = n + 1
               PROVE  s \in T
    OBVIOUS
  <2>1. s # {}
    BY Smaller
  <2>2. ASSUME NEW x \in s
        PROVE  s \ {x} \in T
    <3>1. s \ {x} \in SUBSET S /\ Cardinality(s \ {x}) = n
      BY Smaller
    <3> QED
      BY <1>2, <3>1
  <2> QED
    BY <2>1, <2>2
<1> HIDE DEF P
<1>3. 0 \in N /\ \A n \in Nat : n \in N => n + 1 \in N
  BY <1>1, <1>2
<1> HIDE DEF N
<1>4. Nat \subseteq N
  BY <1>3, Induction
<1> QED
  BY <1>4, Smaller DEF N, P

\* g folds F over the subsets of S, taking them apart as C picks.
Folding(S, C, base, F, g) ==
  /\ g = [s \in SUBSET S |-> g[s]]
  /\ g[{}] = base
  /\ \A s \in SUBSET S : s # {} => g[s] = F[<<C[s], g[s \ {C[s]}]>>]

Foldable(S, C, base, F) == \E g : Folding(S, C, base, F, g)

FoldStep(s, C, base, F, g) == IF s = {} THEN base ELSE F[<<C[s], g[s \ {C[s]}]>>]

\* Such a function exists: without this the CHOOSE behind a recursive function
\* says nothing.
LEMMA FoldExists ==
  ASSUME NEW S, IsFiniteSet(S), NEW C, \A s \in SUBSET S : s # {} => C[s] \in s,
         NEW base, NEW F
  PROVE  Foldable(S, C, base, F)
<1> DEFINE D(n) == {s \in SUBSET S : Cardinality(s) <= n}
           Good(n, g) == g = [s \in D(n) |-> FoldStep(s, C, base, F, g)]
           P(n) == \E g : Good(n, g)
           T == {n \in Nat : P(n)}
<1>1. P(0)
  <2> DEFINE g == [s \in D(0) |-> base]
  <2>1. \A s \in D(0) : s = {}
    BY Smaller
  <2>2. Good(0, g)
    BY <2>1 DEF FoldStep
  <2> QED
    BY <2>2
<1>2. ASSUME NEW n \in Nat, P(n)
      PROVE  P(n + 1)
  <2>1. PICK g : Good(n, g)
    BY <1>2
  <2> DEFINE h == [s \in D(n + 1) |-> FoldStep(s, C, base, F, g)]
  <2>2. \A s \in D(n) : s \in D(n + 1) /\ h[s] = g[s]
    BY <2>1, Smaller
  <2>3. \A s \in D(n + 1) : s # {} => s \ {C[s]} \in D(n)
    BY Smaller
  <2>4. \A s \in D(n + 1) : FoldStep(s, C, base, F, g) = FoldStep(s, C, base, F, h)
    BY <2>2, <2>3 DEF FoldStep
  <2>5. Good(n + 1, h)
    BY <2>4
  <2> QED
    BY <2>5
<1>3. Cardinality(S) \in T
  <2> HIDE DEF P
  <2>1. 0 \in T /\ \A n \in Nat : n \in T => n + 1 \in T
    BY <1>1, <1>2
  <2> HIDE DEF T
  <2>2. Nat \subseteq T
    BY <2>1, Induction
  <2> QED
    BY <2>2, FS_CardinalityType
<1>4. D(Cardinality(S)) = SUBSET S
  BY FS_Subset
<1>5. PICK g : Good(Cardinality(S), g)
  BY <1>3
<1>6. Folding(S, C, base, F, g)
  BY <1>4, <1>5 DEF FoldStep, Folding
<1> QED
  BY <1>6 DEF Foldable

-----------------------------------------------------------------------------
(* Sums over finite sets *)

\* g adds up f over the subsets of S as SumFunctionOnSet does.
Adding(f, S, g) ==
  g = [s \in SUBSET S |->
         IF s = {} THEN 0 ELSE f[CHOOSE x \in s : TRUE] + g[s \ {CHOOSE x \in s : TRUE}]]

LEMMA SumIs ==
  ASSUME NEW S, IsFiniteSet(S), NEW f, \A x \in S : f[x] \in Int
  PROVE  /\ \E g : Adding(f, S, g) /\ SumFunctionOnSet(f, S) = g[S]
         /\ SumFunctionOnSet(f, S) \in Int
<1> DEFINE C == [s \in SUBSET S |-> CHOOSE x \in s : TRUE]
           F == [p \in S \X Int |-> f[p[1]] + p[2]]
           it == CHOOSE g : Adding(f, S, g)
<1>1. SumFunctionOnSet(f, S) = it[S]
  BY DEF SumFunctionOnSet, FoldFunctionOnSet, MapThenFoldSet, Adding
<1>2. \A s \in SUBSET S : s # {} => C[s] \in s
  OBVIOUS
<1>3. PICK g : Folding(S, C, 0, F, g)
  <2> HIDE DEF C, F
  <2> QED
    BY <1>2, FoldExists DEF Foldable
<1>4. \A s \in SUBSET S : g[s] \in Int
  <2> DEFINE T == {s \in SUBSET S : g[s] \in Int}
  <2> HIDE DEF C
  <2>1. {} \in T
    BY <1>3 DEF Folding
  <2>2. ASSUME NEW s \in SUBSET S, s # {}, \A x \in s : s \ {x} \in T
        PROVE  s \in T
    <3>1. C[s] \in s /\ g[s \ {C[s]}] \in Int
      BY <1>2, <2>2
    <3>2. g[s] = F[<<C[s], g[s \ {C[s]}]>>]
      BY <1>3, <2>2 DEF Folding
    <3> QED
      BY <2>2, <3>1, <3>2
  <2> HIDE DEF T
  <2>3. SUBSET S \subseteq T
    BY <2>1, <2>2, SubsetInduction
  <2> QED
    BY <2>3 DEF T
<1>5. Adding(f, S, g)
  <2>1. ASSUME NEW s \in SUBSET S, s # {}
        PROVE  g[s] = f[C[s]] + g[s \ {C[s]}]
    <3> HIDE DEF C
    <3>1. g[s] = F[<<C[s], g[s \ {C[s]}]>>]
      BY <1>3, <2>1 DEF Folding
    <3> QED
      BY <1>2, <1>4, <2>1, <3>1
  <2>2. g = [s \in SUBSET S |-> g[s]] /\ g[{}] = 0
    BY <1>3 DEF Folding
  <2> QED
    BY <2>1, <2>2 DEF Adding
<1>6. Adding(f, S, it)
  BY <1>5
<1>7. it[S] \in Int
  <2> DEFINE T == {s \in SUBSET S : it[s] = g[s]}
  <2> HIDE DEF it
  <2>1. {} \in T
    BY <1>5, <1>6 DEF Adding
  <2>2. ASSUME NEW s \in SUBSET S, s # {}, \A x \in s : s \ {x} \in T
        PROVE  s \in T
    <3> DEFINE c == CHOOSE x \in s : TRUE
    <3>1. c \in s
      BY <2>2
    <3>2. g[s] = f[c] + g[s \ {c}]
      BY <1>5, <2>2 DEF Adding
    <3>3. it[s] = f[c] + it[s \ {c}]
      BY <1>6, <2>2 DEF Adding
    <3> HIDE DEF c
    <3>4. it[s \ {c}] = g[s \ {c}]
      BY <2>2, <3>1
    <3> QED
      BY <3>2, <3>3, <3>4
  <2> HIDE DEF T
  <2>3. SUBSET S \subseteq T
    BY <2>1, <2>2, SubsetInduction
  <2> QED
    BY <1>4, <2>3 DEF T
<1> QED
  BY <1>1, <1>6, <1>7

\* Two such functions agree where both say something.
LEMMA AddingAgree ==
  ASSUME NEW S, NEW U \in SUBSET S, IsFiniteSet(U), NEW f, NEW g, NEW h,
         Adding(f, S, g), Adding(f, U, h)
  PROVE  \A s \in SUBSET U : g[s] = h[s]
<1> DEFINE T == {s \in SUBSET U : g[s] = h[s]}
<1>1. {} \in T
  BY DEF Adding
<1>2. ASSUME NEW s \in SUBSET U, s # {}, \A x \in s : s \ {x} \in T
      PROVE  s \in T
  <2> DEFINE c == CHOOSE x \in s : TRUE
  <2>1. c \in s /\ s \in SUBSET S /\ s \in SUBSET U
    BY <1>2
  <2>2. g[s] = f[c] + g[s \ {c}]
    BY <1>2, <2>1 DEF Adding
  <2>3. h[s] = f[c] + h[s \ {c}]
    BY <1>2, <2>1 DEF Adding
  <2> HIDE DEF c
  <2>4. g[s \ {c}] = h[s \ {c}]
    BY <1>2, <2>1
  <2> QED
    BY <2>1, <2>2, <2>3, <2>4
<1> HIDE DEF T
<1>3. SUBSET U \subseteq T
  BY <1>1, <1>2, SubsetInduction
<1> QED
  BY <1>3 DEF T

LEMMA SumEmpty ==
  ASSUME NEW f
  PROVE  SumFunctionOnSet(f, {}) = 0
<1>1. PICK g : Adding(f, {}, g) /\ SumFunctionOnSet(f, {}) = g[{}]
  BY SumIs, FS_EmptySet
<1> QED
  BY <1>1 DEF Adding

LEMMA SumChosen ==
  ASSUME NEW S, IsFiniteSet(S), S # {}, NEW f, \A x \in S : f[x] \in Int
  PROVE  \E x \in S : SumFunctionOnSet(f, S) = f[x] + SumFunctionOnSet(f, S \ {x})
<1> DEFINE c == CHOOSE x \in S : TRUE
<1>1. PICK g : Adding(f, S, g) /\ SumFunctionOnSet(f, S) = g[S]
  BY SumIs
<1>2. IsFiniteSet(S \ {c})
  BY FS_Subset
<1>3. PICK h : Adding(f, S \ {c}, h) /\ SumFunctionOnSet(f, S \ {c}) = h[S \ {c}]
  <2> HIDE DEF c
  <2> QED
    BY <1>2, SumIs
<1>4. g[S \ {c}] = h[S \ {c}]
  <2> HIDE DEF c
  <2> QED
    BY <1>1, <1>2, <1>3, AddingAgree
<1>5. g[S] = f[c] + g[S \ {c}]
  BY <1>1 DEF Adding
<1> QED
  BY <1>1, <1>3, <1>4, <1>5

\* Any element may be taken out of a sum first.
LEMMA SumRemove ==
  ASSUME NEW S, IsFiniteSet(S), NEW f, \A x \in S : f[x] \in Int, NEW x \in S
  PROVE  SumFunctionOnSet(f, S) = f[x] + SumFunctionOnSet(f, S \ {x})
<1> DEFINE T == {s \in SUBSET S : \A y \in s :
                   SumFunctionOnSet(f, s) = f[y] + SumFunctionOnSet(f, s \ {y})}
<1>1. {} \in T
  OBVIOUS
<1>2. ASSUME NEW s \in SUBSET S, s # {}, \A y \in s : s \ {y} \in T
      PROVE  s \in T
  <2>1. \A t \in SUBSET S : IsFiniteSet(t) /\ \A y \in t : f[y] \in Int
    BY FS_Subset
  <2>2. PICK c \in s : SumFunctionOnSet(f, s) = f[c] + SumFunctionOnSet(f, s \ {c})
    <3>1. IsFiniteSet(s) /\ s # {} /\ \A y \in s : f[y] \in Int
      BY <1>2, <2>1
    <3> QED
      BY ONLY <3>1, SumChosen
  <2> SUFFICES ASSUME NEW y \in s, y # c
               PROVE  SumFunctionOnSet(f, s) = f[y] + SumFunctionOnSet(f, s \ {y})
    BY <2>2
  <2> DEFINE r == (s \ {c}) \ {y}
  <2>3. (s \ {y}) \ {c} = r
    OBVIOUS
  <2>4. SumFunctionOnSet(f, s \ {c}) = f[y] + SumFunctionOnSet(f, r)
    BY <1>2
  <2>5. SumFunctionOnSet(f, s \ {y}) = f[c] + SumFunctionOnSet(f, r)
    BY <1>2, <2>3
  <2>6. SumFunctionOnSet(f, r) \in Int /\ f[c] \in Int /\ f[y] \in Int
    BY <2>1, SumIs
  <2> QED
    BY <2>2, <2>4, <2>5, <2>6
<1> HIDE DEF T
<1>3. SUBSET S \subseteq T
  BY <1>1, <1>2, SubsetInduction
<1> QED
  BY <1>3 DEF T

LEMMA SumSame ==
  ASSUME NEW S, IsFiniteSet(S), NEW f, NEW g, \A x \in S : f[x] \in Int /\ f[x] = g[x]
  PROVE  SumFunctionOnSet(f, S) = SumFunctionOnSet(g, S)
<1> DEFINE T == {s \in SUBSET S : SumFunctionOnSet(f, s) = SumFunctionOnSet(g, s)}
<1>1. {} \in T
  BY SumEmpty
<1>2. ASSUME NEW s \in SUBSET S, s # {}, \A x \in s : s \ {x} \in T
      PROVE  s \in T
  <2>1. IsFiniteSet(s) /\ (\A x \in s : f[x] \in Int) /\ \A x \in s : g[x] \in Int
    BY FS_Subset
  <2>2. PICK x \in s : TRUE
    BY <1>2
  <2>3. SumFunctionOnSet(f, s) = f[x] + SumFunctionOnSet(f, s \ {x})
    BY <2>1, SumRemove
  <2>4. SumFunctionOnSet(g, s) = g[x] + SumFunctionOnSet(g, s \ {x})
    BY <2>1, SumRemove
  <2> QED
    BY <1>2, <2>3, <2>4
<1> HIDE DEF T
<1>3. SUBSET S \subseteq T
  BY <1>1, <1>2, SubsetInduction
<1> QED
  BY <1>3 DEF T

\* A sum of naturals is one, and is naught only if they all are.
LEMMA SumNat ==
  ASSUME NEW S, IsFiniteSet(S), NEW f, \A x \in S : f[x] \in Nat
  PROVE  /\ SumFunctionOnSet(f, S) \in Nat
         /\ (\A x \in S : f[x] = 0) => SumFunctionOnSet(f, S) = 0
<1> DEFINE T == {s \in SUBSET S : /\ SumFunctionOnSet(f, s) \in Nat
                                  /\ (\A x \in s : f[x] = 0) => SumFunctionOnSet(f, s) = 0}
<1>1. {} \in T
  BY SumEmpty
<1>2. ASSUME NEW s \in SUBSET S, s # {}, \A x \in s : s \ {x} \in T
      PROVE  s \in T
  <2>1. IsFiniteSet(s) /\ \A x \in s : f[x] \in Int
    BY FS_Subset
  <2>2. PICK x \in s : TRUE
    BY <1>2
  <2>3. SumFunctionOnSet(f, s) = f[x] + SumFunctionOnSet(f, s \ {x})
    BY <2>1, SumRemove
  <2> QED
    BY <1>2, <2>3
<1> HIDE DEF T
<1>3. SUBSET S \subseteq T
  BY <1>1, <1>2, SubsetInduction
<1> QED
  BY <1>3 DEF T

\* Terms that are naught may be left out.
LEMMA SumPart ==
  ASSUME NEW S, IsFiniteSet(S), NEW f, \A x \in S : f[x] \in Int,
         NEW U \in SUBSET S, \A x \in S \ U : f[x] = 0
  PROVE  SumFunctionOnSet(f, U) = SumFunctionOnSet(f, S)
<1> DEFINE T == {s \in SUBSET S : SumFunctionOnSet(f, s \cap U) = SumFunctionOnSet(f, s)}
<1>1. {} \in T
  <2>1. {} \cap U = {}
    OBVIOUS
  <2> QED
    BY <2>1
<1>2. ASSUME NEW s \in SUBSET S, s # {}, \A x \in s : s \ {x} \in T
      PROVE  s \in T
  <2>1. IsFiniteSet(s) /\ IsFiniteSet(s \cap U) /\ \A x \in s : f[x] \in Int
    BY FS_Subset
  <2>2. PICK x \in s : TRUE
    BY <1>2
  <2>3. SumFunctionOnSet(f, s) = f[x] + SumFunctionOnSet(f, s \ {x})
    BY <2>1, SumRemove
  <2>4. SumFunctionOnSet(f, (s \ {x}) \cap U) = SumFunctionOnSet(f, s \ {x})
    BY <1>2
  <2>5. CASE x \in U
    <3>1. SumFunctionOnSet(f, s \cap U) = f[x] + SumFunctionOnSet(f, (s \cap U) \ {x})
      BY <2>1, <2>5, SumRemove
    <3>2. (s \cap U) \ {x} = (s \ {x}) \cap U
      OBVIOUS
    <3> QED
      BY <2>3, <2>4, <3>1, <3>2
  <2>6. CASE x \notin U
    <3>1. s \cap U = (s \ {x}) \cap U /\ f[x] = 0
      BY <2>6
    <3>2. SumFunctionOnSet(f, s \ {x}) \in Int
      BY <2>1, SumIs, FS_Subset
    <3>3. SumFunctionOnSet(f, s) = SumFunctionOnSet(f, s \ {x})
      BY <2>3, <3>1, <3>2
    <3>4. SumFunctionOnSet(f, s \cap U) = SumFunctionOnSet(f, s)
      BY <2>4, <3>1, <3>3
    <3> QED
      BY <3>4
  <2> QED
    BY <2>5, <2>6
<1> HIDE DEF T
<1>3. S \in T
  BY <1>1, <1>2, SubsetInduction
<1>4. S \cap U = U
  OBVIOUS
<1> QED
  BY <1>3, <1>4 DEF T

\* Two sums whose terms differ at one place.
LEMMA SumOne ==
  ASSUME NEW S, IsFiniteSet(S), NEW f, NEW g, \A z \in S : f[z] \in Int /\ g[z] \in Int,
         NEW x \in S, \A z \in S \ {x} : f[z] = g[z]
  PROVE  SumFunctionOnSet(g, S) = SumFunctionOnSet(f, S) - f[x] + g[x]
<1> DEFINE R == S \ {x}
<1>1. IsFiniteSet(R)
  BY FS_Subset
<1>2. SumFunctionOnSet(f, R) = SumFunctionOnSet(g, R) /\ SumFunctionOnSet(f, R) \in Int
  <2> HIDE DEF R
  <2>1. \A z \in R : f[z] \in Int /\ f[z] = g[z]
    BY DEF R
  <2> QED
    BY <1>1, <2>1, SumSame, SumIs
<1>3. SumFunctionOnSet(f, S) = f[x] + SumFunctionOnSet(f, R)
  BY SumRemove
<1>4. SumFunctionOnSet(g, S) = g[x] + SumFunctionOnSet(g, R)
  BY SumRemove
<1> HIDE DEF R
<1> QED
  BY <1>2, <1>3, <1>4

\* The sum of two is what their sums add up to.
LEMMA SumBoth ==
  ASSUME NEW S, IsFiniteSet(S), NEW f, NEW g, NEW h,
         \A x \in S : f[x] \in Int /\ g[x] \in Int /\ h[x] = f[x] + g[x]
  PROVE  SumFunctionOnSet(h, S) = SumFunctionOnSet(f, S) + SumFunctionOnSet(g, S)
<1> DEFINE T == {s \in SUBSET S : SumFunctionOnSet(h, s)
                                    = SumFunctionOnSet(f, s) + SumFunctionOnSet(g, s)}
<1>1. {} \in T
  BY SumEmpty
<1>2. ASSUME NEW s \in SUBSET S, s # {}, \A x \in s : s \ {x} \in T
      PROVE  s \in T
  <2>1. IsFiniteSet(s) /\ \A x \in s : f[x] \in Int /\ g[x] \in Int /\ h[x] \in Int
    BY FS_Subset
  <2>2. PICK x \in s : TRUE
    BY <1>2
  <2> DEFINE r == s \ {x}
  <2>3. IsFiniteSet(r) /\ (\A y \in r : f[y] \in Int) /\ \A y \in r : g[y] \in Int
    BY <2>1, FS_Subset
  <2>4. SumFunctionOnSet(f, s) = f[x] + SumFunctionOnSet(f, r)
    BY <2>1, SumRemove
  <2>5. SumFunctionOnSet(g, s) = g[x] + SumFunctionOnSet(g, r)
    BY <2>1, SumRemove
  <2>6. SumFunctionOnSet(h, s) = h[x] + SumFunctionOnSet(h, r)
    BY <2>1, SumRemove
  <2>7. SumFunctionOnSet(h, r) = SumFunctionOnSet(f, r) + SumFunctionOnSet(g, r)
    BY <1>2
  <2> HIDE DEF r
  <2>8. SumFunctionOnSet(f, r) \in Int /\ SumFunctionOnSet(g, r) \in Int
    BY <2>3, SumIs
  <2>9. f[x] \in Int /\ g[x] \in Int /\ h[x] = f[x] + g[x]
    OBVIOUS
  <2> QED
    BY <2>4, <2>5, <2>6, <2>7, <2>8, <2>9
<1> HIDE DEF T
<1>3. SUBSET S \subseteq T
  BY <1>1, <1>2, SubsetInduction
<1> QED
  BY <1>3 DEF T

\* As often the same.
LEMMA SumConstant ==
  ASSUME NEW S, IsFiniteSet(S), NEW n \in Int, NEW f, \A x \in S : f[x] = n
  PROVE  SumFunctionOnSet(f, S) = n * Cardinality(S)
<1> DEFINE T == {s \in SUBSET S : SumFunctionOnSet(f, s) = n * Cardinality(s)}
<1>1. {} \in T
  <2>1. n * 0 = 0
    OBVIOUS
  <2> QED
    BY <2>1, SumEmpty, FS_EmptySet
<1>2. ASSUME NEW s \in SUBSET S, s # {}, \A x \in s : s \ {x} \in T
      PROVE  s \in T
  <2>1. IsFiniteSet(s) /\ \A x \in s : f[x] \in Int
    BY FS_Subset
  <2>2. PICK x \in s : TRUE
    BY <1>2
  <2>3. SumFunctionOnSet(f, s) = n + SumFunctionOnSet(f, s \ {x})
    BY <2>1, SumRemove
  <2>4. SumFunctionOnSet(f, s \ {x}) = n * Cardinality(s \ {x})
    BY <1>2
  <2>5. Cardinality(s) \in Nat /\ Cardinality(s \ {x}) = Cardinality(s) - 1
    BY Smaller
  <2> DEFINE c == Cardinality(s)
  <2> HIDE DEF c
  <2>6. n * c = n + n * (c - 1)
    <3>1. c \in Int
      BY <2>5 DEF c
    <3> QED
      BY ONLY <3>1, n \in Int, SMT
  <2> QED
    BY <2>3, <2>4, <2>5, <2>6 DEF c
<1> HIDE DEF T
<1>3. S \in T
  BY <1>1, <1>2, SubsetInduction
<1> QED
  BY <1>3 DEF T

\* The shares of a pot are the pot.
LEMMA SharesAre ==
  ASSUME NEW pot \in Nat, NEW sharers \in SUBSET Players, NEW p \in sharers
  PROVE  /\ \A m \in Players : Share(pot, sharers, p, m) \in Nat
         /\ SumFunctionOnSet([m \in Players |-> Share(pot, sharers, p, m)], Players) = pot
<1> DEFINE c == Cardinality(sharers)
           base == pot \div c
           rest == base * (c - 1)
           due == [m \in Players |-> Share(pot, sharers, p, m)]
<1>0. IsFiniteSet(Players) /\ IsFiniteSet(sharers) /\ IsFiniteSet(sharers \ {p})
  BY BoundsType, FS_Subset
<1>1. c \in Nat \ {0} /\ Cardinality(sharers \ {p}) = c - 1
  BY <1>0, Smaller
<1>2. \A m \in Players : due[m] = IF m \notin sharers THEN 0
                                  ELSE IF m = p THEN pot - rest ELSE base
  BY DEF Share
<1> HIDE DEF due, c
<1>3. base \in Nat /\ rest \in Nat /\ pot - rest \in Nat
  <2> DEFINE x == pot % c
  <2>1. base \in Nat /\ pot = base * c + x /\ x \in Nat
    BY <1>1, DivNat
  <2> HIDE DEF base, x
  <2>2. base * c = rest + base /\ rest \in Nat
    BY ONLY <1>1, <2>1, SMT
  <2> HIDE DEF rest
  <2> DEFINE y == base * c
  <2>3. pot = y + x /\ y = rest + base
    BY <2>1, <2>2
  <2> HIDE DEF y
  <2>4. pot - rest \in Nat
    BY ONLY <2>1, <2>2, <2>3, pot \in Nat
  <2> QED
    BY <2>1, <2>2, <2>4
<1> HIDE DEF base
<1>4. \A m \in Players : due[m] \in Nat
  BY <1>2, <1>3
<1>5. SumFunctionOnSet(due, Players) = SumFunctionOnSet(due, sharers)
  <2>1. (\A m \in Players : due[m] \in Int) /\ \A m \in Players \ sharers : due[m] = 0
    BY <1>2, <1>4
  <2> QED
    BY <1>0, <2>1, SumPart
<1>6. SumFunctionOnSet(due, sharers) = due[p] + SumFunctionOnSet(due, sharers \ {p})
  <2>1. \A m \in sharers : due[m] \in Int
    BY <1>4
  <2> QED
    BY <1>0, <2>1, SumRemove
<1>7. SumFunctionOnSet(due, sharers \ {p}) = base * Cardinality(sharers \ {p})
  <2>1. \A m \in sharers \ {p} : due[m] = base
    BY <1>2
  <2> DEFINE S == sharers \ {p}
  <2> HIDE DEF S
  <2>2. IsFiniteSet(S) /\ (\A m \in S : due[m] = base) /\ base \in Int
    BY <1>0, <1>3, <2>1 DEF S
  <2>3. SumFunctionOnSet(due, S) = base * Cardinality(S)
    BY <2>2, SumConstant
  <2> QED
    BY <2>3 DEF S
<1>8. SumFunctionOnSet(due, sharers \ {p}) = rest
  BY <1>1, <1>7
<1>9. due[p] = pot - rest
  BY <1>2
<1> HIDE DEF rest
<1>10. SumFunctionOnSet(due, Players) = pot
  BY <1>3, <1>5, <1>6, <1>8, <1>9
<1> QED
  BY <1>4, <1>10 DEF due

-----------------------------------------------------------------------------
(* The tiers *)

K == Len(TIER_VALUE)

LEMMA TiersAre ==
  /\ K \in Nat \ {0} /\ Tiers = 1 .. K
  /\ \A i \in 1 .. K : TIER_VALUE[i] \in Nat \ {0}
  /\ TIER_VALUE[1] = 1
  /\ \A i \in 1 .. K : i + 1 \in 1 .. K => Divides(TIER_VALUE[i], TIER_VALUE[i + 1])
<1>1. K \in Nat \ {0} /\ Tiers = 1 .. K
  BY ValuesType DEF Tiers, K
<1>2. \A i \in 1 .. K : TIER_VALUE[i] \in Nat \ {0}
  BY ValuesType, <1>1 DEF Tiers
<1>3. \A i \in 1 .. K : i + 1 \in 1 .. K => TIER_VALUE[i + 1] % TIER_VALUE[i] = 0
  BY ValuesType, <1>1
<1>4. \A i \in 1 .. K : i + 1 \in 1 .. K => Divides(TIER_VALUE[i], TIER_VALUE[i + 1])
  BY <1>2, <1>3, DividesMod
<1> QED
  BY <1>1, <1>2, <1>4, ValuesType

LEMMA TiersDivide ==
  ASSUME NEW i \in 1 .. K, NEW j \in 1 .. K, i <= j
  PROVE  Divides(TIER_VALUE[i], TIER_VALUE[j])
<1> DEFINE T == {n \in Nat : i + n \in 1 .. K => Divides(TIER_VALUE[i], TIER_VALUE[i + n])}
<1>0. K \in Nat
  BY TiersAre
<1>1. 0 \in T
  <2>1. TIER_VALUE[i] = 1 * TIER_VALUE[i]
    BY TiersAre
  <2> QED
    BY <2>1 DEF Divides
<1>2. ASSUME NEW n \in Nat, n \in T
      PROVE  n + 1 \in T
  <2> SUFFICES ASSUME i + (n + 1) \in 1 .. K
               PROVE  Divides(TIER_VALUE[i], TIER_VALUE[i + (n + 1)])
    OBVIOUS
  <2> DEFINE k == i + n
  <2>1. k \in 1 .. K /\ k + 1 \in 1 .. K /\ i + (n + 1) = k + 1
    BY <1>0
  <2>2. Divides(TIER_VALUE[i], TIER_VALUE[k])
    BY <1>2, <2>1
  <2> HIDE DEF k
  <2>3. Divides(TIER_VALUE[k], TIER_VALUE[k + 1])
    BY <2>1, TiersAre
  <2>4. TIER_VALUE[i] \in Nat /\ TIER_VALUE[k] \in Nat /\ TIER_VALUE[k + 1] \in Nat
    BY <2>1, TiersAre
  <2> QED
    BY <2>1, <2>2, <2>3, <2>4, DividesTrans
<1> HIDE DEF T
<1>3. Nat \subseteq T
  BY <1>1, <1>2, Induction
<1>4. j - i \in T /\ i + (j - i) = j
  BY <1>0, <1>3
<1> QED
  BY <1>4 DEF T

-----------------------------------------------------------------------------
(* What purses are worth *)

Adds(n, w, f) ==
  f = [j \in 0 .. n |-> IF j = 0 THEN 0 ELSE f[j - 1] + w[j] * TIER_VALUE[j]]

LEMMA AddsExists ==
  ASSUME NEW w
  PROVE  \E f : Adds(K, w, f)
<1> DEFINE T == {n \in Nat : \E f : Adds(n, w, f)}
<1>1. 0 \in T
  <2> DEFINE f == [j \in 0 .. 0 |-> 0]
  <2>1. Adds(0, w, f)
    BY DEF Adds
  <2> QED
    BY <2>1
<1>2. ASSUME NEW n \in Nat, n \in T
      PROVE  n + 1 \in T
  <2>1. PICK f : Adds(n, w, f)
    BY <1>2
  <2> DEFINE h == [j \in 0 .. n + 1 |-> IF j = 0 THEN 0 ELSE f[j - 1] + w[j] * TIER_VALUE[j]]
  <2>2. \A j \in 0 .. n : h[j] = f[j]
    BY <2>1 DEF Adds
  <2>3. Adds(n + 1, w, h)
    <3>1. \A j \in 0 .. n + 1 : j # 0 => j - 1 \in 0 .. n
      OBVIOUS
    <3> QED
      BY <2>2, <3>1 DEF Adds
  <2> QED
    BY <2>3
<1> HIDE DEF T
<1>3. Nat \subseteq T
  BY <1>1, <1>2, Induction
<1> QED
  BY <1>3, TiersAre DEF T

\* The sum, tier by tier.
LEMMA UptoIs ==
  ASSUME NEW w
  PROVE  /\ Upto(w, 0) = 0
         /\ \A i \in 1 .. K : Upto(w, i) = Upto(w, i - 1) + w[i] * TIER_VALUE[i]
<1> DEFINE f == CHOOSE f : Adds(K, w, f)
<1>1. Adds(K, w, f)
  BY AddsExists
<1>2. \A i : Upto(w, i) = f[i]
  BY DEF Upto, Adds, K
<1> HIDE DEF f
<1>3. K \in Nat
  BY TiersAre
<1>4. \A j \in 0 .. K : f[j] = IF j = 0 THEN 0 ELSE f[j - 1] + w[j] * TIER_VALUE[j]
  BY <1>1 DEF Adds
<1>5. f[0] = 0
  BY <1>3, <1>4
<1>6. ASSUME NEW i \in 1 .. K
      PROVE  f[i] = f[i - 1] + w[i] * TIER_VALUE[i]
  <2>1. i \in 0 .. K /\ i # 0
    BY <1>3
  <2> QED
    BY <1>4, <2>1
<1> QED
  BY <1>2, <1>5, <1>6

\* Induction over the tiers.
LEMMA TierInduction ==
  ASSUME NEW T, 0 \in T, \A i \in 1 .. K : i - 1 \in T => i \in T
  PROVE  0 .. K \subseteq T
<1> DEFINE S == {n \in Nat : n \in 0 .. K => n \in T}
<1>1. 0 \in S
  OBVIOUS
<1>2. ASSUME NEW n \in Nat, n \in S
      PROVE  n + 1 \in S
  <2>1. K \in Nat
    BY TiersAre
  <2>2. n + 1 \in 0 .. K => n + 1 \in 1 .. K /\ (n + 1) - 1 = n /\ n \in 0 .. K
    BY <2>1
  <2> QED
    BY <1>2, <2>2
<1> HIDE DEF S
<1>3. Nat \subseteq S
  BY <1>1, <1>2, Induction
<1>4. K \in Nat
  BY TiersAre
<1> QED
  BY <1>3, <1>4 DEF S

LEMMA UptoNat ==
  ASSUME NEW w \in Purse
  PROVE  /\ \A i \in 0 .. K : Upto(w, i) \in Nat
         /\ \A i \in 1 .. K : w[i] \in Nat /\ w[i] * TIER_VALUE[i] \in Nat
<1> DEFINE T == {i \in 0 .. K : Upto(w, i) \in Nat}
<1>0. K \in Nat
  BY TiersAre
<1>1. ASSUME NEW i \in 1 .. K
      PROVE  w[i] \in Nat /\ w[i] * TIER_VALUE[i] \in Nat
  <2>1. w[i] \in Nat /\ TIER_VALUE[i] \in Nat
    BY TiersAre DEF Purse
  <2> QED
    BY ONLY <2>1, SMT
<1>2. 0 \in T
  BY UptoIs, <1>0
<1>3. ASSUME NEW i \in 1 .. K, i - 1 \in T
      PROVE  i \in T
  <2> DEFINE x == w[i] * TIER_VALUE[i]
  <2>1. x \in Nat /\ Upto(w, i) = Upto(w, i - 1) + x
    BY UptoIs, <1>1
  <2> HIDE DEF x
  <2> QED
    BY <1>0, <1>3, <2>1
<1> HIDE DEF T
<1>4. 0 .. K \subseteq T
  BY <1>2, <1>3, TierInduction
<1> QED
  BY <1>1, <1>4 DEF T

LEMMA UptoMore ==
  ASSUME NEW w \in Purse, NEW i \in 0 .. K, NEW j \in 0 .. K, i <= j
  PROVE  Upto(w, i) <= Upto(w, j)
<1> DEFINE T == {k \in 0 .. K : i <= k => Upto(w, i) <= Upto(w, k)}
<1>0. K \in Nat
  BY TiersAre
<1>1. 0 \in T
  BY <1>0, UptoNat
<1>2. ASSUME NEW k \in 1 .. K, k - 1 \in T
      PROVE  k \in T
  <2>1. /\ Upto(w, k) = Upto(w, k - 1) + w[k] * TIER_VALUE[k]
        /\ w[k] * TIER_VALUE[k] \in Nat
        /\ Upto(w, k) \in Nat /\ Upto(w, k - 1) \in Nat /\ Upto(w, i) \in Nat
        /\ k \in 0 .. K
    <3>1. k - 1 \in 0 .. K /\ k \in 0 .. K
      BY <1>0
    <3> QED
      BY UptoIs, UptoNat, <3>1
  <2> DEFINE x == w[k] * TIER_VALUE[k]
  <2> HIDE DEF x
  <2>2. Upto(w, k - 1) <= Upto(w, k)
    <3>1. x \in Nat /\ Upto(w, k) = Upto(w, k - 1) + x
      BY <2>1 DEF x
    <3> QED
      BY <2>1, <3>1
  <2>3. CASE i = k
    BY <2>1, <2>3
  <2>4. CASE i # k
    BY <1>0, <1>2, <2>1, <2>2, <2>4
  <2> QED
    BY <2>3, <2>4
<1> HIDE DEF T
<1>3. 0 .. K \subseteq T
  BY <1>1, <1>2, TierInduction
<1> QED
  BY <1>3 DEF T

\* Only the tiers that are added up matter.
LEMMA UptoSame ==
  ASSUME NEW v, NEW w, NEW i \in 0 .. K, \A j \in 1 .. i : v[j] = w[j]
  PROVE  Upto(v, i) = Upto(w, i)
<1> DEFINE T == {k \in 0 .. K : k <= i => Upto(v, k) = Upto(w, k)}
<1>0. K \in Nat
  BY TiersAre
<1>1. 0 \in T
  BY UptoIs, <1>0
<1>2. ASSUME NEW k \in 1 .. K, k - 1 \in T
      PROVE  k \in T
  <2> SUFFICES ASSUME k <= i
               PROVE  Upto(v, k) = Upto(w, k)
    BY <1>0
  <2>1. Upto(v, k - 1) = Upto(w, k - 1) /\ v[k] = w[k]
    BY <1>0, <1>2
  <2> QED
    BY <2>1, UptoIs
<1> HIDE DEF T
<1>3. 0 .. K \subseteq T
  BY <1>1, <1>2, TierInduction
<1> QED
  BY <1>3 DEF T

\* Purses that agree above a tier differ by what they differ up to it.
LEMMA UptoRest ==
  ASSUME NEW v \in Purse, NEW w \in Purse, NEW i \in 0 .. K,
         \A j \in 1 .. K : j > i => v[j] = w[j]
  PROVE  Worth(v) - Worth(w) = Upto(v, i) - Upto(w, i)
<1> DEFINE T == {k \in 0 .. K : i <= k => Upto(v, k) - Upto(w, k) = Upto(v, i) - Upto(w, i)}
<1>0. K \in Nat
  BY TiersAre
<1>1. 0 \in T
  BY <1>0
<1>2. ASSUME NEW k \in 1 .. K, k - 1 \in T
      PROVE  k \in T
  <2>0. k - 1 \in 0 .. K /\ k \in 0 .. K
    BY <1>0
  <2>1. CASE i < k
    <3> DEFINE x == w[k] * TIER_VALUE[k]
    <3>1. v[k] * TIER_VALUE[k] = x /\ x \in Nat
      BY <1>0, <2>1, UptoNat
    <3> HIDE DEF x
    <3>2. Upto(v, k) = Upto(v, k - 1) + x /\ Upto(w, k) = Upto(w, k - 1) + x
      BY <3>1, UptoIs DEF x
    <3>3. Upto(v, k - 1) \in Nat /\ Upto(w, k - 1) \in Nat /\ Upto(v, i) \in Nat /\ Upto(w, i) \in Nat
      BY <2>0, UptoNat
    <3>4. Upto(v, k - 1) - Upto(w, k - 1) = Upto(v, i) - Upto(w, i)
      BY <1>0, <1>2, <2>1
    <3> QED
      BY <2>0, <3>1, <3>2, <3>3, <3>4
  <2>2. CASE i = k
    BY <2>0, <2>2
  <2>3. CASE i > k
    BY <2>0, <2>3
  <2> QED
    BY <1>0, <2>1, <2>2, <2>3
<1> HIDE DEF T
<1>3. 0 .. K \subseteq T
  BY <1>1, <1>2, TierInduction
<1> QED
  BY <1>0, <1>3 DEF T, Worth, K

LEMMA WorthNat ==
  ASSUME NEW w \in Purse
  PROVE  Worth(w) \in Nat /\ Worth(w) = Upto(w, K)
<1>1. K \in 0 .. K
  BY TiersAre
<1> QED
  BY <1>1, UptoNat DEF Worth, K

LEMMA UptoAdd ==
  ASSUME NEW v \in Purse, NEW w \in Purse, NEW i \in 0 .. K
  PROVE  Upto(add_each(v, w), i) = Upto(v, i) + Upto(w, i)
<1> DEFINE a == add_each(v, w)
           T == {k \in 0 .. K : Upto(a, k) = Upto(v, k) + Upto(w, k)}
<1>0. K \in Nat
  BY TiersAre
<1>1. 0 \in T
  BY UptoIs, <1>0
<1>2. ASSUME NEW k \in 1 .. K, k - 1 \in T
      PROVE  k \in T
  <2>0. k - 1 \in 0 .. K /\ k \in 0 .. K
    BY <1>0
  <2> DEFINE x == v[k] * TIER_VALUE[k]
             y == w[k] * TIER_VALUE[k]
             z == a[k] * TIER_VALUE[k]
  <2>1. z = x + y /\ x \in Nat /\ y \in Nat
    <3>1. a[k] = v[k] + w[k]
      BY TiersAre DEF add_each
    <3>2. v[k] \in Nat /\ w[k] \in Nat /\ TIER_VALUE[k] \in Nat
      BY UptoNat, TiersAre
    <3>3. (v[k] + w[k]) * TIER_VALUE[k] = x + y
      BY <3>2, Times
    <3> QED
      BY <3>1, <3>3, UptoNat
  <2> HIDE DEF a
  <2>2. /\ Upto(v, k) = Upto(v, k - 1) + x
        /\ Upto(w, k) = Upto(w, k - 1) + y
        /\ Upto(a, k) = Upto(a, k - 1) + z
    BY UptoIs
  <2> HIDE DEF x, y, z
  <2>3. Upto(v, k - 1) \in Nat /\ Upto(w, k - 1) \in Nat
    BY <2>0, UptoNat
  <2> QED
    BY <1>2, <2>0, <2>1, <2>2, <2>3
<1> HIDE DEF T
<1>3. 0 .. K \subseteq T
  BY <1>1, <1>2, TierInduction
<1> QED
  BY <1>3 DEF T

LEMMA AddPurse ==
  ASSUME NEW v \in Purse, NEW w \in Purse
  PROVE  add_each(v, w) \in Purse /\ Worth(add_each(v, w)) = Worth(v) + Worth(w)
<1>1. add_each(v, w) \in Purse
  BY DEF Purse, add_each
<1>2. K \in 0 .. K
  BY TiersAre
<1> QED
  BY <1>1, <1>2, UptoAdd, WorthNat

LEMMA ZeroPurse == ZERO \in Purse /\ Worth(ZERO) = 0
<1> DEFINE T == {k \in 0 .. K : Upto(ZERO, k) = 0}
<1>0. K \in Nat /\ K \in 0 .. K
  BY TiersAre
<1>1. 0 \in T
  BY UptoIs, <1>0
<1>2. ASSUME NEW k \in 1 .. K, k - 1 \in T
      PROVE  k \in T
  <2>1. ZERO[k] = 0 /\ TIER_VALUE[k] \in Nat
    BY TiersAre DEF ZERO
  <2>2. ZERO[k] * TIER_VALUE[k] = 0
    BY <2>1
  <2> QED
    BY <1>0, <1>2, <2>2, UptoIs
<1>3. ZERO \in Purse
  BY DEF ZERO, Purse
<1> HIDE DEF T
<1>4. 0 .. K \subseteq T
  BY <1>1, <1>2, TierInduction
<1> QED
  BY <1>0, <1>3, <1>4, WorthNat DEF T

\* Changed into the fewest coins an amount stays what it is.
LEMMA FromCopper ==
  ASSUME NEW n \in Nat
  PROVE  /\ from_copper(n) \in Purse
         /\ \A i \in 1 .. K : Upto(from_copper(n), i - 1) = n % TIER_VALUE[i]
         /\ Worth(from_copper(n)) = n
<1> DEFINE w == from_copper(n)
           T == {i \in 0 .. K : i + 1 \in 1 .. K => Upto(w, i) = n % TIER_VALUE[i + 1]}
<1>0. K \in Nat \ {0} /\ Tiers = 1 .. K
  BY TiersAre
<1>1. \A i \in 1 .. K : w[i] = Fewest(n, i)
  BY <1>0 DEF from_copper
<1>2. ASSUME NEW i \in 1 .. K
      PROVE  Fewest(n, i) \in Nat
  <2>1. CASE i + 1 \in Tiers
    <3> DEFINE m == n % TIER_VALUE[i + 1]
    <3>1. m \in Nat
      BY <2>1, <1>0, TiersAre, DivNat
    <3>2. Fewest(n, i) = m \div TIER_VALUE[i]
      BY <2>1 DEF Fewest
    <3> HIDE DEF m
    <3> QED
      BY <3>1, <3>2, TiersAre, DivNat
  <2>2. CASE i + 1 \notin Tiers
    BY <2>2, TiersAre, DivNat DEF Fewest
  <2> QED
    BY <2>1, <2>2
<1>3. w \in Purse
  BY <1>0, <1>2 DEF from_copper, Purse
<1>4. 0 \in T
  <2>1. n % 1 = 0
    BY SMT
  <2> QED
    BY <1>0, <2>1, UptoIs, TiersAre
<1>5. ASSUME NEW i \in 1 .. K, i - 1 \in T
      PROVE  /\ Upto(w, i) = IF i + 1 \in 1 .. K THEN n % TIER_VALUE[i + 1] ELSE n
  <2> DEFINE t == TIER_VALUE[i]
             m == IF i + 1 \in 1 .. K THEN n % TIER_VALUE[i + 1] ELSE n
  <2>1. t \in Nat \ {0} /\ m \in Nat
    BY TiersAre, DivNat
  <2>2. m % t = n % t
    <3>1. CASE i + 1 \in 1 .. K
      <4>1. Divides(t, TIER_VALUE[i + 1]) /\ TIER_VALUE[i + 1] \in Nat \ {0}
        BY <3>1, TiersAre
      <4> QED
        BY <2>1, <3>1, <4>1, DividesRest
    <3> QED
      BY <3>1
  <2>3. w[i] = m \div t
    BY <1>0, <1>1 DEF Fewest
  <2>4. Upto(w, i - 1) = n % t
    <3>1. (i - 1) + 1 = i
      BY <1>0
    <3> QED
      BY <1>5, <3>1
  <2>5. Upto(w, i) = Upto(w, i - 1) + w[i] * t
    BY UptoIs
  <2> HIDE DEF m, t, w
  <2> DEFINE q == m \div t
             r == m % t
  <2>6. m = q * t + r /\ q \in Nat /\ r \in Nat
    BY <2>1, DivNat
  <2>7. Upto(w, i) = r + q * t
    BY <2>2, <2>3, <2>4, <2>5
  <2> HIDE DEF q, r
  <2>8. Upto(w, i) = m
    BY <2>1, <2>6, <2>7, SMT
  <2> QED
    BY <2>8 DEF m
<1>6. \A i \in 1 .. K : i - 1 \in T => i \in T
  BY <1>0, <1>5
<1>7. 0 .. K \subseteq T
  <2> HIDE DEF T
  <2> QED
    BY <1>4, <1>6, TierInduction
<1>8. \A i \in 1 .. K : Upto(w, i - 1) = n % TIER_VALUE[i]
  <2> SUFFICES ASSUME NEW i \in 1 .. K
               PROVE  Upto(w, i - 1) = n % TIER_VALUE[i]
    OBVIOUS
  <2>1. i - 1 \in T /\ (i - 1) + 1 = i
    BY <1>0, <1>7
  <2> QED
    BY <2>1
<1>9. Upto(w, K) = n
  <2>1. K \in 1 .. K /\ K - 1 \in T /\ ~ (K + 1 \in 1 .. K)
    BY <1>0, <1>7
  <2> HIDE DEF T
  <2> QED
    BY <1>5, <2>1
<1> HIDE DEF w, T
<1>10. Worth(w) = n
  BY <1>3, <1>9, WorthNat
<1> QED
  BY <1>3, <1>8, <1>10 DEF w

LEMMA PayoutPurse ==
  ASSUME NEW w \in Purse, NEW n \in Nat
  PROVE  add_payout(w, n) \in Purse /\ Worth(add_payout(w, n)) = Worth(w) + n
BY AddPurse, FromCopper DEF add_payout

\* What a purse is worth with one of its tiers changed.
LEMMA WorthOne ==
  ASSUME NEW w \in Purse, NEW i \in Tiers, NEW n \in Nat
  PROVE  LET v == [w EXCEPT ![i] = n] IN
         /\ v \in Purse
         /\ Worth(v) = Worth(w) + n * TIER_VALUE[i] - w[i] * TIER_VALUE[i]
<1> DEFINE v == [w EXCEPT ![i] = n]
           x == n * TIER_VALUE[i]
           y == w[i] * TIER_VALUE[i]
<1>0. K \in Nat /\ i \in 1 .. K /\ Tiers = 1 .. K
  BY TiersAre
<1>1. v \in Purse /\ v[i] = n /\ \A j \in Tiers : j # i => v[j] = w[j]
  BY DEF Purse
<1> HIDE DEF v
<1>2. i - 1 \in 0 .. K /\ i \in 0 .. K /\ (\A j \in 1 .. i - 1 : j \in Tiers /\ j # i)
  BY <1>0
<1>3. Upto(v, i - 1) = Upto(w, i - 1)
  BY <1>1, <1>2, UptoSame
<1>4. Worth(v) - Worth(w) = Upto(v, i) - Upto(w, i)
  BY <1>0, <1>1, <1>2, UptoRest
<1>5. Upto(v, i) = Upto(v, i - 1) + x /\ Upto(w, i) = Upto(w, i - 1) + y
  BY <1>0, <1>1, UptoIs
<1>6. x \in Nat /\ y \in Nat
  BY <1>0, <1>1, UptoNat
<1> HIDE DEF x, y
<1>7. Worth(v) \in Nat /\ Worth(w) \in Nat /\ Upto(w, i - 1) \in Nat
  BY <1>1, <1>2, UptoNat, WorthNat
<1>8. Worth(v) = Worth(w) + x - y
  BY <1>3, <1>4, <1>5, <1>6, <1>7
<1> QED
  BY <1>1, <1>8 DEF v, x, y

-----------------------------------------------------------------------------
(* Changing coins *)

\* What does not make a coin of the one tier is whole coins of the other.
LEMMA RestWhole ==
  ASSUME NEW i \in 1 .. K, NEW j \in 1 .. K, NEW n \in Nat
  PROVE  LET value == n * TIER_VALUE[i]
             made == value \div TIER_VALUE[j]
             rest == (value % TIER_VALUE[j]) \div TIER_VALUE[i]
         IN /\ made \in Nat /\ rest \in 0 .. n
            /\ (n - rest) * TIER_VALUE[i] = made * TIER_VALUE[j]
<1> DEFINE s == TIER_VALUE[i]
           t == TIER_VALUE[j]
           value == n * s
           made == value \div t
           left == value % t
           rest == left \div s
<1>1. s \in Nat \ {0} /\ t \in Nat \ {0} /\ K \in Nat
  BY TiersAre
<1>2. Divides(s, t) \/ Divides(t, s)
  <2>1. i <= j \/ j <= i
    BY <1>1
  <2> QED
    BY <2>1, TiersDivide
<1> HIDE DEF s, t
<1>3. value \in Nat
  BY <1>1, SMT
<1>4. made \in Nat /\ left \in Nat /\ left < t /\ value = made * t + left
  <2> HIDE DEF value
  <2> QED
    BY <1>1, <1>3, DivNat
<1>5. \E b \in Nat : left = s * b
  <2>1. CASE Divides(s, t)
    <3>1. PICK q \in Nat : t = q * s
      BY <2>1 DEF Divides
    <3> HIDE DEF made, left
    <3>2. left = s * (n - made * q) /\ n - made * q \in Int
      <4>1. made * t = (made * q) * s /\ made * q \in Int
        BY <1>4, <1>1, <3>1, TimesTwice
      <4> DEFINE m == made * q
      <4> HIDE DEF m
      <4>2. m \in Int /\ n * s = m * s + left
        BY <1>4, <4>1 DEF m
      <4>3. left = s * (n - m)
        BY <1>1, <1>4, <4>2, SMT
      <4> QED
        BY <4>2, <4>3 DEF m
    <3> DEFINE b == n - made * q
    <3> HIDE DEF b
    <3>3. b \in Int /\ left = s * b
      BY <3>2 DEF b
    <3>4. b \in Nat
      BY <1>1, <1>4, <3>3, SMT
    <3> QED
      BY <3>3, <3>4
  <2>2. CASE Divides(t, s)
    <3>1. PICK q \in Nat : s = q * t
      BY <2>2 DEF Divides
    <3>2. value = t * (n * q) + 0 /\ n * q \in Int
      <4>1. (n * q) * t = n * (q * t) /\ n * q \in Int
        BY <1>1, TimesTwice
      <4>2. (n * q) * t = t * (n * q)
        BY <1>1, <4>1, TimesTwice
      <4> QED
        BY <1>1, <1>3, <3>1, <4>1, <4>2
    <3> DEFINE a == n * q
    <3> HIDE DEF value, a
    <3>3. value % t = 0
      <4>1. a \in Int /\ value = t * a + 0 /\ 0 \in Nat /\ 0 < t
        BY <1>1, <3>2 DEF a
      <4> QED
        BY <1>1, <1>3, <4>1, DivIs
    <3>4. left = s * 0
      BY <1>1, <3>3
    <3> QED
      BY <3>4
  <2> QED
    BY <1>2, <2>1, <2>2
<1> HIDE DEF made, left
<1>6. PICK b \in Nat : left = s * b
  BY <1>5
<1>7. rest = b
  <2>1. left = s * b + 0 /\ 0 \in Nat /\ 0 < s
    BY <1>1, <1>6, <1>4
  <2> QED
    BY <1>1, <1>4, <2>1, DivIs
<1> HIDE DEF rest
<1> DEFINE m == made * t
<1>8. m \in Nat
  BY <1>1, <1>4, SMT
<1> HIDE DEF m
<1>9. n * s = m + s * b
  BY <1>4, <1>6 DEF m
<1>10. (n - b) * s = m
  BY <1>1, <1>8, <1>9, SMT
<1>11. b <= n
  BY <1>1, <1>8, <1>9, SMT
<1>12. made \in Nat /\ rest \in 0 .. n /\ (n - rest) * s = made * t
  BY <1>4, <1>7, <1>10, <1>11 DEF m
<1> QED
  BY <1>12 DEF made, rest, left, s, t

LEMMA ExchangedSame ==
  ASSUME NEW w \in Purse, NEW i \in Tiers, NEW j \in Tiers, i # j, NEW n \in 1 .. w[i]
  PROVE  Exchanged(w, i, j, n) \in Purse /\ Worth(Exchanged(w, i, j, n)) = Worth(w)
<1> DEFINE s == TIER_VALUE[i]
           t == TIER_VALUE[j]
           made == (n * s) \div t
           rest == ((n * s) % t) \div s
           less == w[i] - (n - rest)
           more == w[j] + made
           v == [w EXCEPT ![i] = less]
           u == [v EXCEPT ![j] = more]
<1>0. K \in Nat /\ i \in 1 .. K /\ j \in 1 .. K /\ s \in Nat /\ t \in Nat
  BY TiersAre
<1>1. w[i] \in Nat /\ w[j] \in Nat /\ n \in Nat /\ n <= w[i]
  BY DEF Purse
<1>2. made \in Nat /\ rest \in 0 .. n /\ (n - rest) * s = made * t
  BY <1>0, <1>1, RestWhole
<1>3. Exchanged(w, i, j, n) = u
  <2>1. v[j] = w[j]
    BY DEF Purse
  <2> QED
    BY <2>1 DEF Exchanged, Purse
<1> HIDE DEF made, rest, s, t
<1>4. less \in Nat /\ more \in Nat
  BY <1>1, <1>2
<1>5. v \in Purse /\ Worth(v) = Worth(w) + less * s - w[i] * s
  <2> HIDE DEF less
  <2> QED
    BY <1>4, WorthOne DEF s
<1>6. v[j] = w[j]
  BY DEF Purse
<1> HIDE DEF v
<1>7. u \in Purse /\ Worth(u) = Worth(v) + more * t - w[j] * t
  <2> HIDE DEF more
  <2> QED
    BY <1>4, <1>5, <1>6, WorthOne DEF t
<1>8. Worth(w) \in Nat /\ Worth(v) \in Nat
  BY <1>5, WorthNat
<1> DEFINE a == w[i] * s
           b == w[j] * t
           m == made * t
<1>9. a \in Nat /\ b \in Nat /\ m \in Nat /\ less * s = a - m /\ more * t = b + m
  <2>1. less * s = a - (n - rest) * s
    BY <1>0, <1>1, <1>2, SMT
  <2>2. more * t = b + m
    BY <1>0, <1>1, <1>2, SMT
  <2> QED
    BY <1>0, <1>1, <1>2, <2>1, <2>2, SMT
<1> HIDE DEF a, b, m, less, more
<1>10. Worth(v) = Worth(w) + less * s - a /\ Worth(u) = Worth(v) + more * t - b
  BY <1>5, <1>7 DEF a, b
<1>11. Worth(u) = Worth(w)
  <2> HIDE DEF u
  <2> QED
    BY <1>8, <1>9, <1>10
<1> QED
  BY <1>3, <1>7, <1>11

-----------------------------------------------------------------------------
(* Paying *)

\* Where the tier is that paid the last of what was owed.
PaidAt(w, cost, p, k) ==
  /\ Upto(w, k - 1) < cost /\ cost <= Upto(w, k)
  /\ Upto(p, k - 1) < TIER_VALUE[k]
  /\ \A j \in 1 .. K : j > k => p[j] = w[j]

\* What is owed and left of the purse w after the tiers up to i paid.
Paying(w, cost, i, owed, p) ==
  /\ p \in Purse
  /\ owed = IF Upto(w, i) < cost THEN cost - Upto(w, i) ELSE 0
  /\ \A j \in 1 .. K : j > i => p[j] = w[j]
  /\ Worth(p) = Worth(w) - (cost - owed)
  /\ owed > 0 => Upto(p, i) = 0
  /\ cost = 0 => p = w
  /\ cost > 0 /\ owed = 0 => \E k \in 1 .. i : PaidAt(w, cost, p, k)

LEMMA CoinsLess ==
  ASSUME NEW a \in Nat, NEW b \in Nat, NEW c \in Nat, c = a - b, NEW t \in Nat
  PROVE  c * t = a * t - b * t /\ c * t \in Nat /\ a * t \in Nat /\ b * t \in Nat
BY SMT

\* A tier with all its coins given, and still something owed or just nothing.
LEMMA TierGives ==
  ASSUME NEW w \in Purse, NEW cost \in Nat, NEW i \in 1 .. K,
         NEW owed \in Nat, NEW p, Paying(w, cost, i - 1, owed, p),
         NEW q, NEW n \in Nat, q = [p EXCEPT ![i] = n],
         owed > 0, NEW whole \in Nat, n = w[i] - whole,
         NEW due \in Nat, due = owed - whole * TIER_VALUE[i],
         due = 0 \/ n = 0
  PROVE  Paying(w, cost, i, due, q)
<1> DEFINE t == TIER_VALUE[i]
           paid == whole * t
           had == w[i] * t
           has == n * t
<1>0. K \in Nat /\ Tiers = 1 .. K /\ t \in Nat \ {0} /\ i - 1 \in 0 .. K /\ i \in 0 .. K
  BY TiersAre
<1>1. /\ p \in Purse /\ (\A j \in 1 .. K : j > i - 1 => p[j] = w[j])
      /\ owed = cost - Upto(w, i - 1) /\ Upto(w, i - 1) < cost
      /\ Worth(p) = Worth(w) - (cost - owed)
      /\ Upto(p, i - 1) = 0 /\ cost > 0
  <2>1. Upto(w, i - 1) \in Nat
    BY <1>0, UptoNat
  <2> QED
    BY <2>1 DEF Paying
<1>2. p[i] = w[i] /\ w[i] \in Nat
  BY <1>0, <1>1 DEF Purse
<1>3. q \in Purse /\ q[i] = n /\ \A j \in 1 .. K : j # i => q[j] = p[j]
  BY <1>0, <1>1 DEF Purse
<1>4. Worth(q) = Worth(p) + has - had
  <2>1. i \in Tiers
    BY <1>0
  <2>2. Worth(q) = Worth(p) + n * TIER_VALUE[i] - p[i] * TIER_VALUE[i]
    BY ONLY <1>1, <2>1, n \in Nat, q = [p EXCEPT ![i] = n], WorthOne
  <2> QED
    BY <1>2, <2>2
<1>5. has = had - paid /\ has \in Nat /\ had \in Nat /\ paid \in Nat
  <2>1. n = w[i] - whole /\ w[i] \in Nat /\ t \in Nat
    BY <1>0, <1>2
  <2> HIDE DEF t
  <2>2. n * t = w[i] * t - whole * t /\ n * t \in Nat /\ w[i] * t \in Nat /\ whole * t \in Nat
    BY ONLY <2>1, n \in Nat, whole \in Nat, CoinsLess
  <2> QED
    BY <2>2
<1>6. Upto(q, i - 1) = 0
  <2>1. \A j \in 1 .. i - 1 : q[j] = p[j]
    BY <1>0, <1>3
  <2> QED
    BY ONLY <1>0, <1>1, <2>1, UptoSame
<1>7. Upto(q, i) = has
  <2>1. Upto(q, i) = Upto(q, i - 1) + q[i] * t
    BY UptoIs
  <2> QED
    BY <1>3, <1>5, <1>6, <2>1
<1>8. Upto(w, i) = Upto(w, i - 1) + had /\ Upto(w, i - 1) \in Nat
  BY <1>0, UptoIs, UptoNat
<1>9. n = 0 => has = 0
  BY <1>0
<1>10. due = owed - paid
  OBVIOUS
<1> HIDE DEF t, paid, had, has
<1>11. due = IF Upto(w, i) < cost THEN cost - Upto(w, i) ELSE 0
  <2>1. CASE n = 0
    BY <1>1, <1>5, <1>8, <1>9, <1>10, <2>1
  <2>2. CASE due = 0
    BY <1>1, <1>5, <1>8, <1>10, <2>2
  <2> QED
    BY <2>1, <2>2
<1>12. Worth(q) = Worth(w) - (cost - due)
  BY <1>1, <1>4, <1>5, <1>10, WorthNat
<1>13. \A j \in 1 .. K : j > i => q[j] = w[j]
  BY <1>0, <1>1, <1>3
<1>14. due > 0 => Upto(q, i) = 0
  BY <1>7, <1>9
<1>15. due = 0 => PaidAt(w, cost, q, i)
  <2> SUFFICES ASSUME due = 0
               PROVE  PaidAt(w, cost, q, i)
    OBVIOUS
  <2>1. cost <= Upto(w, i)
    BY <1>1, <1>5, <1>8, <1>10
  <2>2. Upto(q, i - 1) < TIER_VALUE[i]
    BY <1>0, <1>6 DEF t
  <2> QED
    BY <1>1, <1>13, <2>1, <2>2 DEF PaidAt
<1>16. i \in 1 .. i
  BY <1>0
<1>17. ~ (cost = 0)
  BY <1>1
<1>18. cost > 0 /\ due = 0 => \E k \in 1 .. i : PaidAt(w, cost, q, k)
  BY <1>15, <1>16
<1>19. q \in Purse
  BY <1>3
<1> QED
  BY ONLY <1>11, <1>12, <1>13, <1>14, <1>17, <1>18, <1>19 DEF Paying

\* A tier with one coin broken.
LEMMA TierBreaks ==
  ASSUME NEW w \in Purse, NEW cost \in Nat, NEW i \in 1 .. K,
         NEW owed \in Nat, NEW p, Paying(w, cost, i - 1, owed, p),
         owed > 0, NEW whole \in Nat, whole < w[i],
         NEW due \in Nat, due = owed - whole * TIER_VALUE[i],
         0 < due, due < TIER_VALUE[i],
         NEW q, q = [j \in Tiers |-> IF j = i THEN (w[i] - whole) - 1
                                     ELSE IF j < i THEN p[j] + Fewest(TIER_VALUE[i] - due, j)
                                     ELSE p[j]]
  PROVE  Paying(w, cost, i, 0, q)
<1> DEFINE t == TIER_VALUE[i]
           change == t - due
           n == (w[i] - whole) - 1
           paid == whole * t
           had == w[i] * t
           has == n * t
           c == from_copper(change)
<1>0. K \in Nat /\ Tiers = 1 .. K /\ t \in Nat \ {0} /\ i - 1 \in 0 .. K /\ i \in 0 .. K
  BY TiersAre
<1>1. /\ p \in Purse /\ (\A j \in 1 .. K : j > i - 1 => p[j] = w[j])
      /\ owed = cost - Upto(w, i - 1) /\ Upto(w, i - 1) < cost
      /\ Worth(p) = Worth(w) - (cost - owed)
      /\ Upto(p, i - 1) = 0 /\ cost > 0
  <2>1. Upto(w, i - 1) \in Nat
    BY <1>0, UptoNat
  <2> QED
    BY <2>1 DEF Paying
<1>2. p[i] = w[i] /\ w[i] \in Nat /\ n \in Nat
  BY <1>0, <1>1 DEF Purse
<1>3. change \in Nat /\ change < t /\ change % t = change
  <2>1. change \in Nat /\ change < t
    BY <1>0
  <2>2. change = t * 0 + change
    BY <1>0, <2>1
  <2>3. change \in Int
    BY <2>1
  <2> HIDE DEF change, t
  <2>4. change % t = change
    BY ONLY <1>0, <2>1, <2>2, <2>3, 0 \in Int, DivIs
  <2> QED
    BY <2>1, <2>4
<1>4. c \in Purse /\ Upto(c, i - 1) = change
  <2> HIDE DEF change
  <2> QED
    BY <1>3, FromCopper
<1>5. \A j \in Tiers : c[j] = Fewest(change, j)
  BY DEF from_copper
<1> DEFINE a == add_each(p, c)
<1>6. a \in Purse /\ Upto(a, i - 1) = change /\ \A j \in Tiers : a[j] = p[j] + c[j]
  <2> HIDE DEF c, change
  <2>1. \A j \in Tiers : a[j] = p[j] + c[j]
    BY DEF add_each
  <2>2. Upto(a, i - 1) = Upto(p, i - 1) + Upto(c, i - 1)
    BY <1>0, <1>1, <1>4, UptoAdd
  <2>3. a \in Purse
    BY <1>1, <1>4, AddPurse
  <2> QED
    BY <1>1, <1>3, <1>4, <2>1, <2>2, <2>3
<1>7. /\ \A j \in Tiers : q[j] = IF j = i THEN n ELSE IF j < i THEN a[j] ELSE p[j]
      /\ q = [j \in Tiers |-> q[j]]
  <2> HIDE DEF a, c
  <2> QED
    BY <1>5, <1>6
<1> HIDE DEF a, c
<1>8. q \in Purse /\ q[i] = n
  <2>1. \A j \in Tiers : q[j] \in Nat
    <3> HIDE DEF n
    <3> QED
      BY <1>0, <1>1, <1>2, <1>6, <1>7 DEF Purse
  <2> QED
    BY <1>0, <1>7, <2>1 DEF Purse
<1> HIDE DEF n
<1>9. Upto(q, i - 1) = change
  <2>1. \A j \in 1 .. i - 1 : q[j] = a[j]
    BY <1>0, <1>7
  <2> QED
    BY ONLY <1>0, <1>6, <2>1, UptoSame
<1>10. Worth(q) - Worth(p) = Upto(q, i) - Upto(p, i)
  <2>1. \A j \in 1 .. K : j > i => q[j] = p[j]
    BY <1>0, <1>7
  <2> QED
    BY <1>0, <1>1, <1>8, <2>1, UptoRest
<1>11. Upto(q, i) = change + has /\ Upto(p, i) = had
  <2>1. Upto(q, i) = Upto(q, i - 1) + q[i] * t /\ Upto(p, i) = Upto(p, i - 1) + p[i] * t
    BY UptoIs
  <2>2. p[i] * t = had /\ had \in Nat
    BY <1>0, <1>2, SMT
  <2> QED
    BY <1>1, <1>2, <1>8, <1>9, <2>1, <2>2
<1>12. has = had - paid - t /\ has \in Nat /\ had \in Nat /\ paid \in Nat
  <2> DEFINE m == w[i] - whole
             some == m * t
  <2>1. m \in Nat /\ n = m - 1
    BY <1>2 DEF n
  <2>2. some = had - paid /\ some \in Nat /\ had \in Nat /\ paid \in Nat
    <3>1. m = w[i] - whole /\ w[i] \in Nat /\ t \in Nat
      BY <1>0, <1>2
    <3> HIDE DEF m, t
    <3>2. m * t = w[i] * t - whole * t /\ m * t \in Nat /\ w[i] * t \in Nat /\ whole * t \in Nat
      BY ONLY <2>1, <3>1, whole \in Nat, CoinsLess
    <3> QED
      BY <3>2
  <2>3. has = some - t /\ has \in Nat
    <3> HIDE DEF m
    <3>1. has = some - 1 * t /\ has \in Nat
      BY ONLY <1>0, <1>2, <2>1, 1 \in Nat, CoinsLess
    <3>2. 1 * t = t
      BY ONLY <1>0
    <3> QED
      BY <3>1, <3>2
  <2> HIDE DEF some, has, had, paid
  <2> QED
    BY <1>0, <2>2, <2>3
<1>13. Upto(w, i) = Upto(w, i - 1) + had /\ Upto(w, i - 1) \in Nat
  BY <1>0, UptoIs, UptoNat
<1>14. due = owed - paid
  OBVIOUS
<1>15. change = t - due
  OBVIOUS
<1>16. owed \in Nat /\ due \in Nat /\ cost \in Nat /\ change \in Nat /\ t \in Nat
  BY <1>0, <1>3
<1> HIDE DEF t, paid, had, has, change
<1>17. cost <= Upto(w, i)
  <2>1. owed = cost - Upto(w, i - 1)
    BY <1>1
  <2> QED
    BY ONLY <2>1, <1>12, <1>13, <1>14, <1>15, <1>16
<1>18. Worth(q) = Worth(w) - cost
  <2>1. Worth(q) \in Nat /\ Worth(p) \in Nat /\ Worth(w) \in Nat
    BY <1>1, <1>8, WorthNat
  <2>2. Worth(p) = Worth(w) - (cost - owed)
    BY <1>1
  <2> QED
    BY ONLY <2>2, <1>10, <1>11, <1>12, <1>14, <1>15, <1>16, <2>1
<1>19. \A j \in 1 .. K : j > i => q[j] = w[j]
  BY <1>0, <1>1, <1>7
<1>20. PaidAt(w, cost, q, i)
  BY <1>1, <1>3, <1>9, <1>17, <1>19 DEF PaidAt, t
<1>21. i \in 1 .. i
  BY <1>0
<1>22. Upto(w, i) \in Nat /\ Worth(w) \in Nat
  BY <1>0, UptoNat, WorthNat
<1> QED
  BY <1>1, <1>8, <1>17, <1>18, <1>19, <1>20, <1>21, <1>22 DEF Paying

LEMMA TierPays ==
  ASSUME NEW w \in Purse, NEW cost \in Nat, NEW i \in 1 .. K,
         NEW s, Paying(w, cost, i - 1, s.owed, s.purse)
  PROVE  Paying(w, cost, i, PayFrom(s, i).owed, PayFrom(s, i).purse)
<1> DEFINE t == TIER_VALUE[i]
           owed == s.owed
           p == s.purse
           coin == owed \div t
           whole == IF coin < p[i] THEN coin ELSE p[i]
           due == owed - whole * t
           held == p[i] - whole
           broken == [j \in Tiers |-> IF j = i THEN held - 1
                                      ELSE IF j < i THEN p[j] + Fewest(t - due, j)
                                      ELSE p[j]]
           left == [p EXCEPT ![i] = held]
<1>0. K \in Nat /\ Tiers = 1 .. K /\ t \in Nat \ {0} /\ i - 1 \in 0 .. K /\ i \in 0 .. K
  BY TiersAre
<1>1. /\ owed \in Nat /\ p \in Purse /\ p[i] = w[i] /\ w[i] \in Nat
      /\ Upto(w, i - 1) \in Nat /\ Upto(w, i) \in Nat /\ Upto(w, i - 1) <= Upto(w, i)
  <2>1. Upto(w, i - 1) \in Nat /\ Upto(w, i) \in Nat /\ Upto(w, i - 1) <= Upto(w, i)
    BY <1>0, UptoNat, UptoMore
  <2> QED
    BY <1>0, <2>1 DEF Paying, Purse
<1>2. /\ PayFrom(s, i).owed = IF due > 0 /\ due < t /\ held > 0 THEN 0 ELSE due
      /\ PayFrom(s, i).purse = IF due > 0 /\ due < t /\ held > 0 THEN broken ELSE left
  BY DEF PayFrom
<1>3. coin \in Nat /\ coin * t <= owed /\ owed = coin * t + (owed % t) /\ owed % t \in Nat /\ owed % t < t
  <2> HIDE DEF owed, t
  <2> QED
    BY <1>0, <1>1, DivNat
<1> HIDE DEF coin
<1>4. whole \in Nat /\ held \in Nat /\ held = w[i] - whole
  BY <1>1, <1>3
<1>5. due \in Nat /\ (whole = coin => due < t)
  <2> HIDE DEF owed, p, t
  <2>1. CASE coin < p[i]
    <3>1. whole = coin
      BY <2>1
    <3> HIDE DEF whole
    <3> DEFINE x == coin * t
               r == owed % t
    <3>2. x \in Nat /\ owed = x + r /\ r \in Nat /\ r < t
      BY <1>0, <1>3, SMT
    <3> HIDE DEF x, r
    <3>3. due = owed - x
      BY <3>1 DEF x
    <3> HIDE DEF due
    <3> QED
      BY <1>1, <3>1, <3>2, <3>3
  <2>2. CASE ~ (coin < p[i])
    <3>1. whole = p[i] /\ whole <= coin
      BY <1>1, <1>3, <2>2
    <3> HIDE DEF whole
    <3> DEFINE x == whole * t
               y == coin * t
               r == owed % t
    <3>2. x <= y /\ x \in Nat /\ y \in Nat
      BY <1>0, <1>1, <1>3, <3>1, SMT
    <3>3. owed = y + r /\ r \in Nat /\ r < t
      BY <1>3
    <3>4. whole = coin => x = y
      OBVIOUS
    <3> HIDE DEF x, y, r
    <3>5. due = owed - x
      BY DEF x
    <3> HIDE DEF due
    <3> QED
      BY <1>1, <3>2, <3>3, <3>4, <3>5
  <2> QED
    BY <2>1, <2>2
<1>6. held > 0 => whole = coin
  BY <1>1, <1>3
<1>7. CASE owed = 0
  <2>1. coin = 0
    <3> HIDE DEF owed, t
    <3> DEFINE y == coin * t
    <3>1. y <= 0 /\ y \in Int
      BY <1>3, <1>7, <1>0
    <3>2. coin > 0 => y > 0
      BY <1>0, <1>3, SMT
    <3>3. coin \in Nat
      BY <1>3
    <3> HIDE DEF y
    <3> QED
      BY ONLY <3>1, <3>2, <3>3
  <2>2. whole = 0
    BY <1>1, <2>1
  <2> HIDE DEF whole
  <2>3. due = 0 /\ held = p[i]
    BY <1>0, <1>1, <1>7, <2>2
  <2> HIDE DEF due, held
  <2>4. PayFrom(s, i).owed = 0 /\ PayFrom(s, i).purse = p
    <3>1. left = p
      BY <1>0, <1>1, <2>3 DEF Purse
    <3> HIDE DEF left, broken, p
    <3> QED
      BY <1>2, <2>3, <3>1
  <2>5. Paying(w, cost, i - 1, 0, p)
    BY <1>7
  <2> HIDE DEF p
  <2>6. /\ ~ (Upto(w, i) < cost) /\ \A j \in 1 .. K : j > i => p[j] = w[j]
    BY <1>0, <1>1, <2>5 DEF Paying
  <2>7. cost > 0 => \E k \in 1 .. i : PaidAt(w, cost, p, k)
    <3>1. \A k \in 1 .. i - 1 : k \in 1 .. i
      BY <1>0
    <3> QED
      BY <2>5, <3>1 DEF Paying
  <2>8. Paying(w, cost, i, 0, p)
    BY <2>5, <2>6, <2>7 DEF Paying
  <2> QED
    BY <2>4, <2>8
<1>8. CASE owed > 0 /\ due > 0 /\ held > 0
  <2>1. due < t /\ whole < w[i]
    BY <1>1, <1>4, <1>5, <1>6, <1>8
  <2>2. PayFrom(s, i).owed = 0 /\ PayFrom(s, i).purse = broken
    <3> HIDE DEF broken, left, due, held, t
    <3> QED
      BY <1>2, <1>8, <2>1
  <2>3. broken = [j \in Tiers |-> IF j = i THEN (w[i] - whole) - 1
                                  ELSE IF j < i THEN p[j] + Fewest(TIER_VALUE[i] - due, j)
                                  ELSE p[j]]
    BY <1>1
  <2>4. due = owed - whole * TIER_VALUE[i] /\ due < TIER_VALUE[i]
    BY <2>1
  <2>5. Paying(w, cost, i - 1, owed, p)
    OBVIOUS
  <2> HIDE DEF owed, p, due, whole, held, broken, t
  <2>6. Paying(w, cost, i, 0, broken)
    BY <1>1, <1>4, <1>5, <1>8, <2>1, <2>3, <2>4, <2>5, TierBreaks
  <2> QED
    BY <2>2, <2>6
<1>9. CASE owed > 0 /\ (due = 0 \/ held = 0)
  <2>1. PayFrom(s, i).owed = due /\ PayFrom(s, i).purse = left
    <3> HIDE DEF broken, left, due, held, t
    <3> QED
      BY <1>2, <1>4, <1>5, <1>9
  <2>2. due = owed - whole * TIER_VALUE[i] /\ left = [p EXCEPT ![i] = held]
    OBVIOUS
  <2>3. Paying(w, cost, i - 1, owed, p)
    OBVIOUS
  <2> HIDE DEF owed, p, due, whole, held, left, t
  <2>4. Paying(w, cost, i, due, left)
    BY <1>1, <1>4, <1>5, <1>9, <2>2, <2>3, TierGives
  <2> QED
    BY <2>1, <2>4
<1>10. owed = 0 \/ (owed > 0 /\ due > 0 /\ held > 0) \/ (owed > 0 /\ (due = 0 \/ held = 0))
  <2> HIDE DEF owed, due, held
  <2> QED
    BY <1>1, <1>4, <1>5
<1> QED
  BY <1>7, <1>8, <1>9, <1>10

Pays(n, w, cost, f) ==
  f = [i \in 0 .. n |-> IF i = 0 THEN [owed |-> cost, purse |-> w] ELSE PayFrom(f[i - 1], i)]

LEMMA PaysExists ==
  ASSUME NEW w, NEW cost
  PROVE  \E f : Pays(K, w, cost, f)
<1> DEFINE T == {n \in Nat : \E f : Pays(n, w, cost, f)}
           s == [owed |-> cost, purse |-> w]
<1>1. 0 \in T
  <2> DEFINE f == [i \in 0 .. 0 |-> s]
  <2>1. Pays(0, w, cost, f)
    BY DEF Pays
  <2> QED
    BY <2>1
<1>2. ASSUME NEW n \in Nat, n \in T
      PROVE  n + 1 \in T
  <2>1. PICK f : Pays(n, w, cost, f)
    BY <1>2
  <2> DEFINE h == [i \in 0 .. n + 1 |-> IF i = 0 THEN s ELSE PayFrom(f[i - 1], i)]
  <2>2. \A i \in 0 .. n : h[i] = f[i]
    BY <2>1 DEF Pays
  <2>3. Pays(n + 1, w, cost, h)
    <3>1. \A i \in 0 .. n + 1 : i # 0 => i - 1 \in 0 .. n
      OBVIOUS
    <3> QED
      BY <2>2, <3>1 DEF Pays
  <2> QED
    BY <2>3
<1> HIDE DEF T
<1>3. Nat \subseteq T
  BY <1>1, <1>2, Induction
<1> QED
  BY <1>3, TiersAre DEF T

\* What every tier leaves to the next, and the last of them at the end.
LEMMA AllPay ==
  ASSUME NEW w \in Purse, NEW cost \in Nat, NEW f, Pays(K, w, cost, f)
  PROVE  Paying(w, cost, K, f[K].owed, f[K].purse)
<1> DEFINE T == {i \in 0 .. K : Paying(w, cost, i, f[i].owed, f[i].purse)}
<1>0. K \in Nat
  BY TiersAre
<1>1. f[0] = [owed |-> cost, purse |-> w] /\ \A i \in 1 .. K : f[i] = PayFrom(f[i - 1], i)
  <2>1. \A i \in 0 .. K :
          f[i] = IF i = 0 THEN [owed |-> cost, purse |-> w] ELSE PayFrom(f[i - 1], i)
    BY DEF Pays
  <2>2. 0 \in 0 .. K /\ \A i \in 1 .. K : i \in 0 .. K /\ i # 0
    BY <1>0
  <2> QED
    BY <2>1, <2>2
<1>2. 0 \in T
  <2>1. Upto(w, 0) = 0
    BY UptoIs
  <2>2. Worth(w) \in Nat
    BY WorthNat
  <2>3. Paying(w, cost, 0, cost, w)
    BY <2>1, <2>2 DEF Paying
  <2>4. f[0].owed = cost /\ f[0].purse = w
    BY <1>1
  <2> QED
    BY <1>0, <2>3, <2>4
<1>3. ASSUME NEW i \in 1 .. K, i - 1 \in T
      PROVE  i \in T
  <2> DEFINE s == f[i - 1]
  <2>1. Paying(w, cost, i - 1, s.owed, s.purse)
    BY <1>3
  <2>2. f[i] = PayFrom(s, i)
    BY <1>1
  <2> HIDE DEF s
  <2>3. Paying(w, cost, i, PayFrom(s, i).owed, PayFrom(s, i).purse)
    BY <2>1, TierPays
  <2> QED
    BY <1>0, <2>2, <2>3
<1> HIDE DEF T
<1>4. 0 .. K \subseteq T
  BY <1>2, <1>3, TierInduction
<1>5. K \in T
  BY <1>0, <1>4
<1> QED
  BY <1>5 DEF T

\* An affordable cost is paid by the tiers alone: the purse is never changed
\* into the fewest coins as a whole.
LEMMA SpendPays ==
  ASSUME NEW w \in Purse, NEW cost \in Nat, cost <= Worth(w)
  PROVE  Spend(w, cost).paid /\ Paying(w, cost, K, 0, Spend(w, cost).purse)
<1> DEFINE f == CHOOSE f : Pays(K, w, cost, f)
<1>1. Pays(K, w, cost, f)
  BY PaysExists
<1>2. Worth(w) \in Nat /\ Worth(w) = Upto(w, K)
  BY WorthNat
<1>3. Spend(w, cost) = [paid |-> TRUE,
        purse |-> IF f[K].owed > 0 THEN from_copper(Worth(w) - cost) ELSE f[K].purse]
  BY <1>2 DEF Spend, Pays, K
<1> HIDE DEF f
<1>4. Paying(w, cost, K, f[K].owed, f[K].purse)
  BY <1>1, AllPay
<1>5. f[K].owed = 0
  BY <1>2, <1>4 DEF Paying
<1>6. Spend(w, cost).paid /\ Spend(w, cost).purse = f[K].purse
  BY <1>3, <1>5
<1> QED
  BY <1>4, <1>5, <1>6

LEMMA SpendRefuses ==
  ASSUME NEW w \in Purse, NEW cost \in Nat, cost > Worth(w)
  PROVE  ~ Spend(w, cost).paid /\ Spend(w, cost).purse = w
BY DEF Spend

\* What the rest of the model needs of it.
LEMMA SpendIs ==
  ASSUME NEW w \in Purse, NEW cost \in Nat
  PROVE  /\ Spend(w, cost).paid <=> cost <= Worth(w)
         /\ Spend(w, cost).purse \in Purse
         /\ Spend(w, cost).paid => Worth(Spend(w, cost).purse) = Worth(w) - cost
<1>1. Worth(w) \in Nat
  BY WorthNat
<1>2. CASE cost <= Worth(w)
  <2>1. Spend(w, cost).paid /\ Paying(w, cost, K, 0, Spend(w, cost).purse)
    BY <1>2, SpendPays
  <2> QED
    BY <1>1, <1>2, <2>1 DEF Paying
<1>3. CASE cost > Worth(w)
  <2>1. ~ Spend(w, cost).paid /\ Spend(w, cost).purse = w
    BY <1>3, SpendRefuses
  <2> QED
    BY <1>1, <1>3, <2>1
<1> QED
  BY <1>1, <1>2, <1>3

\* Whatever the purse and whatever the cost.
LEMMA ExactPay ==
  ASSUME NEW w \in Purse, NEW cost \in Nat
  PROVE  PaysExactly(w, cost)
<1> DEFINE after == Spend(w, cost)
           enough == {i \in Tiers : Upto(w, i) >= cost}
<1>0. /\ K \in Nat \ {0} /\ Tiers = 1 .. K
      /\ Worth(w) \in Nat /\ Worth(w) = Upto(w, K)
      /\ \A i \in 0 .. K : Upto(w, i) \in Nat
  BY TiersAre, WorthNat, UptoNat
<1>1. enough = {} <=> cost > Worth(w)
  <2>1. K \in Tiers
    BY <1>0
  <2>2. ASSUME NEW i \in enough
        PROVE  cost <= Worth(w)
    <3>1. i \in 0 .. K /\ K \in 0 .. K /\ i <= K
      BY <1>0
    <3>2. Upto(w, i) <= Upto(w, K)
      BY <3>1, UptoMore
    <3> QED
      BY <1>0, <3>1, <3>2
  <2> QED
    BY <1>0, <2>1, <2>2
<1>2. CASE enough = {}
  <2>1. ~ after.paid /\ after.purse = w
    BY <1>1, <1>2, SpendRefuses
  <2> QED
    BY <1>2, <2>1 DEF PaysExactly
<1>3. CASE enough # {}
  <2>1. cost <= Worth(w)
    BY <1>0, <1>1, <1>3
  <2> DEFINE p == after.purse
             k == Min(enough)
  <2>2. after.paid /\ Paying(w, cost, K, 0, p)
    BY <2>1, SpendPays
  <2>3. k \in enough /\ \A i \in enough : k <= i
    <3>1. enough \in SUBSET Nat
      BY <1>0
    <3> HIDE DEF enough
    <3>2. \E x \in enough : \A y \in enough : x <= y
      BY <1>3, <3>1, LeastMember
    <3> QED
      BY <3>2 DEF Min
  <2> HIDE DEF after, p, k
  <2>4. k \in 1 .. K /\ Upto(w, k) >= cost
    BY <1>0, <2>3
  <2>5. p \in Purse /\ Worth(p) = Worth(w) - cost
    BY <1>0, <2>2 DEF Paying
  <2>6. CASE cost = 0
    <3>1. p = w
      BY <2>2, <2>6 DEF Paying
    <3> QED
      BY <1>3, <2>2, <2>5, <2>6, <3>1 DEF PaysExactly, after, p, k
  <2>7. CASE cost > 0
    <3>1. PICK m \in 1 .. K : PaidAt(w, cost, p, m)
      BY <2>2, <2>7 DEF Paying
    <3>2. m = k
      <4>1. m \in enough
        BY <1>0, <3>1 DEF PaidAt
      <4>2. k <= m
        BY <2>3, <4>1
      <4>3. CASE k < m
        <5>1. k \in 0 .. K /\ m - 1 \in 0 .. K /\ k <= m - 1
          BY <1>0, <2>4, <4>3
        <5>2. Upto(w, k) <= Upto(w, m - 1)
          BY <5>1, UptoMore
        <5>3. Upto(w, k) \in Nat /\ Upto(w, m - 1) \in Nat
          BY <1>0, <5>1
        <5> QED
          BY <2>4, <3>1, <5>2, <5>3 DEF PaidAt
      <4> QED
        BY <2>4, <4>2, <4>3
    <3>3. Upto(p, k - 1) < TIER_VALUE[k] /\ \A i \in Tiers : i > k => p[i] = w[i]
      BY <1>0, <3>1, <3>2 DEF PaidAt
    <3> QED
      BY <1>3, <2>2, <2>5, <2>7, <3>3 DEF PaysExactly, after, p, k
  <2> QED
    BY <2>6, <2>7
<1> QED
  BY <1>2, <1>3

-----------------------------------------------------------------------------
(* The invariant *)

\* The types, but for what follows from the books: that the rows and what was
\* issued are naturals.
Types ==
  /\ coins \in [Players -> Purse] /\ bank_coins \in [Players -> Purse]
  /\ goods \in [Players -> 0 .. Room]
  /\ autosplit \in [Players -> BOOLEAN]
  /\ bags \in [BagIds -> Nat]
  /\ corpse \in [Players -> Purse]
  /\ ledger \in [Players -> Int] /\ issued \in Int /\ issued <= MaxIssued

IInv == Types /\ BooksBalance

\* What a character has to its name, on its corpse or about it.
Owned(l, k) == [p \in Players |-> l[p] + Worth(k[p])]

Total(f, S) == SumFunctionOnSet(f, S)

LEMMA TotalIs ==
  ASSUME NEW l \in [Players -> Int], NEW k \in [Players -> Purse], NEW b \in [BagIds -> Nat]
  PROVE  /\ \A p \in Players : Owned(l, k)[p] \in Int /\ Owned(l, k)[p] = l[p] + Worth(k[p])
         /\ SumFunction([p \in Players |-> l[p] + Worth(k[p])]) = Total(Owned(l, k), Players)
         /\ SumFunction(b) = Total(b, BagIds)
         /\ Total(Owned(l, k), Players) \in Int /\ Total(b, BagIds) \in Nat
<1> DEFINE f == Owned(l, k)
<1>1. \A p \in Players : f[p] = l[p] + Worth(k[p]) /\ f[p] \in Int
  <2>1. \A p \in Players : Worth(k[p]) \in Nat
    BY WorthNat
  <2> QED
    BY <2>1 DEF Owned
<1>2. DOMAIN f = Players /\ DOMAIN b = BagIds /\ \A x \in BagIds : b[x] \in Nat
  BY DEF Owned
<1>3. [p \in Players |-> l[p] + Worth(k[p])] = f
  BY DEF Owned
<1> HIDE DEF f
<1>4. SumFunction(f) = SumFunctionOnSet(f, Players) /\ SumFunction(b) = SumFunctionOnSet(b, BagIds)
  BY <1>2 DEF SumFunction
<1>5. SumFunctionOnSet(f, Players) \in Int
  BY <1>1, SumIs, BoundsType
<1>6. SumFunctionOnSet(b, BagIds) \in Nat
  BY <1>2, SumNat, BoundsType
<1> QED
  BY <1>1, <1>3, <1>4, <1>5, <1>6 DEF Total, f

\* The books, said with totals.
Booked(c, b, k, l, g, n) ==
  /\ \A p \in Players : Worth(c[p]) + Worth(b[p]) = l[p]
  /\ Total(Owned(l, k), Players) + Total(g, BagIds) = n

LEMMA BooksAre ==
  ASSUME Types
  PROVE  BooksBalance <=> Booked(coins, bank_coins, corpse, ledger, bags, issued)
<1>1. /\ SumFunction([p \in Players |-> ledger[p] + Worth(corpse[p])])
           = Total(Owned(ledger, corpse), Players)
      /\ SumFunction(bags) = Total(bags, BagIds)
  BY TotalIs DEF Types
<1> QED
  BY <1>1 DEF BooksBalance, Booked

LEMMA BooksAreAfter ==
  ASSUME Types'
  PROVE  BooksBalance' <=> Booked(coins', bank_coins', corpse', ledger', bags', issued')
<1>1. /\ SumFunction([p \in Players |-> ledger'[p] + Worth(corpse'[p])])
           = Total(Owned(ledger', corpse'), Players)
      /\ SumFunction(bags') = Total(bags', BagIds)
  <2>1. ledger' \in [Players -> Int] /\ corpse' \in [Players -> Purse] /\ bags' \in [BagIds -> Nat]
    BY DEF Types
  <2> QED
    BY <2>1, TotalIs
<1> QED
  BY <1>1 DEF BooksBalance, Booked

LEMMA InitIInv == Init => IInv
<1> SUFFICES ASSUME Init PROVE IInv
  OBVIOUS
<1>1. Types
  BY ZeroPurse, PricesType, BoundsType DEF Init, Types
<1>2. \A p \in Players : Worth(coins[p]) = 0 /\ Worth(bank_coins[p]) = 0 /\ Worth(corpse[p]) = 0
                         /\ ledger[p] = 0
  BY ZeroPurse DEF Init
<1>3. \A p \in Players : Owned(ledger, corpse)[p] = 0
  BY <1>2 DEF Owned
<1>4. Total(Owned(ledger, corpse), Players) = 0
  <2> DEFINE f == Owned(ledger, corpse)
  <2>1. \A p \in Players : f[p] \in Nat /\ f[p] = 0
    BY <1>3
  <2> HIDE DEF f
  <2>2. SumFunctionOnSet(f, Players) = 0
    BY <2>1, SumNat, BoundsType
  <2> QED
    BY <2>2 DEF f, Total
<1>5. Total(bags, BagIds) = 0
  <2>1. \A b \in BagIds : bags[b] \in Nat /\ bags[b] = 0
    BY DEF Init
  <2>2. SumFunctionOnSet(bags, BagIds) = 0
    BY <2>1, SumNat, BoundsType
  <2> QED
    BY <2>2 DEF Total
<1>6. issued = 0
  BY DEF Init
<1>7. Booked(coins, bank_coins, corpse, ledger, bags, issued)
  BY <1>2, <1>4, <1>5, <1>6 DEF Booked
<1> QED
  BY <1>1, <1>7, BooksAre DEF IInv

-----------------------------------------------------------------------------
(* Steps of one character *)

\* What of the coin is not p's is left alone.
OnlyAt(p) ==
  /\ coins' \in [Players -> Purse] /\ bank_coins' \in [Players -> Purse]
  /\ corpse' \in [Players -> Purse] /\ ledger' \in [Players -> Int]
  /\ \A o \in Players \ {p} : /\ coins'[o] = coins[o] /\ bank_coins'[o] = bank_coins[o]
                              /\ corpse'[o] = corpse[o] /\ ledger'[o] = ledger[o]
  /\ goods' \in [Players -> 0 .. Room] /\ autosplit' \in [Players -> BOOLEAN]
  /\ bags' = bags /\ issued' \in Int /\ issued' <= MaxIssued

LEMMA OnlyAtInv ==
  ASSUME IInv, NEW p \in Players, OnlyAt(p),
         Worth(coins'[p]) + Worth(bank_coins'[p]) = ledger'[p],
         (ledger'[p] + Worth(corpse'[p])) - (ledger[p] + Worth(corpse[p])) = issued' - issued
  PROVE  IInv'
<1>1. Types'
  BY DEF IInv, Types, OnlyAt
<1>2. Booked(coins, bank_coins, corpse, ledger, bags, issued)
  BY BooksAre DEF IInv
<1> DEFINE f == Owned(ledger, corpse)
           g == Owned(ledger', corpse')
<1>3. \A o \in Players : f[o] \in Int /\ f[o] = ledger[o] + Worth(corpse[o])
  <2>1. ledger \in [Players -> Int] /\ corpse \in [Players -> Purse] /\ bags \in [BagIds -> Nat]
    BY DEF IInv, Types
  <2> QED
    BY <2>1, TotalIs
<1>4. \A o \in Players : g[o] \in Int /\ g[o] = ledger'[o] + Worth(corpse'[o])
  <2>1. ledger' \in [Players -> Int] /\ corpse' \in [Players -> Purse] /\ bags \in [BagIds -> Nat]
    BY DEF OnlyAt, IInv, Types
  <2> QED
    BY <2>1, TotalIs
<1>5. \A o \in Players \ {p} : f[o] = g[o]
  BY <1>3, <1>4 DEF OnlyAt
<1>6. Total(f, Players) + Total(bags, BagIds) = issued
  BY <1>2 DEF Booked
<1> HIDE DEF f, g
<1>7. SumFunctionOnSet(g, Players) = SumFunctionOnSet(f, Players) - f[p] + g[p]
  <2>1. \A o \in Players : f[o] \in Int /\ g[o] \in Int
    BY <1>3, <1>4
  <2> QED
    BY ONLY BoundsType, p \in Players, <1>5, <2>1, SumOne
<1>8. SumFunctionOnSet(f, Players) \in Int /\ Total(bags, BagIds) \in Nat
  <2>1. ledger \in [Players -> Int] /\ corpse \in [Players -> Purse] /\ bags \in [BagIds -> Nat]
    BY DEF IInv, Types
  <2> QED
    BY <2>1, TotalIs DEF Total, f
<1>9. Total(g, Players) + Total(bags', BagIds) = issued'
  <2>1. bags' = bags /\ issued' \in Int /\ issued \in Int
    BY DEF OnlyAt, IInv, Types
  <2>2. f[p] = ledger[p] + Worth(corpse[p]) /\ g[p] = ledger'[p] + Worth(corpse'[p])
        /\ f[p] \in Int /\ g[p] \in Int
    BY <1>3, <1>4
  <2>3. g[p] - f[p] = issued' - issued
    BY <2>2
  <2> QED
    BY <1>6, <1>7, <1>8, <2>1, <2>2, <2>3 DEF Total
<1>10. \A o \in Players : Worth(coins'[o]) + Worth(bank_coins'[o]) = ledger'[o]
  BY <1>2 DEF OnlyAt, Booked
<1>11. Booked(coins', bank_coins', corpse', ledger', bags', issued')
  BY <1>9, <1>10 DEF Booked, g
<1> QED
  BY <1>1, <1>11, BooksAreAfter DEF IInv

\* The types at one character.
LEMMA At ==
  ASSUME IInv, NEW p \in Players
  PROVE  /\ coins[p] \in Purse /\ bank_coins[p] \in Purse /\ corpse[p] \in Purse
         /\ goods[p] \in 0 .. Room /\ Room \in Nat
         /\ Worth(coins[p]) \in Nat /\ Worth(bank_coins[p]) \in Nat /\ Worth(corpse[p]) \in Nat
         /\ ledger[p] = Worth(coins[p]) + Worth(bank_coins[p]) /\ ledger[p] \in Nat
         /\ issued \in Int /\ issued <= MaxIssued /\ MaxIssued \in Nat
<1>1. coins[p] \in Purse /\ bank_coins[p] \in Purse /\ corpse[p] \in Purse
  BY DEF IInv, Types
<1>2. Worth(coins[p]) \in Nat /\ Worth(bank_coins[p]) \in Nat /\ Worth(corpse[p]) \in Nat
  BY <1>1, WorthNat
<1>3. ledger[p] = Worth(coins[p]) + Worth(bank_coins[p])
  BY BooksAre DEF IInv, Booked
<1> QED
  BY <1>1, <1>2, <1>3, BoundsType, PricesType DEF IInv, Types

LEMMA Lesser ==
  ASSUME NEW a \in Nat, NEW b \in Nat
  PROVE  Min({a, b}) \in {a, b} /\ Min({a, b}) <= a /\ Min({a, b}) <= b
<1>1. \E x \in {a, b} : \A y \in {a, b} : x <= y
  OBVIOUS
<1> QED
  BY <1>1 DEF Min

LEMMA BuyInv ==
  ASSUME IInv, NEW p \in Players, Buy(p)
  PROVE  IInv'
<1>1. PICK qty \in 1 .. MaxAsk :
        LET placed == Min({qty, Room - goods[p]})
            cost == VendorPrice * placed
        IN /\ VendorPrice * qty <= Worth(coins[p])
           /\ goods' = [goods EXCEPT ![p] = @ + placed]
           /\ coins' = [coins EXCEPT ![p] = Spend(@, cost).purse]
           /\ ledger' = [ledger EXCEPT ![p] = @ - cost]
           /\ issued' = issued - cost
  BY DEF Buy
<1> DEFINE room == Room - goods[p]
           placed == Min({qty, room})
           cost == VendorPrice * placed
           paid == Spend(coins[p], cost)
<1>2. room \in Nat /\ qty \in Nat
  BY At
<1>3. placed \in Nat /\ placed <= qty /\ placed <= room
  <2> HIDE DEF room
  <2> QED
    BY <1>2, Lesser
<1> HIDE DEF placed
<1>4. cost \in Nat /\ cost <= Worth(coins[p])
  <2> DEFINE most == VendorPrice * qty
  <2>1. VendorPrice \in Nat
    BY PricesType
  <2>2. cost \in Nat /\ cost <= most /\ most \in Nat
    BY ONLY <1>2, <1>3, <2>1, SMT
  <2>3. most <= Worth(coins[p])
    BY <1>1
  <2> HIDE DEF cost, most
  <2> QED
    BY <2>2, <2>3, At
<1>5. /\ coins' = [coins EXCEPT ![p] = paid.purse] /\ ledger' = [ledger EXCEPT ![p] = @ - cost]
      /\ goods' = [goods EXCEPT ![p] = @ + placed] /\ issued' = issued - cost
      /\ UNCHANGED <<bank_coins, autosplit, bags, corpse>>
  BY <1>1 DEF Buy, placed
<1> HIDE DEF cost
<1>6. paid.purse \in Purse /\ Worth(paid.purse) = Worth(coins[p]) - cost
  <2>1. coins[p] \in Purse
    BY At
  <2> QED
    BY <1>4, <2>1, SpendIs
<1> HIDE DEF paid
<1>7. goods[p] + placed \in 0 .. Room
  BY <1>3, At DEF room
<1>8. OnlyAt(p)
  BY <1>4, <1>5, <1>6, <1>7, At DEF OnlyAt, IInv, Types
<1>9. coins'[p] = paid.purse /\ bank_coins'[p] = bank_coins[p] /\ corpse'[p] = corpse[p]
      /\ ledger'[p] = ledger[p] - cost
  BY <1>5 DEF IInv, Types
<1> QED
  BY <1>4, <1>5, <1>6, <1>8, <1>9, At, OnlyAtInv

LEMMA SellInv ==
  ASSUME IInv, NEW p \in Players, Sell(p)
  PROVE  IInv'
<1>1. PICK qty \in 1 .. MaxAsk :
        LET sold == Min({qty, goods[p]})
            credit == (VendorPrice \div 2) * sold
        IN /\ issued + credit <= MaxIssued
           /\ goods' = [goods EXCEPT ![p] = @ - sold]
           /\ coins' = [coins EXCEPT ![p] = add_payout(@, credit)]
           /\ ledger' = [ledger EXCEPT ![p] = @ + credit]
           /\ issued' = issued + credit
  BY DEF Sell
<1> DEFINE sold == Min({qty, goods[p]})
           half == VendorPrice \div 2
           credit == half * sold
           purse == add_payout(coins[p], credit)
<1>2. sold \in Nat /\ sold <= goods[p] /\ goods[p] \in Nat
  <2>1. qty \in Nat /\ goods[p] \in Nat
    BY At
  <2> QED
    BY <2>1, Lesser
<1> HIDE DEF sold
<1>3. half \in Nat
  <2>1. VendorPrice \in Nat /\ 2 \in Nat \ {0}
    BY PricesType
  <2> QED
    BY <2>1, DivNat
<1> HIDE DEF half
<1>4. credit \in Nat
  BY <1>2, <1>3, SMT
<1>5. /\ coins' = [coins EXCEPT ![p] = purse] /\ ledger' = [ledger EXCEPT ![p] = @ + credit]
      /\ goods' = [goods EXCEPT ![p] = @ - sold] /\ issued' = issued + credit
      /\ issued + credit <= MaxIssued /\ UNCHANGED <<bank_coins, autosplit, bags, corpse>>
  BY <1>1 DEF Sell, sold, half
<1> HIDE DEF credit
<1>6. purse \in Purse /\ Worth(purse) = Worth(coins[p]) + credit
  <2>1. coins[p] \in Purse
    BY At
  <2> QED
    BY <1>4, <2>1, PayoutPurse
<1> HIDE DEF purse
<1>7. goods[p] - sold \in 0 .. Room
  BY <1>2, At
<1>8. OnlyAt(p)
  BY <1>4, <1>5, <1>6, <1>7, At DEF OnlyAt, IInv, Types
<1>9. coins'[p] = purse /\ bank_coins'[p] = bank_coins[p] /\ corpse'[p] = corpse[p]
      /\ ledger'[p] = ledger[p] + credit
  BY <1>5 DEF IInv, Types
<1> QED
  BY <1>4, <1>5, <1>6, <1>8, <1>9, At, OnlyAtInv

\* A step that moves no coin.
LEMMA StillInv ==
  ASSUME IInv, UNCHANGED <<coins, bank_coins, bags, corpse, ledger, issued>>,
         goods' \in [Players -> 0 .. Room], autosplit' \in [Players -> BOOLEAN]
  PROVE  IInv'
BY DEF IInv, Types, BooksBalance

LEMMA FindInv ==
  ASSUME IInv, NEW p \in Players, Find(p)
  PROVE  IInv'
<1>1. goods[p] + 1 \in 0 .. Room
  BY At DEF Find
<1>2. goods' \in [Players -> 0 .. Room] /\ autosplit' \in [Players -> BOOLEAN]
  BY <1>1 DEF Find, IInv, Types
<1> QED
  BY <1>2, StillInv DEF Find

LEMMA SetAutosplitInv ==
  ASSUME IInv, NEW p \in Players, SetAutosplit(p)
  PROVE  IInv'
<1>1. goods' \in [Players -> 0 .. Room] /\ autosplit' \in [Players -> BOOLEAN]
  BY DEF SetAutosplit, IInv, Types
<1> QED
  BY <1>1, StillInv DEF SetAutosplit

LEMMA DepositInv ==
  ASSUME IInv, NEW p \in Players, Deposit(p)
  PROVE  IInv'
<1>1. PICK want \in Amounts :
        /\ Spend(coins[p], Worth(want)).paid
        /\ coins' = [coins EXCEPT ![p] = Spend(coins[p], Worth(want)).purse]
        /\ bank_coins' = [bank_coins EXCEPT ![p] = add_each(@, want)]
  BY DEF Deposit
<1> DEFINE paid == Spend(coins[p], Worth(want))
           more == add_each(bank_coins[p], want)
<1>2. want \in Purse /\ Worth(want) \in Nat
  BY AmountsType, WorthNat DEF Purse
<1>3. paid.purse \in Purse /\ Worth(paid.purse) = Worth(coins[p]) - Worth(want)
  BY <1>1, <1>2, At, SpendIs
<1>4. more \in Purse /\ Worth(more) = Worth(bank_coins[p]) + Worth(want)
  BY <1>2, At, AddPurse
<1>5. /\ coins' = [coins EXCEPT ![p] = paid.purse] /\ bank_coins' = [bank_coins EXCEPT ![p] = more]
      /\ UNCHANGED <<goods, autosplit, bags, corpse, ledger, issued>>
  BY <1>1 DEF Deposit
<1> HIDE DEF paid, more
<1>6. OnlyAt(p)
  BY <1>3, <1>4, <1>5, At DEF OnlyAt, IInv, Types
<1>7. coins'[p] = paid.purse /\ bank_coins'[p] = more /\ corpse'[p] = corpse[p]
      /\ ledger'[p] = ledger[p] /\ issued' = issued
  BY <1>5 DEF IInv, Types
<1> QED
  BY <1>2, <1>3, <1>4, <1>6, <1>7, At, OnlyAtInv

LEMMA WithdrawInv ==
  ASSUME IInv, NEW p \in Players, Withdraw(p)
  PROVE  IInv'
<1>1. PICK want \in Amounts :
        /\ Spend(bank_coins[p], Worth(want)).paid
        /\ bank_coins' = [bank_coins EXCEPT ![p] = Spend(bank_coins[p], Worth(want)).purse]
        /\ coins' = [coins EXCEPT ![p] = add_each(@, want)]
  BY DEF Withdraw
<1> DEFINE paid == Spend(bank_coins[p], Worth(want))
           more == add_each(coins[p], want)
<1>2. want \in Purse /\ Worth(want) \in Nat
  BY AmountsType, WorthNat DEF Purse
<1>3. paid.purse \in Purse /\ Worth(paid.purse) = Worth(bank_coins[p]) - Worth(want)
  BY <1>1, <1>2, At, SpendIs
<1>4. more \in Purse /\ Worth(more) = Worth(coins[p]) + Worth(want)
  BY <1>2, At, AddPurse
<1>5. /\ bank_coins' = [bank_coins EXCEPT ![p] = paid.purse] /\ coins' = [coins EXCEPT ![p] = more]
      /\ UNCHANGED <<goods, autosplit, bags, corpse, ledger, issued>>
  BY <1>1 DEF Withdraw
<1> HIDE DEF paid, more
<1>6. OnlyAt(p)
  BY <1>3, <1>4, <1>5, At DEF OnlyAt, IInv, Types
<1>7. bank_coins'[p] = paid.purse /\ coins'[p] = more /\ corpse'[p] = corpse[p]
      /\ ledger'[p] = ledger[p] /\ issued' = issued
  BY <1>5 DEF IInv, Types
<1> QED
  BY <1>2, <1>3, <1>4, <1>6, <1>7, At, OnlyAtInv

LEMMA ExchangeInv ==
  ASSUME IInv, NEW p \in Players, Exchange(p)
  PROVE  IInv'
<1>1. PICK from \in Tiers, to \in Tiers : from # to /\ \E qty \in 1 .. coins[p][from] :
        coins' = [coins EXCEPT ![p] = Exchanged(@, from, to, qty)]
  BY DEF Exchange
<1>2. PICK qty \in 1 .. coins[p][from] :
        coins' = [coins EXCEPT ![p] = Exchanged(@, from, to, qty)]
  BY <1>1
<1> DEFINE purse == Exchanged(coins[p], from, to, qty)
<1>3. purse \in Purse /\ Worth(purse) = Worth(coins[p])
  <2>1. coins[p] \in Purse
    BY At
  <2> QED
    BY <1>1, <2>1, ExchangedSame
<1>4. /\ coins' = [coins EXCEPT ![p] = purse]
      /\ UNCHANGED <<bank_coins, goods, autosplit, bags, corpse, ledger, issued>>
  BY <1>2 DEF Exchange
<1> HIDE DEF purse
<1>5. OnlyAt(p)
  BY <1>3, <1>4, At DEF OnlyAt, IInv, Types
<1>6. coins'[p] = purse /\ bank_coins'[p] = bank_coins[p] /\ corpse'[p] = corpse[p]
      /\ ledger'[p] = ledger[p] /\ issued' = issued
  BY <1>4 DEF IInv, Types
<1> QED
  BY <1>3, <1>5, <1>6, At, OnlyAtInv

LEMMA GiveCoinsInv ==
  ASSUME IInv, NEW p \in Players, GiveCoins(p)
  PROVE  IInv'
<1>1. PICK g \in Grants :
        LET after == Granted(coins[p], g)
            gained == Worth(after) - Worth(coins[p])
        IN /\ issued + gained <= MaxIssued
           /\ coins' = [coins EXCEPT ![p] = after]
           /\ ledger' = [ledger EXCEPT ![p] = @ + gained]
           /\ issued' = issued + gained
  BY DEF GiveCoins
<1> DEFINE after == Granted(coins[p], g)
           gained == Worth(after) - Worth(coins[p])
<1>2. after \in Purse
  <2>1. \A i \in Tiers : coins[p][i] + g[i] \in Int
    BY At, GrantsType DEF Purse
  <2>2. ASSUME NEW n \in Int
        PROVE  Max({0, n}) \in Nat
    <3>1. \E x \in {0, n} : \A y \in {0, n} : x >= y
      OBVIOUS
    <3> QED
      BY <3>1 DEF Max
  <2> QED
    BY <2>1, <2>2 DEF Granted, Purse
<1>3. gained \in Int /\ Worth(after) \in Nat
  BY <1>2, At, WorthNat
<1>4. /\ coins' = [coins EXCEPT ![p] = after] /\ ledger' = [ledger EXCEPT ![p] = @ + gained]
      /\ issued' = issued + gained /\ issued + gained <= MaxIssued
      /\ UNCHANGED <<bank_coins, goods, autosplit, bags, corpse>>
  BY <1>1 DEF GiveCoins
<1>5. Worth(after) = Worth(coins[p]) + gained
  BY <1>3, At
<1> HIDE DEF after, gained
<1>6. OnlyAt(p)
  BY <1>2, <1>3, <1>4, At DEF OnlyAt, IInv, Types
<1>7. coins'[p] = after /\ bank_coins'[p] = bank_coins[p] /\ corpse'[p] = corpse[p]
      /\ ledger'[p] = ledger[p] + gained
  BY <1>4 DEF IInv, Types
<1>8. Worth(coins'[p]) + Worth(bank_coins'[p]) = ledger'[p]
  BY <1>3, <1>5, <1>7, At
<1>9. (ledger'[p] + Worth(corpse'[p])) - (ledger[p] + Worth(corpse[p])) = issued' - issued
  <2>1. issued' = issued + gained
    BY <1>4
  <2> QED
    BY <1>3, <1>7, <2>1, At
<1> QED
  BY <1>6, <1>8, <1>9, OnlyAtInv

LEMMA MakeCorpseInv ==
  ASSUME IInv, NEW p \in Players, MakeCorpse(p)
  PROVE  IInv'
<1> DEFINE heap == add_each(corpse[p], coins[p])
           n == Worth(coins[p])
<1>1. heap \in Purse /\ Worth(heap) = Worth(corpse[p]) + n
  BY At, AddPurse
<1>2. /\ corpse' = [corpse EXCEPT ![p] = heap] /\ coins' = [coins EXCEPT ![p] = ZERO]
      /\ ledger' = [ledger EXCEPT ![p] = @ - n]
      /\ UNCHANGED <<bank_coins, goods, autosplit, bags, issued>>
  BY DEF MakeCorpse
<1>3. n \in Nat /\ n = Worth(coins[p])
  BY At
<1> HIDE DEF heap, n
<1>4. OnlyAt(p)
  BY <1>1, <1>2, <1>3, At, ZeroPurse DEF OnlyAt, IInv, Types
<1>5. coins'[p] = ZERO /\ bank_coins'[p] = bank_coins[p] /\ corpse'[p] = heap
      /\ ledger'[p] = ledger[p] - n /\ issued' = issued
  BY <1>2 DEF IInv, Types
<1> QED
  BY <1>1, <1>3, <1>4, <1>5, At, ZeroPurse, OnlyAtInv

LEMMA LootCorpseInv ==
  ASSUME IInv, NEW p \in Players, LootCorpse(p)
  PROVE  IInv'
<1> DEFINE purse == add_each(coins[p], corpse[p])
           n == Worth(corpse[p])
<1>1. purse \in Purse /\ Worth(purse) = Worth(coins[p]) + n
  BY At, AddPurse
<1>2. /\ corpse' = [corpse EXCEPT ![p] = ZERO] /\ coins' = [coins EXCEPT ![p] = purse]
      /\ ledger' = [ledger EXCEPT ![p] = @ + n]
      /\ UNCHANGED <<bank_coins, goods, autosplit, bags, issued>>
  BY DEF LootCorpse
<1>3. n \in Nat /\ n = Worth(corpse[p])
  BY At
<1> HIDE DEF purse, n
<1>4. OnlyAt(p)
  BY <1>1, <1>2, <1>3, At, ZeroPurse DEF OnlyAt, IInv, Types
<1>5. coins'[p] = purse /\ bank_coins'[p] = bank_coins[p] /\ corpse'[p] = ZERO
      /\ ledger'[p] = ledger[p] + n /\ issued' = issued
  BY <1>2 DEF IInv, Types
<1> QED
  BY <1>1, <1>3, <1>4, <1>5, At, ZeroPurse, OnlyAtInv

LEMMA DecayCorpseInv ==
  ASSUME IInv, NEW p \in Players, DecayCorpse(p)
  PROVE  IInv'
<1> DEFINE n == Worth(corpse[p])
<1>1. /\ corpse' = [corpse EXCEPT ![p] = ZERO] /\ issued' = issued - n
      /\ UNCHANGED <<coins, bank_coins, goods, autosplit, bags, ledger>>
  BY DEF DecayCorpse
<1>2. n \in Nat /\ n = Worth(corpse[p])
  BY At
<1> HIDE DEF n
<1>3. OnlyAt(p)
  BY <1>1, <1>2, At, ZeroPurse DEF OnlyAt, IInv, Types
<1>4. coins'[p] = coins[p] /\ bank_coins'[p] = bank_coins[p] /\ corpse'[p] = ZERO
      /\ ledger'[p] = ledger[p]
  BY <1>1 DEF IInv, Types
<1> QED
  BY <1>1, <1>2, <1>3, <1>4, At, ZeroPurse, OnlyAtInv

-----------------------------------------------------------------------------
(* Bags *)

\* The coin of the bags with that of one of them changed.
LEMMA BagsAre ==
  ASSUME NEW g \in [BagIds -> Nat], NEW h \in [BagIds -> Nat], NEW b \in BagIds,
         \A x \in BagIds \ {b} : g[x] = h[x]
  PROVE  Total(h, BagIds) = Total(g, BagIds) - g[b] + h[b] /\ Total(g, BagIds) \in Nat
<1>1. \A x \in BagIds \ {b} : g[x] = h[x]
  OBVIOUS
<1>2. \A x \in BagIds : g[x] \in Int /\ h[x] \in Int
  OBVIOUS
<1>3. SumFunctionOnSet(h, BagIds) = SumFunctionOnSet(g, BagIds) - g[b] + h[b]
  BY ONLY BoundsType, b \in BagIds, <1>1, <1>2, SumOne
<1>4. SumFunctionOnSet(g, BagIds) \in Nat
  BY SumNat, BoundsType
<1> QED
  BY <1>1, <1>3, <1>4 DEF Total

\* Only a bag's coin changes, and what was issued with it.
LEMMA BagInv ==
  ASSUME IInv, NEW b \in BagIds, NEW n \in Nat, bags' = [bags EXCEPT ![b] = n],
         issued' = issued + n - bags[b], issued' <= MaxIssued,
         UNCHANGED <<coins, bank_coins, goods, autosplit, corpse, ledger>>
  PROVE  IInv'
<1>1. bags \in [BagIds -> Nat] /\ issued \in Int /\ bags[b] \in Nat
  BY DEF IInv, Types
<1>2. /\ bags' \in [BagIds -> Nat] /\ Total(bags', BagIds) = Total(bags, BagIds) - bags[b] + n
      /\ Total(bags, BagIds) \in Nat
  <2> DEFINE h == bags'
  <2>1. h \in [BagIds -> Nat] /\ h[b] = n /\ \A x \in BagIds \ {b} : bags[x] = h[x]
    BY <1>1
  <2> HIDE DEF h
  <2>2. /\ Total(h, BagIds) = Total(bags, BagIds) - bags[b] + h[b]
        /\ Total(bags, BagIds) \in Nat
    BY ONLY <1>1, <2>1, b \in BagIds, BagsAre
  <2> QED
    BY <2>1, <2>2 DEF h
<1>3. Types'
  BY <1>1, <1>2 DEF IInv, Types
<1>4. Booked(coins, bank_coins, corpse, ledger, bags, issued)
  BY BooksAre DEF IInv
<1>5. Total(Owned(ledger, corpse), Players) \in Int
  BY TotalIs DEF IInv, Types
<1> DEFINE owned == Total(Owned(ledger, corpse), Players)
<1>6. owned + Total(bags, BagIds) = issued
  BY <1>4 DEF Booked
<1> HIDE DEF owned
<1>7. owned + Total(bags', BagIds) = issued'
  BY <1>1, <1>2, <1>5, <1>6 DEF owned
<1>8. Booked(coins', bank_coins', corpse', ledger', bags', issued')
  BY <1>4, <1>7 DEF Booked, owned
<1> QED
  BY <1>3, <1>8, BooksAreAfter DEF IInv

LEMMA DropInv ==
  ASSUME IInv, NEW b \in BagIds, Drop(b)
  PROVE  IInv'
<1>1. PICK pot \in Pots :
        issued + pot <= MaxIssued /\ bags' = [bags EXCEPT ![b] = pot] /\ issued' = issued + pot
  BY DEF Drop
<1>2. pot \in Nat /\ issued \in Int /\ bags[b] = 0
  BY PricesType DEF Drop, IInv, Types
<1>3. issued' = issued + pot - bags[b]
  BY <1>1, <1>2
<1> QED
  BY <1>1, <1>2, <1>3, BagInv DEF Drop

LEMMA ExpireBagInv ==
  ASSUME IInv, NEW b \in BagIds, ExpireBag(b)
  PROVE  IInv'
<1>1. issued \in Int /\ issued <= MaxIssued /\ bags[b] \in Nat /\ MaxIssued \in Nat
  BY BoundsType DEF IInv, Types
<1>2. bags' = [bags EXCEPT ![b] = 0] /\ issued' = issued - bags[b]
  BY DEF ExpireBag
<1>3. issued' = issued + 0 - bags[b] /\ issued' <= MaxIssued
  BY <1>1, <1>2
<1> QED
  BY <1>2, <1>3, BagInv DEF ExpireBag

LEMMA LootCoinInv ==
  ASSUME IInv, NEW p \in Players, NEW b \in BagIds, LootCoin(p, b)
  PROVE  IInv'
<1> DEFINE pot == bags[b]
<1>1. PICK sharers \in SUBSET Players :
        /\ p \in sharers
        /\ coins' = [m \in Players |-> add_payout(coins[m], Share(pot, sharers, p, m))]
        /\ ledger' = [m \in Players |-> ledger[m] + Share(pot, sharers, p, m)]
  BY DEF LootCoin
<1>2. bags' = [bags EXCEPT ![b] = 0] /\ UNCHANGED <<bank_coins, goods, autosplit, corpse, issued>>
  BY DEF LootCoin
<1>3. bags \in [BagIds -> Nat] /\ pot \in Nat /\ issued \in Int
  BY DEF IInv, Types
<1> DEFINE due == [m \in Players |-> Share(pot, sharers, p, m)]
<1>4. (\A m \in Players : due[m] \in Nat) /\ SumFunctionOnSet(due, Players) = pot
  <2> HIDE DEF pot
  <2> QED
    BY <1>1, <1>3, SharesAre
<1>5. \A m \in Players : /\ coins'[m] = add_payout(coins[m], due[m])
                         /\ ledger'[m] = ledger[m] + due[m]
  BY <1>1
<1>6. DOMAIN coins' = Players /\ DOMAIN ledger' = Players /\ coins' = [m \in Players |-> coins'[m]]
      /\ ledger' = [m \in Players |-> ledger'[m]]
  BY <1>1
<1>7. /\ bags' \in [BagIds -> Nat] /\ Total(bags', BagIds) = Total(bags, BagIds) - pot
      /\ Total(bags, BagIds) \in Nat
  <2>1. /\ bags' \in [BagIds -> Nat] /\ Total(bags', BagIds) = Total(bags, BagIds) - bags[b] + 0
        /\ Total(bags, BagIds) \in Nat
    <3> DEFINE h == bags'
    <3>1. h \in [BagIds -> Nat] /\ h[b] = 0 /\ \A x \in BagIds \ {b} : bags[x] = h[x]
      BY <1>2, <1>3
    <3> HIDE DEF h
    <3>2. /\ Total(h, BagIds) = Total(bags, BagIds) - bags[b] + h[b]
          /\ Total(bags, BagIds) \in Nat
      BY ONLY <1>3, <3>1, b \in BagIds, BagsAre
    <3> QED
      BY <3>1, <3>2 DEF h
  <2> QED
    BY <1>3, <2>1
<1> HIDE DEF due, pot
<1>8. ASSUME NEW m \in Players
      PROVE  /\ coins'[m] \in Purse /\ ledger'[m] \in Int
             /\ Worth(coins'[m]) + Worth(bank_coins'[m]) = ledger'[m]
  <2>1. add_payout(coins[m], due[m]) \in Purse
        /\ Worth(add_payout(coins[m], due[m])) = Worth(coins[m]) + due[m]
    BY <1>4, At, PayoutPurse
  <2>2. due[m] \in Nat
    BY <1>4
  <2> QED
    BY <1>2, <1>5, <2>1, <2>2, At
<1>9. Types'
  BY <1>2, <1>6, <1>7, <1>8 DEF IInv, Types
<1>10. Booked(coins, bank_coins, corpse, ledger, bags, issued)
  BY BooksAre DEF IInv
<1> DEFINE f == Owned(ledger, corpse)
           g == Owned(ledger', corpse')
<1>11. /\ \A m \in Players : f[m] \in Int /\ f[m] = ledger[m] + Worth(corpse[m])
       /\ Total(f, Players) \in Int
  BY TotalIs DEF IInv, Types
<1>12. \A m \in Players : g[m] = ledger'[m] + Worth(corpse'[m])
  BY DEF Owned
<1>13. \A m \in Players : f[m] \in Int /\ due[m] \in Int /\ g[m] = f[m] + due[m]
  BY <1>2, <1>4, <1>5, <1>11, <1>12, At
<1> HIDE DEF f, g
<1>14. SumFunctionOnSet(g, Players) = SumFunctionOnSet(f, Players) + SumFunctionOnSet(due, Players)
  BY ONLY BoundsType, <1>13, SumBoth
<1>15. Total(g, Players) + Total(bags', BagIds) = issued'
  <2>1. Total(g, Players) = Total(f, Players) + pot
    BY <1>4, <1>14 DEF Total
  <2>2. Total(f, Players) + Total(bags, BagIds) = issued
    BY <1>10 DEF Booked, f
  <2>3. issued' = issued
    BY <1>2
  <2> QED
    BY <1>3, <1>7, <1>11, <2>1, <2>2, <2>3
<1>16. Booked(coins', bank_coins', corpse', ledger', bags', issued')
  BY <1>8, <1>15 DEF Booked, g
<1> QED
  BY <1>9, <1>16, BooksAreAfter DEF IInv

-----------------------------------------------------------------------------
(* The theorems *)

LEMMA StepIInv ==
  ASSUME IInv, [Next]_vars
  PROVE  IInv'
<1>1. ASSUME NEW p \in Players,
             \/ Buy(p) \/ Sell(p) \/ Find(p) \/ Deposit(p) \/ Withdraw(p) \/ Exchange(p)
             \/ SetAutosplit(p) \/ GiveCoins(p)
             \/ MakeCorpse(p) \/ LootCorpse(p) \/ DecayCorpse(p)
      PROVE  IInv'
  BY <1>1, BuyInv, SellInv, FindInv, DepositInv, WithdrawInv, ExchangeInv, SetAutosplitInv,
     GiveCoinsInv, MakeCorpseInv, LootCorpseInv, DecayCorpseInv
<1>2. ASSUME NEW b \in BagIds, Drop(b) \/ ExpireBag(b)
      PROVE  IInv'
  BY <1>2, DropInv, ExpireBagInv
<1>3. ASSUME NEW p \in Players, NEW b \in BagIds, LootCoin(p, b)
      PROVE  IInv'
  BY <1>3, LootCoinInv
<1>4. CASE UNCHANGED vars
  BY <1>4 DEF vars, IInv, Types, BooksBalance
<1> QED
  BY <1>1, <1>2, <1>3, <1>4 DEF Next

LEMMA Invariant == Spec => []IInv
<1>1. IInv /\ [Next]_vars => IInv'
  BY StepIInv
<1> QED
  BY InitIInv, <1>1, PTL DEF Spec

\* The books balance at all times: breaking, changing, splitting, dropping and
\* moving coin makes and loses none (vendors, bank, bags, corpses, exchange).
THEOREM CoinBalances == Spec => []BooksBalance
<1>1. IInv => BooksBalance
  BY DEF IInv
<1> QED
  BY <1>1, Invariant, PTL

\* No purse holds less than no coins of a tier, no row total and no issue is
\* below naught: what is taken out of a purse was in it.
THEOREM TypeCorrect == Spec => []TypeOK
<1>1. ASSUME IInv
      PROVE  TypeOK
  <2>1. \A p \in Players : ledger[p] \in Nat /\ Worth(corpse[p]) \in Nat
    BY <1>1, At
  <2>2. ledger \in [Players -> Nat]
    BY <1>1, <2>1 DEF IInv, Types
  <2> DEFINE f == Owned(ledger, corpse)
  <2>3. \A p \in Players : f[p] \in Nat
    BY <2>1 DEF Owned
  <2>4. SumFunctionOnSet(f, Players) \in Nat
    <3> HIDE DEF f
    <3> QED
      BY <2>3, SumNat, BoundsType
  <2>5. Total(bags, BagIds) \in Nat
    BY <1>1, TotalIs DEF IInv, Types
  <2>6. Total(f, Players) + Total(bags, BagIds) = issued
    BY <1>1, BooksAre DEF IInv, Booked
  <2> HIDE DEF f
  <2>7. issued \in Nat
    BY <2>4, <2>5, <2>6 DEF Total
  <2>8. issued \in 0 .. MaxIssued
    BY <1>1, <2>7, BoundsType DEF IInv, Types
  <2> QED
    BY <1>1, <2>2, <2>8 DEF IInv, Types, TypeOK
<1>2. IInv => TypeOK
  BY <1>1
<1> QED
  BY <1>2, Invariant, PTL

\* Every purse of the game pays what is asked of it to the copper, and is
\* disturbed no more than by the change of one broken coin (Coins::spend).
THEOREM SpendsExactly == Spec => []SpendSound
<1>1. ASSUME IInv
      PROVE  SpendSound
  <2>1. ASSUME NEW p \in Players, NEW w \in {coins[p], bank_coins[p]},
               NEW cost \in 0 .. MaxIssued + 1
        PROVE  PaysExactly(w, cost)
    <3>1. w \in Purse
      BY <1>1, At
    <3>2. cost \in Nat
      BY BoundsType
    <3> QED
      BY <3>1, <3>2, ExactPay
  <2> QED
    BY <2>1 DEF SpendSound
<1>2. IInv => SpendSound
  BY <1>1
<1> QED
  BY <1>2, Invariant, PTL

\* Whatever a purse holds and whatever is asked of it, spend pays it exactly or
\* not at all, with the change of at most one coin: without the bounds of a run.
THEOREM PaysAnyCost == \A w \in Purse : \A cost \in Nat : PaysExactly(w, cost)
BY ExactPay

=============================================================================
