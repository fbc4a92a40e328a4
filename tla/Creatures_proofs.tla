-------------------------- MODULE Creatures_proofs --------------------------
(***************************************************************************)
(* Creatures and pets, for any number of players, camps and bodies.        *)
(*                                                                         *)
(* The invariant is a conjunction of parts, each a predicate of the table  *)
(* of creatures and of what else it speaks about, so that one lemma per    *)
(* way of editing the table (a body added, a body taken out, bodies        *)
(* reshaped in place) serves every action that edits it so.  The parts no  *)
(* run checks by name are what the others rest on: who holds a camp's      *)
(* point when a pet goes (Tied), and what a queued blow may still assume   *)
(* about both its ends when it lands (Queued).                             *)
(***************************************************************************)
EXTENDS Creatures, FiniteSetTheorems, WellFoundedInduction, TLAPS

-----------------------------------------------------------------------------
(* The invariant, in the parts a step may disturb *)

Typed(cs) == cs \in [Ids -> Creature \cup {None}]

\* A warder is somebody's; a pet that was not charmed holds no camp's point.
Tied(cs) ==
  \A i \in Ids : cs[i] # None =>
    /\ cs[i].warder => cs[i].owner # None
    /\ cs[i].owner # None /\ ~ cs[i].charmed => cs[i].point = None

\* The points that are due are held by nobody, the others by one body each.
Camps(cs, free) ==
  /\ \A i \in Ids : cs[i] # None => cs[i].point \notin free
  /\ \A i, j \in Ids :
       cs[i] # None /\ cs[j] # None /\ cs[i].point = cs[j].point /\ cs[i].point # None => i = j
  /\ \A pt \in Points \ free : \E i \in Ids : cs[i] # None /\ cs[i].point = pt

\* The players a body is bound to: an owner who may have it, and the casters of
\* its DoTs, who are in the world and not dead.
Beside(c, stay) == stay = "in" \/ (stay = "linkdead" /\ c.warder)

Bound(cs, pres, lf) ==
  \A i \in Ids : cs[i] # None =>
    /\ cs[i].owner # None => Beside(cs[i], pres[cs[i].owner])
    /\ \A p \in cs[i].dots : pres[p] # "out" /\ lf[p] # "dead"

\* No living body is after a dead player.
Forgotten(cs, lf) ==
  \A i \in Ids : cs[i] # None /\ cs[i].state # "Dead" /\ cs[i].target \in Players =>
    lf[cs[i].target] # "dead"

\* Blows are queued in one pass only.  Whoever strikes is there and does not
\* evade; whoever is struck is there, and is a pet if a mob strikes it.
Queued(cs, blows, ps) ==
  \A h \in blows :
    /\ ps = "blows"
    /\ cs[h[1]] # None /\ ~ Evading(cs[h[1]])
    /\ h[2] \in Ids => cs[h[2]] # None
    /\ h[2] \in Ids /\ ~ IsOwned(cs[h[1]]) => IsOwned(cs[h[2]])

Rest ==
  /\ due \subseteq Points
  /\ present \in [Players -> {"out", "in", "linkdead"}]
  /\ life \in [Players -> {"alive", "down", "dead"}]
  /\ last \in [Players -> Anyone \cup {None}]
  /\ retreat \subseteq Players
  /\ pass \in Passes
  /\ hits \subseteq Ids \X Anyone

IInv ==
  /\ Rest
  /\ Typed(creatures)
  /\ Tied(creatures)
  /\ Camps(creatures, due)
  /\ Bound(creatures, present, life)
  /\ Forgotten(creatures, life)
  /\ Queued(creatures, hits, pass)

-----------------------------------------------------------------------------
(* Folds: what the bodies do together *)

\* A set of naturals that is not empty has a least element.
LEMMA Least ==
  ASSUME NEW T \in SUBSET Nat, T # {}
  PROVE  \E x \in T : \A y \in T : x <= y
<1> DEFINE R == {ss \in Nat \X Nat : ss[1] < ss[2]}
<1>1. IsWellFoundedOn(R, Nat)
  BY NatLessThanWellFounded DEF OpToRel
<1> HIDE DEF R
<1>2. PICK x \in T : \A y \in T : ~ (<<y, x>> \in R)
  BY <1>1, WFMin
<1>3. \A y \in T : ~ (y < x)
  BY <1>2 DEF R
<1> QED
  BY <1>3

\* Induction over the naturals, for a set in place of a predicate.
LEMMA Induction ==
  ASSUME NEW T, 0 \in T, \A n \in Nat : n \in T => n + 1 \in T
  PROVE  Nat \subseteq T
<1> DEFINE M == {n \in Nat : n \notin T}
<1> SUFFICES ASSUME M # {} PROVE FALSE
  OBVIOUS
<1>1. PICK m \in M : \A y \in M : m <= y
  BY Least
<1>2. m # 0 /\ m - 1 \in Nat /\ m - 1 \notin M
  BY <1>1
<1> QED
  BY <1>1, <1>2

\* Taking an element out of a subset of a finite set.
LEMMA Smaller ==
  ASSUME NEW S, IsFiniteSet(S), NEW s \in SUBSET S
  PROVE  /\ Cardinality(s) \in Nat
         /\ s = {} <=> Cardinality(s) = 0
         /\ \A x \in s : Cardinality(s \ {x}) = Cardinality(s) - 1
BY FS_Subset, FS_CardinalityType, FS_EmptySet, FS_RemoveElement

\* Induction over the subsets of a finite set.
LEMMA SubsetInduction ==
  ASSUME NEW S, IsFiniteSet(S), NEW T, {} \in T,
         \A s \in SUBSET S : s # {} /\ (\A x \in s : s \ {x} \in T) => s \in T
  PROVE  SUBSET S \subseteq T
<1> DEFINE P(n) == \A s \in SUBSET S : Cardinality(s) = n => s \in T
           N == {n \in Nat : P(n)}
<1>1. P(0)
  BY Smaller
<1>2. ASSUME NEW n \in Nat, P(n)
      PROVE  P(n + 1)
  <2> SUFFICES ASSUME NEW s \in SUBSET S, Cardinality(s) = n + 1
               PROVE  s \in T
    OBVIOUS
  <2>1. s # {}
    BY Smaller
  <2>2. ASSUME NEW x \in s
        PROVE  s \ {x} \in T
    <3>1. s \ {x} \in SUBSET S /\ Cardinality(s \ {x}) = n
      BY Smaller
    <3> QED
      BY <1>2, <3>1
  <2> QED
    BY <2>1, <2>2
<1> HIDE DEF P
<1>3. 0 \in N /\ \A n \in Nat : n \in N => n + 1 \in N
  BY <1>1, <1>2
<1> HIDE DEF N
<1>4. Nat \subseteq N
  BY <1>3, Induction
<1> QED
  BY <1>4, Smaller DEF N, P

\* g folds F over the subsets of S, taking them apart as C picks.
Folding(S, C, base, F, g) ==
  /\ g = [s \in SUBSET S |-> g[s]]
  /\ g[{}] = base
  /\ \A s \in SUBSET S : s # {} => g[s] = F[<<C[s], g[s \ {C[s]}]>>]

Foldable(S, C, base, F) == \E g : Folding(S, C, base, F, g)

FoldStep(s, C, base, F, g) == IF s = {} THEN base ELSE F[<<C[s], g[s \ {C[s]}]>>]

\* Such a function exists: without this the CHOOSE behind a recursive function
\* says nothing.
LEMMA FoldExists ==
  ASSUME NEW S, IsFiniteSet(S), NEW C, \A s \in SUBSET S : s # {} => C[s] \in s,
         NEW base, NEW F
  PROVE  Foldable(S, C, base, F)
<1> DEFINE D(n) == {s \in SUBSET S : Cardinality(s) <= n}
           Good(n, g) == g = [s \in D(n) |-> FoldStep(s, C, base, F, g)]
           P(n) == \E g : Good(n, g)
           T == {n \in Nat : P(n)}
<1>1. P(0)
  <2> DEFINE g == [s \in D(0) |-> base]
  <2>1. \A s \in D(0) : s = {}
    BY Smaller
  <2>2. Good(0, g)
    BY <2>1 DEF FoldStep
  <2> QED
    BY <2>2
<1>2. ASSUME NEW n \in Nat, P(n)
      PROVE  P(n + 1)
  <2>1. PICK g : Good(n, g)
    BY <1>2
  <2> DEFINE h == [s \in D(n + 1) |-> FoldStep(s, C, base, F, g)]
  <2>2. \A s \in D(n) : s \in D(n + 1) /\ h[s] = g[s]
    BY <2>1, Smaller
  <2>3. \A s \in D(n + 1) : s # {} => s \ {C[s]} \in D(n)
    BY Smaller
  <2>4. \A s \in D(n + 1) : FoldStep(s, C, base, F, g) = FoldStep(s, C, base, F, h)
    BY <2>2, <2>3 DEF FoldStep
  <2>5. Good(n + 1, h)
    BY <2>4
  <2> QED
    BY <2>5
<1>3. Cardinality(S) \in T
  <2> HIDE DEF P
  <2>1. 0 \in T /\ \A n \in Nat : n \in T => n + 1 \in T
    BY <1>1, <1>2
  <2> HIDE DEF T
  <2>2. Nat \subseteq T
    BY <2>1, Induction
  <2> QED
    BY <2>2, FS_CardinalityType
<1>4. D(Cardinality(S)) = SUBSET S
  BY FS_Subset
<1>5. PICK g : Good(Cardinality(S), g)
  BY <1>3
<1>6. Folding(S, C, base, F, g)
  BY <1>4, <1>5 DEF FoldStep, Folding
<1> QED
  BY <1>6 DEF Foldable

LEMMA ExtendedBy ==
  ASSUME NEW i, NEW done, NEW f \in Extended(i, done)
  PROVE  \E d \in done, r \in Outcomes(i) : f = [d EXCEPT ![i] = r]
BY DEF Extended

\* RunAi's choice: every living body does one of the things it may do, and
\* every other stays as it is.
LEMMA TogetherDoes ==
  ASSUME NEW all \in Together
  PROVE  \A i \in Ids : IF i \in Living THEN all[i] \in Outcomes(i)
                        ELSE all[i] = <<creatures[i], None>>
<1> DEFINE base == {[i \in Ids |-> <<creatures[i], None>>]}
           X == {<<creatures[i], None>> : i \in Ids} \cup UNION {Outcomes(i) : i \in Living}
           A == SUBSET [Ids -> X]
           C == [s \in SUBSET Living |-> CHOOSE x \in s : TRUE]
           F == [p \in Living \X A |-> Extended(p[1], p[2])]
           it == CHOOSE g : g = [s \in SUBSET Living |->
                   IF s = {} THEN base
                   ELSE Extended(CHOOSE x \in s : TRUE, g[s \ {CHOOSE x \in s : TRUE}])]
<1>1. Together = it[Living]
  BY DEF Together, FoldSet, MapThenFoldSet
<1>2. IsFiniteSet(Living) /\ Living \subseteq Ids
  BY IdsFinite, FS_Subset DEF Living, Here
<1>3. \A s \in SUBSET Living : s # {} => C[s] \in s
  OBVIOUS
<1>4. base \in A
  OBVIOUS
<1>5. \A i \in Living : \A done \in A : Extended(i, done) \in A
  <2> SUFFICES ASSUME NEW i \in Living, NEW done \in A, NEW d \in done, NEW r \in Outcomes(i)
               PROVE  [d EXCEPT ![i] = r] \in [Ids -> X]
    BY DEF Extended
  <2>1. d \in [Ids -> X] /\ r \in X
    OBVIOUS
  <2> HIDE DEF X
  <2> QED
    BY <2>1
<1> HIDE DEF C
<1>6. PICK g : Folding(Living, C, base, F, g)
  <2> HIDE DEF F, base
  <2> QED
    BY <1>2, <1>3, FoldExists DEF Foldable
<1>7. \A s \in SUBSET Living : g[s] \in A
  <2> DEFINE T == {s \in SUBSET Living : g[s] \in A}
  <2> HIDE DEF A, base, F
  <2>1. {} \in T
    BY <1>4, <1>6 DEF Folding
  <2>2. ASSUME NEW s \in SUBSET Living, s # {}, \A x \in s : s \ {x} \in T
        PROVE  s \in T
    <3>1. C[s] \in s /\ s \ {C[s]} \in T
      BY <1>3, <2>2
    <3>2. g[s] = F[<<C[s], g[s \ {C[s]}]>>]
      BY <1>6, <2>2 DEF Folding
    <3>3. g[s] = Extended(C[s], g[s \ {C[s]}])
      BY <3>1, <3>2 DEF F
    <3> QED
      BY <1>5, <3>1, <3>3
  <2> HIDE DEF T
  <2>3. SUBSET Living \subseteq T
    BY <1>2, <2>1, <2>2, SubsetInduction
  <2> QED
    BY <2>3 DEF T
<1> DEFINE Sol(f) == f = [s \in SUBSET Living |->
                   IF s = {} THEN base
                   ELSE Extended(CHOOSE x \in s : TRUE, f[s \ {CHOOSE x \in s : TRUE}])]
<1>8. Sol(g)
  <2>1. ASSUME NEW s \in SUBSET Living, s # {}
        PROVE  g[s] = Extended(CHOOSE x \in s : TRUE, g[s \ {CHOOSE x \in s : TRUE}])
    <3> HIDE DEF A, base, F
    <3>1. C[s] = CHOOSE x \in s : TRUE
      BY DEF C
    <3>2. g[s] = F[<<C[s], g[s \ {C[s]}]>>]
      BY <1>6, <2>1 DEF Folding
    <3>3. g[s] = Extended(C[s], g[s \ {C[s]}])
      BY <1>3, <1>7, <2>1, <3>2 DEF F
    <3> QED
      BY <3>1, <3>3
  <2> HIDE DEF A, base, F
  <2>2. g = [s \in SUBSET Living |-> g[s]] /\ g[{}] = base
    BY <1>6 DEF Folding
  <2> QED
    BY <2>1, <2>2
<1>9. Sol(it)
  <2> HIDE DEF base
  <2> QED
    BY <1>8
<1> DEFINE Does(s, f) == \A i \in Ids : IF i \in s THEN f[i] \in Outcomes(i)
                                        ELSE f[i] = <<creatures[i], None>>
           T == {s \in SUBSET Living : \A f \in it[s] : f \in [Ids -> X] /\ Does(s, f)}
<1>10. {} \in T
  <2> HIDE DEF it
  <2>1. it[{}] = base
    BY <1>9
  <2> QED
    BY <2>1
<1>11. ASSUME NEW s \in SUBSET Living, s # {}, \A x \in s : s \ {x} \in T
       PROVE  s \in T
  <2> HIDE DEF it
  <2>1. PICK x \in s : it[s] = Extended(x, it[s \ {x}])
    <3> DEFINE x == CHOOSE x \in s : TRUE
    <3>1. x \in s
      BY <1>11
    <3>2. it[s] = Extended(x, it[s \ {x}])
      BY <1>9, <1>11
    <3> QED
      BY <3>1, <3>2
  <2> SUFFICES ASSUME NEW f \in it[s]
               PROVE  f \in [Ids -> X] /\ Does(s, f)
    OBVIOUS
  <2>2. f \in Extended(x, it[s \ {x}])
    BY <2>1
  <2>3. PICK d \in it[s \ {x}], r \in Outcomes(x) : f = [d EXCEPT ![x] = r]
    BY <2>2, ExtendedBy
  <2>4. d \in [Ids -> X] /\ Does(s \ {x}, d) /\ r \in X /\ x \in Ids
    BY <1>2, <1>11
  <2> HIDE DEF X
  <2>5. f \in [Ids -> X]
    BY <2>3, <2>4
  <2>6. Does(s, f)
    BY <2>3, <2>4
  <2> QED
    BY <2>5, <2>6
<1>12. SUBSET Living \subseteq T
  <2> HIDE DEF T
  <2> QED
    BY <1>2, <1>10, <1>11, SubsetInduction
<1> QED
  <2> HIDE DEF it, X
  <2> QED
    BY <1>1, <1>12

-----------------------------------------------------------------------------
(* What may become of one body *)

\* The same body: what it was made as does not change, and no DoT is added.
Kin(c, d) ==
  /\ d \in Creature
  /\ d.point = c.point /\ d.owner = c.owner /\ d.warder = c.warder /\ d.charmed = c.charmed
  /\ d.dots \subseteq c.dots

LEMMA KinTrans ==
  ASSUME NEW c, NEW d, NEW e, Kin(c, d), Kin(d, e)
  PROVE  Kin(c, e)
BY DEF Kin

States == {"Idle", "Chase", "Attack", "Leash", "Dead"}

LEMMA EnterKin ==
  ASSUME NEW c \in Creature, NEW s \in States
  PROVE  /\ Kin(c, Enter(c, s))
         /\ Enter(c, s).state = s /\ Enter(c, s).hp = c.hp
         /\ Enter(c, s).target \in {c.target, None}
         /\ Enter(c, s).stuck => c.stuck /\ c.state = s
<1>1. CASE c.state = s
  BY <1>1 DEF Enter, Kin
<1> DEFINE d == [c EXCEPT !.state = s, !.stuck = FALSE]
<1>2. d \in Creature /\ Kin(c, d) /\ d.state = s /\ d.hp = c.hp /\ d.target = c.target /\ ~ d.stuck
  BY DEF Kin, Creature, States
<1>3. CASE c.state # s /\ s = "Leash"
  <2>1. Enter(c, s) = [d EXCEPT !.dots = {}]
    BY <1>3 DEF Enter
  <2> HIDE DEF d
  <2> QED
    BY <1>2, <2>1 DEF Kin, Creature
<1>4. CASE c.state # s /\ s = "Dead"
  <2>1. Enter(c, s) = [d EXCEPT !.dots = {}, !.threat = {}, !.target = None,
                                !.stance = "Follow"]
    BY <1>4 DEF Enter
  <2> HIDE DEF d
  <2> QED
    BY <1>2, <2>1, ZenonT(40) DEF Kin, Creature
<1>5. CASE c.state # s /\ s \notin {"Leash", "Dead"}
  <2>1. Enter(c, s) = d
    BY <1>5 DEF Enter
  <2> HIDE DEF d
  <2> QED
    BY <1>2, <2>1
<1> QED
  BY <1>1, <1>3, <1>4, <1>5

LEMMA StruckKin ==
  ASSUME NEW c \in Creature, NEW d \in 0 .. Full
  PROVE  /\ Kin(c, Struck(c, d))
         /\ Struck(c, d).state \in {c.state, "Dead"}
         /\ Struck(c, d).target \in {c.target, None}
         /\ Struck(c, d).stuck => c.stuck /\ Struck(c, d).state = c.state
<1> DEFINE h == [c EXCEPT !.hp = Less(c.hp, d)]
<1>1. h \in Creature /\ Kin(c, h) /\ h.state = c.state /\ h.target = c.target /\ h.stuck = c.stuck
  BY FullType DEF Less, Creature, Kin
<1> HIDE DEF h
<1>2. Struck(c, d) = IF h.hp = 0 THEN Enter(h, "Dead") ELSE h
  BY DEF Struck, h
<1> QED
  BY <1>1, <1>2, EnterKin, KinTrans DEF States

LEMMA AngeredKin ==
  ASSUME NEW c \in Creature, NEW by \in Anyone
  PROVE  /\ Kin(c, Angered(c, by))
         /\ Angered(c, by).state = c.state /\ Angered(c, by).target = c.target
         /\ Angered(c, by).stuck = c.stuck /\ Angered(c, by).stance = c.stance
BY DEF Angered, Kin, Creature

\* A blow at a body, whoever strikes.
LEMMA BlowKin ==
  ASSUME NEW c \in Creature, NEW by \in Anyone, NEW d \in 0 .. Full
  PROVE  LET e == Struck(Angered(c, by), d) IN
         /\ Kin(c, e)
         /\ e.state \in {c.state, "Dead"} /\ e.target \in {c.target, None}
         /\ e.stuck => c.stuck /\ e.state = c.state
<1>1. Angered(c, by) \in Creature
  BY AngeredKin DEF Kin
<1> QED
  BY <1>1, AngeredKin, StruckKin, KinTrans

LEMMA BledKin ==
  ASSUME NEW c \in Creature, NEW d \in Bled(c)
  PROVE  /\ Kin(c, d) /\ d.state = c.state /\ d.target = c.target /\ d.stuck = c.stuck
         /\ d.stance = c.stance
         /\ Evading(c) => d.hp = c.hp
<1> DEFINE Good(e) ==
      /\ Kin(c, e) /\ e.state = c.state /\ e.target = c.target /\ e.stuck = c.stuck
      /\ e.stance = c.stance
      /\ Evading(c) => e.hp = c.hp
<1>1. ASSUME NEW k \in c.dots, NEW n \in 0 .. Full
      PROVE  Good(Ticks(c, k, n))
  <2>1. k \in Anyone /\ c.threat \in SUBSET Anyone /\ Less(c.hp, n) \in 0 .. Full
    BY FullType DEF Creature, Anyone, Less
  <2> QED
    BY <2>1 DEF Kin, Creature, Ticks
<1>2. ASSUME NEW e, Good(e), NEW k
      PROVE  Good([e EXCEPT !.dots = @ \ {k}])
  <2>1. e \in Creature
    BY <1>2 DEF Kin
  <2>2. e.dots \ {k} \in SUBSET Players
    BY <2>1 DEF Creature
  <2>3. [e EXCEPT !.dots = @ \ {k}] \in Creature
    BY <2>1, <2>2 DEF Creature
  <2> QED
    BY <1>2, <2>1, <2>3 DEF Kin, Creature
<1>3. Good(c)
  BY DEF Kin
<1> HIDE DEF Good
<1>4. \A t \in Ticked(c) : Good(t)
  BY <1>1 DEF Ticked
<1>5. d = c \/ d \in Ticked(c) \/ \E t \in Ticked(c), k \in c.dots : d = [t EXCEPT !.dots = @ \ {k}]
  BY DEF Bled
<1>6. Good(d)
  BY <1>2, <1>3, <1>4, <1>5
<1> QED
  BY <1>6 DEF Good

\* What a living body does of its own leaves it alive, the same body and no
\* less whole, after the one it was after, after nobody or after one alive.
After(c, d) ==
  /\ Kin(c, d) /\ d.state # "Dead" /\ d.hp >= c.hp
  /\ d.target \in {c.target, None} \cup Alive

LEMMA AliveType ==
  /\ Targets \subseteq Alive
  /\ Alive \subseteq Anyone
  /\ \A t \in Alive : t \in Players => life[t] = "alive"
BY IdsDiffer DEF Targets, Alive, Anyone, Hale, InWorld, LivingPets, Living, Here

LEMMA AfterTrans ==
  ASSUME NEW c \in Creature, NEW d \in Creature, NEW e \in Creature, After(c, d), After(d, e)
  PROVE  After(c, e)
<1>1. c.hp \in Nat /\ d.hp \in Nat /\ e.hp \in Nat
  BY FullType DEF Creature
<1> QED
  BY <1>1, KinTrans DEF After

LEMMA AfterSelf ==
  ASSUME NEW c \in Creature, c.state # "Dead"
  PROVE  After(c, c)
<1>1. c.hp \in Nat
  BY FullType DEF Creature
<1> QED
  BY <1>1 DEF After, Kin

\* A new target, or none.
LEMMA AfterTarget ==
  ASSUME NEW c \in Creature, c.state # "Dead", NEW t \in Alive \cup {None}
  PROVE  /\ After(c, [c EXCEPT !.target = t])
         /\ [c EXCEPT !.target = t].state = c.state
<1>1. c.hp \in Nat /\ t \in Anyone \cup {None}
  BY FullType, AliveType DEF Creature
<1> QED
  BY <1>1 DEF After, Kin, Creature

\* A new state of the fight.
LEMMA AfterEnter ==
  ASSUME NEW c \in Creature, c.state # "Dead", NEW s \in States \ {"Dead"}
  PROVE  After(c, Enter(c, s))
<1>1. c.hp \in Nat
  BY FullType DEF Creature
<1> QED
  BY <1>1, EnterKin DEF After

LEMMA AfterTargetEnter ==
  ASSUME NEW c \in Creature, c.state # "Dead", NEW t \in Alive \cup {None},
         NEW s \in States \ {"Dead"}
  PROVE  After(c, Enter([c EXCEPT !.target = t], s))
<1> DEFINE d == [c EXCEPT !.target = t]
<1>1. After(c, d) /\ d.state # "Dead" /\ d \in Creature
  BY AfterTarget DEF After, Kin
<1> HIDE DEF d
<1>2. After(d, Enter(d, s)) /\ Enter(d, s) \in Creature
  BY <1>1, AfterEnter DEF After, Kin
<1>3. After(c, Enter(d, s))
  BY <1>1, <1>2, AfterTrans
<1> QED
  BY <1>3 DEF d

LEMMA OnOrHomeAfter ==
  ASSUME NEW c \in Creature, c.state # "Dead", NEW d \in OnOrHome(c)
  PROVE  After(c, d)
<1>1. Haters(c) \subseteq Alive
  BY AliveType DEF Haters
<1>2. \/ d = Enter([c EXCEPT !.target = None], "Leash")
      \/ \E t \in Haters(c) : d = Enter([c EXCEPT !.target = t], "Chase")
  BY DEF OnOrHome
<1> QED
  BY <1>1, <1>2, AfterTargetEnter DEF States

LEMMA SwitchedAfter ==
  ASSUME NEW c \in Creature, c.state # "Dead", NEW d \in Switched(c)
  PROVE  After(c, d) /\ d.state = c.state
<1>1. Haters(c) \subseteq Alive
  BY AliveType DEF Haters
<1>2. d = c \/ \E t \in Haters(c) : d = [c EXCEPT !.target = t]
  BY DEF Switched
<1> QED
  BY <1>1, <1>2, AfterTarget, AfterSelf

\* What a mob or a pet does and whom it hits.
Acted(c, r) ==
  /\ After(c, r[1])
  /\ \/ r[2] = None
     \/ /\ r[2] \in Alive
        /\ c.owner = None => r[2] \in Targets
        /\ ~ Evading(r[1])

LEMMA QuietActs ==
  ASSUME NEW c, NEW cs, \A d \in cs : After(c, d), NEW r \in Quiet(cs)
  PROVE  Acted(c, r)
BY DEF Quiet, Acted

LEMMA IdleActs ==
  ASSUME NEW c \in Creature, c.state # "Dead", NEW r \in Idle(c)
  PROVE  Acted(c, r)
<1> DEFINE cs == {c} \cup {Enter([c EXCEPT !.target = t], "Chase") : t \in Targets}
<1>1. \A d \in cs : After(c, d)
  BY AfterSelf, AfterTargetEnter, AliveType DEF States
<1> QED
  BY <1>1, QuietActs DEF Idle

LEMMA LeashActs ==
  ASSUME NEW c \in Creature, c.state # "Dead", NEW r \in Leash(c)
  PROVE  Acted(c, r)
<1> DEFINE h == [c EXCEPT !.hp = Full, !.threat = {}, !.dots = {}]
<1>a. c.hp \in 0 .. Full /\ Full \in 0 .. Full /\ {} \in SUBSET Anyone /\ {} \in SUBSET Players
  BY FullType DEF Creature
<1>b. h \in Creature
  BY <1>a DEF Creature
<1>1. h \in Creature /\ h.state # "Dead" /\ After(c, h)
  BY <1>a, <1>b, FullType DEF After, Kin, Creature
<1> HIDE DEF h
<1>2. After(h, Enter(h, "Idle")) /\ Enter(h, "Idle") \in Creature
  BY <1>1, AfterEnter DEF States, After, Kin
<1>3. After(c, Enter(h, "Idle"))
  BY <1>1, <1>2, AfterTrans
<1>4. \A d \in {c, Enter(h, "Idle")} : After(c, d)
  BY <1>3, AfterSelf
<1> QED
  BY <1>4, QuietActs DEF Leash, h

LEMMA FightActs ==
  ASSUME NEW c \in Creature, c.state = "Attack", c.owner = None, NEW r \in Fight(c)
  PROVE  Acted(c, r)
<1>1. CASE c.target \notin Targets
  BY <1>1, OnOrHomeAfter, QuietActs DEF Fight
<1>2. CASE c.target \in Targets /\ r \in Quiet({c, Enter(c, "Chase")})
  BY <1>2, AfterSelf, AfterEnter, QuietActs DEF States
<1>3. CASE c.target \in Targets /\ r = <<c, c.target>>
  BY <1>3, AfterSelf, AliveType DEF Acted, Evading
<1> QED
  BY <1>1, <1>2, <1>3 DEF Fight

LEMMA ChaseActs ==
  ASSUME NEW c \in Creature, c.state # "Dead", NEW r \in Chase(c)
  PROVE  Acted(c, r)
<1> DEFINE u == [c EXCEPT !.threat = @ \ {c.target}]
           Elsewhere == {[u EXCEPT !.target = t, !.stuck = FALSE] : t \in Haters(u)}
           h == [u EXCEPT !.target = None, !.threat = {}]
<1>1. c.hp \in Nat /\ u \in Creature /\ u.state # "Dead" /\ After(c, u)
  BY FullType DEF After, Kin, Creature
<1>2. h \in Creature /\ h.state # "Dead" /\ After(c, h)
  BY <1>1, ZenonT(40) DEF After, Kin, Creature
<1>3. After(c, Enter(h, "Leash"))
  <2> HIDE DEF h
  <2>1. After(h, Enter(h, "Leash")) /\ Enter(h, "Leash") \in Creature
    BY <1>2, AfterEnter DEF States, After, Kin
  <2> QED
    BY <1>2, <2>1, AfterTrans
<1>4. \A t \in Haters(u) : After(c, [u EXCEPT !.target = t, !.stuck = FALSE])
  <2> HIDE DEF u
  <2>1. Haters(u) \subseteq Alive /\ Alive \subseteq Anyone
    BY AliveType DEF Haters
  <2>2. ASSUME NEW t \in Alive, t \in Anyone
        PROVE  After(c, [u EXCEPT !.target = t, !.stuck = FALSE])
    <3> DEFINE d == [u EXCEPT !.target = t, !.stuck = FALSE]
    <3>1. d \in Creature
      BY <1>1, <2>2 DEF Creature
    <3>2. /\ d.point = u.point /\ d.owner = u.owner /\ d.warder = u.warder
          /\ d.charmed = u.charmed /\ d.dots = u.dots
          /\ d.state = u.state /\ d.hp = u.hp /\ d.target = t
      BY <1>1 DEF Creature
    <3> HIDE DEF d
    <3>3. After(u, d)
      <4>1. u.hp \in Nat
        BY <1>1, FullType DEF Creature
      <4> QED
        BY <1>1, <2>2, <3>1, <3>2, <4>1 DEF After, Kin
    <3>4. After(c, d)
      BY <1>1, <3>1, <3>3, AfterTrans
    <3> QED
      BY <3>4 DEF d
  <2> QED
    BY <2>1, <2>2
<1>5. \A b \in BOOLEAN : After(c, [c EXCEPT !.stuck = b])
  BY <1>1 DEF After, Kin, Creature
<1>6. \A d \in OnOrHome(u) : After(c, d)
  <2> HIDE DEF u
  <2> QED
    BY <1>1, OnOrHomeAfter, AfterTrans DEF After, Kin
<1>7. After(c, Enter(c, "Attack"))
  BY AfterEnter DEF States
<1>8. CASE c.target \notin Targets
  BY <1>8, OnOrHomeAfter, QuietActs DEF Chase
<1>9. CASE c.target \in Targets
  <2> DEFINE cs == OnOrHome(u) \cup {Enter(c, "Attack")}
                     \cup {[c EXCEPT !.stuck = b] : b \in BOOLEAN}
                     \cup IF c.stuck THEN Elsewhere \cup {Enter(h, "Leash")} ELSE {}
  <2>1. r \in Quiet(cs)
    BY <1>9 DEF Chase
  <2>2. \A d \in cs : After(c, d)
    <3> HIDE DEF u, h
    <3> QED
      BY <1>3, <1>4, <1>5, <1>6, <1>7
  <2> HIDE DEF cs
  <2> QED
    BY <2>1, <2>2, QuietActs
<1> QED
  BY <1>8, <1>9

LEMMA PetActs ==
  ASSUME NEW c \in Creature, c.state # "Dead", c.owner # None, NEW r \in PetMind(c)
  PROVE  Acted(c, r)
<1> DEFINE e == [c EXCEPT !.target = None]
<1>1. After(c, c) /\ After(c, e)
  BY AfterSelf, AfterTarget
<1> HIDE DEF e
<1>2. \/ \E cs \in {{e}, {c, e}, {c}} : r \in Quiet(cs)
      \/ r = <<c, c.target>> /\ c.target \in Alive
  BY DEF PetMind, e
<1>3. CASE \E cs \in {{e}, {c, e}, {c}} : r \in Quiet(cs)
  BY <1>1, <1>3, QuietActs
<1>4. CASE r = <<c, c.target>> /\ c.target \in Alive
  BY <1>1, <1>4 DEF Acted, Evading
<1> QED
  BY <1>2, <1>3, <1>4

LEMMA MindActs ==
  ASSUME NEW c \in Creature, c.state # "Dead", NEW r \in Mind(c)
  PROVE  Acted(c, r)
<1>1. CASE c.owner # None
  BY <1>1, PetActs DEF Mind
<1>2. CASE c.owner = None /\ c.state = "Idle"
  BY <1>2, IdleActs DEF Mind
<1>3. CASE c.owner = None /\ c.state = "Leash"
  BY <1>3, LeashActs DEF Mind
<1>4. ASSUME NEW d \in Switched(c), Acted(d, r), c.owner = None
      PROVE  Acted(c, r)
  <2>1. After(c, d) /\ d \in Creature /\ r[1] \in Creature /\ d.owner = None
    BY <1>4, SwitchedAfter DEF Acted, After, Kin
  <2>2. After(c, r[1])
    BY <1>4, <2>1, AfterTrans DEF Acted
  <2> QED
    BY <1>4, <2>1, <2>2 DEF Acted
<1>5. CASE c.owner = None /\ c.state = "Chase"
  <2>1. PICK d \in Switched(c) : r \in Chase(d)
    BY <1>5 DEF Mind
  <2>2. d \in Creature /\ d.state = "Chase"
    BY <1>5, SwitchedAfter DEF After, Kin
  <2> QED
    BY <1>4, <1>5, <2>1, <2>2, ChaseActs
<1>6. CASE c.owner = None /\ c.state = "Attack"
  <2>1. PICK d \in Switched(c) : r \in Fight(d)
    BY <1>6 DEF Mind
  <2>2. d \in Creature /\ d.state = "Attack" /\ d.owner = None
    BY <1>6, SwitchedAfter DEF After, Kin
  <2> QED
    BY <1>4, <1>6, <2>1, <2>2, FightActs
<1>7. c.state \in {"Idle", "Chase", "Attack", "Leash"}
  BY DEF Creature
<1> QED
  BY <1>1, <1>2, <1>3, <1>5, <1>6, <1>7

LEMMA StirredKin ==
  ASSUME Typed(creatures), NEW i \in Living, NEW c \in Stirred(i)
  PROVE  /\ Kin(creatures[i], c) /\ c.state = creatures[i].state /\ c.hp = creatures[i].hp
         /\ c.stuck = creatures[i].stuck
         /\ c.target \in {creatures[i].target, None} \cup Alive
<1> DEFINE b == creatures[i]
<1>1. b \in Creature
  BY DEF Typed, Living, Here
<1>2. Inherits(b) \in Alive \cup {None} /\ Inherits(b) \in Anyone \cup {None}
  BY AliveType DEF Inherits
<1>3. c = b \/ c = [b EXCEPT !.target = Inherits(b)]
  BY DEF Stirred
<1> HIDE DEF b
<1>4. Kin(b, c) /\ c.state = b.state /\ c.hp = b.hp /\ c.stuck = b.stuck
      /\ c.target \in {b.target, None} \cup Alive
  BY <1>1, <1>2, <1>3 DEF Kin, Creature
<1> QED
  BY <1>4 DEF b

\* A body in its tick: it stays the same body, an evader keeps its hp, and
\* what it hits is alive and, for a mob, a player or a pet.
LEMMA OutcomeDoes ==
  ASSUME Typed(creatures), NEW i \in Living, NEW r \in Outcomes(i)
  PROVE  /\ Kin(creatures[i], r[1])
         /\ Evading(creatures[i]) => r[1].hp >= creatures[i].hp
         /\ r[1].target \in {creatures[i].target, None} \cup Alive
         /\ \/ r[2] = None
            \/ /\ r[2] \in Alive
               /\ ~ IsOwned(r[1]) => r[2] \in Targets
               /\ ~ Evading(r[1])
<1> DEFINE b == creatures[i]
           Bleeding == UNION {Bled(c) : c \in Stirred(i)}
<1>1. b \in Creature /\ b.state # "Dead" /\ b.hp \in Nat
  BY FullType DEF Typed, Living, Here, Creature
<1>2. ASSUME NEW d \in Bleeding
      PROVE  /\ Kin(b, d) /\ d.state = b.state
             /\ d.target \in {b.target, None} \cup Alive
             /\ Evading(b) => d.hp = b.hp
  <2>1. PICK c \in Stirred(i) : d \in Bled(c)
    BY <1>2
  <2>2. Kin(b, c) /\ c.state = b.state /\ c.hp = b.hp /\ c.stuck = b.stuck
        /\ c.target \in {b.target, None} \cup Alive
    BY StirredKin
  <2>3. c \in Creature /\ (Evading(b) => Evading(c))
    BY <2>2 DEF Kin, Evading
  <2>4. Kin(c, d) /\ d.state = c.state /\ d.target = c.target /\ (Evading(c) => d.hp = c.hp)
    BY <2>1, <2>3, BledKin
  <2> QED
    BY <2>2, <2>3, <2>4, KinTrans
<1>3. (\E d \in Bleeding : r = <<Slain(d), None>>) \/ \E d \in Bleeding : r \in Mind(d)
  BY DEF Outcomes
<1> HIDE DEF b, Bleeding
<1>4. ASSUME NEW d \in Bleeding, r = <<Slain(d), None>>
      PROVE  /\ Kin(b, r[1])
             /\ Evading(b) => r[1].hp >= b.hp
             /\ r[1].target \in {b.target, None} \cup Alive
             /\ r[2] = None
  <2>1. d \in Creature /\ d.hp \in Nat
    BY <1>2, <1>4, FullType DEF Kin, Creature
  <2>2. Kin(d, Slain(d)) /\ Slain(d).hp = d.hp /\ Slain(d).target \in {d.target, None}
    BY <2>1, EnterKin DEF Slain, States, Kin
  <2> QED
    BY <1>1, <1>2, <1>4, <2>1, <2>2, KinTrans
<1>5. ASSUME NEW d \in Bleeding, r \in Mind(d)
      PROVE  /\ Kin(b, r[1])
             /\ Evading(b) => r[1].hp >= b.hp
             /\ r[1].target \in {b.target, None} \cup Alive
             /\ \/ r[2] = None
                \/ /\ r[2] \in Alive
                   /\ ~ IsOwned(r[1]) => r[2] \in Targets
                   /\ ~ Evading(r[1])
  <2>1. d \in Creature /\ d.state # "Dead"
    BY <1>1, <1>2, <1>5 DEF Kin
  <2>2. Acted(d, r)
    BY <1>5, <2>1, MindActs
  <2>3. Kin(d, r[1]) /\ r[1].hp >= d.hp /\ r[1].target \in {d.target, None} \cup Alive
    BY <2>2 DEF Acted, After
  <2>4. Kin(b, r[1])
    BY <1>2, <2>3, KinTrans
  <2> QED
    BY <1>2, <2>2, <2>3, <2>4 DEF Acted, IsOwned, Kin
<1>6. /\ Kin(b, r[1])
      /\ Evading(b) => r[1].hp >= b.hp
      /\ r[1].target \in {b.target, None} \cup Alive
      /\ \/ r[2] = None
         \/ /\ r[2] \in Alive
            /\ ~ IsOwned(r[1]) => r[2] \in Targets
            /\ ~ Evading(r[1])
  BY <1>3, <1>4, <1>5
<1> QED
  BY <1>6 DEF b

-----------------------------------------------------------------------------
(* Ways of editing the table *)

\* Every body stays itself and nobody comes.
Reshaped(cs, ds) ==
  /\ Typed(ds)
  /\ \A i \in Ids : (cs[i] = None /\ ds[i] = None)
                    \/ (cs[i] # None /\ Kin(cs[i], ds[i]))

LEMMA KinIsThere ==
  ASSUME NEW c, NEW d, Kin(c, d)
  PROVE  d # None
BY NoneIsNoCreature DEF Kin

LEMMA ReshapedKeeps ==
  ASSUME NEW cs, NEW ds, NEW free, NEW pres, NEW lf, Reshaped(cs, ds)
  PROVE  /\ Tied(cs) => Tied(ds)
         /\ Camps(cs, free) => Camps(ds, free)
         /\ Bound(cs, pres, lf) => Bound(ds, pres, lf)
<1>1. \A i \in Ids : /\ cs[i] = None <=> ds[i] = None
                     /\ ds[i] # None => Kin(cs[i], ds[i])
  BY KinIsThere DEF Reshaped
<1>2. Tied(cs) => Tied(ds)
  BY <1>1 DEF Tied, Kin
<1>3. Camps(cs, free) => Camps(ds, free)
  BY <1>1 DEF Camps, Kin
<1>4. Bound(cs, pres, lf) => Bound(ds, pres, lf)
  BY <1>1 DEF Bound, Beside, Kin
<1> QED
  BY <1>2, <1>3, <1>4

\* One body is edited.
LEMMA ReshapedOne ==
  ASSUME NEW cs, Typed(cs), NEW i \in Ids, cs[i] # None, NEW d, Kin(cs[i], d)
  PROVE  Reshaped(cs, [cs EXCEPT ![i] = d])
BY DEF Reshaped, Typed, Kin

LEMMA ReshapedTrans ==
  ASSUME NEW cs, NEW ds, NEW es, Reshaped(cs, ds), Reshaped(ds, es)
  PROVE  Reshaped(cs, es)
BY KinTrans DEF Reshaped

LEMMA ReshapedSelf ==
  ASSUME NEW cs, Typed(cs)
  PROVE  Reshaped(cs, cs)
BY DEF Reshaped, Typed, Kin

\* A body comes, and takes the point it is to hold.
LEMMA AddedKeeps ==
  ASSUME NEW cs, Typed(cs), NEW i \in Ids, cs[i] = None, NEW d \in Creature,
         NEW free, NEW pres, NEW lf
  PROVE  LET ds == [cs EXCEPT ![i] = d] IN
         /\ Typed(ds)
         /\ Tied(cs) /\ (d.warder => d.owner # None)
              /\ (d.owner # None /\ ~ d.charmed => d.point = None) => Tied(ds)
         /\ Camps(cs, free) /\ None \notin free /\ d.point \in free \cup {None}
              => Camps(ds, free \ {d.point})
         /\ Bound(cs, pres, lf) /\ d.dots = {} /\ (d.owner # None => Beside(d, pres[d.owner]))
              => Bound(ds, pres, lf)
<1> DEFINE ds == [cs EXCEPT ![i] = d]
<1>1. Typed(ds) /\ ds[i] = d /\ d # None /\ \A j \in Ids \ {i} : ds[j] = cs[j]
  BY NoneIsNoCreature DEF Typed
<1> HIDE DEF ds
<1>2. ASSUME Tied(cs), d.warder => d.owner # None,
             d.owner # None /\ ~ d.charmed => d.point = None
      PROVE  Tied(ds)
  BY <1>1, <1>2 DEF Tied
<1>3. ASSUME Camps(cs, free), None \notin free, d.point \in free \cup {None}
      PROVE  Camps(ds, free \ {d.point})
  <2>1. \A j \in Ids : ds[j] # None => ds[j].point \notin free \ {d.point}
    BY <1>1, <1>3 DEF Camps
  <2>2. \A j, k \in Ids : ds[j] # None /\ ds[k] # None /\ ds[j].point = ds[k].point
           /\ ds[j].point # None => j = k
    BY <1>1, <1>3 DEF Camps
  <2>3. ASSUME NEW pt \in Points \ (free \ {d.point})
        PROVE  \E j \in Ids : ds[j] # None /\ ds[j].point = pt
    <3>1. CASE pt = d.point
      BY <1>1, <3>1
    <3>2. CASE pt # d.point
      <4>1. PICK j \in Ids : cs[j] # None /\ cs[j].point = pt
        BY <1>3, <3>2 DEF Camps
      <4> QED
        BY <1>1, <4>1
    <3> QED
      BY <3>1, <3>2
  <2> QED
    BY <2>1, <2>2, <2>3 DEF Camps
<1>4. ASSUME Bound(cs, pres, lf), d.dots = {}, d.owner # None => Beside(d, pres[d.owner])
      PROVE  Bound(ds, pres, lf)
  BY <1>1, <1>4 DEF Bound
<1> QED
  BY <1>1, <1>2, <1>3, <1>4 DEF ds

\* A body goes, and frees the point it held.
LEMMA GoneKeeps ==
  ASSUME NEW cs, Typed(cs), NEW i \in Ids, cs[i] # None, NEW free, NEW pres, NEW lf
  PROVE  LET ds == Gone(i, cs) IN
         /\ Typed(ds) /\ ds[i] = None
         /\ \A j \in Ids \ {i} : (cs[j] = None /\ ds[j] = None)
              \/ (/\ cs[j] # None /\ Kin(cs[j], ds[j]) /\ ds[j].hp = cs[j].hp
                  /\ ds[j].state = cs[j].state /\ ds[j].target = cs[j].target
                  /\ ds[j].stuck = cs[j].stuck)
         /\ Tied(cs) => Tied(ds)
         /\ Camps(cs, free) => Camps(ds, free \cup ({cs[i].point} \ {None}))
         /\ Bound(cs, pres, lf) => Bound(ds, pres, lf)
<1> DEFINE ds == Gone(i, cs)
<1>1. ds[i] = None
  BY DEF Gone
<1>2. ASSUME NEW j \in Ids \ {i}, cs[j] = None
      PROVE  ds[j] = None
  BY <1>2 DEF Gone
<1>3. ASSUME NEW j \in Ids \ {i}, cs[j] # None
      PROVE  /\ Kin(cs[j], ds[j]) /\ ds[j].hp = cs[j].hp
             /\ ds[j].state = cs[j].state /\ ds[j].target = cs[j].target
             /\ ds[j].stuck = cs[j].stuck
  <2>1. cs[j] \in Creature /\ ds[j] = [cs[j] EXCEPT !.threat = @ \ {i}]
    BY <1>3 DEF Gone, Typed
  <2> HIDE DEF ds
  <2> QED
    BY <2>1 DEF Kin, Creature
<1>4. Typed(ds)
  <2>1. \A j \in Ids : ds[j] \in Creature \cup {None}
    BY <1>1, <1>2, <1>3 DEF Kin
  <2>2. ds = [j \in Ids |-> ds[j]]
    BY DEF Gone
  <2> QED
    BY <2>1, <2>2 DEF Typed
<1> HIDE DEF ds
<1>5. \A j \in Ids : ds[j] # None => j # i /\ cs[j] # None /\ Kin(cs[j], ds[j])
  BY <1>1, <1>2, <1>3
<1>6. \A j \in Ids \ {i} : cs[j] # None => ds[j] # None
  BY <1>3, KinIsThere
<1>7. Tied(cs) => Tied(ds)
  BY <1>5 DEF Tied, Kin
<1>8. ASSUME Camps(cs, free)
      PROVE  Camps(ds, free \cup ({cs[i].point} \ {None}))
  <2>1. \A j \in Ids : ds[j] # None => ds[j].point \notin free \cup ({cs[i].point} \ {None})
    BY <1>5, <1>8 DEF Camps, Kin
  <2>2. \A j, k \in Ids : ds[j] # None /\ ds[k] # None /\ ds[j].point = ds[k].point
           /\ ds[j].point # None => j = k
    BY <1>5, <1>8 DEF Camps, Kin
  <2>3. ASSUME NEW pt \in Points \ (free \cup ({cs[i].point} \ {None}))
        PROVE  \E j \in Ids : ds[j] # None /\ ds[j].point = pt
    <3>1. PICK j \in Ids : cs[j] # None /\ cs[j].point = pt
      BY <1>8 DEF Camps
    <3>2. j # i
      BY <3>1, NoneIsNobody
    <3> QED
      BY <1>5, <1>6, <3>1, <3>2 DEF Kin
  <2> QED
    BY <2>1, <2>2, <2>3 DEF Camps
<1>9. Bound(cs, pres, lf) => Bound(ds, pres, lf)
  BY <1>5 DEF Bound, Beside, Kin
<1> QED
  BY <1>1, <1>2, <1>3, <1>4, <1>7, <1>8, <1>9 DEF ds

\* Every body keeps its hp and the one it is after, or forgets it.
Calm(cs, ds) ==
  \A i \in Ids : cs[i] # None /\ ds[i] # None =>
    /\ ds[i].hp = cs[i].hp
    /\ ds[i].state \in {cs[i].state, "Dead"}
    /\ ds[i].target \in {cs[i].target, None}

LEMMA NoDotsKeeps ==
  ASSUME NEW cs, Typed(cs), NEW p \in Players
  PROVE  /\ Reshaped(cs, NoDots(p, cs)) /\ Calm(cs, NoDots(p, cs))
         /\ \A i \in Ids : NoDots(p, cs)[i] # None => p \notin NoDots(p, cs)[i].dots
<1> DEFINE ds == NoDots(p, cs)
<1>1. ds = [i \in Ids |-> ds[i]] /\ \A i \in Ids : cs[i] = None => ds[i] = None
  BY DEF NoDots
<1>2. ASSUME NEW i \in Ids, cs[i] # None
      PROVE  /\ Kin(cs[i], ds[i]) /\ ds[i].hp = cs[i].hp
             /\ ds[i].state = cs[i].state /\ ds[i].target = cs[i].target
             /\ p \notin ds[i].dots
  <2>1. cs[i] \in Creature /\ ds[i] = [cs[i] EXCEPT !.dots = @ \ {p}]
    BY <1>2 DEF NoDots, Typed
  <2> HIDE DEF ds
  <2> QED
    BY <2>1 DEF Kin, Creature
<1> HIDE DEF ds
<1>3. \A i \in Ids : ds[i] \in Creature \cup {None}
  BY <1>1, <1>2 DEF Kin
<1>4. Reshaped(cs, ds)
  BY <1>1, <1>2, <1>3 DEF Reshaped, Typed
<1>5. Calm(cs, ds) /\ \A i \in Ids : ds[i] # None => p \notin ds[i].dots
  BY <1>1, <1>2 DEF Calm
<1> QED
  BY <1>4, <1>5 DEF ds

LEMMA WipedKeeps ==
  ASSUME NEW cs, Typed(cs), NEW ps \in SUBSET Players
  PROVE  /\ Reshaped(cs, Wiped(ps, cs)) /\ Calm(cs, Wiped(ps, cs))
         /\ \A i \in Ids : Wiped(ps, cs)[i] # None =>
              Wiped(ps, cs)[i].target \notin ps /\ Wiped(ps, cs)[i].dots \cap ps = {}
<1> DEFINE ds == Wiped(ps, cs)
<1>1. ds = [i \in Ids |-> ds[i]] /\ \A i \in Ids : cs[i] = None => ds[i] = None
  BY DEF Wiped
<1>2. ASSUME NEW i \in Ids, cs[i] # None
      PROVE  /\ Kin(cs[i], ds[i]) /\ ds[i].hp = cs[i].hp
             /\ ds[i].state = cs[i].state /\ ds[i].target \in {cs[i].target, None}
             /\ ds[i].target \notin ps /\ ds[i].dots \cap ps = {}
  <2> DEFINE t == IF cs[i].target \in ps THEN None ELSE cs[i].target
             th == cs[i].threat \ ps
             do == cs[i].dots \ ps
  <2>1. cs[i] \in Creature /\ ds[i] = [cs[i] EXCEPT !.threat = th, !.dots = do, !.target = t]
    BY <1>2 DEF Wiped, Typed
  <2>2. t \in Anyone \cup {None} /\ th \in SUBSET Anyone /\ do \in SUBSET Players
        /\ do \cap ps = {} /\ do \subseteq cs[i].dots
    BY <2>1 DEF Creature
  <2>3. t \notin ps /\ t \in {cs[i].target, None}
    BY NoneIsNobody
  <2> HIDE DEF ds, t, th, do
  <2> QED
    BY <2>1, <2>2, <2>3 DEF Kin, Creature
<1> HIDE DEF ds
<1>3. \A i \in Ids : ds[i] \in Creature \cup {None}
  BY <1>1, <1>2 DEF Kin
<1>4. Reshaped(cs, ds)
  BY <1>1, <1>2, <1>3 DEF Reshaped, Typed
<1>5. Calm(cs, ds) /\ \A i \in Ids : ds[i] # None => ds[i].target \notin ps /\ ds[i].dots \cap ps = {}
  BY <1>1, <1>2 DEF Calm
<1> QED
  BY <1>4, <1>5 DEF ds

LEMMA FreshIs ==
  ASSUME SomeFresh
  PROVE  FreshId \in Ids /\ Fresh(FreshId) /\ creatures[FreshId] = None
BY DEF SomeFresh, FreshId, Fresh

LEMMA MobIs ==
  ASSUME NEW pt \in Points \cup {None}
  PROVE  /\ Mob(pt) \in Creature /\ Mob(pt).point = pt /\ Mob(pt).owner = None
         /\ ~ Mob(pt).warder /\ ~ Mob(pt).charmed /\ Mob(pt).target = None
         /\ Mob(pt).state = "Idle" /\ Mob(pt).hp = Full /\ Mob(pt).dots = {}
<1>1. Full \in 0 .. Full /\ {} \in SUBSET Anyone /\ {} \in SUBSET Players
  BY FullType
<1> QED
  BY <1>1 DEF Mob, Creature

LEMMA PetIs ==
  ASSUME NEW p \in Players, NEW w \in BOOLEAN, NEW hp \in 0 .. Full
  PROVE  /\ Pet(p, w, hp) \in Creature /\ Pet(p, w, hp).point = None
         /\ Pet(p, w, hp).owner = p /\ Pet(p, w, hp).warder = w /\ ~ Pet(p, w, hp).charmed
         /\ Pet(p, w, hp).target = None /\ Pet(p, w, hp).hp = hp
         /\ Pet(p, w, hp).state = "Idle" /\ Pet(p, w, hp).dots = {}
<1> DEFINE m == Mob(None)
<1>1. /\ m \in Creature /\ m.point = None /\ m.owner = None
      /\ ~ m.warder /\ ~ m.charmed /\ m.target = None /\ m.state = "Idle" /\ m.dots = {}
  BY MobIs
<1> HIDE DEF m
<1>2. Pet(p, w, hp) = [m EXCEPT !.owner = p, !.warder = w, !.hp = hp]
  BY DEF Pet, m
<1> QED
  BY <1>1, <1>2 DEF Creature

LEMMA ReleasedIs ==
  ASSUME Typed(creatures), NEW i \in Ids, creatures[i] # None,
         NEW t \in Players \cup {None}, NEW d \in Released(i, t)
  PROVE  /\ d \in Creature /\ d.point = creatures[i].point /\ d.owner = None
         /\ ~ d.warder /\ ~ d.charmed /\ d.target = t /\ d.dots = {}
<1> DEFINE m == Mob(creatures[i].point)
           n == [m EXCEPT !.hp = creatures[i].hp]
<1>1. creatures[i] \in Creature
  BY DEF Typed
<1>2. creatures[i].point \in Points \cup {None} /\ creatures[i].hp \in 0 .. Full
  BY <1>1 DEF Creature
<1>3. /\ m \in Creature /\ m.point = creatures[i].point /\ m.owner = None
      /\ ~ m.warder /\ ~ m.charmed /\ m.target = None /\ m.dots = {}
  BY <1>2, MobIs
<1> HIDE DEF m
<1>4. /\ n \in Creature /\ n.point = creatures[i].point /\ n.owner = None
      /\ ~ n.warder /\ ~ n.charmed /\ n.target = None /\ n.dots = {}
  BY <1>2, <1>3 DEF Creature
<1>5. CASE t # None
  <2>1. d = [n EXCEPT !.threat = {t}, !.target = t, !.state = "Chase"]
    BY <1>5 DEF Released, m
  <2>2. {t} \in SUBSET Anyone /\ t \in Anyone
    BY <1>5 DEF Anyone
  <2> HIDE DEF n
  <2> QED
    BY <1>4, <2>1, <2>2 DEF Creature
<1>6. CASE t = None
  <2>1. d \in {n, [n EXCEPT !.state = "Leash"]}
    BY <1>6 DEF Released, m
  <2> HIDE DEF n
  <2> QED
    BY <1>4, <1>6, <2>1 DEF Creature
<1> QED
  BY <1>5, <1>6

\* A new pet comes, a living one of its owner's dies first.
LEMMA SummonedKeeps ==
  ASSUME Typed(creatures), SomeFresh, NEW p \in Players, NEW w \in BOOLEAN,
         NEW hp \in 0 .. Full, NEW ds \in Summoned(p, w, hp), NEW pres, NEW lf,
         Tied(creatures), Camps(creatures, due), due \subseteq Points,
         Bound(creatures, pres, lf), pres[p] = "in" \/ (pres[p] = "linkdead" /\ w)
  PROVE  /\ Typed(ds) /\ Tied(ds) /\ Camps(ds, due) /\ Bound(ds, pres, lf)
         /\ Calm(creatures, ds)
         /\ \A i \in Ids : creatures[i] = None /\ ds[i] # None => ds[i].target = None
<1>1. PICK cs : /\ ds = [cs EXCEPT ![FreshId] = Pet(p, w, hp)]
                /\ \/ cs = creatures
                   \/ \E i \in PetsOf(p) \cap Living :
                        cs = [creatures EXCEPT ![i] = Enter(creatures[i], "Dead")]
  BY DEF Summoned
<1>2. Reshaped(creatures, cs) /\ Calm(creatures, cs) /\ Typed(cs)
  <2>1. CASE cs = creatures
    BY <2>1, ReshapedSelf DEF Calm
  <2>2. ASSUME NEW i \in PetsOf(p) \cap Living,
               cs = [creatures EXCEPT ![i] = Enter(creatures[i], "Dead")]
        PROVE  Reshaped(creatures, cs) /\ Calm(creatures, cs)
    <3>1. i \in Ids /\ creatures[i] # None /\ creatures[i] \in Creature
      BY DEF PetsOf, Here, Typed
    <3>2. /\ Kin(creatures[i], Enter(creatures[i], "Dead"))
          /\ Enter(creatures[i], "Dead").state = "Dead"
          /\ Enter(creatures[i], "Dead").hp = creatures[i].hp
          /\ Enter(creatures[i], "Dead").target \in {creatures[i].target, None}
      BY <3>1, EnterKin DEF States
    <3>3. Reshaped(creatures, cs)
      BY <2>2, <3>1, <3>2, ReshapedOne
    <3>4. Calm(creatures, cs)
      BY <2>2, <3>1, <3>2 DEF Calm, Typed
    <3> QED
      BY <3>3, <3>4
  <2> QED
    BY <1>1, <2>1, <2>2 DEF Reshaped
<1>3. FreshId \in Ids /\ creatures[FreshId] = None /\ cs[FreshId] = None
  BY <1>2, FreshIs DEF Reshaped
<1>4. Tied(cs) /\ Camps(cs, due) /\ Bound(cs, pres, lf)
  BY <1>2, ReshapedKeeps
<1> DEFINE d == Pet(p, w, hp)
<1>5. /\ d \in Creature /\ d.point = None /\ d.owner = p /\ d.target = None
      /\ d.warder = w /\ d.dots = {} /\ Beside(d, pres[p])
  BY PetIs DEF Beside
<1> HIDE DEF d
<1>6. ds = [cs EXCEPT ![FreshId] = d]
  BY <1>1 DEF d
<1>7. p # None /\ None \notin due /\ due \ {None} = due
  BY NoneIsNobody
<1>8. Typed(ds) /\ Tied(ds) /\ Camps(ds, due \ {None}) /\ Bound(ds, pres, lf)
  BY <1>2, <1>3, <1>4, <1>5, <1>6, <1>7, AddedKeeps
<1>9. Calm(creatures, ds)
  BY <1>2, <1>3, <1>6 DEF Calm, Typed
<1>10. \A i \in Ids : creatures[i] = None /\ ds[i] # None => ds[i].target = None
  BY <1>2, <1>5, <1>6 DEF Reshaped, Typed
<1> QED
  BY <1>7, <1>8, <1>9, <1>10

\* The pets of one who leaves: the charmed are given back under new ids, each
\* with its camp's point, the others are gone, which held none.
LEMMA DespawnedKeeps ==
  ASSUME Typed(creatures), Tied(creatures), Camps(creatures, due), NEW p \in Players,
         NEW ds \in Despawned(p), NEW pres, NEW lf, Bound(creatures, pres, lf)
  PROVE  /\ Typed(ds) /\ Tied(ds) /\ Camps(ds, due) /\ Bound(ds, pres, lf)
         /\ Calm(creatures, ds)
         /\ \A i \in Ids : ds[i] # None => ds[i].owner # p
         /\ \A i \in Ids : creatures[i] = None /\ ds[i] # None => ds[i].target = None
<1> DEFINE mine == PetsOf(p)
           charmed == CharmedOf(p)
<1>1. PICK at \in Places(charmed), mob \in Mobs(charmed) : ds = GivenBack(p, at, mob)
  BY DEF Despawned
<1>a. /\ at \in [charmed -> {i \in Ids : Fresh(i)}]
      /\ \A i, j \in charmed : at[i] = at[j] => i = j
      /\ \A i \in charmed : mob[i] \in Released(i, None)
  BY DEF Places, Mobs
<1>2. /\ mine \subseteq Ids /\ charmed \subseteq mine
      /\ \A i \in mine : creatures[i] # None /\ creatures[i].owner = p
      /\ \A j \in Ids : creatures[j] # None /\ creatures[j].owner = p => j \in mine
      /\ \A i \in mine \ charmed : ~ creatures[i].charmed
  BY DEF PetsOf, Here, CharmedOf
<1>3. \A i \in charmed : at[i] \in Ids /\ creatures[at[i]] = None
  BY <1>a DEF Fresh
<1>4. ASSUME NEW i \in charmed
      PROVE  /\ ds[at[i]] = mob[i] /\ mob[i] \in Creature /\ mob[i] # None
             /\ mob[i].point = creatures[i].point /\ mob[i].owner = None
             /\ ~ mob[i].warder /\ ~ mob[i].charmed /\ mob[i].target = None
             /\ mob[i].dots = {}
  <2>1. (CHOOSE k \in charmed : at[k] = at[i]) = i
    BY <1>a
  <2>2. ds[at[i]] = mob[i]
    BY <1>1, <1>3, <2>1 DEF GivenBack
  <2> QED
    BY <1>a, <1>2, <2>2, ReleasedIs, NoneIsNoCreature
<1>5. ASSUME NEW j \in Ids, ~ \E i \in charmed : at[i] = j, j \in mine \/ creatures[j] = None
      PROVE  ds[j] = None
  BY <1>1, <1>5 DEF GivenBack, Without
<1>6. ASSUME NEW j \in Ids, j \notin mine, creatures[j] # None
      PROVE  /\ ~ \E i \in charmed : at[i] = j
             /\ ds[j] # None /\ Kin(creatures[j], ds[j]) /\ ds[j].hp = creatures[j].hp
             /\ ds[j].state = creatures[j].state /\ ds[j].target = creatures[j].target
  <2>1. ~ \E i \in charmed : at[i] = j
    BY <1>3, <1>6
  <2>2. ds[j] = [creatures[j] EXCEPT !.threat = @ \ mine] /\ creatures[j] \in Creature
    BY <1>1, <1>6, <2>1 DEF Typed, GivenBack, Without
  <2>3. creatures[j].threat \ mine \in SUBSET Anyone
    BY <2>2 DEF Creature
  <2> HIDE DEF mine
  <2>4. Kin(creatures[j], ds[j]) /\ ds[j].hp = creatures[j].hp
        /\ ds[j].state = creatures[j].state /\ ds[j].target = creatures[j].target
    BY <2>2, <2>3 DEF Kin, Creature
  <2> QED
    BY <2>1, <2>4, KinIsThere
\* A body that is there came back from charm or was never theirs.
<1>7. ASSUME NEW j \in Ids, ds[j] # None
      PROVE  \/ \E i \in charmed : j = at[i]
             \/ j \notin mine /\ creatures[j] # None
  BY <1>5, <1>7
<1>8. ds = [j \in Ids |-> ds[j]]
  BY <1>1 DEF GivenBack
<1> HIDE DEF mine, charmed
<1>9. Typed(ds)
  <2>1. \A j \in Ids : ds[j] \in Creature \cup {None}
    BY <1>4, <1>6, <1>7 DEF Kin
  <2> QED
    BY <1>8, <2>1 DEF Typed
<1>10. Tied(ds)
  <2> SUFFICES ASSUME NEW j \in Ids, ds[j] # None
               PROVE  /\ ds[j].warder => ds[j].owner # None
                      /\ ds[j].owner # None /\ ~ ds[j].charmed => ds[j].point = None
    BY DEF Tied
  <2>1. CASE \E i \in charmed : j = at[i]
    BY <1>4, <2>1
  <2>2. CASE j \notin mine /\ creatures[j] # None
    BY <1>6, <2>2 DEF Tied, Kin
  <2> QED
    BY <1>7, <2>1, <2>2
<1>11. Bound(ds, pres, lf) /\ \A j \in Ids : ds[j] # None => ds[j].owner # p
  <2> SUFFICES ASSUME NEW j \in Ids, ds[j] # None
               PROVE  /\ ds[j].owner # None => Beside(ds[j], pres[ds[j].owner])
                      /\ \A q \in ds[j].dots : pres[q] # "out" /\ lf[q] # "dead"
                      /\ ds[j].owner # p
    BY DEF Bound
  <2>1. CASE \E i \in charmed : j = at[i]
    BY <1>4, <2>1, NoneIsNobody
  <2>2. CASE j \notin mine /\ creatures[j] # None
    BY <1>2, <1>6, <2>2 DEF Bound, Beside, Kin
  <2> QED
    BY <1>7, <2>1, <2>2
<1>12. Camps(ds, due)
  <2>1. ASSUME NEW j \in Ids, ds[j] # None
        PROVE  /\ ds[j].point \notin due
               /\ \E i \in Ids : /\ creatures[i] # None /\ creatures[i].point = ds[j].point
                                 /\ \/ i \in charmed /\ j = at[i]
                                    \/ i \notin mine /\ j = i
    <3>1. CASE \E i \in charmed : j = at[i]
      BY <1>2, <1>4, <3>1 DEF Camps
    <3>2. CASE j \notin mine /\ creatures[j] # None
      BY <1>6, <3>2 DEF Camps, Kin
    <3> QED
      BY <1>7, <2>1, <3>1, <3>2
  <2>2. ASSUME NEW j \in Ids, NEW k \in Ids, ds[j] # None, ds[k] # None,
               ds[j].point = ds[k].point, ds[j].point # None
        PROVE  j = k
    <3>1. PICK i \in Ids : /\ creatures[i] # None /\ creatures[i].point = ds[j].point
                           /\ \/ i \in charmed /\ j = at[i]
                              \/ i \notin mine /\ j = i
      BY <2>1, <2>2
    <3>2. PICK l \in Ids : /\ creatures[l] # None /\ creatures[l].point = ds[k].point
                           /\ \/ l \in charmed /\ k = at[l]
                              \/ l \notin mine /\ k = l
      BY <2>1, <2>2
    <3>3. i = l
      BY <2>2, <3>1, <3>2 DEF Camps
    <3> QED
      BY <1>2, <3>1, <3>2, <3>3
  <2>3. ASSUME NEW pt \in Points \ due
        PROVE  \E j \in Ids : ds[j] # None /\ ds[j].point = pt
    <3>1. PICK i \in Ids : creatures[i] # None /\ creatures[i].point = pt
      BY DEF Camps
    <3>2. CASE i \notin mine
      BY <1>6, <3>1, <3>2 DEF Kin
    <3>3. CASE i \in mine
      <4>1. i \in charmed
        BY <1>2, <3>1, <3>3, NoneIsNobody DEF Tied
      <4> QED
        BY <1>3, <1>4, <3>1, <4>1
    <3> QED
      BY <3>2, <3>3
  <2>4. \A j \in Ids : ds[j] # None => ds[j].point \notin due
    BY <2>1
  <2>5. \A j, k \in Ids : ds[j] # None /\ ds[k] # None /\ ds[j].point = ds[k].point
          /\ ds[j].point # None => j = k
    BY <2>2
  <2> QED
    BY <2>3, <2>4, <2>5 DEF Camps
<1>13. Calm(creatures, ds)
  BY <1>3, <1>6, <1>7 DEF Calm
<1>14. \A j \in Ids : creatures[j] = None /\ ds[j] # None => ds[j].target = None
  BY <1>4, <1>7
<1> QED
  BY <1>9, <1>10, <1>11, <1>12, <1>13, <1>14

\* A body goes and another takes its point: a charm, and its end.
LEMMA SwapKeeps ==
  ASSUME NEW cs, Typed(cs), NEW i \in Ids, cs[i] # None, NEW n \in Ids, cs[n] = None,
         NEW d \in Creature, d.point = cs[i].point, d.dots = {}, NEW pres, NEW lf,
         Tied(cs), Camps(cs, due), due \subseteq Points, Bound(cs, pres, lf),
         d.warder => d.owner # None, d.owner # None /\ ~ d.charmed => d.point = None,
         d.owner # None => Beside(d, pres[d.owner])
  PROVE  LET ds == [Gone(i, cs) EXCEPT ![n] = d] IN
         /\ Typed(ds) /\ Tied(ds) /\ Camps(ds, due) /\ Bound(ds, pres, lf)
         /\ Calm(cs, ds)
         /\ \A j \in Ids : cs[j] = None /\ ds[j] # None => ds[j] = d
<1> DEFINE gs == Gone(i, cs)
           free == due \cup ({cs[i].point} \ {None})
           ds == [gs EXCEPT ![n] = d]
<1>1. /\ Typed(gs) /\ gs[i] = None /\ Tied(gs) /\ Camps(gs, free) /\ Bound(gs, pres, lf)
      /\ \A j \in Ids \ {i} : (cs[j] = None /\ gs[j] = None)
              \/ (/\ cs[j] # None /\ Kin(cs[j], gs[j]) /\ gs[j].hp = cs[j].hp
                  /\ gs[j].state = cs[j].state /\ gs[j].target = cs[j].target)
  BY GoneKeeps
<1> HIDE DEF gs
<1>2. gs[n] = None
  BY <1>1
<1>3. None \notin free /\ d.point \in free \cup {None} /\ free \ {d.point} = due
  BY NoneIsNobody DEF Camps
<1>4. Typed(ds) /\ Tied(ds) /\ Camps(ds, free \ {d.point}) /\ Bound(ds, pres, lf)
  <2> HIDE DEF free
  <2> QED
    BY <1>1, <1>2, <1>3, AddedKeeps
<1>5. \A j \in Ids : ds[j] = IF j = n THEN d ELSE gs[j]
  BY <1>1 DEF Typed
<1>6. Calm(cs, ds)
  BY <1>1, <1>5 DEF Calm
<1>7. \A j \in Ids : cs[j] = None /\ ds[j] # None => ds[j] = d
  BY <1>1, <1>5
<1> QED
  BY <1>3, <1>4, <1>6, <1>7 DEF gs

\* EvadersUnhurt, of two tables.
Unhurt(cs, ds) ==
  \A i \in Ids : cs[i] # None /\ ds[i] # None /\ Evading(cs[i]) => ds[i].hp >= cs[i].hp

LEMMA CalmIs ==
  ASSUME NEW cs, NEW ds, NEW lf, Typed(cs), Typed(ds), Calm(cs, ds), Forgotten(cs, lf),
         \A i \in Ids : cs[i] = None /\ ds[i] # None /\ ds[i].target \in Players =>
           lf[ds[i].target] # "dead"
  PROVE  Forgotten(ds, lf) /\ Unhurt(cs, ds)
<1>1. Forgotten(ds, lf)
  BY NoneIsNobody DEF Forgotten, Calm
<1>2. \A i \in Ids : cs[i] # None => cs[i].hp \in Nat
  BY FullType DEF Typed, Creature
<1>3. Unhurt(cs, ds)
  BY <1>2 DEF Unhurt, Calm
<1> QED
  BY <1>1, <1>3

LEMMA NoHits ==
  ASSUME IInv, pass # "blows"
  PROVE  hits = {}
BY DEF IInv, Queued

LEMMA SameIs ==
  ASSUME NEW cs, Typed(cs)
  PROVE  Unhurt(cs, cs)
<1>1. \A i \in Ids : cs[i] # None => cs[i].hp \in Nat
  BY FullType DEF Typed, Creature
<1> QED
  BY <1>1 DEF Unhurt

\* What an action that queues no blow has to show.
Table(ds, free, pres, lf) ==
  /\ Typed(ds) /\ Tied(ds) /\ Camps(ds, free) /\ Bound(ds, pres, lf) /\ Forgotten(ds, lf)
  /\ Unhurt(creatures, ds)

LEMMA Kept ==
  ASSUME IInv
  PROVE  Table(creatures, due, present, life)
BY SameIs DEF IInv, Table

\* A calm step that keeps the points and the pets.
LEMMA CalmTable ==
  ASSUME IInv, NEW ds, Typed(ds), Tied(ds), NEW free, Camps(ds, free), NEW pres,
         Bound(ds, pres, life), Calm(creatures, ds),
         \A i \in Ids : creatures[i] = None /\ ds[i] # None /\ ds[i].target \in Players =>
           life[ds[i].target] # "dead"
  PROVE  Table(ds, free, pres, life)
BY CalmIs DEF IInv, Table

-----------------------------------------------------------------------------
(* Open *)

LEMMA AddsMob ==
  ASSUME IInv, SomeFresh, NEW pt \in due \cup {None},
         creatures' = [creatures EXCEPT ![FreshId] = Mob(pt)]
  PROVE  Table(creatures', due \ {pt}, present, life)
<1>1. FreshId \in Ids /\ creatures[FreshId] = None
  BY FreshIs
<1> DEFINE d == Mob(pt)
<1>2. /\ d \in Creature /\ d.point = pt /\ d.owner = None /\ ~ d.warder /\ d.target = None
      /\ d.dots = {}
  BY MobIs DEF IInv, Rest
<1> HIDE DEF d
<1>3. creatures' = [creatures EXCEPT ![FreshId] = d]
  BY DEF d
<1>4. None \notin due
  BY NoneIsNobody DEF IInv, Rest
<1>5. Typed(creatures') /\ Tied(creatures') /\ Camps(creatures', due \ {pt})
      /\ Bound(creatures', present, life)
  <2> DEFINE ds == [creatures EXCEPT ![FreshId] = d]
  <2>1. Typed(creatures) /\ Tied(creatures) /\ Camps(creatures, due) /\ Bound(creatures, present, life)
    BY DEF IInv
  <2>2. Typed(ds) /\ Tied(ds) /\ Camps(ds, due \ {d.point}) /\ Bound(ds, present, life)
    BY <1>1, <1>2, <1>4, <2>1, AddedKeeps
  <2> QED
    BY <1>2, <1>3, <2>2
<1>6. Calm(creatures, creatures') /\ \A i \in Ids : creatures[i] = None /\ creatures'[i] # None =>
        creatures'[i].target = None
  BY <1>1, <1>2, <1>3 DEF Calm, IInv, Typed
<1> QED
  BY <1>5, <1>6, NoneIsNobody, CalmTable

LEMMA SpawnStep ==
  ASSUME IInv, NEW pt \in Points, Spawn(pt)
  PROVE  IInv' /\ Unhurt(creatures, creatures')
<1>1. Table(creatures', due', present, life)
  BY AddsMob DEF Spawn
<1>2. hits = {}
  BY NoHits DEF Spawn
<1>3. Rest'
  BY DEF IInv, Rest, Spawn, playerVars
<1> QED
  BY <1>1, <1>2, <1>3 DEF IInv, Table, Queued, Spawn, playerVars

LEMMA DevSpawnStep ==
  ASSUME IInv, DevSpawn
  PROVE  IInv' /\ Unhurt(creatures, creatures')
<1>1. due \ {None} = due
  BY NoneIsNobody DEF IInv, Rest
<1>2. Table(creatures', due, present, life)
  BY <1>1, AddsMob DEF DevSpawn
<1>3. hits = {}
  BY NoHits DEF DevSpawn
<1>4. Rest'
  BY DEF IInv, Rest, DevSpawn, playerVars
<1> QED
  BY <1>2, <1>3, <1>4 DEF IInv, Table, Queued, DevSpawn, playerVars

\* A body is taken out while no blow is queued.
LEMMA TakenOut ==
  ASSUME IInv, hits = {}, NEW i \in Here, creatures' = Gone(i, creatures), due' = Freed(i),
         UNCHANGED <<playerVars, retreat, pass, hits>>
  PROVE  IInv' /\ Unhurt(creatures, creatures')
<1>1. i \in Ids /\ creatures[i] # None /\ creatures[i] \in Creature
  BY DEF Here, IInv, Typed
<1>2. /\ Typed(creatures') /\ Tied(creatures') /\ Camps(creatures', due')
      /\ Bound(creatures', present, life)
      /\ creatures'[i] = None
      /\ \A j \in Ids \ {i} : (creatures[j] = None /\ creatures'[j] = None)
           \/ (/\ creatures[j] # None /\ creatures'[j].hp = creatures[j].hp
               /\ creatures'[j].state = creatures[j].state
               /\ creatures'[j].target = creatures[j].target)
  BY <1>1, GoneKeeps DEF IInv, Freed
<1>3. Calm(creatures, creatures') /\ \A j \in Ids : creatures[j] = None => creatures'[j] = None
  BY <1>2 DEF Calm
<1>4. Table(creatures', due', present, life)
  BY <1>2, <1>3, CalmTable
<1>5. Rest'
  <2>1. creatures[i].point \in Points \cup {None}
    BY <1>1 DEF Creature
  <2> QED
    BY <2>1 DEF IInv, Rest, Freed, playerVars
<1> QED
  BY <1>4, <1>5 DEF IInv, Table, Queued, playerVars

LEMMA DevDespawnStep ==
  ASSUME IInv, NEW i \in Ids, DevDespawn(i)
  PROVE  IInv' /\ Unhurt(creatures, creatures')
BY NoHits, TakenOut DEF DevDespawn

LEMMA CleanUpStep ==
  ASSUME IInv, NEW i \in Ids, CleanUp(i)
  PROVE  IInv' /\ Unhurt(creatures, creatures')
BY TakenOut DEF CleanUp

LEMMA EnterWorldStep ==
  ASSUME IInv, NEW p \in Players, EnterWorld(p)
  PROVE  IInv' /\ Unhurt(creatures, creatures')
<1>1. /\ hits = {} /\ present' = [present EXCEPT ![p] = "in"] /\ due' = due /\ life' = life
      /\ hits' = hits
  BY NoHits DEF EnterWorld
<1>2. Rest'
  BY DEF IInv, Rest, EnterWorld
<1>3. Bound(creatures, present', life) /\ present'[p] = "in"
  <2>1. \A q \in Players : present'[q] = "in" \/ present'[q] = present[q]
    BY <1>1 DEF IInv, Rest
  <2>2. present'[p] = "in"
    BY <1>1 DEF IInv, Rest
  <2>3. \A i \in Ids : creatures[i] # None => /\ creatures[i].dots \subseteq Players
                                             /\ creatures[i].owner \in Players \cup {None}
    BY DEF IInv, Typed, Creature
  <2> QED
    BY <2>1, <2>2, <2>3 DEF IInv, Bound, Beside
<1>4. Table(creatures', due', present', life)
  <2>1. CASE p \in Masters
    <3>a. Full \in 0 .. Full
      BY FullType
    <3>1. SomeFresh /\ creatures' \in Summoned(p, TRUE, Full)
      BY <2>1 DEF EnterWorld
    <3>2. /\ Typed(creatures') /\ Tied(creatures') /\ Camps(creatures', due)
          /\ Bound(creatures', present', life) /\ Calm(creatures, creatures')
          /\ \A i \in Ids : creatures[i] = None /\ creatures'[i] # None => creatures'[i].target = None
      <4>1. /\ Typed(creatures) /\ Tied(creatures) /\ Camps(creatures, due)
            /\ due \subseteq Points
        BY DEF IInv, Rest
      <4> QED
        BY <1>3, <3>a, <3>1, <4>1, SummonedKeeps
    <3> QED
      BY <1>1, <3>2, NoneIsNobody, CalmTable
  <2>2. CASE p \notin Masters
    <3>1. creatures' = creatures
      BY <2>2 DEF EnterWorld
    <3> QED
      BY <1>1, <1>3, <3>1, Kept DEF Table
  <2> QED
    BY <2>1, <2>2
<1> QED
  BY <1>1, <1>2, <1>4 DEF IInv, Table, Queued

\* A pet is summoned, whatever else the action does.
LEMMA SummonsPet ==
  ASSUME IInv, SomeFresh, NEW p \in InWorld, NEW w \in BOOLEAN, NEW hp \in 0 .. Full,
         w \/ present[p] = "in", creatures' \in Summoned(p, w, hp)
  PROVE  Table(creatures', due, present, life)
<1>1. p \in Players /\ (present[p] = "in" \/ (present[p] = "linkdead" /\ w))
  BY DEF InWorld, IInv, Rest
<1>2. /\ Typed(creatures') /\ Tied(creatures') /\ Camps(creatures', due)
      /\ Bound(creatures', present, life) /\ Calm(creatures, creatures')
      /\ \A i \in Ids : creatures[i] = None /\ creatures'[i] # None => creatures'[i].target = None
  BY <1>1, SummonedKeeps DEF IInv, Rest
<1> QED
  BY <1>2, NoneIsNobody, CalmTable

LEMMA WarderReturnsStep ==
  ASSUME IInv, NEW p \in Players, WarderReturns(p)
  PROVE  IInv' /\ Unhurt(creatures, creatures')
<1>1. 1 \in 0 .. Full
  BY FullType
<1>2. Table(creatures', due, present, life)
  BY <1>1, SummonsPet DEF WarderReturns
<1>3. Rest' /\ hits = {}
  BY NoHits DEF IInv, Rest, WarderReturns, playerVars
<1> QED
  BY <1>2, <1>3 DEF IInv, Table, Queued, WarderReturns, playerVars

LEMMA SummonPetStep ==
  ASSUME IInv, NEW p \in Players, SummonPet(p)
  PROVE  IInv' /\ Unhurt(creatures, creatures')
<1>1. Full \in 0 .. Full /\ p \in InWorld /\ present[p] = "in"
  BY FullType DEF SummonPet, InWorld
<1>2. Table(creatures', due, present, life)
  BY <1>1, SummonsPet DEF SummonPet
<1>3. Rest' /\ hits = {}
  BY NoHits DEF IInv, Rest, SummonPet, playerVars
<1> QED
  BY <1>2, <1>3 DEF IInv, Table, Queued, SummonPet, playerVars

LEMMA CharmExpiresStep ==
  ASSUME IInv, NEW i \in Ids, CharmExpires(i)
  PROVE  IInv' /\ Unhurt(creatures, creatures')
<1> DEFINE o == creatures[i].owner
           t == IF o \in Hale THEN o ELSE None
<1>1. PICK d \in Released(i, t) : creatures' = [Gone(i, creatures) EXCEPT ![FreshId] = d]
  BY DEF CharmExpires
<1>2. /\ creatures[i] # None /\ FreshId \in Ids /\ creatures[FreshId] = None
  BY FreshIs DEF CharmExpires, Here
<1>3. t \in Players \cup {None} /\ (t \in Players => life[t] # "dead")
  <2>1. CASE o \in Hale
    BY <2>1 DEF Hale, InWorld
  <2>2. CASE o \notin Hale
    BY <2>2, NoneIsNobody
  <2> QED
    BY <2>1, <2>2
<1> HIDE DEF t
<1>4. /\ d \in Creature /\ d.point = creatures[i].point /\ d.owner = None
      /\ ~ d.warder /\ ~ d.charmed /\ d.target = t /\ d.dots = {}
  BY <1>1, <1>2, <1>3, ReleasedIs DEF IInv
<1>5. /\ Typed(creatures') /\ Tied(creatures') /\ Camps(creatures', due)
      /\ Bound(creatures', present, life) /\ Calm(creatures, creatures')
      /\ \A j \in Ids : creatures[j] = None /\ creatures'[j] # None => creatures'[j] = d
  <2> DEFINE ds == [Gone(i, creatures) EXCEPT ![FreshId] = d]
  <2>1. /\ Typed(ds) /\ Tied(ds) /\ Camps(ds, due) /\ Bound(ds, present, life) /\ Calm(creatures, ds)
        /\ \A j \in Ids : creatures[j] = None /\ ds[j] # None => ds[j] = d
    BY <1>2, <1>4, SwapKeeps DEF IInv, Rest
  <2> QED
    BY <1>1, <2>1
<1>6. Table(creatures', due, present, life)
  BY <1>3, <1>4, <1>5, CalmTable
<1>7. Rest' /\ hits = {}
  BY NoHits DEF IInv, Rest, CharmExpires, playerVars
<1> QED
  BY <1>6, <1>7 DEF IInv, Table, Queued, CharmExpires, playerVars

LEMMA CharmStep ==
  ASSUME IInv, NEW p \in Players, NEW i \in Ids, Charm(p, i)
  PROVE  IInv' /\ Unhurt(creatures, creatures')
<1> DEFINE b == Pet(p, FALSE, creatures[i].hp)
           d == [b EXCEPT !.point = creatures[i].point, !.charmed = TRUE]
<1>1. /\ creatures' = [Gone(i, creatures) EXCEPT ![FreshId] = d]
      /\ present[p] = "in" /\ p # None
  BY NoneIsNobody DEF Charm
<1>2. /\ creatures[i] # None /\ creatures[i] \in Creature
      /\ FreshId \in Ids /\ creatures[FreshId] = None
  BY FreshIs DEF Charm, Living, Here, IInv, Typed
<1>3. creatures[i].hp \in 0 .. Full /\ creatures[i].point \in Points \cup {None}
  BY <1>2 DEF Creature
<1>4. /\ b \in Creature /\ b.owner = p /\ ~ b.warder /\ b.target = None /\ b.dots = {}
  <2> DEFINE q == Pet(p, FALSE, creatures[i].hp)
  <2>1. \A w \in BOOLEAN : \A hp \in 0 .. Full :
          /\ Pet(p, w, hp) \in Creature /\ Pet(p, w, hp).owner = p
          /\ Pet(p, w, hp).warder = w /\ Pet(p, w, hp).target = None
          /\ Pet(p, w, hp).dots = {}
    BY PetIs
  <2>2. /\ q \in Creature /\ q.owner = p /\ q.warder = FALSE
        /\ q.target = None /\ q.dots = {}
    BY <1>3, <2>1, Zenon
  <2> QED
    BY <2>2
<1> HIDE DEF b
<1>5. /\ d \in Creature /\ d.point = creatures[i].point /\ d.owner = p
      /\ ~ d.warder /\ d.charmed /\ d.target = None /\ d.dots = {}
  BY <1>3, <1>4 DEF Creature
<1> HIDE DEF d
<1>6. /\ Typed(creatures') /\ Tied(creatures') /\ Camps(creatures', due)
      /\ Bound(creatures', present, life) /\ Calm(creatures, creatures')
      /\ \A j \in Ids : creatures[j] = None /\ creatures'[j] # None => creatures'[j] = d
  <2> DEFINE ds == [Gone(i, creatures) EXCEPT ![FreshId] = d]
  <2>1. /\ Typed(creatures) /\ Tied(creatures) /\ Camps(creatures, due)
        /\ due \subseteq Points /\ Bound(creatures, present, life)
    BY DEF IInv, Rest
  <2>2. /\ d.warder => d.owner # None
        /\ d.owner # None /\ ~ d.charmed => d.point = None
        /\ d.owner # None => Beside(d, present[d.owner])
    BY <1>1, <1>5 DEF Beside
  <2>3. /\ Typed(ds) /\ Tied(ds) /\ Camps(ds, due) /\ Bound(ds, present, life) /\ Calm(creatures, ds)
        /\ \A j \in Ids : creatures[j] = None /\ ds[j] # None => ds[j] = d
    BY <1>2, <1>5, <2>1, <2>2, SwapKeeps
  <2> QED
    BY <1>1, <2>3
<1>7. Table(creatures', due, present, life)
  BY <1>5, <1>6, NoneIsNobody, CalmTable
<1>8. Rest' /\ hits = {}
  BY NoHits DEF IInv, Rest, Charm, playerVars
<1> QED
  BY <1>7, <1>8 DEF IInv, Table, Queued, Charm, playerVars

LEMMA LeaveStep ==
  ASSUME IInv, NEW p \in Players, Leave(p)
  PROVE  IInv' /\ Unhurt(creatures, creatures')
<1>1. PICK cs \in Despawned(p) : creatures' = NoDots(p, cs)
  BY DEF Leave
<1>2. /\ Typed(cs) /\ Tied(cs) /\ Camps(cs, due) /\ Bound(cs, present, life)
      /\ Calm(creatures, cs)
      /\ \A i \in Ids : cs[i] # None => cs[i].owner # p
      /\ \A i \in Ids : creatures[i] = None /\ cs[i] # None => cs[i].target = None
  BY DespawnedKeeps DEF IInv
<1>3. /\ Reshaped(cs, creatures') /\ Calm(cs, creatures')
      /\ \A i \in Ids : creatures'[i] # None => p \notin creatures'[i].dots
  BY <1>1, <1>2, NoDotsKeeps
<1>4. Typed(creatures') /\ Tied(creatures') /\ Camps(creatures', due) /\ Bound(creatures', present, life)
  BY <1>2, <1>3, ReshapedKeeps DEF Reshaped
<1>5. Bound(creatures', present', life)
  <2>1. \A q \in Players : q # p => present'[q] = present[q]
    BY DEF Leave, IInv, Rest
  <2>2. \A i \in Ids : creatures'[i] # None =>
          /\ creatures'[i].owner # p /\ p \notin creatures'[i].dots
          /\ creatures'[i].dots \subseteq Players /\ creatures'[i].owner \in Players \cup {None}
    BY <1>2, <1>3 DEF Reshaped, Kin, Creature
  <2> QED
    BY <1>4, <2>1, <2>2 DEF Bound
<1>6. \A i \in Ids : creatures'[i] # None => cs[i] # None
  BY <1>3 DEF Reshaped
<1>7. /\ Calm(creatures, creatures')
      /\ \A i \in Ids : creatures[i] = None /\ creatures'[i] # None => creatures'[i].target = None
  BY <1>2, <1>3, <1>6 DEF Calm
<1>8. Table(creatures', due, present', life)
  BY <1>4, <1>5, <1>7, NoneIsNobody, CalmTable
<1>9. Rest' /\ hits = {}
  BY NoHits DEF IInv, Rest, Leave
<1> QED
  BY <1>8, <1>9 DEF IInv, Table, Queued, Leave

LEMMA GoLinkdeadStep ==
  ASSUME IInv, NEW p \in Players, GoLinkdead(p)
  PROVE  IInv' /\ Unhurt(creatures, creatures')
<1>1. /\ Typed(creatures') /\ Tied(creatures') /\ Camps(creatures', due)
      /\ Bound(creatures', present, life) /\ Calm(creatures, creatures')
      /\ \A i \in Ids : creatures'[i] # None => creatures'[i].owner # p
      /\ \A i \in Ids : creatures[i] = None /\ creatures'[i] # None => creatures'[i].target = None
  BY DespawnedKeeps DEF IInv, GoLinkdead
<1>2. Bound(creatures', present', life)
  <2>1. /\ present'[p] = "linkdead"
        /\ \A q \in Players : q # p => present'[q] = present[q]
    BY DEF GoLinkdead, IInv, Rest
  <2>2. \A i \in Ids : creatures'[i] # None =>
          /\ creatures'[i].dots \subseteq Players /\ creatures'[i].owner \in Players \cup {None}
    BY <1>1 DEF Typed, Creature
  <2> QED
    BY <1>1, <2>1, <2>2 DEF Bound
<1>3. Table(creatures', due, present', life)
  BY <1>1, <1>2, NoneIsNobody, CalmTable
<1>4. Rest' /\ hits = {}
  BY NoHits DEF IInv, Rest, GoLinkdead
<1> QED
  BY <1>3, <1>4 DEF IInv, Table, Queued, GoLinkdead

\* Nobody dies.
LEMMA LivesOn ==
  ASSUME NEW cs, Typed(cs), NEW pres, NEW lf, NEW lg,
         \A p \in Players : lg[p] = "dead" => lf[p] = "dead"
  PROVE  /\ Forgotten(cs, lf) => Forgotten(cs, lg)
         /\ Bound(cs, pres, lf) => Bound(cs, pres, lg)
<1>1. \A i \in Ids : cs[i] # None => cs[i].dots \subseteq Players
  BY DEF Typed, Creature
<1> QED
  BY <1>1 DEF Forgotten, Bound

LEMMA RespawnStep ==
  ASSUME IInv, NEW p \in Players, Respawn(p)
  PROVE  IInv' /\ Unhurt(creatures, creatures')
<1>1. Forgotten(creatures, life') /\ Bound(creatures, present, life')
  BY LivesOn DEF Respawn, IInv, Rest
<1>2. Rest' /\ hits = {} /\ creatures' = creatures
  BY NoHits DEF IInv, Rest, Respawn
<1> QED
  BY <1>1, <1>2, Kept DEF IInv, Table, Queued, Respawn

LEMMA EndOpenStep ==
  ASSUME IInv, EndOpen
  PROVE  IInv' /\ Unhurt(creatures, creatures')
<1>1. Rest' /\ hits = {} /\ creatures' = creatures
  BY NoHits DEF IInv, Rest, EndOpen, playerVars, Passes
<1> QED
  BY <1>1, Kept DEF IInv, Table, Queued, EndOpen, playerVars

-----------------------------------------------------------------------------
(* Attacks, spells and commands *)

\* The bodies are reshaped where they are.
LEMMA ReshapedTable ==
  ASSUME IInv, NEW ds, Reshaped(creatures, ds), Forgotten(ds, life), Unhurt(creatures, ds)
  PROVE  Table(ds, due, present, life)
BY ReshapedKeeps DEF IInv, Table, Reshaped

LEMMA OneBodyTable ==
  ASSUME IInv, NEW i \in Ids, creatures[i] # None, NEW d, Kin(creatures[i], d),
         d.state # "Dead" => creatures[i].state # "Dead",
         d.target \in {creatures[i].target, None} \cup Alive \cup Ids,
         Evading(creatures[i]) => d.hp >= creatures[i].hp,
         NEW ds, ds = [creatures EXCEPT ![i] = d]
  PROVE  Table(ds, due, present, life)
<1>1. Typed(creatures) /\ Forgotten(creatures, life)
  BY DEF IInv
<1>2. Reshaped(creatures, ds)
  BY <1>1, ReshapedOne
<1>3. \A j \in Ids : ds[j] = IF j = i THEN d ELSE creatures[j]
  BY <1>1 DEF Typed
<1>4. d.target \in Players => d.target = creatures[i].target \/ life[d.target] = "alive"
  BY AliveType, NoneIsNobody, IdsDiffer
<1>5. Forgotten(ds, life)
  BY <1>1, <1>3, <1>4 DEF Forgotten
<1>6. Unhurt(creatures, ds)
  BY <1>1, <1>3, SameIs DEF Unhurt
<1> QED
  BY <1>2, <1>5, <1>6, ReshapedTable

\* A spell leaves a DoT of a living player's.
LEMMA DotTable ==
  ASSUME NEW cs, Table(cs, due, present, life), NEW i \in Ids, cs[i] # None,
         NEW p \in Players, present[p] # "out", life[p] # "dead"
  PROVE  Table([cs EXCEPT ![i] = [cs[i] EXCEPT !.dots = @ \cup {p}]], due, present, life)
<1> DEFINE d == [cs[i] EXCEPT !.dots = @ \cup {p}]
           ds == [cs EXCEPT ![i] = d]
<1>1. cs[i] \in Creature /\ Typed(cs)
  BY DEF Table, Typed
<1>2. cs[i].dots \cup {p} \in SUBSET Players
  BY <1>1 DEF Creature
<1>3. /\ d \in Creature /\ d.point = cs[i].point /\ d.owner = cs[i].owner
      /\ d.warder = cs[i].warder /\ d.charmed = cs[i].charmed /\ d.state = cs[i].state
      /\ d.hp = cs[i].hp /\ d.target = cs[i].target /\ d.dots = cs[i].dots \cup {p}
  BY <1>1, <1>2 DEF Creature
<1>4. d # None
  BY <1>3, NoneIsNoCreature
<1> HIDE DEF d
<1>5. Typed(ds) /\ \A j \in Ids : ds[j] = IF j = i THEN d ELSE cs[j]
  BY <1>1, <1>3 DEF Typed
<1> HIDE DEF ds
<1>6. Tied(ds)
  BY <1>3, <1>5 DEF Table, Tied
<1>7. Camps(ds, due)
  BY <1>3, <1>4, <1>5 DEF Table, Camps
<1>8. Bound(ds, present, life)
  BY <1>3, <1>5 DEF Table, Bound, Beside
<1>9. Forgotten(ds, life)
  BY <1>3, <1>5 DEF Table, Forgotten
<1>10. Unhurt(creatures, ds)
  BY <1>3, <1>4, <1>5 DEF Table, Unhurt
<1> QED
  BY <1>5, <1>6, <1>7, <1>8, <1>9, <1>10 DEF Table, ds, d

LEMMA BereavedType ==
  ASSUME NEW cs, Typed(cs), Tied(cs)
  PROVE  Bereaved(cs) \subseteq Players
BY DEF Bereaved, Typed, Tied, Creature

LEMMA AttackStep ==
  ASSUME IInv, NEW p \in Players, NEW i \in Ids, Attack(p, i)
  PROVE  IInv' /\ Unhurt(creatures, creatures')
<1>1. PICK d \in 0 .. Full : creatures' = [creatures EXCEPT ![i] = StruckBy(p, creatures[i], d)]
  BY DEF Attack
<1>2. /\ creatures[i] # None /\ creatures[i] \in Creature /\ creatures[i].state # "Dead"
      /\ ~ Evading(creatures[i])
  BY DEF Attack, Attackable, Living, Here, IInv, Typed
<1> DEFINE e == StruckBy(p, creatures[i], d)
<1>3. Kin(creatures[i], e) /\ e.target \in {creatures[i].target, None}
  BY <1>2, BlowKin DEF StruckBy, Anyone
<1> HIDE DEF e
<1>4. Table(creatures', due, present, life)
  BY <1>1, <1>2, <1>3, OneBodyTable DEF e
<1>5. Rest' /\ hits = {}
  <2>1. retreat' \subseteq Players
    BY <1>4, BereavedType DEF Table, Attack, IInv, Rest
  <2>2. last' \in [Players -> Anyone \cup {None}]
    BY DEF Attack, IInv, Rest, Anyone
  <2> QED
    BY <2>1, <2>2, NoHits DEF IInv, Rest, Attack
<1> QED
  BY <1>4, <1>5 DEF IInv, Table, Queued, Attack

LEMMA SpellHitsStep ==
  ASSUME IInv, NEW p \in Players, NEW i \in Ids, SpellHits(p, i)
  PROVE  IInv' /\ Unhurt(creatures, creatures')
<1>1. PICK d \in 0 .. Full, dot \in BOOLEAN :
        creatures' = [creatures EXCEPT ![i] = Dotted(p, StruckBy(p, creatures[i], d), dot)]
  BY DEF SpellHits
<1>2. /\ creatures[i] # None /\ creatures[i] \in Creature /\ creatures[i].state # "Dead"
      /\ ~ Evading(creatures[i])
  BY DEF SpellHits, Reached, Attackable, Living, Here, IInv, Typed
<1> DEFINE e == StruckBy(p, creatures[i], d)
           f == Dotted(p, e, dot)
<1>3. Kin(creatures[i], e) /\ e.target \in {creatures[i].target, None} /\ e \in Creature
  BY <1>2, BlowKin DEF StruckBy, Anyone, Kin
<1>4. creatures' = [creatures EXCEPT ![i] = f]
  BY <1>1
<1> HIDE DEF e
<1> DEFINE es == [creatures EXCEPT ![i] = e]
<1>5. Table(es, due, present, life) /\ es[i] = e /\ e # None
  BY <1>2, <1>3, OneBodyTable, KinIsThere DEF IInv, Typed
<1>6. Table(creatures', due, present, life)
  <2>1. CASE f = e
    BY <1>4, <1>5, <2>1
  <2>2. CASE f = [e EXCEPT !.dots = @ \cup {p}]
    <3>1. present[p] # "out" /\ life[p] # "dead"
      BY DEF SpellHits
    <3>2. creatures' = [es EXCEPT ![i] = [es[i] EXCEPT !.dots = @ \cup {p}]]
      BY <1>4, <1>5, <2>2
    <3> HIDE DEF es
    <3> QED
      BY <1>5, <3>1, <3>2, DotTable
  <2> QED
    BY <2>1, <2>2 DEF Dotted
<1>7. Rest' /\ hits = {}
  <2>1. retreat' \subseteq Players
    BY <1>6, BereavedType DEF Table, SpellHits, IInv, Rest
  <2>2. last' \in [Players -> Anyone \cup {None}]
    BY DEF SpellHits, IInv, Rest, Anyone
  <2> QED
    BY <2>1, <2>2, NoHits DEF IInv, Rest, SpellHits
<1> QED
  BY <1>6, <1>7 DEF IInv, Table, Queued, SpellHits

LEMMA FeignDeathStep ==
  ASSUME IInv, NEW p \in Players, FeignDeath(p)
  PROVE  IInv' /\ Unhurt(creatures, creatures')
<1>1. creatures' = Wiped({p}, creatures)
  BY DEF FeignDeath
<1>2. Reshaped(creatures, creatures') /\ Calm(creatures, creatures')
  BY <1>1, WipedKeeps DEF IInv
<1>3. \A i \in Ids : creatures[i] = None => creatures'[i] = None
  BY <1>2, KinIsThere DEF Reshaped
<1>4. Forgotten(creatures', life) /\ Unhurt(creatures, creatures')
  BY <1>2, <1>3, CalmIs DEF IInv, Reshaped
<1>5. Table(creatures', due, present, life)
  BY <1>2, <1>4, ReshapedTable
<1>6. Rest' /\ hits = {}
  BY NoHits DEF IInv, Rest, FeignDeath, playerVars
<1> QED
  BY <1>5, <1>6 DEF IInv, Table, Queued, FeignDeath, playerVars

LEMMA FallStep ==
  ASSUME IInv, NEW p \in Players, Fall(p)
  PROVE  IInv' /\ Unhurt(creatures, creatures')
<1>1. life' = [life EXCEPT ![p] = "down"]
  BY DEF Fall
<1>2. Rest' /\ Forgotten(creatures, life') /\ Bound(creatures, present, life')
  <2>1. Rest' /\ \A q \in Players : life'[q] = "dead" => life[q] = "dead"
    BY <1>1 DEF IInv, Rest, Fall
  <2> QED
    BY <2>1, LivesOn DEF IInv
<1>3. Unhurt(creatures, creatures')
  BY Kept DEF Table, Fall
<1> QED
  BY <1>2, <1>3 DEF IInv, Fall

LEMMA HealPetStep ==
  ASSUME IInv, NEW p \in Players, NEW i \in Ids, HealPet(p, i)
  PROVE  IInv' /\ Unhurt(creatures, creatures')
<1> DEFINE b == creatures[i]
           d == [b EXCEPT !.hp = @ + 1]
<1>1. b # None /\ b \in Creature /\ b.hp \in 0 .. Full /\ b.hp + 1 \in 0 .. Full
  BY FullType DEF HealPet, LivingPets, Living, Here, IInv, Typed, Creature
<1>2. creatures' = [creatures EXCEPT ![i] = d]
  BY DEF HealPet
<1> HIDE DEF b
<1>3. Kin(b, d) /\ d.state = b.state /\ d.target = b.target /\ d.hp >= b.hp
  BY <1>1 DEF Kin, Creature
<1> HIDE DEF d
<1>4. Table(creatures', due, present, life)
  BY <1>1, <1>2, <1>3, OneBodyTable DEF b
<1>5. Rest' /\ hits = {}
  BY NoHits DEF IInv, Rest, HealPet, playerVars
<1> QED
  BY <1>4, <1>5 DEF IInv, Table, Queued, HealPet, playerVars

LEMMA CommandStep ==
  ASSUME IInv, NEW p \in Players, Command(p)
  PROVE  IInv' /\ Unhurt(creatures, creatures')
<1>1. PICK i \in PetsOf(p) \cap Living, t \in Alive \cup {None}, s \in {"Follow", "Guard", "Sit"} :
        Commanded(i, t, s)
  BY DEF Command, PetAttack, Alive
<1> DEFINE b == creatures[i]
           d == [b EXCEPT !.target = t, !.stance = s]
<1>2. i \in Ids /\ b # None /\ b \in Creature /\ b.state # "Dead" /\ t \in Anyone \cup {None}
  BY AliveType DEF Living, Here, IInv, Typed
<1>3. creatures' = [creatures EXCEPT ![i] = d]
  BY <1>1 DEF Commanded
<1> HIDE DEF b
<1>4. Kin(b, d) /\ d.target = t /\ d.hp = b.hp
  BY <1>2 DEF Kin, Creature
<1> HIDE DEF d
<1>a. d.hp >= b.hp
  BY <1>2, <1>4, FullType DEF Creature
<1>b. d.target \in {b.target, None} \cup Alive \cup Ids
  BY <1>4
<1>5. Table(creatures', due, present, life)
  BY <1>2, <1>3, <1>4, <1>a, <1>b, OneBodyTable DEF b
<1>6. Rest' /\ hits = {}
  BY NoHits DEF IInv, Rest, Command, playerVars
<1> QED
  BY <1>5, <1>6 DEF IInv, Table, Queued, Command, playerVars

LEMMA AttackFadesStep ==
  ASSUME IInv, NEW p \in Players, AttackFades(p)
  PROVE  IInv' /\ Unhurt(creatures, creatures')
<1>1. Rest' /\ hits = {} /\ creatures' = creatures
  BY NoHits DEF IInv, Rest, AttackFades
<1> QED
  BY <1>1, Kept DEF IInv, Table, Queued, AttackFades

LEMMA PortStep ==
  ASSUME IInv, NEW p \in Players, Port(p)
  PROVE  IInv' /\ Unhurt(creatures, creatures')
<1> DEFINE cs == Wiped({p}, creatures)
           mine == PetsOf(p) \cap Living
           Along == [j \in Ids |-> IF j \in mine
                       THEN [cs[j] EXCEPT !.target = None, !.stance = "Follow"] ELSE cs[j]]
<1>1. /\ Typed(creatures) /\ Tied(creatures) /\ Camps(creatures, due)
      /\ due \subseteq Points /\ Bound(creatures, present, life) /\ Forgotten(creatures, life)
  BY DEF IInv, Rest
<1>2. Reshaped(creatures, cs) /\ Calm(creatures, cs) /\ Typed(cs)
  BY <1>1, WipedKeeps DEF Reshaped
<1>3. \/ creatures' = cs /\ life' = [life EXCEPT ![p] = "down"] /\ last' = last
      \/ /\ last' = [last EXCEPT ![p] = None] /\ life' = life
         /\ \/ creatures' = Along
            \/ /\ SomeFresh
               /\ \E i \in mine : \E d \in Released(i, None) :
                    creatures' = [Gone(i, Along) EXCEPT ![FreshId] = d]
  BY DEF Port
<1> HIDE DEF cs
<1>4. \A j \in mine : cs[j] \in Creature
  BY <1>2, KinIsThere DEF Living, Here, Reshaped, Kin
<1>5. ASSUME NEW j \in Ids
      PROVE  \/ cs[j] = None /\ Along[j] = None
             \/ /\ cs[j] # None /\ Kin(cs[j], Along[j]) /\ Along[j].hp = cs[j].hp
                /\ Along[j].state = cs[j].state /\ Along[j].target \in {cs[j].target, None}
  <2>1. CASE j \in mine
    <3> DEFINE e == [cs[j] EXCEPT !.target = None, !.stance = "Follow"]
    <3>1. cs[j] \in Creature /\ cs[j] # None /\ Along[j] = e
      BY <1>4, <2>1, NoneIsNoCreature
    <3>2. Kin(cs[j], e) /\ e.hp = cs[j].hp /\ e.state = cs[j].state /\ e.target = None
      BY <3>1 DEF Kin, Creature
    <3> QED
      BY <3>1, <3>2
  <2>2. CASE j \notin mine
    BY <1>2, <2>2 DEF Kin, Typed
  <2> QED
    BY <2>1, <2>2
<1>6. Along = [j \in Ids |-> Along[j]] /\ mine \subseteq Ids
  BY DEF PetsOf, Here
<1> HIDE DEF Along, mine
<1>7. Reshaped(cs, Along) /\ Calm(cs, Along)
  <2>1. \A j \in Ids : Along[j] \in Creature \cup {None}
    BY <1>5 DEF Kin
  <2>2. Typed(Along)
    BY <1>6, <2>1 DEF Typed
  <2> QED
    BY <1>5, <2>2 DEF Reshaped, Calm
<1>8. Reshaped(creatures, Along) /\ Calm(creatures, Along) /\ Typed(Along)
  <2>1. \A j \in Ids : creatures[j] # None => cs[j] # None
    BY <1>2, KinIsThere DEF Reshaped
  <2>2. Calm(creatures, Along)
    BY <1>2, <1>7, <2>1 DEF Calm
  <2> QED
    BY <1>2, <1>7, <2>2, ReshapedTrans DEF Reshaped
<1>9. Table(creatures', due, present, life')
  <2>1. CASE creatures' = cs /\ life' = [life EXCEPT ![p] = "down"]
    <3>1. \A i \in Ids : creatures[i] = None => cs[i] = None
      BY <1>2, KinIsThere DEF Reshaped
    <3>2. Forgotten(cs, life) /\ Unhurt(creatures, cs)
      BY <1>1, <1>2, <3>1, CalmIs
    <3>3. Table(cs, due, present, life)
      BY <1>2, <3>2, ReshapedTable
    <3>4. \A q \in Players : life'[q] = "dead" => life[q] = "dead"
      BY <2>1 DEF IInv, Rest
    <3> QED
      BY <1>2, <2>1, <3>3, <3>4, LivesOn DEF Table
  <2>2. CASE creatures' = Along /\ life' = life
    <3>1. \A i \in Ids : creatures[i] = None => Along[i] = None
      BY <1>8, KinIsThere DEF Reshaped
    <3>2. Forgotten(Along, life) /\ Unhurt(creatures, Along)
      BY <1>1, <1>8, <3>1, CalmIs
    <3> QED
      BY <1>8, <2>2, <3>2, ReshapedTable
  <2>3. ASSUME SomeFresh, NEW i \in mine, NEW d \in Released(i, None),
               creatures' = [Gone(i, Along) EXCEPT ![FreshId] = d], life' = life
        PROVE  Table(creatures', due, present, life')
    <3>1. i \in Ids /\ creatures[i] # None
      BY <1>6 DEF mine, PetsOf, Here
    <3>2. /\ d \in Creature /\ d.point = creatures[i].point /\ d.owner = None
          /\ ~ d.warder /\ d.target = None /\ d.dots = {}
      BY <1>1, <3>1, ReleasedIs
    <3>3. Tied(Along) /\ Camps(Along, due) /\ Bound(Along, present, life)
      BY <1>1, <1>8, ReshapedKeeps
    <3>4. Along[i] # None /\ d.point = Along[i].point
      BY <1>8, <3>1, <3>2, KinIsThere DEF Reshaped, Kin
    <3>5. FreshId \in Ids /\ creatures[FreshId] = None /\ Along[FreshId] = None
      BY <1>8, <2>3, FreshIs DEF Reshaped
    <3> DEFINE ds == [Gone(i, Along) EXCEPT ![FreshId] = d]
    <3>6. /\ Typed(ds) /\ Tied(ds) /\ Camps(ds, due) /\ Bound(ds, present, life)
          /\ Calm(Along, ds)
          /\ \A j \in Ids : Along[j] = None /\ ds[j] # None => ds[j] = d
      BY <1>1, <1>8, <3>1, <3>2, <3>3, <3>4, <3>5, SwapKeeps
    <3> HIDE DEF ds
    <3>7. \A j \in Ids : creatures[j] = None <=> Along[j] = None
      BY <1>8, KinIsThere DEF Reshaped
    <3>8. Calm(creatures, ds)
      BY <1>8, <3>6, <3>7 DEF Calm
    <3>9. \A j \in Ids : creatures[j] = None /\ ds[j] # None => ds[j].target = None
      BY <3>2, <3>6, <3>7
    <3> QED
      BY <2>3, <3>6, <3>8, <3>9, NoneIsNobody, CalmTable DEF ds
  <2> QED
    BY <1>3, <2>1, <2>2, <2>3
<1>10. Rest' /\ hits = {}
  <2>1. life' \in [Players -> {"alive", "down", "dead"}]
    BY <1>3 DEF IInv, Rest
  <2>2. last' \in [Players -> Anyone \cup {None}]
    BY <1>3 DEF IInv, Rest
  <2> QED
    BY <2>1, <2>2, NoHits DEF IInv, Rest, Port
<1> QED
  BY <1>9, <1>10 DEF IInv, Table, Queued, Port

LEMMA SweepStep ==
  ASSUME IInv, Sweep
  PROVE  IInv' /\ Unhurt(creatures, creatures')
<1> DEFINE newly == {p \in InWorld : life[p] = "down"}
           ds == Wiped(newly, creatures)
<1>1. /\ creatures' = ds /\ hits = {}
      /\ life' = [p \in Players |-> IF p \in newly THEN "dead" ELSE life[p]]
  BY DEF Sweep
<1>2. newly \in SUBSET Players
  BY DEF InWorld
<1> HIDE DEF newly
<1>3. /\ Reshaped(creatures, ds) /\ Calm(creatures, ds)
      /\ \A i \in Ids : ds[i] # None =>
           ds[i].target \notin newly /\ ds[i].dots \cap newly = {}
  BY <1>2, WipedKeeps DEF IInv
<1> HIDE DEF ds
<1>4. \A i \in Ids : creatures[i] = None => ds[i] = None
  BY <1>3, KinIsThere DEF Reshaped
<1>5. Forgotten(ds, life) /\ Unhurt(creatures, ds)
  BY <1>3, <1>4, CalmIs DEF IInv, Reshaped
<1>6. Forgotten(ds, life')
  BY <1>1, <1>3, <1>5 DEF Forgotten
<1>a. Table(ds, due, present, life)
  BY <1>3, <1>5, ReshapedTable
<1>b. Bound(ds, present, life')
  <2>1. \A i \in Ids : ds[i] # None => ds[i].dots \subseteq Players
    BY <1>a DEF Table, Typed, Creature
  <2> QED
    BY <1>1, <1>3, <1>a, <2>1 DEF Table, Bound
<1>7. Table(creatures', due, present, life')
  BY <1>1, <1>6, <1>a, <1>b DEF Table
<1>8. Rest'
  BY <1>1 DEF IInv, Rest, Sweep, Passes
<1> QED
  BY <1>1, <1>7, <1>8 DEF IInv, Table, Queued, Sweep

-----------------------------------------------------------------------------
(* All the creatures at once *)

LEMMA RunAiStep ==
  ASSUME IInv, RunAi
  PROVE  IInv' /\ Unhurt(creatures, creatures')
<1>1. /\ Typed(creatures) /\ Tied(creatures) /\ Forgotten(creatures, life) /\ hits = {}
      /\ pass' = "blows" /\ UNCHANGED <<due, present, life, last>>
  BY NoHits DEF IInv, RunAi, playerVars
<1>2. CASE InWorld = {}
  <2>1. creatures' = creatures /\ hits' = {}
    BY <1>1, <1>2 DEF RunAi
  <2>2. retreat' \subseteq Players
    BY <1>1, <2>1, BereavedType DEF RunAi, IInv, Rest
  <2>3. Rest'
    BY <1>1, <2>1, <2>2 DEF IInv, Rest, Passes
  <2> QED
    BY <1>1, <2>1, <2>3, SameIs DEF IInv, Queued
<1>3. CASE InWorld # {}
  <2> DEFINE All(all) == /\ creatures' = [i \in Ids |-> all[i][1]]
                         /\ hits' = {<<i, all[i][2]>> : i \in {j \in Ids : all[j][2] # None}}
  <2>1. PICK all \in Together : All(all)
    BY <1>3 DEF RunAi
  <2> DEFINE ds == [i \in Ids |-> all[i][1]]
             blows == {<<i, all[i][2]>> : i \in {j \in Ids : all[j][2] # None}}
  <2>2. creatures' = ds /\ hits' = blows
    BY <2>1
  <2> HIDE DEF All
  <2>3. ASSUME NEW i \in Ids, i \notin Living
        PROVE  ds[i] = creatures[i] /\ all[i][2] = None
    BY <2>3, TogetherDoes
  <2>4. ASSUME NEW i \in Living
        PROVE  /\ i \in Ids /\ creatures[i] # None /\ creatures[i].state # "Dead"
               /\ Kin(creatures[i], ds[i]) /\ ds[i] # None
               /\ Evading(creatures[i]) => ds[i].hp >= creatures[i].hp
               /\ ds[i].target \in {creatures[i].target, None} \cup Alive
               /\ \/ all[i][2] = None
                  \/ /\ all[i][2] \in Alive
                     /\ ~ IsOwned(ds[i]) => all[i][2] \in Targets
                     /\ ~ Evading(ds[i])
    <3>1. i \in Ids /\ creatures[i] # None /\ creatures[i].state # "Dead"
      BY DEF Living, Here
    <3>2. all[i] \in Outcomes(i) /\ ds[i] = all[i][1]
      BY <3>1, TogetherDoes
    <3> HIDE DEF ds
    <3> QED
      BY <1>1, <3>1, <3>2, OutcomeDoes, KinIsThere
  <2>5. ds = [i \in Ids |-> ds[i]]
    OBVIOUS
  <2>6. \A h \in blows : /\ h = <<h[1], h[2]>> /\ h[1] \in Living
                         /\ h[2] = all[h[1]][2] /\ h[2] # None
    BY <2>3
  <2> HIDE DEF ds, blows
  <2>7. Typed(ds) /\ Reshaped(creatures, ds)
    <3>1. \A i \in Ids : ds[i] \in Creature \cup {None}
      BY <1>1, <2>3, <2>4 DEF Kin, Typed
    <3>2. Typed(ds)
      BY <2>5, <3>1 DEF Typed
    <3>3. \A i \in Ids : (creatures[i] = None /\ ds[i] = None)
                         \/ (creatures[i] # None /\ Kin(creatures[i], ds[i]))
      BY <1>1, <2>3, <2>4 DEF Typed, Kin
    <3> QED
      BY <3>2, <3>3 DEF Reshaped
  <2>8. Forgotten(ds, life)
    <3> SUFFICES ASSUME NEW i \in Ids, ds[i] # None, ds[i].state # "Dead",
                        ds[i].target \in Players
                 PROVE  life[ds[i].target] # "dead"
      BY DEF Forgotten
    <3>1. i \in Living
      BY <2>3 DEF Living, Here
    <3> QED
      BY <1>1, <2>4, <3>1, AliveType, NoneIsNobody DEF Forgotten
  <2>9. Unhurt(creatures, ds)
    BY <1>1, <2>3, <2>4, SameIs DEF Unhurt
  <2>10. Table(ds, due, present, life)
    BY <2>7, <2>8, <2>9, ReshapedTable
  <2>11. ASSUME NEW h \in blows
         PROVE  /\ h \in Ids \X Anyone
                /\ ds[h[1]] # None /\ ~ Evading(ds[h[1]])
                /\ h[2] \in Ids => ds[h[2]] # None
                /\ h[2] \in Ids /\ ~ IsOwned(ds[h[1]]) => IsOwned(ds[h[2]])
    <3>1. /\ h = <<h[1], h[2]>> /\ h[1] \in Living /\ h[1] \in Ids /\ ds[h[1]] # None
          /\ h[2] \in Alive /\ ~ Evading(ds[h[1]])
          /\ ~ IsOwned(ds[h[1]]) => h[2] \in Targets
      BY <2>4, <2>6
    <3>2. h \in Ids \X Anyone
      BY <3>1, AliveType
    <3>3. h[2] \in Ids => h[2] \in Living
      BY <3>1, IdsDiffer DEF Alive, Hale, InWorld
    <3>4. h[2] \in Ids => ds[h[2]] # None
      BY <2>4, <3>3
    <3>5. ASSUME h[2] \in Ids, ~ IsOwned(ds[h[1]])
          PROVE  IsOwned(ds[h[2]])
      <4>1. h[2] \in LivingPets
        BY <3>1, <3>5, IdsDiffer DEF Targets, Hale, InWorld
      <4>2. IsOwned(creatures[h[2]]) /\ Kin(creatures[h[2]], ds[h[2]])
        BY <2>4, <4>1 DEF LivingPets, IsPet
      <4> QED
        BY <4>2 DEF IsOwned, Kin
    <3> QED
      BY <3>1, <3>2, <3>4, <3>5
  <2>12. Queued(ds, blows, "blows") /\ blows \subseteq Ids \X Anyone
    BY <2>11 DEF Queued
  <2>13. retreat' \subseteq Players
    BY <2>2, <2>10, BereavedType DEF Table, RunAi, IInv, Rest
  <2>14. Rest'
    BY <1>1, <2>2, <2>12, <2>13 DEF IInv, Rest, Passes
  <2> QED
    BY <1>1, <2>2, <2>10, <2>12, <2>14 DEF IInv, Table
<1> QED
  BY <1>2, <1>3

-----------------------------------------------------------------------------
(* The blows *)

\* A blow hurts what does not evade, and makes nobody evade.
Landed(cs, ds) ==
  /\ Reshaped(cs, ds)
  /\ \A i \in Ids : cs[i] # None /\ ds[i] # cs[i] =>
       /\ ~ Evading(cs[i]) /\ ~ Evading(ds[i])
       /\ ds[i].state \in {cs[i].state, "Dead"}
       /\ ds[i].target \in {cs[i].target, None} \cup Ids

LEMMA LandedSelf ==
  ASSUME NEW cs, Typed(cs)
  PROVE  Landed(cs, cs)
BY ReshapedSelf DEF Landed

LEMMA LandedTrans ==
  ASSUME NEW cs, NEW ds, NEW es, Landed(cs, ds), Landed(ds, es)
  PROVE  Landed(cs, es)
<1>1. Reshaped(cs, es)
  BY ReshapedTrans DEF Landed
<1>2. ASSUME NEW i \in Ids, cs[i] # None, es[i] # cs[i]
      PROVE  /\ ~ Evading(cs[i]) /\ ~ Evading(es[i])
             /\ es[i].state \in {cs[i].state, "Dead"}
             /\ es[i].target \in {cs[i].target, None} \cup Ids
  <2>1. ds[i] # None
    BY <1>2, KinIsThere DEF Landed, Reshaped
  <2>2. CASE ds[i] = cs[i]
    BY <1>2, <2>1, <2>2 DEF Landed
  <2>3. CASE ds[i] # cs[i] /\ es[i] = ds[i]
    BY <1>2, <2>3 DEF Landed
  <2>4. CASE ds[i] # cs[i] /\ es[i] # ds[i]
    <3>1. /\ ~ Evading(cs[i]) /\ ds[i].state \in {cs[i].state, "Dead"}
          /\ ds[i].target \in {cs[i].target, None} \cup Ids
      BY <1>2, <2>4 DEF Landed
    <3>2. /\ ~ Evading(es[i]) /\ es[i].state \in {ds[i].state, "Dead"}
          /\ es[i].target \in {ds[i].target, None} \cup Ids
      BY <2>1, <2>4 DEF Landed
    <3> QED
      BY <3>1, <3>2
  <2> QED
    BY <2>2, <2>3, <2>4
<1> QED
  BY <1>1, <1>2 DEF Landed

\* One blow at one body, which may then turn on a body.
LEMMA LandsOn ==
  ASSUME NEW cs, Typed(cs), NEW i \in Ids, cs[i] # None, ~ Evading(cs[i]), NEW d,
         Kin(cs[i], d), d.state \in {cs[i].state, "Dead"},
         d.target \in {cs[i].target, None} \cup Ids, d.stuck => cs[i].stuck
  PROVE  Landed(cs, [cs EXCEPT ![i] = d])
<1> DEFINE ds == [cs EXCEPT ![i] = d]
<1>1. Reshaped(cs, ds)
  BY ReshapedOne
<1>2. \A j \in Ids : ds[j] = IF j = i THEN d ELSE cs[j]
  BY DEF Typed
<1>3. ~ Evading(d)
  BY DEF Evading, Kin
<1> HIDE DEF ds
<1>4. Landed(cs, ds)
  BY <1>1, <1>2, <1>3 DEF Landed
<1> QED
  BY <1>4 DEF ds

LEMMA ShieldedLands ==
  ASSUME NEW cs, Typed(cs), NEW a \in Ids, cs[a] # None, ~ Evading(cs[a]),
         NEW by \in Anyone, NEW ds \in Shielded(a, by, cs)
  PROVE  Landed(cs, ds)
<1>1. CASE ds = cs
  BY <1>1, LandedSelf
<1>2. ASSUME NEW d \in 0 .. Full, ds = [cs EXCEPT ![a] = Struck(Angered(cs[a], by), d)]
      PROVE  Landed(cs, ds)
  <2> DEFINE e == Struck(Angered(cs[a], by), d)
  <2>1. cs[a] \in Creature
    BY DEF Typed
  <2>2. /\ Kin(cs[a], e) /\ e.state \in {cs[a].state, "Dead"}
        /\ e.target \in {cs[a].target, None} /\ (e.stuck => cs[a].stuck)
    BY <2>1, BlowKin
  <2> HIDE DEF e
  <2>3. Landed(cs, [cs EXCEPT ![a] = e])
    BY <2>2, LandsOn
  <2> QED
    BY <1>2, <2>3 DEF e
<1> QED
  BY <1>1, <1>2 DEF Shielded

\* Blows that land leave the invariant of the table, and the blows still
\* queued what they were queued for.
LEMMA LandedTable ==
  ASSUME IInv, NEW ds, Landed(creatures, ds)
  PROVE  Table(ds, due, present, life) /\ Queued(ds, hits, pass)
<1>1. Typed(creatures) /\ Forgotten(creatures, life) /\ Queued(creatures, hits, pass)
      /\ Reshaped(creatures, ds) /\ hits \subseteq Ids \X Anyone
  BY DEF IInv, Rest, Landed
<1>2. \A i \in Ids : creatures[i] = None <=> ds[i] = None
  BY <1>1, KinIsThere DEF Reshaped
<1>3. Forgotten(ds, life)
  <2> SUFFICES ASSUME NEW i \in Ids, ds[i] # None, ds[i].state # "Dead",
                      ds[i].target \in Players
               PROVE  life[ds[i].target] # "dead"
    BY DEF Forgotten
  <2>1. creatures[i] # None
    BY <1>2
  <2>2. creatures[i].state # "Dead" /\ ds[i].target = creatures[i].target
    BY <2>1, NoneIsNobody, IdsDiffer DEF Landed
  <2> QED
    BY <1>1, <2>1, <2>2 DEF Forgotten
<1>4. Unhurt(creatures, ds)
  BY <1>1, SameIs DEF Landed, Unhurt
<1>5. Queued(ds, hits, pass)
  <2> SUFFICES ASSUME NEW h \in hits
               PROVE  /\ pass = "blows"
                      /\ ds[h[1]] # None /\ ~ Evading(ds[h[1]])
                      /\ h[2] \in Ids => ds[h[2]] # None
                      /\ h[2] \in Ids /\ ~ IsOwned(ds[h[1]]) => IsOwned(ds[h[2]])
    BY DEF Queued
  <2>1. /\ h[1] \in Ids /\ pass = "blows" /\ creatures[h[1]] # None /\ ~ Evading(creatures[h[1]])
        /\ h[2] \in Ids => creatures[h[2]] # None
        /\ h[2] \in Ids /\ ~ IsOwned(creatures[h[1]]) => IsOwned(creatures[h[2]])
    BY <1>1 DEF Queued
  <2>2. \A i \in Ids : creatures[i] # None => ds[i].owner = creatures[i].owner
    BY <1>1 DEF Reshaped, Kin
  <2>3. ~ Evading(ds[h[1]])
    BY <2>1 DEF Landed
  <2> QED
    BY <1>2, <2>1, <2>2, <2>3 DEF IsOwned
<1> QED
  BY <1>1, <1>3, <1>4, <1>5, ReshapedTable

LEMMA LandStep ==
  ASSUME IInv, Land
  PROVE  IInv' /\ Unhurt(creatures, creatures')
<1>1. PICK h \in hits : /\ hits' = hits \ {h}
                        /\ \/ UNCHANGED <<creatures, life, last>>
                           \/ /\ Struckable(h[1], h[2])
                              /\ \/ h[2] \in Players /\ HitsPlayer(h[1], h[2])
                                 \/ h[2] \in Ids /\ ~ IsPet(h[1]) /\ MobHitsPet(h[1], h[2])
                                 \/ h[2] \in Ids /\ IsPet(h[1]) /\ PetHits(h[1], h[2])
  BY DEF Land
<1> DEFINE a == h[1]
           t == h[2]
<1>2. /\ a \in Ids /\ creatures[a] # None /\ ~ Evading(creatures[a])
      /\ t \in Ids => creatures[t] # None
      /\ t \in Ids /\ ~ IsPet(a) => IsPet(t)
      /\ Typed(creatures)
  BY DEF IInv, Rest, Queued, IsPet
<1> HIDE DEF a, t
<1>3. ASSUME UNCHANGED <<creatures, life, last>>
      PROVE  /\ Landed(creatures, creatures')
             /\ life' \in [Players -> {"alive", "down", "dead"}]
             /\ last' \in [Players -> Anyone \cup {None}]
             /\ \A p \in Players : life'[p] = "dead" => life[p] = "dead"
  BY <1>2, <1>3, LandedSelf DEF IInv, Rest
<1>4. ASSUME t \in Players, HitsPlayer(a, t)
      PROVE  /\ Landed(creatures, creatures')
             /\ life' \in [Players -> {"alive", "down", "dead"}]
             /\ last' \in [Players -> Anyone \cup {None}]
             /\ \A p \in Players : life'[p] = "dead" => life[p] = "dead"
  <2>1. CASE ~ UNCHANGED <<creatures, life, last>>
    <3>1. /\ creatures' \in Shielded(a, t, creatures)
          /\ life' = life \/ life' = [life EXCEPT ![t] = "down"]
          /\ last' = [last EXCEPT ![t] = a]
      BY <1>4, <2>1 DEF HitsPlayer
    <3>2. Landed(creatures, creatures')
      BY <1>2, <1>4, <3>1, ShieldedLands DEF Anyone
    <3>3. /\ life' \in [Players -> {"alive", "down", "dead"}]
          /\ \A p \in Players : life'[p] = "dead" => life[p] = "dead"
      BY <3>1 DEF IInv, Rest
    <3>4. last' \in [Players -> Anyone \cup {None}]
      BY <1>2, <3>1 DEF IInv, Rest, Anyone
    <3> QED
      BY <3>2, <3>3, <3>4
  <2> QED
    BY <1>3, <2>1
<1>5. ASSUME t \in Ids, ~ IsPet(a), MobHitsPet(a, t)
      PROVE  Landed(creatures, creatures') /\ UNCHANGED <<life, last>>
  <2> DEFINE Roused(c) == IF c.state # "Dead" /\ c.stance = "Guard" /\ c.target = None
                          THEN [c EXCEPT !.target = a] ELSE c
  <2>1. PICK d \in 0 .. Full :
          creatures' \in Shielded(a, Struck(creatures[t], d).owner,
                                  [creatures EXCEPT ![t] = Roused(Struck(creatures[t], d))])
    BY <1>5 DEF MobHitsPet
  <2> DEFINE c == Struck(creatures[t], d)
             r == Roused(c)
             cs == [creatures EXCEPT ![t] = r]
  <2>2. creatures' \in Shielded(a, c.owner, cs)
    BY <2>1
  <2>3. creatures[t] \in Creature /\ IsPet(t) /\ ~ Evading(creatures[t]) /\ a # t
    BY <1>2, <1>5 DEF IsPet, IsOwned, Evading, Typed
  <2>4. /\ Kin(creatures[t], c) /\ c.state \in {creatures[t].state, "Dead"} /\ c \in Creature
        /\ c.target \in {creatures[t].target, None} /\ (c.stuck => creatures[t].stuck)
    BY <2>3, StruckKin DEF Kin
  <2>5. r = c \/ r = [c EXCEPT !.target = a]
    OBVIOUS
  <2>6. c.owner \in Anyone
    BY <2>3, <2>4 DEF Kin, IsPet, IsOwned, Creature, Anyone
  <2> HIDE DEF c, r
  <2>7. /\ Kin(creatures[t], r) /\ r.state \in {creatures[t].state, "Dead"}
        /\ r.target \in {creatures[t].target, None} \cup Ids /\ (r.stuck => creatures[t].stuck)
    BY <1>2, <2>4, <2>5 DEF Kin, Creature, Anyone
  <2>8. Landed(creatures, cs)
    BY <1>2, <1>5, <2>3, <2>7, LandsOn
  <2>9. Typed(cs) /\ cs[a] = creatures[a]
    BY <1>2, <2>3, <2>8 DEF Landed, Reshaped, Typed
  <2> HIDE DEF cs
  <2>10. Landed(cs, creatures')
    BY <1>2, <2>2, <2>6, <2>9, ShieldedLands
  <2> QED
    BY <1>5, <2>8, <2>10, LandedTrans DEF MobHitsPet
<1>6. ASSUME t \in Ids, IsPet(a), PetHits(a, t), Struckable(a, t)
      PROVE  Landed(creatures, creatures') /\ UNCHANGED <<life, last>>
  <2>1. PICK d \in 0 .. Full :
          creatures' = [creatures EXCEPT ![t] = Struck(Angered(creatures[t], a), d)]
    BY <1>6 DEF PetHits
  <2>2. ~ Evading(creatures[t]) /\ creatures[t] \in Creature /\ a \in Anyone
    BY <1>2, <1>6, IdsDiffer DEF Struckable, Typed, Anyone
  <2> DEFINE e == Struck(Angered(creatures[t], a), d)
  <2>3. /\ Kin(creatures[t], e) /\ e.state \in {creatures[t].state, "Dead"}
        /\ e.target \in {creatures[t].target, None} /\ (e.stuck => creatures[t].stuck)
    BY <2>2, BlowKin
  <2> HIDE DEF e
  <2>4. Landed(creatures, [creatures EXCEPT ![t] = e])
    BY <1>2, <1>6, <2>2, <2>3, LandsOn
  <2> QED
    BY <1>6, <2>1, <2>4 DEF PetHits, e
<1>7. /\ Landed(creatures, creatures')
      /\ life' \in [Players -> {"alive", "down", "dead"}]
      /\ last' \in [Players -> Anyone \cup {None}]
      /\ \A p \in Players : life'[p] = "dead" => life[p] = "dead"
  <2>1. CASE UNCHANGED <<creatures, life, last>>
    BY <1>3, <2>1
  <2>2. CASE t \in Players /\ HitsPlayer(a, t)
    BY <1>4, <2>2
  <2>3. ASSUME Landed(creatures, creatures'), UNCHANGED <<life, last>>
        PROVE  /\ Landed(creatures, creatures')
               /\ life' \in [Players -> {"alive", "down", "dead"}]
               /\ last' \in [Players -> Anyone \cup {None}]
               /\ \A p \in Players : life'[p] = "dead" => life[p] = "dead"
    BY <2>3 DEF IInv, Rest
  <2> QED
    BY <1>1, <1>5, <1>6, <2>1, <2>2, <2>3 DEF a, t
<1>8. Table(creatures', due, present, life) /\ Queued(creatures', hits, pass)
  BY <1>7, LandedTable
<1>12. Forgotten(creatures', life') /\ Bound(creatures', present, life')
  BY <1>7, <1>8, LivesOn DEF Table
<1>9. /\ UNCHANGED <<due, present, pass>> /\ hits' \subseteq hits
      /\ retreat' = retreat \cup Bereaved(creatures')
  BY <1>1 DEF Land
<1>10. Rest'
  <2>1. retreat' \subseteq Players
    BY <1>8, <1>9, BereavedType DEF Table, IInv, Rest
  <2> QED
    BY <1>7, <1>9, <2>1 DEF IInv, Rest
<1>11. Queued(creatures', hits', pass)
  BY <1>8, <1>9 DEF Queued
<1> QED
  BY <1>8, <1>9, <1>10, <1>11, <1>12 DEF IInv, Table

-----------------------------------------------------------------------------
(* The theorems *)

LEMMA InitIInv ==
  ASSUME Init
  PROVE  IInv
<1>1. Rest
  BY DEF Init, Rest, Passes
<1>2. \A i \in Ids : creatures[i] = None
  BY DEF Init
<1>3. Typed(creatures)
  BY DEF Init, Typed
<1>4. Camps(creatures, due)
  BY <1>2 DEF Camps, Init
<1> QED
  BY <1>1, <1>2, <1>3, <1>4 DEF IInv, Tied, Bound, Forgotten, Queued, Init

LEMMA NextIInv ==
  ASSUME IInv, [Next]_vars
  PROVE  IInv' /\ Unhurt(creatures, creatures')
<1>1. CASE UNCHANGED vars
  BY <1>1, Kept DEF vars, playerVars, IInv, Rest, Table
<1>2. CASE OpenStep
  BY <1>2, SpawnStep, DevSpawnStep, EnterWorldStep, WarderReturnsStep, LeaveStep,
     GoLinkdeadStep, RespawnStep, DevDespawnStep, CharmExpiresStep DEF OpenStep
<1>3. CASE PlayerStep
  BY <1>3, FeignDeathStep, FallStep, SummonPetStep, PortStep, CommandStep, AttackFadesStep,
     AttackStep, SpellHitsStep, HealPetStep, CharmStep DEF PlayerStep
<1>4. CASE EndOpen \/ RunAi \/ Land \/ (\E i \in Ids : CleanUp(i)) \/ Sweep
  BY <1>4, EndOpenStep, RunAiStep, LandStep, CleanUpStep, SweepStep
<1> QED
  BY <1>1, <1>2, <1>3, <1>4 DEF Next

LEMMA Invariance == Spec => []IInv
<1>1. Init => IInv
  BY InitIInv
<1>2. IInv /\ [Next]_vars => IInv'
  BY NextIInv
<1> QED
  BY <1>1, <1>2, PTL DEF Spec

\* Every variable keeps its type.
THEOREM TypesHold == Spec => []TypeOK
<1>1. IInv => TypeOK
  BY DEF IInv, Rest, Typed, TypeOK
<1> QED
  BY <1>1, Invariance, PTL

\* However mobs are charmed, given back, killed, replaced under a new id or
\* cleaned up, each spawn point has its timer or exactly one body.
\* (spawn_points.rs)
THEOREM EveryPointAccounted == Spec => []PointsAccounted
<1>1. ASSUME IInv
      PROVE  PointsAccounted
  <2> SUFFICES ASSUME NEW pt \in Points
               PROVE  Cardinality({i \in Here : creatures[i].point = pt})
                        = (IF pt \in due THEN 0 ELSE 1)
    BY DEF PointsAccounted
  <2> DEFINE H == {i \in Here : creatures[i].point = pt}
  <2>1. Camps(creatures, due) /\ pt # None
    BY <1>1, NoneIsNobody DEF IInv
  <2>2. CASE pt \in due
    <3>1. H = {}
      BY <2>1, <2>2 DEF Camps, Here
    <3> QED
      BY <2>2, <3>1, FS_EmptySet
  <2>3. CASE pt \notin due
    <3>1. PICK i \in Ids : creatures[i] # None /\ creatures[i].point = pt
      BY <2>1, <2>3 DEF Camps
    <3>2. H = {i}
      BY <2>1, <3>1 DEF Camps, Here
    <3> HIDE DEF H
    <3>3. Cardinality(H) = 1
      BY <3>2, FS_Singleton
    <3> QED
      BY <2>3, <3>3 DEF H
  <2> QED
    BY <2>2, <2>3
<1> QED
  BY <1>1, Invariance, PTL

\* In every pass of the tick: no living creature is after a dead player, and
\* none bleeds from a spell of one who is dead or gone.  (the sweep)
THEOREM TheDeadAreForgotten == Spec => []DeadForgotten
<1>1. ASSUME IInv
      PROVE  DeadForgotten
  <2>1. \A i \in Ids : creatures[i] # None => creatures[i].dots \subseteq Players
    BY <1>1 DEF IInv, Typed, Creature
  <2> QED
    BY <1>1, <2>1 DEF IInv, Forgotten, Bound, DeadForgotten, Living, Here, InWorld
<1> QED
  BY <1>1, Invariance, PTL

\* A pet's owner is in the world, and linkdead only beside a warder that came
\* back.  (despawn_owned_pets)
THEOREM PetsAreOwned == Spec => []PetsHaveOwners
<1>1. IInv => PetsHaveOwners
  BY DEF IInv, Bound, Beside, PetsHaveOwners, Here, IsPet, IsOwned
<1> QED
  BY <1>1, Invariance, PTL

\* No blow, spell, DoT or damage shield hurts a mob that evades.  (is_evading)
THEOREM NoEvaderIsHurt == Spec => EvadersUnhurt
<1>1. ASSUME IInv, [Next]_vars
      PROVE  [\A i \in Living : Evading(creatures[i]) /\ creatures'[i] # None
                => creatures'[i].hp >= creatures[i].hp]_vars
  <2>1. Unhurt(creatures, creatures')
    BY <1>1, NextIInv
  <2> QED
    BY <2>1 DEF Unhurt, Living, Here
<1> QED
  BY <1>1, Invariance, PTL DEF Spec, EvadersUnhurt

=============================================================================
