-------------------------- MODULE Durability_proofs --------------------------
(***************************************************************************)
(* Nothing is saved twice and nothing is in play twice, the ledger sums to *)
(* the rows, and a login brings back what a player left with: for every    *)
(* number of characters, accounts, tokens and corpses.                     *)
(*                                                                         *)
(* The invariant relates memory to the rows: a token in the stores of a    *)
(* connection is saved, if at all, in a row of that connection (MemOwn);   *)
(* a token on the ground is saved nowhere; a corpse in memory is what its  *)
(* rows are.  Whatever part of the memory is then written or lost, the     *)
(* rows stay disjoint.  The ledger adds to it that what a connection has   *)
(* queued is what its memory has over its own rows (Tallied); the login,   *)
(* that a player's rows or pending save are what they left (Remembered).   *)
(***************************************************************************)
EXTENDS Durability, FiniteSetTheorems, TLAPS

-----------------------------------------------------------------------------
(* The invariant *)

\* r is a row of the connection c.
Mine(c, r) == \E s \in Stores : r = Row(c, s)

CorpseRow(k) == <<"corpse", k>>

\* The rows D are disjoint.
DiskOnce(D) ==
  \A r1, r2 \in Rows, x \in Items : x \in D[r1] /\ x \in D[r2] => r1 = r2

\* The stores M are disjoint.
MemOnce(M) ==
  \A c, d \in Chars, s, t \in Stores, x \in Items :
    x \in M[c][s] /\ x \in M[d][t] => c = d /\ s = t

\* A token of a connection is saved, if at all, in a row of that connection.
MemOwn(M, D) ==
  \A c \in Chars, s \in Stores, r \in Rows, x \in Items :
    x \in M[c][s] /\ x \in D[r] => Mine(c, r)

\* A token on the ground G is nowhere else.
GroundAlone(G, M, D) ==
  \A x \in G : /\ \A c \in Chars, s \in Stores : x \notin M[c][s]
               /\ \A r \in Rows : x \notin D[r]

Sound(M, D, G) ==
  DiskOnce(D) /\ MemOnce(M) /\ MemOwn(M, D) /\ GroundAlone(G, M, D)

CorpseAgrees ==
  \A k \in CorpseIds :
    /\ k \in lying => tomb[k] # None /\ body[k] = disk[CorpseRow(k)]
    /\ k \notin lying => body[k] = {}
    /\ tomb[k] = None => disk[CorpseRow(k)] = {}

OneConnection ==
  \A c, d \in Chars : Active(c) /\ Active(d) /\ AccountOf[c] = AccountOf[d] => c = d

\* The flags d of the stores M of S hide nothing the rows D lack.
Covered(S, M, d, D) ==
  \A c \in S, s \in Stores : s \notin d[c] => M[c][s] = D[Row(c, s)]

Flags ==
  /\ Covered({c \in Chars : Active(c)}, mem, dirty, disk)
  /\ \A c \in Chars : ~ Active(c) => mem[c] = NoStores /\ dirty[c] = {} /\ queue[c] = NoEvents

Down ==
  ~ up => /\ \A c \in Chars : ~ Active(c)
          /\ ground = {} /\ lying = {}

IInv ==
  /\ TypeOK
  /\ Sound(mem, disk, ground)
  /\ CorpseAgrees
  /\ OneConnection
  /\ Flags
  /\ Down

-----------------------------------------------------------------------------
(* Rows *)

Memories == [Chars -> [Stores -> SUBSET Items]]

\* Where a move starts or ends.
Places == Stores \cup {"out"}

\* A store is saved in a row of its own, which no corpse has.
LEMMA RowFacts ==
  ASSUME NEW c \in Chars, NEW s \in Stores
  PROVE  /\ Row(c, s) \in Rows
         /\ Row(c, s)[1] = s
         /\ \A k \in CorpseIds : Row(c, s) # CorpseRow(k)
BY AccountOfType DEF Stores, Row, Rows, CharRows, VaultRows, CorpseRow

\* Which store of c a row of c holds is the row's tag.
LEMMA MineFacts ==
  ASSUME NEW c \in Chars, NEW r, Mine(c, r)
  PROVE  r \in Rows /\ r[1] \in Stores /\ r = Row(c, r[1])
BY RowFacts DEF Mine

LEMMA CorpseRowFacts ==
  ASSUME NEW k \in CorpseIds
  PROVE  CorpseRow(k) \in Rows /\ \A c \in Chars : ~ Mine(c, CorpseRow(k))
BY RowFacts DEF Mine, CorpseRow, Rows, CorpseRows

\* Two characters share a row only if they share the account.
LEMMA MineOnce ==
  ASSUME NEW c \in Chars, NEW d \in Chars, NEW r, Mine(c, r), Mine(d, r)
  PROVE  AccountOf[c] = AccountOf[d]
BY AccountOfType DEF Mine, Row, Stores

-----------------------------------------------------------------------------
(* The flush *)

\* E is D with the rows of S written over by what S holds in N.
Rewrites(E, S, N, D) ==
  /\ \A c \in S, r \in Rows : Mine(c, r) => E[r] = N[c][r[1]]
  /\ \A r \in Rows : (\A c \in S : ~ Mine(c, r)) => E[r] = D[r]

\* What a flush writes: of each connection of S all its rows as they are in
\* memory, and nothing else, if the flags hide nothing.
LEMMA Flushed ==
  ASSUME NEW S \in SUBSET Chars, NEW M \in Memories, NEW d \in [Chars -> SUBSET Stores],
         disk \in [Rows -> SUBSET Items],
         \A a, b \in S : AccountOf[a] = AccountOf[b] => a = b,
         Covered(S, M, d, disk)
  PROVE  /\ Written(S, M, d) \in [Rows -> SUBSET Items]
         /\ Rewrites(Written(S, M, d), S, M, disk)
<1>1. ASSUME NEW r \in Rows, NEW c \in S, Writes(d, c, r)
      PROVE  /\ Mine(c, r)
             /\ (CHOOSE b \in S : Writes(d, b, r)) = c
  <2>1. \A b \in S : Writes(d, b, r) => Mine(b, r)
    BY DEF Writes, Mine
  <2>2. \A b \in S : Writes(d, b, r) => b = c
    BY <1>1, <2>1, MineOnce
  <2> QED
    BY <1>1, <2>1, <2>2
<1>2. Written(S, M, d) \in [Rows -> SUBSET Items]
  <2>1. ASSUME NEW r \in Rows
        PROVE  Written(S, M, d)[r] \in SUBSET Items
    <3>1. CASE \E c \in S : Writes(d, c, r)
      <4>1. PICK c \in S : Writes(d, c, r)
        BY <3>1
      <4>2. Written(S, M, d)[r] = M[c][r[1]]
        BY <1>1, <4>1 DEF Written
      <4> QED
        BY <1>1, <4>1, <4>2, MineFacts DEF Memories
    <3>2. CASE ~ \E c \in S : Writes(d, c, r)
      BY <3>2 DEF Written
    <3> QED
      BY <3>1, <3>2
  <2> QED
    BY <2>1 DEF Written
<1>3. ASSUME NEW c \in S, NEW r \in Rows, Mine(c, r)
      PROVE  Written(S, M, d)[r] = M[c][r[1]]
  <2>1. r[1] \in Stores /\ r = Row(c, r[1])
    BY <1>3, MineFacts
  <2>2. CASE r[1] \in d[c]
    BY <1>1, <2>1, <2>2 DEF Written, Writes
  <2>3. CASE r[1] \notin d[c]
    <3>1. M[c][r[1]] = disk[r]
      BY <2>1, <2>3 DEF Covered
    <3>2. \A b \in S : ~ Writes(d, b, r)
      <4>1. SUFFICES ASSUME NEW b \in S, Writes(d, b, r)
                     PROVE  FALSE
        OBVIOUS
      <4>2. b = c
        BY <1>1, <1>3, <4>1, MineOnce
      <4> QED
        BY <2>3, <4>1, <4>2 DEF Writes
    <3> QED
      BY <3>1, <3>2 DEF Written
  <2> QED
    BY <2>2, <2>3
<1>4. ASSUME NEW r \in Rows, \A c \in S : ~ Mine(c, r)
      PROVE  Written(S, M, d)[r] = disk[r]
  BY <1>1, <1>4 DEF Written
<1> QED
  BY <1>2, <1>3, <1>4 DEF Rewrites

\* The connections S hold x, of the stores M.
Held(x, S, M) == \E c \in S, s \in Stores : x \in M[c][s]

\* From the stores M to N only the connections of S change, and they hold
\* nothing they did not hold between them.
Exchanges(S, M, N) ==
  /\ \A c \in Chars \ S : N[c] = M[c]
  /\ \A c \in S, s \in Stores : \A x \in N[c][s] : Held(x, S, M)

\* The connections S exchange or drop tokens and all their rows are written:
\* the rows stay disjoint, and disjoint from whatever else memory holds.
LEMMA RewriteSound ==
  ASSUME NEW S \in SUBSET Chars, NEW M \in Memories, NEW N \in Memories,
         NEW G \in SUBSET Items,
         NEW D \in [Rows -> SUBSET Items], NEW E \in [Rows -> SUBSET Items],
         Sound(M, D, G), MemOnce(N), Rewrites(E, S, N, D),
         Exchanges(S, M, N)
  PROVE  Sound(N, E, G)
<1>1. ASSUME NEW c \in S, NEW s \in Stores, NEW r \in Rows, NEW x \in Items,
             x \in N[c][s], x \in E[r]
      PROVE  Mine(c, r)
  <2>1. CASE \E d \in S : Mine(d, r)
    <3>1. PICK d \in S : Mine(d, r)
      BY <2>1
    <3>2. x \in N[d][r[1]] /\ r[1] \in Stores
      BY <1>1, <3>1, MineFacts DEF Rewrites
    <3> QED
      BY <1>1, <3>1, <3>2 DEF MemOnce
  <2>2. CASE ~ \E d \in S : Mine(d, r)
    <3>1. x \in D[r]
      BY <1>1, <2>2 DEF Rewrites
    <3>2. PICK d \in S, t \in Stores : x \in M[d][t]
      BY <1>1 DEF Exchanges, Held
    <3>3. Mine(d, r)
      BY <3>1, <3>2 DEF Sound, MemOwn
    <3> QED
      BY <2>2, <3>3
  <2> QED
    BY <2>1, <2>2
<1>2. ASSUME NEW r \in Rows, NEW x \in Items, x \in E[r]
      PROVE  \/ \E c \in S : Mine(c, r) /\ x \in N[c][r[1]] /\ r[1] \in Stores /\ r = Row(c, r[1])
             \/ x \in D[r] /\ \A c \in S : ~ Mine(c, r)
  BY <1>2, MineFacts DEF Rewrites
<1>3. DiskOnce(E)
  <2> SUFFICES ASSUME NEW r \in Rows, NEW q \in Rows, NEW x \in Items,
                      x \in E[r], x \in E[q]
               PROVE  r = q
    BY DEF DiskOnce
  <2>1. CASE x \in D[r] /\ x \in D[q]
    BY <2>1 DEF Sound, DiskOnce
  <2>2. ASSUME NEW c \in S, NEW r1 \in Rows, NEW r2 \in Rows, x \in E[r2],
               x \in N[c][r1[1]], r1[1] \in Stores, r1 = Row(c, r1[1])
        PROVE  r1 = r2
    <3>1. Mine(c, r2)
      BY <1>1, <2>2
    <3>2. x \in N[c][r2[1]] /\ r2[1] \in Stores /\ r2 = Row(c, r2[1])
      BY <2>2, <3>1, MineFacts DEF Rewrites
    <3>3. r1[1] = r2[1]
      BY <2>2, <3>2 DEF MemOnce
    <3> QED
      BY <2>2, <3>2, <3>3
  <2> QED
    BY <1>2, <2>1, <2>2
<1>4. MemOwn(N, E)
  <2> SUFFICES ASSUME NEW c \in Chars, NEW s \in Stores, NEW r \in Rows, NEW x \in Items,
                      x \in N[c][s], x \in E[r]
               PROVE  Mine(c, r)
    BY DEF MemOwn
  <2>1. CASE c \in S
    BY <1>1, <2>1
  <2>2. CASE c \notin S
    <3>1. x \in M[c][s]
      BY <2>2 DEF Exchanges
    <3>2. CASE \E d \in S : Mine(d, r) /\ x \in N[d][r[1]] /\ r[1] \in Stores
      BY <2>2, <3>2 DEF MemOnce
    <3>3. CASE x \in D[r]
      BY <3>1, <3>3 DEF Sound, MemOwn
    <3> QED
      BY <1>2, <3>2, <3>3
  <2> QED
    BY <2>1, <2>2
<1>5. ASSUME NEW x \in G, NEW c \in Chars, NEW s \in Stores
      PROVE  x \notin N[c][s]
  BY DEF Sound, GroundAlone, Exchanges, Held
<1>6. ASSUME NEW x \in G, NEW r \in Rows
      PROVE  x \notin E[r]
  BY <1>2, <1>5 DEF Sound, GroundAlone
<1> QED
  BY <1>3, <1>4, <1>5, <1>6 DEF Sound, GroundAlone

\* A token S held and holds no more is not in the rows then either.
LEMMA Erased ==
  ASSUME NEW S \in SUBSET Chars, NEW M \in Memories, NEW N \in Memories,
         NEW G \in SUBSET Items,
         NEW D \in [Rows -> SUBSET Items], NEW E \in [Rows -> SUBSET Items],
         Sound(M, D, G), Rewrites(E, S, N, D),
         NEW x \in Items, Held(x, S, M), ~ Held(x, S, N)
  PROVE  \A r \in Rows : x \notin E[r]
<1> SUFFICES ASSUME NEW r \in Rows, x \in E[r]
             PROVE  FALSE
  OBVIOUS
<1>1. CASE \E d \in S : Mine(d, r)
  BY <1>1, MineFacts DEF Rewrites, Held
<1>2. CASE ~ \E d \in S : Mine(d, r)
  BY <1>2 DEF Rewrites, Held, Sound, MemOwn
<1> QED
  BY <1>1, <1>2

\* The same, row by row: the rows of corpses and of the other connections stay.
RowByRow(E, S, N, D) ==
  /\ \A k \in CorpseIds : E[CorpseRow(k)] = D[CorpseRow(k)]
  /\ \A c \in S, s \in Stores : E[Row(c, s)] = N[c][s]
  /\ \A c \in Chars, s \in Stores :
       (\A d \in S : AccountOf[d] # AccountOf[c]) => E[Row(c, s)] = D[Row(c, s)]

LEMMA RewriteRows ==
  ASSUME NEW S \in SUBSET Chars, NEW N, NEW D, NEW E, Rewrites(E, S, N, D)
  PROVE  RowByRow(E, S, N, D)
<1>1. \A c \in Chars, s \in Stores : Row(c, s) \in Rows /\ Mine(c, Row(c, s)) /\ Row(c, s)[1] = s
  BY RowFacts DEF Mine
<1>2. \A k \in CorpseIds : E[CorpseRow(k)] = D[CorpseRow(k)]
  BY CorpseRowFacts DEF Rewrites
<1>3. \A c \in S, s \in Stores : E[Row(c, s)] = N[c][s]
  BY <1>1 DEF Rewrites
<1>4. ASSUME NEW c \in Chars, NEW s \in Stores, \A d \in S : AccountOf[d] # AccountOf[c]
      PROVE  E[Row(c, s)] = D[Row(c, s)]
  BY <1>1, <1>4, MineOnce DEF Rewrites
<1> QED
  BY <1>2, <1>3, <1>4 DEF RowByRow

\* The tokens X are nowhere in the stores M, the rows D and on the ground G.
Nowhere(X, M, D, G) ==
  /\ \A c \in Chars, s \in Stores : X \cap M[c][s] = {}
  /\ \A r \in Rows : X \cap D[r] = {}
  /\ X \cap G = {}

\* N is M with the tokens X put into one store.
Puts(N, M, c, s, X) ==
  /\ \A d \in Chars, t \in Stores : d # c \/ t # s => N[d][t] = M[d][t]
  /\ N[c][s] = M[c][s] \cup X

\* Tokens put where they are alone.
LEMMA PutSound ==
  ASSUME NEW M \in Memories, NEW N \in Memories, NEW D \in [Rows -> SUBSET Items],
         NEW G \in SUBSET Items, Sound(M, D, G),
         NEW c \in Chars, NEW s \in Stores, NEW X \in SUBSET Items,
         Nowhere(X, M, D, G), Puts(N, M, c, s, X)
  PROVE  Sound(N, D, G)
<1>0. ASSUME NEW d \in Chars, NEW t \in Stores, NEW x \in Items, x \in N[d][t]
      PROVE  (x \in X /\ d = c /\ t = s) \/ (x \notin X /\ x \in M[d][t])
  BY <1>0 DEF Puts, Nowhere, Memories
<1>1. MemOnce(N)
  <2> SUFFICES ASSUME NEW d \in Chars, NEW e \in Chars, NEW t \in Stores, NEW u \in Stores,
                      NEW x \in Items, x \in N[d][t], x \in N[e][u]
               PROVE  d = e /\ t = u
    BY DEF MemOnce
  <2> QED
    BY <1>0 DEF Sound, MemOnce
<1>2. MemOwn(N, D)
  <2> SUFFICES ASSUME NEW d \in Chars, NEW t \in Stores, NEW r \in Rows, NEW x \in Items,
                      x \in N[d][t], x \in D[r]
               PROVE  Mine(d, r)
    BY DEF MemOwn
  <2>1. x \notin X
    BY DEF Nowhere
  <2> QED
    BY <1>0, <2>1 DEF Sound, MemOwn
<1>3. GroundAlone(G, N, D)
  <2>1. ASSUME NEW x \in G, NEW d \in Chars, NEW t \in Stores, x \in N[d][t]
        PROVE  FALSE
    <3>1. x \notin X /\ x \in Items
      BY DEF Nowhere
    <3> QED
      BY <1>0, <2>1, <3>1 DEF Sound, GroundAlone
  <2> QED
    BY <2>1 DEF Sound, GroundAlone
<1> QED
  BY <1>1, <1>2, <1>3 DEF Sound

\* Less of everything.
LEMMA LessSound ==
  ASSUME NEW M \in Memories, NEW N \in Memories,
         NEW D \in [Rows -> SUBSET Items], NEW E \in [Rows -> SUBSET Items],
         NEW G \in SUBSET Items, NEW H \in SUBSET G, Sound(M, D, G),
         \A c \in Chars, s \in Stores : N[c][s] \subseteq M[c][s],
         \A r \in Rows : E[r] \subseteq D[r]
  PROVE  Sound(N, E, H)
<1>1. DiskOnce(E) /\ MemOnce(N)
  BY DEF Sound, DiskOnce, MemOnce
<1>2. MemOwn(N, E)
  BY DEF Sound, MemOwn
<1>3. GroundAlone(H, N, E)
  BY DEF Sound, GroundAlone
<1> QED
  BY <1>1, <1>2, <1>3 DEF Sound

-----------------------------------------------------------------------------
(* What a handler does in memory *)

\* "out" is no store.
LEMMA OutFacts ==
  "carried" \in Stores /\ "carried" \in Places /\ "out" \in Places /\ "out" \notin Stores
BY DEF Stores, Places

\* The stores after a move.
LEMMA MovedFacts ==
  ASSUME mem \in Memories, NEW c \in Chars, NEW X \in SUBSET Items,
         NEW from, NEW to
  PROVE  /\ Moved(c, X, from, to) \in Memories
         /\ \A d \in Chars \ {c} : Moved(c, X, from, to)[d] = mem[d]
         /\ \A s \in Stores : s # from /\ s # to => Moved(c, X, from, to)[c][s] = mem[c][s]
BY DEF Moved, Memories

\* The flags after a move.
LEMMA TouchedFacts ==
  ASSUME dirty \in [Chars -> SUBSET Stores], NEW c \in Chars, NEW from, NEW to
  PROVE  /\ Touched(c, from, to) \in [Chars -> SUBSET Stores]
         /\ \A d \in Chars \ {c} : Touched(c, from, to)[d] = dirty[d]
         /\ Touched(c, from, to)[c] = dirty[c] \cup ({from, to} \cap Stores)
BY DEF Touched

\* The queue after a move, and the ledger after a flush, are integers.
LEMMA QueuedType ==
  ASSUME queue \in [Chars -> [Items -> Int]], NEW c \in Chars, NEW X, NEW from, NEW to
  PROVE  /\ Queued(c, X, from, to) \in [Chars -> [Items -> Int]]
         /\ \A d \in Chars \ {c} : Queued(c, X, from, to)[d] = queue[d]
<1>1. \A x \in Items : queue[c][x] + (IF x \in X /\ from = "out" THEN 1 ELSE 0)
                          - (IF x \in X /\ to = "out" THEN 1 ELSE 0) \in Int
  OBVIOUS
<1> QED
  BY <1>1 DEF Queued

LEMMA PostedType ==
  ASSUME ledger \in [Accounts -> [Items -> Int]], NEW S \in SUBSET Chars,
         NEW q \in [Chars -> [Items -> Int]]
  PROVE  Posted(S, q) \in [Accounts -> [Items -> Int]]
<1>1. ASSUME NEW a \in Accounts, NEW x \in Items
      PROVE  (IF \E c \in S : AccountOf[c] = a
              THEN ledger[a][x] + q[CHOOSE c \in S : AccountOf[c] = a][x]
              ELSE ledger[a][x]) \in Int
  <2>1. CASE \E c \in S : AccountOf[c] = a
    <3>1. (CHOOSE c \in S : AccountOf[c] = a) \in S
      BY <2>1
    <3> QED
      BY <3>1
  <2>2. CASE ~ \E c \in S : AccountOf[c] = a
    BY <2>2
  <2> QED
    BY <2>1, <2>2
<1> QED
  BY <1>1 DEF Posted

\* A move sets the flag of each store it changes.
LEMMA MovedCovered ==
  ASSUME IInv, NEW c \in Chars, Active(c), NEW X \in SUBSET Items, NEW from, NEW to
  PROVE  Covered({d \in Chars : Active(d)}, Moved(c, X, from, to), Touched(c, from, to), disk)
<1>1. mem \in Memories /\ dirty \in [Chars -> SUBSET Stores]
  BY DEF IInv, TypeOK, Memories
<1>2. SUFFICES ASSUME NEW d \in Chars, Active(d), NEW s \in Stores,
                      s \notin Touched(c, from, to)[d]
               PROVE  Moved(c, X, from, to)[d][s] = disk[Row(d, s)]
  BY DEF Covered
<1>3. s \notin dirty[d] /\ Moved(c, X, from, to)[d][s] = mem[d][s]
  <2>1. CASE d = c
    <3>1. s \notin dirty[c] /\ s # from /\ s # to
      BY <1>1, <1>2, <2>1, TouchedFacts
    <3>2. Moved(c, X, from, to)[c][s] = mem[c][s]
      BY <1>1, <3>1, MovedFacts
    <3> QED
      BY <2>1, <3>1, <3>2
  <2>2. CASE d # c
    BY <1>1, <1>2, <2>2, MovedFacts, TouchedFacts
  <2> QED
    BY <2>1, <2>2
<1> QED
  BY <1>2, <1>3 DEF IInv, Flags, Covered

-----------------------------------------------------------------------------
(* The flush of a step *)

\* After the connections of S are flushed, with the stores M and the flags d,
\* the flags that are left hide nothing.
LEMMA FlushCovered ==
  ASSUME IInv, NEW S \in SUBSET {c \in Chars : Active(c)},
         NEW M, NEW d, NEW E, NEW N, NEW e,
         Covered({c \in Chars : Active(c)}, M, d, disk),
         Rewrites(E, S, N, disk),
         \A c \in Chars \ S : N[c] = M[c] /\ e[c] = d[c]
  PROVE  Covered({c \in Chars : Active(c)}, N, e, E)
<1> SUFFICES ASSUME NEW c \in Chars, Active(c), NEW s \in Stores, s \notin e[c]
             PROVE  N[c][s] = E[Row(c, s)]
  BY DEF Covered
<1>0. RowByRow(E, S, N, disk)
  <2>1. S \in SUBSET Chars
    OBVIOUS
  <2> QED
    BY <2>1, RewriteRows
<1>1. CASE c \in S
  BY <1>0, <1>1 DEF RowByRow
<1>2. CASE c \notin S
  <2>1. \A b \in S : AccountOf[b] # AccountOf[c]
    BY <1>2 DEF IInv, OneConnection
  <2>2. E[Row(c, s)] = disk[Row(c, s)]
    BY <1>0, <2>1 DEF RowByRow
  <2> QED
    BY <1>2, <2>2 DEF Covered
<1> QED
  BY <1>1, <1>2

\* The flush of connections as they are.
LEMMA FlushFacts ==
  ASSUME IInv, NEW S \in SUBSET {c \in Chars : Active(c)}
  PROVE  /\ Written(S, mem, dirty) \in [Rows -> SUBSET Items]
         /\ Rewrites(Written(S, mem, dirty), S, mem, disk)
         /\ Sound(mem, Written(S, mem, dirty), ground)
         /\ \A k \in CorpseIds : Written(S, mem, dirty)[CorpseRow(k)] = disk[CorpseRow(k)]
         /\ Posted(S, queue) \in [Accounts -> [Items -> Int]]
<1>1. /\ mem \in Memories /\ dirty \in [Chars -> SUBSET Stores]
      /\ disk \in [Rows -> SUBSET Items] /\ ground \in SUBSET Items
      /\ queue \in [Chars -> [Items -> Int]] /\ ledger \in [Accounts -> [Items -> Int]]
  BY DEF IInv, TypeOK, Memories
<1>2. Covered(S, mem, dirty, disk)
  BY DEF IInv, Flags, Covered
<1>3. \A a, b \in S : AccountOf[a] = AccountOf[b] => a = b
  BY DEF IInv, OneConnection
<1>4. /\ Written(S, mem, dirty) \in [Rows -> SUBSET Items]
      /\ Rewrites(Written(S, mem, dirty), S, mem, disk)
  BY <1>1, <1>2, <1>3, Flushed
<1>5. Sound(mem, Written(S, mem, dirty), ground)
  <2>1. Sound(mem, disk, ground) /\ MemOnce(mem) /\ Exchanges(S, mem, mem)
    BY DEF IInv, Sound, Exchanges, Held
  <2> QED
    BY <1>1, <1>4, <2>1, RewriteSound
<1>6. \A k \in CorpseIds : Written(S, mem, dirty)[CorpseRow(k)] = disk[CorpseRow(k)]
  BY <1>4, RewriteRows DEF RowByRow
<1>7. Posted(S, queue) \in [Accounts -> [Items -> Int]]
  BY <1>1, PostedType
<1> QED
  BY <1>4, <1>5, <1>6, <1>7

-----------------------------------------------------------------------------
(* Steps that save connections or drop them *)

\* The connections S are flushed as they are, then those of Out dropped.
LEMMA SavedOrGone ==
  ASSUME IInv,
         NEW S \in SUBSET {c \in Chars : Active(c)}, NEW Out \in SUBSET Chars,
         disk' = Written(S, mem, dirty),
         ledger' = Posted(S, queue),
         mem' = [c \in Chars |-> IF c \in Out THEN NoStores ELSE mem[c]],
         dirty' = [c \in Chars |-> IF c \in S \cup Out THEN {} ELSE dirty[c]],
         queue' = [c \in Chars |-> IF c \in S \cup Out THEN NoEvents ELSE queue[c]],
         status' \in [Chars -> {"offline", "online", "pending"}],
         \A c \in Chars : Active(c)' <=> Active(c) /\ c \notin Out,
         death' \in [Chars -> {"no", "dying", "owed"}],
         left' \in [Chars -> [Stores -> SUBSET Items] \cup {None}],
         UNCHANGED <<up, ground, lying, body, tomb>>
  PROVE  IInv'
<1>0. TypeOK /\ CorpseAgrees /\ OneConnection /\ Flags /\ Down
  BY DEF IInv
<1>1. /\ disk' \in [Rows -> SUBSET Items]
      /\ Rewrites(disk', S, mem, disk)
      /\ Sound(mem, disk', ground)
      /\ \A k \in CorpseIds : disk'[CorpseRow(k)] = disk[CorpseRow(k)]
      /\ ledger' \in [Accounts -> [Items -> Int]]
  BY FlushFacts
<1>2. NoStores \in [Stores -> SUBSET Items] /\ NoEvents \in [Items -> Int]
  BY DEF NoStores, NoEvents
<1>3. mem \in Memories /\ mem' \in Memories
  BY <1>0, <1>2 DEF TypeOK, Memories
<1>4. TypeOK'
  <2>1. dirty' \in [Chars -> SUBSET Stores]
    BY <1>0 DEF TypeOK
  <2>2. queue' \in [Chars -> [Items -> Int]]
    BY <1>0, <1>2 DEF TypeOK
  <2> QED
    BY <1>0, <1>1, <1>3, <2>1, <2>2 DEF TypeOK, Memories
<1>5. Sound(mem, disk, ground)'
  <2>1. \A c \in Chars, s \in Stores : mem'[c][s] \subseteq mem[c][s]
    BY DEF NoStores
  <2>2. ground \in SUBSET Items
    BY <1>0 DEF TypeOK
  <2>3. Sound(mem', disk', ground)
    BY <1>1, <1>3, <2>1, <2>2, LessSound
  <2> QED
    BY <2>3
<1>6. CorpseAgrees'
  BY <1>0, <1>1 DEF CorpseAgrees
<1>7. OneConnection'
  BY <1>0 DEF OneConnection
<1>8. Flags'
  <2>1. Covered({c \in Chars : Active(c)}, mem, dirty, disk)
    BY <1>0 DEF Flags
  <2>2. DEFINE e == [c \in Chars |-> IF c \in S THEN {} ELSE dirty[c]]
  <2>3. Covered({c \in Chars : Active(c)}, mem, e, disk')
    <3>1. \A c \in Chars \ S : mem[c] = mem[c] /\ e[c] = dirty[c]
      OBVIOUS
    <3>2. e \in [Chars -> SUBSET Stores] /\ dirty \in [Chars -> SUBSET Stores]
      BY <1>0 DEF TypeOK
    <3> HIDE DEF e
    <3> QED
      BY <1>1, <1>3, <2>1, <3>1, <3>2, FlushCovered
  <2>4. \A c \in Chars : Active(c)' => mem'[c] = mem[c] /\ dirty'[c] = e[c]
    OBVIOUS
  <2>5. Covered({c \in Chars : Active(c)}, mem, dirty, disk)'
    <3> HIDE DEF e
    <3> QED
      BY <2>3, <2>4 DEF Covered
  <2>6. ASSUME NEW c \in Chars, ~ Active(c)'
        PROVE  mem'[c] = NoStores /\ dirty'[c] = {} /\ queue'[c] = NoEvents
    BY <1>0, <2>6 DEF Flags
  <2> QED
    BY <2>5, <2>6 DEF Flags
<1>9. Down'
  BY <1>0 DEF Down
<1> QED
  BY <1>4, <1>5, <1>6, <1>7, <1>8, <1>9 DEF IInv

\* No connection flushed, nothing written.
LEMMA NoFlush ==
  ASSUME TypeOK
  PROVE  Written({}, mem, dirty) = disk /\ Posted({}, queue) = ledger
BY DEF TypeOK, Written, Posted

\* The logout save, its retry and its giving up.
LEMMA ReapInv ==
  ASSUME IInv, NEW c \in Chars, NEW stores \in BOOLEAN, NEW others \in BOOLEAN,
         Reap(c, stores, others)
  PROVE  IInv'
<1>0. TypeOK /\ Active(c)
  BY DEF IInv, Reap, Online, Active
<1>1. left' \in [Chars -> [Stores -> SUBSET Items] \cup {None}]
  BY <1>0 DEF Reap, TypeOK
<1>2. CASE stores /\ others
  <2>1. /\ status' \in [Chars -> {"offline", "online", "pending"}]
        /\ death' \in [Chars -> {"no", "dying", "owed"}]
    BY <1>0, <1>2 DEF Reap, Gone, TypeOK
  <2>2. mem' = [d \in Chars |-> IF d \in {c} THEN NoStores ELSE mem[d]]
    BY <1>0, <1>2 DEF Reap, Gone, TypeOK
  <2>3. /\ dirty' = [d \in Chars |-> IF d \in {c} \cup {c} THEN {} ELSE dirty[d]]
        /\ queue' = [d \in Chars |-> IF d \in {c} \cup {c} THEN NoEvents ELSE queue[d]]
    BY <1>2 DEF Reap, Flush, FlushBut, Cleaned
  <2>4. \A d \in Chars : Active(d)' <=> Active(d) /\ d \notin {c}
    BY <1>0, <1>2 DEF Reap, Gone, Active, TypeOK
  <2>5. {c} \in SUBSET {d \in Chars : Active(d)}
    BY <1>0
  <2>6. /\ disk' = Written({c}, mem, dirty) /\ ledger' = Posted({c}, queue)
        /\ UNCHANGED <<up, ground, lying, body, tomb>>
    BY <1>2 DEF Reap, Flush, FlushBut
  <2> QED
    BY <1>1, <2>1, <2>2, <2>3, <2>4, <2>5, <2>6, SavedOrGone
<1>3. CASE ~ (stores /\ others)
  <2> DEFINE S == IF stores THEN {c} ELSE {}
  <2>1. /\ status' \in [Chars -> {"offline", "online", "pending"}]
        /\ death' \in [Chars -> {"no", "dying", "owed"}]
    BY <1>0, <1>3 DEF Reap, TypeOK
  <2>2. mem' = [d \in Chars |-> IF d \in {} THEN NoStores ELSE mem[d]]
    BY <1>0, <1>3 DEF Reap, TypeOK
  <2>3. /\ disk' = Written(S, mem, dirty) /\ ledger' = Posted(S, queue)
        /\ UNCHANGED <<up, ground, lying, body, tomb>>
    BY <1>0, <1>3, NoFlush DEF Reap, Flush, FlushBut
  <2>4. /\ dirty' = [d \in Chars |-> IF d \in S \cup {} THEN {} ELSE dirty[d]]
        /\ queue' = [d \in Chars |-> IF d \in S \cup {} THEN NoEvents ELSE queue[d]]
    BY <1>0, <1>3 DEF Reap, Flush, FlushBut, Cleaned, TypeOK
  <2>5. \A d \in Chars : Active(d)' <=> Active(d) /\ d \notin {}
    BY <1>0, <1>3 DEF Reap, Active, TypeOK
  <2>6. S \in SUBSET {d \in Chars : Active(d)}
    BY <1>0
  <2> HIDE DEF S
  <2> QED
    BY <1>1, <2>1, <2>2, <2>3, <2>4, <2>5, <2>6, SavedOrGone
<1> QED
  BY <1>2, <1>3

LEMMA RetryInv ==
  ASSUME IInv, NEW c \in Chars, NEW stores \in BOOLEAN, NEW others \in BOOLEAN,
         NEW due \in BOOLEAN, Retry(c, stores, others, due)
  PROVE  IInv'
<1>0. TypeOK /\ Active(c)
  BY DEF IInv, Retry, Active
<1> DEFINE S == IF stores THEN {c} ELSE {}
           Out == IF (stores /\ others) \/ due THEN {c} ELSE {}
<1>1. left' \in [Chars -> [Stores -> SUBSET Items] \cup {None}]
  BY <1>0 DEF Retry, TypeOK
<1>2. /\ status' \in [Chars -> {"offline", "online", "pending"}]
      /\ death' \in [Chars -> {"no", "dying", "owed"}]
  BY <1>0 DEF Retry, Gone, TypeOK
<1>3. mem' = [d \in Chars |-> IF d \in Out THEN NoStores ELSE mem[d]]
  BY <1>0 DEF Retry, Gone, TypeOK
<1>4. /\ disk' = Written(S, mem, dirty) /\ ledger' = Posted(S, queue)
      /\ UNCHANGED <<up, ground, lying, body, tomb>>
  BY <1>0, NoFlush DEF Retry, Flush, FlushBut
<1>5. /\ dirty' = [d \in Chars |-> IF d \in S \cup Out THEN {} ELSE dirty[d]]
      /\ queue' = [d \in Chars |-> IF d \in S \cup Out THEN NoEvents ELSE queue[d]]
  BY <1>0 DEF Retry, Flush, FlushBut, Cleaned, TypeOK
<1>6. \A d \in Chars : Active(d)' <=> Active(d) /\ d \notin Out
  BY <1>0 DEF Retry, Gone, Active, TypeOK
<1>7. S \in SUBSET {d \in Chars : Active(d)} /\ Out \in SUBSET Chars
  BY <1>0
<1> HIDE DEF S, Out
<1> QED
  BY <1>1, <1>2, <1>3, <1>4, <1>5, <1>6, <1>7, SavedOrGone

\* The process ends: nothing is in play, and what was flushed is saved.
LEMMA StopInv ==
  ASSUME IInv, NEW S \in SUBSET {c \in Chars : Active(c)}, Stop(S)
  PROVE  IInv'
<1>0. TypeOK /\ CorpseAgrees
  BY DEF IInv
<1>1. /\ disk' \in [Rows -> SUBSET Items]
      /\ Sound(mem, disk', ground)
      /\ \A k \in CorpseIds : disk'[CorpseRow(k)] = disk[CorpseRow(k)]
      /\ ledger' \in [Accounts -> [Items -> Int]]
  BY FlushFacts DEF Stop
<1>2. NoStores \in [Stores -> SUBSET Items] /\ NoEvents \in [Items -> Int]
  BY DEF NoStores, NoEvents
<1>3. mem' \in Memories /\ mem \in Memories /\ ground \in SUBSET Items
  BY <1>0, <1>2 DEF Stop, TypeOK, Memories
<1>4. \A c \in Chars : ~ Active(c)' /\ mem'[c] = NoStores /\ dirty'[c] = {} /\ queue'[c] = NoEvents
  BY DEF Stop, Active
<1>5. TypeOK'
  BY <1>0, <1>1, <1>2 DEF Stop, TypeOK
<1>6. Sound(mem, disk, ground)'
  <2>1. \A c \in Chars, s \in Stores : mem'[c][s] \subseteq mem[c][s]
    BY <1>4 DEF NoStores
  <2>2. ground' \in SUBSET ground
    BY DEF Stop
  <2>3. Sound(mem', disk', ground')
    BY <1>1, <1>3, <2>1, <2>2, LessSound
  <2> QED
    BY <2>3
<1>7. CorpseAgrees'
  BY <1>0, <1>1 DEF CorpseAgrees, Stop
<1>8. OneConnection' /\ Flags' /\ Down'
  BY <1>4 DEF OneConnection, Flags, Covered, Down, Stop
<1> QED
  BY <1>5, <1>6, <1>7, <1>8 DEF IInv

\* The corpses are loaded: what their rows are.
LEMMA BootInv ==
  ASSUME IInv, NEW loaded \in BOOLEAN, Boot(loaded)
  PROVE  IInv'
<1>0. TypeOK /\ Sound(mem, disk, ground) /\ CorpseAgrees /\ OneConnection /\ Flags /\ Down
  BY DEF IInv
<1>1. TypeOK'
  <2>1. \A k \in CorpseIds : disk[<<"corpse", k>>] \in SUBSET Items
    BY <1>0, CorpseRowFacts DEF TypeOK, CorpseRow
  <2>2. lying' \subseteq CorpseIds /\ body' \in [CorpseIds -> SUBSET Items]
    BY <1>0, <2>1 DEF TypeOK, Boot
  <2> QED
    BY <1>0, <2>2 DEF TypeOK, Boot, database
<1>2. Sound(mem, disk, ground)'
  BY <1>0 DEF Boot, database
<1>3. CorpseAgrees'
  <2>1. /\ lying = {} /\ UNCHANGED <<disk, tomb>>
        /\ \A k \in CorpseIds : body[k] = {} /\ (tomb[k] = None => disk[CorpseRow(k)] = {})
    BY <1>0 DEF CorpseAgrees, Boot, database, Down
  <2>2. CASE loaded
    <3>1. \A k \in CorpseIds : /\ k \in lying' <=> tomb[k] # None
                              /\ body'[k] = disk[CorpseRow(k)]
      BY <2>2 DEF Boot, CorpseRow
    <3> QED
      BY <2>1, <3>1 DEF CorpseAgrees
  <2>3. CASE ~ loaded
    BY <2>1, <2>3 DEF CorpseAgrees, Boot
  <2> QED
    BY <2>2, <2>3
<1>4. OneConnection' /\ Flags' /\ Down'
  <2>1. OneConnection'
    BY <1>0 DEF OneConnection, Active, Boot
  <2>2. Flags'
    BY <1>0 DEF Flags, Covered, Active, Boot, database
  <2> QED
    BY <2>1, <2>2 DEF Down, Boot
<1> QED
  BY <1>1, <1>2, <1>3, <1>4 DEF IInv

\* A login: the rows come into play, those of the account's other characters
\* stay out of it.
LEMMA LoginInv ==
  ASSUME IInv, NEW c \in Chars, NEW away \in BOOLEAN, Login(c, away)
  PROVE  IInv'
<1>0. TypeOK /\ Sound(mem, disk, ground) /\ CorpseAgrees /\ OneConnection /\ Flags /\ Down
  BY DEF IInv
<1> DEFINE loaded == [s \in Stores |-> disk[Row(c, s)]]
           gone == IF away THEN {x \in NoRent : \E s \in Stores : x \in loaded[s]} ELSE {}
<1>1. /\ loaded \in [Stores -> SUBSET Items]
      /\ mem' = [mem EXCEPT ![c] = [s \in Stores |-> loaded[s] \ gone]]
      /\ dirty' = [dirty EXCEPT ![c] = IF gone = {} THEN {} ELSE Stores]
      /\ queue' = [queue EXCEPT ![c] = [x \in Items |-> IF x \in gone THEN -1 ELSE 0]]
      /\ status' = [status EXCEPT ![c] = "online"]
      /\ left' = [left EXCEPT ![c] = None]
      /\ UNCHANGED <<up, death, ground, lying, body, disk, tomb, ledger>>
      /\ ~ Active(c)
  BY <1>0, RowFacts DEF Login, AccountFree, TypeOK, Active, database
<1>2. /\ \A s \in Stores : mem'[c][s] \subseteq disk[Row(c, s)]
      /\ \A s \in Stores : mem'[c][s] # disk[Row(c, s)] => s \in dirty'[c]
      /\ \A d \in Chars \ {c} : mem'[d] = mem[d] /\ dirty'[d] = dirty[d] /\ queue'[d] = queue[d]
  BY <1>0, <1>1 DEF TypeOK
<1>3. TypeOK'
  <2>1. mem' \in Memories
    BY <1>0, <1>1 DEF TypeOK, Memories
  <2>2. queue' \in [Chars -> [Items -> Int]]
    <3>1. [x \in Items |-> IF x \in gone THEN -1 ELSE 0] \in [Items -> Int]
      OBVIOUS
    <3> QED
      BY <1>0, <1>1, <3>1 DEF TypeOK
  <2>3. dirty' \in [Chars -> SUBSET Stores] /\ status' \in [Chars -> {"offline", "online", "pending"}]
    BY <1>0, <1>1 DEF TypeOK
  <2> QED
    BY <1>0, <1>1, <2>1, <2>2, <2>3 DEF TypeOK, Memories
<1> HIDE DEF loaded, gone
<1>4. Sound(mem, disk, ground)'
  <2>1. \A s \in Stores : \A x \in mem'[c][s] : x \in Items /\ x \in disk[Row(c, s)] /\ Row(c, s) \in Rows
    BY <1>0, <1>2, RowFacts DEF TypeOK
  <2>2. \A d \in Chars, s \in Stores, t \in Stores : \A x \in mem'[c][s] :
          d # c => x \notin mem'[d][t]
    <3> SUFFICES ASSUME NEW d \in Chars, NEW s \in Stores, NEW t \in Stores, NEW x \in mem'[c][s],
                        d # c, x \in mem[d][t]
                 PROVE  FALSE
      BY <1>2
    <3>1. Mine(d, Row(c, s))
      BY <1>0, <2>1 DEF Sound, MemOwn
    <3>2. Mine(c, Row(c, s))
      BY DEF Mine
    <3>3. AccountOf[c] = AccountOf[d]
      BY <3>1, <3>2, MineOnce
    <3>4. ~ Active(d)
      BY <3>3 DEF Login, AccountFree
    <3> QED
      BY <1>0, <3>4 DEF Flags, NoStores
  <2>3. \A s \in Stores, r \in Rows : \A x \in mem'[c][s] : x \in disk[r] => r = Row(c, s)
    BY <1>0, <2>1 DEF Sound, DiskOnce
  <2>4. MemOnce(mem')
    <3> SUFFICES ASSUME NEW d \in Chars, NEW e \in Chars, NEW s \in Stores, NEW t \in Stores,
                        NEW x \in Items, x \in mem'[d][s], x \in mem'[e][t]
                 PROVE  d = e /\ s = t
      BY DEF MemOnce
    <3>1. CASE d = c /\ e = c
      <4>1. Row(c, s) = Row(c, t)
        BY <2>1, <2>3, <3>1
      <4>2. Row(c, s)[1] = s /\ Row(c, t)[1] = t
        BY RowFacts
      <4> QED
        BY <3>1, <4>1, <4>2
    <3>2. CASE d # c /\ e # c
      BY <1>0, <1>2, <3>2 DEF Sound, MemOnce
    <3>3. CASE (d = c) # (e = c)
      BY <2>2, <3>3
    <3> QED
      BY <3>1, <3>2, <3>3
  <2>5. MemOwn(mem', disk)
    <3> SUFFICES ASSUME NEW d \in Chars, NEW s \in Stores, NEW r \in Rows, NEW x \in Items,
                        x \in mem'[d][s], x \in disk[r]
                 PROVE  Mine(d, r)
      BY DEF MemOwn
    <3>1. CASE d = c
      BY <2>3, <3>1 DEF Mine
    <3>2. CASE d # c
      BY <1>0, <1>2, <3>2 DEF Sound, MemOwn
    <3> QED
      BY <3>1, <3>2
  <2>6. GroundAlone(ground, mem', disk)
    <3>1. ASSUME NEW x \in ground, NEW d \in Chars, NEW s \in Stores
          PROVE  x \notin mem'[d][s]
      <4>1. CASE d = c
        BY <1>0, <2>1, <4>1 DEF Sound, GroundAlone
      <4>2. CASE d # c
        BY <1>0, <1>2, <4>2 DEF Sound, GroundAlone
      <4> QED
        BY <4>1, <4>2
    <3> QED
      BY <1>0, <3>1 DEF Sound, GroundAlone
  <2>7. Sound(mem', disk, ground)
    BY <1>0, <2>4, <2>5, <2>6 DEF Sound
  <2> QED
    BY <1>1, <2>7
<1>5. CorpseAgrees'
  BY <1>0, <1>1 DEF CorpseAgrees
<1>6. \A d \in Chars : Active(d)' <=> Active(d) \/ d = c
  BY <1>0, <1>1 DEF Active, TypeOK
<1>7. OneConnection'
  <2>1. \A d \in Chars : AccountOf[d] = AccountOf[c] => ~ Active(d)
    BY DEF Login, AccountFree
  <2> QED
    BY <1>0, <1>6, <2>1 DEF OneConnection
<1>8. Flags'
  <2>1. Covered({d \in Chars : Active(d)}, mem, dirty, disk)'
    <3> SUFFICES ASSUME NEW d \in Chars, Active(d)', NEW s \in Stores, s \notin dirty'[d]
                 PROVE  mem'[d][s] = disk[Row(d, s)]
      BY <1>1 DEF Covered
    <3>1. CASE d = c
      BY <1>2, <3>1
    <3>2. CASE d # c
      BY <1>0, <1>2, <1>6, <3>2 DEF Flags, Covered
    <3> QED
      BY <3>1, <3>2
  <2> QED
    BY <1>0, <1>2, <1>6, <2>1 DEF Flags
<1>9. Down'
  BY <1>0, <1>1 DEF Down, Login
<1> QED
  BY <1>3, <1>4, <1>5, <1>7, <1>8, <1>9 DEF IInv

-----------------------------------------------------------------------------
(* Steps of one connection *)

\* A move left for the checkpoint keeps the invariant if it keeps the tokens
\* apart.
LEMMA StirInv ==
  ASSUME IInv, NEW c \in Chars, Online(c), NEW X \in SUBSET Items, NEW from \in Places, NEW to \in Places,
         Stir(c, X, from, to), ground' \in SUBSET Items,
         Sound(Moved(c, X, from, to), disk, ground'),
         UNCHANGED <<up, status, death, lying, body, tomb, left>>
  PROVE  IInv'
<1>0. TypeOK /\ CorpseAgrees /\ OneConnection /\ Flags /\ Down /\ Active(c)
  BY DEF IInv, Online, Active
<1>1. mem \in Memories
  BY <1>0 DEF TypeOK, Memories
<1>2. /\ mem' \in Memories /\ dirty' \in [Chars -> SUBSET Stores]
      /\ queue' \in [Chars -> [Items -> Int]]
      /\ \A d \in Chars \ {c} : mem'[d] = mem[d] /\ dirty'[d] = dirty[d] /\ queue'[d] = queue[d]
  <2>1. mem' \in Memories /\ \A d \in Chars \ {c} : mem'[d] = mem[d]
    BY <1>1, MovedFacts DEF Stir
  <2>2. dirty \in [Chars -> SUBSET Stores] /\ queue \in [Chars -> [Items -> Int]]
    BY <1>0 DEF TypeOK
  <2>3. dirty' \in [Chars -> SUBSET Stores] /\ \A d \in Chars \ {c} : dirty'[d] = dirty[d]
    BY <2>2, TouchedFacts DEF Stir
  <2>4. queue' \in [Chars -> [Items -> Int]] /\ \A d \in Chars \ {c} : queue'[d] = queue[d]
    BY <2>2, QueuedType DEF Stir
  <2> QED
    BY <2>1, <2>3, <2>4
<1>3. TypeOK'
  BY <1>0, <1>2 DEF TypeOK, Stir, Memories
<1>4. Sound(mem, disk, ground)'
  BY DEF Stir
<1>5. CorpseAgrees' /\ OneConnection' /\ Down'
  BY <1>0 DEF CorpseAgrees, OneConnection, Down, Active, Online, Stir
<1>6. Flags'
  <2>1. Covered({d \in Chars : Active(d)}, mem', dirty', disk)
    BY <1>0, MovedCovered DEF Stir
  <2>2. Covered({d \in Chars : Active(d)}, mem, dirty, disk)'
    BY <2>1 DEF Covered, Active, Stir
  <2> QED
    BY <1>0, <1>2, <2>2 DEF Flags, Active
<1> QED
  BY <1>3, <1>4, <1>5, <1>6 DEF IInv

\* The same for a move saved at once; what it writes is this.
LEMMA StirWrites ==
  ASSUME IInv, NEW c \in Chars, Online(c), NEW X \in SUBSET Items, NEW from \in Places, NEW to \in Places,
         StirAndFlush(c, X, from, to)
  PROVE  /\ disk' \in [Rows -> SUBSET Items]
         /\ Rewrites(disk', {c}, Moved(c, X, from, to), disk)
         /\ Moved(c, X, from, to) \in Memories
         /\ \A d \in Chars \ {c} : Moved(c, X, from, to)[d] = mem[d]
<1>0. TypeOK /\ Active(c)
  BY DEF IInv, Online, Active
<1>1. mem \in Memories /\ disk \in [Rows -> SUBSET Items] /\ dirty \in [Chars -> SUBSET Stores]
  BY <1>0 DEF TypeOK, Memories
<1>2. /\ Moved(c, X, from, to) \in Memories
      /\ \A d \in Chars \ {c} : Moved(c, X, from, to)[d] = mem[d]
      /\ Touched(c, from, to) \in [Chars -> SUBSET Stores]
  BY <1>1, MovedFacts, TouchedFacts
<1>3. Covered({c}, Moved(c, X, from, to), Touched(c, from, to), disk)
  BY <1>0, MovedCovered DEF Covered
<1>4. \A a, b \in {c} : AccountOf[a] = AccountOf[b] => a = b
  OBVIOUS
<1> QED
  BY <1>1, <1>2, <1>3, <1>4, Flushed DEF StirAndFlush

LEMMA StirAndFlushInv ==
  ASSUME IInv, NEW c \in Chars, Online(c), NEW X \in SUBSET Items, NEW from \in Places, NEW to \in Places,
         StirAndFlush(c, X, from, to), ground' \in SUBSET Items,
         Sound(Moved(c, X, from, to), disk', ground'),
         UNCHANGED <<up, status, death, lying, body, tomb, left>>
  PROVE  IInv'
<1>0. TypeOK /\ CorpseAgrees /\ OneConnection /\ Flags /\ Down /\ Active(c)
  BY DEF IInv, Online, Active
<1>1. /\ disk' \in [Rows -> SUBSET Items] /\ Rewrites(disk', {c}, mem', disk)
      /\ mem' \in Memories /\ \A d \in Chars \ {c} : mem'[d] = mem[d]
  BY StirWrites DEF StirAndFlush
<1>2. /\ dirty' \in [Chars -> SUBSET Stores] /\ queue' \in [Chars -> [Items -> Int]]
      /\ \A d \in Chars \ {c} : dirty'[d] = dirty[d] /\ queue'[d] = queue[d]
  <2>1. NoEvents \in [Items -> Int]
    BY DEF NoEvents
  <2> QED
    BY <1>0, <2>1 DEF TypeOK, StirAndFlush, Cleaned
<1>3. ledger' \in [Accounts -> [Items -> Int]]
  <2>1. Queued(c, X, from, to) \in [Chars -> [Items -> Int]]
    BY <1>0, QueuedType DEF TypeOK
  <2> QED
    BY <1>0, <2>1, PostedType DEF TypeOK, StirAndFlush
<1>4. TypeOK'
  BY <1>0, <1>1, <1>2, <1>3 DEF TypeOK, Memories
<1>5. Sound(mem, disk, ground)'
  BY DEF StirAndFlush
<1>6. CorpseAgrees'
  <2> DEFINE S == {c}
  <2>1. S \in SUBSET Chars /\ Rewrites(disk', S, mem', disk)
    BY <1>1
  <2> HIDE DEF S
  <2>2. \A k \in CorpseIds : disk'[CorpseRow(k)] = disk[CorpseRow(k)]
    <3>1. RowByRow(disk', S, mem', disk)
      BY <2>1, RewriteRows
    <3> QED
      BY <3>1 DEF RowByRow
  <2> QED
    BY <1>0, <2>2 DEF CorpseAgrees
<1>7. OneConnection' /\ Down'
  BY <1>0 DEF OneConnection, Down, Active, Online
<1>8. Flags'
  <2>1. Covered({d \in Chars : Active(d)}, mem, dirty, disk) /\ {c} \in SUBSET {d \in Chars : Active(d)}
    BY <1>0 DEF Flags
  <2>2. Covered({d \in Chars : Active(d)}, mem', dirty', disk')
    <3>1. \A d \in Chars \ {c} : mem'[d] = mem[d] /\ dirty'[d] = dirty[d]
      BY <1>1, <1>2
    <3> QED
      BY <1>1, <2>1, <3>1, FlushCovered
  <2>3. Covered({d \in Chars : Active(d)}, mem, dirty, disk)'
    BY <2>2 DEF Covered, Active
  <2> QED
    BY <1>0, <1>1, <1>2, <2>3 DEF Flags, Active
<1> QED
  BY <1>4, <1>5, <1>6, <1>7, <1>8 DEF IInv

\* The stores after the move of one token.
LEMMA MovedOne ==
  ASSUME IInv, NEW c \in Chars, NEW x \in Items, NEW from, NEW to
  PROVE  /\ {x} \in SUBSET Items
         /\ mem \in Memories /\ Moved(c, {x}, from, to) \in Memories
         /\ disk \in [Rows -> SUBSET Items] /\ ground \in SUBSET Items
         /\ Sound(mem, disk, ground)
<1>1. {x} \in SUBSET Items
  OBVIOUS
<1>2. /\ mem \in Memories /\ disk \in [Rows -> SUBSET Items] /\ ground \in SUBSET Items
      /\ Sound(mem, disk, ground)
  BY DEF IInv, TypeOK, Memories
<1>3. Moved(c, {x}, from, to) \in Memories
  BY <1>1, <1>2, MovedFacts
<1> QED
  BY <1>1, <1>2, <1>3

\* A token that is alone where it goes.
LEMMA TokenIn ==
  ASSUME IInv, NEW c \in Chars, NEW x \in Items, NEW G \in SUBSET Items,
         Sound(mem, disk, G), x \notin G,
         \A d \in Chars, t \in Stores : x \notin mem[d][t],
         \A r \in Rows : x \notin disk[r]
  PROVE  Sound(Moved(c, {x}, "out", "carried"), disk, G)
<1> DEFINE N == Moved(c, {x}, "out", "carried")
<1>1. /\ {x} \in SUBSET Items /\ mem \in Memories /\ N \in Memories
      /\ disk \in [Rows -> SUBSET Items]
  BY MovedOne, OutFacts
<1>2. Puts(N, mem, c, "carried", {x})
  BY <1>1, OutFacts DEF Moved, Memories, Puts
<1>3. Nowhere({x}, mem, disk, G)
  BY DEF Nowhere
<1> HIDE DEF N
<1>4. Sound(N, disk, G)
  BY <1>1, <1>2, <1>3, OutFacts, PutSound
<1> QED
  BY <1>4 DEF N

\* A token taken out.
LEMMA TokenOut ==
  ASSUME IInv, NEW c \in Chars, NEW x \in Items
  PROVE  /\ Sound(Moved(c, {x}, "carried", "out"), disk, ground)
         /\ \A d \in Chars, t \in Stores : d # c \/ t # "carried" =>
              Moved(c, {x}, "carried", "out")[d][t] = mem[d][t]
         /\ Moved(c, {x}, "carried", "out")[c]["carried"] = mem[c]["carried"] \ {x}
<1> DEFINE N == Moved(c, {x}, "carried", "out")
<1>1. /\ mem \in Memories /\ N \in Memories /\ disk \in [Rows -> SUBSET Items]
      /\ ground \in SUBSET Items /\ Sound(mem, disk, ground)
  BY MovedOne, OutFacts
<1>2. /\ \A d \in Chars, t \in Stores : d # c \/ t # "carried" => N[d][t] = mem[d][t]
      /\ N[c]["carried"] = mem[c]["carried"] \ {x}
  BY <1>1, OutFacts DEF Moved, Memories
<1> HIDE DEF N
<1>3. \A d \in Chars, t \in Stores : N[d][t] \subseteq mem[d][t]
  BY <1>2
<1>4. \A r \in Rows : disk[r] \subseteq disk[r]
  OBVIOUS
<1>5. Sound(N, disk, ground)
  BY <1>1, <1>3, <1>4, LessSound
<1> QED
  BY <1>2, <1>5 DEF N

LEMMA GainInv ==
  ASSUME IInv, NEW c \in Chars, NEW x \in Items, Gain(c, x)
  PROVE  IInv'
<1> DEFINE X == {x}
           from == "out"
           to == "carried"
<1>1. /\ X \in SUBSET Items /\ from \in Places /\ to \in Places
      /\ ground' = ground /\ ground' \in SUBSET Items /\ Sound(mem, disk, ground)
  BY MovedOne, OutFacts DEF Gain
<1>2. Sound(Moved(c, X, from, to), disk, ground')
  BY <1>1, TokenIn DEF Gain, Unborn
<1>3. /\ Online(c) /\ Stir(c, X, from, to)
      /\ UNCHANGED <<up, status, death, lying, body, tomb, left>>
  BY DEF Gain
<1> HIDE DEF X, from, to
<1> QED
  BY <1>1, <1>2, <1>3, StirInv

LEMMA LoseInv ==
  ASSUME IInv, NEW c \in Chars, NEW x \in Items, Lose(c, x)
  PROVE  IInv'
<1> DEFINE X == {x}
           from == "carried"
           to == "out"
<1>1. /\ X \in SUBSET Items /\ from \in Places /\ to \in Places
      /\ ground' = ground /\ ground' \in SUBSET Items
  BY MovedOne, OutFacts DEF Lose
<1>2. Sound(Moved(c, X, from, to), disk, ground')
  BY <1>1, TokenOut
<1>3. /\ Online(c) /\ Stir(c, X, from, to)
      /\ UNCHANGED <<up, status, death, lying, body, tomb, left>>
  BY DEF Lose
<1> HIDE DEF X, from, to
<1> QED
  BY <1>1, <1>2, <1>3, StirInv

\* From one store of a connection to another: saved in a row of the connection
\* before and after.
LEMMA BankInv ==
  ASSUME IInv, NEW c \in Chars, NEW x \in Items, NEW from \in Stores, NEW to \in Stores,
         Bank(c, x, from, to)
  PROVE  IInv'
<1> DEFINE N == Moved(c, {x}, from, to)
<1>2. x \in mem[c][from] /\ from # to /\ ground' = ground
  BY DEF Bank
<1>1. /\ mem \in Memories /\ N \in Memories /\ {x} \in SUBSET Items
      /\ ground \in SUBSET Items /\ Sound(mem, disk, ground)
      /\ from \in Places /\ to \in Places
  BY MovedOne DEF Places
<1>4. /\ \A d \in Chars, t \in Stores : d # c \/ (t # from /\ t # to) => N[d][t] = mem[d][t]
      /\ N[c][from] = mem[c][from] \ {x}
      /\ N[c][to] = mem[c][to] \cup {x}
  BY <1>1, <1>2 DEF Moved, Memories
<1> HIDE DEF N
<1>3. ASSUME NEW d \in Chars, NEW t \in Stores, NEW y \in Items, y \in N[d][t]
      PROVE  (y # x /\ y \in mem[d][t]) \/ (y = x /\ d = c /\ t = to)
  <2>1. CASE y # x
    BY <1>1, <1>3, <1>4, <2>1
  <2>2. CASE y = x
    <3>1. \A e \in Chars, u \in Stores : x \in mem[e][u] => e = c /\ u = from
      BY <1>1, <1>2 DEF Sound, MemOnce
    <3> QED
      BY <1>1, <1>3, <1>4, <2>2, <3>1
  <2> QED
    BY <2>1, <2>2
<1>5. MemOnce(N)
  <2> SUFFICES ASSUME NEW d \in Chars, NEW e \in Chars, NEW s \in Stores, NEW t \in Stores,
                      NEW y \in Items, y \in N[d][s], y \in N[e][t]
               PROVE  d = e /\ s = t
    BY DEF MemOnce
  <2>1. CASE y = x
    BY <1>3, <2>1
  <2>2. CASE y # x
    <3>1. y \in mem[d][s] /\ y \in mem[e][t]
      BY <1>3, <2>2
    <3> QED
      BY <1>1, <3>1 DEF Sound, MemOnce
  <2> QED
    BY <2>1, <2>2
<1>6. MemOwn(N, disk)
  <2> SUFFICES ASSUME NEW d \in Chars, NEW s \in Stores, NEW r \in Rows, NEW y \in Items,
                      y \in N[d][s], y \in disk[r]
               PROVE  Mine(d, r)
    BY DEF MemOwn
  <2>1. \E t \in Stores : y \in mem[d][t]
    BY <1>2, <1>3
  <2> QED
    BY <1>1, <2>1 DEF Sound, MemOwn
<1>7. GroundAlone(ground, N, disk)
  <2>1. ASSUME NEW y \in ground, NEW d \in Chars, NEW t \in Stores, y \in N[d][t]
        PROVE  FALSE
    <3>1. y \in Items
      BY <1>1
    <3> QED
      BY <1>1, <1>2, <1>3, <2>1, <3>1 DEF Sound, GroundAlone
  <2> QED
    BY <1>1, <2>1 DEF Sound, GroundAlone
<1>8. Sound(N, disk, ground)
  BY <1>1, <1>5, <1>6, <1>7 DEF Sound
<1>9. Online(c) /\ Stir(c, {x}, from, to) /\ UNCHANGED <<up, status, death, lying, body, tomb, left>>
  BY DEF Bank
<1> QED
  BY <1>1, <1>2, <1>8, <1>9, StirInv DEF N

-----------------------------------------------------------------------------
(* The ground *)

\* A token taken from the ground is nowhere else, and then in one store.
LEMMA PickUpInv ==
  ASSUME IInv, NEW c \in Chars, NEW x \in Items, NEW saved \in BOOLEAN, PickUp(c, x, saved)
  PROVE  IInv'
<1> DEFINE X == {x}
           from == "out"
           to == "carried"
           G == ground \ {x}
           N == Moved(c, X, from, to)
<1>1. /\ X \in SUBSET Items /\ from \in Places /\ to \in Places
      /\ ground' = G /\ G \in SUBSET ground /\ G \in SUBSET Items /\ x \in ground /\ x \notin G
      /\ mem \in Memories /\ N \in Memories /\ disk \in [Rows -> SUBSET Items]
      /\ ground \in SUBSET Items /\ Sound(mem, disk, ground)
  BY MovedOne, OutFacts DEF PickUp
<1>2. Sound(mem, disk, G)
  <2>1. /\ \A d \in Chars, t \in Stores : mem[d][t] \subseteq mem[d][t]
        /\ \A r \in Rows : disk[r] \subseteq disk[r]
    OBVIOUS
  <2> HIDE DEF G
  <2> QED
    BY <1>1, <2>1, LessSound
<1>3. Sound(N, disk, G)
  <2>1. /\ \A d \in Chars, t \in Stores : x \notin mem[d][t]
        /\ \A r \in Rows : x \notin disk[r]
    BY <1>1 DEF Sound, GroundAlone
  <2> HIDE DEF G
  <2> QED
    BY <1>1, <1>2, <2>1, TokenIn
<1>4. Online(c) /\ UNCHANGED <<up, status, death, lying, body, tomb, left>>
  BY DEF PickUp
<1>5. CASE saved
  <2>1. StirAndFlush(c, X, from, to)
    BY <1>5 DEF PickUp
  <2> DEFINE S == {c}
  <2>2. /\ disk' \in [Rows -> SUBSET Items] /\ Rewrites(disk', S, N, disk)
    <3> HIDE DEF X, from, to
    <3> QED
      BY <1>1, <1>4, <2>1, StirWrites
  <2>3. Exchanges(S, N, N)
    BY DEF Exchanges, Held
  <2>4. S \in SUBSET Chars /\ MemOnce(N)
    BY <1>3 DEF Sound
  <2> HIDE DEF S, G, N
  <2>5. Sound(N, disk', G)
    BY <1>1, <1>3, <2>2, <2>3, <2>4, RewriteSound
  <2>6. Sound(N, disk', ground') /\ ground' \in SUBSET Items
    BY <1>1, <2>5
  <2> USE DEF N
  <2> HIDE DEF X, from, to
  <2> QED
    BY <1>1, <1>4, <2>1, <2>6, StirAndFlushInv
<1>6. CASE ~ saved
  <2>1. Stir(c, X, from, to)
    BY <1>6 DEF PickUp
  <2>2. Sound(N, disk, ground') /\ ground' \in SUBSET Items
    BY <1>1, <1>3
  <2> HIDE DEF X, from, to, G
  <2> QED
    BY <1>1, <1>4, <2>1, <2>2, StirInv
<1> QED
  BY <1>5, <1>6

\* A dropped token is out of every row before it is on the ground.
LEMMA DropItemInv ==
  ASSUME IInv, NEW c \in Chars, NEW x \in Items, DropItem(c, x)
  PROVE  IInv'
<1> DEFINE X == {x}
           from == "carried"
           to == "out"
           N == Moved(c, X, from, to)
           S == {c}
<1>1. /\ X \in SUBSET Items /\ from \in Places /\ to \in Places
      /\ ground' = ground \cup {x} /\ ground' \in SUBSET Items
      /\ mem \in Memories /\ N \in Memories /\ disk \in [Rows -> SUBSET Items]
      /\ ground \in SUBSET Items /\ Sound(mem, disk, ground)
      /\ x \in mem[c]["carried"] /\ "carried" \in Stores
  BY MovedOne, OutFacts DEF DropItem
<1>2. Online(c) /\ StirAndFlush(c, X, from, to) /\ UNCHANGED <<up, status, death, lying, body, tomb, left>>
  BY DEF DropItem
<1>3. /\ disk' \in [Rows -> SUBSET Items] /\ Rewrites(disk', S, N, disk)
      /\ \A d \in Chars \ S : N[d] = mem[d]
  <2> HIDE DEF X, from, to
  <2> QED
    BY <1>1, <1>2, StirWrites
<1>4. /\ \A d \in Chars, t \in Stores : d # c \/ t # "carried" => N[d][t] = mem[d][t]
      /\ N[c]["carried"] = mem[c]["carried"] \ {x}
      /\ MemOnce(N)
  BY TokenOut DEF Sound
<1>5. Exchanges(S, mem, N)
  <2>1. \A t \in Stores : \A y \in N[c][t] : y \in mem[c][t]
    BY <1>4
  <2> HIDE DEF N
  <2> QED
    BY <1>3, <2>1 DEF Exchanges, Held
<1> HIDE DEF N
<1>6. ASSUME NEW d \in Chars, NEW t \in Stores, x \in N[d][t]
      PROVE  FALSE
  <2>1. x \in mem[d][t] /\ (d # c \/ t # "carried")
    BY <1>4, <1>6
  <2> QED
    BY <1>1, <2>1 DEF Sound, MemOnce
<1>7. Sound(N, disk', ground)
  <2>1. S \in SUBSET Chars
    OBVIOUS
  <2> HIDE DEF S
  <2> QED
    BY <1>1, <1>3, <1>4, <1>5, <2>1, RewriteSound
<1>8. \A r \in Rows : x \notin disk'[r]
  <2>1. S \in SUBSET Chars /\ Held(x, S, mem) /\ ~ Held(x, S, N)
    BY <1>1, <1>6 DEF Held
  <2> HIDE DEF S
  <2> QED
    BY <1>1, <1>3, <2>1, Erased
<1>9. Sound(N, disk', ground')
  BY <1>1, <1>6, <1>7, <1>8 DEF Sound, GroundAlone
<1> USE DEF N
<1> HIDE DEF X, from, to
<1> QED
  BY <1>1, <1>2, <1>9, StirAndFlushInv

\* What leaves the world leaves the rest as it is.
LEMMA BagExpiresInv ==
  ASSUME IInv, NEW x \in Items, BagExpires(x)
  PROVE  IInv'
<1>0. TypeOK /\ Sound(mem, disk, ground) /\ CorpseAgrees /\ OneConnection /\ Flags /\ Down
  BY DEF IInv
<1>1. /\ ground' \in SUBSET ground
      /\ UNCHANGED <<up, status, mem, dirty, queue, death, lying, body, disk, tomb, ledger, left>>
  BY DEF BagExpires, database
<1>2. Sound(mem, disk, ground)'
  BY <1>0, <1>1 DEF Sound, GroundAlone
<1>3. TypeOK' /\ CorpseAgrees' /\ OneConnection' /\ Down'
  BY <1>0, <1>1 DEF TypeOK, CorpseAgrees, OneConnection, Down, Active
<1>4. Flags'
  BY <1>0, <1>1 DEF Flags, Covered, Active
<1> QED
  BY <1>2, <1>3, <1>4 DEF IInv

-----------------------------------------------------------------------------
(* Saves of who stays, corpses and trades *)

\* The connections S and a corpse are written together; the rows of the other
\* connections stay.
LEMMA WrittenInv ==
  ASSUME IInv, NEW S \in SUBSET {c \in Chars : Active(c)}, NEW flags \in SUBSET Stores,
         mem' \in Memories, disk' \in [Rows -> SUBSET Items],
         Sound(mem', disk', ground), Cleaned(S, flags),
         \A c \in Chars \ S : mem'[c] = mem[c],
         \A c \in S, s \in Stores : disk'[Row(c, s)] = mem'[c][s],
         \A c \in Chars, s \in Stores :
           (\A d \in S : AccountOf[d] # AccountOf[c]) => disk'[Row(c, s)] = disk[Row(c, s)],
         CorpseAgrees',
         ledger' \in [Accounts -> [Items -> Int]],
         lying' \in SUBSET CorpseIds, body' \in [CorpseIds -> SUBSET Items],
         tomb' \in [CorpseIds -> Chars \cup {None}],
         death' \in [Chars -> {"no", "dying", "owed"}],
         up, UNCHANGED <<up, status, ground, left>>
  PROVE  IInv'
<1>0. TypeOK /\ OneConnection /\ Flags
  BY DEF IInv
<1>1. TypeOK'
  <2>1. NoEvents \in [Items -> Int]
    BY DEF NoEvents
  <2>2. dirty' \in [Chars -> SUBSET Stores] /\ queue' \in [Chars -> [Items -> Int]]
    BY <1>0, <2>1 DEF TypeOK, Cleaned
  <2> QED
    BY <1>0, <2>2 DEF TypeOK, Memories
<1>2. Sound(mem, disk, ground)'
  OBVIOUS
<1>3. OneConnection' /\ Down'
  BY <1>0 DEF OneConnection, Down, Active
<1>4. \A c \in Chars : Active(c)' <=> Active(c)
  BY DEF Active
<1>5. Covered({c \in Chars : Active(c)}, mem, dirty, disk)'
  <2> SUFFICES ASSUME NEW c \in Chars, Active(c)', NEW s \in Stores, s \notin dirty'[c]
               PROVE  mem'[c][s] = disk'[Row(c, s)]
    BY DEF Covered
  <2>1. CASE c \in S
    BY <2>1
  <2>2. CASE c \notin S
    <3>1. \A d \in S : AccountOf[d] # AccountOf[c]
      BY <1>0, <1>4, <2>2 DEF OneConnection
    <3>2. mem[c][s] = disk[Row(c, s)]
      BY <1>0, <1>4, <2>2 DEF Flags, Covered, Cleaned
    <3> QED
      BY <2>2, <3>1, <3>2
  <2> QED
    BY <2>1, <2>2
<1>6. ASSUME NEW c \in Chars, ~ Active(c)'
      PROVE  mem'[c] = NoStores /\ dirty'[c] = {} /\ queue'[c] = NoEvents
  BY <1>0, <1>4, <1>6 DEF Flags, Cleaned
<1>7. Flags'
  BY <1>5, <1>6 DEF Flags
<1> QED
  BY <1>1, <1>2, <1>3, <1>7 DEF IInv

\* The connections S are flushed and stay.
LEMMA SavedInv ==
  ASSUME IInv, NEW S \in SUBSET {c \in Chars : Active(c)}, NEW flags \in SUBSET Stores,
         FlushBut(S, flags), up,
         death' \in [Chars -> {"no", "dying", "owed"}],
         UNCHANGED <<up, status, mem, ground, lying, body, tomb, left>>
  PROVE  IInv'
<1>0. TypeOK /\ CorpseAgrees
  BY DEF IInv
<1>1. disk' = Written(S, mem, dirty) /\ ledger' = Posted(S, queue) /\ Cleaned(S, flags)
  BY DEF FlushBut
<1>2. /\ disk' \in [Rows -> SUBSET Items]
      /\ Rewrites(disk', S, mem, disk)
      /\ Sound(mem, disk', ground)
      /\ \A k \in CorpseIds : disk'[CorpseRow(k)] = disk[CorpseRow(k)]
      /\ ledger' \in [Accounts -> [Items -> Int]]
  BY <1>1, FlushFacts
<1>3. RowByRow(disk', S, mem, disk)
  <2>1. S \in SUBSET Chars
    OBVIOUS
  <2> QED
    BY <1>2, <2>1, RewriteRows
<1>4. /\ \A c \in S, s \in Stores : disk'[Row(c, s)] = mem'[c][s]
      /\ \A c \in Chars, s \in Stores :
           (\A d \in S : AccountOf[d] # AccountOf[c]) => disk'[Row(c, s)] = disk[Row(c, s)]
  BY <1>3 DEF RowByRow
<1>5. CorpseAgrees'
  BY <1>0, <1>2 DEF CorpseAgrees
<1>6. /\ mem' \in Memories /\ Sound(mem', disk', ground)
      /\ \A c \in Chars \ S : mem'[c] = mem[c]
      /\ lying' \in SUBSET CorpseIds /\ body' \in [CorpseIds -> SUBSET Items]
      /\ tomb' \in [CorpseIds -> Chars \cup {None}]
  BY <1>0, <1>2 DEF TypeOK, Memories
<1> QED
  BY <1>1, <1>2, <1>4, <1>5, <1>6, WrittenInv

LEMMA CheckpointInv ==
  ASSUME IInv, NEW c \in Chars, Checkpoint(c)
  PROVE  IInv'
<1>1. {c} \in SUBSET {d \in Chars : Active(d)} /\ up
  BY DEF Checkpoint, Online, Active
<1>2. death' \in [Chars -> {"no", "dying", "owed"}] /\ FlushBut({c}, {})
  BY DEF IInv, TypeOK, Checkpoint, Flush
<1> QED
  BY <1>1, <1>2, SavedInv DEF Checkpoint

LEMMA TradeFailsInv ==
  ASSUME IInv, NEW a \in Chars, NEW b \in Chars, NEW reverted \in BOOLEAN,
         TradeFails(a, b, reverted)
  PROVE  IInv'
<1>1. {a} \in SUBSET {d \in Chars : Active(d)} /\ {a, b} \in SUBSET {d \in Chars : Active(d)} /\ up
  BY DEF TradeFails, Online, Active
<1>2. death' \in [Chars -> {"no", "dying", "owed"}] /\ {"carried"} \in SUBSET Stores
  BY DEF IInv, TypeOK, TradeFails, Stores
<1>3. CASE reverted
  BY <1>1, <1>2, <1>3, SavedInv DEF TradeFails
<1>4. CASE ~ reverted
  BY <1>1, <1>2, <1>4, SavedInv DEF TradeFails, Flush
<1> QED
  BY <1>3, <1>4

LEMMA LootFailsInv ==
  ASSUME IInv, NEW c \in Chars, NEW k \in CorpseIds, LootFails(c, k)
  PROVE  IInv'
<1>1. {c} \in SUBSET {d \in Chars : Active(d)} /\ up
  BY DEF LootFails, Online, Active
<1>2. death' \in [Chars -> {"no", "dying", "owed"}] /\ {"carried"} \in SUBSET Stores
  BY DEF IInv, TypeOK, LootFails, Stores
<1> QED
  BY <1>1, <1>2, SavedInv DEF LootFails

\* Nothing flushed is a flush of nobody.
LEMMA FlushNobody ==
  ASSUME TypeOK, UNCHANGED <<disk, ledger, dirty, queue>>
  PROVE  FlushBut({}, {})
BY NoFlush DEF FlushBut, Cleaned, TypeOK

LEMMA CorpseFailsInv ==
  ASSUME IInv, NEW c \in Chars, NEW flushed \in BOOLEAN, CorpseFails(c, flushed)
  PROVE  IInv'
<1>1. Active(c) /\ TypeOK /\ up
  BY DEF CorpseFails, Online, Active, IInv
<1>2. death' \in [Chars -> {"no", "dying", "owed"}]
  BY <1>1 DEF TypeOK, CorpseFails
<1>3. CASE flushed
  BY <1>1, <1>2, <1>3, SavedInv DEF CorpseFails, Flush
<1>4. CASE ~ flushed
  <2>1. FlushBut({}, {})
    BY <1>1, <1>4, FlushNobody DEF CorpseFails
  <2> QED
    BY <1>1, <1>2, <1>4, <2>1, SavedInv DEF CorpseFails
<1> QED
  BY <1>3, <1>4

LEMMA DieInv ==
  ASSUME IInv, NEW c \in Chars, Die(c)
  PROVE  IInv'
<1>1. death' \in [Chars -> {"no", "dying", "owed"}] /\ TypeOK /\ up
  BY DEF IInv, TypeOK, Die, Online
<1>2. FlushBut({}, {})
  BY <1>1, FlushNobody DEF Die, database
<1> QED
  BY <1>1, <1>2, SavedInv DEF Die, database

\* Tokens that are nowhere, put into the empty row of a corpse.
LEMMA PutRowSound ==
  ASSUME NEW M \in Memories, NEW D \in [Rows -> SUBSET Items], NEW E \in [Rows -> SUBSET Items],
         NEW G \in SUBSET Items, Sound(M, D, G),
         NEW k \in CorpseIds, NEW X \in SUBSET Items, Nowhere(X, M, D, G),
         E[CorpseRow(k)] = X,
         \A r \in Rows : r # CorpseRow(k) => E[r] = D[r]
  PROVE  Sound(M, E, G)
<1>1. DiskOnce(E)
  <2> SUFFICES ASSUME NEW r \in Rows, NEW q \in Rows, NEW x \in Items, x \in E[r], x \in E[q]
               PROVE  r = q
    BY DEF DiskOnce
  <2>1. CASE x \in X
    BY <2>1 DEF Nowhere
  <2>2. CASE x \notin X
    <3>1. x \in D[r] /\ x \in D[q]
      BY <2>2
    <3> QED
      BY <3>1 DEF Sound, DiskOnce
  <2> QED
    BY <2>1, <2>2
<1>2. MemOwn(M, E)
  <2> SUFFICES ASSUME NEW c \in Chars, NEW s \in Stores, NEW r \in Rows, NEW x \in Items,
                      x \in M[c][s], x \in E[r]
               PROVE  Mine(c, r)
    BY DEF MemOwn
  <2>1. x \notin X
    BY DEF Nowhere
  <2>2. x \in D[r]
    BY <2>1
  <2> QED
    BY <2>2 DEF Sound, MemOwn
<1>3. GroundAlone(G, M, E)
  <2>1. ASSUME NEW x \in G, NEW r \in Rows, x \in E[r]
        PROVE  FALSE
    <3>1. x \notin X
      BY DEF Nowhere
    <3>2. x \in D[r]
      BY <2>1, <3>1
    <3> QED
      BY <3>2 DEF Sound, GroundAlone
  <2> QED
    BY <2>1 DEF Sound, GroundAlone
<1> QED
  BY <1>1, <1>2, <1>3 DEF Sound

\* The bags and what is worn become the corpse, in memory and in the rows.
LEMMA MakeCorpseInv ==
  ASSUME IInv, NEW c \in Chars, NEW k \in CorpseIds, MakeCorpse(c, k)
  PROVE  IInv'
<1> DEFINE S == {c}
           all == mem[c]["carried"]
           N == [mem EXCEPT ![c]["carried"] = {}]
           W == Written(S, mem, dirty)
           E == [W EXCEPT ![Row(c, "carried")] = {}]
<1>0. /\ TypeOK /\ CorpseAgrees /\ Sound(mem, disk, ground)
      /\ mem \in Memories /\ disk \in [Rows -> SUBSET Items] /\ ground \in SUBSET Items
  BY DEF IInv, TypeOK, Memories
<1>1. /\ S \in SUBSET {d \in Chars : Active(d)} /\ S \in SUBSET Chars /\ up
      /\ mem' = N /\ disk' = [W EXCEPT ![Row(c, "carried")] = {}, ![CorpseRow(k)] = all]
      /\ tomb[k] = None /\ k \notin lying
  BY DEF MakeCorpse, Online, Active, CorpseRow
<1>2. /\ W \in [Rows -> SUBSET Items] /\ Rewrites(W, S, mem, disk)
      /\ Posted(S, queue) \in [Accounts -> [Items -> Int]]
  BY <1>1, FlushFacts
<1>3. /\ Row(c, "carried") \in Rows /\ Row(c, "carried")[1] = "carried" /\ CorpseRow(k) \in Rows
      /\ Row(c, "carried") # CorpseRow(k) /\ \A d \in Chars : ~ Mine(d, CorpseRow(k))
      /\ "carried" \in Stores
  BY RowFacts, CorpseRowFacts, OutFacts
<1>4. /\ N \in Memories /\ N[c]["carried"] = {}
      /\ \A s \in Stores : s # "carried" => N[c][s] = mem[c][s]
      /\ \A d \in Chars \ S : N[d] = mem[d]
      /\ all \in SUBSET Items
  BY <1>0, <1>3 DEF Memories
<1> HIDE DEF W
<1>5. /\ E \in [Rows -> SUBSET Items] /\ disk' \in [Rows -> SUBSET Items]
      /\ \A r \in Rows : r # CorpseRow(k) => disk'[r] = E[r]
      /\ disk'[CorpseRow(k)] = all
      /\ \A r \in Rows : r # Row(c, "carried") => E[r] = W[r]
      /\ E[Row(c, "carried")] = {}
  BY <1>1, <1>2, <1>3, <1>4
<1> HIDE DEF N, E, all
<1>6. Rewrites(E, S, N, disk)
  <2>1. ASSUME NEW r \in Rows, Mine(c, r)
        PROVE  E[r] = N[c][r[1]]
    <3>1. r = Row(c, r[1]) /\ r[1] \in Stores
      BY <2>1, MineFacts
    <3>2. CASE r[1] = "carried"
      BY <1>4, <1>5, <3>1, <3>2
    <3>3. CASE r[1] # "carried"
      <4>1. E[r] = W[r]
        BY <1>3, <1>5, <3>3
      <4>2. W[r] = mem[c][r[1]]
        BY <1>2, <2>1 DEF Rewrites
      <4> QED
        BY <1>4, <3>1, <3>3, <4>1, <4>2
    <3> QED
      BY <3>2, <3>3
  <2>2. ASSUME NEW r \in Rows, ~ Mine(c, r)
        PROVE  E[r] = disk[r]
    <3>1. r # Row(c, "carried")
      BY <1>3, <2>2 DEF Mine
    <3> QED
      BY <1>2, <1>5, <2>2, <3>1 DEF Rewrites
  <2> QED
    BY <2>1, <2>2 DEF Rewrites
<1>7. \A d \in Chars, s \in Stores : \A x \in N[d][s] : x \in mem[d][s]
  BY <1>4
<1>8. Sound(N, E, ground)
  <2>1. MemOnce(N)
    BY <1>0, <1>7 DEF Sound, MemOnce
  <2>2. Exchanges(S, mem, N)
    BY <1>4, <1>7 DEF Exchanges, Held
  <2> HIDE DEF S
  <2> QED
    BY <1>0, <1>1, <1>4, <1>5, <1>6, <2>1, <2>2, RewriteSound
<1>9. Nowhere(all, N, E, ground)
  <2>1. ASSUME NEW x \in Items, x \in all, NEW d \in Chars, NEW s \in Stores, x \in N[d][s]
        PROVE  FALSE
    <3>1. x \in mem[c]["carried"] /\ x \in mem[d][s]
      BY <1>7, <2>1 DEF all
    <3>2. d = c /\ s = "carried"
      BY <1>0, <1>3, <3>1 DEF Sound, MemOnce
    <3> QED
      BY <1>4, <2>1, <3>2
  <2>2. ASSUME NEW x \in Items, x \in all
        PROVE  \A r \in Rows : x \notin E[r]
    <3>1. Held(x, S, mem) /\ ~ Held(x, S, N)
      BY <1>3, <2>1, <2>2 DEF Held, all
    <3> HIDE DEF S
    <3> QED
      BY <1>0, <1>1, <1>4, <1>5, <1>6, <3>1, Erased
  <2>3. ASSUME NEW x \in all
        PROVE  x \notin ground
    BY <1>0, <1>3 DEF Sound, GroundAlone, all
  <2> QED
    BY <1>4, <2>1, <2>2, <2>3 DEF Nowhere
<1>10. Sound(N, disk', ground)
  BY <1>0, <1>4, <1>5, <1>8, <1>9, PutRowSound
<1>11. /\ \A l \in CorpseIds : l # k => disk'[CorpseRow(l)] = disk[CorpseRow(l)]
       /\ \A d \in S, s \in Stores : disk'[Row(d, s)] = N[d][s]
       /\ \A d \in Chars, s \in Stores :
            (\A b \in S : AccountOf[b] # AccountOf[d]) => disk'[Row(d, s)] = disk[Row(d, s)]
  <2>1. RowByRow(E, S, N, disk)
    <3>1. S \in SUBSET Chars
      OBVIOUS
    <3> HIDE DEF S
    <3> QED
      BY <1>6, <3>1, RewriteRows
  <2>2. \A l \in CorpseIds : l # k => CorpseRow(l) \in Rows /\ CorpseRow(l) # CorpseRow(k)
    BY CorpseRowFacts DEF CorpseRow
  <2>3. \A d \in Chars, s \in Stores : Row(d, s) \in Rows /\ Row(d, s) # CorpseRow(k)
    BY RowFacts
  <2> QED
    BY <1>5, <2>1, <2>2, <2>3 DEF RowByRow
<1>12. /\ ledger' \in [Accounts -> [Items -> Int]] /\ Cleaned(S, {})
       /\ lying' = lying \cup {k} /\ body' = [body EXCEPT ![k] = all]
       /\ tomb' = [tomb EXCEPT ![k] = c] /\ death' = [death EXCEPT ![c] = "no"]
       /\ UNCHANGED <<up, status, ground, left>>
  <2>1. \A a \in Accounts, x \in Items :
          Posted(S, queue)[a][x] - (IF x \in all THEN 1 ELSE 0) \in Int
    <3> SUFFICES ASSUME NEW a \in Accounts, NEW x \in Items
                 PROVE  Posted(S, queue)[a][x] - (IF x \in all THEN 1 ELSE 0) \in Int
      OBVIOUS
    <3>1. Posted(S, queue)[a][x] \in Int
      BY <1>2
    <3> QED
      BY <3>1
  <2> QED
    BY <1>2, <2>1, AccountOfType DEF MakeCorpse, all
<1>13. /\ lying' \in SUBSET CorpseIds /\ body' \in [CorpseIds -> SUBSET Items]
       /\ tomb' \in [CorpseIds -> Chars \cup {None}]
       /\ death' \in [Chars -> {"no", "dying", "owed"}]
  BY <1>0, <1>4, <1>12 DEF TypeOK
<1>14. CorpseAgrees'
  <2>1. /\ body'[k] = all /\ tomb'[k] # None
        /\ \A l \in CorpseIds : l # k => body'[l] = body[l] /\ tomb'[l] = tomb[l]
    BY <1>0, <1>12, NoneIsNobody DEF TypeOK
  <2> QED
    BY <1>0, <1>5, <1>11, <1>12, <2>1 DEF CorpseAgrees
<1>15. /\ mem' \in Memories /\ Sound(mem', disk', ground)
       /\ \A d \in Chars \ S : mem'[d] = mem[d]
       /\ \A d \in S, s \in Stores : disk'[Row(d, s)] = mem'[d][s]
  BY <1>1, <1>4, <1>10, <1>11
<1>16. up /\ S \in SUBSET {d \in Chars : Active(d)} /\ disk' \in [Rows -> SUBSET Items]
  BY <1>1, <1>5
<1> HIDE DEF S
<1> QED
  BY <1>11, <1>12, <1>13, <1>14, <1>15, <1>16, WrittenInv

\* What is taken from a corpse leaves its row when it enters the looter's.
LEMMA LootCorpseInv ==
  ASSUME IInv, NEW c \in Chars, NEW k \in CorpseIds, NEW X \in SUBSET Items, LootCorpse(c, k, X)
  PROVE  IInv'
<1> DEFINE S == {c}
           rest == body[k] \ X
           all == mem[c]["carried"] \cup X
           N == [mem EXCEPT ![c]["carried"] = @ \cup X]
           W == Written(S, mem, dirty)
           D == [disk EXCEPT ![CorpseRow(k)] = rest]
<1>0. /\ TypeOK /\ CorpseAgrees /\ Sound(mem, disk, ground)
      /\ mem \in Memories /\ disk \in [Rows -> SUBSET Items] /\ ground \in SUBSET Items
  BY DEF IInv, TypeOK, Memories
<1>1. /\ S \in SUBSET {d \in Chars : Active(d)} /\ S \in SUBSET Chars /\ up
      /\ mem' = N
      /\ disk' = [W EXCEPT ![Row(c, "carried")] = all, ![CorpseRow(k)] = rest]
      /\ tomb[k] = c /\ k \in lying /\ X \subseteq body[k]
  BY DEF LootCorpse, Online, Active, CorpseRow
<1>2. /\ W \in [Rows -> SUBSET Items] /\ Rewrites(W, S, mem, disk)
      /\ Posted(S, queue) \in [Accounts -> [Items -> Int]]
  BY <1>1, FlushFacts
<1>3. /\ Row(c, "carried") \in Rows /\ Row(c, "carried")[1] = "carried" /\ CorpseRow(k) \in Rows
      /\ Row(c, "carried") # CorpseRow(k) /\ \A d \in Chars : ~ Mine(d, CorpseRow(k))
      /\ "carried" \in Stores
  BY RowFacts, CorpseRowFacts, OutFacts
<1>4. /\ N \in Memories /\ N[c]["carried"] = mem[c]["carried"] \cup X
      /\ \A s \in Stores : s # "carried" => N[c][s] = mem[c][s]
      /\ \A d \in Chars \ S : N[d] = mem[d]
      /\ Puts(N, mem, c, "carried", X)
      /\ body[k] = disk[CorpseRow(k)] /\ rest \in SUBSET Items
      /\ N[c]["carried"] = all /\ all \in SUBSET Items
  BY <1>0, <1>1, <1>3 DEF Memories, Puts, CorpseAgrees, TypeOK
<1> HIDE DEF W, N, all, rest
<1>5. /\ D \in [Rows -> SUBSET Items] /\ disk' \in [Rows -> SUBSET Items]
      /\ D[CorpseRow(k)] = rest /\ \A r \in Rows : r # CorpseRow(k) => D[r] = disk[r]
      /\ \A r \in Rows : r # CorpseRow(k) /\ r # Row(c, "carried") => disk'[r] = W[r]
      /\ disk'[CorpseRow(k)] = rest
      /\ disk'[Row(c, "carried")] = N[c]["carried"]
  BY <1>0, <1>1, <1>2, <1>3, <1>4
<1> HIDE DEF D
<1>6. Rewrites(disk', S, N, D)
  <2>1. ASSUME NEW r \in Rows, Mine(c, r)
        PROVE  disk'[r] = N[c][r[1]]
    <3>1. r = Row(c, r[1]) /\ r[1] \in Stores /\ r # CorpseRow(k)
      BY <1>3, <2>1, MineFacts
    <3>2. CASE r[1] = "carried"
      BY <1>5, <3>1, <3>2
    <3>3. CASE r[1] # "carried"
      <4>1. disk'[r] = W[r]
        BY <1>3, <1>5, <3>1, <3>3
      <4>2. W[r] = mem[c][r[1]]
        BY <1>2, <2>1 DEF Rewrites
      <4> QED
        BY <1>4, <3>1, <3>3, <4>1, <4>2
    <3> QED
      BY <3>2, <3>3
  <2>2. ASSUME NEW r \in Rows, ~ Mine(c, r)
        PROVE  disk'[r] = D[r]
    <3>1. r # Row(c, "carried")
      BY <1>3, <2>2 DEF Mine
    <3>2. CASE r = CorpseRow(k)
      BY <1>5, <3>2
    <3>3. CASE r # CorpseRow(k)
      BY <1>2, <1>5, <2>2, <3>1, <3>3 DEF Rewrites
    <3> QED
      BY <3>2, <3>3
  <2> QED
    BY <2>1, <2>2 DEF Rewrites
<1>7. Sound(mem, D, ground)
  <2>1. /\ \A r \in Rows : D[r] \subseteq disk[r]
        /\ \A d \in Chars, s \in Stores : mem[d][s] \subseteq mem[d][s]
    BY <1>4, <1>5 DEF rest
  <2> QED
    BY <1>0, <1>5, <2>1, LessSound
<1>8. Nowhere(X, mem, D, ground)
  <2>1. ASSUME NEW x \in X
        PROVE  /\ x \in Items /\ x \in disk[CorpseRow(k)]
               /\ \A d \in Chars, s \in Stores : x \notin mem[d][s]
               /\ \A r \in Rows : x \notin D[r]
               /\ x \notin ground
    <3>1. x \in Items /\ x \in disk[CorpseRow(k)]
      BY <1>1, <1>4
    <3>2. \A d \in Chars, s \in Stores : x \notin mem[d][s]
      BY <1>0, <1>3, <3>1 DEF Sound, MemOwn
    <3>3. \A r \in Rows : x \notin D[r]
      BY <1>0, <1>3, <1>5, <3>1 DEF Sound, DiskOnce, rest
    <3>4. x \notin ground
      BY <1>0, <1>3, <3>1 DEF Sound, GroundAlone
    <3> QED
      BY <3>1, <3>2, <3>3, <3>4
  <2> QED
    BY <2>1 DEF Nowhere
<1>9. Sound(N, disk', ground)
  <2>1. Sound(N, D, ground)
    BY <1>0, <1>3, <1>4, <1>5, <1>7, <1>8, PutSound
  <2>2. Exchanges(S, N, N) /\ MemOnce(N)
    BY <2>1 DEF Exchanges, Held, Sound
  <2>3. S \in SUBSET Chars
    OBVIOUS
  <2> HIDE DEF S
  <2> QED
    BY <1>0, <1>4, <1>5, <1>6, <2>1, <2>2, <2>3, RewriteSound
<1>10. /\ \A l \in CorpseIds : l # k => disk'[CorpseRow(l)] = disk[CorpseRow(l)]
       /\ \A d \in S, s \in Stores : disk'[Row(d, s)] = N[d][s]
       /\ \A d \in Chars, s \in Stores :
            (\A b \in S : AccountOf[b] # AccountOf[d]) => disk'[Row(d, s)] = disk[Row(d, s)]
  <2>1. RowByRow(disk', S, N, D)
    <3>1. S \in SUBSET Chars
      OBVIOUS
    <3> HIDE DEF S
    <3> QED
      BY <1>6, <3>1, RewriteRows
  <2>2. \A l \in CorpseIds : l # k => CorpseRow(l) \in Rows /\ CorpseRow(l) # CorpseRow(k)
    BY CorpseRowFacts DEF CorpseRow
  <2>3. \A d \in Chars, s \in Stores : Row(d, s) \in Rows /\ Row(d, s) # CorpseRow(k)
    BY RowFacts
  <2> QED
    BY <1>5, <2>1, <2>2, <2>3 DEF RowByRow
<1>11. /\ ledger' \in [Accounts -> [Items -> Int]] /\ Cleaned(S, {})
       /\ body' = [body EXCEPT ![k] = rest]
       /\ IF rest = {} THEN lying' = lying \ {k} /\ tomb' = [tomb EXCEPT ![k] = None]
                       ELSE UNCHANGED <<lying, tomb>>
       /\ UNCHANGED <<up, status, death, ground, left>>
  <2>1. \A a \in Accounts, x \in Items :
          Posted(S, queue)[a][x] + (IF x \in X THEN 1 ELSE 0) \in Int
    <3> SUFFICES ASSUME NEW a \in Accounts, NEW x \in Items
                 PROVE  Posted(S, queue)[a][x] + (IF x \in X THEN 1 ELSE 0) \in Int
      OBVIOUS
    <3>1. Posted(S, queue)[a][x] \in Int
      BY <1>2
    <3> QED
      BY <3>1
  <2> QED
    BY <1>2, <2>1, AccountOfType DEF LootCorpse, rest
<1>12. /\ lying' \in SUBSET CorpseIds /\ body' \in [CorpseIds -> SUBSET Items]
       /\ tomb' \in [CorpseIds -> Chars \cup {None}]
       /\ death' \in [Chars -> {"no", "dying", "owed"}]
  BY <1>0, <1>4, <1>11 DEF TypeOK
<1>13. CorpseAgrees'
  <2>1. body'[k] = rest /\ \A l \in CorpseIds : l # k => body'[l] = body[l]
    BY <1>0, <1>11 DEF TypeOK
  <2>2. /\ \A l \in CorpseIds : l # k => (l \in lying' <=> l \in lying) /\ tomb'[l] = tomb[l]
        /\ k \in lying' <=> rest # {}
        /\ tomb'[k] = IF rest = {} THEN None ELSE c
    BY <1>0, <1>1, <1>11 DEF TypeOK
  <2>3. c # None
    BY NoneIsNobody
  <2> QED
    BY <1>0, <1>5, <1>10, <2>1, <2>2, <2>3 DEF CorpseAgrees
<1>14. /\ mem' \in Memories /\ Sound(mem', disk', ground)
       /\ \A d \in Chars \ S : mem'[d] = mem[d]
       /\ \A d \in S, s \in Stores : disk'[Row(d, s)] = mem'[d][s]
  BY <1>1, <1>4, <1>9, <1>10
<1>15. up /\ S \in SUBSET {d \in Chars : Active(d)} /\ disk' \in [Rows -> SUBSET Items]
  BY <1>1, <1>5
<1> HIDE DEF S
<1> QED
  BY <1>10, <1>11, <1>12, <1>13, <1>14, <1>15, WrittenInv

\* A corpse that decays; its row goes, or is no longer in play.
LEMMA DecayInv ==
  ASSUME IInv, NEW k \in CorpseIds, NEW deleted \in BOOLEAN, Decay(k, deleted)
  PROVE  IInv'
<1>0. /\ TypeOK /\ Sound(mem, disk, ground) /\ CorpseAgrees /\ OneConnection /\ Flags /\ Down
      /\ mem \in Memories /\ disk \in [Rows -> SUBSET Items] /\ ground \in SUBSET Items
  BY DEF IInv, TypeOK, Memories
<1>1. /\ lying' = lying \ {k} /\ body' = [body EXCEPT ![k] = {}]
      /\ UNCHANGED <<up, status, mem, dirty, queue, death, ground, ledger, left>>
      /\ disk' = IF deleted THEN [disk EXCEPT ![CorpseRow(k)] = {}] ELSE disk
      /\ tomb' = IF deleted THEN [tomb EXCEPT ![k] = None] ELSE tomb
  BY DEF Decay, CorpseRow
<1>2. /\ CorpseRow(k) \in Rows
      /\ \A l \in CorpseIds : l # k => CorpseRow(l) # CorpseRow(k) /\ CorpseRow(l) \in Rows
      /\ \A c \in Chars, s \in Stores : Row(c, s) # CorpseRow(k) /\ Row(c, s) \in Rows
  BY RowFacts, CorpseRowFacts DEF CorpseRow
<1>3. /\ disk' \in [Rows -> SUBSET Items]
      /\ \A r \in Rows : disk'[r] \subseteq disk[r]
      /\ \A r \in Rows : r # CorpseRow(k) => disk'[r] = disk[r]
      /\ deleted => disk'[CorpseRow(k)] = {}
      /\ ~ deleted => disk' = disk
  BY <1>0, <1>1, <1>2
<1>4. TypeOK'
  BY <1>0, <1>1, <1>3 DEF TypeOK
<1>5. Sound(mem, disk, ground)'
  <2>1. \A c \in Chars, s \in Stores : mem[c][s] \subseteq mem[c][s]
    OBVIOUS
  <2>2. Sound(mem, disk', ground)
    BY <1>0, <1>3, <2>1, LessSound
  <2> QED
    BY <1>1, <2>2
<1>6. CorpseAgrees'
  <2>1. /\ body'[k] = {} /\ k \notin lying'
        /\ \A l \in CorpseIds : l # k => body'[l] = body[l] /\ tomb'[l] = tomb[l] /\ (l \in lying' <=> l \in lying)
        /\ ~ deleted => tomb'[k] = tomb[k]
    BY <1>0, <1>1 DEF TypeOK
  <2> QED
    BY <1>0, <1>2, <1>3, <2>1 DEF CorpseAgrees
<1>7. OneConnection' /\ Down'
  BY <1>0, <1>1 DEF OneConnection, Down, Active
<1>8. Flags'
  BY <1>0, <1>1, <1>2, <1>3 DEF Flags, Covered, Active
<1> QED
  BY <1>4, <1>5, <1>6, <1>7, <1>8 DEF IInv

\* What two connections exchange is written in the rows of both at once.
LEMMA TradeInv ==
  ASSUME IInv, NEW a \in Chars, NEW b \in Chars, NEW given \in SUBSET Items,
         NEW got \in SUBSET Items, Trade(a, b, given, got)
  PROVE  IInv'
<1> DEFINE S == {a, b}
           forA == (mem[a]["carried"] \ given) \cup got
           forB == (mem[b]["carried"] \ got) \cup given
           N == [mem EXCEPT ![a]["carried"] = forA, ![b]["carried"] = forB]
           W == Written(S, mem, dirty)
           P == Posted(S, queue)
<1>0. /\ TypeOK /\ CorpseAgrees /\ Sound(mem, disk, ground)
      /\ mem \in Memories /\ disk \in [Rows -> SUBSET Items] /\ ground \in SUBSET Items
  BY DEF IInv, TypeOK, Memories
<1>1. /\ S \in SUBSET {d \in Chars : Active(d)} /\ S \in SUBSET Chars /\ up /\ a # b
      /\ mem' = N
      /\ disk' = [W EXCEPT ![Row(a, "carried")] = forA, ![Row(b, "carried")] = forB]
      /\ given \subseteq mem[a]["carried"] /\ got \subseteq mem[b]["carried"]
  BY DEF Trade, Online, Active
<1>2. W \in [Rows -> SUBSET Items] /\ Rewrites(W, S, mem, disk) /\ P \in [Accounts -> [Items -> Int]]
  BY <1>1, FlushFacts
<1>3. /\ Row(a, "carried") \in Rows /\ Row(b, "carried") \in Rows
      /\ Row(a, "carried") # Row(b, "carried")
      /\ Row(a, "carried")[1] = "carried" /\ Row(b, "carried")[1] = "carried"
      /\ "carried" \in Stores
  BY <1>1, RowFacts, OutFacts DEF Row
<1> HIDE DEF W, P
<1>4. /\ N \in Memories /\ N[a]["carried"] = forA /\ N[b]["carried"] = forB
      /\ \A c \in S, s \in Stores : s # "carried" => N[c][s] = mem[c][s]
      /\ \A d \in Chars \ S : N[d] = mem[d]
      /\ forA \in SUBSET Items /\ forB \in SUBSET Items
  BY <1>0, <1>1, <1>3 DEF Memories
<1> HIDE DEF N, forA, forB
<1>5. /\ disk' \in [Rows -> SUBSET Items]
      /\ \A r \in Rows : r # Row(a, "carried") /\ r # Row(b, "carried") => disk'[r] = W[r]
      /\ disk'[Row(a, "carried")] = forA /\ disk'[Row(b, "carried")] = forB
  BY <1>1, <1>2, <1>3, <1>4
<1>6. Rewrites(disk', S, N, disk)
  <2>1. ASSUME NEW c \in S, NEW r \in Rows, Mine(c, r)
        PROVE  disk'[r] = N[c][r[1]]
    <3>1. r = Row(c, r[1]) /\ r[1] \in Stores
      BY <1>1, <2>1, MineFacts
    <3>2. CASE r[1] = "carried"
      BY <1>4, <1>5, <3>1, <3>2
    <3>3. CASE r[1] # "carried"
      <4>1. disk'[r] = W[r]
        BY <1>3, <1>5, <3>3
      <4>2. W[r] = mem[c][r[1]]
        BY <1>2, <2>1 DEF Rewrites
      <4> QED
        BY <1>4, <3>1, <3>3, <4>1, <4>2
    <3> QED
      BY <3>2, <3>3
  <2>2. ASSUME NEW r \in Rows, \A c \in S : ~ Mine(c, r)
        PROVE  disk'[r] = disk[r]
    <3>1. r # Row(a, "carried") /\ r # Row(b, "carried")
      BY <1>3, <2>2 DEF Mine
    <3> QED
      BY <1>2, <1>5, <2>2, <3>1 DEF Rewrites
  <2> QED
    BY <2>1, <2>2 DEF Rewrites
\* Where a token of N was before.
<1>7. ASSUME NEW c \in Chars, NEW s \in Stores, NEW x \in Items, x \in N[c][s]
      PROVE  \/ x \notin given /\ x \notin got /\ x \in mem[c][s]
             \/ x \in given /\ c = b /\ s = "carried"
             \/ x \in got /\ c = a /\ s = "carried"
  <2>1. \A d \in Chars, t \in Stores : /\ x \in given /\ x \in mem[d][t] => d = a /\ t = "carried"
                                       /\ x \in got /\ x \in mem[d][t] => d = b /\ t = "carried"
    BY <1>0, <1>1, <1>3 DEF Sound, MemOnce
  <2>2. CASE c = a /\ s = "carried"
    <3>1. x \in got \/ (x \in mem[a]["carried"] /\ x \notin given)
      BY <1>4, <1>7, <2>2 DEF forA
    <3> QED
      BY <1>1, <1>3, <2>1, <2>2, <3>1
  <2>3. CASE c = b /\ s = "carried"
    <3>1. x \in given \/ (x \in mem[b]["carried"] /\ x \notin got)
      BY <1>4, <1>7, <2>3 DEF forB
    <3> QED
      BY <1>1, <1>3, <2>1, <2>3, <3>1
  <2>4. CASE c \notin S \/ s # "carried"
    <3>1. x \in mem[c][s]
      BY <1>4, <1>7, <2>4
    <3> QED
      BY <2>1, <2>4, <3>1
  <2> QED
    BY <2>2, <2>3, <2>4
<1>8. MemOnce(N)
  <2> SUFFICES ASSUME NEW c \in Chars, NEW d \in Chars, NEW s \in Stores, NEW t \in Stores,
                      NEW x \in Items, x \in N[c][s], x \in N[d][t]
               PROVE  c = d /\ s = t
    BY DEF MemOnce
  <2>1. CASE x \notin given /\ x \notin got
    <3>1. x \in mem[c][s] /\ x \in mem[d][t]
      BY <1>7, <2>1
    <3> QED
      BY <1>0, <3>1 DEF Sound, MemOnce
  <2>2. ~ (x \in given /\ x \in got)
    BY <1>0, <1>1, <1>3 DEF Sound, MemOnce
  <2>3. CASE x \in given \/ x \in got
    BY <1>7, <2>2, <2>3
  <2> QED
    BY <2>1, <2>3
<1>9. Exchanges(S, mem, N)
  <2>1. ASSUME NEW c \in S, NEW s \in Stores, NEW x \in N[c][s]
        PROVE  Held(x, S, mem)
    <3>1. x \in Items
      BY <1>1, <1>4 DEF Memories
    <3>2. \/ x \in mem[c][s] \/ x \in mem[a]["carried"] \/ x \in mem[b]["carried"]
      BY <1>1, <1>7, <2>1, <3>1
    <3> QED
      BY <1>3, <3>2 DEF Held
  <2> QED
    BY <1>4, <2>1 DEF Exchanges
<1>10. Sound(N, disk', ground)
  <2>1. S \in SUBSET Chars
    OBVIOUS
  <2> HIDE DEF S
  <2> QED
    BY <1>0, <1>4, <1>5, <1>6, <1>8, <1>9, <2>1, RewriteSound
<1>11. RowByRow(disk', S, N, disk)
  <2>1. S \in SUBSET Chars
    OBVIOUS
  <2> HIDE DEF S
  <2> QED
    BY <1>6, <2>1, RewriteRows
<1>12. /\ ledger' \in [Accounts -> [Items -> Int]] /\ Cleaned(S, {"carried"})
       /\ UNCHANGED <<up, status, death, ground, lying, body, tomb, left>>
  <2>1. ASSUME NEW c \in Chars, NEW out \in SUBSET Items, NEW in \in SUBSET Items
        PROVE  [x \in Items |-> P[AccountOf[c]][x] - (IF x \in out THEN 1 ELSE 0)
                                + (IF x \in in THEN 1 ELSE 0)] \in [Items -> Int]
    <3>1. ASSUME NEW x \in Items
          PROVE  P[AccountOf[c]][x] - (IF x \in out THEN 1 ELSE 0)
                   + (IF x \in in THEN 1 ELSE 0) \in Int
      <4>1. P[AccountOf[c]][x] \in Int
        BY <1>2, AccountOfType
      <4> QED
        BY <4>1
    <3> QED
      BY <3>1
  <2> DEFINE ofA == [x \in Items |-> P[AccountOf[a]][x] - (IF x \in given THEN 1 ELSE 0)
                                    + (IF x \in got THEN 1 ELSE 0)]
             ofB == [x \in Items |-> P[AccountOf[b]][x] - (IF x \in got THEN 1 ELSE 0)
                                    + (IF x \in given THEN 1 ELSE 0)]
  <2>2. ledger' = [P EXCEPT ![AccountOf[a]] = ofA, ![AccountOf[b]] = ofB]
    BY DEF Trade, P
  <2>3. ofA \in [Items -> Int] /\ ofB \in [Items -> Int]
    BY <2>1
  <2>4. ledger' \in [Accounts -> [Items -> Int]]
    <3> HIDE DEF ofA, ofB
    <3> QED
      BY <1>2, <2>2, <2>3, AccountOfType
  <2> QED
    BY <2>4 DEF Trade
<1>13. /\ lying' \in SUBSET CorpseIds /\ body' \in [CorpseIds -> SUBSET Items]
       /\ tomb' \in [CorpseIds -> Chars \cup {None}]
       /\ death' \in [Chars -> {"no", "dying", "owed"}]
  BY <1>0, <1>12 DEF TypeOK
<1>14. CorpseAgrees'
  BY <1>0, <1>11, <1>12 DEF CorpseAgrees, RowByRow
<1>15. /\ mem' \in Memories /\ Sound(mem', disk', ground)
       /\ \A d \in Chars \ S : mem'[d] = mem[d]
       /\ \A d \in S, s \in Stores : disk'[Row(d, s)] = mem'[d][s]
       /\ \A d \in Chars, s \in Stores :
            (\A e \in S : AccountOf[e] # AccountOf[d]) => disk'[Row(d, s)] = disk[Row(d, s)]
  BY <1>1, <1>4, <1>10, <1>11 DEF RowByRow
<1>16. /\ up /\ S \in SUBSET {d \in Chars : Active(d)} /\ disk' \in [Rows -> SUBSET Items]
       /\ {"carried"} \in SUBSET Stores
  BY <1>1, <1>5 DEF Stores
<1> HIDE DEF S
<1> QED
  BY <1>12, <1>13, <1>14, <1>15, <1>16, WrittenInv

-----------------------------------------------------------------------------
(* The theorems *)

LEMMA InitIInv == Init => IInv
<1> SUFFICES ASSUME Init
             PROVE  IInv
  OBVIOUS
<1>0. NoStores \in [Stores -> SUBSET Items] /\ NoEvents \in [Items -> Int]
  BY DEF NoStores, NoEvents
<1>1. TypeOK
  BY <1>0 DEF Init, TypeOK
<1>2. Sound(mem, disk, ground)
  BY DEF Init, Sound, DiskOnce, MemOnce, MemOwn, GroundAlone, NoStores
<1>3. CorpseAgrees
  BY CorpseRowFacts DEF Init, CorpseAgrees
<1>4. OneConnection /\ Flags /\ Down
  BY DEF Init, OneConnection, Flags, Covered, Down, Active
<1> QED
  BY <1>1, <1>2, <1>3, <1>4 DEF IInv

LEMMA NextIInv == IInv /\ [Next]_vars => IInv'
<1> SUFFICES ASSUME IInv, [Next]_vars
             PROVE  IInv'
  OBVIOUS
<1>1. CASE \E c \in Chars, away \in BOOLEAN : Login(c, away)
  BY <1>1, LoginInv
<1>2. CASE \E c \in Chars, stores, others \in BOOLEAN : Reap(c, stores, others)
  BY <1>2, ReapInv
<1>3. CASE \E c \in Chars, stores, others, due \in BOOLEAN : Retry(c, stores, others, due)
  BY <1>3, RetryInv
<1>4. CASE \E S \in SUBSET {c \in Chars : Active(c)} : Stop(S)
  BY <1>4, StopInv
<1>5. CASE \E loaded \in BOOLEAN : Boot(loaded)
  BY <1>5, BootInv
<1>6. CASE \E c \in Chars : Checkpoint(c) \/ Die(c)
  BY <1>6, CheckpointInv, DieInv
<1>7. CASE \E c \in Chars, flushed \in BOOLEAN : CorpseFails(c, flushed)
  BY <1>7, CorpseFailsInv
<1>8. CASE \E c \in Chars, x \in Items : Gain(c, x) \/ Lose(c, x) \/ DropItem(c, x)
  BY <1>8, GainInv, LoseInv, DropItemInv
<1>9. CASE \E c \in Chars, x \in Items, from, to \in Stores : Bank(c, x, from, to)
  BY <1>9, BankInv
<1>10. CASE \E c \in Chars, x \in Items, saved \in BOOLEAN : PickUp(c, x, saved)
  BY <1>10, PickUpInv
<1>11. CASE \E x \in Items : BagExpires(x)
  BY <1>11, BagExpiresInv
<1>12. CASE \E a, b \in Chars, given, got \in SUBSET Items : Trade(a, b, given, got)
  BY <1>12, TradeInv
<1>13. CASE \E a, b \in Chars, reverted \in BOOLEAN : TradeFails(a, b, reverted)
  BY <1>13, TradeFailsInv
<1>14. CASE \E c \in Chars, k \in CorpseIds : MakeCorpse(c, k) \/ LootFails(c, k)
  BY <1>14, MakeCorpseInv, LootFailsInv
<1>15. CASE \E c \in Chars, k \in CorpseIds, X \in SUBSET Items : LootCorpse(c, k, X)
  BY <1>15, LootCorpseInv
<1>16. CASE \E k \in CorpseIds, deleted \in BOOLEAN : Decay(k, deleted)
  BY <1>16, DecayInv
<1>17. CASE UNCHANGED vars
  BY <1>17 DEF vars, memory, database, IInv, TypeOK, Sound, DiskOnce, MemOnce, MemOwn,
     GroundAlone, CorpseAgrees, OneConnection, Flags, Covered, Down, Active
<1> QED
  BY <1>1, <1>2, <1>3, <1>4, <1>5, <1>6, <1>7, <1>8, <1>9, <1>10, <1>11, <1>12, <1>13,
     <1>14, <1>15, <1>16, <1>17 DEF Next

LEMMA InvariantHolds == Spec => []IInv
  BY InitIInv, NextIInv, PTL DEF Spec

\* Memory and the rows have the shapes the code gives them, and no row, no
\* store and no corpse holds anything but tokens.
THEOREM TypeCorrect == Spec => []TypeOK
<1>1. IInv => TypeOK
  BY DEF IInv
<1> QED
  BY <1>1, InvariantHolds, PTL

\* Nothing is saved twice: not after any flush, failed save, trade, corpse,
\* pick-up, pending save given up or crash (persistence.rs, session.rs).
THEOREM SavedOnce == Spec => []NoSavedCopy
<1>1. IInv => NoSavedCopy
  <2> SUFFICES ASSUME IInv, NEW r1 \in Rows, NEW r2 \in Rows, r1 # r2,
                      NEW x, x \in disk[r1], x \in disk[r2]
               PROVE  FALSE
    BY DEF NoSavedCopy
  <2>1. x \in Items
    BY DEF IInv, TypeOK
  <2> QED
    BY <2>1 DEF IInv, Sound, DiskOnce
<1> QED
  BY <1>1, InvariantHolds, PTL

\* Nothing is in play twice: not two connections, not a connection and the
\* ground, a corpse or a row that a login or a boot would load.
THEOREM InPlayOnce == Spec => []NoCopyInPlay
<1>1. IInv => NoCopyInPlay
  <2> SUFFICES ASSUME IInv
               PROVE  NoCopyInPlay
    OBVIOUS
  <2>0. TypeOK /\ Sound(mem, disk, ground) /\ CorpseAgrees /\ Flags
    BY DEF IInv
  <2>1. ASSUME NEW x, NEW k \in CorpseIds, x \in body[k]
        PROVE  k \in lying /\ x \in disk[CorpseRow(k)] /\ x \in Items /\ CorpseRow(k) \in Rows
    BY <2>0, <2>1, CorpseRowFacts DEF TypeOK, CorpseAgrees
  <2>2. ASSUME NEW x, NEW c \in Chars, NEW s \in Stores, x \in mem[c][s]
        PROVE  x \in Items /\ Active(c)
    BY <2>0, <2>2 DEF TypeOK, Flags, NoStores
  <2>3. ASSUME NEW c \in Chars, NEW d \in Chars, NEW s \in Stores, NEW t \in Stores,
               <<c, s>> # <<d, t>>, NEW x, x \in mem[c][s], x \in mem[d][t]
        PROVE  FALSE
    BY <2>0, <2>2, <2>3 DEF Sound, MemOnce
  <2>4. ASSUME NEW c \in Chars, NEW s \in Stores, NEW x, x \in mem[c][s]
        PROVE  /\ x \notin ground
               /\ \A k \in CorpseIds : x \notin body[k]
               /\ \A r \in Rows : ~ InUse(r) => x \notin disk[r]
    <3>1. x \in Items /\ Active(c)
      BY <2>2, <2>4
    <3>2. x \notin ground
      BY <2>0, <2>4 DEF Sound, GroundAlone
    <3>3. \A r \in Rows : x \in disk[r] => Mine(c, r)
      BY <2>0, <2>4, <3>1 DEF Sound, MemOwn
    <3>4. \A k \in CorpseIds : x \notin body[k]
      BY <2>1, <3>3, CorpseRowFacts
    <3>5. \A r \in Rows : Mine(c, r) => InUse(r)
      BY <3>1 DEF Mine, InUse
    <3> QED
      BY <3>2, <3>3, <3>4, <3>5
  <2>5. ASSUME NEW k \in CorpseIds, NEW x, x \in body[k]
        PROVE  /\ x \notin ground
               /\ \A l \in CorpseIds : l # k => x \notin body[l]
               /\ \A r \in Rows : ~ InUse(r) => x \notin disk[r]
    <3>1. k \in lying /\ x \in disk[CorpseRow(k)] /\ x \in Items /\ CorpseRow(k) \in Rows
      BY <2>1, <2>5
    <3>2. x \notin ground
      BY <2>0, <3>1 DEF Sound, GroundAlone
    <3>3. \A r \in Rows : x \in disk[r] => r = CorpseRow(k)
      BY <2>0, <3>1 DEF Sound, DiskOnce
    <3>4. \A l \in CorpseIds : l # k => x \notin body[l]
      BY <2>1, <3>3 DEF CorpseRow
    <3>5. InUse(CorpseRow(k))
      BY <3>1 DEF InUse, CorpseRow
    <3> QED
      BY <3>2, <3>3, <3>4, <3>5
  <2>6. ASSUME NEW r \in Rows, NEW x, x \in disk[r]
        PROVE  x \notin ground
    BY <2>0, <2>6 DEF Sound, GroundAlone
  <2>7. \A c, d \in Chars, s, t \in Stores : <<c, s>> # <<d, t>> => mem[c][s] \cap mem[d][t] = {}
    BY <2>3
  <2>8. \A c \in Chars, s \in Stores :
          /\ mem[c][s] \cap ground = {}
          /\ \A k \in CorpseIds : mem[c][s] \cap body[k] = {}
    BY <2>4
  <2>9. /\ \A k \in CorpseIds : body[k] \cap ground = {}
        /\ \A k, l \in CorpseIds : k # l => body[k] \cap body[l] = {}
        /\ \A r \in Rows : ~ InUse(r) =>
             /\ disk[r] \cap ground = {}
             /\ \A k \in CorpseIds : disk[r] \cap body[k] = {}
             /\ \A c \in Chars, s \in Stores : disk[r] \cap mem[c][s] = {}
    BY <2>4, <2>5, <2>6
  <2> QED
    BY <2>7, <2>8, <2>9 DEF NoCopyInPlay
<1> QED
  BY <1>1, InvariantHolds, PTL

\* A store that differs from its row is flagged, so the next save writes it.
THEOREM FlagsTell == Spec => []FlagsCover
<1>1. IInv => FlagsCover
  BY DEF IInv, Flags, Covered, FlagsCover
<1> QED
  BY <1>1, InvariantHolds, PTL

-----------------------------------------------------------------------------
(* The ledger: the books *)

\* Whether some store of h holds x, as a number.
Has(h, x) == IF \E s \in Stores : x \in h[s] THEN 1 ELSE 0

\* The rows of the connection c among the rows D, store by store.
Own(c, D) == [s \in Stores |-> D[Row(c, s)]]

\* The rows that are holdings of the account a.
Holdings(a) == {r \in CharRows \cup VaultRows : a = IF r \in VaultRows THEN r[2] ELSE AccountOf[r[2]]}

InRows(R, D, x) == IF \E r \in R : x \in D[r] THEN 1 ELSE 0

\* The ledger L of every account sums to what its rows D hold.
Booked(L, D) == \A a \in Accounts, x \in Items : L[a][x] = InRows(Holdings(a), D, x)

\* The queue of a connection is what memory has over its own rows.
Tally(c, h, q, D) == \A x \in Items : q[x] = Has(h, x) - Has(Own(c, D), x)

Tallied == \A c \in Chars : Active(c) => Tally(c, mem[c], queue[c], disk)

BInv == IInv /\ Booked(ledger, disk) /\ Tallied

LEMMA HoldingFacts ==
  /\ \A a : Holdings(a) \subseteq Rows
  /\ \A c \in Chars, s \in Stores : Row(c, s) \in Holdings(AccountOf[c])
  /\ \A c \in Chars : \A r : Mine(c, r) => r \in Holdings(AccountOf[c])
  /\ \A a, b, r : r \in Holdings(a) /\ r \in Holdings(b) => a = b
<1>1. \A a : Holdings(a) \subseteq Rows
  BY DEF Holdings, Rows
<1>2. \A a, b, r : r \in Holdings(a) /\ r \in Holdings(b) => a = b
  BY DEF Holdings
<1>3. ASSUME NEW c \in Chars, NEW s \in Stores
      PROVE  Row(c, s) \in Holdings(AccountOf[c])
  <2>1. CASE s = "vault"
    BY <2>1, AccountOfType DEF Row, Holdings, VaultRows
  <2>2. CASE s # "vault"
    BY <2>2 DEF Row, Holdings, VaultRows, CharRows, Stores
  <2> QED
    BY <2>1, <2>2
<1> QED
  BY <1>1, <1>2, <1>3 DEF Mine

\* What an account holds is in the rows of its connection or in the others.
LEMMA HoldingsSplit ==
  ASSUME NEW c \in Chars, NEW D, DiskOnce(D), NEW x \in Items
  PROVE  InRows(Holdings(AccountOf[c]), D, x)
           = Has(Own(c, D), x) + InRows({r \in Holdings(AccountOf[c]) : ~ Mine(c, r)}, D, x)
<1> DEFINE R == Holdings(AccountOf[c])
<1>1. R \subseteq Rows /\ (\A s \in Stores : Row(c, s) \in R) /\ \A r : Mine(c, r) => r \in R
  BY HoldingFacts
<1>2. \A s \in Stores : Own(c, D)[s] = D[Row(c, s)]
  BY DEF Own
<1> HIDE DEF R
<1>3. CASE \E s \in Stores : x \in D[Row(c, s)]
  <2>1. Has(Own(c, D), x) = 1
    BY <1>2, <1>3 DEF Has
  <2>2. InRows(R, D, x) = 1
    BY <1>1, <1>3 DEF InRows
  <2>3. PICK s \in Stores : x \in D[Row(c, s)]
    BY <1>3
  <2>4. \A r \in R : x \in D[r] => r = Row(c, s)
    BY <1>1, <2>3 DEF DiskOnce
  <2>5. InRows({r \in R : ~ Mine(c, r)}, D, x) = 0
    BY <2>4 DEF InRows, Mine
  <2> QED
    BY <2>1, <2>2, <2>5 DEF R
<1>4. CASE ~ \E s \in Stores : x \in D[Row(c, s)]
  <2>1. Has(Own(c, D), x) = 0
    BY <1>2, <1>4 DEF Has
  <2>2. (\E r \in R : x \in D[r]) <=> \E r \in {r \in R : ~ Mine(c, r)} : x \in D[r]
    BY <1>4 DEF Mine
  <2>3. InRows(R, D, x) = InRows({r \in R : ~ Mine(c, r)}, D, x)
    BY <2>2 DEF InRows
  <2>4. InRows(R, D, x) \in Int
    BY DEF InRows
  <2> QED
    BY <2>1, <2>3, <2>4 DEF R
<1> QED
  BY <1>3, <1>4

\* No account has two connections among S.
OneEach(S) == \A c, d \in S : AccountOf[c] = AccountOf[d] => c = d

\* Of the holdings only rows of the connections S differ in E from D.
OnlyRowsOf(S, D, E) ==
  \A a \in Accounts : \A r \in Holdings(a) : (\A c \in S : ~ Mine(c, r)) => E[r] = D[r]

\* The ledger K is L, but each connection of S has in it what its rows gained
\* or lost from D to E.
Credited(S, L, K, D, E) ==
  /\ \A a \in Accounts : \A x \in Items : (\A c \in S : AccountOf[c] # a) => K[a][x] = L[a][x]
  /\ \A c \in S : \A x \in Items :
       K[AccountOf[c]][x] = L[AccountOf[c]][x] + Has(Own(c, E), x) - Has(Own(c, D), x)

LEMMA BooksStep ==
  ASSUME NEW D, NEW E, DiskOnce(D), DiskOnce(E), NEW L, NEW K, Booked(L, D),
         NEW S \in SUBSET Chars, OneEach(S), OnlyRowsOf(S, D, E), Credited(S, L, K, D, E)
  PROVE  Booked(K, E)
<1> SUFFICES ASSUME NEW a \in Accounts, NEW x \in Items
             PROVE  K[a][x] = InRows(Holdings(a), E, x)
  BY DEF Booked
<1>1. L[a][x] = InRows(Holdings(a), D, x)
  BY DEF Booked
<1>2. \A c \in S : \A r \in Holdings(a) : Mine(c, r) => AccountOf[c] = a
  BY HoldingFacts
<1>3. CASE \A c \in S : AccountOf[c] # a
  <2>1. \A r \in Holdings(a) : E[r] = D[r]
    BY <1>2, <1>3 DEF OnlyRowsOf
  <2>2. InRows(Holdings(a), E, x) = InRows(Holdings(a), D, x)
    BY <2>1 DEF InRows
  <2> QED
    BY <1>1, <1>3, <2>2 DEF Credited
<1>4. ASSUME NEW c \in S, AccountOf[c] = a
      PROVE  K[a][x] = InRows(Holdings(a), E, x)
  <2> DEFINE R == {r \in Holdings(AccountOf[c]) : ~ Mine(c, r)}
  <2>1. \A r \in R : E[r] = D[r]
    <3> SUFFICES ASSUME NEW r \in R, NEW d \in S, Mine(d, r)
                 PROVE  FALSE
      BY <1>4 DEF OnlyRowsOf
    <3>1. AccountOf[d] = AccountOf[c]
      BY <1>2, <1>4
    <3> QED
      BY <3>1 DEF OneEach
  <2>2. InRows(R, E, x) = InRows(R, D, x) /\ InRows(R, D, x) \in Int
    <3> HIDE DEF R
    <3> QED
      BY <2>1 DEF InRows
  <2>3. /\ InRows(Holdings(AccountOf[c]), D, x) = Has(Own(c, D), x) + InRows(R, D, x)
        /\ InRows(Holdings(AccountOf[c]), E, x) = Has(Own(c, E), x) + InRows(R, E, x)
    BY HoldingsSplit
  <2>4. Has(Own(c, D), x) \in Int /\ Has(Own(c, E), x) \in Int
    BY DEF Has
  <2>5. K[a][x] = L[a][x] + Has(Own(c, E), x) - Has(Own(c, D), x)
    BY <1>4 DEF Credited
  <2> HIDE DEF R
  <2> QED
    BY <1>1, <1>4, <2>2, <2>3, <2>4, <2>5
<1> QED
  BY <1>3, <1>4

\* What Posted adds to the ledger.
LEMMA PostedAt ==
  ASSUME NEW S \in SUBSET Chars, OneEach(S), NEW q
  PROVE  /\ \A c \in S : \A x \in Items :
              Posted(S, q)[AccountOf[c]][x] = ledger[AccountOf[c]][x] + q[c][x]
         /\ \A a \in Accounts : \A x \in Items :
              (\A c \in S : AccountOf[c] # a) => Posted(S, q)[a][x] = ledger[a][x]
<1>1. ASSUME NEW c \in S, NEW x \in Items
      PROVE  Posted(S, q)[AccountOf[c]][x] = ledger[AccountOf[c]][x] + q[c][x]
  <2>1. (CHOOSE d \in S : AccountOf[d] = AccountOf[c]) = c
    BY DEF OneEach
  <2>2. AccountOf[c] \in Accounts
    BY AccountOfType
  <2> QED
    BY <2>1, <2>2 DEF Posted
<1> QED
  BY <1>1 DEF Posted

\* The stores N of the connections S are what their rows E hold.
Stored(S, N, E) == \A c \in S : \A x \in Items : Has(Own(c, E), x) = Has(N[c], x)

LEMMA RewrittenHoldings ==
  ASSUME NEW S \in SUBSET Chars, NEW N, NEW E, NEW D, Rewrites(E, S, N, D)
  PROVE  OnlyRowsOf(S, D, E) /\ Stored(S, N, E)
<1>1. \A a : Holdings(a) \subseteq Rows
  BY HoldingFacts
<1>2. \A c \in S, s \in Stores : E[Row(c, s)] = N[c][s]
  <2>1. RowByRow(E, S, N, D)
    BY RewriteRows
  <2> QED
    BY <2>1 DEF RowByRow
<1>3. \A c \in S, s \in Stores : Own(c, E)[s] = N[c][s]
  BY <1>2 DEF Own
<1> QED
  BY <1>1, <1>3 DEF Rewrites, Has, OnlyRowsOf, Stored

\* The connections S are in the world.
LEMMA SomeFacts ==
  ASSUME BInv, NEW S \in SUBSET {c \in Chars : Active(c)}
  PROVE  /\ S \in SUBSET Chars /\ OneEach(S)
         /\ DiskOnce(disk) /\ Booked(ledger, disk)
         /\ \A c \in S : Tally(c, mem[c], queue[c], disk)
         /\ \A a \in Accounts : \A x \in Items : ledger[a][x] \in Int
<1>1. S \in SUBSET Chars
  OBVIOUS
<1> QED
  BY <1>1 DEF BInv, IInv, Sound, OneConnection, OneEach, Tallied, TypeOK

\* Connections flushed with the stores N and the queues q keep the books.
LEMMA FlushBooked ==
  ASSUME BInv, NEW S \in SUBSET {c \in Chars : Active(c)}, NEW N, NEW q, NEW E,
         Rewrites(E, S, N, disk), DiskOnce(E),
         \A c \in S : Tally(c, N[c], q[c], disk)
  PROVE  Booked(Posted(S, q), E)
<1> DEFINE K == Posted(S, q)
<1>1. /\ S \in SUBSET Chars /\ OneEach(S) /\ DiskOnce(disk) /\ Booked(ledger, disk)
      /\ \A a \in Accounts : \A x \in Items : ledger[a][x] \in Int
  BY SomeFacts
<1>2. OnlyRowsOf(S, disk, E) /\ Stored(S, N, E)
  BY <1>1, RewrittenHoldings
<1>3. /\ \A c \in S : \A x \in Items : K[AccountOf[c]][x] = ledger[AccountOf[c]][x] + q[c][x]
      /\ \A a \in Accounts : \A x \in Items :
           (\A c \in S : AccountOf[c] # a) => K[a][x] = ledger[a][x]
  BY <1>1, PostedAt
<1> HIDE DEF K
<1>4. \A h, x : Has(h, x) \in Int
  BY DEF Has
<1>5. ASSUME NEW c \in S, NEW x \in Items
      PROVE  K[AccountOf[c]][x] = ledger[AccountOf[c]][x] + Has(Own(c, E), x) - Has(Own(c, disk), x)
  <2>1. q[c][x] = Has(Own(c, E), x) - Has(Own(c, disk), x)
    BY <1>2 DEF Tally, Stored
  <2>2. ledger[AccountOf[c]][x] \in Int
    BY <1>1, AccountOfType
  <2> QED
    BY <1>3, <1>4, <2>1, <2>2
<1>6. Credited(S, ledger, K, disk, E)
  BY <1>3, <1>5 DEF Credited
<1>7. Booked(K, E)
  BY <1>1, <1>2, <1>6, BooksStep
<1> QED
  BY <1>7 DEF K

\* Connections that are not among S keep their tally.
LEMMA OthersTallied ==
  ASSUME BInv, NEW S \in SUBSET {c \in Chars : Active(c)}, NEW E, OnlyRowsOf(S, disk, E),
         NEW c \in Chars, Active(c), c \notin S
  PROVE  Tally(c, mem[c], queue[c], E)
<1>1. Tally(c, mem[c], queue[c], disk)
  BY DEF BInv, Tallied
<1>2. \A d \in S : \A r : Mine(c, r) => ~ Mine(d, r)
  BY MineOnce DEF BInv, IInv, OneConnection
<1>3. ASSUME NEW s \in Stores
      PROVE  E[Row(c, s)] = disk[Row(c, s)]
  <2>1. Row(c, s) \in Holdings(AccountOf[c]) /\ AccountOf[c] \in Accounts
    BY HoldingFacts, AccountOfType
  <2>2. \A d \in S : ~ Mine(d, Row(c, s))
    BY <1>2 DEF Mine
  <2> QED
    BY <2>1, <2>2 DEF OnlyRowsOf
<1>4. Own(c, E) = Own(c, disk)
  BY <1>3 DEF Own
<1> QED
  BY <1>1, <1>4 DEF Tally

\* A connection just saved has an empty queue.
LEMMA SavedTally ==
  ASSUME NEW c, NEW h, NEW E, \A x \in Items : Has(Own(c, E), x) = Has(h, x)
  PROVE  Tally(c, h, NoEvents, E)
<1>1. \A x \in Items : Has(h, x) \in Int /\ NoEvents[x] = 0
  BY DEF Has, NoEvents
<1> QED
  BY <1>1 DEF Tally

\* The connections S are saved as they are; some may then be dropped.
LEMMA SavedBooks ==
  ASSUME BInv, IInv', NEW S \in SUBSET {c \in Chars : Active(c)},
         disk' = Written(S, mem, dirty), ledger' = Posted(S, queue),
         \A c \in Chars : Active(c)' =>
           /\ Active(c) /\ mem'[c] = mem[c]
           /\ queue'[c] = IF c \in S THEN NoEvents ELSE queue[c]
  PROVE  BInv'
<1> DEFINE E == Written(S, mem, dirty)
<1>1. Rewrites(E, S, mem, disk) /\ DiskOnce(E)
  BY FlushFacts DEF BInv, Sound
<1>2. /\ S \in SUBSET Chars /\ \A c \in S : Tally(c, mem[c], queue[c], disk)
  BY SomeFacts
<1>3. OnlyRowsOf(S, disk, E) /\ Stored(S, mem, E)
  <2> HIDE DEF E
  <2> QED
    BY <1>1, <1>2, RewrittenHoldings
<1>4. disk' = E
  OBVIOUS
<1> HIDE DEF E
<1>5. Booked(Posted(S, queue), E)
  BY <1>1, <1>2, FlushBooked
<1>6. ASSUME NEW c \in Chars, Active(c)'
      PROVE  Tally(c, mem'[c], queue'[c], E)
  <2>1. CASE c \in S
    <3>1. Tally(c, mem[c], NoEvents, E)
      BY <1>3, <2>1, SavedTally DEF Stored
    <3> QED
      BY <1>6, <2>1, <3>1
  <2>2. CASE c \notin S
    <3>1. Tally(c, mem[c], queue[c], E)
      BY <1>3, <1>6, <2>2, OthersTallied
    <3> QED
      BY <1>6, <2>2, <3>1
  <2> QED
    BY <2>1, <2>2
<1> QED
  BY <1>4, <1>5, <1>6 DEF BInv, Tallied

\* Nothing is saved, and connections may be dropped.
LEMMA UnsavedBooks ==
  ASSUME BInv, IInv', UNCHANGED <<disk, ledger>>,
         \A c \in Chars : Active(c)' => Active(c) /\ mem'[c] = mem[c] /\ queue'[c] = queue[c]
  PROVE  BInv'
<1>1. disk' = Written({}, mem, dirty) /\ ledger' = Posted({}, queue)
  BY NoFlush DEF BInv, IInv
<1> QED
  BY <1>1, SavedBooks

LEMMA ReapBooks ==
  ASSUME BInv, IInv', NEW c \in Chars, NEW stores \in BOOLEAN, NEW others \in BOOLEAN,
         Reap(c, stores, others)
  PROVE  BInv'
<1>1. /\ Active(c) /\ status \in [Chars -> {"offline", "online", "pending"}]
      /\ mem \in Memories
  BY DEF BInv, IInv, TypeOK, Reap, Online, Active, Memories
<1>2. \A d \in Chars : Active(d)' => Active(d) /\ mem'[d] = mem[d]
  BY <1>1 DEF Reap, Gone, Active, Memories
<1>3. CASE stores
  <2>1. Flush({c})
    BY <1>3 DEF Reap
  <2>2. /\ disk' = Written({c}, mem, dirty) /\ ledger' = Posted({c}, queue)
        /\ \A d \in Chars : queue'[d] = IF d \in {c} THEN NoEvents ELSE queue[d]
    BY <2>1 DEF Flush, FlushBut, Cleaned
  <2> QED
    BY <1>1, <1>2, <2>2, SavedBooks
<1>4. CASE ~ stores
  <2>1. UNCHANGED <<disk, ledger>> /\ queue' = queue
    BY <1>4 DEF Reap
  <2> QED
    BY <1>2, <2>1, UnsavedBooks
<1> QED
  BY <1>3, <1>4

LEMMA RetryBooks ==
  ASSUME BInv, IInv', NEW c \in Chars, NEW stores \in BOOLEAN, NEW others \in BOOLEAN,
         NEW due \in BOOLEAN, Retry(c, stores, others, due)
  PROVE  BInv'
<1>1. /\ Active(c) /\ status \in [Chars -> {"offline", "online", "pending"}]
      /\ mem \in Memories /\ queue \in [Chars -> [Items -> Int]]
  BY DEF BInv, IInv, TypeOK, Retry, Active, Memories
<1>2. \A d \in Chars : Active(d)' => Active(d) /\ mem'[d] = mem[d]
  BY <1>1 DEF Retry, Gone, Active, Memories
<1>3. CASE stores
  <2>1. Flush({c})
    BY <1>3 DEF Retry
  <2>2. /\ disk' = Written({c}, mem, dirty) /\ ledger' = Posted({c}, queue)
        /\ \A d \in Chars : queue'[d] = IF d \in {c} THEN NoEvents ELSE queue[d]
    BY <2>1 DEF Flush, FlushBut, Cleaned
  <2> QED
    BY <1>1, <1>2, <2>2, SavedBooks
<1>4. CASE ~ stores
  <2>1. UNCHANGED <<disk, ledger>>
    BY <1>4 DEF Retry
  <2>2. \A d \in Chars : Active(d)' => queue'[d] = queue[d]
    BY <1>1, <1>4 DEF Retry, Gone, Active
  <2> QED
    BY <1>2, <2>1, <2>2, UnsavedBooks
<1> QED
  BY <1>3, <1>4

LEMMA StopBooks ==
  ASSUME BInv, IInv', NEW S \in SUBSET {c \in Chars : Active(c)}, Stop(S)
  PROVE  BInv'
<1>1. disk' = Written(S, mem, dirty) /\ ledger' = Posted(S, queue)
  BY DEF Stop
<1>2. \A c \in Chars : ~ Active(c)'
  BY DEF Stop, Active
<1> QED
  BY <1>1, <1>2, SavedBooks

\* The connections S are flushed and stay; some flags may too.
LEMMA FlushBooks ==
  ASSUME BInv, IInv', NEW S \in SUBSET {c \in Chars : Active(c)}, NEW flags, FlushBut(S, flags),
         UNCHANGED <<status, mem>>
  PROVE  BInv'
<1>1. disk' = Written(S, mem, dirty) /\ ledger' = Posted(S, queue)
  BY DEF FlushBut
<1>2. \A c \in Chars : queue'[c] = IF c \in S THEN NoEvents ELSE queue[c]
  BY DEF FlushBut, Cleaned
<1>3. \A c \in Chars : Active(c)' => Active(c) /\ mem'[c] = mem[c]
  BY DEF Active
<1> QED
  BY <1>1, <1>2, <1>3, SavedBooks

LEMMA CheckpointBooks ==
  ASSUME BInv, IInv', NEW c \in Chars, Checkpoint(c)
  PROVE  BInv'
<1>1. {c} \in SUBSET {d \in Chars : Active(d)} /\ FlushBut({c}, {}) /\ UNCHANGED <<status, mem>>
  BY DEF Checkpoint, Online, Active, Flush
<1> QED
  BY <1>1, FlushBooks

LEMMA TradeFailsBooks ==
  ASSUME BInv, IInv', NEW a \in Chars, NEW b \in Chars, NEW reverted \in BOOLEAN,
         TradeFails(a, b, reverted)
  PROVE  BInv'
<1>1. /\ {a} \in SUBSET {d \in Chars : Active(d)} /\ {a, b} \in SUBSET {d \in Chars : Active(d)}
      /\ UNCHANGED <<status, mem>>
  BY DEF TradeFails, Online, Active
<1>2. FlushBut({a, b}, {"carried"}) \/ FlushBut({a}, {})
  BY DEF TradeFails, Flush
<1> QED
  BY <1>1, <1>2, FlushBooks

LEMMA LootFailsBooks ==
  ASSUME BInv, IInv', NEW c \in Chars, NEW k \in CorpseIds, LootFails(c, k)
  PROVE  BInv'
<1>1. /\ {c} \in SUBSET {d \in Chars : Active(d)} /\ FlushBut({c}, {"carried"})
      /\ UNCHANGED <<status, mem>>
  BY DEF LootFails, Online, Active
<1> QED
  BY <1>1, FlushBooks

LEMMA CorpseFailsBooks ==
  ASSUME BInv, IInv', NEW c \in Chars, NEW flushed \in BOOLEAN, CorpseFails(c, flushed)
  PROVE  BInv'
<1>1. {c} \in SUBSET {d \in Chars : Active(d)} /\ UNCHANGED <<status, mem>>
  BY DEF CorpseFails, Online, Active
<1>2. CASE flushed
  <2>1. FlushBut({c}, {})
    BY <1>2 DEF CorpseFails, Flush
  <2> QED
    BY <1>1, <2>1, FlushBooks
<1>3. CASE ~ flushed
  <2>1. UNCHANGED <<disk, ledger>> /\ queue' = queue
    BY <1>3 DEF CorpseFails
  <2>2. \A d \in Chars : Active(d)' => Active(d) /\ mem'[d] = mem[d] /\ queue'[d] = queue[d]
    BY <1>1, <2>1 DEF Active
  <2> QED
    BY <2>1, <2>2, UnsavedBooks
<1> QED
  BY <1>2, <1>3

\* Steps that leave the connections, the rows and the ledger alone.
LEMMA ElsewhereBooks ==
  ASSUME BInv, IInv', UNCHANGED <<disk, ledger, status, mem, queue>>
  PROVE  BInv'
<1>1. \A d \in Chars : Active(d)' => Active(d) /\ mem'[d] = mem[d] /\ queue'[d] = queue[d]
  BY DEF Active
<1> QED
  BY <1>1, UnsavedBooks

\* A corpse's rows are nobody's holding.
LEMMA DecayBooks ==
  ASSUME BInv, IInv', NEW k \in CorpseIds, NEW deleted \in BOOLEAN, Decay(k, deleted)
  PROVE  BInv'
<1>1. /\ disk \in [Rows -> SUBSET Items] /\ DiskOnce(disk) /\ DiskOnce(disk') /\ Booked(ledger, disk)
  BY DEF BInv, IInv, TypeOK, Sound
<1>2. \A a : \A r \in Holdings(a) : r # <<"corpse", k>>
  BY DEF Holdings, CharRows, VaultRows
<1>3. OnlyRowsOf({}, disk, disk')
  <2>1. \A r \in Rows : r # <<"corpse", k>> => disk'[r] = disk[r]
    BY <1>1 DEF Decay
  <2>2. \A a : Holdings(a) \subseteq Rows
    BY HoldingFacts
  <2> QED
    BY <1>2, <2>1, <2>2 DEF OnlyRowsOf
<1>4. OneEach({}) /\ Credited({}, ledger, ledger, disk, disk')
  BY DEF OneEach, Credited
<1>5. Booked(ledger, disk')
  BY <1>1, <1>3, <1>4, BooksStep
<1>6. ASSUME NEW c \in Chars, Active(c)
      PROVE  Tally(c, mem[c], queue[c], disk')
  BY <1>3, <1>6, OthersTallied
<1> QED
  BY <1>5, <1>6 DEF BInv, Tallied, Decay, Active

\* A token that comes from nowhere, or is where it is taken from, is queued as
\* what memory gains or loses.
LEMMA MovedTally ==
  ASSUME BInv, NEW c \in Chars, Active(c), NEW x \in Items, NEW from \in Places, NEW to \in Places,
         from # to,
         from = "out" => \A s \in Stores : x \notin mem[c][s],
         from # "out" => x \in mem[c][from]
  PROVE  Tally(c, Moved(c, {x}, from, to)[c], Queued(c, {x}, from, to)[c], disk)
<1> DEFINE h == mem[c]
           n == Moved(c, {x}, from, to)[c]
           q == Queued(c, {x}, from, to)[c]
<1>1. /\ mem \in Memories /\ queue \in [Chars -> [Items -> Int]] /\ MemOnce(mem)
      /\ Tally(c, h, queue[c], disk)
  BY DEF BInv, IInv, TypeOK, Memories, Sound, Tallied
<1>2. /\ \A s \in Stores : n[s] = IF s = from THEN h[s] \ {x} ELSE IF s = to THEN h[s] \cup {x} ELSE h[s]
      /\ \A y \in Items : q[y] = queue[c][y] + (IF y = x /\ from = "out" THEN 1 ELSE 0)
                                   - (IF y = x /\ to = "out" THEN 1 ELSE 0)
  BY <1>1 DEF Moved, Queued, Memories
<1>3. (from # "out" => from \in Stores) /\ (to # "out" => to \in Stores)
  BY DEF Places
<1>4. from \in Stores => \A s \in Stores : x \in h[s] => s = from
  <2>1. from \in Stores => from # "out"
    BY OutFacts
  <2> QED
    BY <1>1, <2>1 DEF MemOnce
<1> HIDE DEF n, q, h
<1>5. ASSUME NEW y \in Items, y # x
      PROVE  Has(n, y) = Has(h, y)
  <2>1. \A s \in Stores : y \in n[s] <=> y \in h[s]
    BY <1>2, <1>5
  <2> QED
    BY <2>1 DEF Has
<1>6. from = "out" => Has(h, x) = 0 /\ Has(n, x) = 1
  BY <1>2, <1>3, OutFacts DEF Has, h
<1>7. to = "out" => Has(h, x) = 1 /\ Has(n, x) = 0
  BY <1>2, <1>3, <1>4, OutFacts DEF Has, h
<1>8. from # "out" /\ to # "out" => Has(h, x) = 1 /\ Has(n, x) = 1
  BY <1>2, <1>3, <1>4 DEF Has, h
<1>9. \A y \in Items : queue[c][y] \in Int /\ Has(h, y) \in Int /\ Has(n, y) \in Int
                       /\ Has(Own(c, disk), y) \in Int
  BY <1>1 DEF Has
<1>10. ASSUME NEW y \in Items
       PROVE  q[y] = Has(n, y) - Has(Own(c, disk), y)
  <2>1. queue[c][y] = Has(h, y) - Has(Own(c, disk), y)
    BY <1>1 DEF Tally
  <2>2. CASE y # x
    <3>1. q[y] = queue[c][y]
      BY <1>2, <1>9, <2>2
    <3> QED
      BY <1>5, <2>1, <2>2, <3>1
  <2>3. CASE y = x
    <3>1. q[y] = queue[c][y] + (IF from = "out" THEN 1 ELSE 0) - (IF to = "out" THEN 1 ELSE 0)
      BY <1>2, <2>3
    <3> QED
      BY <1>6, <1>7, <1>8, <1>9, <2>1, <2>3, <3>1
  <2> QED
    BY <2>2, <2>3
<1> QED
  BY <1>10 DEF Tally, n, q

\* A move left for the checkpoint.
LEMMA StirBooks ==
  ASSUME BInv, IInv', NEW c \in Chars, Online(c), NEW x \in Items,
         NEW from \in Places, NEW to \in Places, from # to,
         from = "out" => \A s \in Stores : x \notin mem[c][s],
         from # "out" => x \in mem[c][from],
         Stir(c, {x}, from, to), UNCHANGED status
  PROVE  BInv'
<1>1. Active(c) /\ mem \in Memories /\ queue \in [Chars -> [Items -> Int]]
  BY DEF BInv, IInv, TypeOK, Memories, Online, Active
<1>2. Tally(c, mem'[c], queue'[c], disk)
  BY <1>1, MovedTally DEF Stir
<1>3. \A d \in Chars \ {c} : mem'[d] = mem[d] /\ queue'[d] = queue[d]
  BY <1>1 DEF Stir, Moved, Queued, Memories
<1>4. \A d \in Chars : Active(d)' => Tally(d, mem'[d], queue'[d], disk)
  BY <1>2, <1>3 DEF BInv, Tallied, Active
<1> QED
  BY <1>4 DEF BInv, Tallied, Stir

\* A move saved at once.
LEMMA StirAndFlushBooks ==
  ASSUME BInv, IInv', NEW c \in Chars, Online(c), NEW x \in Items,
         NEW from \in Places, NEW to \in Places, from # to,
         from = "out" => \A s \in Stores : x \notin mem[c][s],
         from # "out" => x \in mem[c][from],
         StirAndFlush(c, {x}, from, to), UNCHANGED status
  PROVE  BInv'
<1> DEFINE S == {c}
           N == Moved(c, {x}, from, to)
           q == Queued(c, {x}, from, to)
<1>1. /\ Active(c) /\ S \in SUBSET Chars /\ S \in SUBSET {d \in Chars : Active(d)}
      /\ {x} \in SUBSET Items /\ IInv /\ DiskOnce(disk')
  BY DEF BInv, IInv, Sound, Online, Active
<1>2. Rewrites(disk', S, N, disk) /\ \A d \in Chars \ S : N[d] = mem[d]
  BY <1>1, StirWrites
<1>3. Tally(c, N[c], q[c], disk)
  BY <1>1, MovedTally
<1>4. mem' = N /\ ledger' = Posted(S, q) /\ Cleaned(S, {})
  BY DEF StirAndFlush
<1> HIDE DEF S, N, q
<1>5. Booked(ledger', disk')
  <2>1. \A d \in S : Tally(d, N[d], q[d], disk)
    BY <1>3 DEF S
  <2> QED
    BY <1>1, <1>2, <1>4, <2>1, FlushBooked
<1>6. OnlyRowsOf(S, disk, disk') /\ Stored(S, N, disk')
  BY <1>1, <1>2, RewrittenHoldings
<1>7. ASSUME NEW d \in Chars, Active(d)
      PROVE  Tally(d, mem'[d], queue'[d], disk')
  <2>1. CASE d \in S
    <3>1. Tally(d, N[d], NoEvents, disk')
      BY <1>6, <2>1, SavedTally DEF Stored
    <3> QED
      BY <1>4, <2>1, <3>1 DEF Cleaned
  <2>2. CASE d \notin S
    <3>1. Tally(d, mem[d], queue[d], disk')
      BY <1>1, <1>6, <1>7, <2>2, OthersTallied
    <3> QED
      BY <1>2, <1>4, <2>2, <3>1 DEF Cleaned
  <2> QED
    BY <2>1, <2>2
<1> QED
  BY <1>5, <1>7 DEF BInv, Tallied, Active

LEMMA GainBooks ==
  ASSUME BInv, IInv', NEW c \in Chars, NEW x \in Items, Gain(c, x)
  PROVE  BInv'
<1>1. /\ Online(c) /\ Stir(c, {x}, "out", "carried") /\ UNCHANGED status
      /\ \A s \in Stores : x \notin mem[c][s]
  BY DEF Gain, Unborn
<1> QED
  BY <1>1, OutFacts, StirBooks

LEMMA LoseBooks ==
  ASSUME BInv, IInv', NEW c \in Chars, NEW x \in Items, Lose(c, x)
  PROVE  BInv'
<1>1. /\ Online(c) /\ Stir(c, {x}, "carried", "out") /\ UNCHANGED status
      /\ x \in mem[c]["carried"]
  BY DEF Lose
<1> QED
  BY <1>1, OutFacts, StirBooks

LEMMA BankBooks ==
  ASSUME BInv, IInv', NEW c \in Chars, NEW x \in Items, NEW from \in Stores, NEW to \in Stores,
         Bank(c, x, from, to)
  PROVE  BInv'
<1>1. /\ Online(c) /\ Stir(c, {x}, from, to) /\ UNCHANGED status
      /\ x \in mem[c][from] /\ from # to /\ from # "out"
  BY OutFacts DEF Bank
<1>2. from \in Places /\ to \in Places
  BY DEF Places
<1> QED
  BY <1>1, <1>2, StirBooks

LEMMA DropItemBooks ==
  ASSUME BInv, IInv', NEW c \in Chars, NEW x \in Items, DropItem(c, x)
  PROVE  BInv'
<1>1. /\ Online(c) /\ StirAndFlush(c, {x}, "carried", "out") /\ UNCHANGED status
      /\ x \in mem[c]["carried"]
  BY DEF DropItem
<1> QED
  BY <1>1, OutFacts, StirAndFlushBooks

LEMMA PickUpBooks ==
  ASSUME BInv, IInv', NEW c \in Chars, NEW x \in Items, NEW saved \in BOOLEAN, PickUp(c, x, saved)
  PROVE  BInv'
<1>1. /\ Online(c) /\ UNCHANGED status /\ x \in ground
      /\ (StirAndFlush(c, {x}, "out", "carried") \/ Stir(c, {x}, "out", "carried"))
  BY DEF PickUp
<1>2. \A s \in Stores : x \notin mem[c][s]
  BY <1>1 DEF BInv, IInv, Sound, GroundAlone
<1> QED
  BY <1>1, <1>2, OutFacts, StirBooks, StirAndFlushBooks

\* What a login takes out of the stores is queued as gone.
LEMMA LoginBooks ==
  ASSUME BInv, IInv', NEW c \in Chars, NEW away \in BOOLEAN, Login(c, away)
  PROVE  BInv'
<1> DEFINE loaded == [s \in Stores |-> disk[Row(c, s)]]
           gone == IF away THEN {x \in NoRent : \E s \in Stores : x \in loaded[s]} ELSE {}
<1>1. /\ status' = [status EXCEPT ![c] = "online"]
      /\ mem' = [mem EXCEPT ![c] = [s \in Stores |-> loaded[s] \ gone]]
      /\ queue' = [queue EXCEPT ![c] = [x \in Items |-> IF x \in gone THEN -1 ELSE 0]]
      /\ UNCHANGED database
  BY DEF Login
<1>2. /\ mem \in Memories /\ queue \in [Chars -> [Items -> Int]]
      /\ status \in [Chars -> {"offline", "online", "pending"}]
  BY DEF BInv, IInv, TypeOK, Memories
<1>3. loaded = Own(c, disk)
  BY DEF Own
<1>4. \A x \in gone : \E s \in Stores : x \in loaded[s]
  OBVIOUS
<1> HIDE DEF loaded, gone
<1>5. ASSUME NEW x \in Items
      PROVE  queue'[c][x] = Has(mem'[c], x) - Has(loaded, x)
  <2>1. \A s \in Stores : mem'[c][s] = loaded[s] \ gone
    BY <1>1, <1>2 DEF Memories
  <2>2. queue'[c][x] = IF x \in gone THEN -1 ELSE 0
    BY <1>1, <1>2
  <2>3. CASE x \in gone
    <3>1. Has(mem'[c], x) = 0 /\ Has(loaded, x) = 1
      BY <1>4, <2>1, <2>3 DEF Has
    <3> QED
      BY <2>2, <2>3, <3>1
  <2>4. CASE x \notin gone
    <3>1. Has(mem'[c], x) = Has(loaded, x) /\ Has(loaded, x) \in Int
      BY <2>1, <2>4 DEF Has
    <3> QED
      BY <2>2, <2>4, <3>1
  <2> QED
    BY <2>3, <2>4
<1>6. Tally(c, mem'[c], queue'[c], disk)
  BY <1>3, <1>5 DEF Tally
<1>7. \A d \in Chars \ {c} : mem'[d] = mem[d] /\ queue'[d] = queue[d] /\ (Active(d)' <=> Active(d))
  BY <1>1, <1>2 DEF Active, Memories
<1>8. \A d \in Chars : Active(d)' => Tally(d, mem'[d], queue'[d], disk)
  BY <1>6, <1>7 DEF BInv, Tallied
<1> QED
  BY <1>1, <1>8 DEF BInv, Tallied, database

\* A connection whose rows are written together with others' while it is
\* flushed: what it gains or loses beyond its memory goes into the ledger.
LEMMA WrittenBooks ==
  ASSUME BInv, IInv', NEW S \in SUBSET {c \in Chars : Active(c)},
         OnlyRowsOf(S, disk, disk'), Stored(S, mem', disk'), Cleaned(S, {}) \/ Cleaned(S, {"carried"}),
         \A c \in Chars \ S : mem'[c] = mem[c],
         \A a \in Accounts : \A x \in Items :
           (\A c \in S : AccountOf[c] # a) => ledger'[a][x] = Posted(S, queue)[a][x],
         \A c \in S : \A x \in Items :
           ledger'[AccountOf[c]][x]
             = Posted(S, queue)[AccountOf[c]][x] + Has(mem'[c], x) - Has(mem[c], x),
         UNCHANGED status
  PROVE  BInv'
<1>1. /\ S \in SUBSET Chars /\ OneEach(S) /\ DiskOnce(disk) /\ Booked(ledger, disk)
      /\ \A c \in S : Tally(c, mem[c], queue[c], disk)
      /\ \A a \in Accounts : \A x \in Items : ledger[a][x] \in Int
  BY SomeFacts
<1>2. DiskOnce(disk')
  BY DEF BInv, IInv, Sound
<1>3. /\ \A c \in S : \A x \in Items :
           Posted(S, queue)[AccountOf[c]][x] = ledger[AccountOf[c]][x] + queue[c][x]
      /\ \A a \in Accounts : \A x \in Items :
           (\A c \in S : AccountOf[c] # a) => Posted(S, queue)[a][x] = ledger[a][x]
  BY <1>1, PostedAt
<1>4. \A h, x : Has(h, x) \in Int
  BY DEF Has
<1>5. ASSUME NEW c \in S, NEW x \in Items
      PROVE  ledger'[AccountOf[c]][x]
               = ledger[AccountOf[c]][x] + Has(Own(c, disk'), x) - Has(Own(c, disk), x)
  <2>1. queue[c][x] = Has(mem[c], x) - Has(Own(c, disk), x) /\ Has(Own(c, disk'), x) = Has(mem'[c], x)
    BY <1>1 DEF Tally, Stored
  <2>2. ledger[AccountOf[c]][x] \in Int
    BY <1>1, AccountOfType
  <2>3. ledger'[AccountOf[c]][x] = ledger[AccountOf[c]][x] + queue[c][x] + Has(mem'[c], x) - Has(mem[c], x)
    BY <1>3
  <2> QED
    BY <1>4, <2>1, <2>2, <2>3
<1>6. Credited(S, ledger, ledger', disk, disk')
  BY <1>3, <1>5 DEF Credited
<1>7. Booked(ledger', disk')
  BY <1>1, <1>2, <1>6, BooksStep
<1>8. ASSUME NEW d \in Chars, Active(d)
      PROVE  Tally(d, mem'[d], queue'[d], disk')
  <2>1. CASE d \in S
    <3>1. Tally(d, mem'[d], NoEvents, disk')
      BY <2>1, SavedTally DEF Stored
    <3> QED
      BY <2>1, <3>1 DEF Cleaned
  <2>2. CASE d \notin S
    <3>1. Tally(d, mem[d], queue[d], disk')
      BY <1>8, <2>2, OthersTallied
    <3> QED
      BY <2>2, <3>1 DEF Cleaned
  <2> QED
    BY <2>1, <2>2
<1> QED
  BY <1>7, <1>8 DEF BInv, Tallied, Active

\* A flush whose rows of what is carried, and perhaps of a corpse, are then
\* written with the stores N.
LEMMA AfterFlush ==
  ASSUME BInv, NEW S \in SUBSET {c \in Chars : Active(c)}, NEW N, NEW E,
         \A r \in Rows : (\A c \in S : r # Row(c, "carried")) /\ (\A k \in CorpseIds : r # CorpseRow(k))
           => E[r] = Written(S, mem, dirty)[r],
         \A c \in S : E[Row(c, "carried")] = N[c]["carried"],
         \A c \in S : \A s \in Stores : s # "carried" => N[c][s] = mem[c][s]
  PROVE  OnlyRowsOf(S, disk, E) /\ Stored(S, N, E)
<1> DEFINE W == Written(S, mem, dirty)
<1>1. S \in SUBSET Chars
  OBVIOUS
<1>2. Rewrites(W, S, mem, disk)
  BY FlushFacts DEF BInv
<1> HIDE DEF W
<1>3. RowByRow(W, S, mem, disk)
  BY <1>1, <1>2, RewriteRows
<1>4. OnlyRowsOf(S, disk, E)
  <2> SUFFICES ASSUME NEW a \in Accounts, NEW r \in Holdings(a), \A c \in S : ~ Mine(c, r)
               PROVE  E[r] = disk[r]
    BY DEF OnlyRowsOf
  <2>1. r \in Rows /\ \A k \in CorpseIds : r # CorpseRow(k)
    BY HoldingFacts DEF Holdings, CharRows, VaultRows, CorpseRow
  <2>2. \A c \in S : r # Row(c, "carried")
    BY OutFacts DEF Mine
  <2>3. W[r] = disk[r]
    BY <1>2, <2>1 DEF Rewrites
  <2> QED
    BY <2>1, <2>2, <2>3 DEF W
<1>5. ASSUME NEW c \in S, NEW s \in Stores
      PROVE  E[Row(c, s)] = N[c][s]
  <2>1. CASE s = "carried"
    BY <2>1
  <2>2. CASE s # "carried"
    <3>1. Row(c, s) \in Rows /\ Row(c, s)[1] = s /\ \A k \in CorpseIds : Row(c, s) # CorpseRow(k)
      BY <1>1, RowFacts
    <3>2. \A d \in S : Row(d, "carried")[1] = "carried"
      BY <1>1, OutFacts, RowFacts
    <3>3. E[Row(c, s)] = W[Row(c, s)]
      BY <2>2, <3>1, <3>2 DEF W
    <3>4. W[Row(c, s)] = mem[c][s]
      BY <1>3 DEF RowByRow
    <3> QED
      BY <2>2, <3>3, <3>4
  <2> QED
    BY <2>1, <2>2
<1>6. \A c \in S, s \in Stores : Own(c, E)[s] = N[c][s]
  BY <1>5 DEF Own
<1>7. Stored(S, N, E)
  BY <1>6 DEF Has, Stored
<1> QED
  BY <1>4, <1>7

\* What is carried changes from h to n: tokens of X go, others of Y come.
Swaps(h, n, X, Y) ==
  /\ n["carried"] = (h["carried"] \ X) \cup Y
  /\ \A s \in Stores : s # "carried" => n[s] = h[s]
  /\ X \subseteq h["carried"]
  /\ \A x \in X : \A s \in Stores : s # "carried" => x \notin h[s]
  /\ \A y \in Y : \A s \in Stores : y \notin h[s]

Unit(x, X) == IF x \in X THEN 1 ELSE 0

LEMMA CarriedHas ==
  ASSUME NEW h, NEW n, NEW X, NEW Y, Swaps(h, n, X, Y), NEW x \in Items
  PROVE  Has(n, x) - Has(h, x) = Unit(x, Y) - Unit(x, X)
<1> USE DEF Swaps, Unit
<1>1. "carried" \in Stores
  BY OutFacts
<1>2. CASE x \in Y
  <2>1. Has(n, x) = 1 /\ Has(h, x) = 0 /\ x \notin X
    BY <1>1, <1>2 DEF Has
  <2> QED
    BY <1>2, <2>1
<1>3. CASE x \in X /\ x \notin Y
  <2>1. Has(n, x) = 0 /\ Has(h, x) = 1
    BY <1>1, <1>3 DEF Has
  <2> QED
    BY <1>3, <2>1
<1>4. CASE x \notin X /\ x \notin Y
  <2>1. \A s \in Stores : x \in n[s] <=> x \in h[s]
    BY <1>4
  <2>2. Has(n, x) = Has(h, x) /\ Has(h, x) \in Int
    BY <2>1 DEF Has
  <2> QED
    BY <1>4, <2>2
<1> QED
  BY <1>2, <1>3, <1>4

\* The row of what c carries is the only one of its kind.
LEMMA CarriedRow ==
  ASSUME NEW c \in Chars
  PROVE  /\ Row(c, "carried") \in Rows
         /\ \A k \in CorpseIds : Row(c, "carried") # CorpseRow(k)
         /\ \A d \in Chars : Row(d, "carried") = Row(c, "carried") => d = c
BY RowFacts, OutFacts DEF Row

LEMMA MakeCorpseBooks ==
  ASSUME BInv, IInv', NEW c \in Chars, NEW k \in CorpseIds, MakeCorpse(c, k)
  PROVE  BInv'
<1> DEFINE S == {c}
           all == mem[c]["carried"]
           a == AccountOf[c]
           W == Written(S, mem, dirty)
           P == Posted(S, queue)
           N == [mem EXCEPT ![c]["carried"] = {}]
           E == [W EXCEPT ![Row(c, "carried")] = {}, ![CorpseRow(k)] = all]
<1>1. /\ S \in SUBSET {d \in Chars : Active(d)} /\ UNCHANGED status
      /\ disk' = E /\ mem' = N /\ Cleaned(S, {})
      /\ ledger' = [P EXCEPT ![a] = [x \in Items |-> P[a][x] - (IF x \in all THEN 1 ELSE 0)]]
  BY DEF MakeCorpse, Online, Active, CorpseRow
<1>2. /\ mem \in Memories /\ MemOnce(mem) /\ W \in [Rows -> SUBSET Items]
      /\ P \in [Accounts -> [Items -> Int]]
  BY <1>1, FlushFacts DEF BInv, IInv, TypeOK, Memories, Sound
<1> HIDE DEF W, P
<1>3. /\ N[c]["carried"] = {} /\ (\A s \in Stores : s # "carried" => N[c][s] = mem[c][s])
      /\ \A d \in Chars \ S : N[d] = mem[d]
  BY <1>2, OutFacts DEF Memories
<1> HIDE DEF N
<1>4. /\ \A r \in Rows : (\A d \in S : r # Row(d, "carried")) /\ (\A j \in CorpseIds : r # CorpseRow(j))
           => E[r] = W[r]
      /\ \A d \in S : E[Row(d, "carried")] = N[d]["carried"]
  BY <1>2, <1>3, CarriedRow
<1> HIDE DEF E
<1>5. OnlyRowsOf(S, disk, E) /\ Stored(S, N, E)
  <2>1. \A d \in S : \A s \in Stores : s # "carried" => N[d][s] = mem[d][s]
    BY <1>3
  <2> HIDE DEF S
  <2> QED
    BY <1>1, <1>4, <2>1, AfterFlush DEF W
<1>6. ASSUME NEW x \in Items
      PROVE  Has(N[c], x) - Has(mem[c], x) = 0 - Unit(x, all)
  <2>1. \A y \in all : \A s \in Stores : s # "carried" => y \notin mem[c][s]
    BY <1>2, OutFacts DEF MemOnce, Memories
  <2>2. Swaps(mem[c], N[c], all, {})
    BY <1>3, <2>1 DEF Swaps
  <2>3. Has(N[c], x) - Has(mem[c], x) = Unit(x, {}) - Unit(x, all)
    BY <2>2, CarriedHas
  <2> QED
    BY <2>3 DEF Unit
<1>7. a \in Accounts /\ \A x \in Items : P[a][x] \in Int
  BY <1>2, AccountOfType
<1>8. ASSUME NEW d \in S, NEW x \in Items
      PROVE  ledger'[AccountOf[d]][x] = P[AccountOf[d]][x] + Has(N[d], x) - Has(mem[d], x)
  <2>1. ledger'[a][x] = P[a][x] - Unit(x, all)
    BY <1>1, <1>2, <1>7 DEF Unit
  <2>2. Has(N[c], x) \in Int /\ Has(mem[c], x) \in Int
    BY DEF Has
  <2>3. Unit(x, all) \in Int
    BY DEF Unit
  <2> HIDE DEF all
  <2> QED
    BY <1>6, <1>7, <2>1, <2>2, <2>3
<1>9. \A b \in Accounts : \A x \in Items : (\A d \in S : AccountOf[d] # b) => ledger'[b][x] = P[b][x]
  BY <1>1, <1>2
<1> HIDE DEF S
<1> QED
  BY <1>1, <1>3, <1>5, <1>8, <1>9, WrittenBooks DEF P

LEMMA LootCorpseBooks ==
  ASSUME BInv, IInv', NEW c \in Chars, NEW k \in CorpseIds, NEW X \in SUBSET Items,
         LootCorpse(c, k, X)
  PROVE  BInv'
<1> DEFINE S == {c}
           rest == body[k] \ X
           all == mem[c]["carried"] \cup X
           a == AccountOf[c]
           W == Written(S, mem, dirty)
           P == Posted(S, queue)
           N == [mem EXCEPT ![c]["carried"] = @ \cup X]
           E == [W EXCEPT ![Row(c, "carried")] = all, ![CorpseRow(k)] = rest]
<1>1. /\ S \in SUBSET {d \in Chars : Active(d)} /\ UNCHANGED status
      /\ disk' = E /\ mem' = N /\ Cleaned(S, {})
      /\ ledger' = [P EXCEPT ![a] = [x \in Items |-> P[a][x] + (IF x \in X THEN 1 ELSE 0)]]
      /\ k \in lying /\ X \subseteq body[k]
  BY DEF LootCorpse, Online, Active, CorpseRow
<1>2. /\ mem \in Memories /\ MemOnce(mem) /\ W \in [Rows -> SUBSET Items]
      /\ P \in [Accounts -> [Items -> Int]]
  BY <1>1, FlushFacts DEF BInv, IInv, TypeOK, Memories, Sound
<1> HIDE DEF W, P
<1>3. /\ N[c]["carried"] = all /\ (\A s \in Stores : s # "carried" => N[c][s] = mem[c][s])
      /\ \A d \in Chars \ S : N[d] = mem[d]
  BY <1>2, OutFacts DEF Memories
<1> HIDE DEF N
<1>4. /\ \A r \in Rows : (\A d \in S : r # Row(d, "carried")) /\ (\A j \in CorpseIds : r # CorpseRow(j))
           => E[r] = W[r]
      /\ \A d \in S : E[Row(d, "carried")] = N[d]["carried"]
  <2> HIDE DEF all, rest
  <2> QED
    BY <1>2, <1>3, CarriedRow
<1> HIDE DEF E
<1>5. OnlyRowsOf(S, disk, E) /\ Stored(S, N, E)
  <2>1. \A d \in S : \A s \in Stores : s # "carried" => N[d][s] = mem[d][s]
    BY <1>3
  <2> HIDE DEF S
  <2> QED
    BY <1>1, <1>4, <2>1, AfterFlush DEF W
<1>6. ASSUME NEW x \in Items
      PROVE  Has(N[c], x) - Has(mem[c], x) = Unit(x, X)
  <2>1. \A y \in X : \A s \in Stores : y \notin mem[c][s]
    <3>1. body[k] = disk[CorpseRow(k)]
      BY <1>1 DEF BInv, IInv, CorpseAgrees
    <3>2. CorpseRow(k) \in Rows /\ ~ Mine(c, CorpseRow(k))
      BY CorpseRowFacts
    <3> QED
      BY <1>1, <3>1, <3>2 DEF BInv, IInv, Sound, MemOwn
  <2>2. Swaps(mem[c], N[c], {}, X)
    BY <1>3, <2>1 DEF Swaps
  <2>3. Has(N[c], x) - Has(mem[c], x) = Unit(x, X) - Unit(x, {})
    BY <2>2, CarriedHas
  <2>4. Unit(x, {}) = 0 /\ Unit(x, X) \in Int
    BY DEF Unit
  <2> QED
    BY <2>3, <2>4
<1>7. a \in Accounts /\ \A x \in Items : P[a][x] \in Int
  BY <1>2, AccountOfType
<1>8. ASSUME NEW d \in S, NEW x \in Items
      PROVE  ledger'[AccountOf[d]][x] = P[AccountOf[d]][x] + Has(N[d], x) - Has(mem[d], x)
  <2>1. ledger'[a][x] = P[a][x] + Unit(x, X)
    BY <1>1, <1>2, <1>7 DEF Unit
  <2>2. Has(N[c], x) \in Int /\ Has(mem[c], x) \in Int /\ Unit(x, X) \in Int
    BY DEF Has, Unit
  <2> QED
    BY <1>6, <1>7, <2>1, <2>2
<1>9. \A b \in Accounts : \A x \in Items : (\A d \in S : AccountOf[d] # b) => ledger'[b][x] = P[b][x]
  BY <1>1, <1>2
<1> HIDE DEF S
<1> QED
  BY <1>1, <1>3, <1>5, <1>8, <1>9, WrittenBooks DEF P

LEMMA TradeBooks ==
  ASSUME BInv, IInv', NEW a \in Chars, NEW b \in Chars, NEW given \in SUBSET Items,
         NEW got \in SUBSET Items, Trade(a, b, given, got)
  PROVE  BInv'
<1> DEFINE S == {a, b}
           forA == (mem[a]["carried"] \ given) \cup got
           forB == (mem[b]["carried"] \ got) \cup given
           N == [mem EXCEPT ![a]["carried"] = forA, ![b]["carried"] = forB]
           W == Written(S, mem, dirty)
           P == Posted(S, queue)
           E == [W EXCEPT ![Row(a, "carried")] = forA, ![Row(b, "carried")] = forB]
           ofA == [x \in Items |-> P[AccountOf[a]][x] - Unit(x, given) + Unit(x, got)]
           ofB == [x \in Items |-> P[AccountOf[b]][x] - Unit(x, got) + Unit(x, given)]
<1>1. /\ S \in SUBSET {d \in Chars : Active(d)} /\ UNCHANGED status /\ a # b
      /\ disk' = E /\ mem' = N /\ Cleaned(S, {"carried"})
      /\ given \subseteq mem[a]["carried"] /\ got \subseteq mem[b]["carried"]
  BY DEF Trade, Online, Active
<1>2. ledger' = [P EXCEPT ![AccountOf[a]] = ofA, ![AccountOf[b]] = ofB]
  BY DEF Trade, Unit
<1>3. /\ mem \in Memories /\ MemOnce(mem) /\ W \in [Rows -> SUBSET Items]
      /\ P \in [Accounts -> [Items -> Int]] /\ AccountOf[a] # AccountOf[b]
      /\ AccountOf[a] \in Accounts /\ AccountOf[b] \in Accounts
  <2>1. Active(a) /\ Active(b)
    BY <1>1
  <2> QED
    BY <1>1, <2>1, FlushFacts, AccountOfType DEF BInv, IInv, TypeOK, Memories, Sound, OneConnection
<1> HIDE DEF W, P
<1>4. /\ N[a]["carried"] = forA /\ N[b]["carried"] = forB
      /\ \A d \in S : \A s \in Stores : s # "carried" => N[d][s] = mem[d][s]
      /\ \A d \in Chars \ S : N[d] = mem[d]
  BY <1>1, <1>3, OutFacts DEF Memories
<1> HIDE DEF N
<1>5. /\ \A r \in Rows : (\A d \in S : r # Row(d, "carried")) /\ (\A j \in CorpseIds : r # CorpseRow(j))
           => E[r] = W[r]
      /\ \A d \in S : E[Row(d, "carried")] = N[d]["carried"]
  <2> HIDE DEF forA, forB
  <2>1. /\ Row(a, "carried") \in Rows /\ Row(b, "carried") \in Rows
        /\ Row(a, "carried") # Row(b, "carried")
    BY <1>1, CarriedRow
  <2> QED
    BY <1>3, <1>4, <2>1
<1> HIDE DEF E
<1>6. OnlyRowsOf(S, disk, E) /\ Stored(S, N, E)
  <2> HIDE DEF S
  <2> QED
    BY <1>1, <1>4, <1>5, AfterFlush DEF W
<1>7. Swaps(mem[a], N[a], given, got) /\ Swaps(mem[b], N[b], got, given)
  <2>1. \A c, d \in Chars : \A X \in SUBSET mem[c]["carried"] : \A y \in X : \A s \in Stores :
          c # d \/ s # "carried" => y \notin mem[d][s]
    BY <1>3, OutFacts DEF MemOnce, Memories
  <2>2. /\ \A x \in given : \A s \in Stores : s # "carried" => x \notin mem[a][s]
        /\ \A x \in given : \A s \in Stores : x \notin mem[b][s]
        /\ \A x \in got : \A s \in Stores : s # "carried" => x \notin mem[b][s]
        /\ \A x \in got : \A s \in Stores : x \notin mem[a][s]
    BY <1>1, <2>1
  <2> QED
    BY <1>1, <1>4, <2>2 DEF Swaps
<1>8. ASSUME NEW x \in Items
      PROVE  /\ Has(N[a], x) - Has(mem[a], x) = Unit(x, got) - Unit(x, given)
             /\ Has(N[b], x) - Has(mem[b], x) = Unit(x, given) - Unit(x, got)
  BY <1>7, CarriedHas
<1>9. ASSUME NEW x \in Items
      PROVE  /\ Unit(x, given) \in Int /\ Unit(x, got) \in Int
             /\ \A d \in {a, b} : /\ Has(N[d], x) \in Int /\ Has(mem[d], x) \in Int
                                  /\ P[AccountOf[d]][x] \in Int
  <2>1. \A h : Has(h, x) \in Int
    BY DEF Has
  <2> QED
    BY <1>3, <2>1 DEF Unit
<1>10. ledger'[AccountOf[a]] = ofA /\ ledger'[AccountOf[b]] = ofB
       /\ \A e \in Accounts : e # AccountOf[a] /\ e # AccountOf[b] => ledger'[e] = P[e]
  <2> HIDE DEF ofA, ofB
  <2> QED
    BY <1>2, <1>3
<1>11. ASSUME NEW x \in Items
       PROVE  /\ ledger'[AccountOf[a]][x] = P[AccountOf[a]][x] + Has(N[a], x) - Has(mem[a], x)
              /\ ledger'[AccountOf[b]][x] = P[AccountOf[b]][x] + Has(N[b], x) - Has(mem[b], x)
  <2>1. /\ ledger'[AccountOf[a]][x] = P[AccountOf[a]][x] - Unit(x, given) + Unit(x, got)
        /\ ledger'[AccountOf[b]][x] = P[AccountOf[b]][x] - Unit(x, got) + Unit(x, given)
    BY <1>10
  <2> QED
    BY <1>8, <1>9, <2>1
<1>12. \A d \in S : \A x \in Items :
         ledger'[AccountOf[d]][x] = P[AccountOf[d]][x] + Has(N[d], x) - Has(mem[d], x)
  BY <1>11
<1>13. \A e \in Accounts : \A x \in Items : (\A d \in S : AccountOf[d] # e) => ledger'[e][x] = P[e][x]
  BY <1>10
<1> HIDE DEF S
<1> QED
  BY <1>1, <1>4, <1>6, <1>12, <1>13, WrittenBooks DEF P

LEMMA InitBInv == Init => BInv
<1> SUFFICES ASSUME Init
             PROVE  BInv
  OBVIOUS
<1>1. \A a : Holdings(a) \subseteq Rows
  BY HoldingFacts
<1>2. ASSUME NEW a \in Accounts, NEW x \in Items
      PROVE  ledger[a][x] = InRows(Holdings(a), disk, x)
  BY <1>1 DEF Init, InRows, NoEvents
<1> QED
  BY <1>2, InitIInv DEF Init, BInv, Booked, Tallied, Active

LEMMA NextBInv == BInv /\ [Next]_vars => BInv'
<1> SUFFICES ASSUME BInv, [Next]_vars
             PROVE  BInv'
  OBVIOUS
<1>0. IInv'
  BY NextIInv DEF BInv
<1>1. CASE \E c \in Chars, away \in BOOLEAN : Login(c, away)
  BY <1>0, <1>1, LoginBooks
<1>2. CASE \E c \in Chars, stores, others \in BOOLEAN : Reap(c, stores, others)
  BY <1>0, <1>2, ReapBooks
<1>3. CASE \E c \in Chars, stores, others, due \in BOOLEAN : Retry(c, stores, others, due)
  BY <1>0, <1>3, RetryBooks
<1>4. CASE \E S \in SUBSET {c \in Chars : Active(c)} : Stop(S)
  BY <1>0, <1>4, StopBooks
<1>5. CASE \E loaded \in BOOLEAN : Boot(loaded)
  <2>1. UNCHANGED <<disk, ledger, status, mem, queue>>
    BY <1>5 DEF Boot, database
  <2> QED
    BY <1>0, <2>1, ElsewhereBooks
<1>6. CASE \E c \in Chars : Checkpoint(c) \/ Die(c)
  <2>1. CASE \E c \in Chars : Checkpoint(c)
    BY <1>0, <2>1, CheckpointBooks
  <2>2. CASE \E c \in Chars : Die(c)
    <3>1. UNCHANGED <<disk, ledger, status, mem, queue>>
      BY <2>2 DEF Die, database
    <3> QED
      BY <1>0, <3>1, ElsewhereBooks
  <2> QED
    BY <1>6, <2>1, <2>2
<1>7. CASE \E c \in Chars, flushed \in BOOLEAN : CorpseFails(c, flushed)
  BY <1>0, <1>7, CorpseFailsBooks
<1>8. CASE \E c \in Chars, x \in Items : Gain(c, x) \/ Lose(c, x) \/ DropItem(c, x)
  BY <1>0, <1>8, GainBooks, LoseBooks, DropItemBooks
<1>9. CASE \E c \in Chars, x \in Items, from, to \in Stores : Bank(c, x, from, to)
  BY <1>0, <1>9, BankBooks
<1>10. CASE \E c \in Chars, x \in Items, saved \in BOOLEAN : PickUp(c, x, saved)
  BY <1>0, <1>10, PickUpBooks
<1>11. CASE \E x \in Items : BagExpires(x)
  <2>1. UNCHANGED <<disk, ledger, status, mem, queue>>
    BY <1>11 DEF BagExpires, database
  <2> QED
    BY <1>0, <2>1, ElsewhereBooks
<1>12. CASE \E a, b \in Chars, given, got \in SUBSET Items : Trade(a, b, given, got)
  BY <1>0, <1>12, TradeBooks
<1>13. CASE \E a, b \in Chars, reverted \in BOOLEAN : TradeFails(a, b, reverted)
  BY <1>0, <1>13, TradeFailsBooks
<1>14. CASE \E c \in Chars, k \in CorpseIds : MakeCorpse(c, k) \/ LootFails(c, k)
  BY <1>0, <1>14, MakeCorpseBooks, LootFailsBooks
<1>15. CASE \E c \in Chars, k \in CorpseIds, X \in SUBSET Items : LootCorpse(c, k, X)
  BY <1>0, <1>15, LootCorpseBooks
<1>16. CASE \E k \in CorpseIds, deleted \in BOOLEAN : Decay(k, deleted)
  BY <1>0, <1>16, DecayBooks
<1>17. CASE UNCHANGED vars
  BY <1>0, <1>17, ElsewhereBooks DEF vars, memory, database
<1> QED
  BY <1>1, <1>2, <1>3, <1>4, <1>5, <1>6, <1>7, <1>8, <1>9, <1>10, <1>11, <1>12, <1>13,
     <1>14, <1>15, <1>16, <1>17 DEF Next

LEMMA BooksHold == Spec => []BInv
  BY InitBInv, NextBInv, PTL DEF Spec

\* The ledger of every account sums to what its rows hold, for every token,
\* after every flush, trade, corpse, failed save, given-up save and crash
\* (ledger.rs:12): a row that is nobody's flush any more leaves no debt.
THEOREM LedgerIsRows == Spec => []BooksBalance
<1>1. BInv => BooksBalance
  <2> SUFFICES ASSUME BInv, NEW a \in Accounts, NEW x \in Items
               PROVE  ledger[a][x] = Cardinality({r \in CharRows \cup VaultRows :
                        x \in disk[r] /\ a = IF r \in VaultRows THEN r[2] ELSE AccountOf[r[2]]})
    BY DEF BooksBalance
  <2> DEFINE H == {r \in Holdings(a) : x \in disk[r]}
  <2>1. {r \in CharRows \cup VaultRows :
           x \in disk[r] /\ a = IF r \in VaultRows THEN r[2] ELSE AccountOf[r[2]]} = H
    BY DEF Holdings
  <2>2. \A q, r \in H : q = r
    <3>1. Holdings(a) \subseteq Rows
      BY HoldingFacts
    <3> QED
      BY <3>1 DEF BInv, IInv, Sound, DiskOnce
  <2>3. ledger[a][x] = InRows(Holdings(a), disk, x)
    BY DEF BInv, Booked
  <2>4. ledger[a][x] = IF H = {} THEN 0 ELSE 1
    BY <2>3 DEF InRows
  <2> HIDE DEF H
  <2>5. CASE H = {}
    <3>1. Cardinality(H) = 0
      BY <2>5, FS_EmptySet
    <3> QED
      BY <2>1, <2>4, <2>5, <3>1
  <2>6. CASE H # {}
    <3>1. PICK r : H = {r}
      BY <2>2, <2>6
    <3>2. Cardinality({r}) = 1
      BY FS_Singleton
    <3> QED
      BY <2>1, <2>4, <2>6, <3>1, <3>2
  <2> QED
    BY <2>5, <2>6
<1> QED
  BY <1>1, BooksHold, PTL

-----------------------------------------------------------------------------
(* What a player left with *)

\* The stores that are the character's own.
Personal == {"carried", "bank"}

\* What a player left with is in the pending save, and once they are gone in
\* their rows.
Remembered ==
  \A c \in Chars : left[c] # None =>
    /\ status[c] # "online"
    /\ status[c] = "pending" => mem[c] = left[c]
    /\ status[c] = "offline" => \A s \in Personal : disk[Row(c, s)] = left[c][s]

\* A flush leaves the personal rows of the others alone.
LEMMA PersonalRows ==
  ASSUME NEW c \in Chars, NEW s \in Personal
  PROVE  /\ s \in Stores /\ Row(c, s) \in Rows
         /\ \A k \in CorpseIds : Row(c, s) # CorpseRow(k)
         /\ \A d, t : Row(d, t) = Row(c, s) => d = c /\ t = s
         /\ \A S, m, d : c \notin S => Written(S, m, d)[Row(c, s)] = disk[Row(c, s)]
<1>1. s \in Stores
  BY DEF Personal, Stores
<1>2. Row(c, s) \in Rows /\ \A k \in CorpseIds : Row(c, s) # CorpseRow(k)
  BY <1>1, RowFacts
<1>3. \A d, t : Row(d, t) = Row(c, s) => d = c /\ t = s
  BY DEF Personal, Row
<1>4. ASSUME NEW S, NEW m, NEW d, c \notin S
      PROVE  Written(S, m, d)[Row(c, s)] = disk[Row(c, s)]
  <2>1. \A e \in S : ~ Writes(d, e, Row(c, s))
    BY <1>3, <1>4 DEF Writes
  <2> QED
    BY <1>2, <2>1 DEF Written
<1> QED
  BY <1>1, <1>2, <1>3, <1>4

\* Steps of connections in the world: nothing is remembered of them.
LEMMA OnlineRemembered ==
  ASSUME Remembered, UNCHANGED <<status, left>>, NEW S \in SUBSET {c \in Chars : status[c] = "online"},
         \A c \in Chars \ S : mem'[c] = mem[c] /\ \A s \in Personal : disk'[Row(c, s)] = disk[Row(c, s)]
  PROVE  Remembered'
BY DEF Remembered

\* A flush of connections in the world.
LEMMA FlushRemembered ==
  ASSUME Remembered, UNCHANGED <<status, left, mem>>, NEW S \in SUBSET {c \in Chars : status[c] = "online"},
         disk' = Written(S, mem, dirty)
  PROVE  Remembered'
BY PersonalRows, OnlineRemembered

\* What is stirred is one connection's, and perhaps saved.
LEMMA StirRemembered ==
  ASSUME IInv, Remembered, UNCHANGED <<status, left>>, NEW c \in Chars, Online(c), NEW X, NEW from, NEW to,
         Stir(c, X, from, to) \/ StirAndFlush(c, X, from, to)
  PROVE  Remembered'
<1> DEFINE S == {c}
<1>1. S \in SUBSET {d \in Chars : status[d] = "online"}
  BY DEF Online
<1>2. \A d \in Chars \ S : mem'[d] = mem[d]
  BY DEF IInv, TypeOK, Stir, StirAndFlush, Moved
<1>3. disk' = disk \/ \E m, d : disk' = Written(S, m, d)
  BY DEF Stir, StirAndFlush
<1> HIDE DEF S
<1>4. \A d \in Chars \ S : \A s \in Personal : disk'[Row(d, s)] = disk[Row(d, s)]
  BY <1>3, PersonalRows
<1> QED
  BY <1>1, <1>2, <1>4, OnlineRemembered

\* Rows written after the flush of connections in the world.
LEMMA WrittenRemembered ==
  ASSUME Remembered, UNCHANGED <<status, left>>, NEW S \in SUBSET {c \in Chars : status[c] = "online"},
         \A c \in Chars \ S : mem'[c] = mem[c],
         \A r \in Rows : (\A c \in S : r # Row(c, "carried")) /\ (\A k \in CorpseIds : r # CorpseRow(k))
           => disk'[r] = Written(S, mem, dirty)[r]
  PROVE  Remembered'
<1>1. ASSUME NEW c \in Chars \ S, NEW s \in Personal
      PROVE  disk'[Row(c, s)] = disk[Row(c, s)]
  <2>1. Row(c, s) \in Rows /\ (\A d \in S : Row(c, s) # Row(d, "carried"))
        /\ \A k \in CorpseIds : Row(c, s) # CorpseRow(k)
    BY PersonalRows
  <2>2. Written(S, mem, dirty)[Row(c, s)] = disk[Row(c, s)]
    BY PersonalRows
  <2> QED
    BY <2>1, <2>2
<1> QED
  BY <1>1, OnlineRemembered

LEMMA LoginRemembered ==
  ASSUME IInv, Remembered, NEW c \in Chars, NEW away \in BOOLEAN, Login(c, away)
  PROVE  Remembered'
<1>1. /\ left' = [left EXCEPT ![c] = None] /\ status' = [status EXCEPT ![c] = "online"]
      /\ (\A d \in Chars : d # c => mem'[d] = mem[d]) /\ disk' = disk
  BY DEF Login, database, IInv, TypeOK
<1>2. /\ left'[c] = None
      /\ \A d \in Chars : d # c => left'[d] = left[d] /\ status'[d] = status[d]
  BY <1>1 DEF IInv, TypeOK
<1> QED
  BY <1>1, <1>2 DEF Remembered

\* A connection c that is saved or is being saved, and may then be dropped.
LEMMA SaveRemembered ==
  ASSUME IInv, Remembered, NEW c \in Chars, Active(c),
         disk' = disk \/ disk' = Written({c}, mem, dirty),
         \A d \in Chars : d # c => left'[d] = left[d] /\ status'[d] = status[d] /\ mem'[d] = mem[d],
         left'[c] # None =>
           /\ left'[c] = mem[c] /\ status'[c] # "online"
           /\ status'[c] = "pending" => mem'[c] = mem[c]
           /\ status'[c] = "offline" =>
                disk' = Written({c}, mem, dirty) \/ \A s \in Personal : disk'[Row(c, s)] = mem[c][s]
  PROVE  Remembered'
<1>1. \A d \in Chars \ {c} : \A s \in Personal : disk'[Row(d, s)] = disk[Row(d, s)]
  BY PersonalRows
<1>2. ASSUME NEW s \in Personal
      PROVE  Written({c}, mem, dirty)[Row(c, s)] = mem[c][s]
  <2>1. Rewrites(Written({c}, mem, dirty), {c}, mem, disk)
    BY FlushFacts
  <2>2. RowByRow(Written({c}, mem, dirty), {c}, mem, disk)
    BY <2>1, RewriteRows
  <2> QED
    BY <2>2, PersonalRows DEF RowByRow
<1>3. ASSUME left'[c] # None
      PROVE  /\ status'[c] # "online"
             /\ status'[c] = "pending" => mem'[c] = left'[c]
             /\ status'[c] = "offline" => \A s \in Personal : disk'[Row(c, s)] = left'[c][s]
  BY <1>2, <1>3
<1> QED
  BY <1>1, <1>3 DEF Remembered

LEMMA ReapRemembered ==
  ASSUME IInv, Remembered, NEW c \in Chars, NEW stores \in BOOLEAN, NEW others \in BOOLEAN,
         Reap(c, stores, others)
  PROVE  Remembered'
<1>1. /\ Active(c) /\ status[c] = "online" /\ mem \in Memories
      /\ left \in [Chars -> [Stores -> SUBSET Items] \cup {None}]
      /\ status \in [Chars -> {"offline", "online", "pending"}]
  BY DEF Reap, Online, Active, IInv, TypeOK, Memories
<1>2. disk' = IF stores THEN Written({c}, mem, dirty) ELSE disk
  BY DEF Reap, Flush, FlushBut
<1>3. \A d \in Chars : d # c => left'[d] = left[d] /\ status'[d] = status[d] /\ mem'[d] = mem[d]
  BY <1>1 DEF Reap, Gone, Memories
<1>4. left'[c] # None => left'[c] = mem[c]
  BY <1>1 DEF Reap
<1>5. CASE stores /\ others
  <2>1. status'[c] = "offline"
    BY <1>1, <1>5 DEF Reap, Gone
  <2> QED
    BY <1>1, <1>2, <1>3, <1>4, <1>5, <2>1, SaveRemembered
<1>6. CASE ~ (stores /\ others)
  <2>1. status'[c] = "pending" /\ mem' = mem
    BY <1>1, <1>6 DEF Reap
  <2> QED
    BY <1>1, <1>2, <1>3, <1>4, <2>1, SaveRemembered
<1> QED
  BY <1>5, <1>6

LEMMA RetryRemembered ==
  ASSUME IInv, Remembered, NEW c \in Chars, NEW stores \in BOOLEAN, NEW others \in BOOLEAN,
         NEW due \in BOOLEAN, Retry(c, stores, others, due)
  PROVE  Remembered'
<1>1. /\ Active(c) /\ status[c] = "pending" /\ mem \in Memories
      /\ left \in [Chars -> [Stores -> SUBSET Items] \cup {None}]
      /\ status \in [Chars -> {"offline", "online", "pending"}]
  BY DEF Retry, Active, IInv, TypeOK, Memories
<1>2. disk' = IF stores THEN Written({c}, mem, dirty) ELSE disk
  BY DEF Retry, Flush, FlushBut
<1>3. \A d \in Chars : d # c => left'[d] = left[d] /\ status'[d] = status[d] /\ mem'[d] = mem[d]
  BY <1>1 DEF Retry, Gone, Memories
<1>4. left'[c] # None => left'[c] = mem[c] /\ (stores \/ ~ due)
  BY <1>1 DEF Retry, Remembered
<1>5. CASE (stores /\ others) \/ due
  <2>1. status'[c] = "offline"
    BY <1>1, <1>5 DEF Retry, Gone
  <2> QED
    BY <1>1, <1>2, <1>3, <1>4, <1>5, <2>1, SaveRemembered
<1>6. CASE ~ ((stores /\ others) \/ due)
  <2>1. status'[c] = "pending" /\ mem' = mem
    BY <1>1, <1>6 DEF Retry
  <2> QED
    BY <1>1, <1>2, <1>3, <1>4, <2>1, SaveRemembered
<1> QED
  BY <1>5, <1>6

LEMMA MovesRemembered ==
  ASSUME IInv, Remembered, NEW c \in Chars, NEW x \in Items, NEW from \in Stores, NEW to \in Stores,
         NEW saved \in BOOLEAN,
         Gain(c, x) \/ Lose(c, x) \/ DropItem(c, x) \/ Bank(c, x, from, to) \/ PickUp(c, x, saved)
  PROVE  Remembered'
<1>1. Online(c) /\ UNCHANGED <<status, left>>
  BY DEF Gain, Lose, DropItem, Bank, PickUp
<1>2. \E f, t : Stir(c, {x}, f, t) \/ StirAndFlush(c, {x}, f, t)
  BY DEF Gain, Lose, DropItem, Bank, PickUp
<1> QED
  BY <1>1, <1>2, StirRemembered

LEMMA TradeRemembered ==
  ASSUME IInv, Remembered, NEW a \in Chars, NEW b \in Chars, NEW given, NEW got,
         Trade(a, b, given, got)
  PROVE  Remembered'
<1> DEFINE S == {a, b}
           W == Written(S, mem, dirty)
<1>1. /\ S \in SUBSET {c \in Chars : status[c] = "online"} /\ UNCHANGED <<status, left>>
      /\ \A d \in Chars \ S : mem'[d] = mem[d]
  BY DEF Trade, Online, IInv, TypeOK
<1>2. PICK forA, forB : disk' = [W EXCEPT ![Row(a, "carried")] = forA, ![Row(b, "carried")] = forB]
  BY DEF Trade
<1>3. \A r \in Rows : r # Row(a, "carried") /\ r # Row(b, "carried") => disk'[r] = W[r]
  <2>1. W = [r \in Rows |-> W[r]]
    BY DEF Written
  <2> HIDE DEF W
  <2> QED
    BY <1>2, <2>1
<1> QED
  BY <1>1, <1>3, WrittenRemembered

\* The corpse's rows and what the owner carries are written after the flush.
LEMMA CorpseRemembered ==
  ASSUME IInv, Remembered, NEW c \in Chars, NEW k \in CorpseIds, NEW X,
         MakeCorpse(c, k) \/ LootCorpse(c, k, X)
  PROVE  Remembered'
<1> DEFINE S == {c}
           W == Written(S, mem, dirty)
<1>1. /\ S \in SUBSET {d \in Chars : status[d] = "online"} /\ UNCHANGED <<status, left>>
      /\ \A d \in Chars \ S : mem'[d] = mem[d]
  BY DEF MakeCorpse, LootCorpse, Online, IInv, TypeOK
<1>2. PICK all, rest : disk' = [W EXCEPT ![Row(c, "carried")] = all, ![CorpseRow(k)] = rest]
  BY DEF MakeCorpse, LootCorpse, CorpseRow
<1>3. \A r \in Rows : r # Row(c, "carried") /\ r # CorpseRow(k) => disk'[r] = W[r]
  <2>1. W = [r \in Rows |-> W[r]]
    BY DEF Written
  <2> HIDE DEF W
  <2> QED
    BY <1>2, <2>1
<1> QED
  BY <1>1, <1>3, WrittenRemembered

\* Only a corpse's rows go, or nothing.
LEMMA RestRemembered ==
  ASSUME IInv, Remembered,
         \/ \E loaded \in BOOLEAN : Boot(loaded)
         \/ \E c \in Chars : Die(c)
         \/ \E x \in Items : BagExpires(x)
         \/ \E k \in CorpseIds, deleted \in BOOLEAN : Decay(k, deleted)
         \/ \E c \in Chars : CorpseFails(c, FALSE)
         \/ UNCHANGED vars
  PROVE  Remembered'
<1>1. UNCHANGED <<status, left, mem>>
  BY DEF Boot, Die, BagExpires, Decay, CorpseFails, vars, memory
<1>2. disk' = disk \/ \E k \in CorpseIds : disk' = [disk EXCEPT ![CorpseRow(k)] = {}]
  BY DEF Boot, Die, BagExpires, Decay, CorpseFails, vars, database, CorpseRow
<1>3. disk \in [Rows -> SUBSET Items]
  BY DEF IInv, TypeOK
<1>4. ASSUME NEW c \in Chars, NEW s \in Personal
      PROVE  disk'[Row(c, s)] = disk[Row(c, s)]
  <2>1. Row(c, s) \in Rows /\ \A k \in CorpseIds : Row(c, s) # CorpseRow(k)
    BY PersonalRows
  <2> QED
    BY <1>2, <1>3, <2>1
<1> QED
  BY <1>1, <1>4 DEF Remembered

LEMMA FlushesRemembered ==
  ASSUME IInv, Remembered,
         \/ \E c \in Chars : Checkpoint(c) \/ CorpseFails(c, TRUE)
         \/ \E c \in Chars, k \in CorpseIds : LootFails(c, k)
         \/ \E a, b \in Chars, reverted \in BOOLEAN : TradeFails(a, b, reverted)
  PROVE  Remembered'
<1>1. UNCHANGED <<status, left, mem>>
  BY DEF Checkpoint, CorpseFails, LootFails, TradeFails
<1>2. \E S \in SUBSET {c \in Chars : status[c] = "online"} : disk' = Written(S, mem, dirty)
  <2>1. CASE \E c \in Chars : \/ Checkpoint(c) \/ CorpseFails(c, TRUE)
                              \/ \E k \in CorpseIds : LootFails(c, k)
    <3>1. PICK c \in Chars : \/ Checkpoint(c) \/ CorpseFails(c, TRUE)
                             \/ \E k \in CorpseIds : LootFails(c, k)
      BY <2>1
    <3>2. {c} \in SUBSET {d \in Chars : status[d] = "online"} /\ disk' = Written({c}, mem, dirty)
      BY <3>1 DEF Checkpoint, CorpseFails, LootFails, Online, Flush, FlushBut
    <3> QED
      BY <3>2
  <2>2. CASE \E a, b \in Chars, reverted \in BOOLEAN : TradeFails(a, b, reverted)
    <3>1. PICK a \in Chars, b \in Chars, reverted \in BOOLEAN : TradeFails(a, b, reverted)
      BY <2>2
    <3>2. /\ {a} \in SUBSET {d \in Chars : status[d] = "online"}
          /\ {a, b} \in SUBSET {d \in Chars : status[d] = "online"}
          /\ disk' = Written({a}, mem, dirty) \/ disk' = Written({a, b}, mem, dirty)
      BY <3>1 DEF TradeFails, Online, Flush, FlushBut
    <3> QED
      BY <3>2
  <2> QED
    BY <2>1, <2>2
<1> QED
  BY <1>1, <1>2, FlushRemembered

LEMMA NextRemembered == IInv /\ Remembered /\ [Next]_vars => Remembered'
<1> SUFFICES ASSUME IInv, Remembered, [Next]_vars
             PROVE  Remembered'
  OBVIOUS
<1>1. CASE \E c \in Chars, away \in BOOLEAN : Login(c, away)
  BY <1>1, LoginRemembered
<1>2. CASE \E c \in Chars, stores, others \in BOOLEAN : Reap(c, stores, others)
  BY <1>2, ReapRemembered
<1>3. CASE \E c \in Chars, stores, others, due \in BOOLEAN : Retry(c, stores, others, due)
  BY <1>3, RetryRemembered
<1>4. CASE \E S \in SUBSET {c \in Chars : Active(c)} : Stop(S)
  BY <1>4 DEF Stop, Remembered
<1>5. CASE (\E loaded \in BOOLEAN : Boot(loaded)) \/ UNCHANGED vars
  BY <1>5, RestRemembered
<1>6. CASE \E c \in Chars : Checkpoint(c) \/ Die(c)
  BY <1>6, FlushesRemembered, RestRemembered
<1>7. CASE \E c \in Chars, flushed \in BOOLEAN : CorpseFails(c, flushed)
  BY <1>7, FlushesRemembered, RestRemembered
<1>8. CASE \E c \in Chars, x \in Items : Gain(c, x) \/ Lose(c, x) \/ DropItem(c, x)
  <2>1. "carried" \in Stores /\ TRUE \in BOOLEAN
    BY OutFacts
  <2> QED
    BY <1>8, <2>1, MovesRemembered
<1>9. CASE \E c \in Chars, x \in Items, from, to \in Stores : Bank(c, x, from, to)
  BY <1>9, MovesRemembered
<1>10. CASE \E c \in Chars, x \in Items, saved \in BOOLEAN : PickUp(c, x, saved)
  <2>1. "carried" \in Stores
    BY OutFacts
  <2> QED
    BY <1>10, <2>1, MovesRemembered
<1>11. CASE \E x \in Items : BagExpires(x)
  BY <1>11, RestRemembered
<1>12. CASE \E a, b \in Chars, given, got \in SUBSET Items : Trade(a, b, given, got)
  BY <1>12, TradeRemembered
<1>13. CASE \E a, b \in Chars, reverted \in BOOLEAN : TradeFails(a, b, reverted)
  BY <1>13, FlushesRemembered
<1>14. CASE \E c \in Chars, k \in CorpseIds : MakeCorpse(c, k) \/ LootFails(c, k)
  BY <1>14, CorpseRemembered, FlushesRemembered
<1>15. CASE \E c \in Chars, k \in CorpseIds, X \in SUBSET Items : LootCorpse(c, k, X)
  BY <1>15, CorpseRemembered
<1>16. CASE \E k \in CorpseIds, deleted \in BOOLEAN : Decay(k, deleted)
  BY <1>16, RestRemembered
<1> QED
  BY <1>1, <1>2, <1>3, <1>4, <1>5, <1>6, <1>7, <1>8, <1>9, <1>10, <1>11, <1>12, <1>13,
     <1>14, <1>15, <1>16 DEF Next

\* Only a login puts a character into the world.
LEMMA OnlyLogin ==
  ASSUME IInv, [Next]_vars, NEW c \in Chars, status[c] # "online", status'[c] = "online"
  PROVE  \E away \in BOOLEAN : Login(c, away)
<1>0. status \in [Chars -> {"offline", "online", "pending"}]
  BY DEF IInv, TypeOK
<1>1. CASE \E d \in Chars, away \in BOOLEAN : Login(d, away)
  <2>1. PICK d \in Chars, away \in BOOLEAN : Login(d, away)
    BY <1>1
  <2>2. status' = [status EXCEPT ![d] = "online"]
    BY <2>1 DEF Login
  <2>3. d = c
    BY <1>0, <2>2
  <2> QED
    BY <2>1, <2>3
<1>2. CASE \E d \in Chars, stores, others \in BOOLEAN : Reap(d, stores, others)
  BY <1>0, <1>2 DEF Reap, Gone
<1>3. CASE \E d \in Chars, stores, others, due \in BOOLEAN : Retry(d, stores, others, due)
  BY <1>0, <1>3 DEF Retry, Gone
<1>4. CASE \E S \in SUBSET {d \in Chars : Active(d)} : Stop(S)
  BY <1>4 DEF Stop
<1>5. CASE \/ \E loaded \in BOOLEAN : Boot(loaded)
           \/ \E x \in Items : BagExpires(x)
           \/ \E k \in CorpseIds, deleted \in BOOLEAN : Decay(k, deleted)
           \/ UNCHANGED vars
  BY <1>5 DEF Boot, BagExpires, Decay, vars, memory
<1>6. CASE \/ \E d \in Chars : Checkpoint(d) \/ Die(d)
           \/ \E d \in Chars, flushed \in BOOLEAN : CorpseFails(d, flushed)
           \/ \E a, b \in Chars, reverted \in BOOLEAN : TradeFails(a, b, reverted)
  BY <1>6 DEF Checkpoint, Die, CorpseFails, TradeFails
<1>7. CASE \/ \E d \in Chars, x \in Items : Gain(d, x) \/ Lose(d, x) \/ DropItem(d, x)
           \/ \E d \in Chars, x \in Items, from, to \in Stores : Bank(d, x, from, to)
           \/ \E d \in Chars, x \in Items, saved \in BOOLEAN : PickUp(d, x, saved)
  BY <1>7 DEF Gain, Lose, DropItem, Bank, PickUp
<1>8. CASE \/ \E d \in Chars, k \in CorpseIds : MakeCorpse(d, k) \/ LootFails(d, k)
           \/ \E d \in Chars, k \in CorpseIds, X \in SUBSET Items : LootCorpse(d, k, X)
  BY <1>8 DEF MakeCorpse, LootFails, LootCorpse
<1>9. CASE \E a, b \in Chars, given, got \in SUBSET Items : Trade(a, b, given, got)
  BY <1>9 DEF Trade
<1> QED
  BY <1>1, <1>2, <1>3, <1>4, <1>5, <1>6, <1>7, <1>8, <1>9 DEF Next

LEMMA RememberedHolds == Spec => [](IInv /\ Remembered)
<1>1. Init => Remembered
  BY DEF Init, Remembered
<1> QED
  BY <1>1, InitIInv, NextIInv, NextRemembered, PTL DEF Spec

\* A player comes back with what they left with, less the NO RENT items,
\* whatever saves failed, were retried or landed in part, unless the save was
\* given up or the process ended first (session.rs, pending_saves).
THEOREM ReturnsWhole == Spec => LoginRestores
<1> DEFINE A == \A c \in Chars, s \in {"carried", "bank"} :
       status[c] # "online" /\ status'[c] = "online" /\ left[c] # None
         => left[c][s] \ NoRent \subseteq mem'[c][s] /\ mem'[c][s] \subseteq left[c][s]
<1>1. IInv /\ Remembered /\ [Next]_vars => A
  <2> SUFFICES ASSUME IInv, Remembered, [Next]_vars, NEW c \in Chars, NEW s \in Personal,
                      status[c] # "online", status'[c] = "online", left[c] # None
               PROVE  left[c][s] \ NoRent \subseteq mem'[c][s] /\ mem'[c][s] \subseteq left[c][s]
    BY DEF Personal
  <2>1. PICK away \in BOOLEAN : Login(c, away)
    BY OnlyLogin
  <2>2. status[c] = "offline"
    BY <2>1 DEF Login, AccountFree, Active
  <2>3. s \in Stores /\ disk[Row(c, s)] = left[c][s]
    BY <2>2, PersonalRows DEF Remembered
  <2>4. mem \in Memories
    BY DEF IInv, TypeOK, Memories
  <2>5. \E gone \in SUBSET NoRent : mem'[c][s] = disk[Row(c, s)] \ gone
    BY <2>1, <2>3, <2>4 DEF Login, Memories
  <2> QED
    BY <2>3, <2>5
<1>2. A => [A]_vars
  OBVIOUS
<1> QED
  BY <1>1, RememberedHolds, PTL DEF LoginRestores, Spec

====
