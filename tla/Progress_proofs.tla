--------------------------- MODULE Progress_proofs ---------------------------
(***************************************************************************)
(* A quest pays once and the journal's rows are the journal, and no        *)
(* experience is gained that was not earned, for every number of players,  *)
(* quests and corpses, and for every table of levels and rewards.          *)
(*                                                                         *)
(* Quests: the row of a character and the character agree at all times on  *)
(* which quests were completed and paid (Agrees): what a checkpoint, a     *)
(* corpse, a resurrection or a logout writes over the row is what is       *)
(* there.  A character is in the world or waits for its last save, never   *)
(* both (Sound).                                                           *)
(*                                                                         *)
(* Experience: the two loops of resolve are walked by induction on what is *)
(* left to climb or to sink, which gives the reference of the total kept   *)
(* within its bounds (ResolveRefers).  Then what is still to be given back *)
(* is counted on the corpses' rows, and on the corpse a death has still to *)
(* make; with it a character in the world, one that waits for its last     *)
(* save and the row are each covered by what they earned (Backed), so that *)
(* whichever of them a crash or a failed save leaves is covered too.       *)
(***************************************************************************)
EXTENDS Progress, FiniteSetTheorems, WellFoundedInduction, TLAPS

-----------------------------------------------------------------------------
(* The invariant *)

RowFields == {"level", "xp", "dead", "journal", "done", "handed", "earned", "paid"}
CharFields == RowFields \cup {"dirty", "fallen", "lost"}

\* What EXCEPT needs to know of a record.
Shaped(c, fields) == DOMAIN c = fields /\ DOMAIN c.journal = Quests /\ DOMAIN c.paid = Quests

\* The copy c of a character agrees with its row r.
Agrees(c, r) == Shaped(c, CharFields) /\ c.done = r.done /\ c.paid = r.paid /\ c.handed \subseteq c.done

\* The journal of c is that of the row r, as JournalSaved says it.
Journaled(c, r) ==
  \A q \in Quests :
    /\ c.journal[q] # None => q \notin c.done
    /\ \/ q \in c.dirty
       \/ r.journal[q] = c.journal[q]
       \/ c.journal[q] = None /\ q \in r.done

\* A character in the world, one that waits for its last save, and its row.
Sound(c, w, r) ==
  /\ Shaped(r, RowFields) /\ PaidOnce(r)
  /\ c # None => Agrees(c, r) /\ Journaled(c, r)
  /\ w # None => Agrees(w, r)
  /\ c = None \/ w = None

Domains == DOMAIN conn = Players /\ DOMAIN pending = Players /\ DOMAIN row = Players

IInv == Domains /\ \A p \in Players : Sound(conn[p], pending[p], row[p])

LEMMA InitIInv == Init => IInv
BY DEF Init, NewRow, IInv, Domains, Sound, Shaped, RowFields, PaidOnce

-----------------------------------------------------------------------------
(* Characters and rows *)

\* d is c but for what quests have no part in.
SameQuests(c, d) ==
  /\ Shaped(d, CharFields)
  /\ d.paid = c.paid /\ d.done = c.done /\ d.handed = c.handed
  /\ d.journal = c.journal /\ d.dirty = c.dirty

LEMMA AwardedSame ==
  ASSUME NEW c, Shaped(c, CharFields), NEW n
  PROVE  SameQuests(c, Awarded(c, n))
BY DEF SameQuests, Shaped, CharFields, RowFields, Awarded

LEMMA EarnedSame ==
  ASSUME NEW c, Shaped(c, CharFields), NEW n
  PROVE  SameQuests(c, Earned(c, n))
<1> DEFINE a == Awarded(c, n)
<1>1. SameQuests(c, a)
  BY AwardedSame
<1>2. Earned(c, n) = [a EXCEPT !.earned = @ + n]
  BY DEF Earned
<1> QED
  BY <1>1, <1>2 DEF SameQuests, Shaped, CharFields, RowFields

LEMMA PenalizedSame ==
  ASSUME NEW c, Shaped(c, CharFields)
  PROVE  SameQuests(c, Penalized(c))
<1> DEFINE loss == (Band[c.level] * LossPct) \div 100
           after == Awarded(c, -loss)
<1>1. SameQuests(c, after)
  BY AwardedSame
<1>2. \A v : SameQuests(c, [c EXCEPT !.lost = v])
  BY DEF SameQuests, Shaped, CharFields, RowFields
<1>3. \A v : SameQuests(c, [after EXCEPT !.lost = v])
  BY <1>1 DEF SameQuests, Shaped, CharFields, RowFields
<1>4. \E v : Penalized(c) = [c EXCEPT !.lost = v] \/ Penalized(c) = [after EXCEPT !.lost = v]
  BY DEF Penalized
<1> QED
  BY <1>2, <1>3, <1>4

\* What is written over a row of a copy that agrees with it.
\* Written(r, s, c): s is the row r after some of c was saved.
Written(r, s, c) ==
  /\ Shaped(s, RowFields)
  /\ s.done = r.done /\ s.paid = r.paid /\ s.handed \in {r.handed, c.handed}

LEMMA WrittenPaid ==
  ASSUME NEW r, NEW s, NEW c, PaidOnce(r), Agrees(c, r), Written(r, s, c)
  PROVE  PaidOnce(s) /\ Agrees(c, s)
BY DEF PaidOnce, Agrees, Written

LEMMA WithXpWritten ==
  ASSUME NEW r, NEW c, Shaped(r, RowFields), Agrees(c, r)
  PROVE  Written(r, WithXp(r, c), c) /\ WithXp(r, c).journal = r.journal
BY DEF WithXp, Written, Agrees, Shaped, RowFields

LEMMA WithStoresWritten ==
  ASSUME NEW r, NEW c, Shaped(r, RowFields)
  PROVE  Written(r, WithStores(r, c), c) /\ WithStores(r, c).journal = r.journal
BY DEF WithStores, Written, Shaped, RowFields

LEMMA WithJournalWritten ==
  ASSUME NEW r, NEW c, NEW qs, Shaped(r, RowFields)
  PROVE  /\ Written(r, WithJournal(r, c, qs), c)
         /\ \A q \in Quests :
              WithJournal(r, c, qs).journal[q] = IF q \in qs THEN c.journal[q] ELSE r.journal[q]
BY DEF WithJournal, Written, Shaped, RowFields

LEMMA FlushedWritten ==
  ASSUME NEW r, NEW c, NEW res \in BOOLEAN, NEW stores \in BOOLEAN, NEW qs,
         Shaped(r, RowFields), Agrees(c, r)
  PROVE  /\ Written(r, Flushed(r, c, res, stores, qs), c)
         /\ \A q \in Quests :
              Flushed(r, c, res, stores, qs).journal[q] =
                IF q \in qs THEN c.journal[q] ELSE r.journal[q]
<1> DEFINE r1 == IF res THEN [WithXp(r, c) EXCEPT !.dead = c.dead] ELSE r
           r2 == IF stores THEN WithStores(r1, c) ELSE r1
<1>1. Written(r, WithXp(r, c), c) /\ WithXp(r, c).journal = r.journal
  BY WithXpWritten
<1>2. Written(r, r1, c) /\ r1.journal = r.journal
  BY <1>1 DEF Written, Shaped, RowFields
<1>3. Written(r1, WithStores(r1, c), c) /\ WithStores(r1, c).journal = r1.journal
  BY <1>2, WithStoresWritten DEF Written
<1>4. Written(r, r2, c) /\ r2.journal = r.journal
  BY <1>2, <1>3 DEF Written
<1>5. Flushed(r, c, res, stores, qs) = WithJournal(r2, c, qs)
  BY DEF Flushed
<1> HIDE DEF r1, r2
<1>6. /\ Written(r2, WithJournal(r2, c, qs), c)
      /\ \A q \in Quests :
           WithJournal(r2, c, qs).journal[q] = IF q \in qs THEN c.journal[q] ELSE r2.journal[q]
  <2>1. Shaped(r2, RowFields)
    BY <1>4 DEF Written
  <2> QED
    BY <2>1, WithJournalWritten
<1>7. Written(r, WithJournal(r2, c, qs), c)
  BY <1>4, <1>6 DEF Written
<1> QED
  BY <1>4, <1>5, <1>6, <1>7

\* A copy that changed in nothing quests have a part in is as sound as it was.
LEMMA SameAgrees ==
  ASSUME NEW c, NEW d, NEW r, Agrees(c, r), Journaled(c, r), SameQuests(c, d)
  PROVE  Agrees(d, r) /\ Journaled(d, r)
BY DEF SameQuests, Agrees, Journaled

\* A copy that saved the quests qs, of those still to be written.
LEMMA FlushedJournaled ==
  ASSUME NEW c, NEW d, NEW r, NEW s, NEW qs, Agrees(c, r), Journaled(c, r), Written(r, s, c),
         \A q \in Quests : s.journal[q] = IF q \in qs THEN c.journal[q] ELSE r.journal[q],
         d.journal = c.journal, d.done = c.done, d.dirty = c.dirty \ qs
  PROVE  Journaled(d, s)
BY DEF Journaled, Written

\* A copy apart from what is still to be written.
LEMMA CleanerAgrees ==
  ASSUME NEW c, NEW r, Agrees(c, r), NEW v
  PROVE  LET d == [c EXCEPT !.dirty = v] IN
         /\ Agrees(d, r) /\ d.journal = c.journal /\ d.done = c.done /\ d.dirty = v
BY DEF Agrees, Shaped, CharFields, RowFields

-----------------------------------------------------------------------------
(* Steps of one player *)

OnlyAt(p) ==
  /\ Domains'
  /\ \A o \in Players : o # p =>
       conn'[o] = conn[o] /\ pending'[o] = pending[o] /\ row'[o] = row[o]

LEMMA OnlyAtInv ==
  ASSUME IInv, NEW p \in Players, OnlyAt(p), Sound(conn'[p], pending'[p], row'[p])
  PROVE  IInv'
BY DEF IInv, OnlyAt

LEMMA LoginInv ==
  ASSUME IInv, NEW p \in Players, Login(p)
  PROVE  IInv'
<1> DEFINE r == row[p]
           c == Loaded(r)
<1>1. OnlyAt(p) /\ conn'[p] = c /\ pending'[p] = None /\ row'[p] = r
  BY DEF Login, OnlyAt, IInv, Domains
<1>2. Shaped(r, RowFields) /\ PaidOnce(r)
  BY DEF IInv, Sound
<1>3. Agrees(c, r)
  BY <1>2 DEF Loaded, OpenJournal, Agrees, Shaped, CharFields, RowFields, PaidOnce
<1>4. Journaled(c, r)
  BY DEF Loaded, OpenJournal, Journaled
<1> QED
  BY <1>1, <1>2, <1>3, <1>4, OnlyAtInv DEF Sound

LEMMA LogoutInv ==
  ASSUME IInv, NEW p \in Players, Logout(p)
  PROVE  IInv'
<1> DEFINE c == conn[p]
           r == row[p]
<1>1. PICK res \in BOOLEAN, stores \in BOOLEAN, qs \in SUBSET c.dirty :
        /\ row' = [row EXCEPT ![p] = Flushed(@, c, res, stores, qs)]
        /\ pending' = [pending EXCEPT ![p] =
             IF res /\ stores /\ qs = c.dirty THEN None ELSE [c EXCEPT !.dirty = @ \ qs]]
  BY DEF Logout
<1> DEFINE s == Flushed(r, c, res, stores, qs)
<1>2. /\ OnlyAt(p) /\ conn'[p] = None /\ row'[p] = s
      /\ pending'[p] = None \/ pending'[p] = [c EXCEPT !.dirty = @ \ qs]
  BY <1>1 DEF Logout, OnlyAt, IInv, Domains
<1>3. Shaped(r, RowFields) /\ PaidOnce(r) /\ Agrees(c, r)
  BY DEF IInv, Sound, Logout, Online
<1>4. Written(r, s, c)
  BY <1>3, FlushedWritten
<1>5. Shaped(s, RowFields) /\ PaidOnce(s) /\ Agrees(c, s)
  BY <1>3, <1>4, WrittenPaid DEF Written
<1>6. Agrees([c EXCEPT !.dirty = @ \ qs], s)
  BY <1>5, CleanerAgrees
<1> HIDE DEF s
<1> QED
  BY <1>2, <1>5, <1>6, OnlyAtInv DEF Sound

LEMMA RetryInv ==
  ASSUME IInv, NEW p \in Players, Retry(p)
  PROVE  IInv'
<1> DEFINE c == pending[p]
           r == row[p]
<1>1. PICK res \in BOOLEAN, stores \in BOOLEAN, qs \in SUBSET c.dirty :
        /\ row' = [row EXCEPT ![p] = Flushed(@, c, res, stores, qs)]
        /\ \/ pending' = [pending EXCEPT ![p] = None]
           \/ pending' = [pending EXCEPT ![p].dirty = @ \ qs]
  BY DEF Retry
<1> DEFINE s == Flushed(r, c, res, stores, qs)
<1>2. c # None /\ conn[p] = None /\ conn' = conn
  BY DEF IInv, Sound, Retry
<1>3. /\ OnlyAt(p) /\ conn'[p] = None /\ row'[p] = s
      /\ pending'[p] = None \/ pending'[p] = [c EXCEPT !.dirty = @ \ qs]
  BY <1>1, <1>2 DEF OnlyAt, IInv, Domains
<1>4. Shaped(r, RowFields) /\ PaidOnce(r) /\ Agrees(c, r)
  BY <1>2 DEF IInv, Sound
<1>5. Written(r, s, c)
  BY <1>4, FlushedWritten
<1>6. Shaped(s, RowFields) /\ PaidOnce(s) /\ Agrees(c, s)
  BY <1>4, <1>5, WrittenPaid DEF Written
<1>7. Agrees([c EXCEPT !.dirty = @ \ qs], s)
  BY <1>6, CleanerAgrees
<1> HIDE DEF s
<1> QED
  BY <1>3, <1>6, <1>7, OnlyAtInv DEF Sound

LEMMA CheckpointInv ==
  ASSUME IInv, NEW p \in Players, Checkpoint(p)
  PROVE  IInv'
<1> DEFINE c == conn[p]
           r == row[p]
<1>1. PICK res \in BOOLEAN, stores \in BOOLEAN, qs \in SUBSET c.dirty :
        /\ row' = [row EXCEPT ![p] = Flushed(@, c, res, stores, qs)]
        /\ conn' = [conn EXCEPT ![p].dirty = @ \ qs]
  BY DEF Checkpoint
<1> DEFINE s == Flushed(r, c, res, stores, qs)
           d == [c EXCEPT !.dirty = @ \ qs]
<1>2. c # None /\ pending[p] = None /\ pending' = pending
  BY DEF IInv, Sound, Checkpoint, Online
<1>3. OnlyAt(p) /\ conn'[p] = d /\ pending'[p] = None /\ row'[p] = s
  BY <1>1, <1>2 DEF OnlyAt, IInv, Domains
<1>4. Shaped(r, RowFields) /\ PaidOnce(r) /\ Agrees(c, r) /\ Journaled(c, r)
  BY <1>2 DEF IInv, Sound
<1>5. /\ Written(r, s, c)
      /\ \A q \in Quests : s.journal[q] = IF q \in qs THEN c.journal[q] ELSE r.journal[q]
  BY <1>4, FlushedWritten
<1>6. Shaped(s, RowFields) /\ PaidOnce(s) /\ Agrees(c, s)
  BY <1>4, <1>5, WrittenPaid DEF Written
<1>7. Agrees(d, s) /\ d.journal = c.journal /\ d.done = c.done /\ d.dirty = c.dirty \ qs
  BY <1>6, CleanerAgrees
<1> HIDE DEF s, d
<1>8. Journaled(d, s)
  BY <1>4, <1>5, <1>7, FlushedJournaled
<1> QED
  BY <1>3, <1>6, <1>7, <1>8, OnlyAtInv DEF Sound

LEMMA FlushQuestsInv ==
  ASSUME IInv, NEW p \in Players, FlushQuests(p)
  PROVE  IInv'
<1> DEFINE c == conn[p]
           r == row[p]
<1>1. PICK qs \in SUBSET c.dirty :
        /\ row' = [row EXCEPT ![p] = WithJournal(@, c, qs)]
        /\ conn' = [conn EXCEPT ![p].dirty = @ \ qs]
  BY DEF FlushQuests
<1> DEFINE s == WithJournal(r, c, qs)
           d == [c EXCEPT !.dirty = @ \ qs]
<1>2. c # None /\ pending[p] = None /\ pending' = pending
  BY DEF IInv, Sound, FlushQuests, Online
<1>3. OnlyAt(p) /\ conn'[p] = d /\ pending'[p] = None /\ row'[p] = s
  BY <1>1, <1>2 DEF OnlyAt, IInv, Domains
<1>4. Shaped(r, RowFields) /\ PaidOnce(r) /\ Agrees(c, r) /\ Journaled(c, r)
  BY <1>2 DEF IInv, Sound
<1>5. /\ Written(r, s, c)
      /\ \A q \in Quests : s.journal[q] = IF q \in qs THEN c.journal[q] ELSE r.journal[q]
  BY <1>4, WithJournalWritten
<1>6. Shaped(s, RowFields) /\ PaidOnce(s) /\ Agrees(c, s)
  BY <1>4, <1>5, WrittenPaid DEF Written
<1>7. Agrees(d, s) /\ d.journal = c.journal /\ d.done = c.done /\ d.dirty = c.dirty \ qs
  BY <1>6, CleanerAgrees
<1> HIDE DEF s, d
<1>8. Journaled(d, s)
  BY <1>4, <1>5, <1>7, FlushedJournaled
<1> QED
  BY <1>3, <1>6, <1>7, <1>8, OnlyAtInv DEF Sound

\* A step that leaves the rows alone, and of one player changes nothing quests
\* have a part in.
LEMMA SameInv ==
  ASSUME IInv, NEW p \in Online, UNCHANGED <<pending, row>>, NEW d, SameQuests(conn[p], d),
         conn' = [conn EXCEPT ![p] = d]
  PROVE  IInv'
<1>1. p \in Players /\ conn[p] # None
  BY DEF Online
<1>2. OnlyAt(p) /\ conn'[p] = d /\ pending'[p] = pending[p] /\ row'[p] = row[p]
  BY <1>1 DEF OnlyAt, IInv, Domains
<1>3. Sound(d, pending[p], row[p])
  BY <1>1, SameAgrees DEF IInv, Sound
<1> QED
  BY <1>1, <1>2, <1>3, OnlyAtInv

LEMMA GrantQuestXpInv ==
  ASSUME IInv, NEW p \in Players, GrantQuestXp(p)
  PROVE  IInv'
<1>1. Shaped(conn[p], CharFields)
  BY DEF IInv, Sound, Agrees, GrantQuestXp, Online
<1>2. SameQuests(conn[p], Earned(conn[p], 1))
  BY <1>1, EarnedSame
<1> QED
  BY <1>2, SameInv DEF GrantQuestXp

LEMMA DieInv ==
  ASSUME IInv, NEW p \in Players, Die(p)
  PROVE  IInv'
<1> DEFINE d == [Penalized(conn[p]) EXCEPT !.dead = TRUE, !.fallen = TRUE]
<1>1. Shaped(conn[p], CharFields)
  BY DEF IInv, Sound, Agrees, Die, Online
<1>2. SameQuests(conn[p], Penalized(conn[p]))
  BY <1>1, PenalizedSame
<1>3. SameQuests(conn[p], d)
  BY <1>2 DEF SameQuests, Shaped, CharFields, RowFields
<1>4. conn' = [conn EXCEPT ![p] = d] /\ p \in Online /\ UNCHANGED <<pending, row>>
  BY DEF Die
<1> HIDE DEF d
<1> QED
  BY <1>3, <1>4, SameInv

LEMMA RespawnInv ==
  ASSUME IInv, NEW p \in Players, Respawn(p)
  PROVE  IInv'
<1> DEFINE d == [conn[p] EXCEPT !.dead = FALSE]
<1>1. Shaped(conn[p], CharFields)
  BY DEF IInv, Sound, Agrees, Respawn, Online
<1>2. SameQuests(conn[p], d)
  BY <1>1 DEF SameQuests, Shaped, CharFields, RowFields
<1>3. conn' = [conn EXCEPT ![p] = d] /\ p \in Online /\ UNCHANGED <<pending, row>>
  BY DEF Respawn, IInv, Domains
<1> HIDE DEF d
<1> QED
  BY <1>2, <1>3, SameInv

\* A step that saves experience, stores or both, and then changes nothing of
\* the character that quests have a part in.
LEMMA SavedInv ==
  ASSUME IInv, NEW p \in Online, NEW s, NEW d, OnlyAt(p), pending'[p] = pending[p],
         conn'[p] = d, row'[p] = s,
         SameQuests(conn[p], d), Written(row[p], s, d), s.journal = row[p].journal
  PROVE  IInv'
<1> DEFINE c == conn[p]
           r == row[p]
<1>1. p \in Players /\ c # None /\ pending[p] = None
  BY DEF Online, IInv, Sound
<1>2. Shaped(r, RowFields) /\ PaidOnce(r) /\ Agrees(c, r) /\ Journaled(c, r)
  BY <1>1 DEF IInv, Sound
<1>3. Agrees(d, r)
  BY <1>2 DEF Agrees, SameQuests
<1>4. Shaped(s, RowFields) /\ PaidOnce(s) /\ Agrees(d, s)
  BY <1>2, <1>3, WrittenPaid DEF Written
<1>5. Journaled(d, s)
  BY <1>2 DEF Journaled, SameQuests, Written
<1> QED
  BY <1>1, <1>4, <1>5, OnlyAtInv DEF Sound

LEMMA MakeCorpseInv ==
  ASSUME IInv, NEW p \in Players, MakeCorpse(p)
  PROVE  IInv'
<1> DEFINE c == conn[p]
           r == row[p]
           r1 == WithStores(r, c)
<1>1. p \in Online /\ Shaped(r, RowFields) /\ PaidOnce(r) /\ Agrees(c, r)
  BY DEF MakeCorpse, Online, IInv, Sound
<1>2. Written(r, r1, c) /\ r1.journal = r.journal
  BY <1>1, WithStoresWritten
<1>3. SameQuests(c, c)
  BY <1>1 DEF SameQuests, Agrees
<1>4. CASE row' = [row EXCEPT ![p] = WithStores(@, conn[p])] /\ conn' = conn
  <2>1. OnlyAt(p) /\ conn'[p] = c /\ row'[p] = r1 /\ pending'[p] = pending[p]
    BY <1>1, <1>4 DEF MakeCorpse, OnlyAt, IInv, Domains
  <2> HIDE DEF r1
  <2> QED
    BY <1>1, <1>2, <1>3, <2>1, SavedInv
<1>5. CASE row' = [row EXCEPT ![p] = Buried(@, conn[p])] /\ conn' = [conn EXCEPT ![p].fallen = FALSE]
  <2> DEFINE s == WithXp(r1, c)
             d == [c EXCEPT !.fallen = FALSE]
  <2>1. OnlyAt(p) /\ conn'[p] = d /\ row'[p] = s /\ pending'[p] = pending[p]
    BY <1>1, <1>5 DEF MakeCorpse, Buried, OnlyAt, IInv, Domains
  <2>2. SameQuests(c, d)
    BY <1>1 DEF SameQuests, Agrees, Shaped, CharFields, RowFields
  <2> HIDE DEF r1, d
  <2>3. Shaped(r1, RowFields) /\ Agrees(c, r1)
    BY <1>1, <1>2, WrittenPaid DEF Written
  <2>4. Written(r1, s, c) /\ s.journal = r1.journal
    BY <2>3, WithXpWritten
  <2>5. Written(r, s, d) /\ s.journal = r.journal
    BY <1>2, <2>2, <2>4 DEF Written, SameQuests
  <2> HIDE DEF s
  <2> QED
    BY <1>1, <2>1, <2>2, <2>5, SavedInv
<1> QED
  BY <1>4, <1>5 DEF MakeCorpse

LEMMA AcceptResInv ==
  ASSUME IInv, NEW p \in Players, NEW k \in CorpseIds, AcceptRes(p, k)
  PROVE  IInv'
<1> PICK pct \in RefundPcts :
      LET c == Awarded(conn[p], (corpses[k].lost * pct + 50) \div 100) IN
      /\ row' = [row EXCEPT ![p] = WithXp(@, c)]
      /\ conn' = [conn EXCEPT ![p] = c]
  BY DEF AcceptRes
<1> DEFINE d == Awarded(conn[p], (corpses[k].lost * pct + 50) \div 100)
           s == WithXp(row[p], d)
<1>1. /\ p \in Online
      /\ Shaped(row[p], RowFields) /\ PaidOnce(row[p]) /\ Agrees(conn[p], row[p])
  BY DEF AcceptRes, Online, IInv, Sound
<1>2. SameQuests(conn[p], d)
  BY <1>1, AwardedSame DEF Agrees
<1>3. OnlyAt(p) /\ conn'[p] = d /\ row'[p] = s /\ pending'[p] = pending[p]
  BY DEF AcceptRes, OnlyAt, IInv, Domains
<1> HIDE DEF d
<1>4. Agrees(d, row[p])
  BY <1>1, <1>2 DEF Agrees, SameQuests
<1>5. Written(row[p], s, d) /\ s.journal = row[p].journal
  BY <1>1, <1>4, WithXpWritten
<1> HIDE DEF s
<1> QED
  BY <1>1, <1>2, <1>3, <1>5, SavedInv

-----------------------------------------------------------------------------
(* Quests *)

LEMMA AcceptQuestInv ==
  ASSUME IInv, NEW p \in Players, NEW q \in Quests, AcceptQuest(p, q)
  PROVE  IInv'
<1> DEFINE c == conn[p]
           d == [c EXCEPT !.journal = [@ EXCEPT ![q] = 0], !.dirty = @ \cup {q}]
<1>1. c # None /\ q \notin c.done
  BY DEF AcceptQuest, Online
<1>2. Sound(c, pending[p], row[p]) /\ Agrees(c, row[p]) /\ Journaled(c, row[p])
  BY <1>1 DEF IInv, Sound
<1>3. conn' = [conn EXCEPT ![p] = d] /\ UNCHANGED <<pending, row>>
  BY DEF AcceptQuest
<1>4. /\ Shaped(d, CharFields) /\ d.dirty = c.dirty \cup {q}
      /\ d.done = c.done /\ d.paid = c.paid /\ d.handed = c.handed
      /\ \A o \in Quests : o # q => d.journal[o] = c.journal[o]
  BY <1>2 DEF Agrees, Shaped, CharFields, RowFields
<1>5. OnlyAt(p) /\ conn'[p] = d /\ pending'[p] = pending[p] /\ row'[p] = row[p]
  BY <1>3 DEF OnlyAt, IInv, Domains
<1> HIDE DEF d
<1>6. Agrees(d, row[p]) /\ Journaled(d, row[p])
  BY <1>1, <1>2, <1>4 DEF Agrees, Journaled
<1> QED
  BY <1>1, <1>2, <1>5, <1>6, OnlyAtInv DEF Sound

LEMMA AbandonQuestInv ==
  ASSUME IInv, NEW p \in Players, NEW q \in Quests, AbandonQuest(p, q)
  PROVE  IInv'
<1> DEFINE c == conn[p]
           d == [c EXCEPT !.journal = [@ EXCEPT ![q] = None], !.dirty = @ \cup {q}]
<1>1. c # None
  BY DEF AbandonQuest, Online
<1>2. Sound(c, pending[p], row[p]) /\ Agrees(c, row[p]) /\ Journaled(c, row[p])
  BY <1>1 DEF IInv, Sound
<1>3. conn' = [conn EXCEPT ![p] = d] /\ UNCHANGED <<pending, row>>
  BY DEF AbandonQuest
<1>4. /\ Shaped(d, CharFields) /\ d.dirty = c.dirty \cup {q}
      /\ d.done = c.done /\ d.paid = c.paid /\ d.handed = c.handed
      /\ d.journal[q] = None /\ \A o \in Quests : o # q => d.journal[o] = c.journal[o]
  BY <1>2 DEF Agrees, Shaped, CharFields, RowFields
<1>5. OnlyAt(p) /\ conn'[p] = d /\ pending'[p] = pending[p] /\ row'[p] = row[p]
  BY <1>3 DEF OnlyAt, IInv, Domains
<1> HIDE DEF d
<1>6. Agrees(d, row[p]) /\ Journaled(d, row[p])
  BY <1>2, <1>4 DEF Agrees, Journaled
<1> QED
  BY <1>1, <1>2, <1>5, <1>6, OnlyAtInv DEF Sound

\* What a turn-in makes of a character.
LEMMA RewardedFacts ==
  ASSUME NEW c, Shaped(c, CharFields), NEW q \in Quests
  PROVE  LET d == Rewarded(c, q) IN
         /\ Shaped(d, CharFields)
         /\ d.done = c.done \cup {q} /\ d.handed = c.handed \cup {q} /\ d.dirty = c.dirty \ {q}
         /\ d.paid = [c.paid EXCEPT ![q] = @ + 1] /\ d.journal = [c.journal EXCEPT ![q] = None]
<1> DEFINE e == Earned(c, Reward[q])
<1>1. SameQuests(c, e)
  BY EarnedSame
<1>2. Rewarded(c, q) =
        [e EXCEPT !.paid = [e.paid EXCEPT ![q] = e.paid[q] + 1], !.done = @ \cup {q}, !.handed = @ \cup {q},
                  !.journal = [e.journal EXCEPT ![q] = None], !.dirty = @ \ {q}]
  BY DEF Rewarded
<1> HIDE DEF e
<1> QED
  BY <1>1, <1>2 DEF SameQuests, Shaped, CharFields, RowFields

LEMMA CompleteQuestInv ==
  ASSUME IInv, NEW p \in Players, NEW q \in Quests, CompleteQuest(p, q)
  PROVE  IInv'
<1> DEFINE b == conn[p]
           r == row[p]
           c == Rewarded(b, q)
<1> PICK deleted \in BOOLEAN, saved \in BOOLEAN :
      row' = [row EXCEPT ![p] =
        LET s == WithJournal(Recorded(@, c, q), c, IF deleted THEN {q} ELSE {})
        IN IF saved THEN WithStores(s, c) ELSE s]
  BY DEF CompleteQuest
<1> DEFINE r1 == Recorded(r, c, q)
           r2 == WithJournal(r1, c, IF deleted THEN {q} ELSE {})
           r3 == IF saved THEN WithStores(r2, c) ELSE r2
<1>1. b # None /\ q \notin b.done /\ pending[p] = None /\ UNCHANGED pending
  BY DEF CompleteQuest, Online, IInv, Sound
<1>2. Shaped(r, RowFields) /\ PaidOnce(r) /\ Agrees(b, r) /\ Journaled(b, r)
  BY <1>1 DEF IInv, Sound
<1>3. OnlyAt(p) /\ conn'[p] = c /\ row'[p] = r3 /\ pending'[p] = None
  BY <1>1 DEF CompleteQuest, OnlyAt, IInv, Domains
<1>4. /\ Shaped(c, CharFields)
      /\ c.done = b.done \cup {q} /\ c.handed = b.handed \cup {q} /\ c.dirty = b.dirty \ {q}
      /\ c.paid = [b.paid EXCEPT ![q] = @ + 1] /\ c.journal = [b.journal EXCEPT ![q] = None]
  BY <1>2, RewardedFacts DEF Agrees
<1> HIDE DEF c
<1>5. /\ Shaped(r1, RowFields) /\ r1.done = r.done \cup {q} /\ r1.paid = c.paid
      /\ r1.handed = r.handed /\ r1.journal = r.journal
  BY <1>2, <1>4 DEF Recorded, WithXp, Shaped, RowFields
<1>6. PaidOnce(r1)
  BY <1>1, <1>2, <1>4, <1>5 DEF PaidOnce, Agrees, Shaped
<1>7. Agrees(c, r1)
  BY <1>2, <1>4, <1>5 DEF Agrees
<1> HIDE DEF r1
<1>8. Written(r1, r2, c) /\ \A o \in Quests : r2.journal[o] = r1.journal[o] \/ o = q
  BY <1>5, WithJournalWritten
<1> HIDE DEF r2
<1>9. Written(r1, r3, c) /\ r3.journal = r2.journal
  BY <1>8, WithStoresWritten DEF Written
<1> HIDE DEF r3
<1>10. Shaped(r3, RowFields) /\ PaidOnce(r3) /\ Agrees(c, r3)
  BY <1>6, <1>7, <1>9, WrittenPaid DEF Written
<1>11. Journaled(c, r3)
  <2> SUFFICES ASSUME NEW o \in Quests
               PROVE  /\ c.journal[o] # None => o \notin c.done
                      /\ \/ o \in c.dirty
                         \/ r3.journal[o] = c.journal[o]
                         \/ c.journal[o] = None /\ o \in r3.done
    BY DEF Journaled
  <2>1. r3.done = r.done \cup {q}
    BY <1>5, <1>9 DEF Written
  <2>2. CASE o = q
    BY <1>2, <1>4, <2>1, <2>2 DEF Agrees, Shaped
  <2>3. CASE o # q
    <3>1. c.journal[o] = b.journal[o] /\ r3.journal[o] = r.journal[o]
      BY <1>2, <1>4, <1>5, <1>8, <1>9, <2>3 DEF Agrees, Shaped
    <3> QED
      BY <1>2, <1>4, <2>1, <2>3, <3>1 DEF Journaled
  <2> QED
    BY <2>2, <2>3
<1> QED
  BY <1>3, <1>10, <1>11, OnlyAtInv DEF Sound

-----------------------------------------------------------------------------
(* Steps of several players *)

LEMMA CountedAgrees ==
  ASSUME NEW c, NEW r, NEW qs, Agrees(c, r), Journaled(c, r)
  PROVE  Agrees(Counted(c, qs), r) /\ Journaled(Counted(c, qs), r)
<1> DEFINE d == Counted(c, qs)
           counts == {q \in qs : c.journal[q] # None /\ c.journal[q] < Required[q]}
<1>1. /\ Shaped(d, CharFields) /\ d.dirty = c.dirty \cup counts
      /\ d.done = c.done /\ d.paid = c.paid /\ d.handed = c.handed
      /\ \A q \in Quests : q \notin counts => d.journal[q] = c.journal[q]
  BY DEF Counted, Agrees, Shaped, CharFields, RowFields
<1>2. \A q \in counts : c.journal[q] # None
  OBVIOUS
<1> HIDE DEF d, counts
<1>3. Agrees(d, r) /\ Journaled(d, r)
  BY <1>1, <1>2 DEF Agrees, Journaled
<1> QED
  BY <1>3 DEF d

LEMMA KillInv ==
  ASSUME IInv, NEW p \in Players, Kill(p)
  PROVE  IInv'
<1>1. PICK near \in SUBSET Online, qs \in SUBSET Quests :
        LET shares == {m \in near \cup {p} : ~conn[m].dead}
            each == Share(Cardinality(shares))
        IN conn' = [m \in Players |->
             IF m \in shares THEN Counted(Earned(conn[m], each), qs) ELSE conn[m]]
  BY DEF Kill
<1> DEFINE shares == {m \in near \cup {p} : ~conn[m].dead}
           each == Share(Cardinality(shares))
<1>2. conn' = [m \in Players |->
        IF m \in shares THEN Counted(Earned(conn[m], each), qs) ELSE conn[m]]
  BY <1>1
<1>3. shares \subseteq Online
  BY DEF Kill
<1> HIDE DEF shares, each
<1>4. ASSUME NEW m \in shares
      PROVE  m \in Players /\ Sound(Counted(Earned(conn[m], each), qs), pending[m], row[m])
  <2>1. m \in Players /\ conn[m] # None /\ Sound(conn[m], pending[m], row[m])
    BY <1>3 DEF Online, IInv
  <2> DEFINE e == Earned(conn[m], each)
  <2>2. SameQuests(conn[m], e)
    BY <2>1, EarnedSame DEF Sound, Agrees
  <2>3. Agrees(e, row[m]) /\ Journaled(e, row[m])
    BY <2>1, <2>2, SameAgrees DEF Sound
  <2> HIDE DEF e
  <2>4. Agrees(Counted(e, qs), row[m]) /\ Journaled(Counted(e, qs), row[m])
    BY <2>3, CountedAgrees
  <2> QED
    BY <2>1, <2>4 DEF Sound, e
<1>5. Domains' /\ \A m \in Players : Sound(conn'[m], pending'[m], row'[m])
  BY <1>2, <1>4 DEF Kill, IInv, Domains
<1> QED
  BY <1>5 DEF IInv

LEMMA CrashInv ==
  ASSUME IInv, Crash
  PROVE  IInv'
BY DEF Crash, IInv, Domains, Sound

-----------------------------------------------------------------------------
(* Theorems *)

LEMMA NextIInv == IInv /\ [Next]_vars => IInv'
<1> SUFFICES ASSUME IInv, [Next]_vars
             PROVE  IInv'
  OBVIOUS
<1>1. ASSUME NEW p \in Players, \/ Login(p) \/ Logout(p) \/ Retry(p)
                                \/ Checkpoint(p) \/ FlushQuests(p)
      PROVE  IInv'
  BY <1>1, LoginInv, LogoutInv, RetryInv, CheckpointInv, FlushQuestsInv
<1>2. ASSUME NEW p \in Players, Kill(p) \/ GrantQuestXp(p)
      PROVE  IInv'
  BY <1>2, KillInv, GrantQuestXpInv
<1>3. ASSUME NEW p \in Players, Die(p) \/ MakeCorpse(p) \/ Respawn(p)
      PROVE  IInv'
  BY <1>3, DieInv, MakeCorpseInv, RespawnInv
<1>4. ASSUME NEW p \in Players, NEW q \in Quests,
             AcceptQuest(p, q) \/ AbandonQuest(p, q) \/ CompleteQuest(p, q)
      PROVE  IInv'
  BY <1>4, AcceptQuestInv, AbandonQuestInv, CompleteQuestInv
<1>5. ASSUME NEW p \in Players, NEW k \in CorpseIds, AcceptRes(p, k)
      PROVE  IInv'
  BY <1>5, AcceptResInv
<1>6. CASE Crash
  BY <1>6, CrashInv
<1>7. CASE UNCHANGED <<conn, pending, row>>
  BY <1>7 DEF IInv, Domains
<1>8. ASSUME NEW k \in CorpseIds, CorpseGone(k)
      PROVE  IInv'
  BY <1>7, <1>8 DEF CorpseGone
<1>9. CASE UNCHANGED vars
  BY <1>7, <1>9 DEF vars
<1> QED
  BY <1>1, <1>2, <1>3, <1>4, <1>5, <1>6, <1>8, <1>9 DEF Next

LEMMA InvariantHolds == Spec => []IInv
  BY InitIInv, NextIInv, PTL DEF Spec

\* No quest pays twice and none is paid without its completion on record,
\* whatever fails or crashes after any part of a turn-in, of any number of
\* quests and players (quest_steps.rs:7).
THEOREM PaidOnceAlways == Spec => []QuestPaidOnce
<1>1. IInv => QuestPaidOnce
  <2> SUFFICES ASSUME IInv, NEW p \in Players
               PROVE  /\ PaidOnce(row[p])
                      /\ conn[p] # None => PaidOnce(conn[p])
                      /\ pending[p] # None => PaidOnce(pending[p])
    BY DEF QuestPaidOnce
  <2>1. Sound(conn[p], pending[p], row[p])
    BY DEF IInv
  <2>2. ASSUME NEW c, Agrees(c, row[p]), PaidOnce(row[p])
        PROVE  PaidOnce(c)
    BY <2>2 DEF Agrees, PaidOnce
  <2> QED
    BY <2>1, <2>2 DEF Sound
<1> QED
  BY <1>1, InvariantHolds, PTL

\* No completed quest is open again, and what the journal's rows lack is still
\* to be written: whichever writes failed, and after any crash.
THEOREM JournalKept == Spec => []JournalSaved
<1>1. IInv => JournalSaved
  <2> SUFFICES ASSUME IInv, NEW p \in Online
               PROVE  /\ Active(conn[p]) \cap conn[p].done = {}
                      /\ \A q \in Quests \ conn[p].dirty :
                           \/ row[p].journal[q] = conn[p].journal[q]
                           \/ conn[p].journal[q] = None /\ q \in row[p].done
    BY DEF JournalSaved
  <2>1. Journaled(conn[p], row[p])
    BY DEF IInv, Sound, Online
  <2> QED
    BY <2>1 DEF Journaled, Active
<1> QED
  BY <1>1, InvariantHolds, PTL

-----------------------------------------------------------------------------
(* Induction, and folds over finite sets *)

\* A set of naturals that is not empty has a least element.
LEMMA LeastMember ==
  ASSUME NEW T \in SUBSET Nat, T # {}
  PROVE  \E x \in T : \A y \in T : x <= y
<1> DEFINE R == {ss \in Nat \X Nat : ss[1] < ss[2]}
<1>1. IsWellFoundedOn(R, Nat)
  BY NatLessThanWellFounded DEF OpToRel
<1> HIDE DEF R
<1>2. PICK x \in T : \A y \in T : ~ (<<y, x>> \in R)
  BY <1>1, WFMin
<1>3. \A y \in T : ~ (y < x)
  BY <1>2 DEF R
<1> QED
  BY <1>3

\* Induction over the naturals, for a set in place of a predicate.
LEMMA Induction ==
  ASSUME NEW T, 0 \in T, \A n \in Nat : n \in T => n + 1 \in T
  PROVE  Nat \subseteq T
<1> DEFINE M == {n \in Nat : n \notin T}
<1> SUFFICES ASSUME M # {} PROVE FALSE
  OBVIOUS
<1>1. PICK m \in M : \A y \in M : m <= y
  BY LeastMember
<1>2. m # 0 /\ m - 1 \in Nat /\ m - 1 \notin M
  BY <1>1
<1> QED
  BY <1>1, <1>2

\* Taking an element out of a subset of a finite set.
LEMMA Smaller ==
  ASSUME NEW S, IsFiniteSet(S), NEW s \in SUBSET S
  PROVE  /\ Cardinality(s) \in Nat
         /\ s = {} <=> Cardinality(s) = 0
         /\ \A x \in s : Cardinality(s \ {x}) = Cardinality(s) - 1
BY FS_Subset, FS_CardinalityType, FS_EmptySet, FS_RemoveElement

\* Induction over the subsets of a finite set.
LEMMA SubsetInduction ==
  ASSUME NEW S, IsFiniteSet(S), NEW T, {} \in T,
         \A s \in SUBSET S : s # {} /\ (\A x \in s : s \ {x} \in T) => s \in T
  PROVE  SUBSET S \subseteq T
<1> DEFINE P(n) == \A s \in SUBSET S : Cardinality(s) = n => s \in T
           N == {n \in Nat : P(n)}
<1>1. P(0)
  BY Smaller
<1>2. ASSUME NEW n \in Nat, P(n)
      PROVE  P(n + 1)
  <2> SUFFICES ASSUME NEW s \in SUBSET S, Cardinality(s) = n + 1
               PROVE  s \in T
    OBVIOUS
  <2>1. s # {}
    BY Smaller
  <2>2. ASSUME NEW x \in s
        PROVE  s \ {x} \in T
    <3>1. s \ {x} \in SUBSET S /\ Cardinality(s \ {x}) = n
      BY Smaller
    <3> QED
      BY <1>2, <3>1
  <2> QED
    BY <2>1, <2>2
<1> HIDE DEF P
<1>3. 0 \in N /\ \A n \in Nat : n \in N => n + 1 \in N
  BY <1>1, <1>2
<1> HIDE DEF N
<1>4. Nat \subseteq N
  BY <1>3, Induction
<1> QED
  BY <1>4, Smaller DEF N, P

\* g folds F over the subsets of S, taking them apart as C picks.
Folding(S, C, base, F, g) ==
  /\ g = [s \in SUBSET S |-> g[s]]
  /\ g[{}] = base
  /\ \A s \in SUBSET S : s # {} => g[s] = F[<<C[s], g[s \ {C[s]}]>>]

Foldable(S, C, base, F) == \E g : Folding(S, C, base, F, g)

FoldStep(s, C, base, F, g) == IF s = {} THEN base ELSE F[<<C[s], g[s \ {C[s]}]>>]

\* Such a function exists: without this the CHOOSE behind a recursive function
\* says nothing.
LEMMA FoldExists ==
  ASSUME NEW S, IsFiniteSet(S), NEW C, \A s \in SUBSET S : s # {} => C[s] \in s,
         NEW base, NEW F
  PROVE  Foldable(S, C, base, F)
<1> DEFINE D(n) == {s \in SUBSET S : Cardinality(s) <= n}
           Good(n, g) == g = [s \in D(n) |-> FoldStep(s, C, base, F, g)]
           P(n) == \E g : Good(n, g)
           T == {n \in Nat : P(n)}
<1>1. P(0)
  <2> DEFINE g == [s \in D(0) |-> base]
  <2>1. \A s \in D(0) : s = {}
    BY Smaller
  <2>2. Good(0, g)
    BY <2>1 DEF FoldStep
  <2> QED
    BY <2>2
<1>2. ASSUME NEW n \in Nat, P(n)
      PROVE  P(n + 1)
  <2>1. PICK g : Good(n, g)
    BY <1>2
  <2> DEFINE h == [s \in D(n + 1) |-> FoldStep(s, C, base, F, g)]
  <2>2. \A s \in D(n) : s \in D(n + 1) /\ h[s] = g[s]
    BY <2>1, Smaller
  <2>3. \A s \in D(n + 1) : s # {} => s \ {C[s]} \in D(n)
    BY Smaller
  <2>4. \A s \in D(n + 1) : FoldStep(s, C, base, F, g) = FoldStep(s, C, base, F, h)
    BY <2>2, <2>3 DEF FoldStep
  <2>5. Good(n + 1, h)
    BY <2>4
  <2> QED
    BY <2>5
<1>3. Cardinality(S) \in T
  <2> HIDE DEF P
  <2>1. 0 \in T /\ \A n \in Nat : n \in T => n + 1 \in T
    BY <1>1, <1>2
  <2> HIDE DEF T
  <2>2. Nat \subseteq T
    BY <2>1, Induction
  <2> QED
    BY <2>2, FS_CardinalityType
<1>4. D(Cardinality(S)) = SUBSET S
  BY FS_Subset
<1>5. PICK g : Good(Cardinality(S), g)
  BY <1>3
<1>6. Folding(S, C, base, F, g)
  BY <1>4, <1>5 DEF FoldStep, Folding
<1> QED
  BY <1>6 DEF Foldable

-----------------------------------------------------------------------------
(* Sums over finite sets *)

\* g adds up f over the subsets of S as SumFunctionOnSet does.
Adding(f, S, g) ==
  g = [s \in SUBSET S |->
         IF s = {} THEN 0 ELSE f[CHOOSE x \in s : TRUE] + g[s \ {CHOOSE x \in s : TRUE}]]

LEMMA SumIs ==
  ASSUME NEW S, IsFiniteSet(S), NEW f, \A x \in S : f[x] \in Int
  PROVE  /\ \E g : Adding(f, S, g) /\ SumFunctionOnSet(f, S) = g[S]
         /\ SumFunctionOnSet(f, S) \in Int
<1> DEFINE C == [s \in SUBSET S |-> CHOOSE x \in s : TRUE]
           F == [p \in S \X Int |-> f[p[1]] + p[2]]
           it == CHOOSE g : Adding(f, S, g)
<1>1. SumFunctionOnSet(f, S) = it[S]
  BY DEF SumFunctionOnSet, FoldFunctionOnSet, MapThenFoldSet, Adding
<1>2. \A s \in SUBSET S : s # {} => C[s] \in s
  OBVIOUS
<1>3. PICK g : Folding(S, C, 0, F, g)
  <2> HIDE DEF C, F
  <2> QED
    BY <1>2, FoldExists DEF Foldable
<1>4. \A s \in SUBSET S : g[s] \in Int
  <2> DEFINE T == {s \in SUBSET S : g[s] \in Int}
  <2> HIDE DEF C
  <2>1. {} \in T
    BY <1>3 DEF Folding
  <2>2. ASSUME NEW s \in SUBSET S, s # {}, \A x \in s : s \ {x} \in T
        PROVE  s \in T
    <3>1. C[s] \in s /\ g[s \ {C[s]}] \in Int
      BY <1>2, <2>2
    <3>2. g[s] = F[<<C[s], g[s \ {C[s]}]>>]
      BY <1>3, <2>2 DEF Folding
    <3> QED
      BY <2>2, <3>1, <3>2
  <2> HIDE DEF T
  <2>3. SUBSET S \subseteq T
    BY <2>1, <2>2, SubsetInduction
  <2> QED
    BY <2>3 DEF T
<1>5. Adding(f, S, g)
  <2>1. ASSUME NEW s \in SUBSET S, s # {}
        PROVE  g[s] = f[C[s]] + g[s \ {C[s]}]
    <3> HIDE DEF C
    <3>1. g[s] = F[<<C[s], g[s \ {C[s]}]>>]
      BY <1>3, <2>1 DEF Folding
    <3> QED
      BY <1>2, <1>4, <2>1, <3>1
  <2>2. g = [s \in SUBSET S |-> g[s]] /\ g[{}] = 0
    BY <1>3 DEF Folding
  <2> QED
    BY <2>1, <2>2 DEF Adding
<1>6. Adding(f, S, it)
  BY <1>5
<1>7. it[S] \in Int
  <2> DEFINE T == {s \in SUBSET S : it[s] = g[s]}
  <2> HIDE DEF it
  <2>1. {} \in T
    BY <1>5, <1>6 DEF Adding
  <2>2. ASSUME NEW s \in SUBSET S, s # {}, \A x \in s : s \ {x} \in T
        PROVE  s \in T
    <3> DEFINE c == CHOOSE x \in s : TRUE
    <3>1. c \in s
      BY <2>2
    <3>2. g[s] = f[c] + g[s \ {c}]
      BY <1>5, <2>2 DEF Adding
    <3>3. it[s] = f[c] + it[s \ {c}]
      BY <1>6, <2>2 DEF Adding
    <3> HIDE DEF c
    <3>4. it[s \ {c}] = g[s \ {c}]
      BY <2>2, <3>1
    <3> QED
      BY <3>2, <3>3, <3>4
  <2> HIDE DEF T
  <2>3. SUBSET S \subseteq T
    BY <2>1, <2>2, SubsetInduction
  <2> QED
    BY <1>4, <2>3 DEF T
<1> QED
  BY <1>1, <1>6, <1>7

\* Two such functions agree where both say something.
LEMMA AddingAgree ==
  ASSUME NEW S, NEW U \in SUBSET S, IsFiniteSet(U), NEW f, NEW g, NEW h,
         Adding(f, S, g), Adding(f, U, h)
  PROVE  \A s \in SUBSET U : g[s] = h[s]
<1> DEFINE T == {s \in SUBSET U : g[s] = h[s]}
<1>1. {} \in T
  BY DEF Adding
<1>2. ASSUME NEW s \in SUBSET U, s # {}, \A x \in s : s \ {x} \in T
      PROVE  s \in T
  <2> DEFINE c == CHOOSE x \in s : TRUE
  <2>1. c \in s /\ s \in SUBSET S /\ s \in SUBSET U
    BY <1>2
  <2>2. g[s] = f[c] + g[s \ {c}]
    BY <1>2, <2>1 DEF Adding
  <2>3. h[s] = f[c] + h[s \ {c}]
    BY <1>2, <2>1 DEF Adding
  <2> HIDE DEF c
  <2>4. g[s \ {c}] = h[s \ {c}]
    BY <1>2, <2>1
  <2> QED
    BY <2>1, <2>2, <2>3, <2>4
<1> HIDE DEF T
<1>3. SUBSET U \subseteq T
  BY <1>1, <1>2, SubsetInduction
<1> QED
  BY <1>3 DEF T

LEMMA SumEmpty ==
  ASSUME NEW f
  PROVE  SumFunctionOnSet(f, {}) = 0
<1>1. PICK g : Adding(f, {}, g) /\ SumFunctionOnSet(f, {}) = g[{}]
  BY SumIs, FS_EmptySet
<1> QED
  BY <1>1 DEF Adding

LEMMA SumChosen ==
  ASSUME NEW S, IsFiniteSet(S), S # {}, NEW f, \A x \in S : f[x] \in Int
  PROVE  \E x \in S : SumFunctionOnSet(f, S) = f[x] + SumFunctionOnSet(f, S \ {x})
<1> DEFINE c == CHOOSE x \in S : TRUE
<1>1. PICK g : Adding(f, S, g) /\ SumFunctionOnSet(f, S) = g[S]
  BY SumIs
<1>2. IsFiniteSet(S \ {c})
  BY FS_Subset
<1>3. PICK h : Adding(f, S \ {c}, h) /\ SumFunctionOnSet(f, S \ {c}) = h[S \ {c}]
  <2> HIDE DEF c
  <2> QED
    BY <1>2, SumIs
<1>4. g[S \ {c}] = h[S \ {c}]
  <2> HIDE DEF c
  <2> QED
    BY <1>1, <1>2, <1>3, AddingAgree
<1>5. g[S] = f[c] + g[S \ {c}]
  BY <1>1 DEF Adding
<1> QED
  BY <1>1, <1>3, <1>4, <1>5

\* Any element may be taken out of a sum first.
LEMMA SumRemove ==
  ASSUME NEW S, IsFiniteSet(S), NEW f, \A x \in S : f[x] \in Int, NEW x \in S
  PROVE  SumFunctionOnSet(f, S) = f[x] + SumFunctionOnSet(f, S \ {x})
<1> DEFINE T == {s \in SUBSET S : \A y \in s :
                   SumFunctionOnSet(f, s) = f[y] + SumFunctionOnSet(f, s \ {y})}
<1>1. {} \in T
  OBVIOUS
<1>2. ASSUME NEW s \in SUBSET S, s # {}, \A y \in s : s \ {y} \in T
      PROVE  s \in T
  <2>1. \A t \in SUBSET S : IsFiniteSet(t) /\ \A y \in t : f[y] \in Int
    BY FS_Subset
  <2>2. PICK c \in s : SumFunctionOnSet(f, s) = f[c] + SumFunctionOnSet(f, s \ {c})
    <3>1. IsFiniteSet(s) /\ s # {} /\ \A y \in s : f[y] \in Int
      BY <1>2, <2>1
    <3> QED
      BY ONLY <3>1, SumChosen
  <2> SUFFICES ASSUME NEW y \in s, y # c
               PROVE  SumFunctionOnSet(f, s) = f[y] + SumFunctionOnSet(f, s \ {y})
    BY <2>2
  <2> DEFINE r == (s \ {c}) \ {y}
  <2>3. (s \ {y}) \ {c} = r
    OBVIOUS
  <2>4. SumFunctionOnSet(f, s \ {c}) = f[y] + SumFunctionOnSet(f, r)
    BY <1>2
  <2>5. SumFunctionOnSet(f, s \ {y}) = f[c] + SumFunctionOnSet(f, r)
    BY <1>2, <2>3
  <2>6. SumFunctionOnSet(f, r) \in Int /\ f[c] \in Int /\ f[y] \in Int
    BY <2>1, SumIs
  <2> QED
    BY <2>2, <2>4, <2>5, <2>6
<1> HIDE DEF T
<1>3. SUBSET S \subseteq T
  BY <1>1, <1>2, SubsetInduction
<1> QED
  BY <1>3 DEF T

LEMMA SumSame ==
  ASSUME NEW S, IsFiniteSet(S), NEW f, NEW g, \A x \in S : f[x] \in Int /\ f[x] = g[x]
  PROVE  SumFunctionOnSet(f, S) = SumFunctionOnSet(g, S)
<1> DEFINE T == {s \in SUBSET S : SumFunctionOnSet(f, s) = SumFunctionOnSet(g, s)}
<1>1. {} \in T
  BY SumEmpty
<1>2. ASSUME NEW s \in SUBSET S, s # {}, \A x \in s : s \ {x} \in T
      PROVE  s \in T
  <2>1. IsFiniteSet(s) /\ (\A x \in s : f[x] \in Int) /\ \A x \in s : g[x] \in Int
    BY FS_Subset
  <2>2. PICK x \in s : TRUE
    BY <1>2
  <2>3. SumFunctionOnSet(f, s) = f[x] + SumFunctionOnSet(f, s \ {x})
    BY <2>1, SumRemove
  <2>4. SumFunctionOnSet(g, s) = g[x] + SumFunctionOnSet(g, s \ {x})
    BY <2>1, SumRemove
  <2> QED
    BY <1>2, <2>3, <2>4
<1> HIDE DEF T
<1>3. SUBSET S \subseteq T
  BY <1>1, <1>2, SubsetInduction
<1> QED
  BY <1>3 DEF T

\* A sum of naturals is one, and is naught only if they all are.
LEMMA SumNat ==
  ASSUME NEW S, IsFiniteSet(S), NEW f, \A x \in S : f[x] \in Nat
  PROVE  /\ SumFunctionOnSet(f, S) \in Nat
         /\ (\A x \in S : f[x] = 0) => SumFunctionOnSet(f, S) = 0
<1> DEFINE T == {s \in SUBSET S : /\ SumFunctionOnSet(f, s) \in Nat
                                  /\ (\A x \in s : f[x] = 0) => SumFunctionOnSet(f, s) = 0}
<1>1. {} \in T
  BY SumEmpty
<1>2. ASSUME NEW s \in SUBSET S, s # {}, \A x \in s : s \ {x} \in T
      PROVE  s \in T
  <2>1. IsFiniteSet(s) /\ \A x \in s : f[x] \in Int
    BY FS_Subset
  <2>2. PICK x \in s : TRUE
    BY <1>2
  <2>3. SumFunctionOnSet(f, s) = f[x] + SumFunctionOnSet(f, s \ {x})
    BY <2>1, SumRemove
  <2> QED
    BY <1>2, <2>3
<1> HIDE DEF T
<1>3. SUBSET S \subseteq T
  BY <1>1, <1>2, SubsetInduction
<1> QED
  BY <1>3 DEF T

-----------------------------------------------------------------------------
(* The levels *)

\* What reaches a level, level by level.
Starting(n, f) ==
  f = [l \in 1 .. n |-> IF l = 1 THEN 0 ELSE f[l - 1] + Band[l - 1]]

LEMMA StartExists == \E f : Starting(MaxLevel, f)
<1> DEFINE T == {n \in Nat : n <= MaxLevel => \E f : Starting(n, f)}
<1>1. 0 \in T
  <2> DEFINE f == [l \in 1 .. 0 |-> 0]
  <2>1. Starting(0, f)
    BY DEF Starting
  <2> QED
    BY <2>1
<1>2. ASSUME NEW n \in Nat, n \in T
      PROVE  n + 1 \in T
  <2> SUFFICES ASSUME n + 1 <= MaxLevel
               PROVE  \E f : Starting(n + 1, f)
    OBVIOUS
  <2>1. PICK f : Starting(n, f)
    BY <1>2, LevelsType
  <2> DEFINE h == [l \in 1 .. n + 1 |-> IF l = 1 THEN 0 ELSE f[l - 1] + Band[l - 1]]
  <2>2. \A l \in 1 .. n : h[l] = f[l]
    BY <2>1 DEF Starting
  <2>3. Starting(n + 1, h)
    <3>1. \A l \in 1 .. n + 1 : l # 1 => l - 1 \in 1 .. n
      OBVIOUS
    <3> QED
      BY <2>2, <3>1 DEF Starting
  <2> QED
    BY <2>3
<1> HIDE DEF T
<1>3. Nat \subseteq T
  BY <1>1, <1>2, Induction
<1>4. MaxLevel \in Nat
  BY LevelsType
<1> QED
  BY <1>3, <1>4 DEF T

LEMMA StartIs ==
  /\ Start[1] = 0
  /\ \A l \in Levels : l < MaxLevel => Start[l + 1] = Start[l] + Band[l]
<1> DEFINE f == CHOOSE f : f = [l \in Levels |-> IF l = 1 THEN 0 ELSE f[l - 1] + Band[l - 1]]
<1>1. Start = f
  BY DEF Start
<1>2. Starting(MaxLevel, f)
  BY StartExists DEF Starting, Levels
<1> HIDE DEF f
<1> QED
  BY <1>1, <1>2, LevelsType DEF Starting, Levels

\* Levels begin further and further up, a band apart at the least.
LEMMA StartGrows ==
  /\ Start[1] = 0 /\ \A l \in Levels : Start[l] \in Nat /\ Band[l] \in Nat \ {0}
  /\ \A k, l \in Levels : k < l => Start[k] + Band[k] <= Start[l]
<1>1. \A l \in Levels : Band[l] \in Nat \ {0}
  BY LevelsType DEF Levels
<1> DEFINE T == {n \in Nat : n + 1 \in Levels => Start[n + 1] \in Nat}
<1>2. 0 \in T
  BY StartIs
<1>3. ASSUME NEW n \in Nat, n \in T
      PROVE  n + 1 \in T
  <2> SUFFICES ASSUME n + 2 \in Levels
               PROVE  Start[n + 2] \in Nat
    OBVIOUS
  <2>1. n + 1 \in Levels /\ n + 1 < MaxLevel /\ (n + 1) + 1 = n + 2
    BY LevelsType DEF Levels
  <2>2. Start[n + 2] = Start[n + 1] + Band[n + 1]
    BY <2>1, StartIs
  <2> QED
    BY <1>1, <1>3, <2>1, <2>2
<1>4. \A l \in Levels : Start[l] \in Nat
  <2> HIDE DEF T
  <2>1. Nat \subseteq T
    BY <1>2, <1>3, Induction
  <2>2. \A l \in Levels : l - 1 \in Nat /\ (l - 1) + 1 = l
    BY LevelsType DEF Levels
  <2> QED
    BY <2>1, <2>2 DEF T
<1> DEFINE U == {n \in Nat : \A k \in Levels :
                   k + n + 1 \in Levels => Start[k] + Band[k] <= Start[k + n + 1]}
<1>5. 0 \in U
  BY <1>1, <1>4, StartIs, LevelsType DEF Levels
<1>6. ASSUME NEW n \in Nat, n \in U
      PROVE  n + 1 \in U
  <2> SUFFICES ASSUME NEW k \in Levels, k + n + 2 \in Levels
               PROVE  Start[k] + Band[k] <= Start[k + n + 2]
    <3>1. \A k \in Levels : k + (n + 1) + 1 = k + n + 2
      BY LevelsType DEF Levels
    <3> QED
      BY <3>1
  <2> DEFINE m == k + n + 1
  <2>1. m \in Levels /\ m < MaxLevel /\ m + 1 = k + n + 2
    BY LevelsType DEF Levels
  <2>2. Start[k] + Band[k] <= Start[m]
    BY <1>6, <2>1
  <2> HIDE DEF m
  <2>3. Start[k + n + 2] = Start[m] + Band[m]
    BY <2>1, StartIs
  <2> QED
    BY <1>1, <1>4, <2>1, <2>2, <2>3
<1>7. ASSUME NEW k \in Levels, NEW l \in Levels, k < l
      PROVE  Start[k] + Band[k] <= Start[l]
  <2> HIDE DEF U
  <2>1. Nat \subseteq U
    BY <1>5, <1>6, Induction
  <2>2. l - k - 1 \in Nat /\ k + (l - k - 1) + 1 = l
    BY <1>7, LevelsType DEF Levels
  <2> QED
    BY <2>1, <2>2 DEF U
<1> QED
  BY <1>1, <1>4, <1>7, StartIs

-----------------------------------------------------------------------------
(* The two loops of resolve: where they end, and that they end there alone *)

Climbs(x, l, y, k) ==
  /\ y \in Int /\ k \in l .. MaxLevel /\ Start[k] + y = Start[l] + x
  /\ y < Band[k] \/ k = MaxLevel
  /\ k = l \/ y >= 0

Sinks(x, l, y, k) ==
  /\ y \in Int /\ k \in 1 .. l /\ Start[k] + y = Start[l] + x
  /\ y >= 0 \/ k <= FloorLevel
  /\ k = l \/ (y < Band[k] /\ k >= FloorLevel)

LEMMA ClimbsOne ==
  ASSUME NEW x \in Int, NEW l \in Levels, NEW y, NEW k, NEW z, NEW m,
         Climbs(x, l, y, k), Climbs(x, l, z, m)
  PROVE  y = z /\ k = m
<1>1. \A a, b, c, d : Climbs(x, l, a, b) /\ Climbs(x, l, c, d) => ~ (b < d)
  <2> SUFFICES ASSUME NEW a, NEW b, NEW c, NEW d, Climbs(x, l, a, b), Climbs(x, l, c, d), b < d
               PROVE  FALSE
    OBVIOUS
  <2>1. b \in Levels /\ d \in Levels /\ a \in Int /\ c \in Int /\ b # MaxLevel /\ d # l
    BY LevelsType DEF Climbs, Levels
  <2>2. Start[b] + Band[b] <= Start[d] /\ a < Band[b] /\ c >= 0 /\ Start[b] + a = Start[d] + c
    BY <2>1, StartGrows DEF Climbs
  <2>3. Start[b] \in Nat /\ Start[d] \in Nat /\ Band[b] \in Nat
    BY <2>1, StartGrows
  <2> QED
    BY <2>1, <2>2, <2>3
<1>2. k = m
  <2>1. k \in Int /\ m \in Int
    BY LevelsType DEF Climbs, Levels
  <2> QED
    BY <1>1, <2>1
<1> QED
  <2>1. k \in Levels
    BY LevelsType DEF Climbs, Levels
  <2> QED
    BY <1>2, <2>1, StartGrows DEF Climbs

LEMMA SinksOne ==
  ASSUME NEW x \in Int, NEW l \in Levels, NEW y, NEW k, NEW z, NEW m,
         Sinks(x, l, y, k), Sinks(x, l, z, m)
  PROVE  y = z /\ k = m
<1>1. \A a, b, c, d : Sinks(x, l, a, b) /\ Sinks(x, l, c, d) => ~ (b < d)
  <2> SUFFICES ASSUME NEW a, NEW b, NEW c, NEW d, Sinks(x, l, a, b), Sinks(x, l, c, d), b < d
               PROVE  FALSE
    OBVIOUS
  <2>1. b \in Levels /\ d \in Levels /\ a \in Int /\ c \in Int /\ b # l
    BY LevelsType DEF Sinks, Levels
  <2>2. Start[b] + Band[b] <= Start[d] /\ a < Band[b] /\ c >= 0 /\ Start[b] + a = Start[d] + c
    BY <2>1, StartGrows, LevelsType DEF Sinks, Levels
  <2>3. Start[b] \in Nat /\ Start[d] \in Nat /\ Band[b] \in Nat
    BY <2>1, StartGrows
  <2> QED
    BY <2>1, <2>2, <2>3
<1>2. k = m
  <2>1. k \in Int /\ m \in Int
    BY LevelsType DEF Sinks, Levels
  <2> QED
    BY <1>1, <2>1
<1> QED
  <2>1. k \in Levels
    BY LevelsType DEF Sinks, Levels
  <2> QED
    BY <1>2, <2>1, StartGrows DEF Sinks

\* One turn of a loop, or none.
LEMMA ClimbTurn ==
  ASSUME NEW x \in Int, NEW l \in Levels
  PROVE  /\ ~ (x >= Band[l] /\ l < MaxLevel) => Climbs(x, l, x, l)
         /\ x >= Band[l] /\ l < MaxLevel =>
              /\ x - Band[l] \in Int /\ l + 1 \in Levels
              /\ \A y, k : Climbs(x - Band[l], l + 1, y, k) => Climbs(x, l, y, k)
<1>1. /\ Band[l] \in Nat \ {0} /\ Start[l] \in Nat /\ MaxLevel \in Nat
      /\ l \in Nat /\ 1 <= l /\ l <= MaxLevel
  BY StartGrows, LevelsType DEF Levels
<1>2. ~ (x >= Band[l] /\ l < MaxLevel) => Climbs(x, l, x, l)
  BY <1>1 DEF Climbs
<1>3. ASSUME x >= Band[l], l < MaxLevel
      PROVE  /\ x - Band[l] \in Int /\ l + 1 \in Levels
             /\ \A y, k : Climbs(x - Band[l], l + 1, y, k) => Climbs(x, l, y, k)
  <2>1. x - Band[l] \in Int /\ l + 1 \in Levels /\ Start[l + 1] = Start[l] + Band[l]
    BY <1>1, <1>3, StartIs DEF Levels
  <2>2. ASSUME NEW y, NEW k, Climbs(x - Band[l], l + 1, y, k)
        PROVE  Climbs(x, l, y, k)
    <3>1. y \in Int /\ k \in l .. MaxLevel /\ k # l /\ k \in Levels
      BY <1>1, <2>2 DEF Climbs, Levels
    <3>2. Start[k] + y = Start[l] + x
      BY <1>1, <2>1, <2>2 DEF Climbs
    <3>3. y >= 0
      <4>1. CASE k = l + 1
        BY <1>1, <1>3, <2>1, <2>2, <4>1 DEF Climbs
      <4>2. CASE k # l + 1
        BY <2>2, <4>2 DEF Climbs
      <4> QED
        BY <4>1, <4>2
    <3> QED
      BY <2>2, <3>1, <3>2, <3>3 DEF Climbs
  <2> QED
    BY <2>1, <2>2
<1> QED
  BY <1>2, <1>3

LEMMA SinkTurn ==
  ASSUME NEW x \in Int, NEW l \in Levels
  PROVE  /\ ~ (x < 0 /\ l > FloorLevel) => Sinks(x, l, x, l)
         /\ x < 0 /\ l > FloorLevel =>
              /\ l - 1 \in Levels /\ x + Band[l - 1] \in Int
              /\ \A y, k : Sinks(x + Band[l - 1], l - 1, y, k) => Sinks(x, l, y, k)
<1>1. /\ Start[l] \in Nat /\ MaxLevel \in Nat /\ FloorLevel \in Nat /\ 1 <= FloorLevel
      /\ l \in Nat /\ 1 <= l /\ l <= MaxLevel
  BY StartGrows, LevelsType DEF Levels
<1>2. ~ (x < 0 /\ l > FloorLevel) => Sinks(x, l, x, l)
  BY <1>1 DEF Sinks
<1>3. ASSUME x < 0, l > FloorLevel
      PROVE  /\ l - 1 \in Levels /\ x + Band[l - 1] \in Int
             /\ \A y, k : Sinks(x + Band[l - 1], l - 1, y, k) => Sinks(x, l, y, k)
  <2>1. l - 1 \in Levels /\ l - 1 < MaxLevel /\ (l - 1) + 1 = l
    BY <1>1, <1>3 DEF Levels
  <2>2. Band[l - 1] \in Nat \ {0} /\ Start[l - 1] \in Nat
    BY <2>1, StartGrows
  <2>3. Start[l] = Start[l - 1] + Band[l - 1]
    BY <2>1, StartIs
  <2>4. ASSUME NEW y, NEW k, Sinks(x + Band[l - 1], l - 1, y, k)
        PROVE  Sinks(x, l, y, k)
    <3>1. y \in Int /\ k \in 1 .. l /\ k # l /\ k \in Levels
      BY <1>1, <2>4 DEF Sinks, Levels
    <3>2. Start[k] + y = Start[l] + x
      BY <1>1, <2>2, <2>3, <2>4 DEF Sinks
    <3>3. y < Band[k] /\ k >= FloorLevel
      <4>1. CASE k = l - 1
        BY <1>1, <1>3, <2>2, <2>4, <4>1 DEF Sinks
      <4>2. CASE k # l - 1
        BY <2>4, <4>2 DEF Sinks
      <4> QED
        BY <4>1, <4>2
    <3> QED
      BY <2>4, <3>1, <3>2, <3>3 DEF Sinks
  <2> QED
    BY <1>1, <2>1, <2>2, <2>4
<1> QED
  BY <1>2, <1>3

\* The loops end somewhere.
LEMMA ClimbsSome == \A l \in Levels : \A x \in Int : \E y, k : Climbs(x, l, y, k)
<1> DEFINE T == {n \in Nat : \A l \in Levels : MaxLevel - l = n =>
                   \A x \in Int : \E y, k : Climbs(x, l, y, k)}
<1>1. ASSUME NEW n \in Nat, NEW l \in Levels, MaxLevel - l = n, NEW x \in Int,
             n = 0 \/ n - 1 \in T
      PROVE  \E y, k : Climbs(x, l, y, k)
  <2>1. CASE x >= Band[l] /\ l < MaxLevel
    <3>1. n # 0 /\ MaxLevel - (l + 1) = n - 1
      BY <1>1, <2>1, LevelsType DEF Levels
    <3>2. \E y, k : Climbs(x - Band[l], l + 1, y, k)
      BY <1>1, <2>1, <3>1, ClimbTurn
    <3> QED
      BY <2>1, <3>2, ClimbTurn
  <2> QED
    BY <2>1, ClimbTurn
<1>2. 0 \in T /\ \A n \in Nat : n \in T => n + 1 \in T
  <2>1. 0 \in T
    BY <1>1
  <2>2. ASSUME NEW n \in Nat, n \in T
        PROVE  n + 1 \in T
    <3>1. (n + 1) - 1 \in T /\ n + 1 \in Nat
      BY <2>2
    <3> QED
      BY <1>1, <3>1
  <2> QED
    BY <2>1, <2>2
<1> HIDE DEF T
<1>3. Nat \subseteq T
  BY <1>2, Induction
<1>4. \A l \in Levels : MaxLevel - l \in Nat
  BY LevelsType DEF Levels
<1> QED
  BY <1>3, <1>4 DEF T

LEMMA SinksSome == \A l \in Levels : \A x \in Int : \E y, k : Sinks(x, l, y, k)
<1> DEFINE T == {n \in Nat : \A l \in Levels : l = n => \A x \in Int : \E y, k : Sinks(x, l, y, k)}
<1>1. 0 \in T
  BY LevelsType DEF Levels
<1>2. ASSUME NEW n \in Nat, n \in T
      PROVE  n + 1 \in T
  <2> SUFFICES ASSUME NEW l \in Levels, l = n + 1, NEW x \in Int
               PROVE  \E y, k : Sinks(x, l, y, k)
    OBVIOUS
  <2>1. CASE x < 0 /\ l > FloorLevel
    <3>1. \E y, k : Sinks(x + Band[l - 1], l - 1, y, k)
      BY <1>2, <2>1, SinkTurn
    <3> QED
      BY <2>1, <3>1, SinkTurn
  <2> QED
    BY <2>1, SinkTurn
<1> HIDE DEF T
<1>3. Nat \subseteq T
  BY <1>1, <1>2, Induction
<1>4. \A l \in Levels : l \in Nat
  BY LevelsType DEF Levels
<1> QED
  BY <1>3, <1>4 DEF T

Climbing(f) ==
  f = [p \in Int \X Levels |->
        IF p[1] >= Band[p[2]] /\ p[2] < MaxLevel THEN f[<<p[1] - Band[p[2]], p[2] + 1>>] ELSE p]

Sinking(f) ==
  f = [p \in Int \X Levels |->
        IF p[1] < 0 /\ p[2] > FloorLevel THEN f[<<p[1] + Band[p[2] - 1], p[2] - 1>>] ELSE p]

LEMMA ClimbingExists == \E f : Climbing(f)
<1> DEFINE D == Int \X Levels
           C(p, q) == Climbs(p[1], p[2], q[1], q[2])
           f == [p \in D |-> CHOOSE q \in D : C(p, q)]
           next(p) == <<p[1] - Band[p[2]], p[2] + 1>>
           on(p) == p[1] >= Band[p[2]] /\ p[2] < MaxLevel
<1>1. ASSUME NEW p \in D
      PROVE  f[p] \in D /\ C(p, f[p])
  <2>1. PICK y, k : Climbs(p[1], p[2], y, k)
    BY ClimbsSome
  <2>2. <<y, k>> \in D
    BY <2>1, LevelsType DEF Climbs, Levels
  <2>3. C(p, <<y, k>>)
    BY <2>1
  <2> HIDE DEF C, D
  <2> QED
    BY <2>2, <2>3
<1>2. ASSUME NEW p \in D, NEW q \in D, NEW r \in D, C(p, q), C(p, r)
      PROVE  q = r
  <2>1. q[1] = r[1] /\ q[2] = r[2]
    BY <1>2, ClimbsOne
  <2> QED
    BY <2>1
<1>3. ASSUME NEW p \in D
      PROVE  /\ ~ on(p) => C(p, p)
             /\ on(p) => next(p) \in D /\ \A q : C(next(p), q) => C(p, q)
  BY ClimbTurn
<1> HIDE DEF f
<1>4. ASSUME NEW p \in D
      PROVE  f[p] = IF on(p) THEN f[next(p)] ELSE p
  <2> HIDE DEF C, D, on, next
  <2> QED
    BY <1>1, <1>2, <1>3
<1>5. f = [p \in D |-> f[p]]
  BY DEF f
<1>6. Climbing(f)
  BY <1>4, <1>5 DEF Climbing
<1> QED
  BY <1>6

LEMMA SinkingExists == \E f : Sinking(f)
<1> DEFINE D == Int \X Levels
           C(p, q) == Sinks(p[1], p[2], q[1], q[2])
           f == [p \in D |-> CHOOSE q \in D : C(p, q)]
           next(p) == <<p[1] + Band[p[2] - 1], p[2] - 1>>
           on(p) == p[1] < 0 /\ p[2] > FloorLevel
<1>1. ASSUME NEW p \in D
      PROVE  f[p] \in D /\ C(p, f[p])
  <2>1. PICK y, k : Sinks(p[1], p[2], y, k)
    BY SinksSome
  <2>2. <<y, k>> \in D
    BY <2>1, LevelsType DEF Sinks, Levels
  <2>3. C(p, <<y, k>>)
    BY <2>1
  <2> HIDE DEF C, D
  <2> QED
    BY <2>2, <2>3
<1>2. ASSUME NEW p \in D, NEW q \in D, NEW r \in D, C(p, q), C(p, r)
      PROVE  q = r
  <2>1. q[1] = r[1] /\ q[2] = r[2]
    BY <1>2, SinksOne
  <2> QED
    BY <2>1
<1>3. ASSUME NEW p \in D
      PROVE  /\ ~ on(p) => C(p, p)
             /\ on(p) => next(p) \in D /\ \A q : C(next(p), q) => C(p, q)
  BY SinkTurn
<1> HIDE DEF f
<1>4. ASSUME NEW p \in D
      PROVE  f[p] = IF on(p) THEN f[next(p)] ELSE p
  <2> HIDE DEF C, D, on, next
  <2> QED
    BY <1>1, <1>2, <1>3
<1>5. f = [p \in D |-> f[p]]
  BY DEF f
<1>6. Sinking(f)
  BY <1>4, <1>5 DEF Sinking
<1> QED
  BY <1>6

\* What the two functions of the model compute.
LEMMA ClimbIs ==
  ASSUME NEW x \in Int, NEW l \in Levels
  PROVE  Climb[<<x, l>>] \in Int \X Levels
         /\ Climbs(x, l, Climb[<<x, l>>][1], Climb[<<x, l>>][2])
<1> DEFINE T == {n \in Nat : \A m \in Levels : MaxLevel - m = n =>
                   \A z \in Int : LET q == Climb[<<z, m>>] IN
                     q \in Int \X Levels /\ Climbs(z, m, q[1], q[2])}
<1>1. Climbing(Climb)
  BY ClimbingExists DEF Climb, Climbing
<1>2. ASSUME NEW n \in Nat, NEW m \in Levels, MaxLevel - m = n, NEW z \in Int,
             n = 0 \/ n - 1 \in T
      PROVE  Climb[<<z, m>>] \in Int \X Levels
             /\ Climbs(z, m, Climb[<<z, m>>][1], Climb[<<z, m>>][2])
  <2>1. CASE z >= Band[m] /\ m < MaxLevel
    <3>1. n # 0 /\ MaxLevel - (m + 1) = n - 1
      BY <1>2, <2>1, LevelsType DEF Levels
    <3>2. Climb[<<z, m>>] = Climb[<<z - Band[m], m + 1>>]
      BY <1>1, <2>1 DEF Climbing
    <3> QED
      BY <1>2, <2>1, <3>1, <3>2, ClimbTurn
  <2>2. CASE ~ (z >= Band[m] /\ m < MaxLevel)
    <3>1. Climb[<<z, m>>] = <<z, m>>
      BY <1>1, <2>2 DEF Climbing
    <3> QED
      BY <2>2, <3>1, ClimbTurn
  <2> QED
    BY <2>1, <2>2
<1>3. 0 \in T
  BY <1>2
<1>4. ASSUME NEW n \in Nat, n \in T
      PROVE  n + 1 \in T
  <2>1. (n + 1) - 1 \in T /\ n + 1 \in Nat
    BY <1>4
  <2> QED
    BY <1>2, <2>1
<1> HIDE DEF T
<1>5. Nat \subseteq T
  BY <1>3, <1>4, Induction
<1>6. MaxLevel - l \in Nat
  BY LevelsType DEF Levels
<1> QED
  BY <1>5, <1>6 DEF T

LEMMA SinkIs ==
  ASSUME NEW x \in Int, NEW l \in Levels
  PROVE  Sink[<<x, l>>] \in Int \X Levels
         /\ Sinks(x, l, Sink[<<x, l>>][1], Sink[<<x, l>>][2])
<1> DEFINE T == {n \in Nat : \A m \in Levels : m = n =>
                   \A z \in Int : LET q == Sink[<<z, m>>] IN
                     q \in Int \X Levels /\ Sinks(z, m, q[1], q[2])}
<1>1. Sinking(Sink)
  BY SinkingExists DEF Sink, Sinking
<1>2. ASSUME NEW n \in Nat, n \in T, NEW m \in Levels, m = n + 1, NEW z \in Int
      PROVE  Sink[<<z, m>>] \in Int \X Levels
             /\ Sinks(z, m, Sink[<<z, m>>][1], Sink[<<z, m>>][2])
  <2>1. CASE z < 0 /\ m > FloorLevel
    <3>1. Sink[<<z, m>>] = Sink[<<z + Band[m - 1], m - 1>>]
      BY <1>1, <2>1 DEF Sinking
    <3>2. m - 1 = n
      BY <1>2
    <3> QED
      BY <1>2, <2>1, <3>1, <3>2, SinkTurn
  <2>2. CASE ~ (z < 0 /\ m > FloorLevel)
    <3>1. Sink[<<z, m>>] = <<z, m>>
      BY <1>1, <2>2 DEF Sinking
    <3> QED
      BY <2>2, <3>1, SinkTurn
  <2> QED
    BY <2>1, <2>2
<1>3. 0 \in T
  BY LevelsType DEF Levels
<1>4. \A n \in Nat : n \in T => n + 1 \in T
  BY <1>2
<1> HIDE DEF T
<1>5. Nat \subseteq T
  BY <1>3, <1>4, Induction
<1>6. l \in Nat
  BY LevelsType DEF Levels
<1> QED
  BY <1>5, <1>6 DEF T

-----------------------------------------------------------------------------
(* resolve: the level a total has reached *)

Low(l) == Start[IF l < FloorLevel THEN l ELSE FloorLevel]
Top == Start[MaxLevel] + Band[MaxLevel]
Within(t, low, high) == IF t < low THEN low ELSE IF t > high THEN high ELSE t

LEMMA LevelFacts ==
  /\ MaxLevel \in Levels /\ FloorLevel \in Levels /\ Levels \subseteq Nat \ {0}
  /\ \A l \in Levels : l <= MaxLevel /\ Start[l] \in Nat /\ Band[l] \in Nat \ {0}
  /\ \A k, l \in Levels : k <= l => Start[k] <= Start[l]
  /\ \A l \in Levels : Start[l] + Band[l] <= Top
  /\ \A l \in Levels : Low(l) \in Nat /\ Low(l) <= Start[l]
  /\ Top \in Nat
<1>1. /\ MaxLevel \in Levels /\ FloorLevel \in Levels /\ Levels \subseteq Nat \ {0}
      /\ \A l \in Levels : l <= MaxLevel
  BY LevelsType DEF Levels
<1>2. \A l \in Levels : Start[l] \in Nat /\ Band[l] \in Nat \ {0}
  BY StartGrows
<1>3. ASSUME NEW k \in Levels, NEW l \in Levels, k <= l
      PROVE  Start[k] <= Start[l]
  BY <1>1, <1>2, <1>3, StartGrows
<1>4. ASSUME NEW l \in Levels
      PROVE  Start[l] + Band[l] <= Top
  <2>1. l # MaxLevel => Start[l] + Band[l] <= Start[MaxLevel]
    BY <1>1, StartGrows
  <2> QED
    BY <1>1, <1>2, <2>1 DEF Top
<1>5. \A l \in Levels : Low(l) \in Nat /\ Low(l) <= Start[l]
  BY <1>1, <1>2, <1>3 DEF Low
<1> QED
  BY <1>1, <1>2, <1>3, <1>4, <1>5 DEF Top

\* The level a total of experience has reached, and what is over.
Reaches(t, y, k) ==
  /\ y \in Nat /\ k \in Levels /\ Start[k] + y = t
  /\ y < Band[k] \/ (k = MaxLevel /\ y = Band[k])

LEMMA ResolveIs ==
  ASSUME NEW x \in Int, NEW l \in Levels
  PROVE  LET r == Resolve(x, l) IN
         /\ r = [xp |-> r.xp, level |-> r.level]
         /\ Reaches(Within(Start[l] + x, Low(l), Top), r.xp, r.level)
<1> DEFINE up == Climb[<<x, l>>]
           full == IF up[2] = MaxLevel /\ up[1] > Band[MaxLevel] THEN Band[MaxLevel] ELSE up[1]
           down == Sink[<<full, up[2]>>]
           got == IF down[1] < 0 THEN 0 ELSE down[1]
           t == Within(Start[l] + x, Low(l), Top)
<1>1. Resolve(x, l) = [xp |-> got, level |-> down[2]]
  BY DEF Resolve
<1>2. /\ up[1] \in Int /\ up[2] \in Levels /\ Climbs(x, l, up[1], up[2])
  BY ClimbIs
<1> HIDE DEF up
<1>3. full \in Int
  BY <1>2, LevelFacts
<1>4. down[1] \in Int /\ down[2] \in Levels /\ Sinks(full, up[2], down[1], down[2])
  <2> HIDE DEF full
  <2> QED
    BY <1>2, <1>3, SinkIs
<1> HIDE DEF down
<1>5. CASE x >= 0
  <2>1. up[1] >= 0
    BY <1>2, <1>5, LevelFacts, StartGrows DEF Climbs
  <2>2. full >= 0
    BY <1>2, <2>1, LevelFacts
  <2>3. down[1] = full /\ down[2] = up[2]
    <3> HIDE DEF full
    <3>1. Sinks(full, up[2], full, up[2])
      BY <1>2, <1>3, <2>2, SinkTurn
    <3> QED
      BY <1>2, <1>3, <1>4, <3>1, SinksOne
  <2>4. Start[up[2]] + up[1] = Start[l] + x /\ (up[1] < Band[up[2]] \/ up[2] = MaxLevel)
    BY <1>2 DEF Climbs
  <2>5. Reaches(t, full, up[2])
    <3>1. CASE up[2] = MaxLevel /\ up[1] > Band[MaxLevel]
      <4>1. Start[l] + x > Top /\ Low(l) <= Top
        BY <1>2, <2>4, <3>1, LevelFacts DEF Top
      <4>2. t = Top
        BY <4>1, LevelFacts DEF Within
      <4> QED
        BY <3>1, <4>2, LevelFacts DEF Reaches, Top
    <3>2. CASE ~ (up[2] = MaxLevel /\ up[1] > Band[MaxLevel])
      <4>1. up[1] < Band[up[2]] \/ (up[2] = MaxLevel /\ up[1] = Band[up[2]])
        BY <1>2, <2>4, <3>2, LevelFacts
      <4>2. Start[l] + x <= Top /\ Start[l] + x >= Low(l)
        <5>1. Start[up[2]] + Band[up[2]] <= Top /\ Start[up[2]] \in Nat /\ Band[up[2]] \in Nat
          BY <1>2, LevelFacts
        <5>2. Start[l] \in Nat /\ Low(l) \in Nat /\ Low(l) <= Start[l] /\ Top \in Nat
          BY LevelFacts
        <5> QED
          BY <1>2, <1>5, <2>4, <4>1, <5>1, <5>2
      <4>3. t = Start[l] + x
        BY <4>2, LevelFacts DEF Within
      <4> QED
        BY <1>2, <2>1, <2>4, <3>2, <4>1, <4>3 DEF Reaches
    <3> QED
      BY <3>1, <3>2
  <2>6. Resolve(x, l) = [xp |-> full, level |-> up[2]]
    BY <1>1, <1>3, <2>2, <2>3
  <2> HIDE DEF full, t
  <2> QED
    BY <2>5, <2>6 DEF t
<1>6. CASE x < 0
  <2>1. up[1] = x /\ up[2] = l
    <3>1. Climbs(x, l, x, l)
      BY <1>6, ClimbTurn, LevelFacts
    <3> QED
      BY <1>2, <3>1, ClimbsOne
  <2>2. full = x
    BY <1>6, <2>1, LevelFacts
  <2> DEFINE y == down[1]
             k == down[2]
  <2>3. Sinks(x, l, y, k) /\ y \in Int /\ k \in Levels
    BY <1>4, <2>1, <2>2
  <2> HIDE DEF y, k
  <2>4. /\ Start[l] \in Nat /\ Start[k] \in Nat /\ Low(l) \in Nat /\ Top \in Nat /\ l \in Nat
        /\ Start[l] <= Top /\ FloorLevel \in Nat /\ k \in Nat /\ k <= MaxLevel /\ Band[k] \in Nat \ {0}
    BY <2>3, LevelFacts
  <2>5. /\ Start[k] + y = Start[l] + x /\ k <= l /\ (y >= 0 \/ k <= FloorLevel)
        /\ k = l \/ (y < Band[k] /\ k >= FloorLevel)
    BY <2>3, <2>4 DEF Sinks
  <2>6. CASE y >= 0
    <3>1. k # l /\ k >= FloorLevel /\ y < Band[k]
      BY <1>6, <2>3, <2>4, <2>5, <2>6
    <3>2. Low(l) <= Start[k]
      <4>1. ~ (l < FloorLevel)
        BY <2>4, <2>5, <3>1
      <4> QED
        BY <2>3, <3>1, <4>1, LevelFacts DEF Low
    <3>3. t = Start[k] + y
      BY <1>6, <2>3, <2>4, <2>5, <2>6, <3>2 DEF Within
    <3>4. Reaches(t, y, k)
      BY <2>3, <2>6, <3>1, <3>3 DEF Reaches
    <3> QED
      BY <1>1, <2>3, <2>6, <3>4 DEF y, k
  <2>7. CASE y < 0
    <3>1. Start[k] = Low(l)
      <4>1. k = IF l < FloorLevel THEN l ELSE FloorLevel
        BY <2>3, <2>4, <2>5, <2>7
      <4> QED
        BY <4>1 DEF Low
    <3>2. Start[l] + x < Low(l)
      BY <2>3, <2>4, <2>5, <2>7, <3>1
    <3>3. t = Start[k] + 0
      BY <2>4, <3>1, <3>2 DEF Within
    <3>4. Reaches(t, 0, k)
      BY <2>3, <2>4, <3>3 DEF Reaches
    <3> QED
      BY <1>1, <2>7, <3>4 DEF y, k
  <2> QED
    BY <2>3, <2>6, <2>7
<1> QED
  BY <1>5, <1>6

LEMMA MaxIs ==
  ASSUME NEW S \in SUBSET Int, NEW m \in S, \A x \in S : x <= m
  PROVE  Max(S) = m
<1>1. \A y \in S : m >= y
  OBVIOUS
<1>2. Max(S) \in S /\ \A y \in S : Max(S) >= y
  BY <1>1 DEF Max
<1>3. Max(S) \in Int /\ m \in Int /\ Max(S) >= m /\ m >= Max(S)
  BY <1>2
<1> QED
  BY <1>3

LEMMA WithinIs ==
  ASSUME NEW t \in Int, NEW low \in Int, NEW high \in Int, low <= high
  PROVE  Max({low, Min({high, t})}) = Within(t, low, high)
<1> DEFINE n == IF t < high THEN t ELSE high
<1>1. Min({high, t}) = n
  <2>1. n \in {high, t} /\ \A y \in {high, t} : n <= y
    OBVIOUS
  <2>2. Min({high, t}) \in {high, t} /\ \A y \in {high, t} : Min({high, t}) <= y
    BY <2>1 DEF Min
  <2> QED
    BY <2>1, <2>2
<1> DEFINE m == IF low > n THEN low ELSE n
<1>2. Max({low, n}) = m
  <2>1. {low, n} \in SUBSET Int /\ m \in {low, n} /\ \A x \in {low, n} : x <= m
    OBVIOUS
  <2> HIDE DEF m, n
  <2> QED
    BY <2>1, MaxIs
<1> QED
  BY <1>1, <1>2 DEF Within

\* resolve is what it is for: the total, kept within bounds, by level.
LEMMA ResolveRefers ==
  ASSUME NEW x \in Int, NEW l \in Levels
  PROVE  Resolve(x, l) = Reference(x, l)
<1> DEFINE r == Resolve(x, l)
           t == Within(Start[l] + x, Low(l), Top)
           S == {k \in Levels : Start[k] <= t}
<1>1. r = [xp |-> r.xp, level |-> r.level] /\ Reaches(t, r.xp, r.level)
  BY ResolveIs
<1> HIDE DEF r, t
<1>2. Max(S) = r.level
  <2>1. r.level \in Levels /\ r.xp \in Nat /\ t = Start[r.level] + r.xp
    BY <1>1 DEF Reaches
  <2>2. r.level \in S
    <3>1. Start[r.level] \in Nat
      BY <2>1, LevelFacts
    <3>2. Start[r.level] <= t
      BY <2>1, <3>1
    <3> QED
      BY <2>1, <3>2
  <2>3. ASSUME NEW k \in S, k > r.level
        PROVE  FALSE
    <3>0. r.level \in Levels /\ k \in Levels /\ r.level < k /\ r.level \in Nat /\ k \in Nat
      BY <2>1, <2>3, LevelFacts
    <3>1. Start[r.level] + Band[r.level] <= Start[k] /\ r.level # MaxLevel
      BY <3>0, LevelFacts, StartGrows
    <3>2. r.xp < Band[r.level]
      BY <1>1, <3>1 DEF Reaches
    <3>3. Start[r.level] \in Nat /\ Start[k] \in Nat /\ Band[r.level] \in Nat /\ Start[k] <= t
      BY <2>1, LevelFacts
    <3> QED
      BY <2>1, <3>1, <3>2, <3>3
  <2>4. S \in SUBSET Int /\ \A k \in S : k <= r.level
    <3>1. \A k \in Levels : k \in Int
      BY LevelFacts
    <3> QED
      BY <2>1, <2>3, <3>1
  <2> HIDE DEF S
  <2> QED
    BY <2>2, <2>4, MaxIs
<1>3. Max({Low(l), Min({Top, Start[l] + x})}) = t
  <2>1. Low(l) \in Int /\ Top \in Int /\ Start[l] + x \in Int /\ Low(l) <= Top
    BY LevelFacts
  <2> QED
    BY <2>1, WithinIs DEF t
<1>4. Reference(x, l) = [xp |-> t - Start[Max(S)], level |-> Max(S)]
  BY <1>3 DEF Reference, Low, Top
<1>5. t - Start[r.level] = r.xp
  BY <1>1, LevelFacts DEF Reaches
<1> HIDE DEF S
<1> QED
  BY <1>1, <1>2, <1>4, <1>5 DEF r

-----------------------------------------------------------------------------
(* Types, and what a character holds against what it earned *)

\* Where the experience of two copies is the same.
SameXp(c, d) == d.level = c.level /\ d.xp = c.xp /\ d.earned = c.earned

LEMMA TotalNat ==
  ASSUME NEW c, c.level \in Levels, c.xp \in Nat
  PROVE  Total(c) \in Nat /\ Total(c) = Start[c.level] + c.xp
<1>1. Start[c.level] \in Nat
  BY LevelFacts
<1>2. Total(c) = Start[c.level] + c.xp
  BY DEF Total
<1> QED
  BY <1>1, <1>2

LEMMA AwardedType ==
  ASSUME NEW c \in Character, NEW n \in Int
  PROVE  LET a == Awarded(c, n) IN
         /\ a \in Character
         /\ Total(a) = Within(Total(c) + n, Low(c.level), Top)
         /\ Reaches(Total(a), a.xp, a.level)
         /\ a.earned = c.earned /\ a.fallen = c.fallen /\ a.lost = c.lost
<1> DEFINE r == Resolve(c.xp + n, c.level)
           t == Within(Start[c.level] + (c.xp + n), Low(c.level), Top)
           a == Awarded(c, n)
<1>1. c.level \in Levels /\ c.xp \in Nat /\ c.xp + n \in Int
  BY DEF Character
<1>2. Reaches(t, r.xp, r.level)
  BY <1>1, ResolveIs
<1>3. a = [c EXCEPT !.xp = r.xp, !.level = r.level]
  BY DEF Awarded
<1> HIDE DEF r, a
<1>4. r.xp \in Nat /\ r.level \in Levels /\ Start[r.level] + r.xp = t
  BY <1>2 DEF Reaches
<1> HIDE DEF t
<1>5. /\ a \in Character /\ a.xp = r.xp /\ a.level = r.level
      /\ a.earned = c.earned /\ a.fallen = c.fallen /\ a.lost = c.lost
  BY <1>3, <1>4 DEF Character
<1>6. Start[c.level] + (c.xp + n) = Total(c) + n
  <2>1. Start[c.level] \in Nat
    BY <1>1, LevelFacts
  <2>2. Total(c) = Start[c.level] + c.xp
    BY <1>1, TotalNat
  <2> QED
    BY <1>1, <2>1, <2>2
<1>7. Total(a) = t
  BY <1>4, <1>5 DEF Total
<1> QED
  BY <1>2, <1>5, <1>6, <1>7 DEF t, a

LEMMA EarnedType ==
  ASSUME NEW c \in Character, NEW n \in Nat
  PROVE  /\ Earned(c, n) \in Character
         /\ Earned(c, n).earned = c.earned + n
         /\ Total(Earned(c, n)) <= Total(c) + n
         /\ Earned(c, n).fallen = c.fallen /\ Earned(c, n).lost = c.lost
<1> DEFINE a == Awarded(c, n)
           e == Earned(c, n)
<1>1. /\ a \in Character /\ Total(a) = Within(Total(c) + n, Low(c.level), Top)
      /\ a.earned = c.earned /\ a.fallen = c.fallen /\ a.lost = c.lost
  BY AwardedType
<1>2. e = [a EXCEPT !.earned = @ + n]
  BY DEF Earned
<1> HIDE DEF a, e
<1>3. c.earned + n \in Nat
  BY DEF Character
<1>4. /\ e \in Character /\ e.earned = c.earned + n /\ e.level = a.level /\ e.xp = a.xp
      /\ e.fallen = c.fallen /\ e.lost = c.lost
  BY <1>1, <1>2, <1>3 DEF Character
<1>5. Total(e) = Total(a)
  BY <1>4 DEF Total
<1>6. c.level \in Levels /\ c.xp \in Nat
  BY DEF Character
<1>7. /\ Low(c.level) \in Nat /\ Total(c) \in Nat /\ Top \in Nat
      /\ Low(c.level) <= Start[c.level] /\ Start[c.level] \in Nat /\ Total(c) = Start[c.level] + c.xp
  BY <1>6, LevelFacts, TotalNat
<1> QED
  BY <1>1, <1>4, <1>5, <1>6, <1>7 DEF Within, e

\* What a death takes is at least what a resurrection may give back.
LEMMA PenalizedType ==
  ASSUME NEW c \in Character
  PROVE  /\ Penalized(c) \in Character
         /\ Penalized(c).earned = c.earned
         /\ Total(Penalized(c)) + Penalized(c).lost <= Total(c)
<1> DEFINE loss == (Band[c.level] * LossPct) \div 100
           after == Awarded(c, -loss)
           floored == after.level = c.level /\ after.xp = 0
           lost == IF floored THEN c.xp ELSE loss
<1>1. c.level \in Levels /\ c.xp \in Nat /\ Total(c) = Start[c.level] + c.xp /\ Total(c) \in Nat
  BY TotalNat DEF Character
<1>2. loss \in Nat
  <2>1. \A b, m \in Nat : (b * m) \div 100 \in Nat
    <3>1. \A b, m \in Nat : b * m \in Nat
      OBVIOUS
    <3>2. \A k \in Nat : k \div 100 \in Nat
      OBVIOUS
    <3> QED
      BY <3>1, <3>2
  <2>2. Band[c.level] \in Nat /\ LossPct \in Nat
    BY <1>1, LevelFacts, LossesType
  <2> QED
    BY <2>1, <2>2
<1>3. c.level > FloorLevel => loss <= Band[c.level - 1]
  <2>1. ASSUME c.level > FloorLevel
        PROVE  c.level \in FloorLevel + 1 .. MaxLevel
    BY <1>1, <2>1, LevelsType DEF Levels
  <2> QED
    BY <2>1, LossesType
<1>4. Penalized(c) = IF c.level < FloorLevel \/ loss = 0 THEN [c EXCEPT !.lost = 0]
                     ELSE [after EXCEPT !.lost = lost]
  BY DEF Penalized
<1> HIDE DEF loss
<1>5. /\ after \in Character /\ Total(after) = Within(Total(c) + (-loss), Low(c.level), Top)
      /\ Reaches(Total(after), after.xp, after.level) /\ after.earned = c.earned
  <2>1. -loss \in Int
    BY <1>2
  <2> QED
    BY <2>1, AwardedType
<1> HIDE DEF after
<1>6. after.level \in Levels /\ after.xp \in Nat
  BY <1>5 DEF Character
<1>7. CASE c.level < FloorLevel \/ loss = 0
  <2>1. Penalized(c) = [c EXCEPT !.lost = 0]
    BY <1>4, <1>7
  <2>2. /\ Penalized(c) \in Character /\ Penalized(c).earned = c.earned /\ Penalized(c).lost = 0
        /\ Penalized(c).level = c.level /\ Penalized(c).xp = c.xp
    BY <2>1 DEF Character
  <2> QED
    BY <1>1, <2>2 DEF Total
<1>8. CASE ~ (c.level < FloorLevel \/ loss = 0)
  <2>1. lost \in Nat
    BY <1>1, <1>2
  <2>2. Penalized(c) = [after EXCEPT !.lost = lost]
    BY <1>4, <1>8
  <2>3. /\ Penalized(c) \in Character /\ Penalized(c).earned = c.earned /\ Penalized(c).lost = lost
        /\ Penalized(c).level = after.level /\ Penalized(c).xp = after.xp
    <3> HIDE DEF lost
    <3> QED
      BY <1>5, <1>6, <2>1, <2>2 DEF Character
  <2>4. Total(Penalized(c)) = Total(after)
    BY <2>3 DEF Total
  <2>5. Total(after) = Start[after.level] + after.xp
    BY DEF Total
  <2>6. /\ Low(c.level) = Start[FloorLevel] /\ Low(c.level) \in Nat /\ Top \in Nat
        /\ Low(c.level) <= Start[c.level] /\ Start[c.level] \in Nat
    <3>1. ~ (c.level < FloorLevel)
      BY <1>8
    <3>2. Low(c.level) = Start[FloorLevel]
      BY <3>1 DEF Low
    <3> QED
      BY <1>1, <3>2, LevelFacts
  <2>7. CASE c.level = FloorLevel
    <3>1. Low(c.level) = Start[c.level]
      BY <2>6, <2>7
    <3>2. CASE Total(c) - loss >= Low(c.level)
      <4>1. Total(after) <= Total(c) - loss /\ Total(after) \in Nat
        BY <1>1, <1>2, <1>5, <2>6, <3>2 DEF Within
      <4>2. lost <= loss \/ (lost = c.xp /\ Total(after) = Start[c.level])
        BY <1>2, <1>6, <2>5, <2>6
      <4> QED
        BY <1>1, <1>2, <2>1, <2>3, <2>4, <2>6, <4>1, <4>2
    <3>3. CASE ~ (Total(c) - loss >= Low(c.level))
      <4>1. Total(after) = Start[c.level]
        BY <1>1, <1>2, <1>5, <2>6, <3>1, <3>3 DEF Within
      <4>2. floored
        <5>1. /\ c.level < after.level => Start[c.level] + Band[c.level] <= Start[after.level]
              /\ after.level < c.level => Start[after.level] + Band[after.level] <= Start[c.level]
          BY <1>1, <1>6, StartGrows
        <5>2. /\ c.level \in Nat /\ after.level \in Nat /\ c.level <= MaxLevel /\ MaxLevel \in Nat
              /\ Start[after.level] \in Nat /\ Band[after.level] \in Nat /\ Band[c.level] \in Nat \ {0}
          BY <1>1, <1>6, LevelFacts
        <5>3. after.level < c.level => after.xp < Band[after.level]
          BY <1>5, <5>2 DEF Reaches
        <5> QED
          BY <1>1, <1>6, <2>5, <2>6, <4>1, <5>1, <5>2, <5>3
      <4>3. lost = c.xp
        BY <4>2
      <4> QED
        BY <1>1, <2>3, <2>4, <2>6, <4>1, <4>3
    <3> QED
      BY <3>2, <3>3
  <2>8. CASE c.level # FloorLevel
    <3>1. c.level > FloorLevel /\ c.level - 1 \in Levels /\ FloorLevel <= c.level - 1
      BY <1>1, <1>8, <2>8, LevelsType DEF Levels
    <3>2. Start[c.level] = Start[c.level - 1] + Band[c.level - 1]
          /\ Start[FloorLevel] <= Start[c.level - 1]
      <4>1. c.level - 1 < MaxLevel /\ (c.level - 1) + 1 = c.level
        BY <1>1, LevelsType DEF Levels
      <4> QED
        BY <3>1, <4>1, StartIs, LevelFacts
    <3>3. Start[c.level - 1] \in Nat /\ Band[c.level - 1] \in Nat
      BY <3>1, LevelFacts
    <3>4. Total(c) - loss >= Low(c.level)
      BY <1>1, <1>2, <1>3, <2>6, <3>1, <3>2, <3>3
    <3>5. Total(after) <= Total(c) - loss /\ Total(after) \in Nat
      BY <1>1, <1>2, <1>5, <2>6, <3>4 DEF Within
    <3>6. lost <= loss \/ (lost = c.xp /\ Total(after) = Start[c.level])
      BY <1>2, <1>6, <2>5, <2>6
    <3> QED
      BY <1>1, <1>2, <2>1, <2>3, <2>4, <2>6, <3>5, <3>6
  <2> QED
    BY <2>7, <2>8
<1> QED
  BY <1>7, <1>8

-----------------------------------------------------------------------------
(* Types of what the steps make *)

LEMMA SameTotal ==
  ASSUME NEW c, NEW d, SameXp(c, d)
  PROVE  Total(d) = Total(c)
BY DEF SameXp, Total

\* The character d is c but for quests and rows.
SameBody(c, d) == SameXp(c, d) /\ d.fallen = c.fallen /\ d.lost = c.lost

LEMMA CleanedType ==
  ASSUME NEW c \in Character, NEW qs
  PROVE  LET d == [c EXCEPT !.dirty = @ \ qs] IN d \in Character /\ SameBody(c, d)
<1> DEFINE rest == c.dirty \ qs
           d == [c EXCEPT !.dirty = rest]
<1>1. rest \in SUBSET Quests
  BY DEF Character
<1> HIDE DEF rest
<1>2. d \in Character /\ SameBody(c, d)
  BY <1>1 DEF Character, SameBody, SameXp
<1> QED
  BY <1>2 DEF rest

LEMMA WithXpType ==
  ASSUME NEW r \in Row, NEW c \in Character
  PROVE  WithXp(r, c) \in Row /\ SameXp(c, WithXp(r, c))
BY DEF Row, Character, WithXp, SameXp

LEMMA WithStoresType ==
  ASSUME NEW r \in Row, NEW c \in Character
  PROVE  WithStores(r, c) \in Row /\ SameXp(r, WithStores(r, c))
BY DEF Row, Character, WithStores, SameXp

LEMMA WithJournalType ==
  ASSUME NEW r \in Row, NEW c \in Character, NEW qs
  PROVE  WithJournal(r, c, qs) \in Row /\ SameXp(r, WithJournal(r, c, qs))
<1> DEFINE j == [q \in Quests |-> IF q \in qs THEN c.journal[q] ELSE r.journal[q]]
<1>1. c.journal \in Journal /\ r.journal \in Journal
  BY DEF Row, Character
<1>2. j \in Journal
  BY <1>1 DEF Journal
<1>3. WithJournal(r, c, qs) = [r EXCEPT !.journal = j]
  BY DEF WithJournal
<1> HIDE DEF j
<1> QED
  BY <1>2, <1>3 DEF Row, SameXp

\* What lands of a save is the character's experience, or none of it.
LEMMA FlushedType ==
  ASSUME NEW r \in Row, NEW c \in Character, NEW res \in BOOLEAN, NEW stores \in BOOLEAN, NEW qs
  PROVE  LET f == Flushed(r, c, res, stores, qs) IN f \in Row /\ (SameXp(r, f) \/ SameXp(c, f))
<1> DEFINE r1 == IF res THEN [WithXp(r, c) EXCEPT !.dead = c.dead] ELSE r
           r2 == IF stores THEN WithStores(r1, c) ELSE r1
           f == Flushed(r, c, res, stores, qs)
<1>1. r1 \in Row /\ (SameXp(r, r1) \/ SameXp(c, r1))
  <2>1. WithXp(r, c) \in Row /\ SameXp(c, WithXp(r, c))
    BY WithXpType
  <2>2. c.dead \in BOOLEAN
    BY DEF Character
  <2>3. LET d == [WithXp(r, c) EXCEPT !.dead = c.dead] IN d \in Row /\ SameXp(c, d)
    BY <2>1, <2>2 DEF Row, SameXp
  <2> QED
    BY <2>3 DEF SameXp
<1> HIDE DEF r1
<1>2. r2 \in Row /\ (SameXp(r, r2) \/ SameXp(c, r2))
  BY <1>1, WithStoresType DEF SameXp
<1>3. f = WithJournal(r2, c, qs)
  BY DEF Flushed, r1
<1> HIDE DEF r2, f
<1>4. f \in Row /\ SameXp(r2, f)
  BY <1>2, <1>3, WithJournalType
<1>5. SameXp(r, f) \/ SameXp(c, f)
  BY <1>2, <1>4 DEF SameXp
<1> QED
  BY <1>4, <1>5 DEF f

LEMMA LoadedType ==
  ASSUME NEW r \in Row
  PROVE  Loaded(r) \in Character /\ SameXp(r, Loaded(r)) /\ ~Loaded(r).fallen
<1>1. OpenJournal(r) \in Journal
  BY DEF Row, Journal, OpenJournal
<1> QED
  BY <1>1 DEF Loaded, Row, Character, SameXp

\* A kill counts to what the quest asks and no further.
LEMMA CountedType ==
  ASSUME NEW c \in Character, NEW qs \in SUBSET Quests
  PROVE  Counted(c, qs) \in Character /\ SameBody(c, Counted(c, qs))
<1> DEFINE counts == {q \in qs : c.journal[q] # None /\ c.journal[q] < Required[q]}
           j == [q \in Quests |-> IF q \in counts THEN c.journal[q] + 1 ELSE c.journal[q]]
           d == c.dirty \cup counts
<1>1. j \in Journal
  <2>1. c.journal \in [Quests -> Nat \cup {None}] /\ \A q \in Quests : c.journal[q] = None \/ c.journal[q] <= Required[q]
    BY DEF Character, Journal
  <2>2. \A q \in Quests : Required[q] \in Nat
    BY QuestsType
  <2>3. ASSUME NEW q \in counts
        PROVE  c.journal[q] + 1 \in Nat /\ c.journal[q] + 1 <= Required[q]
    BY <2>1, <2>2
  <2> HIDE DEF counts
  <2> QED
    BY <2>1, <2>3 DEF Journal
<1>2. d \in SUBSET Quests
  BY DEF Character
<1>3. Counted(c, qs) = [c EXCEPT !.journal = j, !.dirty = d]
  BY DEF Counted
<1> HIDE DEF j, d, counts
<1> QED
  BY <1>1, <1>2, <1>3 DEF Character, SameBody, SameXp

LEMMA RewardedType ==
  ASSUME NEW c \in Character, NEW q \in Quests
  PROVE  LET d == Rewarded(c, q) IN
         /\ d \in Character
         /\ d.earned = c.earned + Reward[q]
         /\ Total(d) <= Total(c) + Reward[q]
         /\ d.fallen = c.fallen /\ d.lost = c.lost
<1> DEFINE e == Earned(c, Reward[q])
           d == Rewarded(c, q)
<1>1. /\ e \in Character /\ e.earned = c.earned + Reward[q]
      /\ Total(e) <= Total(c) + Reward[q] /\ e.fallen = c.fallen /\ e.lost = c.lost
  <2>1. Reward[q] \in Nat
    BY QuestsType
  <2> QED
    BY <2>1, EarnedType
<1> HIDE DEF e
<1> DEFINE paid == [e.paid EXCEPT ![q] = @ + 1]
           done == e.done \cup {q}
           handed == e.handed \cup {q}
           j == [e.journal EXCEPT ![q] = None]
           dirty == e.dirty \ {q}
<1>2. /\ paid \in [Quests -> Nat] /\ done \in SUBSET Quests /\ handed \in SUBSET Quests
      /\ j \in Journal /\ dirty \in SUBSET Quests
  BY <1>1 DEF Character, Journal
<1>3. d = [e EXCEPT !.paid = paid, !.done = done, !.handed = handed, !.journal = j, !.dirty = dirty]
  BY DEF Rewarded, e
<1> HIDE DEF paid, done, handed, j, dirty, d
<1>4. d \in Character /\ SameBody(e, d)
  BY <1>1, <1>2, <1>3 DEF Character, SameBody, SameXp
<1>5. Total(d) = Total(e)
  BY <1>4, SameTotal DEF SameBody
<1> QED
  BY <1>1, <1>4, <1>5 DEF d, SameBody, SameXp

LEMMA RecordedType ==
  ASSUME NEW r \in Row, NEW c \in Character, NEW q \in Quests
  PROVE  Recorded(r, c, q) \in Row /\ SameXp(c, Recorded(r, c, q))
<1> DEFINE x == WithXp(r, c)
           done == x.done \cup {q}
<1>1. x \in Row /\ SameXp(c, x)
  BY WithXpType
<1>2. Recorded(r, c, q) = [x EXCEPT !.done = done]
  BY DEF Recorded
<1> HIDE DEF x
<1>3. done \in SUBSET Quests
  BY <1>1 DEF Row
<1> HIDE DEF done
<1> QED
  BY <1>1, <1>2, <1>3 DEF Row, SameXp

LEMMA ShareNat ==
  ASSUME NEW n \in Nat \ {0}
  PROVE  Share(n) \in Nat
<1> DEFINE pool == IF n > 1 THEN (KillXp * (100 + BonusPct)) \div 100 ELSE KillXp
<1>1. \A k \in Nat : \A m \in Nat \ {0} : k \div m \in Nat
  OBVIOUS
<1>2. KillXp * (100 + BonusPct) \in Nat
  <2>1. 100 + BonusPct \in Nat /\ KillXp \in Nat
    BY SharesType
  <2> QED
    BY <2>1
<1>3. pool \in Nat
  BY <1>1, <1>2, SharesType
<1> HIDE DEF pool
<1>4. pool \div n \in Nat
  BY <1>1, <1>3
<1> QED
  BY <1>4 DEF Share, pool

-----------------------------------------------------------------------------
(* What resurrections may still give back *)

Bodies == [CorpseIds -> Corpse \cup {None}]

LEMMA OwedNat ==
  ASSUME NEW b \in Corpse \cup {None}, NEW p
  PROVE  Owed(b, p) \in Nat
BY DEF Owed, Corpse

LEMMA RefundsIs ==
  ASSUME NEW cs \in Bodies, NEW p
  PROVE  LET f == [k \in CorpseIds |-> Owed(cs[k], p)] IN
         /\ f \in [CorpseIds -> Nat]
         /\ Refunds(cs, p) = SumFunctionOnSet(f, CorpseIds)
         /\ Refunds(cs, p) \in Nat
<1> DEFINE f == [k \in CorpseIds |-> Owed(cs[k], p)]
<1>1. f \in [CorpseIds -> Nat]
  BY OwedNat DEF Bodies
<1>2. Refunds(cs, p) = SumFunctionOnSet(f, CorpseIds)
  BY DEF Refunds, SumFunction
<1> HIDE DEF f
<1>3. SumFunctionOnSet(f, CorpseIds) \in Nat
  BY <1>1, SumNat, FiniteType
<1> QED
  BY <1>1, <1>2, <1>3 DEF f

\* Who keeps less of every corpse keeps less.
LEMMA SumLess ==
  ASSUME NEW S, IsFiniteSet(S), NEW f, NEW g,
         \A x \in S : f[x] \in Int /\ g[x] \in Int /\ f[x] <= g[x]
  PROVE  SumFunctionOnSet(f, S) <= SumFunctionOnSet(g, S)
<1> DEFINE T == {s \in SUBSET S : SumFunctionOnSet(f, s) <= SumFunctionOnSet(g, s)}
<1>1. {} \in T
  BY SumEmpty
<1>2. ASSUME NEW s \in SUBSET S, s # {}, \A x \in s : s \ {x} \in T
      PROVE  s \in T
  <2>1. \A t \in SUBSET s : /\ IsFiniteSet(t)
                            /\ \A x \in t : f[x] \in Int /\ g[x] \in Int /\ f[x] <= g[x]
    BY FS_Subset
  <2>2. PICK x \in s : TRUE
    BY <1>2
  <2>3. SumFunctionOnSet(f, s) = f[x] + SumFunctionOnSet(f, s \ {x})
    BY <2>1, SumRemove
  <2>4. SumFunctionOnSet(g, s) = g[x] + SumFunctionOnSet(g, s \ {x})
    BY <2>1, SumRemove
  <2>5. SumFunctionOnSet(f, s \ {x}) \in Int /\ SumFunctionOnSet(g, s \ {x}) \in Int
    BY <2>1, SumIs
  <2> QED
    BY <1>2, <2>1, <2>3, <2>4, <2>5
<1> HIDE DEF T
<1>3. SUBSET S \subseteq T
  BY <1>1, <1>2, SubsetInduction
<1> QED
  BY <1>3 DEF T

LEMMA RefundsLess ==
  ASSUME NEW cs \in Bodies, NEW ds \in Bodies, NEW p,
         \A k \in CorpseIds : Owed(ds[k], p) <= Owed(cs[k], p)
  PROVE  Refunds(ds, p) <= Refunds(cs, p)
<1> DEFINE f == [k \in CorpseIds |-> Owed(cs[k], p)]
           g == [k \in CorpseIds |-> Owed(ds[k], p)]
<1>1. /\ f \in [CorpseIds -> Nat] /\ Refunds(cs, p) = SumFunctionOnSet(f, CorpseIds)
      /\ g \in [CorpseIds -> Nat] /\ Refunds(ds, p) = SumFunctionOnSet(g, CorpseIds)
  BY RefundsIs
<1>2. \A k \in CorpseIds : g[k] <= f[k]
  OBVIOUS
<1> HIDE DEF f, g
<1>3. \A k \in CorpseIds : g[k] \in Int /\ f[k] \in Int
  BY <1>1
<1> QED
  BY <1>1, <1>2, <1>3, SumLess, FiniteType

\* One corpse's share moves, and the sum by as much.
LEMMA RefundsMoves ==
  ASSUME NEW cs \in Bodies, NEW ds \in Bodies, NEW p, NEW k \in CorpseIds,
         \A j \in CorpseIds \ {k} : ds[j] = cs[j]
  PROVE  Refunds(ds, p) = Refunds(cs, p) - Owed(cs[k], p) + Owed(ds[k], p)
<1> DEFINE f == [j \in CorpseIds |-> Owed(cs[j], p)]
           g == [j \in CorpseIds |-> Owed(ds[j], p)]
<1>1. /\ f \in [CorpseIds -> Nat] /\ Refunds(cs, p) = SumFunctionOnSet(f, CorpseIds)
      /\ g \in [CorpseIds -> Nat] /\ Refunds(ds, p) = SumFunctionOnSet(g, CorpseIds)
  BY RefundsIs
<1>2. (\A j \in CorpseIds \ {k} : f[j] = g[j]) /\ f[k] = Owed(cs[k], p) /\ g[k] = Owed(ds[k], p)
  OBVIOUS
<1> HIDE DEF f, g
<1>3. \A j \in CorpseIds : g[j] \in Int /\ f[j] \in Int
  BY <1>1
<1>4. IsFiniteSet(CorpseIds) /\ IsFiniteSet(CorpseIds \ {k})
  BY FiniteType, FS_Subset
<1>5. SumFunctionOnSet(f, CorpseIds) = f[k] + SumFunctionOnSet(f, CorpseIds \ {k})
  BY <1>3, <1>4, SumRemove
<1>6. SumFunctionOnSet(g, CorpseIds) = g[k] + SumFunctionOnSet(g, CorpseIds \ {k})
  BY <1>3, <1>4, SumRemove
<1>7. SumFunctionOnSet(f, CorpseIds \ {k}) = SumFunctionOnSet(g, CorpseIds \ {k})
  BY <1>2, <1>3, <1>4, SumSame
<1>8. SumFunctionOnSet(f, CorpseIds \ {k}) \in Int /\ f[k] \in Int /\ g[k] \in Int
  BY <1>3, <1>4, SumIs
<1> QED
  BY <1>1, <1>2, <1>5, <1>6, <1>7, <1>8

-----------------------------------------------------------------------------
(* The invariant of experience *)

\* c has, with what is still to be given back, no more than it earned.
Covered(c, owed) == Total(c) + owed <= c.earned

\* What the corpse still to be made of c will give back.
Falling(c) == IF c.fallen THEN c.lost ELSE 0

\* A character in the world, one that waits for its last save, and its row.
Backed(c, w, r, owed) ==
  /\ c \in Character \cup {None} /\ w \in Character \cup {None} /\ r \in Row
  /\ c # None => Covered(c, Falling(c) + owed)
  /\ w # None => Covered(w, owed)
  /\ Covered(r, owed)
  /\ c = None \/ w = None

\* A corpse in the world is as its row is.
Matched(cs, bs) == \A k \in CorpseIds : cs[k] = None \/ cs[k] = bs[k]

XInv ==
  /\ TypeOK /\ Matched(corpses, bodies)
  /\ \A p \in Players : Backed(conn[p], pending[p], row[p], Refunds(bodies, p))

LEMMA SameCovered ==
  ASSUME NEW c, NEW d, SameXp(c, d), NEW x
  PROVE  Covered(d, x) <=> Covered(c, x)
<1>1. Total(d) = Total(c) /\ d.earned = c.earned
  BY SameTotal DEF SameXp
<1> QED
  BY <1>1 DEF Covered

\* Who is owed less is covered as well.
LEMMA LessCovered ==
  ASSUME NEW c, c.level \in Levels, c.xp \in Nat, c.earned \in Nat,
         NEW x \in Nat, NEW y \in Nat, y <= x, Covered(c, x)
  PROVE  Covered(c, y)
BY TotalNat DEF Covered

LEMMA LessBacked ==
  ASSUME NEW c, NEW w, NEW r, NEW x \in Nat, NEW y \in Nat, y <= x, Backed(c, w, r, x)
  PROVE  Backed(c, w, r, y)
<1>1. ASSUME NEW d, d.level \in Levels, d.xp \in Nat, d.earned \in Nat, Covered(d, x)
      PROVE  Covered(d, y)
  BY <1>1, LessCovered
<1>2. r.level \in Levels /\ r.xp \in Nat /\ r.earned \in Nat
  BY DEF Backed, Row
<1>3. w # None => w.level \in Levels /\ w.xp \in Nat /\ w.earned \in Nat
  BY DEF Backed, Character
<1>4. ASSUME c # None
      PROVE  Covered(c, Falling(c) + y)
  <2>1. c.level \in Levels /\ c.xp \in Nat /\ c.earned \in Nat /\ Falling(c) \in Nat
    BY <1>4 DEF Backed, Character, Falling
  <2>2. Falling(c) + y \in Nat /\ Falling(c) + x \in Nat /\ Falling(c) + y <= Falling(c) + x
    BY <2>1
  <2> QED
    BY <1>4, <2>1, <2>2, LessCovered DEF Backed
<1> QED
  BY <1>1, <1>2, <1>3, <1>4 DEF Backed

LEMMA InitXInv == Init => XInv
<1> SUFFICES ASSUME Init
             PROVE  XInv
  OBVIOUS
<1>1. NewRow \in Row /\ NewRow.level = 1 /\ NewRow.xp = 0 /\ NewRow.earned = 0
  <2>1. [q \in Quests |-> None] \in Journal
    BY DEF Journal
  <2>2. 1 \in Levels
    BY LevelsType DEF Levels
  <2> QED
    BY <2>1, <2>2 DEF NewRow, Row
<1>2. TypeOK /\ Matched(corpses, bodies)
  BY <1>1 DEF Init, TypeOK, Matched
<1>3. Total(NewRow) = 0
  <2>1. Start[1] = 0
    BY StartGrows
  <2> QED
    BY <1>1, <2>1 DEF Total
<1>4. ASSUME NEW p \in Players
      PROVE  Refunds(bodies, p) = 0
  <2> DEFINE f == [k \in CorpseIds |-> Owed(bodies[k], p)]
  <2>1. bodies \in Bodies
    BY <1>2 DEF TypeOK, Bodies
  <2>2. f \in [CorpseIds -> Nat] /\ Refunds(bodies, p) = SumFunctionOnSet(f, CorpseIds)
    BY <2>1, RefundsIs
  <2>3. \A k \in CorpseIds : f[k] = 0
    BY DEF Init, Owed
  <2> HIDE DEF f
  <2> QED
    BY <2>2, <2>3, SumNat, FiniteType
<1>5. ASSUME NEW p \in Players
      PROVE  Backed(conn[p], pending[p], row[p], 0)
  BY <1>1, <1>3 DEF Init, Backed, Covered
<1> QED
  BY <1>2, <1>4, <1>5 DEF XInv

-----------------------------------------------------------------------------
(* Its steps *)

LEMMA XFacts ==
  ASSUME XInv, NEW p \in Players
  PROVE  /\ Backed(conn[p], pending[p], row[p], Refunds(bodies, p))
         /\ bodies \in Bodies /\ corpses \in Bodies /\ Refunds(bodies, p) \in Nat
         /\ row[p] \in Row
<1>1. bodies \in Bodies /\ corpses \in Bodies /\ row[p] \in Row
  BY DEF XInv, TypeOK, Bodies
<1>2. Refunds(bodies, p) \in Nat
  BY <1>1, RefundsIs
<1> QED
  BY <1>1, <1>2 DEF XInv

\* A step of one player that leaves the corpses alone.
LEMMA XLocal ==
  ASSUME XInv, NEW p \in Players, NEW c, NEW w, NEW r,
         conn' = [conn EXCEPT ![p] = c], pending' = [pending EXCEPT ![p] = w],
         row' = [row EXCEPT ![p] = r], UNCHANGED <<corpses, bodies>>,
         Backed(c, w, r, Refunds(bodies, p))
  PROVE  XInv'
<1>1. /\ conn \in [Players -> Character \cup {None}] /\ pending \in [Players -> Character \cup {None}]
      /\ row \in [Players -> Row]
  BY DEF XInv, TypeOK
<1>2. c \in Character \cup {None} /\ w \in Character \cup {None} /\ r \in Row
  BY DEF Backed
<1>3. TypeOK' /\ Matched(corpses', bodies')
  BY <1>1, <1>2 DEF XInv, TypeOK
<1>4. ASSUME NEW m \in Players
      PROVE  Backed(conn'[m], pending'[m], row'[m], Refunds(bodies', m))
  <2>1. CASE m = p
    BY <1>1, <2>1
  <2>2. CASE m # p
    <3>1. conn'[m] = conn[m] /\ pending'[m] = pending[m] /\ row'[m] = row[m]
      BY <1>1, <2>2
    <3> QED
      BY <3>1 DEF XInv
  <2> QED
    BY <2>1, <2>2
<1> QED
  BY <1>3, <1>4 DEF XInv

LEMMA SameRow ==
  ASSUME NEW f, NEW p \in Players, NEW S, f \in [Players -> S]
  PROVE  f = [f EXCEPT ![p] = f[p]]
OBVIOUS

LEMMA LoginX ==
  ASSUME XInv, NEW p \in Players, Login(p)
  PROVE  XInv'
<1>1. Backed(conn[p], pending[p], row[p], Refunds(bodies, p)) /\ row[p] \in Row
      /\ Refunds(bodies, p) \in Nat
  BY XFacts
<1> DEFINE c == Loaded(row[p])
<1>2. c \in Character /\ SameXp(row[p], c) /\ ~c.fallen
  BY <1>1, LoadedType
<1>3. conn' = [conn EXCEPT ![p] = c] /\ pending[p] = None
  BY DEF Login
<1> HIDE DEF c
<1>4. Covered(c, Refunds(bodies, p)) /\ Falling(c) = 0
  BY <1>1, <1>2, SameCovered DEF Backed, Falling
<1>5. Falling(c) + Refunds(bodies, p) = Refunds(bodies, p)
  BY <1>1, <1>4
<1>6. Backed(c, pending[p], row[p], Refunds(bodies, p))
  BY <1>1, <1>2, <1>3, <1>4, <1>5 DEF Backed
<1>7. pending' = [pending EXCEPT ![p] = pending[p]] /\ row' = [row EXCEPT ![p] = row[p]]
      /\ UNCHANGED <<corpses, bodies>>
  BY SameRow DEF Login, XInv, TypeOK
<1> QED
  BY <1>3, <1>6, <1>7, XLocal

\* Whatever of c lands in its row, both are covered.
LEMMA SavedCovered ==
  ASSUME NEW r, NEW c, NEW f, SameXp(r, f) \/ SameXp(c, f), NEW x, Covered(r, x), Covered(c, x)
  PROVE  Covered(f, x)
BY SameCovered

\* A character in the world is covered without the corpse to be made of it.
LEMMA ConnCovered ==
  ASSUME NEW c \in Character, NEW x \in Nat, Covered(c, Falling(c) + x)
  PROVE  Covered(c, x)
<1>1. Falling(c) \in Nat /\ c.level \in Levels /\ c.xp \in Nat /\ c.earned \in Nat
  BY DEF Falling, Character
<1>2. Falling(c) + x \in Nat /\ x <= Falling(c) + x
  BY <1>1
<1> QED
  BY <1>1, <1>2, LessCovered

LEMMA LogoutX ==
  ASSUME XInv, NEW p \in Players, Logout(p)
  PROVE  XInv'
<1> DEFINE c == conn[p]
           x == Refunds(bodies, p)
<1>1. Backed(c, pending[p], row[p], x) /\ row[p] \in Row /\ x \in Nat
  BY XFacts
<1>2. c # None
  BY DEF Logout, Online
<1>3. PICK res \in BOOLEAN, stores \in BOOLEAN, qs \in SUBSET c.dirty :
        /\ row' = [row EXCEPT ![p] = Flushed(row[p], c, res, stores, qs)]
        /\ pending' = [pending EXCEPT ![p] =
             IF res /\ stores /\ qs = c.dirty THEN None ELSE [c EXCEPT !.dirty = @ \ qs]]
  BY DEF Logout
<1> DEFINE r == Flushed(row[p], c, res, stores, qs)
           w == IF res /\ stores /\ qs = c.dirty THEN None ELSE [c EXCEPT !.dirty = @ \ qs]
<1>4. conn' = [conn EXCEPT ![p] = None] /\ UNCHANGED <<corpses, bodies>>
  BY DEF Logout
<1> HIDE DEF c, x
<1>5. c \in Character /\ Covered(c, x) /\ Covered(row[p], x)
  BY <1>1, <1>2, ConnCovered DEF Backed
<1>6. r \in Row /\ (SameXp(row[p], r) \/ SameXp(c, r))
  BY <1>1, <1>5, FlushedType
<1>7. w # None => w \in Character /\ SameXp(c, w)
  BY <1>5, CleanedType DEF SameBody
<1>8. row' = [row EXCEPT ![p] = r] /\ pending' = [pending EXCEPT ![p] = w]
  BY <1>3
<1> HIDE DEF r, w
<1>9. Covered(r, x) /\ (w # None => Covered(w, x))
  BY <1>5, <1>6, <1>7, SavedCovered, SameCovered
<1>10. Backed(None, w, r, x)
  BY <1>6, <1>7, <1>9 DEF Backed
<1> QED
  BY <1>4, <1>8, <1>10, XLocal DEF x

LEMMA RetryX ==
  ASSUME XInv, NEW p \in Players, Retry(p)
  PROVE  XInv'
<1> DEFINE c == pending[p]
           x == Refunds(bodies, p)
<1>1. Backed(conn[p], c, row[p], x) /\ row[p] \in Row /\ x \in Nat
  BY XFacts
<1>2. c # None
  BY DEF Retry
<1>3. PICK res \in BOOLEAN, stores \in BOOLEAN, qs \in SUBSET c.dirty :
        /\ row' = [row EXCEPT ![p] = Flushed(row[p], c, res, stores, qs)]
        /\ \/ pending' = [pending EXCEPT ![p] = None]
           \/ pending' = [pending EXCEPT ![p].dirty = @ \ qs]
  BY DEF Retry
<1> DEFINE r == Flushed(row[p], c, res, stores, qs)
           rest == [c EXCEPT !.dirty = @ \ qs]
<1>4. conn' = [conn EXCEPT ![p] = conn[p]] /\ UNCHANGED <<corpses, bodies>>
  BY SameRow DEF Retry, XInv, TypeOK
<1>5. pending' = [pending EXCEPT ![p] = None] \/ pending' = [pending EXCEPT ![p] = rest]
  BY <1>3
<1>6. row' = [row EXCEPT ![p] = r]
  BY <1>3
<1> HIDE DEF c, x
<1>7. c \in Character /\ Covered(c, x) /\ Covered(row[p], x) /\ conn[p] = None
  BY <1>1, <1>2 DEF Backed
<1>8. r \in Row /\ (SameXp(row[p], r) \/ SameXp(c, r))
  BY <1>1, <1>7, FlushedType
<1>9. rest \in Character /\ SameXp(c, rest)
  BY <1>7, CleanedType DEF SameBody
<1> HIDE DEF r, rest
<1>10. Covered(r, x) /\ Covered(rest, x)
  BY <1>7, <1>8, <1>9, SavedCovered, SameCovered
<1>11. Backed(conn[p], None, r, x) /\ Backed(conn[p], rest, r, x)
  BY <1>7, <1>8, <1>9, <1>10 DEF Backed
<1> QED
  BY <1>4, <1>5, <1>6, <1>11, XLocal DEF x

LEMMA CheckpointX ==
  ASSUME XInv, NEW p \in Players, Checkpoint(p) \/ FlushQuests(p)
  PROVE  XInv'
<1> DEFINE c == conn[p]
           x == Refunds(bodies, p)
<1>1. Backed(c, pending[p], row[p], x) /\ row[p] \in Row /\ x \in Nat
  BY XFacts
<1>2. c # None
  BY DEF Checkpoint, FlushQuests, Online
<1>3. PICK qs, r : /\ row' = [row EXCEPT ![p] = r] /\ conn' = [conn EXCEPT ![p].dirty = @ \ qs]
                   /\ \/ r = WithJournal(row[p], c, qs)
                      \/ \E res, stores \in BOOLEAN : r = Flushed(row[p], c, res, stores, qs)
  <2>1. CASE Checkpoint(p)
    BY <2>1 DEF Checkpoint
  <2>2. CASE FlushQuests(p)
    BY <2>2 DEF FlushQuests
  <2> QED
    BY <2>1, <2>2
<1> DEFINE rest == [c EXCEPT !.dirty = @ \ qs]
<1>4. conn' = [conn EXCEPT ![p] = rest]
  BY <1>3
<1>5. pending' = [pending EXCEPT ![p] = pending[p]] /\ UNCHANGED <<corpses, bodies>>
  BY SameRow DEF Checkpoint, FlushQuests, XInv, TypeOK
<1> HIDE DEF c, x
<1>6. c \in Character /\ Covered(c, x) /\ Covered(row[p], x) /\ pending[p] = None
      /\ Covered(c, Falling(c) + x)
  BY <1>1, <1>2, ConnCovered DEF Backed
<1>7. r \in Row /\ (SameXp(row[p], r) \/ SameXp(c, r))
  <2>1. CASE r = WithJournal(row[p], c, qs)
    BY <1>1, <1>6, <2>1, WithJournalType
  <2>2. ASSUME NEW res \in BOOLEAN, NEW stores \in BOOLEAN, r = Flushed(row[p], c, res, stores, qs)
        PROVE  r \in Row /\ (SameXp(row[p], r) \/ SameXp(c, r))
    BY <1>1, <1>6, <2>2, FlushedType
  <2> QED
    BY <1>3, <2>1, <2>2
<1>8. rest \in Character /\ SameBody(c, rest)
  BY <1>6, CleanedType
<1> HIDE DEF rest
<1>9. Covered(r, x) /\ Covered(rest, Falling(rest) + x)
  <2>1. Falling(rest) = Falling(c)
    BY <1>8 DEF Falling, SameBody
  <2> QED
    BY <1>6, <1>7, <1>8, <2>1, SavedCovered, SameCovered DEF SameBody
<1>10. Backed(rest, pending[p], r, x)
  BY <1>6, <1>7, <1>8, <1>9 DEF Backed
<1> QED
  BY <1>3, <1>4, <1>5, <1>10, XLocal DEF x

\* What is earned is covered as the rest was.
LEMMA EarnedCovered ==
  ASSUME NEW c \in Character, NEW n \in Nat, NEW d \in Character, NEW x \in Nat,
         d.earned = c.earned + n, Total(d) <= Total(c) + n,
         d.fallen = c.fallen, d.lost = c.lost, Covered(c, Falling(c) + x)
  PROVE  Covered(d, Falling(d) + x)
<1>1. Falling(d) = Falling(c) /\ Falling(c) \in Nat
  BY DEF Falling, Character
<1>2. Total(c) \in Nat /\ Total(d) \in Nat /\ c.earned \in Nat
  BY TotalNat DEF Character
<1> QED
  BY <1>1, <1>2 DEF Covered

\* A change to the character alone.
LEMMA XCharacter ==
  ASSUME XInv, NEW p \in Players, conn[p] # None, NEW d \in Character,
         conn' = [conn EXCEPT ![p] = d], UNCHANGED <<pending, row, corpses, bodies>>,
         Covered(d, Falling(d) + Refunds(bodies, p))
  PROVE  XInv'
<1> DEFINE x == Refunds(bodies, p)
           w == pending[p]
           r == row[p]
<1>1. Backed(conn[p], pending[p], row[p], Refunds(bodies, p))
  BY XFacts
<1>2. Backed(d, w, r, x)
  BY <1>1 DEF Backed
<1>3. pending' = [pending EXCEPT ![p] = w] /\ row' = [row EXCEPT ![p] = r]
      /\ corpses' = corpses /\ bodies' = bodies
  BY SameRow DEF XInv, TypeOK
<1> HIDE DEF w, r
<1> QED
  BY <1>2, <1>3, XLocal

\* Who is in the world.
LEMMA OnlineFacts ==
  ASSUME XInv, NEW p \in Online
  PROVE  /\ p \in Players /\ conn[p] # None /\ conn[p] \in Character /\ pending[p] = None
         /\ Covered(conn[p], Falling(conn[p]) + Refunds(bodies, p))
         /\ Covered(row[p], Refunds(bodies, p)) /\ row[p] \in Row
         /\ Refunds(bodies, p) \in Nat
<1>1. p \in Players /\ conn[p] # None
  BY DEF Online
<1> QED
  BY <1>1, XFacts DEF Backed

LEMMA KillX ==
  ASSUME XInv, NEW p \in Players, Kill(p)
  PROVE  XInv'
<1>1. PICK near \in SUBSET Online, qs \in SUBSET Quests :
        LET shares == {m \in near \cup {p} : ~conn[m].dead}
            each == Share(Cardinality(shares))
        IN /\ shares # {}
           /\ conn' = [m \in Players |->
                IF m \in shares THEN Counted(Earned(conn[m], each), qs) ELSE conn[m]]
  BY DEF Kill
<1> DEFINE shares == {m \in near \cup {p} : ~conn[m].dead}
           each == Share(Cardinality(shares))
<1>2. /\ shares # {}
      /\ conn' = [m \in Players |->
           IF m \in shares THEN Counted(Earned(conn[m], each), qs) ELSE conn[m]]
  BY <1>1
<1>3. shares \subseteq Online /\ shares \subseteq Players
  BY DEF Kill, Online
<1> HIDE DEF shares
<1>4. each \in Nat
  <2>1. IsFiniteSet(shares)
    BY <1>3, FiniteType, FS_Subset
  <2>2. Cardinality(shares) \in Nat \ {0}
    BY <1>2, <2>1, FS_CardinalityType, FS_EmptySet
  <2> QED
    BY <2>2, ShareNat
<1> HIDE DEF each
<1>5. ASSUME NEW m \in shares
      PROVE  LET d == Counted(Earned(conn[m], each), qs) IN
             d \in Character /\ Covered(d, Falling(d) + Refunds(bodies, m))
  <2>1. m \in Online
    BY <1>3
  <2>2. /\ conn[m] \in Character /\ Refunds(bodies, m) \in Nat
        /\ Covered(conn[m], Falling(conn[m]) + Refunds(bodies, m))
    BY <2>1, OnlineFacts
  <2> DEFINE e == Earned(conn[m], each)
             d == Counted(e, qs)
  <2>3. /\ e \in Character /\ e.earned = conn[m].earned + each
        /\ Total(e) <= Total(conn[m]) + each
        /\ e.fallen = conn[m].fallen /\ e.lost = conn[m].lost
    BY <1>4, <2>2, EarnedType
  <2> HIDE DEF e
  <2>4. Covered(e, Falling(e) + Refunds(bodies, m))
    BY <1>4, <2>2, <2>3, EarnedCovered
  <2>5. d \in Character /\ SameBody(e, d)
    BY <2>3, CountedType
  <2> HIDE DEF d
  <2>6. Falling(d) = Falling(e)
    BY <2>5 DEF SameBody, Falling
  <2>7. Covered(d, Falling(d) + Refunds(bodies, m))
    BY <2>4, <2>5, <2>6, SameCovered DEF SameBody
  <2> QED
    BY <2>5, <2>7 DEF d, e
<1>6. UNCHANGED <<pending, row, corpses, bodies>>
  BY DEF Kill
<1>7. ASSUME NEW m \in Players
      PROVE  Backed(conn'[m], pending'[m], row'[m], Refunds(bodies', m))
  <2>1. Backed(conn[m], pending[m], row[m], Refunds(bodies, m))
    BY XFacts
  <2>2. CASE m \in shares
    <3> DEFINE d == Counted(Earned(conn[m], each), qs)
    <3>1. conn'[m] = d
      BY <1>2, <2>2
    <3>2. d \in Character /\ Covered(d, Falling(d) + Refunds(bodies, m))
      BY <1>5, <2>2
    <3>3. pending[m] = None
      BY <1>3, <2>2, OnlineFacts
    <3> HIDE DEF d
    <3> QED
      BY <1>6, <2>1, <3>1, <3>2, <3>3 DEF Backed
  <2>3. CASE m \notin shares
    <3>1. conn'[m] = conn[m]
      BY <1>2, <2>3
    <3> QED
      BY <1>6, <2>1, <3>1
  <2> QED
    BY <2>2, <2>3
<1>8. conn' \in [Players -> Character \cup {None}]
  <2>1. \A m \in Players : conn'[m] \in Character \cup {None}
    BY <1>7 DEF Backed
  <2>2. DOMAIN conn' = Players /\ conn' = [m \in Players |-> conn'[m]]
    BY <1>2
  <2> QED
    BY <2>1, <2>2
<1>9. TypeOK' /\ Matched(corpses', bodies')
  BY <1>6, <1>8 DEF XInv, TypeOK
<1> QED
  BY <1>7, <1>9 DEF XInv

LEMMA GrantX ==
  ASSUME XInv, NEW p \in Players, GrantQuestXp(p)
  PROVE  XInv'
<1>1. p \in Online /\ conn' = [conn EXCEPT ![p] = Earned(conn[p], 1)]
      /\ UNCHANGED <<pending, row, corpses, bodies>>
  BY DEF GrantQuestXp
<1> DEFINE d == Earned(conn[p], 1)
<1>2. /\ conn[p] # None /\ conn[p] \in Character /\ Refunds(bodies, p) \in Nat
      /\ Covered(conn[p], Falling(conn[p]) + Refunds(bodies, p))
  BY <1>1, OnlineFacts
<1>3. /\ d \in Character /\ d.earned = conn[p].earned + 1 /\ Total(d) <= Total(conn[p]) + 1
      /\ d.fallen = conn[p].fallen /\ d.lost = conn[p].lost
  BY <1>2, EarnedType
<1> HIDE DEF d
<1>4. Covered(d, Falling(d) + Refunds(bodies, p))
  BY <1>2, <1>3, EarnedCovered
<1> QED
  BY <1>1, <1>2, <1>3, <1>4, XCharacter DEF d

\* What a death takes is what its corpse may give back.
LEMMA DieX ==
  ASSUME XInv, NEW p \in Players, Die(p)
  PROVE  XInv'
<1> DEFINE n == Penalized(conn[p])
           d == [n EXCEPT !.dead = TRUE, !.fallen = TRUE]
           x == Refunds(bodies, p)
<1>1. p \in Online /\ conn' = [conn EXCEPT ![p] = d] /\ UNCHANGED <<pending, row, corpses, bodies>>
  BY DEF Die
<1>2. conn[p] # None /\ conn[p] \in Character /\ x \in Nat /\ Covered(conn[p], Falling(conn[p]) + x)
  BY <1>1, OnlineFacts
<1>3. n \in Character /\ n.earned = conn[p].earned /\ Total(n) + n.lost <= Total(conn[p])
  BY <1>2, PenalizedType
<1>4. Falling(conn[p]) \in Nat /\ Total(conn[p]) \in Nat /\ conn[p].earned \in Nat
  BY <1>2, TotalNat DEF Falling, Character
<1> HIDE DEF n, x
<1>5. d \in Character /\ SameXp(n, d) /\ d.fallen /\ d.lost = n.lost
  BY <1>3 DEF Character, SameXp
<1>6. Total(n) \in Nat /\ n.lost \in Nat
  BY <1>3, TotalNat DEF Character
<1> HIDE DEF d
<1>7. Total(d) = Total(n) /\ d.earned = conn[p].earned /\ Falling(d) = n.lost
  BY <1>3, <1>5, SameTotal DEF SameXp, Falling
<1>8. Covered(d, Falling(d) + x)
  BY <1>2, <1>3, <1>4, <1>6, <1>7 DEF Covered
<1> QED
  BY <1>1, <1>2, <1>5, <1>8, XCharacter DEF x

LEMMA RespawnX ==
  ASSUME XInv, NEW p \in Players, Respawn(p)
  PROVE  XInv'
<1> DEFINE d == [conn[p] EXCEPT !.dead = FALSE]
           x == Refunds(bodies, p)
<1>1. p \in Online /\ conn' = [conn EXCEPT ![p] = d] /\ UNCHANGED <<pending, row, corpses, bodies>>
  BY DEF Respawn
<1>2. conn[p] # None /\ conn[p] \in Character /\ Covered(conn[p], Falling(conn[p]) + x)
  BY <1>1, OnlineFacts
<1>3. d \in Character /\ SameBody(conn[p], d)
  BY <1>2 DEF Character, SameBody, SameXp
<1> HIDE DEF d, x
<1>4. Covered(d, Falling(d) + x)
  BY <1>2, <1>3, SameCovered DEF SameBody, Falling
<1> QED
  BY <1>1, <1>2, <1>3, <1>4, XCharacter DEF x

LEMMA JournalX ==
  ASSUME XInv, NEW p \in Players, NEW q \in Quests, AcceptQuest(p, q) \/ AbandonQuest(p, q)
  PROVE  XInv'
<1> DEFINE x == Refunds(bodies, p)
<1>1. PICK v \in {0, None} :
        /\ p \in Online /\ UNCHANGED <<pending, row, corpses, bodies>>
        /\ conn' = [conn EXCEPT ![p].journal[q] = v, ![p].dirty = @ \cup {q}]
  BY DEF AcceptQuest, AbandonQuest
<1>2. conn[p] # None /\ conn[p] \in Character /\ Covered(conn[p], Falling(conn[p]) + x)
  BY <1>1, OnlineFacts
<1> DEFINE j == [conn[p].journal EXCEPT ![q] = v]
           s == conn[p].dirty \cup {q}
           d == [conn[p] EXCEPT !.journal = j, !.dirty = s]
<1>3. conn \in [Players -> Character \cup {None}]
  BY DEF XInv, TypeOK
<1>4. conn' = [conn EXCEPT ![p] = d]
  BY <1>1, <1>2, <1>3 DEF Character
<1>5. j \in Journal /\ s \in SUBSET Quests
  <2>1. Required[q] \in Nat
    BY QuestsType
  <2> QED
    BY <1>2, <2>1 DEF Journal, Character
<1> HIDE DEF j, s
<1>6. d \in Character /\ SameBody(conn[p], d)
  BY <1>2, <1>5 DEF Character, SameBody, SameXp
<1> HIDE DEF d, x
<1>7. Covered(d, Falling(d) + x)
  BY <1>2, <1>6, SameCovered DEF SameBody, Falling
<1> QED
  BY <1>1, <1>2, <1>4, <1>6, <1>7, XCharacter DEF x

LEMMA CompleteX ==
  ASSUME XInv, NEW p \in Players, NEW q \in Quests, CompleteQuest(p, q)
  PROVE  XInv'
<1> DEFINE c == Rewarded(conn[p], q)
           x == Refunds(bodies, p)
           w == pending[p]
<1>1. PICK deleted \in BOOLEAN, saved \in BOOLEAN :
        row' = [row EXCEPT ![p] =
          LET r == WithJournal(Recorded(row[p], c, q), c, IF deleted THEN {q} ELSE {})
          IN IF saved THEN WithStores(r, c) ELSE r]
  BY DEF CompleteQuest
<1> DEFINE gone == IF deleted THEN {q} ELSE {}
           r1 == Recorded(row[p], c, q)
           r2 == WithJournal(r1, c, gone)
           r == IF saved THEN WithStores(r2, c) ELSE r2
<1>2. row' = [row EXCEPT ![p] = r]
  BY <1>1
<1>3. p \in Online /\ conn' = [conn EXCEPT ![p] = c] /\ UNCHANGED <<corpses, bodies>>
  BY DEF CompleteQuest
<1>4. /\ conn[p] \in Character /\ x \in Nat /\ row[p] \in Row /\ w = None
      /\ Covered(conn[p], Falling(conn[p]) + x)
  BY <1>3, OnlineFacts
<1>5. Reward[q] \in Nat
  BY QuestsType
<1>6. /\ c \in Character /\ c.earned = conn[p].earned + Reward[q]
      /\ Total(c) <= Total(conn[p]) + Reward[q]
      /\ c.fallen = conn[p].fallen /\ c.lost = conn[p].lost
  BY <1>4, RewardedType
<1>7. pending' = [pending EXCEPT ![p] = w]
  BY SameRow DEF CompleteQuest, XInv, TypeOK
<1> HIDE DEF c, x, w
<1>8. Covered(c, Falling(c) + x) /\ Covered(c, x)
  BY <1>4, <1>5, <1>6, EarnedCovered, ConnCovered
<1>9. r1 \in Row /\ SameXp(c, r1)
  BY <1>4, <1>6, RecordedType
<1> HIDE DEF r1, gone
<1>10. r2 \in Row /\ SameXp(r1, r2)
  BY <1>6, <1>9, WithJournalType
<1> HIDE DEF r2
<1>11. r \in Row /\ SameXp(r2, r)
  BY <1>6, <1>10, WithStoresType DEF SameXp
<1> HIDE DEF r
<1>12. SameXp(c, r)
  BY <1>9, <1>10, <1>11 DEF SameXp
<1>13. Covered(r, x)
  BY <1>8, <1>12, SameCovered
<1>14. Backed(c, w, r, x)
  BY <1>4, <1>6, <1>8, <1>11, <1>13 DEF Backed
<1> QED
  BY <1>2, <1>3, <1>7, <1>14, XLocal DEF x

\* A step of one player and its corpses, after which nobody else is owed more.
LEMMA XOwner ==
  ASSUME XInv, NEW p \in Players, NEW c, NEW w, NEW r, NEW cs \in Bodies, NEW bs \in Bodies,
         conn' = [conn EXCEPT ![p] = c], pending' = [pending EXCEPT ![p] = w],
         row' = [row EXCEPT ![p] = r], corpses' = cs, bodies' = bs, Matched(cs, bs),
         Backed(c, w, r, Refunds(bs, p)),
         \A m \in Players \ {p} : Refunds(bs, m) <= Refunds(bodies, m)
  PROVE  XInv'
<1>1. /\ conn \in [Players -> Character \cup {None}] /\ pending \in [Players -> Character \cup {None}]
      /\ row \in [Players -> Row]
  BY DEF XInv, TypeOK
<1>2. c \in Character \cup {None} /\ w \in Character \cup {None} /\ r \in Row
  BY DEF Backed
<1>3. TypeOK' /\ Matched(corpses', bodies')
  BY <1>1, <1>2 DEF TypeOK, Bodies
<1>4. ASSUME NEW m \in Players
      PROVE  Backed(conn'[m], pending'[m], row'[m], Refunds(bodies', m))
  <2>1. CASE m = p
    BY <1>1, <2>1
  <2>2. CASE m # p
    <3>1. conn'[m] = conn[m] /\ pending'[m] = pending[m] /\ row'[m] = row[m]
      BY <1>1, <2>2
    <3>2. Backed(conn[m], pending[m], row[m], Refunds(bodies, m)) /\ Refunds(bodies, m) \in Nat
      BY XFacts
    <3>3. Refunds(bs, m) \in Nat /\ Refunds(bs, m) <= Refunds(bodies, m)
      BY <2>2, RefundsIs
    <3>4. Backed(conn[m], pending[m], row[m], Refunds(bs, m))
      BY <3>2, <3>3, LessBacked
    <3> QED
      BY <3>1, <3>4
  <2> QED
    BY <2>1, <2>2
<1> QED
  BY <1>3, <1>4 DEF XInv

LEMMA MakeCorpseX ==
  ASSUME XInv, NEW p \in Players, MakeCorpse(p)
  PROVE  XInv'
<1> DEFINE c == conn[p]
           x == Refunds(bodies, p)
           w == pending[p]
<1>1. p \in Online /\ c.fallen
  BY DEF MakeCorpse
<1>2. /\ c \in Character /\ x \in Nat /\ row[p] \in Row /\ w = None
      /\ Covered(c, Falling(c) + x) /\ Covered(row[p], x)
  BY <1>1, OnlineFacts
<1>3. pending' = [pending EXCEPT ![p] = w] /\ conn = [conn EXCEPT ![p] = c]
  BY SameRow DEF MakeCorpse, XInv, TypeOK
<1>4. bodies \in Bodies /\ corpses \in Bodies
  BY XFacts
<1>5. CASE row' = [row EXCEPT ![p] = WithStores(@, conn[p])] /\ UNCHANGED <<conn, corpses, bodies>>
  <2> DEFINE r == WithStores(row[p], c)
  <2>1. r \in Row /\ SameXp(row[p], r)
    BY <1>2, WithStoresType
  <2>2. row' = [row EXCEPT ![p] = r] /\ conn' = [conn EXCEPT ![p] = c]
    BY <1>3, <1>5
  <2>3. UNCHANGED <<corpses, bodies>>
    BY <1>5
  <2> HIDE DEF r, c, w, x
  <2>4. Covered(r, x)
    BY <1>2, <2>1, SameCovered
  <2>5. Backed(c, w, r, x)
    BY <1>2, <2>1, <2>4 DEF Backed
  <2> QED
    BY <1>3, <2>2, <2>3, <2>5, XLocal DEF x
<1>6. ASSUME NEW k \in CorpseIds,
             LET body == [owner |-> p, lost |-> conn[p].lost, raised |-> FALSE] IN
             /\ corpses[k] = None /\ bodies[k] = None
             /\ row' = [row EXCEPT ![p] = Buried(@, conn[p])]
             /\ corpses' = [corpses EXCEPT ![k] = body] /\ bodies' = [bodies EXCEPT ![k] = body]
             /\ conn' = [conn EXCEPT ![p].fallen = FALSE]
      PROVE  XInv'
  <2> DEFINE body == [owner |-> p, lost |-> c.lost, raised |-> FALSE]
             cs == [corpses EXCEPT ![k] = body]
             bs == [bodies EXCEPT ![k] = body]
             d == [c EXCEPT !.fallen = FALSE]
             r == Buried(row[p], c)
  <2>1. /\ row' = [row EXCEPT ![p] = r] /\ conn' = [conn EXCEPT ![p] = d]
        /\ corpses' = cs /\ bodies' = bs /\ bodies[k] = None
    BY <1>6
  <2> HIDE DEF c, x, w
  <2>2. body \in Corpse
    BY <1>2 DEF Corpse, Character
  <2>3. \A m : Owed(body, m) \in Nat /\ Owed(body, m) <= c.lost /\ (m # p => Owed(body, m) = 0)
    BY <1>2 DEF Owed, Character
  <2> HIDE DEF body
  <2>4. cs \in Bodies /\ bs \in Bodies
    BY <1>4, <2>2 DEF Bodies
  <2>5. /\ bs[k] = body /\ cs[k] = body
        /\ \A j \in CorpseIds \ {k} : bs[j] = bodies[j] /\ cs[j] = corpses[j]
    BY <1>4 DEF Bodies
  <2>6. Matched(cs, bs)
    BY <2>5 DEF Matched, XInv
  <2> HIDE DEF cs, bs
  <2>7. ASSUME NEW m \in Players
        PROVE  Refunds(bs, m) = Refunds(bodies, m) + Owed(body, m) /\ Refunds(bodies, m) \in Nat
    <3>1. Refunds(bs, m) = Refunds(bodies, m) - Owed(bodies[k], m) + Owed(bs[k], m)
      BY <1>4, <2>4, <2>5, RefundsMoves
    <3>2. Owed(bodies[k], m) = 0 /\ Owed(bs[k], m) = Owed(body, m)
      BY <2>1, <2>5 DEF Owed
    <3>3. Refunds(bodies, m) \in Nat
      BY XFacts
    <3> QED
      BY <2>3, <3>1, <3>2, <3>3
  <2>8. d \in Character /\ SameXp(c, d) /\ Falling(d) = 0
    BY <1>2 DEF Character, SameXp, Falling
  <2>9. r \in Row /\ SameXp(c, r)
    <3>1. WithStores(row[p], c) \in Row
      BY <1>2, WithStoresType
    <3> QED
      BY <1>2, <3>1, WithXpType DEF Buried
  <2>10. Refunds(bs, p) = x + Owed(body, p)
    BY <2>7 DEF x
  <2>11. Falling(c) = c.lost /\ c.lost \in Nat /\ Owed(body, p) \in Nat /\ Owed(body, p) <= c.lost
    BY <1>1, <1>2, <2>3 DEF Falling, Character, c
  <2> HIDE DEF d, r
  <2>12. Covered(c, Refunds(bs, p)) /\ Refunds(bs, p) \in Nat
    <3>1. c.level \in Levels /\ c.xp \in Nat /\ c.earned \in Nat
      BY <1>2 DEF Character
    <3>2. Refunds(bs, p) \in Nat /\ Falling(c) + x \in Nat /\ Refunds(bs, p) <= Falling(c) + x
      BY <1>2, <2>10, <2>11
    <3> QED
      BY <1>2, <3>1, <3>2, LessCovered
  <2>13. Covered(d, Falling(d) + Refunds(bs, p))
    <3>1. Falling(d) + Refunds(bs, p) = Refunds(bs, p)
      BY <2>8, <2>12
    <3> QED
      BY <2>8, <2>12, <3>1, SameCovered
  <2>14. Covered(r, Refunds(bs, p))
    BY <2>9, <2>12, SameCovered
  <2>15. Backed(d, w, r, Refunds(bs, p))
    BY <1>2, <2>8, <2>9, <2>13, <2>14 DEF Backed
  <2>16. \A m \in Players \ {p} : Refunds(bs, m) <= Refunds(bodies, m)
    BY <2>3, <2>7
  <2> QED
    BY <1>3, <2>1, <2>4, <2>6, <2>15, <2>16, XOwner
<1> QED
  BY <1>5, <1>6 DEF MakeCorpse

LEMMA AcceptResX ==
  ASSUME XInv, NEW p \in Players, NEW k \in CorpseIds, AcceptRes(p, k)
  PROVE  XInv'
<1> DEFINE o == conn[p]
           x == Refunds(bodies, p)
           w == pending[p]
           lost == corpses[k].lost
<1>1. PICK pct \in RefundPcts :
        LET c == Awarded(o, (lost * pct + 50) \div 100) IN
        /\ row' = [row EXCEPT ![p] = WithXp(@, c)]
        /\ conn' = [conn EXCEPT ![p] = c]
  BY DEF AcceptRes
<1> DEFINE n == (lost * pct + 50) \div 100
           c == Awarded(o, n)
           r == WithXp(row[p], c)
           cs == [corpses EXCEPT ![k] = [corpses[k] EXCEPT !.raised = TRUE]]
           bs == [bodies EXCEPT ![k] = [bodies[k] EXCEPT !.raised = TRUE]]
<1>2. /\ p \in Online /\ corpses[k] # None /\ corpses[k].owner = p /\ ~corpses[k].raised
      /\ row' = [row EXCEPT ![p] = r] /\ conn' = [conn EXCEPT ![p] = c]
  BY <1>1 DEF AcceptRes
<1>3. /\ bodies \in Bodies /\ corpses \in Bodies /\ corpses[k] = bodies[k] /\ bodies[k] \in Corpse
      /\ lost \in Nat
  <2>1. bodies \in Bodies /\ corpses \in Bodies
    BY XFacts
  <2>2. corpses[k] = bodies[k]
    BY <1>2 DEF XInv, Matched
  <2> QED
    BY <1>2, <2>1, <2>2 DEF Bodies, Corpse
<1>4. corpses' = cs /\ bodies' = bs /\ pending' = [pending EXCEPT ![p] = w]
  BY <1>3, SameRow DEF AcceptRes, XInv, TypeOK, Bodies
<1>5. /\ o \in Character /\ x \in Nat /\ row[p] \in Row /\ w = None
      /\ Covered(o, Falling(o) + x)
  BY <1>2, OnlineFacts
<1>6. n \in Nat /\ n <= lost
  <2>1. pct \in 0 .. 100
    BY LossesType
  <2>2. \A a \in Nat : \A b \in 0 .. 100 : a * b \in Nat /\ a * b <= a * 100
    <3>1. \A a, b, d \in Nat : b <= d => a * b <= a * d
      OBVIOUS
    <3>2. \A a \in Nat : \A b \in Nat : a * b \in Nat
      OBVIOUS
    <3> QED
      BY <3>1, <3>2
  <2>3. lost * pct \in Nat /\ lost * pct <= lost * 100
    BY <1>3, <2>1, <2>2
  <2>4. \A y, a \in Nat : y <= a * 100 => (y + 50) \div 100 \in Nat /\ (y + 50) \div 100 <= a
    OBVIOUS
  <2> HIDE DEF lost
  <2> DEFINE y == lost * pct
  <2>5. y \in Nat /\ y <= lost * 100 /\ lost \in Nat
    BY <1>3, <2>3
  <2>6. n = (y + 50) \div 100
    OBVIOUS
  <2> HIDE DEF y, n
  <2> QED
    BY <2>4, <2>5, <2>6
<1> HIDE DEF n, lost, o, x, w
<1>7. /\ c \in Character /\ c.earned = o.earned /\ c.fallen = o.fallen /\ c.lost = o.lost
      /\ Total(c) <= Total(o) + n
  <2>1. /\ c \in Character /\ c.earned = o.earned /\ c.fallen = o.fallen /\ c.lost = o.lost
        /\ Total(c) = Within(Total(o) + n, Low(o.level), Top)
    BY <1>5, <1>6, AwardedType
  <2>2. /\ Low(o.level) \in Nat /\ Low(o.level) <= Start[o.level] /\ Top \in Nat
        /\ Start[o.level] \in Nat /\ o.xp \in Nat /\ Total(o) = Start[o.level] + o.xp
    BY <1>5, LevelFacts, TotalNat DEF Character
  <2> QED
    BY <1>6, <2>1, <2>2 DEF Within
<1>8. r \in Row /\ SameXp(c, r)
  BY <1>5, <1>7, WithXpType
<1> HIDE DEF c, r
<1>9. /\ cs \in Bodies /\ bs \in Bodies /\ Matched(cs, bs)
      /\ \A m : Owed(bs[k], m) = 0
      /\ \A j \in CorpseIds \ {k} : bs[j] = bodies[j]
  <2> DEFINE body == [bodies[k] EXCEPT !.raised = TRUE]
  <2>1. body \in Corpse /\ body.raised
    BY <1>3 DEF Corpse
  <2>2. cs = [corpses EXCEPT ![k] = body] /\ bs = [bodies EXCEPT ![k] = body]
    BY <1>3
  <2> HIDE DEF body, cs, bs
  <2>3. cs \in Bodies /\ bs \in Bodies
    BY <1>3, <2>1, <2>2 DEF Bodies
  <2>4. /\ bs[k] = body /\ cs[k] = body
        /\ \A j \in CorpseIds \ {k} : bs[j] = bodies[j] /\ cs[j] = corpses[j]
    BY <1>3, <2>2 DEF Bodies
  <2>5. Matched(cs, bs)
    BY <2>4 DEF Matched, XInv
  <2>6. \A m : Owed(bs[k], m) = 0
    BY <2>1, <2>4 DEF Owed
  <2> QED
    BY <2>3, <2>4, <2>5, <2>6
<1> HIDE DEF cs, bs
<1>10. ASSUME NEW m \in Players
       PROVE  /\ Refunds(bs, m) = Refunds(bodies, m) - Owed(bodies[k], m)
              /\ Refunds(bodies, m) \in Nat /\ Refunds(bs, m) \in Nat /\ Owed(bodies[k], m) \in Nat
  <2>1. Refunds(bs, m) = Refunds(bodies, m) - Owed(bodies[k], m) + Owed(bs[k], m)
    BY <1>3, <1>9, RefundsMoves
  <2>2. Refunds(bodies, m) \in Nat /\ Refunds(bs, m) \in Nat
    BY <1>3, <1>9, RefundsIs
  <2>3. Owed(bodies[k], m) \in Nat
    BY <1>3, OwedNat
  <2> QED
    BY <1>9, <2>1, <2>2, <2>3
<1>11. Owed(bodies[k], p) = lost
  BY <1>2, <1>3 DEF Owed, lost
<1>12. Refunds(bs, p) = x - lost /\ Refunds(bs, p) \in Nat
  BY <1>10, <1>11 DEF x
<1>13. Covered(c, Falling(c) + Refunds(bs, p))
  <2>1. Falling(c) = Falling(o) /\ Falling(o) \in Nat
    BY <1>5, <1>7 DEF Falling, Character
  <2>2. Total(c) \in Nat /\ Total(o) \in Nat /\ o.earned \in Nat
    BY <1>5, <1>7, TotalNat DEF Character
  <2>3. lost \in Nat
    BY <1>3
  <2> QED
    BY <1>5, <1>6, <1>7, <1>12, <2>1, <2>2, <2>3 DEF Covered
<1>14. Covered(c, Refunds(bs, p))
  BY <1>7, <1>12, <1>13, ConnCovered
<1>15. Covered(r, Refunds(bs, p))
  BY <1>8, <1>14, SameCovered
<1>16. Backed(c, w, r, Refunds(bs, p))
  BY <1>5, <1>7, <1>8, <1>13, <1>15 DEF Backed
<1>17. \A m \in Players \ {p} : Refunds(bs, m) <= Refunds(bodies, m)
  BY <1>10
<1> QED
  BY <1>2, <1>4, <1>9, <1>16, <1>17, XOwner

\* Corpses that go, in the world and perhaps in their rows.
LEMMA XFewer ==
  ASSUME XInv, NEW cs \in Bodies, NEW bs \in Bodies,
         corpses' = cs, bodies' = bs, Matched(cs, bs),
         \A k \in CorpseIds : bs[k] = None \/ bs[k] = bodies[k],
         conn' \in [Players -> Character \cup {None}],
         pending' \in [Players -> Character \cup {None}], row' = row,
         \A m \in Players : /\ conn'[m] = None \/ conn'[m] = conn[m]
                            /\ pending'[m] = None \/ pending'[m] = pending[m]
  PROVE  XInv'
<1>1. TypeOK' /\ Matched(corpses', bodies')
  BY DEF XInv, TypeOK, Bodies
<1>2. ASSUME NEW m \in Players
      PROVE  Backed(conn'[m], pending'[m], row'[m], Refunds(bodies', m))
  <2>1. Backed(conn[m], pending[m], row[m], Refunds(bodies, m)) /\ Refunds(bodies, m) \in Nat
        /\ bodies \in Bodies
    BY XFacts
  <2>2. \A k \in CorpseIds : Owed(bs[k], m) <= Owed(bodies[k], m)
    <3>1. \A k \in CorpseIds : Owed(bodies[k], m) \in Nat
      BY <2>1, OwedNat DEF Bodies
    <3>2. Owed(None, m) = 0
      BY DEF Owed
    <3> QED
      BY <3>1, <3>2
  <2>3. Refunds(bs, m) \in Nat /\ Refunds(bs, m) <= Refunds(bodies, m)
    BY <2>1, <2>2, RefundsIs, RefundsLess
  <2>4. Backed(conn[m], pending[m], row[m], Refunds(bs, m))
    BY <2>1, <2>3, LessBacked
  <2> QED
    BY <2>4 DEF Backed
<1> QED
  BY <1>1, <1>2 DEF XInv

LEMMA GoneX ==
  ASSUME XInv, NEW k \in CorpseIds, CorpseGone(k)
  PROVE  XInv'
<1> DEFINE cs == [corpses EXCEPT ![k] = None]
<1>1. PICK bs \in {bodies, [bodies EXCEPT ![k] = None]} : bodies' = bs
  BY DEF CorpseGone
<1>2. corpses' = cs /\ UNCHANGED <<conn, pending, row>>
  BY DEF CorpseGone
<1>3. bodies \in Bodies /\ corpses \in Bodies
  BY DEF XInv, TypeOK, Bodies
<1>4. /\ cs \in Bodies /\ bs \in Bodies /\ Matched(cs, bs)
      /\ \A j \in CorpseIds : bs[j] = None \/ bs[j] = bodies[j]
  BY <1>1, <1>3 DEF Bodies, Matched, XInv
<1> HIDE DEF cs
<1>5. conn' \in [Players -> Character \cup {None}] /\ pending' \in [Players -> Character \cup {None}]
  BY <1>2 DEF XInv, TypeOK
<1> QED
  BY <1>1, <1>2, <1>4, <1>5, XFewer

LEMMA CrashX ==
  ASSUME XInv, Crash
  PROVE  XInv'
<1>1. PICK cs \in {bodies, [k \in CorpseIds |-> None]} : corpses' = cs
  BY DEF Crash
<1>2. bodies \in Bodies
  BY DEF XInv, TypeOK, Bodies
<1>3. cs \in Bodies /\ Matched(cs, bodies)
  BY <1>1, <1>2 DEF Bodies, Matched
<1>4. /\ conn' \in [Players -> Character \cup {None}] /\ pending' \in [Players -> Character \cup {None}]
      /\ \A m \in Players : conn'[m] = None /\ pending'[m] = None
      /\ row' = row /\ bodies' = bodies
  BY DEF Crash
<1> QED
  BY <1>1, <1>2, <1>3, <1>4, XFewer

-----------------------------------------------------------------------------
(* Theorems on experience *)

LEMMA NextXInv == XInv /\ [Next]_vars => XInv'
<1> SUFFICES ASSUME XInv, [Next]_vars
             PROVE  XInv'
  OBVIOUS
<1>1. ASSUME NEW p \in Players, \/ Login(p) \/ Logout(p) \/ Retry(p)
                                \/ Checkpoint(p) \/ FlushQuests(p)
      PROVE  XInv'
  BY <1>1, LoginX, LogoutX, RetryX, CheckpointX
<1>2. ASSUME NEW p \in Players, Kill(p) \/ GrantQuestXp(p)
      PROVE  XInv'
  BY <1>2, KillX, GrantX
<1>3. ASSUME NEW p \in Players, Die(p) \/ MakeCorpse(p) \/ Respawn(p)
      PROVE  XInv'
  BY <1>3, DieX, MakeCorpseX, RespawnX
<1>4. ASSUME NEW p \in Players, NEW q \in Quests,
             AcceptQuest(p, q) \/ AbandonQuest(p, q) \/ CompleteQuest(p, q)
      PROVE  XInv'
  BY <1>4, JournalX, CompleteX
<1>5. ASSUME NEW p \in Players, NEW k \in CorpseIds, AcceptRes(p, k)
      PROVE  XInv'
  BY <1>5, AcceptResX
<1>6. ASSUME NEW k \in CorpseIds, CorpseGone(k)
      PROVE  XInv'
  BY <1>6, GoneX
<1>7. CASE Crash
  BY <1>7, CrashX
<1>8. CASE UNCHANGED vars
  BY <1>8 DEF vars, XInv, TypeOK, Matched, Backed
<1> QED
  BY <1>1, <1>2, <1>3, <1>4, <1>5, <1>6, <1>7, <1>8 DEF Next

LEMMA XHolds == Spec => []XInv
  BY InitXInv, NextXInv, PTL DEF Spec

\* The variables keep their types: no experience is ever below zero, no level
\* outside the table, and no kill counts beyond what a quest asks.
THEOREM TypesHold == Spec => []TypeOK
<1>1. XInv => TypeOK
  BY DEF XInv
<1> QED
  BY <1>1, XHolds, PTL

\* For every table of levels: what resolve makes of a gain or a loss is the
\* level the total has reached, and no death, resurrection, failed save or
\* crash leaves anybody with more than was earned (progression.rs:179).
THEOREM ExperienceIsEarned == Spec => []XpEarned
<1>1. ASSUME XInv
      PROVE  ResolveAgrees
  <2> SUFFICES ASSUME NEW p \in Online, NEW n \in -MaxEarned .. MaxEarned
               PROVE  Resolve(conn[p].xp + n, conn[p].level) = Reference(conn[p].xp + n, conn[p].level)
    BY DEF ResolveAgrees
  <2>1. conn[p].level \in Levels /\ conn[p].xp \in Nat
    BY <1>1, OnlineFacts DEF Character
  <2>2. n \in Int
    BY SharesType
  <2>3. conn[p].xp + n \in Int
    BY <2>1, <2>2
  <2> QED
    BY <2>1, <2>3, ResolveRefers
<1>2. ASSUME XInv, NEW p \in Players
      PROVE  /\ conn[p] # None => Total(conn[p]) + Refunds(corpses, p) <= conn[p].earned
             /\ Total(row[p]) + Refunds(bodies, p) <= row[p].earned
  <2>1. /\ Backed(conn[p], pending[p], row[p], Refunds(bodies, p))
        /\ bodies \in Bodies /\ corpses \in Bodies /\ Refunds(bodies, p) \in Nat
    BY <1>2, XFacts
  <2>2. \A k \in CorpseIds : Owed(corpses[k], p) <= Owed(bodies[k], p)
    <3>1. \A k \in CorpseIds : Owed(bodies[k], p) \in Nat
      BY <2>1, OwedNat DEF Bodies
    <3>2. Owed(None, p) = 0
      BY DEF Owed
    <3> QED
      BY <1>2, <3>1, <3>2 DEF XInv, Matched
  <2>3. Refunds(corpses, p) \in Nat /\ Refunds(corpses, p) <= Refunds(bodies, p)
    BY <2>1, <2>2, RefundsIs, RefundsLess
  <2>4. ASSUME conn[p] # None
        PROVE  Covered(conn[p], Refunds(corpses, p))
    <3>1. conn[p] \in Character /\ Covered(conn[p], Refunds(bodies, p))
      BY <2>1, <2>4, ConnCovered DEF Backed
    <3> QED
      BY <2>1, <2>3, <3>1, LessCovered DEF Character
  <2> QED
    BY <2>1, <2>4 DEF Backed, Covered
<1>3. XInv => XpEarned
  BY <1>1, <1>2 DEF XpEarned
<1> QED
  BY <1>3, XHolds, PTL

=============================================================================
