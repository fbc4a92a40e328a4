------------------------------- MODULE Progress ------------------------------
(***************************************************************************)
(* Experience and quests: world/progression.rs, world/quests.rs,           *)
(* tick/kills.rs, tick/quest_steps.rs, what tick/death_sweep.rs and        *)
(* tick/binds_and_res.rs do to a character's experience, and the rows all  *)
(* of it is kept in (db/mod.rs, world/persistence.rs).                     *)
(*                                                                         *)
(* A row carries its history, as the character does: what was earned to    *)
(* reach the experience it holds, and which quests paid into it.  The      *)
(* experience is written on its own at a checkpoint, and in the            *)
(* transaction of a turn-in, a corpse or a resurrection; the journal is    *)
(* written every tick.  Factions, alignment and the stats of a level are   *)
(* left out.  A quest has one objective, and who stands near is open.      *)
(***************************************************************************)
EXTENDS Integers, FiniteSets, FiniteSetsExt

CONSTANTS
  Players,
  Quests,
  Questers, Mortals,   \* bound: who takes quests, who dies
  CorpseIds,           \* bound: the corpses at a time
  MaxLevel, FloorLevel,
  Band,                \* xp_to_next_for: what a level takes
  KillXp, BonusPct,    \* kill_xp, GROUP_XP_BONUS
  LossPct,             \* DEATH_XP_LOSS_FRACTION
  RefundPcts,          \* the xp_percent of the resurrection spells
  Required, Reward, LevelReq,
  MaxActive,
  MaxEarned,           \* bound: what a character earns before a last kill
  None

ASSUME BoundsType == Questers \subseteq Players /\ Mortals \subseteq Players
ASSUME LevelsType ==
  /\ MaxLevel \in Nat /\ FloorLevel \in 1 .. MaxLevel /\ Band \in [1 .. MaxLevel -> Nat \ {0}]
ASSUME QuestsType ==
  /\ Required \in [Quests -> Nat \ {0}] /\ Reward \in [Quests -> Nat]
  /\ LevelReq \in [Quests -> 1 .. MaxLevel]
ASSUME SharesType == KillXp \in Nat /\ BonusPct \in Nat /\ MaxEarned \in Nat
ASSUME NoneIsNoNumber == None \notin Int
ASSUME FiniteType == IsFiniteSet(Players) /\ IsFiniteSet(CorpseIds)

\* A resurrection gives back no more than was lost (data/spells.toml: 75 of 100
\* at most), and a death takes less than the band below is long
\* (char_data.rs: xp_to_next_for grows slowly, and 5 of 100 are lost).
ASSUME LossesType ==
  /\ LossPct \in Nat /\ RefundPcts \subseteq 0 .. 100
  /\ \A l \in FloorLevel + 1 .. MaxLevel : (Band[l] * LossPct) \div 100 <= Band[l - 1]

VARIABLES
  conn,       \* the connections: the characters in the world
  pending,    \* pending_saves: the characters whose logout save did not land
  row,        \* a character's rows
  corpses,    \* the corpses in the world
  bodies      \* the corpses' rows

vars == <<conn, pending, row, corpses, bodies>>

-----------------------------------------------------------------------------
(* Experience *)

Levels == 1 .. MaxLevel

\* The two loops of resolve, on the experience and the level.
Climb[p \in Int \X Levels] ==
  IF p[1] >= Band[p[2]] /\ p[2] < MaxLevel THEN Climb[<<p[1] - Band[p[2]], p[2] + 1>>] ELSE p

Sink[p \in Int \X Levels] ==
  IF p[1] < 0 /\ p[2] > FloorLevel THEN Sink[<<p[1] + Band[p[2] - 1], p[2] - 1>>] ELSE p

\* resolve: over the band climbs, below zero sinks to the floor level at most;
\* what is over the last band, or under the floor, is gone.
Resolve(x, l) ==
  LET up == Climb[<<x, l>>]
      full == IF up[2] = MaxLevel /\ up[1] > Band[MaxLevel] THEN Band[MaxLevel] ELSE up[1]
      down == Sink[<<full, up[2]>>]
  IN [xp |-> IF down[1] < 0 THEN 0 ELSE down[1], level |-> down[2]]

\* progress_after and award_xp land on the same numbers.
Awarded(c, n) ==
  LET r == Resolve(c.xp + n, c.level) IN [c EXCEPT !.xp = r.xp, !.level = r.level]

Earned(c, n) == [Awarded(c, n) EXCEPT !.earned = @ + n]

\* apply_death_penalty: none below the floor level; the loss that a
\* resurrection may refund is what was taken.
Penalized(c) ==
  LET loss == (Band[c.level] * LossPct) \div 100
      after == Awarded(c, -loss)
      floored == after.level = c.level /\ after.xp = 0
  IN IF c.level < FloorLevel \/ loss = 0 THEN [c EXCEPT !.lost = 0]
     ELSE [after EXCEPT !.lost = IF floored THEN c.xp ELSE loss]

-----------------------------------------------------------------------------
(* State *)

Journal == {j \in [Quests -> Nat \cup {None}] : \A q \in Quests : j[q] = None \/ j[q] <= Required[q]}

\* death_processed, corpse_pending, death_lost_xp; handed: the item rewards
\* given, wherever they went.
Character ==
  [level : Levels, xp : Nat, journal : Journal, dirty : SUBSET Quests, done : SUBSET Quests,
   dead : BOOLEAN, fallen : BOOLEAN, lost : Nat,
   handed : SUBSET Quests, earned : Nat, paid : [Quests -> Nat]]

Row ==
  [level : Levels, xp : Nat, dead : BOOLEAN, journal : Journal, done : SUBSET Quests,
   handed : SUBSET Quests, earned : Nat, paid : [Quests -> Nat]]

Corpse == [owner : Players, lost : Nat, raised : BOOLEAN]

TypeOK ==
  /\ conn \in [Players -> Character \cup {None}]
  /\ pending \in [Players -> Character \cup {None}]
  /\ row \in [Players -> Row]
  /\ corpses \in [CorpseIds -> Corpse \cup {None}]
  /\ bodies \in [CorpseIds -> Corpse \cup {None}]

Online == {p \in Players : conn[p] # None}
Active(c) == {q \in Quests : c.journal[q] # None}

NewRow ==
  [level |-> 1, xp |-> 0, dead |-> FALSE, journal |-> [q \in Quests |-> None], done |-> {},
   handed |-> {}, earned |-> 0, paid |-> [q \in Quests |-> 0]]

Init ==
  /\ conn = [p \in Players |-> None] /\ pending = [p \in Players |-> None]
  /\ row = [p \in Players |-> NewRow]
  /\ corpses = [k \in CorpseIds |-> None] /\ bodies = [k \in CorpseIds |-> None]

-----------------------------------------------------------------------------
(* Rows *)

\* The journal of who logs in: a quest both active and completed is completed.
\* Fault: the journal as it is saved.
KeptJournal(r) == r.journal
OpenJournal(r) == [q \in Quests |-> IF q \in r.done THEN None ELSE r.journal[q]]

\* from_spawn: who was saved dead is dead, and has had its corpse.
Loaded(r) ==
  [level |-> r.level, xp |-> r.xp, journal |-> OpenJournal(r),
   dirty |-> {}, done |-> r.done, dead |-> r.dead, fallen |-> FALSE, lost |-> 0,
   handed |-> r.handed, earned |-> r.earned, paid |-> r.paid]

\* write_xp_progress
WithXp(r, c) ==
  [r EXCEPT !.level = c.level, !.xp = c.xp, !.earned = c.earned, !.paid = c.paid]

\* flush_quests, for the quests whose write lands.
WithJournal(r, c, qs) ==
  [r EXCEPT !.journal = [q \in Quests |-> IF q \in qs THEN c.journal[q] ELSE r.journal[q]]]

\* persist_dirty_stores
WithStores(r, c) == [r EXCEPT !.handed = c.handed]

\* What of a flush_connection lands: the resources, the stores, the journal.
Flushed(r, c, res, stores, qs) ==
  LET r1 == IF res THEN [WithXp(r, c) EXCEPT !.dead = c.dead] ELSE r
      r2 == IF stores THEN WithStores(r1, c) ELSE r1
  IN WithJournal(r2, c, qs)

-----------------------------------------------------------------------------
(* Connections *)

\* Refused while the last save is still tried.
Login(p) ==
  /\ conn[p] = None /\ pending[p] = None
  /\ conn' = [conn EXCEPT ![p] = Loaded(row[p])]
  /\ UNCHANGED <<pending, row, corpses, bodies>>

\* reap_connection: saved as it is, a corpse still to be made included.
Logout(p) ==
  /\ p \in Online
  /\ LET c == conn[p] IN
     \E res, stores \in BOOLEAN, qs \in SUBSET c.dirty :
       /\ row' = [row EXCEPT ![p] = Flushed(@, c, res, stores, qs)]
       /\ pending' = [pending EXCEPT ![p] =
            IF res /\ stores /\ qs = c.dirty THEN None ELSE [c EXCEPT !.dirty = @ \ qs]]
  /\ conn' = [conn EXCEPT ![p] = None]
  /\ UNCHANGED <<corpses, bodies>>

\* Until it lands, or is given up.
Retry(p) ==
  /\ pending[p] # None
  /\ LET c == pending[p] IN
     \E res, stores \in BOOLEAN, qs \in SUBSET c.dirty :
       /\ row' = [row EXCEPT ![p] = Flushed(@, c, res, stores, qs)]
       /\ \/ pending' = [pending EXCEPT ![p] = None]
          \/ /\ ~(res /\ stores /\ qs = c.dirty)
             /\ pending' = [pending EXCEPT ![p].dirty = @ \ qs]
  /\ UNCHANGED <<conn, corpses, bodies>>

\* The checkpoint; in between, the journal alone at the end of every tick.
Checkpoint(p) ==
  /\ p \in Online
  /\ LET c == conn[p] IN
     \E res, stores \in BOOLEAN, qs \in SUBSET c.dirty :
       /\ row' = [row EXCEPT ![p] = Flushed(@, c, res, stores, qs)]
       /\ conn' = [conn EXCEPT ![p].dirty = @ \ qs]
  /\ UNCHANGED <<pending, corpses, bodies>>

FlushQuests(p) ==
  /\ p \in Online /\ conn[p].dirty # {}
  /\ \E qs \in SUBSET conn[p].dirty :
       /\ row' = [row EXCEPT ![p] = WithJournal(@, conn[p], qs)]
       /\ conn' = [conn EXCEPT ![p].dirty = @ \ qs]
  /\ UNCHANGED <<pending, corpses, bodies>>

\* A crash, and the boot after it: the corpses come back from their rows, or
\* not at all when they cannot be read.
Crash ==
  /\ conn' = [p \in Players |-> None] /\ pending' = [p \in Players |-> None]
  /\ corpses' \in {bodies, [k \in CorpseIds |-> None]}
  /\ UNCHANGED <<row, bodies>>

-----------------------------------------------------------------------------
(* Kills *)

\* Fault: a kill counts however many there were.
CountedOn(c, qs) ==
  LET counts == {q \in qs : c.journal[q] # None}
  IN [c EXCEPT !.journal = [q \in Quests |-> IF q \in counts THEN c.journal[q] + 1 ELSE c.journal[q]],
               !.dirty = @ \cup counts]

\* A kill counts for a quest whose objective it matches, up to what it asks.
Counted(c, qs) ==
  LET counts == {q \in qs : c.journal[q] # None /\ c.journal[q] < Required[q]}
  IN [c EXCEPT !.journal = [q \in Quests |-> IF q \in counts THEN c.journal[q] + 1 ELSE c.journal[q]],
               !.dirty = @ \cup counts]

Share(n) ==
  LET pool == IF n > 1 THEN (KillXp * (100 + BonusPct)) \div 100 ELSE KillXp
  IN IF pool \div n < 1 THEN 1 ELSE pool \div n

\* award_kill: the living of the creditor's group near enough share; a
\* creditor who lives is one of them at any distance.
Kill(p) ==
  /\ p \in Online
  /\ \E near \in SUBSET Online, qs \in SUBSET Quests :
       LET shares == {m \in near \cup {p} : ~conn[m].dead}
           each == Share(Cardinality(shares))
       IN /\ shares # {}
          /\ \A m \in shares : conn[m].earned < MaxEarned
          /\ conn' = [m \in Players |->
               IF m \in shares THEN Counted(Earned(conn[m], each), qs) ELSE conn[m]]
  /\ UNCHANGED <<pending, row, corpses, bodies>>

\* A game master's.
GrantQuestXp(p) ==
  /\ p \in Online /\ conn[p].earned < MaxEarned
  /\ conn' = [conn EXCEPT ![p] = Earned(@, 1)]
  /\ UNCHANGED <<pending, row, corpses, bodies>>

-----------------------------------------------------------------------------
(* Quests: asked while alive, handled after the tick's messages, a death      *)
(* told by the client among them; so nothing here asks who is dead.           *)

AcceptQuest(p, q) ==
  /\ p \in Online \cap Questers
  /\ conn[p].level >= LevelReq[q] /\ q \notin conn[p].done
  /\ conn[p].journal[q] = None /\ Cardinality(Active(conn[p])) < MaxActive
  /\ conn' = [conn EXCEPT ![p].journal[q] = 0, ![p].dirty = @ \cup {q}]
  /\ UNCHANGED <<pending, row, corpses, bodies>>

AbandonQuest(p, q) ==
  /\ p \in Online /\ conn[p].journal[q] # None
  /\ conn' = [conn EXCEPT ![p].journal[q] = None, ![p].dirty = @ \cup {q}]
  /\ UNCHANGED <<pending, row, corpses, bodies>>

\* objectives_met
Met(c, q) == c.journal[q] # None /\ c.journal[q] >= Required[q]

\* What a turn-in makes of the character.
Rewarded(c, q) ==
  [Earned(c, Reward[q]) EXCEPT !.paid[q] = @ + 1, !.done = @ \cup {q}, !.handed = @ \cup {q},
                               !.journal[q] = None, !.dirty = @ \ {q}]

\* Fault: the completion is left to a later save.
RecordedXp(r, c, q) == WithXp(r, c)

\* record_quest_completion: the completion and the experience after it.
Recorded(r, c, q) == [WithXp(r, c) EXCEPT !.done = @ \cup {q}]

\* The completion is recorded first (without it nothing happens); then the
\* journal's row goes, unless that fails; then what it pays is paid, and the
\* stores are saved if they can be.
CompleteQuest(p, q) ==
  /\ p \in Online /\ q \notin conn[p].done /\ Met(conn[p], q)
  /\ conn[p].level >= LevelReq[q]
  /\ LET c == Rewarded(conn[p], q) IN
     /\ conn' = [conn EXCEPT ![p] = c]
     /\ \E deleted, saved \in BOOLEAN :
          row' = [row EXCEPT ![p] =
            LET r == WithJournal(Recorded(@, c, q), c, IF deleted THEN {q} ELSE {})
            IN IF saved THEN WithStores(r, c) ELSE r]
  /\ UNCHANGED <<pending, corpses, bodies>>

-----------------------------------------------------------------------------
(* Death and resurrection *)

\* kill_player
Die(p) ==
  /\ p \in Online \cap Mortals /\ ~conn[p].dead
  /\ conn' = [conn EXCEPT ![p] = [Penalized(@) EXCEPT !.dead = TRUE, !.fallen = TRUE]]
  /\ UNCHANGED <<pending, row, corpses, bodies>>

\* Fault: the experience is left to the checkpoint.
BuriedOnly(r, c) == WithStores(r, c)

\* save_corpse: what the owner had, and the experience after the loss.
Buried(r, c) == WithXp(WithStores(r, c), c)

\* The corpse of a death, in one transaction with the experience, after the
\* stores.  If it cannot be saved it is tried again.
MakeCorpse(p) ==
  /\ p \in Online /\ conn[p].fallen
  /\ \/ /\ row' = [row EXCEPT ![p] = WithStores(@, conn[p])]
        /\ UNCHANGED <<conn, corpses, bodies>>
     \/ \E k \in CorpseIds :
          LET body == [owner |-> p, lost |-> conn[p].lost, raised |-> FALSE] IN
          /\ corpses[k] = None /\ bodies[k] = None
          /\ row' = [row EXCEPT ![p] = Buried(@, conn[p])]
          /\ corpses' = [corpses EXCEPT ![k] = body] /\ bodies' = [bodies EXCEPT ![k] = body]
          /\ conn' = [conn EXCEPT ![p].fallen = FALSE]
  /\ UNCHANGED pending

Respawn(p) ==
  /\ p \in Online /\ conn[p].dead
  /\ conn' = [conn EXCEPT ![p].dead = FALSE]
  /\ UNCHANGED <<pending, row, corpses, bodies>>

\* An offer for the corpse is accepted (Casting): nothing unless it is
\* recorded, with the experience after the refund.
AcceptRes(p, k) ==
  /\ p \in Online /\ corpses[k] # None
  /\ corpses[k].owner = p /\ ~corpses[k].raised
  /\ \E pct \in RefundPcts :
       LET c == Awarded(conn[p], (corpses[k].lost * pct + 50) \div 100) IN
       /\ row' = [row EXCEPT ![p] = WithXp(@, c)]
       /\ conn' = [conn EXCEPT ![p] = c]
  /\ corpses' = [corpses EXCEPT ![k].raised = TRUE]
  /\ bodies' = [bodies EXCEPT ![k].raised = TRUE]
  /\ UNCHANGED pending

\* Decayed, or looted empty; the rows of a decayed one may stay.
CorpseGone(k) ==
  /\ corpses[k] # None
  /\ corpses' = [corpses EXCEPT ![k] = None]
  /\ bodies' \in {bodies, [bodies EXCEPT ![k] = None]}
  /\ UNCHANGED <<conn, pending, row>>

-----------------------------------------------------------------------------
Next ==
  \/ \E p \in Players :
       \/ Login(p) \/ Logout(p) \/ Retry(p)
       \/ Checkpoint(p) \/ FlushQuests(p)
       \/ Kill(p) \/ GrantQuestXp(p)
       \/ Die(p) \/ MakeCorpse(p) \/ Respawn(p)
  \/ \E p \in Players, q \in Quests : AcceptQuest(p, q) \/ AbandonQuest(p, q) \/ CompleteQuest(p, q)
  \/ \E p \in Players, k \in CorpseIds : AcceptRes(p, k)
  \/ \E k \in CorpseIds : CorpseGone(k)
  \/ Crash

Spec == Init /\ [][Next]_vars

-----------------------------------------------------------------------------
(* Properties *)

\* What it takes to reach a level.
Start[l \in Levels] == IF l = 1 THEN 0 ELSE Start[l - 1] + Band[l - 1]
Total(c) == Start[c.level] + c.xp

\* What resurrections may still give back.
Owed(body, p) == IF body # None /\ body.owner = p /\ ~body.raised THEN body.lost ELSE 0
Refunds(cs, p) == SumFunction([k \in CorpseIds |-> Owed(cs[k], p)])

\* What resolve is for: the total moves by what is given or taken, no further
\* than the end of the last level and the start of the floor level (of one's
\* own below it), and the level is the one the total has reached.
Reference(x, l) ==
  LET low == Start[IF l < FloorLevel THEN l ELSE FloorLevel]
      high == Start[MaxLevel] + Band[MaxLevel]
      t == Max({low, Min({high, Start[l] + x})})
      reached == Max({k \in Levels : Start[k] <= t})
  IN [xp |-> t - Start[reached], level |-> reached]

ResolveAgrees ==
  \A p \in Online, n \in -MaxEarned .. MaxEarned :
    Resolve(conn[p].xp + n, conn[p].level) = Reference(conn[p].xp + n, conn[p].level)

\* Experience is carried over every level, and nobody gains any by dying: what
\* a character has, with all that resurrections may still give back, is never
\* more than was earned, in the world and, so that a crash changes nothing in
\* it, in the rows.
XpEarned ==
  /\ ResolveAgrees
  /\ \A p \in Players :
       /\ conn[p] # None => Total(conn[p]) + Refunds(corpses, p) <= conn[p].earned
       /\ Total(row[p]) + Refunds(bodies, p) <= row[p].earned

\* A quest pays once: whatever a crash or a failed save leaves behind, the
\* experience in a row has a quest's reward in it exactly when the row says it
\* is completed, and no item reward is kept without that.
PaidOnce(c) ==
  /\ \A q \in Quests : c.paid[q] = IF q \in c.done THEN 1 ELSE 0
  /\ c.handed \subseteq c.done

QuestPaidOnce ==
  \A p \in Players :
    /\ PaidOnce(row[p])
    /\ conn[p] # None => PaidOnce(conn[p])
    /\ pending[p] # None => PaidOnce(pending[p])

\* The journal's rows are the journal, but for the quests still to be written
\* and the rows of completed quests that outlived their turn-in, which a login
\* drops: no quest is open again after it was completed.
JournalSaved ==
  \A p \in Online :
    /\ Active(conn[p]) \cap conn[p].done = {}
    /\ \A q \in Quests \ conn[p].dirty :
         \/ row[p].journal[q] = conn[p].journal[q]
         \/ conn[p].journal[q] = None /\ q \in row[p].done

=============================================================================
