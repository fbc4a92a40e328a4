------------------------------- MODULE Casting -------------------------------
(***************************************************************************)
(* Spells and what they leave on a player: the cast bar (world/handlers.rs,*)
(* world/cast_gate.rs), the landing of a spell (tick/casting.rs,           *)
(* tick/cast_rules.rs), buffs (world/buffs.rs, tick/spell_buffs.rs,        *)
(* tick/buff_tick.rs), blows between players (tick/melee.rs), death        *)
(* (tick/death_sweep.rs, world/progression.rs) and resurrection            *)
(* (tick/binds_and_res.rs).                                                *)
(*                                                                         *)
(* A tick is a fixed sequence of passes.  A spell is one of six, each the  *)
(* shape of many; numbers, distances, sight and timers are left open: a    *)
(* cast may always be refused for its class, level, gem, cooldown or mana, *)
(* a bar may always have run too short or too long.  Spells on creatures   *)
(* are in Creatures; what regenerates and a game master's commands on      *)
(* himself are left out.                                                   *)
(***************************************************************************)
EXTENDS Naturals, FiniteSets

CONSTANTS
  Players,
  Casters,
  Corpses,   \* bound: the corpses at a time
  Full,      \* bound: max_hp
  None

ASSUME CastersType == Casters \subseteq Players
ASSUME FullType == Full \in Nat \ {0}
ASSUME NoneIsNobody == None \notin Players \cup Corpses

VARIABLES
  pass,      \* the pass of the tick
  here,      \* the players in the world
  hp,
  dead,      \* death_processed
  bar,       \* cast_spell_name, from a cast start on
  request,   \* cast_spell_intents: what was asked, and whether its own bar ran then
  struck,    \* interrupted since they asked: cast_interrupted_at
  singing,   \* the casters with an active_song
  buffs,     \* active_buffs of a player, by name; the DoTs apart
  dots,      \* active_buffs of a player: whose DoTs
  applied,   \* how often the deltas of a stat buff are in the player's stats
  offer,     \* pending_res_offer
  corpses,
  begun,     \* history: the bars that were begun and may still land
  unearned   \* history: who landed a spell without one

castVars == <<bar, request, struck, singing, begun, unearned>>
bodyVars == <<hp, dead, buffs, dots, applied>>
resVars == <<offer, corpses>>
vars == <<pass, here, castVars, bodyVars, resVars>>

-----------------------------------------------------------------------------
(* Spells *)

Passes == <<"messages", "blows", "casts", "upkeep", "buffs">>

Spells == {"bolt", "expose", "boon", "song", "price", "raise"}
ASSUME NoneIsNoSpell == None \notin Spells
Timed == Spells \ {"expose"}           \* cast_time > 0
Hostile == {"bolt", "expose"}          \* target_type ENEMY
Price == 1                             \* hp_cost of "price"

\* What a buff does is told by its name: "boon" and "sick" are stat buffs,
\* "song" heals.
StatBuffs == {"boon", "sick"}
Buffs == StatBuffs \cup {"song"}

Request == [spell : Spells, target : Players \cup Corpses, own : BOOLEAN]
Corpse == [owner : Players, raised : BOOLEAN, refunds : 0 .. 2]

Lying == {c \in Corpses : corpses[c] # None}
Standing == {p \in here : hp[p] > 0}
Free(p) == p \in here /\ p \notin dead
Asking == {p \in Casters : request[p] # None}

\* Fault: no floor.
LessFree(n, d) == n - d

Less(n, d) == IF d >= n THEN 0 ELSE n - d
More(n, d) == IF n + d > Full THEN Full ELSE n + d

TypeOK ==
  /\ pass \in {Passes[i] : i \in 1 .. 5}
  /\ here \subseteq Players /\ dead \subseteq Players
  /\ hp \in [Players -> 0 .. Full]
  /\ bar \in [Casters -> Timed \cup {None}]
  /\ request \in [Casters -> Request \cup {None}]
  /\ struck \subseteq Casters /\ singing \subseteq Casters
  /\ buffs \in [Players -> SUBSET Buffs]
  /\ dots \in [Players -> SUBSET Casters]
  /\ applied \in [Players -> [StatBuffs -> Nat]]
  /\ offer \in [Players -> Corpses \cup {None}]
  /\ corpses \in [Corpses -> Corpse \cup {None}]
  /\ begun \in [Casters -> SUBSET Timed] /\ unearned \subseteq Casters

Unapplied == [n \in StatBuffs |-> 0]

Init ==
  /\ pass = "messages" /\ here = {} /\ dead = {}
  /\ hp = [p \in Players |-> Full]
  /\ bar = [p \in Casters |-> None] /\ request = [p \in Casters |-> None]
  /\ struck = {} /\ singing = {}
  /\ buffs = [p \in Players |-> {}] /\ dots = [p \in Players |-> {}]
  /\ applied = [p \in Players |-> Unapplied]
  /\ offer = [p \in Players |-> None] /\ corpses = [c \in Corpses |-> None]
  /\ begun = [p \in Casters |-> {}] /\ unearned = {}

-----------------------------------------------------------------------------
(* Buffs *)

\* Fault: over the same buff's deltas.
StatBuffOver(p, n) ==
  /\ buffs' = [buffs EXCEPT ![p] = @ \cup {n}]
  /\ applied' = [applied EXCEPT ![p][n] = @ + 1]

\* apply_stat_buff: the deltas of the same buff are undone first.
StatBuff(p, n) ==
  /\ buffs' = [buffs EXCEPT ![p] = @ \cup {n}]
  /\ applied' = [applied EXCEPT ![p][n] = IF n \in buffs[p] THEN @ ELSE @ + 1]

\* A stat buff goes with its deltas: undo_stat_deltas.
Strip(p, n) ==
  /\ buffs' = [buffs EXCEPT ![p] = @ \ {n}]
  /\ applied' = IF n \in StatBuffs THEN [applied EXCEPT ![p][n] = @ - 1] ELSE applied

\* first_dispellable_index: the oldest, so any of them; a DoT is one too.
Dispelled(t) ==
  \/ /\ buffs[t] = {} /\ dots[t] = {}
     /\ UNCHANGED <<buffs, dots, applied>>
  \/ \E n \in buffs[t] : Strip(t, n) /\ UNCHANGED dots
  \/ \E c \in dots[t] : dots' = [dots EXCEPT ![t] = @ \ {c}] /\ UNCHANGED <<buffs, applied>>

NoDotsFrom(ps) == [p \in Players |-> dots[p] \ ps]

-----------------------------------------------------------------------------
(* Messages, after those who left and came *)

\* Saved as they are, without what was on them.
Leave(p) ==
  /\ pass = "messages" /\ p \in here /\ Asking = {}
  /\ here' = here \ {p}
  /\ bar' = [q \in Casters |-> IF q = p THEN None ELSE bar[q]]
  /\ begun' = [q \in Casters |-> IF q = p THEN {} ELSE begun[q]]
  /\ singing' = singing \ {p}
  /\ buffs' = [buffs EXCEPT ![p] = {}]
  /\ dots' = [NoDotsFrom({p}) EXCEPT ![p] = {}]
  /\ applied' = [applied EXCEPT ![p] = Unapplied]
  /\ offer' = [offer EXCEPT ![p] = None]
  /\ UNCHANGED <<pass, request, struck, unearned, hp, dead, corpses>>

\* Who left dead is dead.
Enter(p) ==
  /\ pass = "messages" /\ p \notin here /\ Asking = {}
  /\ here' = here \cup {p}
  /\ UNCHANGED <<pass, castVars, bodyVars, resVars>>

\* CastStart, the dead apart: the bar, in place of one that runs.  It may fizzle.
BeginCast(p, s) ==
  /\ pass = "messages" /\ Free(p)
  /\ LET asked == IF request[p] = None THEN {} ELSE begun[p] \cap {request[p].spell} IN
     \/ /\ bar' = [bar EXCEPT ![p] = s]
        /\ begun' = [begun EXCEPT ![p] = asked \cup {s}]
     \/ /\ s # "song"
        /\ bar' = [bar EXCEPT ![p] = None]
        /\ begun' = [begun EXCEPT ![p] = asked]
  /\ UNCHANGED <<pass, here, request, struck, singing, unearned, bodyVars, resVars>>

\* CastComplete, CastFail.
EndCast(p) ==
  /\ pass = "messages" /\ Free(p) /\ bar[p] # None
  /\ bar' = [bar EXCEPT ![p] = None]
  /\ begun' = [begun EXCEPT ![p] = IF request[p] = None THEN {} ELSE @ \cap {request[p].spell}]
  /\ UNCHANGED <<pass, here, request, struck, singing, unearned, bodyVars, resVars>>

\* What a spell may be asked for; at anything else it is refused like one at a
\* target that is gone.
Targets(p, s) ==
  CASE s \in {"song", "price"} -> {p} [] s = "raise" -> Corpses [] OTHER -> Players

\* CastSpell: one a tick, with the bar as it is now.  Then only that bar may
\* still land in this tick.
AskCast(p, s, t) ==
  /\ pass = "messages" /\ Free(p) /\ request[p] = None
  /\ request' = [request EXCEPT ![p] = [spell |-> s, target |-> t, own |-> bar[p] = s]]
  /\ UNCHANGED <<pass, here, bar, struck, singing, begun, unearned, bodyVars, resVars>>

StopSong(p) ==
  /\ pass = "messages" /\ Free(p)
  /\ singing' = singing \ {p}
  /\ UNCHANGED <<pass, here, bar, request, struck, begun, unearned, bodyVars, resVars>>

\* At the bind point, with a quarter of the hp.
Respawn(p) ==
  /\ pass = "messages" /\ p \in here \cap dead
  /\ hp' = [hp EXCEPT ![p] = 1] /\ dead' = dead \ {p}
  /\ UNCHANGED <<pass, here, castVars, buffs, dots, applied, resVars>>

-----------------------------------------------------------------------------
(* Damage and interruption *)

\* roll_cast_interrupt, of those hurt: who has a bar may lose it.
Interrupted(ps) ==
  \E lost \in SUBSET {p \in Casters \cap ps : bar[p] # None} :
    /\ bar' = [p \in Casters |-> IF p \in lost THEN None ELSE bar[p]]
    /\ struck' = struck \cup lost
    /\ begun' = [p \in Casters |-> IF p \in lost THEN {} ELSE begun[p]]

\* The damage, less what an absorb takes, and the damage shield's answer.
Wounded(t, by) ==
  \E d, back \in 0 .. Full : hp' = [hp EXCEPT ![t] = Less(@, d), ![by] = Less(@, back)]

\* A swing at another player.
Blow(a, t) ==
  /\ pass = "blows" /\ a \in here /\ t \in Standing \ {a}
  /\ Wounded(t, a)
  /\ Interrupted({a, t})
  /\ UNCHANGED <<pass, here, request, singing, unearned, dead, buffs, dots, applied, resVars>>

\* A creature's blow in the AI's pass; a fall, which interrupts nothing.
Hurt(p) ==
  /\ pass = "upkeep" /\ p \in Standing
  /\ \E d \in 1 .. Full : hp' = [hp EXCEPT ![p] = Less(@, d)]
  /\ Interrupted({p})
  /\ UNCHANGED <<pass, here, request, singing, unearned, dead, buffs, dots, applied, resVars>>

-----------------------------------------------------------------------------
(* The landing of a spell *)

\* resolve_cast_target
TargetOk(p, q) ==
  CASE q.spell \in Hostile -> q.target \in Standing \ {p}
    [] q.spell = "raise" -> /\ q.target \in Lying /\ ~ corpses[q.target].raised
                            /\ corpses[q.target].owner \in here
    [] q.spell = "boon" -> q.target \in Standing
    [] OTHER -> TRUE

\* Fault: the interrupt that came after the asking is not seen.
BarHeldStruck(p, q) == q.spell \in Timed => q.own

\* The bar it was asked with is its own, and no blow has broken it since.
BarHeld(p, q) == q.spell \in Timed => q.own /\ p \notin struck

Castable(p, q) == p \in Standing \ dead /\ BarHeld(p, q)

Answered(p) == request' = [request EXCEPT ![p] = None]

\* refuse_cast: the bar, if any, runs on.
Refuse(p) ==
  /\ pass = "casts" /\ p \in Asking /\ Answered(p)
  /\ begun' = [begun EXCEPT ![p] = @ \cap {bar[p]}]
  /\ UNCHANGED <<pass, here, bar, struck, singing, unearned, bodyVars, resVars>>

\* The bar is over and nothing is paid: it was held too long, its caster moved,
\* its target will not do, or an instant spell fizzled.
Drop(p) ==
  /\ pass = "casts" /\ p \in Asking
  /\ LET q == request[p] IN
     \/ p \in Standing \ dead /\ q.spell \in Timed /\ q.own
     \/ Castable(p, q) /\ ~ TargetOk(p, q)
     \/ Castable(p, q) /\ q.spell \notin Timed
  /\ Answered(p)
  /\ bar' = [bar EXCEPT ![p] = None] /\ begun' = [begun EXCEPT ![p] = {}]
  /\ UNCHANGED <<pass, here, struck, singing, unearned, bodyVars, resVars>>

\* The caster's bar is used up, those of the struck are lost.
Bars(p, lost) == [q \in Casters |-> IF q \in lost \cup {p} THEN None ELSE bar[q]]

\* What every landing does: the bar is used up, and another song ends.
Charged(p, s, lost) ==
  /\ Answered(p)
  /\ bar' = Bars(p, lost) /\ struck' = struck \cup lost
  /\ begun' = [q \in Casters |-> IF q \in lost \cup {p} THEN {} ELSE begun[q]]
  /\ unearned' = IF s \in Timed \ begun[p] THEN unearned \cup {p} ELSE unearned
  /\ singing' = IF s # "song" THEN singing \ {p}
               ELSE IF p \in singing THEN singing \ {p} ELSE singing \cup {p}
  /\ UNCHANGED <<pass, here, dead>>

\* song_pulse
Pulsed(p) == buffs' = [buffs EXCEPT ![p] = @ \cup {"song"}]

\* ENEMY, of a player: damage, and a DoT even on who has fallen.
Burned(p, t) == dots' = [dots EXCEPT ![t] = @ \cup {p}]

LandBolt(p, t) ==
  /\ Wounded(t, p)
  /\ Burned(p, t)
  /\ UNCHANGED <<buffs, applied, offer>>

\* ENEMY, with is_dispel.
LandExpose(t) == Dispelled(t) /\ UNCHANGED <<hp, offer>>

\* ALLY: a heal and a stat buff.
LandBoon(t) ==
  /\ \E d \in 0 .. Full : hp' = [hp EXCEPT ![t] = More(@, d)]
  /\ StatBuff(t, "boon")
  /\ UNCHANGED <<dots, offer>>

\* A second time it ends.
LandSong(p) ==
  /\ IF p \in singing THEN UNCHANGED buffs ELSE Pulsed(p)
  /\ UNCHANGED <<hp, dots, applied, offer>>

\* SELF, paid with hp, which may be the last: the sweep sees to that.
LandPrice(p) ==
  /\ hp' = [hp EXCEPT ![p] = Less(@, Price)]
  /\ UNCHANGED <<buffs, dots, applied, offer>>

\* CORPSE: an offer to its owner, over an older one.
LandRaise(c) ==
  /\ offer' = [offer EXCEPT ![corpses[c].owner] = c]
  /\ UNCHANGED <<hp, buffs, dots, applied>>

Land(p) ==
  /\ pass = "casts" /\ p \in Asking /\ Castable(p, request[p]) /\ TargetOk(p, request[p])
  /\ LET s == request[p].spell  t == request[p].target IN
     /\ \E lost \in SUBSET {q \in Casters \cap {t} : s = "bolt" /\ bar[q] # None} :
          Charged(p, s, lost)
     /\ CASE s = "bolt" -> LandBolt(p, t)
          [] s = "expose" -> LandExpose(t)
          [] s = "boon" -> LandBoon(t)
          [] s = "song" -> LandSong(p)
          [] s = "price" -> LandPrice(p)
          [] s = "raise" -> LandRaise(t)
  /\ UNCHANGED corpses

-----------------------------------------------------------------------------
(* Resurrection *)

\* Fault: it may be raised again.
RaisedOpen(body) == [body EXCEPT !.refunds = IF @ < 2 THEN @ + 1 ELSE @]

Raised(body) == [body EXCEPT !.raised = TRUE, !.refunds = IF @ < 2 THEN @ + 1 ELSE @]

Raisable(p, c) == c \in Lying /\ corpses[c].owner = p /\ ~ corpses[c].raised

\* apply_res_accepts, yes: the refund, the sickness, a quarter of the hp at most.
\* While the save fails nothing happens, and yes may be said again.
AcceptRes(p) ==
  /\ pass = "upkeep" /\ p \in here /\ offer[p] # None /\ Raisable(p, offer[p])
  /\ corpses' = [corpses EXCEPT ![offer[p]] = Raised(@)]
  /\ offer' = [offer EXCEPT ![p] = None]
  /\ StatBuff(p, "sick")
  /\ hp' = [hp EXCEPT ![p] = IF @ > 1 THEN 1 ELSE @]
  /\ UNCHANGED <<pass, here, castVars, dead, dots>>

\* No; or yes to what cannot be raised any more.
DeclineRes(p) ==
  /\ pass = "upkeep" /\ p \in here /\ offer[p] # None
  /\ offer' = [offer EXCEPT ![p] = None]
  /\ UNCHANGED <<pass, here, castVars, bodyVars, corpses>>

\* Decayed.
CorpseGone(c) ==
  /\ pass = "upkeep" /\ c \in Lying
  /\ corpses' = [corpses EXCEPT ![c] = None]
  /\ UNCHANGED <<pass, here, castVars, bodyVars, offer>>

-----------------------------------------------------------------------------
(* run_buff_tick and run_death_sweep *)

Pulse(p) ==
  /\ pass = "buffs" /\ p \in singing /\ p \in Standing \ dead
  /\ Pulsed(p)
  /\ UNCHANGED <<pass, here, castVars, hp, dead, dots, applied, resVars>>

\* A heal over time asks only whether hp is below max_hp: it lifts who has
\* fallen in this tick.
HotTick(p) ==
  /\ pass = "buffs" /\ p \in here /\ "song" \in buffs[p] /\ hp[p] < Full
  /\ hp' = [hp EXCEPT ![p] = @ + 1]
  /\ UNCHANGED <<pass, here, castVars, dead, buffs, dots, applied, resVars>>

DotTick(p) ==
  /\ pass = "buffs" /\ p \in Standing \ dead /\ dots[p] # {}
  /\ hp' = [hp EXCEPT ![p] = @ - 1]
  /\ \E over \in SUBSET dots[p] : dots' = [dots EXCEPT ![p] = @ \ over]
  /\ UNCHANGED <<pass, here, castVars, dead, buffs, applied, resVars>>

Expire(p, n) ==
  /\ pass = "buffs" /\ n \in buffs[p]
  /\ Strip(p, n)
  /\ UNCHANGED <<pass, here, castVars, hp, dead, dots, resVars>>

\* Fault: what was on them stays.
ClearedNot(ps) == buffs

\* kill_player empties active_buffs; the deltas stay in the stats.
Cleared(ps) == [p \in Players |-> IF p \in ps THEN {} ELSE buffs[p]]

\* A body for each of the newly dead.  None: it could not be saved in this tick,
\* or is beyond the bound.  The ids are never reused: not while an offer names one.
Bodies(ps) ==
  LET New == {c \in Corpses \ Lying : \A p \in Players : offer[p] # c} IN
  {f \in [ps -> New \cup {None}] :
     \A p, q \in ps : f[p] = f[q] /\ f[p] # None => p = q}

Sweep ==
  LET newly == {p \in here : hp[p] = 0} \ dead IN
  /\ pass = "buffs" /\ pass' = "messages"
  /\ dead' = dead \cup newly
  /\ bar' = [p \in Casters |-> IF p \in newly THEN None ELSE bar[p]]
  /\ begun' = [p \in Casters |-> IF p \in newly THEN {} ELSE begun[p]]
  /\ struck' = {}
  /\ singing' = singing \ newly
  /\ buffs' = Cleared(newly)
  /\ dots' = [p \in Players |-> IF p \in newly THEN {} ELSE dots[p] \ newly]
  /\ \E f \in Bodies(newly) :
       corpses' = [c \in Corpses |->
         IF \E p \in newly : f[p] = c
         THEN [owner |-> CHOOSE p \in newly : f[p] = c, raised |-> FALSE, refunds |-> 0]
         ELSE corpses[c]]
  /\ UNCHANGED <<here, request, unearned, hp, applied, offer>>

NextPass ==
  /\ \E i \in 1 .. 4 : pass = Passes[i] /\ pass' = Passes[i + 1]
  /\ pass = "casts" => Asking = {}
  /\ UNCHANGED <<here, castVars, bodyVars, resVars>>

Next ==
  \/ NextPass \/ Sweep
  \/ \E p \in Players :
       \/ Leave(p) \/ Enter(p) \/ Respawn(p) \/ Hurt(p)
       \/ AcceptRes(p) \/ DeclineRes(p) \/ HotTick(p) \/ DotTick(p)
       \/ \E t \in Players : Blow(p, t)
       \/ \E n \in Buffs : Expire(p, n)
  \/ \E p \in Casters :
       \/ EndCast(p) \/ StopSong(p) \/ Refuse(p) \/ Drop(p) \/ Land(p) \/ Pulse(p)
       \/ \E s \in Timed : BeginCast(p, s)
       \/ \E s \in Spells : \E t \in Targets(p, s) : AskCast(p, s, t)
  \/ \E c \in Corpses : CorpseGone(c)

Spec == Init /\ [][Next]_vars

-----------------------------------------------------------------------------
(* Properties *)

\* A timed spell lands once for each bar, and only if no blow broke that bar,
\* however start, hit, asking and landing fall together in a tick.
\* (casting.rs:215, the snapshot against cast_interrupted_at)
CastEarned == unearned = {}

\* The points a player's stats carry are those of the stat buffs on them; only
\* a death (and the leaks it leaves) comes between: no recast, dispel, expiry
\* or second sickness adds to the difference.  (spell_buffs.rs:24)
Carried(p, n) == applied[p][n] - (IF n \in buffs[p] THEN 1 ELSE 0)
StatsAccounted ==
  [][\A p \in Players, n \in StatBuffs :
       Carried(p, n)' # Carried(p, n) =>
         \/ p \in dead' \ dead
         \/ p \in here \ here']_vars

\* Until a respawn nothing is cast by the dead or lifts them: no heal over time,
\* no song, no bar of theirs is left, whatever was on its way when they fell.
\* (death_sweep.rs:38, progression.rs:155)
DeadAreStill ==
  \A p \in dead :
    /\ hp[p] = 0 /\ buffs[p] \subseteq {"sick"} /\ dots[p] = {}
    /\ p \in Casters => p \notin singing /\ bar[p] = None

\* However many offers were made for it, a corpse gives its owner's experience
\* back once.  (binds_and_res.rs:73)
RefundedOnce == \A c \in Lying : corpses[c].refunds <= 1

\* buffs.rs:41: the deltas are added on apply and subtracted on expire, so who
\* carries no buff carries no points.
StatsReturn ==
  \A p \in Players, n \in StatBuffs : applied[p][n] > 0 => n \in buffs[p]
=============================================================================
