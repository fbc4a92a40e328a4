------------------------------ MODULE Creatures ------------------------------
(***************************************************************************)
(* Creatures and pets: the spawner (world/spawn_points.rs,                 *)
(* tick/spawning.rs), what a mob or a pet does in a tick (world/entity.rs, *)
(* tick/enemy_ai.rs), what a player does to it (tick/melee.rs,             *)
(* tick/casting.rs, tick/pet_commands.rs), its death (tick/kills.rs) and   *)
(* the life of a pet (tick/pet_life.rs).                                   *)
(*                                                                         *)
(* A tick is a fixed sequence of passes: leavers, joiners and spawning     *)
(* (open), the players' attacks, spells and commands (act), then all the   *)
(* creatures at once and their blows one by one (blows).  Distances,       *)
(* sight, damage and timers are left open: whoever is alive may be near    *)
(* enough, a timer that runs may run out, any hater may be the greatest.   *)
(* The aggro ledger, which only decides who is paid for a kill, is not     *)
(* here; nor is a pet's own threat table, which nothing reads.             *)
(***************************************************************************)
EXTENDS Naturals, FiniteSetsExt

CONSTANTS
  Players,
  Masters,   \* the players who are Beast Masters
  Points,    \* the camps' spawn points
  Ids,       \* bound: entity ids; one nobody names any more stands for a new one
  Full,      \* bound: a creature's max_hp
  None

ASSUME FullType == Full \in Nat \ {0}
ASSUME MastersType == Masters \subseteq Players
ASSUME NoneIsNobody == None \notin Players \cup Ids \cup Points
ASSUME IdsDiffer == Players \cap Ids = {}
ASSUME IdsFinite == IsFiniteSet(Ids)

VARIABLES
  due,        \* the spawn points whose due_at is set
  creatures,  \* WorldState::enemies
  present,    \* players: out, in (in_world), linkdead
  life,       \* players: alive, down (no hp, not swept yet), dead
  last,       \* last_attacked_enemy, while it is fresh
  retreat,    \* the players whose warder_respawn_at is set
  pass,       \* the pass of the tick
  hits        \* enemy_hits: <<attacker, target>>

playerVars == <<present, life, last>>
vars == <<due, creatures, present, life, last, retreat, pass, hits>>

-----------------------------------------------------------------------------
(* A creature *)

Passes == {"open", "act", "blows"}
Anyone == Players \cup Ids

Creature ==
  [ point : Points \cup {None},    \* spawn_point_idx; None is usize::MAX
    owner : Players \cup {None},
    warder : BOOLEAN,              \* the template is a warder's
    charmed : BOOLEAN,             \* charm_expires_at is set
    state : {"Idle", "Chase", "Attack", "Leash", "Dead"},
    hp : 0 .. Full,
    target : Anyone \cup {None},
    threat : SUBSET Anyone,
    dots : SUBSET Players,         \* active_dots, by caster
    stance : {"Follow", "Guard", "Sit"},
    stuck : BOOLEAN ]              \* refused for EVADE_GRACE_SECS

ASSUME NoneIsNoCreature == None \notin Creature

Mob(pt) ==
  [point |-> pt, owner |-> None, warder |-> FALSE, charmed |-> FALSE, state |-> "Idle",
   hp |-> Full, target |-> None, threat |-> {}, dots |-> {}, stance |-> "Follow",
   stuck |-> FALSE]

Pet(p, warder, hp) == [Mob(None) EXCEPT !.owner = p, !.warder = warder, !.hp = hp]

Here == {i \in Ids : creatures[i] # None}
Living == {i \in Here : creatures[i].state # "Dead"}
IsOwned(c) == c.owner # None
IsPet(i) == IsOwned(creatures[i])
LivingPets == {i \in Living : IsPet(i)}
\* Fault: the first one found.
OnePetOf(p) ==
  LET mine == {i \in Here : creatures[i].owner = p}
  IN  IF mine = {} THEN {} ELSE {CHOOSE i \in mine : TRUE}

PetsOf(p) == {i \in Here : creatures[i].owner = p}

Evading(c) == c.owner = None /\ (c.state = "Leash" \/ (c.state = "Chase" /\ c.stuck))

\* Fault: no floor.
LessFree(hp, d) == hp - d

Less(hp, d) == IF d >= hp THEN 0 ELSE hp - d

\* transition: leaving the fight ends the DoTs.  What a dead body was after is
\* of no account any more.
Enter(c, s) ==
  IF c.state = s THEN c
  ELSE LET d == [c EXCEPT !.state = s, !.stuck = FALSE] IN
       CASE s = "Leash" -> [d EXCEPT !.dots = {}]
         [] s = "Dead" -> [d EXCEPT !.dots = {}, !.threat = {}, !.target = None,
                                    !.stance = "Follow"]
         [] OTHER -> d

\* A body takes d; at 0 hp it dies.
Struck(c, d) ==
  LET h == [c EXCEPT !.hp = Less(c.hp, d)]
  IN  IF h.hp = 0 THEN Enter(h, "Dead") ELSE h

\* The owner of a warder that died gets a new one in WARDER_RETREAT_SECS.
Bereaved(cs) == {cs[i].owner : i \in {j \in Ids : cs[j] # None /\ cs[j].warder
                                        /\ cs[j].state = "Dead" /\ j \in Living}}

\* Taken out of the map; what is left of it in a threat table never counts again.
Gone(i, cs) ==
  [j \in Ids |-> IF j = i \/ cs[j] = None THEN IF j = i THEN None ELSE cs[j]
                 ELSE [cs[j] EXCEPT !.threat = @ \ {i}]]

InWorld == {p \in Players : present[p] # "out"}
Hale == {p \in InWorld : life[p] = "alive"}

\* What a mob may turn on, and what a pet may.
Targets == Hale \cup LivingPets
Alive == Hale \cup Living
Exists == InWorld \cup Here

\* An id nothing refers to: the ids are never reused.
Fresh(i) ==
  /\ creatures[i] = None /\ i \notin {last[p] : p \in Players}
  /\ \A j \in Here : creatures[j].target # i

SomeFresh == \E i \in Ids : Fresh(i)
FreshId == CHOOSE i \in Ids : Fresh(i)

-----------------------------------------------------------------------------
TypeOK ==
  /\ due \subseteq Points
  /\ creatures \in [Ids -> Creature \cup {None}]
  /\ present \in [Players -> {"out", "in", "linkdead"}]
  /\ life \in [Players -> {"alive", "down", "dead"}]
  /\ last \in [Players -> Anyone \cup {None}]
  /\ retreat \subseteq Players
  /\ pass \in Passes
  /\ hits \subseteq Ids \X Anyone

Init ==
  /\ due = Points
  /\ creatures = [i \in Ids |-> None]
  /\ present = [p \in Players |-> "out"]
  /\ life = [p \in Players |-> "alive"]
  /\ last = [p \in Players |-> None]
  /\ retreat = {}
  /\ pass = "open" /\ hits = {}

-----------------------------------------------------------------------------
(* Open: the leavers and joiners of the tick, then run_spawning *)

Spawn(pt) ==
  /\ pass = "open" /\ pt \in due /\ SomeFresh
  /\ creatures' = [creatures EXCEPT ![FreshId] = Mob(pt)]
  /\ due' = due \ {pt}
  /\ UNCHANGED <<playerVars, retreat, pass, hits>>

\* A game master's: at no point, so it never comes again.
DevSpawn ==
  /\ pass = "open" /\ SomeFresh
  /\ creatures' = [creatures EXCEPT ![FreshId] = Mob(None)]
  /\ UNCHANGED <<due, playerVars, retreat, pass, hits>>

\* Fault: not for what was charmed.
FreedWild(i) == IF IsPet(i) THEN due ELSE due \cup ({creatures[i].point} \ {None})

\* on_enemy_died
Freed(i) == due \cup ({creatures[i].point} \ {None})

DevDespawn(i) ==
  /\ pass = "open" /\ i \in Here /\ ~ IsPet(i)
  /\ creatures' = Gone(i, creatures)
  /\ due' = Freed(i)
  /\ UNCHANGED <<playerVars, retreat, pass, hits>>

\* summon_pet_for_owner: a living pet of theirs dies first.
Summoned(p, warder, hp) ==
  {[cs EXCEPT ![FreshId] = Pet(p, warder, hp)] :
     cs \in IF PetsOf(p) \cap Living = {} THEN {creatures}
           ELSE {[creatures EXCEPT ![i] = Enter(creatures[i], "Dead")] :
                   i \in PetsOf(p) \cap Living}}

EnterWorld(p) ==
  /\ pass = "open" /\ present[p] = "out"
  /\ present' = [present EXCEPT ![p] = "in"]
  /\ IF p \in Masters
     THEN SomeFresh /\ creatures' \in Summoned(p, TRUE, Full)
     ELSE UNCHANGED creatures
  /\ UNCHANGED <<due, life, last, retreat, pass, hits>>

\* At a fraction of its hp.
WarderReturns(p) ==
  /\ pass = "open" /\ p \in retreat /\ p \in InWorld /\ SomeFresh
  /\ creatures' \in Summoned(p, TRUE, 1)
  /\ retreat' = retreat \ {p}
  /\ UNCHANGED <<due, playerVars, pass, hits>>

\* return_charmed_mob: the mob it was, at the point it still holds.  It comes
\* for turnOn, or goes home, where it may already be.
Released(i, turnOn) ==
  LET mob == [Mob(creatures[i].point) EXCEPT !.hp = creatures[i].hp]
  IN  IF turnOn # None
      THEN {[mob EXCEPT !.threat = {turnOn}, !.target = turnOn, !.state = "Chase"]}
      ELSE {mob, [mob EXCEPT !.state = "Leash"]}

CharmExpires(i) ==
  /\ pass = "open" /\ i \in Here /\ creatures[i].charmed /\ SomeFresh
  /\ LET o == creatures[i].owner
     IN  \E mob \in Released(i, IF o \in Hale THEN o ELSE None) :
           creatures' = [Gone(i, creatures) EXCEPT ![FreshId] = mob]
  /\ UNCHANGED <<due, playerVars, retreat, pass, hits>>

\* despawn_owned_pets: the charmed are given back, dead or alive, each under a
\* new id.
CharmedOf(p) == {i \in PetsOf(p) : creatures[i].charmed}

Places(charmed) ==
  {at \in [charmed -> {i \in Ids : Fresh(i)}] :
     \A i, j \in charmed : at[i] = at[j] => i = j}

Mobs(charmed) ==
  {mob \in [charmed -> UNION {Released(i, None) : i \in charmed}] :
     \A i \in charmed : mob[i] \in Released(i, None)}

Without(p, j) ==
  IF j \in PetsOf(p) \/ creatures[j] = None THEN None
  ELSE [creatures[j] EXCEPT !.threat = @ \ PetsOf(p)]

GivenBack(p, at, mob) ==
  [j \in Ids |-> IF \E i \in CharmedOf(p) : at[i] = j
                 THEN mob[CHOOSE i \in CharmedOf(p) : at[i] = j] ELSE Without(p, j)]

Despawned(p) ==
  {GivenBack(p, at, mob) : at \in Places(CharmedOf(p)), mob \in Mobs(CharmedOf(p))}

NoDots(p, cs) ==
  [i \in Ids |-> IF cs[i] = None THEN None ELSE [cs[i] EXCEPT !.dots = @ \ {p}]]

Leave(p) ==
  /\ pass = "open" /\ present[p] # "out"
  /\ \E cs \in Despawned(p) : creatures' = NoDots(p, cs)
  /\ present' = [present EXCEPT ![p] = "out"]
  /\ last' = [last EXCEPT ![p] = None]
  /\ retreat' = retreat \ {p}
  /\ UNCHANGED <<due, life, pass, hits>>

\* A linkdead body stays to be killed; its pets do not.
GoLinkdead(p) ==
  /\ pass = "open" /\ present[p] = "in"
  /\ creatures' \in Despawned(p)
  /\ present' = [present EXCEPT ![p] = "linkdead"]
  /\ UNCHANGED <<due, life, last, retreat, pass, hits>>

\* Back at the bind point, at a quarter of the hp.
Respawn(p) ==
  /\ pass = "open" /\ present[p] = "in" /\ life[p] = "dead"
  /\ life' = [life EXCEPT ![p] = "alive"]
  /\ UNCHANGED <<due, creatures, present, last, retreat, pass, hits>>

-----------------------------------------------------------------------------
(* Attacks, spells and commands *)

\* A creature p may attack: not a pet of their own.
Attackable(p, i) == i \in Living /\ creatures[i].owner # p

\* What a strike by p leaves of c: a miss still angers it.
Angered(c, by) == IF c.owner = None THEN [c EXCEPT !.threat = @ \cup {by}] ELSE c
StruckBy(p, c, d) == Struck(Angered(c, p), d)

Attack(p, i) ==
  /\ pass = "act" /\ present[p] = "in" /\ life[p] # "dead"
  /\ Attackable(p, i) /\ ~ Evading(creatures[i])
  /\ \E d \in 0 .. Full :
       creatures' = [creatures EXCEPT ![i] = StruckBy(p, creatures[i], d)]
  /\ retreat' = retreat \cup Bereaved(creatures')
  /\ last' = [last EXCEPT ![p] = i]
  /\ UNCHANGED <<due, present, life, pass, hits>>

\* Fault: the target stays.
WipedThreat(ps, cs) ==
  [i \in Ids |-> IF cs[i] = None THEN None
     ELSE [cs[i] EXCEPT !.threat = @ \ ps, !.dots = @ \ ps]]

\* wipe_hate
Wiped(ps, cs) ==
  [i \in Ids |-> IF cs[i] = None THEN None
     ELSE [cs[i] EXCEPT !.threat = @ \ ps, !.dots = @ \ ps,
                        !.target = IF @ \in ps THEN None ELSE @]]

FeignDeath(p) ==
  /\ pass = "act" /\ present[p] = "in" /\ life[p] = "alive"
  /\ creatures' = Wiped({p}, creatures)
  /\ UNCHANGED <<due, playerVars, retreat, pass, hits>>

\* A player's hp reaches 0: a blow or a spell of another's, a fall, a DoT.
Fall(p) ==
  /\ pass \in {"act", "blows"} /\ p \in Hale
  /\ life' = [life EXCEPT ![p] = "down"]
  /\ UNCHANGED <<due, creatures, present, last, retreat, pass, hits>>

\* What a spell of p's at it, or around p, may hurt.
Reached(p, i) == Attackable(p, i) /\ ~ Evading(creatures[i])

\* What a spell may leave on a body that still has hp.
Dotted(p, c, dot) == IF dot /\ c.hp > 0 THEN [c EXCEPT !.dots = @ \cup {p}] ELSE c

\* apply_spell_damage_to_enemy
SpellHits(p, i) ==
  /\ pass = "act" /\ present[p] = "in" /\ life[p] = "alive"
  /\ Reached(p, i)
  /\ \E d \in 0 .. Full, dot \in BOOLEAN :
       creatures' = [creatures EXCEPT ![i] = Dotted(p, StruckBy(p, creatures[i], d), dot)]
  /\ retreat' = retreat \cup Bereaved(creatures')
  /\ last' \in {last, [last EXCEPT ![p] = i]}
  /\ UNCHANGED <<due, present, life, pass, hits>>

HealPet(p, i) ==
  /\ pass = "act" /\ present[p] = "in" /\ life[p] = "alive"
  /\ i \in LivingPets /\ creatures[i].hp < Full
  /\ creatures' = [creatures EXCEPT ![i].hp = @ + 1]
  /\ UNCHANGED <<due, playerVars, retreat, pass, hits>>

SummonPet(p) ==
  /\ pass = "act" /\ present[p] = "in" /\ life[p] = "alive" /\ SomeFresh
  /\ creatures' \in Summoned(p, FALSE, Full)
  /\ UNCHANGED <<due, playerVars, retreat, pass, hits>>

\* PET_CHARM: a new body under a new id, which keeps the camp's point.
Charm(p, i) ==
  /\ pass = "act" /\ present[p] = "in" /\ life[p] = "alive" /\ SomeFresh
  /\ i \in Living /\ ~ IsPet(i) /\ ~ Evading(creatures[i])
  /\ creatures' = [Gone(i, creatures) EXCEPT ![FreshId] =
       [Pet(p, FALSE, creatures[i].hp) EXCEPT !.point = creatures[i].point,
                                              !.charmed = TRUE]]
  /\ UNCHANGED <<due, playerVars, retreat, pass, hits>>

\* PORT, of the caster or of a companion carried along: hate is wiped, the
\* charmed pet is left behind, another comes along and forgets its fight.  A
\* fall cut short may kill: then nothing more is done.
Port(p) ==
  /\ pass = "act" /\ present[p] = "in" /\ life[p] = "alive"
  /\ LET cs == Wiped({p}, creatures)
         mine == PetsOf(p) \cap Living
         charmed == {i \in mine : creatures[i].charmed}
         Along == [j \in Ids |-> IF j \in mine
                     THEN [cs[j] EXCEPT !.target = None, !.stance = "Follow"] ELSE cs[j]]
     IN  \/ /\ creatures' = cs
            /\ life' = [life EXCEPT ![p] = "down"]
            /\ UNCHANGED last
         \/ /\ last' = [last EXCEPT ![p] = None]
            /\ IF charmed = {} THEN creatures' = Along
               ELSE SomeFresh /\ \E i \in charmed : \E mob \in Released(i, None) :
                      creatures' = [Gone(i, Along) EXCEPT ![FreshId] = mob]
            /\ UNCHANGED life
  /\ UNCHANGED <<due, present, retreat, pass, hits>>

Commanded(i, t, s) ==
  creatures' = [creatures EXCEPT ![i].target = t, ![i].stance = s]

\* A player may be attacked who is alive; of a creature, not a pet of one's own.
PetAttack(p, i, t) ==
  /\ t \in (Hale \ {p}) \cup {j \in Living : creatures[j].owner # p}
  /\ Commanded(i, t, "Follow")

\* apply_pet_commands: to a living pet of theirs.
Command(p) ==
  /\ pass = "act" /\ present[p] = "in"
  /\ \E i \in PetsOf(p) \cap Living :
       \/ \E t \in Anyone : PetAttack(p, i, t)
       \/ \E s \in {"Follow", "Guard", "Sit"} : Commanded(i, None, s)
  /\ UNCHANGED <<due, playerVars, retreat, pass, hits>>

\* PET_TARGET_DECAY_SECS pass.
AttackFades(p) ==
  /\ pass = "act" /\ last[p] # None
  /\ last' = [last EXCEPT ![p] = None]
  /\ UNCHANGED <<due, creatures, present, life, retreat, pass, hits>>

-----------------------------------------------------------------------------
(* What a creature does: tick_dots, tick_ai.  The outcomes are pairs of the *)
(* creature as it is left and of whom it hits.                              *)

Quiet(cs) == {<<c, None>> : c \in cs}

\* tick_dots: damage, unless it evades, and hate for the caster.
Ticks(c, k, d) ==
  [c EXCEPT !.hp = IF Evading(c) THEN @ ELSE Less(@, d),
            !.threat = IF Evading(c) \/ IsOwned(c) THEN @ ELSE @ \cup {k}]

Ticked(c) == {Ticks(c, k, d) : k \in c.dots, d \in 0 .. Full}

Bled(c) ==
  {c} \cup Ticked(c) \cup {[t EXCEPT !.dots = @ \ {k}] : t \in Ticked(c), k \in c.dots}

Haters(c) == c.threat \cap Targets

\* next_hater_or_home
OnOrHome(c) ==
  IF Haters(c) = {} THEN {Enter([c EXCEPT !.target = None], "Leash")}
  ELSE {Enter([c EXCEPT !.target = t], "Chase") : t \in Haters(c)}
         \cup {Enter([c EXCEPT !.target = None], "Leash")}

\* maybe_switch_target_by_threat
Switched(c) ==
  {c} \cup IF c.target = None THEN {} ELSE {[c EXCEPT !.target = t] : t \in Haters(c)}

Idle(c) ==
  Quiet({c} \cup {Enter([c EXCEPT !.target = t], "Chase") : t \in Targets})

\* Too far, near enough to strike, walking, refused, stuck too long.
Chase(c) ==
  LET Unhated == [c EXCEPT !.threat = @ \ {c.target}]
      Elsewhere == {[Unhated EXCEPT !.target = t, !.stuck = FALSE] : t \in Haters(Unhated)}
      Home == Enter([Unhated EXCEPT !.target = None, !.threat = {}], "Leash")
  IN  Quiet(IF c.target \notin Targets THEN OnOrHome(c)
            ELSE OnOrHome(Unhated) \cup {Enter(c, "Attack")}
                 \cup {[c EXCEPT !.stuck = b] : b \in BOOLEAN}
                 \cup IF c.stuck THEN Elsewhere \cup {Home} ELSE {})

Fight(c) ==
  IF c.target \notin Targets THEN Quiet(OnOrHome(c))
  ELSE Quiet({c, Enter(c, "Chase")}) \cup {<<c, c.target>>}

\* tick_leash: home, it is whole again and hates nobody.
Leash(c) ==
  Quiet({c, Enter([c EXCEPT !.hp = Full, !.threat = {}, !.dots = {}], "Idle")})

\* tick_pet_ai.  A dead target is dropped, one that is not there any more is kept.
PetMind(c) ==
  IF c.stance = "Sit" THEN Quiet({[c EXCEPT !.target = None]})
  ELSE IF c.target \in Alive THEN Quiet({c, [c EXCEPT !.target = None]}) \cup {<<c, c.target>>}
  ELSE IF c.target \in Exists THEN Quiet({[c EXCEPT !.target = None]})
  ELSE Quiet({c})

Mind(c) ==
  CASE c.owner # None -> PetMind(c)
    [] c.owner = None /\ c.state = "Idle" -> Idle(c)
    [] c.owner = None /\ c.state = "Chase" -> UNION {Chase(d) : d \in Switched(c)}
    [] c.owner = None /\ c.state = "Attack" -> UNION {Fight(d) : d \in Switched(c)}
    [] c.owner = None /\ c.state = "Leash" -> Leash(c)

\* A pet that follows takes up the fight of its owner when it has none of its
\* own, unless it was commanded in the last PET_COMMAND_STICKY_SECS.
Inherits(c) ==
  IF c.target \in Alive THEN c.target
  ELSE IF last[c.owner] \in Alive THEN last[c.owner] ELSE None

Stirred(i) ==
  LET c == creatures[i] IN
  {c} \cup IF IsPet(i) /\ c.stance = "Follow" THEN {[c EXCEPT !.target = Inherits(c)]} ELSE {}

\* kill_enemy, of whoever is at 0 hp: by a DoT, or as a stray.
Slain(c) == IF c.hp = 0 THEN Enter(c, "Dead") ELSE c

\* A creature in its tick.  One that is mezzed, stunned or rooted, or has no
\* hp left, does nothing more.
Outcomes(i) ==
  LET Bleeding == UNION {Bled(c) : c \in Stirred(i)}
  IN  {<<Slain(c), None>> : c \in Bleeding}
        \cup UNION {Mind(c) : c \in {b \in Bleeding : b.hp > 0}}

\* What they do together: each decides on what it saw before any of them moved.
Extended(i, done) == {[d EXCEPT ![i] = r] : d \in done, r \in Outcomes(i)}
Together == FoldSet(Extended, {[i \in Ids |-> <<creatures[i], None>>]}, Living)

\* The pass is skipped while nobody is in the world.
RunAi ==
  /\ pass = "act" /\ pass' = "blows"
  /\ IF InWorld = {} THEN UNCHANGED <<creatures, hits>>
     ELSE \E all \in Together :
       /\ creatures' = [i \in Ids |-> all[i][1]]
       /\ hits' = {<<i, all[i][2]>> : i \in {j \in Ids : all[j][2] # None}}
  /\ retreat' = retreat \cup Bereaved(creatures')
  /\ UNCHANGED <<due, playerVars>>

-----------------------------------------------------------------------------
(* The blows of the pass, one after another *)

\* A damage shield hurts the attacker if it still lives, and angers it.
Shielded(a, by, cs) ==
  IF cs[a].state = "Dead" THEN {cs}
  ELSE {cs} \cup {[cs EXCEPT ![a] = Struck(Angered(cs[a], by), d)] : d \in 0 .. Full}

\* A mob at a pet: one on guard, with no target, strikes back.
MobHitsPet(a, t) ==
  /\ \E d \in 0 .. Full :
       LET c == Struck(creatures[t], d)
           Roused == IF c.state # "Dead" /\ c.stance = "Guard" /\ c.target = None
                     THEN [c EXCEPT !.target = a] ELSE c
       IN  creatures' \in Shielded(a, c.owner, [creatures EXCEPT ![t] = Roused])
  /\ UNCHANGED <<life, last>>

\* A pet at a creature: the hate is the pet's.
PetHits(a, t) ==
  /\ \E d \in 0 .. Full :
       creatures' = [creatures EXCEPT ![t] = Struck(Angered(@, a), d)]
  /\ UNCHANGED <<life, last>>

\* Anything at a player, whose attacker it becomes for the player's pet, unless
\* the player evades.
HitsPlayer(a, t) ==
  \/ UNCHANGED <<creatures, life, last>>
  \/ /\ life' \in {life, [life EXCEPT ![t] = "down"]}
     /\ last' = [last EXCEPT ![t] = a]
     /\ creatures' \in Shielded(a, t, creatures)

\* Fault: whatever it is doing.
StruckableAlways(a, t) == IF t \in Players THEN t \in Hale ELSE t \in Living

Struckable(a, t) ==
  IF t \in Players THEN t \in Hale
  ELSE t \in Living /\ (IsPet(a) => ~ Evading(creatures[t]))

Land ==
  /\ pass = "blows"
  /\ \E h \in hits : hits' = hits \ {h} /\
       LET a == h[1]  t == h[2] IN
       IF ~ Struckable(a, t) THEN UNCHANGED <<creatures, life, last>>
       ELSE \/ t \in Players /\ HitsPlayer(a, t)
            \/ t \in Ids /\ ~ IsPet(a) /\ MobHitsPet(a, t)
            \/ t \in Ids /\ IsPet(a) /\ PetHits(a, t)
  /\ retreat' = retreat \cup Bereaved(creatures')
  /\ UNCHANGED <<due, present, pass>>

-----------------------------------------------------------------------------
(* The end of the tick *)

\* clean_up_enemy_corpses: ENEMY_DESPAWN_LINGER_SECS after its death.
CleanUp(i) ==
  /\ pass = "blows" /\ hits = {} /\ i \in Here \ Living
  /\ creatures' = Gone(i, creatures)
  /\ due' = Freed(i)
  /\ UNCHANGED <<playerVars, retreat, pass, hits>>

\* run_death_sweep: the new dead are forgotten.
Sweep ==
  LET newly == {p \in InWorld : life[p] = "down"} IN
  /\ pass = "blows" /\ hits = {}
  /\ life' = [p \in Players |-> IF p \in newly THEN "dead" ELSE life[p]]
  /\ creatures' = Wiped(newly, creatures)
  /\ pass' = "open"
  /\ UNCHANGED <<due, present, last, retreat, hits>>

EndOpen ==
  /\ pass = "open" /\ pass' = "act"
  /\ UNCHANGED <<due, creatures, playerVars, retreat, hits>>

OpenStep ==
  \/ \E pt \in Points : Spawn(pt)
  \/ DevSpawn
  \/ \E p \in Players :
       EnterWorld(p) \/ WarderReturns(p) \/ Leave(p) \/ GoLinkdead(p) \/ Respawn(p)
  \/ \E i \in Ids : DevDespawn(i) \/ CharmExpires(i)

PlayerStep ==
  \E p \in Players :
    \/ FeignDeath(p) \/ Fall(p) \/ SummonPet(p) \/ Port(p) \/ Command(p) \/ AttackFades(p)
    \/ \E i \in Ids : Attack(p, i) \/ SpellHits(p, i) \/ HealPet(p, i) \/ Charm(p, i)

Next ==
  \/ OpenStep \/ EndOpen \/ PlayerStep \/ RunAi \/ Land
  \/ (\E i \in Ids : CleanUp(i)) \/ Sweep

Spec == Init /\ [][Next]_vars

-----------------------------------------------------------------------------
(* Properties *)

\* A camp's spawn point is either waiting for its timer or held by one body,
\* living, dead or charmed: no camp is lost and none ever fields two.
\* (spawn_points.rs, the point carried through charm and return)
PointsAccounted ==
  \A pt \in Points :
    Cardinality({i \in Here : creatures[i].point = pt}) = (IF pt \in due THEN 0 ELSE 1)

\* Once the sweep has seen a death, no living creature is after the dead player
\* until a respawn, and none bleeds from a spell of somebody dead or gone, who
\* would be paid for a kill.  (the sweep's wipe_hate, the DoTs dropped with a
\* leaver, and what the AI, an order or a pet's memory may pick)
DeadForgotten ==
  \A i \in Living :
    /\ creatures[i].target \in Players => life[creatures[i].target] # "dead"
    /\ \A p \in creatures[i].dots : p \in InWorld /\ life[p] # "dead"

\* No pet outlives its owner's stay in the world, and none but a warder that
\* comes back from its retreat is ever beside a linkdead body, alive or dead,
\* however many pets charm and summoning gave.  (despawn_owned_pets)
PetsHaveOwners ==
  \A i \in Here : IsPet(i) =>
    \/ present[creatures[i].owner] = "in"
    \/ present[creatures[i].owner] = "linkdead" /\ creatures[i].warder

\* A mob that is on its way home, or cannot reach whom it chases, is not hurt.
\* (is_evading, asked at every place that takes hp from a creature)
EvadersUnhurt ==
  [][\A i \in Living : Evading(creatures[i]) /\ creatures'[i] # None
       => creatures'[i].hp >= creatures[i].hp]_vars

=============================================================================
