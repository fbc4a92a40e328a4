---------------------------- MODULE Casting_proofs ----------------------------
(***************************************************************************)
(* What Casting.cfg checks for two players, one of them a caster, holds    *)
(* for any number of players, casters and corpses and any max_hp.          *)
(*                                                                         *)
(* The properties are inductive once four things are said besides: a stat  *)
(* buff that is on has its deltas in the stats, so undoing them never goes *)
(* below zero; a bar that runs was begun, and a request that may still     *)
(* land was asked with such a bar (BarsBegun); a request outlives the      *)
(* messages and the casts of its tick never (AskedInTime), so the sweep    *)
(* may forget who was struck; a corpse was refunded iff it is raised.      *)
(***************************************************************************)
EXTENDS Casting, TLAPS

-----------------------------------------------------------------------------
(* The invariant *)

DeltasIn == \A p \in Players, n \in StatBuffs : n \in buffs[p] => applied[p][n] > 0

\* The request of p may still land.
Pending(p) ==
  request[p] # None /\ request[p].own /\ request[p].spell \in Timed /\ p \notin struck

BarsBegun ==
  \A p \in Casters :
    /\ bar[p] # None => bar[p] \in begun[p]
    /\ Pending(p) => request[p].spell \in begun[p]

AskedInTime == pass \in {"upkeep", "buffs"} => Asking = {}

RefundsTold ==
  \A c \in Corpses : corpses[c] # None => corpses[c].refunds = IF corpses[c].raised THEN 1 ELSE 0

IInv ==
  /\ TypeOK
  /\ DeltasIn
  /\ BarsBegun /\ AskedInTime /\ CastEarned
  /\ DeadAreStill
  /\ RefundsTold

LEMMA InitIInv == Init => IInv
<1> SUFFICES ASSUME Init
             PROVE  IInv
  OBVIOUS
<1> USE DEF Init
<1>1. TypeOK
  BY FullType DEF TypeOK, Passes, Unapplied
<1>2. DeltasIn /\ BarsBegun /\ AskedInTime /\ CastEarned
  BY DEF DeltasIn, BarsBegun, Pending, AskedInTime, Asking, CastEarned
<1>3. DeadAreStill /\ RefundsTold
  BY DEF DeadAreStill, RefundsTold
<1> QED
  BY <1>1, <1>2, <1>3 DEF IInv

-----------------------------------------------------------------------------
(* Corpses *)

LEMMA RefundsStep ==
  ASSUME TypeOK, RefundsTold, [Next]_vars
  PROVE  RefundsTold'
<1>1. ASSUME NEW p \in Players, AcceptRes(p)
      PROVE  RefundsTold'
  <2> DEFINE k == offer[p]
  <2>1. k \in Corpses /\ corpses[k] # None /\ corpses[k] \in Corpse /\ ~ corpses[k].raised
    BY <1>1, NoneIsNobody DEF AcceptRes, Raisable, Lying, TypeOK
  <2>2. corpses' = [corpses EXCEPT ![k] = Raised(corpses[k])]
    BY <1>1 DEF AcceptRes
  <2>3. corpses[k].refunds = 0
    BY <2>1 DEF RefundsTold
  <2>4. Raised(corpses[k]).raised = TRUE /\ Raised(corpses[k]).refunds = 1
    BY <2>1, <2>3 DEF Raised, Corpse
  <2> QED
    BY <2>1, <2>2, <2>4 DEF RefundsTold, TypeOK
<1>2. CASE Sweep
  BY <1>2 DEF Sweep, RefundsTold
<1>3. ASSUME NEW c \in Corpses, CorpseGone(c)
      PROVE  RefundsTold'
  BY <1>3 DEF CorpseGone, RefundsTold, TypeOK
<1>4. CASE UNCHANGED corpses
  BY <1>4 DEF RefundsTold
<1> QED
  BY <1>1, <1>2, <1>3, <1>4 DEF Next, vars, castVars, bodyVars, resVars, NextPass, Leave,
     Enter, Respawn, Hurt, DeclineRes, HotTick, DotTick, Blow, Expire, EndCast, StopSong,
     Refuse, Drop, Land, Pulse, BeginCast, AskCast

-----------------------------------------------------------------------------
(* The dead *)

LEMMA LessNothing == \A d \in 0 .. Full : Less(0, d) = 0
  BY FullType DEF Less

\* Who has fallen stays so under any further wound.
LEMMA WoundedStill ==
  ASSUME TypeOK, NEW t \in Players, NEW by \in Players, Wounded(t, by),
         NEW p \in Players, hp[p] = 0
  PROVE  hp'[p] = 0
<1> PICK d \in 0 .. Full, back \in 0 .. Full :
      hp' = [hp EXCEPT ![t] = Less(@, d), ![by] = Less(@, back)]
  BY DEF Wounded
<1> QED
  BY LessNothing DEF TypeOK

\* No bar of p appears in an interrupt.
LEMMA InterruptedStill ==
  ASSUME NEW ps, Interrupted(ps), NEW p \in Casters, bar[p] = None
  PROVE  bar'[p] = None
BY DEF Interrupted

LEMMA DispelledLess ==
  ASSUME TypeOK, NEW t \in Players, Dispelled(t), NEW q \in Players
  PROVE  buffs'[q] \subseteq buffs[q] /\ dots'[q] \subseteq dots[q]
<1>1. CASE UNCHANGED <<buffs, dots, applied>>
  BY <1>1
<1>2. ASSUME NEW n \in buffs[t], Strip(t, n), UNCHANGED dots
      PROVE  buffs'[q] \subseteq buffs[q] /\ dots'[q] \subseteq dots[q]
  BY <1>2 DEF Strip, TypeOK
<1>3. ASSUME NEW c \in dots[t], dots' = [dots EXCEPT ![t] = @ \ {c}], UNCHANGED buffs
      PROVE  buffs'[q] \subseteq buffs[q] /\ dots'[q] \subseteq dots[q]
  BY <1>3 DEF TypeOK
<1> QED
  BY <1>1, <1>2, <1>3 DEF Dispelled

\* A landing leaves the dead as they are.
LEMMA LandDead ==
  ASSUME TypeOK, DeadAreStill, NEW p \in Casters, Land(p)
  PROVE  DeadAreStill'
<1> DEFINE s == request[p].spell
           t == request[p].target
<1>1. /\ p \in Players /\ p \in Standing \ dead /\ request[p] \in Request
      /\ TargetOk(p, request[p])
  BY CastersType, NoneIsNobody DEF Land, Castable, Asking, TypeOK
<1>2. PICK lost \in SUBSET {q \in Casters \cap {t} : s = "bolt" /\ bar[q] # None} :
        Charged(p, s, lost)
  BY DEF Land
<1>3. \A q \in Casters : q \in dead => q \notin singing' /\ bar'[q] = None
  BY <1>1, <1>2, CastersType DEF Charged, Bars, DeadAreStill
<1>4. dead' = dead
  BY <1>2 DEF Charged
<1>5. \A q \in dead : hp'[q] = 0 /\ buffs'[q] \subseteq {"sick"} /\ dots'[q] = {}
  <2>1. CASE s = "bolt"
    <3>1. LandBolt(p, t)
      BY <2>1 DEF Land
    <3>2. t \in Standing
      BY <1>1, <2>1 DEF TargetOk, Hostile
    <3>3. t \notin dead /\ t \in Players
      BY <3>2, FullType DEF Standing, DeadAreStill, TypeOK
    <3>4. \A q \in dead : hp'[q] = 0
      BY <1>1, <3>1, <3>3, WoundedStill DEF LandBolt, DeadAreStill, TypeOK
    <3> QED
      BY <3>1, <3>3, <3>4 DEF LandBolt, Burned, DeadAreStill, TypeOK
  <2>2. CASE s = "expose"
    <3>1. Dispelled(t) /\ hp' = hp
      BY <2>2 DEF Land, LandExpose
    <3>2. t \in Players
      BY <1>1, <2>2 DEF TargetOk, Hostile, Standing, TypeOK
    <3>3. \A q \in Players : buffs'[q] \subseteq buffs[q] /\ dots'[q] \subseteq dots[q]
      BY <3>1, <3>2, DispelledLess
    <3>4. \A q \in dead : q \in Players /\ hp[q] = 0 /\ buffs[q] \subseteq {"sick"} /\ dots[q] = {}
      BY DEF DeadAreStill, TypeOK
    <3> QED
      BY <3>1, <3>3, <3>4
  <2>3. CASE s = "boon"
    <3>1. t \in Standing
      BY <1>1, <2>3 DEF TargetOk, Hostile
    <3>2. t \notin dead
      BY <3>1, FullType DEF Standing, DeadAreStill, TypeOK
    <3>3. LandBoon(t)
      BY <2>3 DEF Land
    <3> QED
      BY <3>2, <3>3 DEF LandBoon, StatBuff, DeadAreStill, TypeOK
  <2>4. CASE s = "song"
    <3>1. LandSong(p)
      BY <2>4 DEF Land
    <3> QED
      BY <1>1, <3>1 DEF LandSong, Pulsed, DeadAreStill, TypeOK
  <2>5. CASE s = "price"
    <3>1. LandPrice(p)
      BY <2>5 DEF Land
    <3> QED
      BY <1>1, <3>1 DEF LandPrice, DeadAreStill, TypeOK
  <2>6. CASE s = "raise"
    <3>1. LandRaise(t)
      BY <2>6 DEF Land
    <3> QED
      BY <3>1 DEF LandRaise, DeadAreStill
  <2> QED
    BY <1>1, <2>1, <2>2, <2>3, <2>4, <2>5, <2>6 DEF Request, Spells
<1> QED
  BY <1>3, <1>4, <1>5 DEF DeadAreStill

\* The sweep puts out what is on those who fell in the tick.
LEMMA SweepDead ==
  ASSUME TypeOK, DeadAreStill, Sweep
  PROVE  DeadAreStill'
<1> DEFINE newly == {p \in here : hp[p] = 0} \ dead
<1>1. /\ dead' = dead \cup newly /\ hp' = hp /\ singing' = singing \ newly
      /\ bar' = [p \in Casters |-> IF p \in newly THEN None ELSE bar[p]]
      /\ buffs' = [p \in Players |-> IF p \in newly THEN {} ELSE buffs[p]]
      /\ dots' = [p \in Players |-> IF p \in newly THEN {} ELSE dots[p] \ newly]
  BY DEF Sweep, Cleared
<1> QED
  BY <1>1 DEF DeadAreStill, TypeOK

LEMMA DeadStep ==
  ASSUME TypeOK, DeadAreStill, [Next]_vars
  PROVE  DeadAreStill'
<1>1. ASSUME NEW p \in Players, Leave(p)
      PROVE  DeadAreStill'
  BY <1>1 DEF Leave, DeadAreStill, TypeOK, NoDotsFrom
<1>2. ASSUME NEW p \in Players, Respawn(p)
      PROVE  DeadAreStill'
  BY <1>2 DEF Respawn, castVars, DeadAreStill, TypeOK
<1>3. ASSUME NEW p \in Players, Hurt(p)
      PROVE  DeadAreStill'
  <2>1. p \notin dead
    BY <1>3, FullType DEF Hurt, Standing, DeadAreStill, TypeOK
  <2>2. \A q \in Casters : bar[q] = None => bar'[q] = None
    BY <1>3, InterruptedStill DEF Hurt
  <2> QED
    BY <1>3, <2>1, <2>2 DEF Hurt, DeadAreStill, TypeOK
<1>4. ASSUME NEW a \in Players, NEW t \in Players, Blow(a, t)
      PROVE  DeadAreStill'
  <2>1. \A q \in dead : hp'[q] = 0
    BY <1>4, WoundedStill DEF Blow, DeadAreStill, TypeOK
  <2>2. \A q \in Casters : bar[q] = None => bar'[q] = None
    BY <1>4, InterruptedStill DEF Blow
  <2> QED
    BY <1>4, <2>1, <2>2 DEF Blow, DeadAreStill
<1>5. ASSUME NEW p \in Players, AcceptRes(p)
      PROVE  DeadAreStill'
  BY <1>5 DEF AcceptRes, castVars, StatBuff, DeadAreStill, TypeOK
<1>6. ASSUME NEW p \in Players, HotTick(p)
      PROVE  DeadAreStill'
  <2>1. p \notin dead
    BY <1>6 DEF HotTick, DeadAreStill
  <2> QED
    BY <1>6, <2>1 DEF HotTick, castVars, DeadAreStill, TypeOK
<1>7. ASSUME NEW p \in Players, DotTick(p)
      PROVE  DeadAreStill'
  BY <1>7 DEF DotTick, castVars, DeadAreStill, TypeOK
<1>8. ASSUME NEW p \in Players, NEW n \in Buffs, Expire(p, n)
      PROVE  DeadAreStill'
  BY <1>8 DEF Expire, Strip, castVars, DeadAreStill, TypeOK
<1>9. ASSUME NEW p \in Casters, \/ EndCast(p) \/ StopSong(p) \/ Drop(p)
                                \/ \E s \in Timed : BeginCast(p, s)
      PROVE  DeadAreStill'
  BY <1>9 DEF EndCast, StopSong, Drop, BeginCast, Free, bodyVars, DeadAreStill, TypeOK
<1>10. ASSUME NEW p \in Casters, Pulse(p)
       PROVE  DeadAreStill'
  BY <1>10, CastersType DEF Pulse, Pulsed, castVars, DeadAreStill, TypeOK
<1>11. CASE UNCHANGED <<hp, dead, buffs, dots, singing, bar>>
  BY <1>11 DEF DeadAreStill
<1> QED
  BY <1>1, <1>2, <1>3, <1>4, <1>5, <1>6, <1>7, <1>8, <1>9, <1>10, <1>11, LandDead, SweepDead
  DEF Next, vars, castVars, bodyVars, resVars, NextPass, Enter, DeclineRes, CorpseGone,
     Refuse, AskCast

-----------------------------------------------------------------------------
(* The bars *)

\* What is asked is asked and answered before the upkeep.
LEMMA AskedStep ==
  ASSUME TypeOK, AskedInTime, [Next]_vars
  PROVE  AskedInTime'
<1>1. CASE NextPass
  BY <1>1 DEF NextPass, castVars, Passes, AskedInTime, Asking
<1>2. CASE Sweep
  BY <1>2 DEF Sweep, AskedInTime
<1>3. ASSUME NEW p \in Casters, NEW s \in Spells, NEW t, AskCast(p, s, t)
      PROVE  AskedInTime'
  BY <1>3 DEF AskCast, AskedInTime
<1>4. ASSUME pass' = pass, \A p \in Casters : request'[p] # None => request[p] # None
      PROVE  AskedInTime'
  BY <1>4 DEF AskedInTime, Asking
<1>5. ASSUME NEW p \in Casters, Answered(p)
      PROVE  \A q \in Casters : request'[q] # None => request[q] # None
  BY <1>5 DEF Answered, TypeOK
<1>6. ASSUME NEW p \in Casters, Refuse(p) \/ Drop(p) \/ Land(p)
      PROVE  AskedInTime'
  BY <1>4, <1>5, <1>6 DEF Refuse, Drop, Land, Charged
<1>7. CASE UNCHANGED <<pass, request>>
  BY <1>7 DEF AskedInTime, Asking
<1> QED
  BY <1>1, <1>2, <1>3, <1>6, <1>7 DEF Next, vars, castVars, bodyVars, resVars, Leave,
     Enter, Respawn, Hurt, DeclineRes, AcceptRes, HotTick, DotTick, Blow, Expire, EndCast,
     StopSong, Pulse, BeginCast, CorpseGone

\* The bars that are lost to a blow go with what they would have earned.
LEMMA InterruptedBars ==
  ASSUME BarsBegun, NEW ps, Interrupted(ps), UNCHANGED request
  PROVE  BarsBegun'
BY DEF Interrupted, BarsBegun, Pending

\* What lands was begun, so nothing lands unearned.
LEMMA LandBars ==
  ASSUME TypeOK, BarsBegun, CastEarned, NEW p \in Casters, Land(p)
  PROVE  BarsBegun' /\ CastEarned'
<1> DEFINE s == request[p].spell
<1>1. PICK lost \in SUBSET Casters : Charged(p, s, lost)
  BY DEF Land
<1>2. request[p] # None /\ BarHeld(p, request[p])
  BY DEF Land, Castable, Asking
<1>3. s \notin Timed \ begun[p]
  BY <1>2 DEF BarHeld, BarsBegun, Pending
<1>4. unearned' = unearned
  BY <1>1, <1>3 DEF Charged
<1>5. /\ request' = [request EXCEPT ![p] = None] /\ struck' = struck \cup lost
      /\ bar' = [q \in Casters |-> IF q \in lost \cup {p} THEN None ELSE bar[q]]
      /\ begun' = [q \in Casters |-> IF q \in lost \cup {p} THEN {} ELSE begun[q]]
  BY <1>1 DEF Charged, Answered, Bars
<1>6. request'[p] = None /\ \A q \in Casters \ {p} : request'[q] = request[q]
  BY <1>5 DEF TypeOK
<1> QED
  BY <1>4, <1>5, <1>6 DEF BarsBegun, Pending, CastEarned

LEMMA BarsStep ==
  ASSUME TypeOK, BarsBegun, AskedInTime, CastEarned, [Next]_vars
  PROVE  BarsBegun' /\ CastEarned'
<1>1. ASSUME NEW p \in Players, Leave(p)
      PROVE  BarsBegun' /\ CastEarned'
  BY <1>1 DEF Leave, Asking, BarsBegun, Pending, CastEarned
<1>2. ASSUME NEW p \in Players, Hurt(p)
      PROVE  BarsBegun' /\ CastEarned'
  BY <1>2, InterruptedBars DEF Hurt, CastEarned
<1>3. ASSUME NEW a \in Players, NEW t \in Players, Blow(a, t)
      PROVE  BarsBegun' /\ CastEarned'
  BY <1>3, InterruptedBars DEF Blow, CastEarned
<1>4. ASSUME NEW p \in Casters, NEW s \in Timed, BeginCast(p, s)
      PROVE  BarsBegun' /\ CastEarned'
  BY <1>4 DEF BeginCast, BarsBegun, Pending, CastEarned, TypeOK
<1>5. ASSUME NEW p \in Casters, EndCast(p)
      PROVE  BarsBegun' /\ CastEarned'
  BY <1>5 DEF EndCast, BarsBegun, Pending, CastEarned, TypeOK
<1>6. ASSUME NEW p \in Casters, NEW s \in Spells, NEW t, AskCast(p, s, t)
      PROVE  BarsBegun' /\ CastEarned'
  <2>1. request' = [request EXCEPT ![p] = [spell |-> s, target |-> t, own |-> bar[p] = s]]
    BY <1>6 DEF AskCast
  <2>2. \A q \in Casters : q # p => request'[q] = request[q]
    BY <2>1 DEF TypeOK
  <2>3. request'[p].own = (bar[p] = s) /\ request'[p].spell = s
    BY <2>1 DEF TypeOK
  <2>4. Pending(p)' => s \in begun[p]
    BY <1>6, <2>3, NoneIsNoSpell DEF AskCast, Pending, BarsBegun
  <2> QED
    BY <1>6, <2>2, <2>3, <2>4 DEF AskCast, BarsBegun, Pending, CastEarned, TypeOK
<1>7. ASSUME NEW p \in Casters, Refuse(p) \/ Drop(p)
      PROVE  BarsBegun' /\ CastEarned'
  BY <1>7 DEF Refuse, Drop, Answered, BarsBegun, Pending, CastEarned, TypeOK
<1>8. CASE Sweep
  <2>1. \A p \in Casters : request[p] = None
    BY <1>8 DEF Sweep, AskedInTime, Asking
  <2> QED
    BY <1>8, <2>1 DEF Sweep, BarsBegun, Pending, CastEarned
<1>9. CASE UNCHANGED <<bar, request, struck, begun, unearned>>
  BY <1>9 DEF BarsBegun, Pending, CastEarned
<1> QED
  BY <1>1, <1>2, <1>3, <1>4, <1>5, <1>6, <1>7, <1>8, <1>9, LandBars DEF Next, vars, castVars,
     bodyVars, resVars, NextPass, Enter, Respawn, DeclineRes, AcceptRes, HotTick, DotTick,
     Expire, StopSong, Pulse, CorpseGone

-----------------------------------------------------------------------------
(* The stats *)

\* What a step may do to the points in the stats: StatsAccounted, of one step.
Accounted ==
  \A p \in Players, n \in StatBuffs :
    Carried(p, n)' # Carried(p, n) => p \in dead' \ dead \/ p \in here \ here'

Stats == [Players -> [StatBuffs -> Nat]]

\* A stat buff that goes on or off keeps the points and the buffs together.
LEMMA StatBuffSound ==
  ASSUME TypeOK, DeltasIn, NEW t \in Players, NEW n \in StatBuffs, StatBuff(t, n)
  PROVE  /\ buffs' \in [Players -> SUBSET Buffs] /\ applied' \in Stats
         /\ DeltasIn' /\ Accounted
<1>1. buffs' = [buffs EXCEPT ![t] = @ \cup {n}]
  BY DEF StatBuff
<1>2. applied' = [applied EXCEPT ![t] =
                    [applied[t] EXCEPT ![n] = IF n \in buffs[t] THEN @ ELSE @ + 1]]
  BY DEF StatBuff
<1>3. /\ \A p \in Players : buffs[p] \in SUBSET Buffs /\ applied[p] \in [StatBuffs -> Nat]
      /\ buffs \in [Players -> SUBSET Buffs] /\ applied \in Stats
  BY DEF TypeOK, Stats
<1>4. /\ \A p \in Players : buffs'[p] = IF p = t THEN buffs[p] \cup {n} ELSE buffs[p]
      /\ \A p \in Players, m \in StatBuffs : applied'[p][m] =
           IF p = t /\ m = n /\ n \notin buffs[t] THEN applied[p][m] + 1 ELSE applied[p][m]
  BY <1>1, <1>2, <1>3 DEF Stats
<1>5. buffs' \in [Players -> SUBSET Buffs] /\ applied' \in Stats
  BY <1>1, <1>2, <1>3 DEF Stats, Buffs
<1>6. \A p \in Players, m \in StatBuffs : applied[p][m] \in Nat
  BY <1>3
<1>7. ASSUME NEW p \in Players, NEW m \in StatBuffs
      PROVE  /\ m \in buffs'[p] => applied'[p][m] > 0
             /\ Carried(p, m)' = Carried(p, m)
  <2>1. CASE p = t /\ m = n
    <3>1. CASE n \in buffs[t]
      BY <1>4, <1>6, <2>1, <3>1 DEF DeltasIn, Carried
    <3>2. CASE n \notin buffs[t]
      <4>1. applied[p][m] \in Nat /\ applied'[p][m] = applied[p][m] + 1
        BY <1>4, <1>6, <2>1, <3>2
      <4>2. m \notin buffs[p] /\ m \in buffs'[p]
        BY <1>4, <2>1, <3>2
      <4> QED
        BY <4>1, <4>2 DEF Carried
    <3> QED
      BY <3>1, <3>2
  <2>2. CASE ~ (p = t /\ m = n)
    <3>1. applied'[p][m] = applied[p][m] /\ (m \in buffs'[p] <=> m \in buffs[p])
      BY <1>4, <2>2
    <3> QED
      BY <3>1 DEF DeltasIn, Carried
  <2> QED
    BY <2>1, <2>2
<1>8. DeltasIn' /\ Accounted
  BY <1>7 DEF DeltasIn, Accounted
<1> QED
  BY <1>5, <1>8

LEMMA StripSound ==
  ASSUME TypeOK, DeltasIn, NEW t \in Players, NEW n \in buffs[t], Strip(t, n)
  PROVE  /\ buffs' \in [Players -> SUBSET Buffs] /\ applied' \in Stats
         /\ DeltasIn' /\ Accounted
<1>1. buffs' = [buffs EXCEPT ![t] = @ \ {n}]
  BY DEF Strip
<1>2. /\ \A p \in Players : buffs[p] \in SUBSET Buffs /\ applied[p] \in [StatBuffs -> Nat]
      /\ buffs \in [Players -> SUBSET Buffs] /\ applied \in Stats
  BY DEF TypeOK, Stats
<1>3. \A p \in Players, m \in StatBuffs : applied[p][m] \in Nat
  BY <1>2
<1>4. \A p \in Players : buffs'[p] = IF p = t THEN buffs[p] \ {n} ELSE buffs[p]
  BY <1>1, <1>2
<1>5. CASE n \in StatBuffs
  <2>1. applied' = [applied EXCEPT ![t] = [applied[t] EXCEPT ![n] = @ - 1]]
    BY <1>5 DEF Strip
  <2>2. applied[t][n] - 1 \in Nat
    BY <1>3, <1>5 DEF DeltasIn
  <2>3. applied' \in Stats
    BY <1>2, <2>1, <2>2 DEF Stats
  <2>4. \A p \in Players, m \in StatBuffs : applied'[p][m] =
          IF p = t /\ m = n THEN applied[p][m] - 1 ELSE applied[p][m]
    BY <1>2, <2>1 DEF Stats
  <2>5. DeltasIn'
    BY <1>3, <1>4, <2>4 DEF DeltasIn
  <2>6. ASSUME NEW p \in Players, NEW m \in StatBuffs
        PROVE  Carried(p, m)' = Carried(p, m)
    <3>1. CASE p = t /\ m = n
      <4>1. applied[p][m] \in Nat /\ applied'[p][m] = applied[p][m] - 1
        BY <1>3, <2>4, <3>1
      <4>2. m \in buffs[p] /\ m \notin buffs'[p]
        BY <1>4, <3>1
      <4> QED
        BY <4>1, <4>2 DEF Carried
    <3>2. CASE ~ (p = t /\ m = n)
      <4>1. applied'[p][m] = applied[p][m] /\ (m \in buffs'[p] <=> m \in buffs[p])
        BY <1>4, <2>4, <3>2
      <4> QED
        BY <4>1 DEF Carried
    <3> QED
      BY <3>1, <3>2
  <2> QED
    BY <1>1, <1>2, <2>3, <2>5, <2>6 DEF Accounted
<1>6. CASE n \notin StatBuffs
  <2>1. applied' = applied
    BY <1>6 DEF Strip
  <2> QED
    BY <1>1, <1>2, <1>4, <1>6, <2>1 DEF DeltasIn, Accounted, Carried
<1> QED
  BY <1>5, <1>6

\* Whatever else moves buffs moves "song" alone, or takes all of a player's off.
LEMMA SongSound ==
  ASSUME TypeOK, DeltasIn, NEW t \in Players, UNCHANGED applied,
         buffs' = [buffs EXCEPT ![t] = @ \cup {"song"}]
  PROVE  buffs' \in [Players -> SUBSET Buffs] /\ DeltasIn' /\ Accounted
BY DEF TypeOK, DeltasIn, Accounted, Carried, StatBuffs, Buffs

\* What a step that moves no stat buff does.
LEMMA StatsStay ==
  ASSUME TypeOK, DeltasIn, UNCHANGED <<buffs, applied>>
  PROVE  /\ buffs' \in [Players -> SUBSET Buffs] /\ applied' \in Stats
         /\ DeltasIn' /\ Accounted
BY DEF TypeOK, Stats, DeltasIn, Accounted, Carried

LEMMA DispelledSound ==
  ASSUME TypeOK, DeltasIn, NEW t \in Players, Dispelled(t)
  PROVE  /\ buffs' \in [Players -> SUBSET Buffs] /\ applied' \in Stats
         /\ dots' \in [Players -> SUBSET Casters] /\ DeltasIn' /\ Accounted
<1>1. CASE UNCHANGED <<buffs, dots, applied>>
  BY <1>1, StatsStay DEF TypeOK
<1>2. ASSUME NEW n \in buffs[t], Strip(t, n), UNCHANGED dots
      PROVE  /\ buffs' \in [Players -> SUBSET Buffs] /\ applied' \in Stats
             /\ dots' \in [Players -> SUBSET Casters] /\ DeltasIn' /\ Accounted
  BY <1>2, StripSound DEF TypeOK
<1>3. ASSUME NEW c \in dots[t], dots' = [dots EXCEPT ![t] = @ \ {c}], UNCHANGED <<buffs, applied>>
      PROVE  /\ buffs' \in [Players -> SUBSET Buffs] /\ applied' \in Stats
             /\ dots' \in [Players -> SUBSET Casters] /\ DeltasIn' /\ Accounted
  BY <1>3, StatsStay DEF TypeOK
<1> QED
  BY <1>1, <1>2, <1>3 DEF Dispelled

-----------------------------------------------------------------------------
(* Types *)

\* What TypeOK says of the bars and of the bodies, apart from the stats.
LEMMA LessType == \A n, d \in 0 .. Full : Less(n, d) \in 0 .. Full
  BY FullType DEF Less

LEMMA WoundedType ==
  ASSUME TypeOK, NEW t \in Players, NEW by \in Players, Wounded(t, by)
  PROVE  hp' \in [Players -> 0 .. Full]
<1> PICK d \in 0 .. Full, back \in 0 .. Full :
      hp' = [hp EXCEPT ![t] = Less(@, d), ![by] = Less(@, back)]
  BY DEF Wounded
<1> QED
  BY LessType DEF TypeOK

LEMMA InterruptedType ==
  ASSUME TypeOK, NEW ps, Interrupted(ps)
  PROVE  /\ bar' \in [Casters -> Timed \cup {None}] /\ struck' \subseteq Casters
         /\ begun' \in [Casters -> SUBSET Timed]
BY DEF Interrupted, TypeOK

LEMMA TargetsType ==
  \A p \in Casters, s \in Spells : Targets(p, s) \subseteq Players \cup Corpses
BY CastersType DEF Targets

LEMMA ChargedType ==
  ASSUME TypeOK, NEW p \in Casters, NEW s, NEW lost \in SUBSET Casters, Charged(p, s, lost)
  PROVE  /\ bar' \in [Casters -> Timed \cup {None}] /\ begun' \in [Casters -> SUBSET Timed]
         /\ request' \in [Casters -> Request \cup {None}]
         /\ struck' \subseteq Casters /\ singing' \subseteq Casters /\ unearned' \subseteq Casters
         /\ UNCHANGED <<pass, here, dead>>
<1>1. bar' \in [Casters -> Timed \cup {None}] /\ begun' \in [Casters -> SUBSET Timed]
  BY DEF Charged, Bars, TypeOK
<1>2. request' \in [Casters -> Request \cup {None}]
  BY DEF Charged, Answered, TypeOK
<1>3. struck' \subseteq Casters /\ singing' \subseteq Casters /\ unearned' \subseteq Casters
  BY DEF Charged, TypeOK
<1> QED
  BY <1>1, <1>2, <1>3 DEF Charged

LEMMA LandType ==
  ASSUME TypeOK, DeltasIn, NEW p \in Casters, Land(p)
  PROVE  TypeOK' /\ DeltasIn' /\ Accounted
<1> DEFINE s == request[p].spell
           t == request[p].target
<1>1. /\ p \in Players /\ request[p] \in Request /\ TargetOk(p, request[p])
  BY CastersType DEF Land, Asking, TypeOK
<1>2. PICK lost \in SUBSET Casters : Charged(p, s, lost)
  BY DEF Land
<1>3. /\ bar' \in [Casters -> Timed \cup {None}] /\ begun' \in [Casters -> SUBSET Timed]
      /\ request' \in [Casters -> Request \cup {None}]
      /\ struck' \subseteq Casters /\ singing' \subseteq Casters /\ unearned' \subseteq Casters
      /\ UNCHANGED <<pass, here, dead, corpses>>
  BY <1>2, ChargedType DEF Land
<1> DEFINE Bodies0 == /\ hp' \in [Players -> 0 .. Full]
                      /\ buffs' \in [Players -> SUBSET Buffs] /\ applied' \in Stats
                      /\ dots' \in [Players -> SUBSET Casters]
                      /\ offer' \in [Players -> Corpses \cup {None}]
                      /\ DeltasIn' /\ Accounted
<1>4. Bodies0
  <2>1. CASE s = "bolt"
    <3>1. LandBolt(p, t)
      BY <2>1 DEF Land
    <3>2. t \in Players
      BY <1>1, <2>1 DEF TargetOk, Hostile, Standing, TypeOK
    <3>3. hp' \in [Players -> 0 .. Full]
      BY <1>1, <3>1, <3>2, WoundedType DEF LandBolt
    <3> QED
      BY <3>1, <3>2, <3>3, StatsStay DEF LandBolt, Burned, TypeOK
  <2>2. CASE s = "expose"
    <3>1. LandExpose(t)
      BY <2>2 DEF Land
    <3>2. t \in Players
      BY <1>1, <2>2 DEF TargetOk, Hostile, Standing, TypeOK
    <3> QED
      BY <3>1, <3>2, DispelledSound DEF LandExpose, TypeOK
  <2>3. CASE s = "boon"
    <3>1. LandBoon(t)
      BY <2>3 DEF Land
    <3>2. t \in Players
      BY <1>1, <2>3 DEF TargetOk, Hostile, Standing, TypeOK
    <3>3. hp' \in [Players -> 0 .. Full]
      BY <3>1, <3>2, FullType DEF LandBoon, More, TypeOK
    <3> QED
      BY <3>1, <3>2, <3>3, StatBuffSound DEF LandBoon, StatBuffs, TypeOK
  <2>4. CASE s = "song"
    <3>1. LandSong(p)
      BY <2>4 DEF Land
    <3> QED
      BY <1>1, <3>1, SongSound, StatsStay DEF LandSong, Pulsed, TypeOK, Stats
  <2>5. CASE s = "price"
    <3>1. LandPrice(p)
      BY <2>5 DEF Land
    <3>2. hp' \in [Players -> 0 .. Full]
      BY <1>1, <3>1, FullType DEF LandPrice, Less, Price, TypeOK
    <3> QED
      BY <3>1, <3>2, StatsStay DEF LandPrice, TypeOK
  <2>6. CASE s = "raise"
    <3>1. LandRaise(t)
      BY <2>6 DEF Land
    <3>2. t \in Corpses
      BY <1>1, <2>6 DEF TargetOk, Hostile, Lying
    <3> QED
      BY <3>1, <3>2, StatsStay DEF LandRaise, TypeOK
  <2> QED
    BY <1>1, <2>1, <2>2, <2>3, <2>4, <2>5, <2>6 DEF Request, Spells
<1> QED
  BY <1>3, <1>4 DEF TypeOK, Stats

LEMMA RaisedType ==
  ASSUME NEW body \in Corpse
  PROVE  Raised(body) \in Corpse
<1>1. (IF body.refunds < 2 THEN body.refunds + 1 ELSE body.refunds) \in 0 .. 2
  BY DEF Corpse
<1> QED
  BY <1>1 DEF Raised, Corpse

\* Every step keeps the types and accounts for the points in the stats.
LEMMA TypeStep ==
  ASSUME TypeOK, DeltasIn, [Next]_vars
  PROVE  TypeOK' /\ DeltasIn' /\ Accounted
<1>1. ASSUME NEW p \in Players, Leave(p)
      PROVE  TypeOK' /\ DeltasIn' /\ Accounted
  <2>1. TypeOK'
    BY <1>1 DEF Leave, NoDotsFrom, Unapplied, TypeOK
  <2>2. \A q \in Players : q # p => buffs'[q] = buffs[q] /\ applied'[q] = applied[q]
    BY <1>1 DEF Leave, TypeOK
  <2>3. buffs'[p] = {} /\ p \in here \ here'
    BY <1>1 DEF Leave, TypeOK
  <2> QED
    BY <2>1, <2>2, <2>3 DEF DeltasIn, Accounted, Carried
<1>2. ASSUME NEW p \in Players, Enter(p) \/ Respawn(p) \/ HotTick(p) \/ DotTick(p)
      PROVE  TypeOK' /\ DeltasIn' /\ Accounted
  <2>1. UNCHANGED <<buffs, applied>>
    BY <1>2 DEF Enter, Respawn, HotTick, DotTick, bodyVars
  <2>2. TypeOK'
    <3>1. CASE Enter(p)
      BY <3>1 DEF Enter, castVars, bodyVars, resVars, TypeOK
    <3>2. CASE Respawn(p)
      BY <3>2, FullType DEF Respawn, castVars, resVars, TypeOK
    <3>3. CASE HotTick(p)
      <4>1. hp[p] \in Nat /\ hp[p] + 1 \in 0 .. Full
        BY <3>3, FullType DEF HotTick, TypeOK
      <4> QED
        BY <3>3, <4>1 DEF HotTick, castVars, resVars, TypeOK
    <3>4. CASE DotTick(p)
      <4>1. hp[p] - 1 \in 0 .. Full
        BY <3>4, FullType DEF DotTick, Standing, TypeOK
      <4> QED
        BY <3>4, <4>1 DEF DotTick, castVars, resVars, TypeOK
    <3> QED
      BY <1>2, <3>1, <3>2, <3>3, <3>4
  <2> QED
    BY <2>1, <2>2, StatsStay
<1>3. ASSUME NEW p \in Players, Hurt(p)
      PROVE  TypeOK' /\ DeltasIn' /\ Accounted
  <2>1. hp' \in [Players -> 0 .. Full]
    BY <1>3, LessType DEF Hurt, TypeOK
  <2> QED
    BY <1>3, <2>1, InterruptedType, StatsStay DEF Hurt, resVars, TypeOK
<1>4. ASSUME NEW a \in Players, NEW t \in Players, Blow(a, t)
      PROVE  TypeOK' /\ DeltasIn' /\ Accounted
  BY <1>4, WoundedType, InterruptedType, StatsStay DEF Blow, resVars, TypeOK
<1>5. ASSUME NEW p \in Players, AcceptRes(p)
      PROVE  TypeOK' /\ DeltasIn' /\ Accounted
  <2>1. corpses' \in [Corpses -> Corpse \cup {None}]
    <3>1. offer[p] \in Corpses /\ corpses[offer[p]] \in Corpse
      BY <1>5, NoneIsNobody DEF AcceptRes, Raisable, Lying, TypeOK
    <3>2. Raised(corpses[offer[p]]) \in Corpse
      BY <3>1, RaisedType
    <3> QED
      BY <1>5, <3>2 DEF AcceptRes, TypeOK
  <2>2. /\ buffs' \in [Players -> SUBSET Buffs] /\ applied' \in Stats
        /\ DeltasIn' /\ Accounted
    BY <1>5, StatBuffSound DEF AcceptRes, StatBuffs
  <2>3. hp' \in [Players -> 0 .. Full]
    BY <1>5, FullType DEF AcceptRes, TypeOK
  <2> QED
    BY <1>5, <2>1, <2>2, <2>3 DEF AcceptRes, castVars, Stats, TypeOK
<1>6. ASSUME NEW p \in Players, DeclineRes(p)
      PROVE  TypeOK' /\ DeltasIn' /\ Accounted
  BY <1>6, StatsStay DEF DeclineRes, castVars, bodyVars, TypeOK
<1>7. ASSUME NEW p \in Players, NEW n \in Buffs, Expire(p, n)
      PROVE  TypeOK' /\ DeltasIn' /\ Accounted
  BY <1>7, StripSound DEF Expire, castVars, resVars, Stats, TypeOK
<1>8. ASSUME NEW p \in Casters, EndCast(p) \/ StopSong(p)
      PROVE  TypeOK' /\ DeltasIn' /\ Accounted
  BY <1>8, StatsStay, ZenonT(40) DEF EndCast, StopSong, bodyVars, resVars, TypeOK
<1>9. ASSUME NEW p \in Casters, Refuse(p) \/ Drop(p)
      PROVE  TypeOK' /\ DeltasIn' /\ Accounted
  BY <1>9, StatsStay, ZenonT(40) DEF Refuse, Drop, Answered, bodyVars, resVars, TypeOK
<1>10. ASSUME NEW p \in Casters, Pulse(p)
       PROVE  TypeOK' /\ DeltasIn' /\ Accounted
  <2>1. p \in Players
    BY CastersType
  <2> QED
    BY <1>10, <2>1, SongSound DEF Pulse, Pulsed, castVars, resVars, TypeOK
<1>11. ASSUME NEW p \in Casters, NEW s \in Timed, BeginCast(p, s)
       PROVE  TypeOK' /\ DeltasIn' /\ Accounted
  BY <1>11, StatsStay, SMTT(30) DEF BeginCast, bodyVars, resVars, TypeOK
<1>12. ASSUME NEW p \in Casters, NEW s \in Spells, NEW t \in Targets(p, s), AskCast(p, s, t)
       PROVE  TypeOK' /\ DeltasIn' /\ Accounted
  <2>1. [spell |-> s, target |-> t, own |-> bar[p] = s] \in Request
    BY TargetsType DEF Request
  <2> QED
    BY <1>12, <2>1, StatsStay DEF AskCast, bodyVars, resVars, TypeOK
<1>13. ASSUME NEW c \in Corpses, CorpseGone(c)
       PROVE  TypeOK' /\ DeltasIn' /\ Accounted
  BY <1>13, StatsStay DEF CorpseGone, castVars, bodyVars, TypeOK
<1>14. CASE Sweep
  <2> DEFINE newly == {p \in here : hp[p] = 0} \ dead
  <2>1. /\ \A p \in Players : buffs'[p] = IF p \in newly THEN {} ELSE buffs[p]
        /\ applied' = applied /\ dead' = dead \cup newly
    BY <1>14 DEF Sweep, Cleared
  <2>2. PICK f \in Bodies(newly) :
          corpses' = [c \in Corpses |->
            IF \E p \in newly : f[p] = c
            THEN [owner |-> CHOOSE p \in newly : f[p] = c, raised |-> FALSE, refunds |-> 0]
            ELSE corpses[c]]
    BY <1>14 DEF Sweep
  <2>3. newly \subseteq Players
    BY DEF TypeOK
  <2>4. corpses' \in [Corpses -> Corpse \cup {None}]
    <3>1. ASSUME NEW c \in Corpses, \E p \in newly : f[p] = c
          PROVE  [owner |-> CHOOSE p \in newly : f[p] = c, raised |-> FALSE, refunds |-> 0] \in Corpse
      <4>1. (CHOOSE p \in newly : f[p] = c) \in newly
        BY <3>1
      <4> QED
        BY <2>3, <4>1 DEF Corpse
    <3> QED
      BY <2>2, <3>1 DEF TypeOK
  <2>5. /\ pass' = "messages" /\ dead' \subseteq Players
        /\ bar' \in [Casters -> Timed \cup {None}] /\ begun' \in [Casters -> SUBSET Timed]
        /\ struck' \subseteq Casters /\ singing' \subseteq Casters
        /\ buffs' \in [Players -> SUBSET Buffs] /\ dots' \in [Players -> SUBSET Casters]
        /\ UNCHANGED <<here, request, unearned, hp, applied, offer>>
    BY <1>14 DEF Sweep, Cleared, TypeOK
  <2>6. TypeOK'
    BY <2>4, <2>5 DEF TypeOK, Passes
  <2> QED
    BY <2>1, <2>6 DEF DeltasIn, Accounted, Carried
<1>15. CASE NextPass
  <2>1. pass' \in {Passes[i] : i \in 1 .. 5}
    BY <1>15 DEF NextPass, Passes
  <2> QED
    BY <1>15, <2>1, StatsStay DEF NextPass, castVars, bodyVars, resVars, TypeOK
<1>16. CASE UNCHANGED vars
  BY <1>16, StatsStay DEF vars, castVars, bodyVars, resVars, TypeOK
<1> QED
  BY <1>1, <1>2, <1>3, <1>4, <1>5, <1>6, <1>7, <1>8, <1>9, <1>10, <1>11, <1>12, <1>13, <1>14,
     <1>15, <1>16, LandType DEF Next

-----------------------------------------------------------------------------
(* Theorems *)

LEMMA NextIInv == IInv /\ [Next]_vars => IInv'
BY TypeStep, BarsStep, AskedStep, DeadStep, RefundsStep DEF IInv

LEMMA InvariantHolds == Spec => []IInv
  BY InitIInv, NextIInv, PTL DEF Spec

\* Bars, requests, buffs, DoTs, offers and corpses have the shapes the code
\* gives them: no hp below zero or over max_hp, no delta undone twice.
THEOREM TypeCorrect == Spec => []TypeOK
<1>1. IInv => TypeOK
  BY DEF IInv
<1> QED
  BY <1>1, InvariantHolds, PTL

\* No timed spell lands without a bar of its own that no blow has broken, for
\* any number of casters who strike, interrupt and ask in one tick
\* (casting.rs:215).
THEOREM LandedEarned == Spec => []CastEarned
<1>1. IInv => CastEarned
  BY DEF IInv
<1> QED
  BY <1>1, InvariantHolds, PTL

\* Nothing that was on its way to a player who fell lifts or moves the body
\* before a respawn (death_sweep.rs:38).
THEOREM DeadStayDead == Spec => []DeadAreStill
<1>1. IInv => DeadAreStill
  BY DEF IInv
<1> QED
  BY <1>1, InvariantHolds, PTL

\* No corpse gives its experience back twice, however many offers there were
\* (binds_and_res.rs:73).
THEOREM RefundsOnce == Spec => []RefundedOnce
<1>1. IInv => RefundedOnce
  BY DEF IInv, RefundsTold, RefundedOnce, Lying
<1> QED
  BY <1>1, InvariantHolds, PTL

\* Recasts, dispels, expiries and second sicknesses leave the points in the
\* stats what the stat buffs on a player say; only a death and a logout may
\* change the difference (spell_buffs.rs:24).
THEOREM StatsAreAccounted == Spec => StatsAccounted
<1>1. IInv /\ [Next]_vars =>
        [\A p \in Players, n \in StatBuffs :
           Carried(p, n)' # Carried(p, n) =>
             \/ p \in dead' \ dead
             \/ p \in here \ here']_vars
  BY TypeStep DEF IInv, Accounted
<1> QED
  BY <1>1, InvariantHolds, PTL DEF Spec, StatsAccounted

=============================================================================
