--------------------------- MODULE Sessions_proofs ---------------------------
(***************************************************************************)
(* The linger of a body and the stamp of a departure, for any number of    *)
(* characters and accounts and any length of the three waits.              *)
(*                                                                         *)
(* A stamp ages with the absence it tells of from the step that writes it: *)
(* while a character is away the two are equal (StampsTell), and there is  *)
(* no absence while there is a body, so every departure starts both at     *)
(* zero; where one was not stamped, an older stamp tells of more.          *)
(***************************************************************************)
EXTENDS Sessions, TLAPS

-----------------------------------------------------------------------------
(* The invariant *)

\* A stamp's age is the absence it tells of, or more if it is an older one.
StampTells(c) ==
  /\ body[c] # "none" => absent[c] = 0
  /\ body[c] = "none" /\ c \notin unstamped => stamp[c] = absent[c]
  /\ stamp[c] # None => absent[c] =< stamp[c]

StampsTell == \A c \in Chars : StampTells(c)

IInv == TypeOK /\ LingerKept /\ StampsTell

\* A login judges by the stamp, which is the absence: NoRentJudged, of one step.
Judged ==
  \A c \in Chars : body[c] = "none" /\ body'[c] = "live" =>
    /\ c \notin unstamped => (purged'[c] <=> absent[c] = Away)
    /\ stamp[c] # None /\ absent[c] = Away => purged'[c]

LEMMA InitIInv == Init => IInv
BY Waits DEF Init, IInv, TypeOK, LingerKept, StampsTell, StampTells

\* Steps that touch neither bodies, waits nor stamps.
LEMMA Elsewhere ==
  ASSUME IInv, TypeOK', UNCHANGED <<body, linger, lain, stamp, absent, unstamped>>,
         relaid \subseteq relaid'
  PROVE  IInv' /\ Judged
BY DEF IInv, LingerKept, StampsTell, StampTells, Judged

LEMMA CountType ==
  ASSUME NEW end \in Nat, NEW n \in 0 .. end
  PROVE  CountDown(n) \in 0 .. end /\ CountUp(n, end) \in 0 .. end
BY DEF CountDown, CountUp

-----------------------------------------------------------------------------
(* Bodies *)

\* What lying down does for a body that lives, or that a panic lays down anew.
LEMMA LieDownKept ==
  ASSUME IInv, NEW c \in Chars, LieDown(c), body[c] # "none",
         body[c] = "linkdead" => c \in relaid', relaid \subseteq relaid',
         UNCHANGED <<stamp, absent, unstamped>>
  PROVE  /\ body' \in [Chars -> {"none", "live", "linkdead"}]
         /\ linger' \in [Chars -> 0 .. Linger] /\ lain' \in [Chars -> 0 .. Linger]
         /\ LingerKept' /\ StampsTell' /\ Judged
<1>1. /\ body' \in [Chars -> {"none", "live", "linkdead"}]
      /\ linger' \in [Chars -> 0 .. Linger] /\ lain' \in [Chars -> 0 .. Linger]
  BY Waits DEF LieDown, IInv, TypeOK
<1>2. /\ body'[c] = "linkdead" /\ linger'[c] = Linger /\ body[c] \in {"live", "linkdead"}
      /\ body[c] = "live" => lain'[c] = 0
      /\ \A d \in Chars : d # c =>
           body'[d] = body[d] /\ linger'[d] = linger[d] /\ lain'[d] = lain[d]
  BY DEF LieDown, IInv, TypeOK
<1>3. LingerKept'
  BY <1>2, Waits DEF IInv, LingerKept
<1>4. StampsTell' /\ Judged
  BY <1>2 DEF IInv, StampsTell, StampTells, Judged
<1> QED
  BY <1>1, <1>3, <1>4

LEMMA ReapKept ==
  ASSUME IInv, NEW c \in Chars, NEW stamped, NEW saved, ReapConnection(c, stamped, saved),
         body[c] # "none", UNCHANGED <<absent, relaid>>
  PROVE  /\ body' \in [Chars -> {"none", "live", "linkdead"}]
         /\ saving' \in [Chars -> (0 .. GiveUp) \cup {None}]
         /\ stamp' \in [Chars -> (0 .. Away) \cup {None}] /\ unstamped' \subseteq Chars
         /\ UNCHANGED <<linger, lain>>
         /\ LingerKept' /\ StampsTell' /\ Judged
<1>1. /\ body' \in [Chars -> {"none", "live", "linkdead"}]
      /\ saving' \in [Chars -> (0 .. GiveUp) \cup {None}]
      /\ stamp' \in [Chars -> (0 .. Away) \cup {None}] /\ unstamped' \subseteq Chars
  BY Waits DEF ReapConnection, Stamped, IInv, TypeOK
<1>2. /\ body'[c] = "none" /\ \A d \in Chars : d # c => body'[d] = body[d]
      /\ UNCHANGED <<linger, lain>>
  BY DEF ReapConnection, IInv, TypeOK
<1>3. /\ c \notin unstamped' => stamp'[c] = 0
      /\ stamp'[c] \in {0, stamp[c]}
      /\ \A d \in Chars : d # c =>
           stamp'[d] = stamp[d] /\ (d \in unstamped' <=> d \in unstamped)
  BY DEF ReapConnection, Stamped, IInv, TypeOK
<1>4. LingerKept'
  BY <1>2 DEF IInv, LingerKept
<1>5. StampsTell'
  BY <1>2, <1>3 DEF IInv, StampsTell, StampTells
<1>6. Judged
  BY <1>2 DEF Judged
<1> QED
  BY <1>1, <1>2, <1>4, <1>5, <1>6

LEMMA TickStep ==
  ASSUME IInv, Tick
  PROVE  IInv' /\ Judged
<1>1. TypeOK'
  <2>1. linger' \in [Chars -> 0 .. Linger] /\ lain' \in [Chars -> 0 .. Linger]
    BY Waits, CountType DEF Tick, IInv, TypeOK
  <2>2. saving' \in [Chars -> (0 .. GiveUp) \cup {None}]
    BY Waits, CountType DEF Tick, IInv, TypeOK
  <2>3. stamp' \in [Chars -> (0 .. Away) \cup {None}] /\ absent' \in [Chars -> 0 .. Away]
    BY Waits, CountType DEF Tick, IInv, TypeOK
  <2> QED
    BY <2>1, <2>2, <2>3 DEF Tick, banVars, IInv, TypeOK
<1>2. LingerKept'
  BY Waits DEF Tick, IInv, TypeOK, LingerKept, CountDown, CountUp
<1>3. StampsTell'
  <2> SUFFICES ASSUME NEW c \in Chars
               PROVE  StampTells(c)'
    BY DEF StampsTell
  <2>1. /\ stamp[c] \in (0 .. Away) \cup {None} /\ absent[c] \in 0 .. Away
        /\ absent'[c] = IF body[c] = "none" THEN CountUp(absent[c], Away) ELSE 0
        /\ stamp'[c] = IF stamp[c] = None THEN None ELSE CountUp(stamp[c], Away)
    BY DEF Tick, IInv, TypeOK
  <2> QED
    BY <2>1, Waits, NoneIsNothing DEF Tick, IInv, StampsTell, StampTells, CountUp
<1> QED
  BY <1>1, <1>2, <1>3 DEF IInv, Tick, Judged

LEMMA ConnectStep ==
  ASSUME IInv, NEW c \in Chars, Connect(c)
  PROVE  IInv' /\ Judged
<1>1. TypeOK'
  BY Waits DEF Connect, banVars, IInv, TypeOK
<1>2. /\ body'[c] = "live" /\ absent'[c] = 0 /\ (purged'[c] <=> stamp[c] = Away)
      /\ \A d \in Chars : d # c => body'[d] = body[d] /\ absent'[d] = absent[d]
      /\ UNCHANGED <<linger, lain, stamp, unstamped>> /\ relaid' = relaid \ {c}
  BY DEF Connect, IInv, TypeOK
<1>3. LingerKept'
  BY <1>2 DEF IInv, LingerKept
<1>4. StampsTell' /\ Judged
  <2>1. /\ stamp[c] \in (0 .. Away) \cup {None} /\ absent[c] \in 0 .. Away
        /\ stamp[c] # None => 0 =< stamp[c]
    BY NoneIsNothing DEF IInv, TypeOK
  <2> QED
    BY <1>2, <2>1, Waits DEF IInv, StampsTell, StampTells, Judged
<1> QED
  BY <1>1, <1>3, <1>4 DEF IInv

LEMMA PanicStep ==
  ASSUME IInv, NEW c \in Chars, Panic(c)
  PROVE  IInv' /\ Judged
<1>1. /\ body' \in [Chars -> {"none", "live", "linkdead"}]
      /\ linger' \in [Chars -> 0 .. Linger] /\ lain' \in [Chars -> 0 .. Linger]
      /\ LingerKept' /\ StampsTell' /\ Judged
  BY LieDownKept DEF Panic, Speaks, rentVars
<1>2. TypeOK'
  BY <1>1 DEF Panic, banVars, rentVars, IInv, TypeOK
<1> QED
  BY <1>1, <1>2 DEF IInv

LEMMA DisconnectedStep ==
  ASSUME IInv, NEW c \in Chars, NEW quit \in BOOLEAN, NEW airborne \in BOOLEAN,
         NEW stamped \in BOOLEAN, NEW saved \in BOOLEAN,
         Disconnected(c, quit, airborne, stamped, saved)
  PROVE  IInv' /\ Judged
<1>1. /\ link' \in [Chars -> {"none", "own", "refused", "lost"}]
      /\ UNCHANGED <<up, kicked, banned, sweep, purged, absent, relaid>>
  BY DEF Disconnected, banVars, IInv, TypeOK
<1>2. CASE UNCHANGED <<body, clean, linger, saving, lain, stamp, unstamped>>
  <2>1. TypeOK'
    BY <1>1, <1>2 DEF IInv, TypeOK
  <2> QED
    BY <1>1, <1>2, <2>1, Elsewhere
<1>3. CASE /\ body[c] = "live" /\ clean' = [clean EXCEPT ![c] = @ \/ quit]
           /\ ReapConnection(c, stamped, saved)
  <2>1. clean' \in [Chars -> BOOLEAN]
    BY <1>3 DEF IInv, TypeOK
  <2>2. /\ body' \in [Chars -> {"none", "live", "linkdead"}]
        /\ saving' \in [Chars -> (0 .. GiveUp) \cup {None}]
        /\ stamp' \in [Chars -> (0 .. Away) \cup {None}] /\ unstamped' \subseteq Chars
        /\ UNCHANGED <<linger, lain>>
        /\ LingerKept' /\ StampsTell' /\ Judged
    BY <1>1, <1>3, ReapKept
  <2>3. TypeOK'
    BY <1>1, <2>1, <2>2 DEF IInv, TypeOK
  <2> QED
    BY <2>2, <2>3 DEF IInv
<1>4. CASE /\ body[c] = "live" /\ clean' = [clean EXCEPT ![c] = @ \/ quit]
           /\ LieDown(c) /\ UNCHANGED <<saving, stamp, unstamped>>
  <2>1. clean' \in [Chars -> BOOLEAN]
    BY <1>4 DEF IInv, TypeOK
  <2>2. /\ body' \in [Chars -> {"none", "live", "linkdead"}]
        /\ linger' \in [Chars -> 0 .. Linger] /\ lain' \in [Chars -> 0 .. Linger]
        /\ LingerKept' /\ StampsTell' /\ Judged
    BY <1>1, <1>4, LieDownKept
  <2>3. TypeOK'
    BY <1>1, <1>4, <2>1, <2>2 DEF IInv, TypeOK
  <2> QED
    BY <2>2, <2>3 DEF IInv
<1>5. body[c] \in {"none", "live", "linkdead"}
  BY DEF IInv, TypeOK
<1> QED
  BY <1>2, <1>3, <1>4, <1>5 DEF Disconnected, Stray

LEMMA ReapStep ==
  ASSUME IInv, NEW c \in Chars, NEW stamped \in BOOLEAN, NEW saved \in BOOLEAN,
         Reap(c, stamped, saved)
  PROVE  IInv' /\ Judged
<1>1. /\ body' \in [Chars -> {"none", "live", "linkdead"}]
      /\ saving' \in [Chars -> (0 .. GiveUp) \cup {None}]
      /\ stamp' \in [Chars -> (0 .. Away) \cup {None}] /\ unstamped' \subseteq Chars
      /\ UNCHANGED <<linger, lain>>
      /\ LingerKept' /\ StampsTell' /\ Judged
  BY ReapKept DEF Reap
<1>2. TypeOK'
  BY <1>1 DEF Reap, banVars, IInv, TypeOK
<1> QED
  BY <1>1, <1>2 DEF IInv

LEMMA StopStep ==
  ASSUME IInv, NEW S \in SUBSET Chars, Stop(S)
  PROVE  IInv' /\ Judged
<1>1. TypeOK'
  <2>1. stamp' \in [Chars -> (0 .. Away) \cup {None}] /\ unstamped' \subseteq Chars
    BY Waits DEF Stop, IInv, TypeOK
  <2>2. /\ link' = [c \in Chars |-> "none"] /\ body' = [c \in Chars |-> "none"]
        /\ saving' = [c \in Chars |-> None] /\ sweep' = None /\ up' = FALSE
        /\ UNCHANGED <<clean, kicked, linger, lain, banned, purged, absent, relaid>>
    BY DEF Stop
  <2> QED
    BY <2>1, <2>2 DEF IInv, TypeOK
<1>2. /\ \A c \in Chars : body'[c] = "none"
      /\ \A c \in Chars : stamp'[c] = IF c \in S THEN 0 ELSE stamp[c]
      /\ \A c \in Chars : c \notin unstamped' => c \in S \/ (c \notin unstamped /\ body[c] = "none")
      /\ \A c \in S : body[c] # "none"
      /\ UNCHANGED absent
  BY DEF Stop
<1>3. LingerKept' /\ Judged
  BY <1>2 DEF LingerKept, Judged
<1>4. StampsTell'
  BY <1>2 DEF IInv, StampsTell, StampTells
<1> QED
  BY <1>1, <1>3, <1>4 DEF IInv

-----------------------------------------------------------------------------
(* Theorems *)

LEMMA NextIInv ==
  ASSUME IInv, [Next]_vars
  PROVE  IInv' /\ Judged
<1>1. ASSUME NEW c \in Chars, \/ Refuse(c) \/ TurnAway(c) \/ Quit(c)
                              \/ HangUp(c) \/ DropKicked(c)
      PROVE  IInv' /\ Judged
  <2>1. UNCHANGED <<body, linger, lain, stamp, absent, unstamped, relaid>>
    BY <1>1 DEF Refuse, TurnAway, Quit, HangUp, DropKicked, rentVars
  <2>2. TypeOK'
    BY <1>1 DEF Refuse, TurnAway, Quit, HangUp, DropKicked, rentVars, banVars, IInv, TypeOK
  <2> QED
    BY <2>1, <2>2, Elsewhere
<1>2. ASSUME NEW c \in Chars, NEW saved \in BOOLEAN, Retry(c, saved)
      PROVE  IInv' /\ Judged
  <2>1. TypeOK'
    BY <1>2 DEF Retry, rentVars, banVars, IInv, TypeOK
  <2> QED
    BY <1>2, <2>1, Elsewhere DEF Retry, rentVars
<1>3. ASSUME NEW a \in Bannable, SetBanned(a)
      PROVE  IInv' /\ Judged
  <2>1. TypeOK'
    BY <1>3, BannableType DEF SetBanned, sessionVars, rentVars, IInv, TypeOK
  <2> QED
    BY <1>3, <2>1, Elsewhere DEF SetBanned, sessionVars, rentVars
<1>4. ASSUME NEW answered \in BOOLEAN, BanQuery(answered)
      PROVE  IInv' /\ Judged
  <2>1. TypeOK'
    BY <1>4 DEF BanQuery, sessionVars, rentVars, IInv, TypeOK
  <2> QED
    BY <1>4, <2>1, Elsewhere DEF BanQuery, sessionVars, rentVars
<1>5. CASE KickBanned
  <2>1. TypeOK'
    BY <1>5 DEF KickBanned, Landed, rentVars, IInv, TypeOK
  <2> QED
    BY <1>5, <2>1, Elsewhere DEF KickBanned, rentVars
<1>6. CASE Boot
  <2>1. TypeOK'
    BY <1>6 DEF Boot, sessionVars, banVars, rentVars, IInv, TypeOK
  <2> QED
    BY <1>6, <2>1, Elsewhere DEF Boot, sessionVars, rentVars
<1>7. CASE UNCHANGED vars
  <2>1. TypeOK'
    BY <1>7 DEF vars, sessionVars, banVars, rentVars, IInv, TypeOK
  <2> QED
    BY <1>7, <2>1, Elsewhere DEF vars, sessionVars, rentVars
<1> QED
  BY <1>1, <1>2, <1>3, <1>4, <1>5, <1>6, <1>7, TickStep, ConnectStep, PanicStep,
     DisconnectedStep, ReapStep, StopStep DEF Next

LEMMA InvariantHolds == Spec => []IInv
<1>1. IInv /\ [Next]_vars => IInv'
  BY NextIInv
<1> QED
  BY <1>1, InitIInv, PTL DEF Spec

\* Links, bodies, waits and stamps have the shapes the code gives them.
THEOREM TypeCorrect == Spec => []TypeOK
<1>1. IInv => TypeOK
  BY DEF IInv
<1> QED
  BY <1>1, InvariantHolds, PTL

\* No refused relogin, quit or hang-up of another link moves the end of a
\* linger, for any number of characters (session.rs, go_linkdead).
THEOREM LingersKept == Spec => []LingerKept
<1>1. IInv => LingerKept
  BY DEF IInv
<1> QED
  BY <1>1, InvariantHolds, PTL

\* NO RENT items are purged after a whole absence and, where the departure was
\* stamped, only then, whatever lingers, failing saves, stops and crashes lie
\* between.  (set_logged_out_at, the purge at login)
THEOREM RentIsJudged == Spec => NoRentJudged
<1>1. IInv /\ [Next]_vars =>
        [\A c \in Chars : body[c] = "none" /\ body'[c] = "live" =>
           /\ c \notin unstamped => (purged'[c] <=> absent[c] = Away)
           /\ stamp[c] # None /\ absent[c] = Away => purged'[c]]_vars
  BY NextIInv DEF Judged
<1> QED
  BY <1>1, InvariantHolds, PTL DEF Spec, NoRentJudged

=============================================================================
