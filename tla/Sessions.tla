------------------------------ MODULE Sessions ------------------------------
(***************************************************************************)
(* How a character comes into the world and leaves it: the transport       *)
(* events, the linkdead linger, the timeouts and the logout save of        *)
(* world/tick/session.rs, the message drain of tick/intake.rs, the ban     *)
(* sweep and the retry queue of tick/upkeep.rs, the clean stop and the     *)
(* crash.                                                                  *)
(*                                                                         *)
(* A link is a transport connection (renet), a body an entry of            *)
(* WorldState::connections.  Both are keyed by the client id, which is the *)
(* character id, and neither implies the other: a linkdead body has no     *)
(* link, a refused link has no body of its own.                            *)
(*                                                                         *)
(* Time is counted in steps much longer than a tick; the three waits that  *)
(* matter are LINKDEAD_SECS, PENDING_SAVE_GIVE_UP and NO_RENT_AFTER_SECS.  *)
(***************************************************************************)
EXTENDS Naturals

CONSTANTS
  Chars,
  Accounts,
  AccountOf,   \* the account of a character
  Linger,      \* LINKDEAD_SECS
  GiveUp,      \* PENDING_SAVE_GIVE_UP
  Away,        \* NO_RENT_AFTER_SECS
  Bannable,    \* bound: the accounts that may be banned
  None

ASSUME AccountOfType == AccountOf \in [Chars -> Accounts]
ASSUME Waits == Linger \in Nat /\ GiveUp \in Nat /\ Away \in Nat
ASSUME BannableType == Bannable \subseteq Accounts
ASSUME NoneIsNothing == None \notin Nat

VARIABLES
  up,         \* the world loop runs
  link,       \* own: this body's; refused: no login came of it; lost: gone,
              \* its ClientDisconnected event still to be handled
  body,       \* none, live, linkdead
  clean,      \* clean_disconnect
  kicked,     \* kicked_at is set
  linger,     \* time until a linkdead body is reaped
  saving,     \* in pending_saves: time until it is given up
  banned,     \* accounts with the flag in the database
  sweep,      \* the ban query's answer on its way to the loop
  stamp,      \* logged_out_at, as the time since (up to Away); None: never set
  purged,     \* the NO RENT items were purged at the last login
  lain,       \* history: how long a linkdead body has lain (up to Linger)
  absent,     \* history: how long a character has been away (up to Away)
  unstamped,  \* history: the characters whose last departure wrote no stamp
  relaid      \* history: the characters whose linkdead body was laid down anew
              \* by a message, a refused link's, that panicked

sessionVars == <<link, body, clean, kicked, linger, saving, lain>>
rentVars == <<stamp, purged, absent, unstamped>>
banVars == <<banned, sweep>>
vars == <<up, sessionVars, banVars, rentVars, relaid>>

-----------------------------------------------------------------------------
TypeOK ==
  /\ up \in BOOLEAN
  /\ link \in [Chars -> {"none", "own", "refused", "lost"}]
  /\ body \in [Chars -> {"none", "live", "linkdead"}]
  /\ clean \in [Chars -> BOOLEAN] /\ kicked \in [Chars -> BOOLEAN]
  /\ linger \in [Chars -> 0 .. Linger] /\ lain \in [Chars -> 0 .. Linger]
  /\ saving \in [Chars -> (0 .. GiveUp) \cup {None}]
  /\ banned \subseteq Accounts /\ sweep \in (SUBSET Accounts) \cup {None}
  /\ stamp \in [Chars -> (0 .. Away) \cup {None}]
  /\ purged \in [Chars -> BOOLEAN]
  /\ absent \in [Chars -> 0 .. Away]
  /\ unstamped \subseteq Chars /\ relaid \subseteq Chars

Init ==
  /\ up = TRUE
  /\ link = [c \in Chars |-> "none"]
  /\ body = [c \in Chars |-> "none"]
  /\ clean = [c \in Chars |-> FALSE]
  /\ kicked = [c \in Chars |-> FALSE]
  /\ linger = [c \in Chars |-> 0]
  /\ lain = [c \in Chars |-> 0]
  /\ saving = [c \in Chars |-> None]
  /\ banned = {} /\ sweep = None
  /\ stamp = [c \in Chars |-> None]
  /\ purged = [c \in Chars |-> FALSE]
  /\ absent = [c \in Chars |-> Away]
  /\ unstamped = Chars
  /\ relaid = {}

-----------------------------------------------------------------------------
(* Time *)

\* Fault: a timer runs on past its end.
CountOn(n) == n - 1
CountDown(n) == IF n = 0 THEN 0 ELSE n - 1
CountUp(n, end) == IF n = end THEN end ELSE n + 1

Tick ==
  /\ linger' = [c \in Chars |->
       IF body[c] = "linkdead" THEN CountDown(linger[c]) ELSE linger[c]]
  /\ lain' = [c \in Chars |->
       IF body[c] = "linkdead" THEN CountUp(lain[c], Linger) ELSE lain[c]]
  /\ saving' = [c \in Chars |-> IF saving[c] = None THEN None ELSE CountDown(saving[c])]
  /\ stamp' = [c \in Chars |-> IF stamp[c] = None THEN None ELSE CountUp(stamp[c], Away)]
  /\ absent' = [c \in Chars |->
       IF body[c] = "none" THEN CountUp(absent[c], Away) ELSE 0]
  /\ UNCHANGED <<up, link, body, clean, kicked, banVars, purged, unstamped, relaid>>

-----------------------------------------------------------------------------
(* Coming: ClientConnected *)

\* The account has no character in the world and none being saved.
AccountFree(c) ==
  \A d \in Chars : AccountOf[d] = AccountOf[c] => body[d] = "none" /\ saving[d] = None

Admitted(c) == AccountFree(c) /\ AccountOf[c] \notin banned

\* The stores are loaded; NO RENT items are judged by the stamp.
Connect(c) ==
  /\ up /\ link[c] = "none" /\ Admitted(c)
  /\ link' = [link EXCEPT ![c] = "own"]
  /\ body' = [body EXCEPT ![c] = "live"]
  /\ clean' = [clean EXCEPT ![c] = FALSE]
  /\ kicked' = [kicked EXCEPT ![c] = FALSE]
  /\ purged' = [purged EXCEPT ![c] = stamp[c] = Away]
  /\ absent' = [absent EXCEPT ![c] = 0]
  /\ relaid' = relaid \ {c}
  /\ UNCHANGED <<up, linger, saving, lain, banVars, stamp, unstamped>>

\* Refused with a Kick, for the guard or for a failed read of the ban flag or
\* the stores; the link stays until the client hangs up.
Refuse(c) ==
  /\ up /\ link[c] = "none"
  /\ link' = [link EXCEPT ![c] = "refused"]
  /\ UNCHANGED <<up, body, clean, kicked, linger, saving, lain, banVars, rentVars, relaid>>

\* The character could not be loaded or is another account's: hung up on.
TurnAway(c) ==
  /\ up /\ link[c] = "none"
  /\ link' = [link EXCEPT ![c] = "lost"]
  /\ UNCHANGED <<up, body, clean, kicked, linger, saving, lain, banVars, rentVars, relaid>>

-----------------------------------------------------------------------------
(* Messages: drain_messages, handle_message *)

\* A message is handled for the body of the client id it came in under, a
\* refused link's too; a kicked connection gets no further say.
Speaks(c) == link[c] \in {"own", "refused"} /\ body[c] # "none" /\ ~ kicked[c]

\* ClientWorldMsg::Disconnect: the leave is clean, the transport is dropped.
Quit(c) ==
  /\ Speaks(c)
  /\ clean' = [clean EXCEPT ![c] = TRUE]
  /\ link' = [link EXCEPT ![c] = "lost"]
  /\ UNCHANGED <<up, body, kicked, linger, saving, lain, banVars, rentVars, relaid>>

\* go_linkdead
LieDown(c) ==
  /\ body' = [body EXCEPT ![c] = "linkdead"]
  /\ linger' = [linger EXCEPT ![c] = Linger]
  /\ lain' = [lain EXCEPT ![c] = IF body[c] = "live" THEN 0 ELSE @]

\* A handler panics: the batch is undone, drop_panicked cuts the client off.
Panic(c) ==
  /\ Speaks(c)
  /\ link' = [link EXCEPT ![c] = "lost"]
  /\ LieDown(c)
  /\ relaid' = IF body[c] = "linkdead" THEN relaid \cup {c} ELSE relaid
  /\ UNCHANGED <<up, clean, kicked, saving, banVars, rentVars>>

-----------------------------------------------------------------------------
(* Going *)

\* The client hangs up, its cable is cut, netcode or the heartbeat times out.
HangUp(c) ==
  /\ link[c] \in {"own", "refused"}
  /\ link' = [link EXCEPT ![c] = "lost"]
  /\ UNCHANGED <<up, body, clean, kicked, linger, saving, lain, banVars, rentVars, relaid>>

\* reap_timed_out: KICK_FLUSH_GRACE after the Kick.
DropKicked(c) ==
  /\ kicked[c] /\ body[c] = "live" /\ link[c] = "own"
  /\ link' = [link EXCEPT ![c] = "lost"]
  /\ UNCHANGED <<up, body, clean, kicked, linger, saving, lain, banVars, rentVars, relaid>>

\* Leaving is stamped, if the write succeeds.
\* Fault: only one that was not linkdead is.
StampedLive(c, stamped) ==
  IF stamped /\ body[c] = "live"
  THEN stamp' = [stamp EXCEPT ![c] = 0] /\ unstamped' = unstamped \ {c}
  ELSE IF stamped THEN stamp' = stamp /\ unstamped' = unstamped \ {c}
  ELSE stamp' = stamp /\ unstamped' = unstamped \cup {c}
Stamped(c, stamped) ==
  IF stamped THEN stamp' = [stamp EXCEPT ![c] = 0] /\ unstamped' = unstamped \ {c}
             ELSE stamp' = stamp /\ unstamped' = unstamped \cup {c}

\* reap_connection: the body goes; a save that fails waits to be retried.
ReapConnection(c, stamped, saved) ==
  /\ body' = [body EXCEPT ![c] = "none"]
  /\ saving' = [saving EXCEPT ![c] = IF saved THEN None ELSE GiveUp]
  /\ Stamped(c, stamped)
  /\ UNCHANGED <<linger, lain>>

\* Nothing is done for a body that lies linkdead: the event is a refused
\* relogin's.  Fault: it is not told from the body's own.
StrayNever(c) == FALSE
Stray(c) == body[c] = "linkdead"

\* ClientDisconnected.  quit: the last messages, drained here, held a
\* Disconnect; a body in mid-air lingers however it left.
Disconnected(c, quit, airborne, stamped, saved) ==
  /\ up /\ link[c] = "lost" /\ link' = [link EXCEPT ![c] = "none"]
  /\ quit => body[c] = "live" /\ ~ kicked[c]
  /\ IF Stray(c) \/ body[c] = "none"
     THEN UNCHANGED <<body, clean, linger, saving, lain, stamp, unstamped>>
     ELSE /\ clean' = [clean EXCEPT ![c] = @ \/ quit]
          /\ IF clean'[c] /\ ~ airborne
             THEN ReapConnection(c, stamped, saved)
             ELSE LieDown(c) /\ UNCHANGED <<saving, stamp, unstamped>>
  /\ UNCHANGED <<up, kicked, banVars, purged, absent, relaid>>

\* reap_linkdead
Reap(c, stamped, saved) ==
  /\ up /\ body[c] = "linkdead" /\ linger[c] = 0
  /\ ReapConnection(c, stamped, saved)
  /\ UNCHANGED <<up, link, clean, kicked, banVars, purged, absent, relaid>>

\* Fault: a save is retried for ever.
DueNever(c) == FALSE
Due(c) == saving[c] = 0

\* The retry of a logout save, given up when it is due.
Retry(c, saved) ==
  /\ up /\ saving[c] # None /\ (saved \/ Due(c))
  /\ saving' = [saving EXCEPT ![c] = None]
  /\ UNCHANGED <<up, link, body, clean, kicked, linger, lain, banVars, rentVars, relaid>>

-----------------------------------------------------------------------------
(* Bans *)

\* set_account_banned, the admin tool's: the flag alone.
SetBanned(a) ==
  /\ banned' = IF a \in banned THEN banned \ {a} ELSE banned \cup {a}
  /\ UNCHANGED <<up, sessionVars, sweep, rentVars, relaid>>

\* The query runs on a task of its own; one that fails answers nobody.
BanQuery(answered) ==
  /\ up /\ sweep = None /\ \E c \in Chars : body[c] # "none"
  /\ sweep' = IF answered THEN banned ELSE {}
  /\ UNCHANGED <<up, sessionVars, banned, rentVars, relaid>>

\* The next query may start.  Fault: never again.
InFlight == sweep' = sweep
Landed == sweep' = None

\* The loop takes the answer and kicks; a linkdead body has nobody to kick.
KickBanned ==
  /\ up /\ sweep # None /\ Landed
  /\ kicked' = [c \in Chars |->
       kicked[c] \/ (body[c] = "live" /\ AccountOf[c] \in sweep)]
  /\ UNCHANGED <<up, link, body, clean, linger, saving, lain, banned, rentVars, relaid>>

-----------------------------------------------------------------------------
(* The end of the process *)

\* A clean stop stamps the connections, where the write succeeds; a crash
\* stamps none (stamped = {}).
Stop(stamped) ==
  LET left == {c \in Chars : body[c] # "none"}
  IN  /\ up /\ up' = FALSE /\ stamped \subseteq left
      /\ link' = [c \in Chars |-> "none"]
      /\ body' = [c \in Chars |-> "none"]
      /\ saving' = [c \in Chars |-> None]
      /\ sweep' = None
      /\ stamp' = [c \in Chars |-> IF c \in stamped THEN 0 ELSE stamp[c]]
      /\ unstamped' = (unstamped \ stamped) \cup (left \ stamped)
      /\ UNCHANGED <<clean, kicked, linger, lain, banned, purged, absent, relaid>>

Boot ==
  /\ ~ up /\ up' = TRUE
  /\ UNCHANGED <<sessionVars, banVars, rentVars, relaid>>

-----------------------------------------------------------------------------
Next ==
  \/ Tick \/ Boot
  \/ \E c \in Chars :
       \/ Connect(c) \/ Refuse(c) \/ TurnAway(c)
       \/ Quit(c) \/ Panic(c)
       \/ HangUp(c) \/ DropKicked(c)
  \/ \E c \in Chars, quit, airborne, stamped, saved \in BOOLEAN :
       Disconnected(c, quit, airborne, stamped, saved)
  \/ \E c \in Chars, stamped, saved \in BOOLEAN : Reap(c, stamped, saved)
  \/ \E c \in Chars, saved \in BOOLEAN : Retry(c, saved)
  \/ \E a \in Bannable : SetBanned(a)
  \/ \E answered \in BOOLEAN : BanQuery(answered)
  \/ KickBanned
  \/ \E S \in SUBSET Chars : Stop(S)

Spec == Init /\ [][Next]_vars

\* Time passes and the loop goes on running each of its steps; the ban query
\* is asked again and again, and not always in vain.  Clients, logins, crashes
\* and the admin owe nothing, and no save need ever succeed: a retry that is
\* due takes place, as a failure if it must.
LoopRuns ==
  /\ WF_vars(Tick) /\ WF_vars(KickBanned) /\ SF_vars(BanQuery(TRUE))
  /\ \A c \in Chars :
       /\ WF_vars(\E quit, airborne, stamped, saved \in BOOLEAN :
                    Disconnected(c, quit, airborne, stamped, saved))
       /\ WF_vars(\E stamped, saved \in BOOLEAN : Reap(c, stamped, saved))
       /\ WF_vars(Retry(c, FALSE))
       /\ WF_vars(DropKicked(c))

FairSpec == Spec /\ LoopRuns

-----------------------------------------------------------------------------
(* Safety *)

\* The linger of a body is counted from the moment its own link was lost,
\* whatever refused relogins of the same character come and go meanwhile
\* (session.rs: "re-marking would reset the reap timer and let the body linger
\* forever"); a panic of a relogin's message is the exception.
LingerKept ==
  \A c \in Chars \ relaid :
    body[c] = "linkdead" => linger[c] + lain[c] = Linger

\* A character whose departure was stamped loses its NO RENT items at the next
\* login if, and only if, it was really out of the world for the whole time: a
\* linger does not count, nor the time a failed logout save kept it out.  After a
\* crash or a failed write an older stamp decides, which may take them early but
\* never spares who was away.  (set_logged_out_at, the purge at login)
NoRentJudged ==
  [][\A c \in Chars : body[c] = "none" /\ body'[c] = "live" =>
       /\ c \notin unstamped => (purged'[c] <=> absent[c] = Away)
       /\ stamp[c] # None /\ absent[c] = Away => purged'[c]]_vars

-----------------------------------------------------------------------------
(* Liveness *)

\* A body whose link was cut leaves the world and its account is free again,
\* through a failing save too: the wait has an end, unless messages that panic
\* lay the body down again and again.
AccountFrees ==
  \A c \in Chars : body[c] = "linkdead" \/ saving[c] # None
    ~> (body[c] = "none" /\ saving[c] = None) \/ c \in relaid

\* A ban takes the account's character out of the world, wherever the ban lands
\* between a query, its answer, a linger and a relogin, unless it is lifted (or
\* messages that panic keep the body down).
BannedLeave ==
  \A c \in Chars : AccountOf[c] \in banned
    ~> body[c] = "none" \/ AccountOf[c] \notin banned \/ c \in relaid

=============================================================================
