----------------------------- MODULE Durability -----------------------------
(***************************************************************************)
(* What the world server holds in memory and what SQLite holds: the store  *)
(* flush and the checkpoint (world/persistence.rs), the logout save, its   *)
(* retry queue and the stop (tick/session.rs, tick/upkeep.rs), the moves   *)
(* of an item or coin to another holder (tick/inventory_ops.rs drops,      *)
(* tick/trading.rs, tick/looting.rs, tick/death_sweep.rs) and the item     *)
(* ledger written with them (world/ledger.rs).                             *)
(*                                                                         *)
(* The world loop is one thread and no other task writes these tables, so  *)
(* a handler is one step.  A transaction may fail at any time and then     *)
(* changes nothing; where a handler has written one and the next fails (or *)
(* the process ends there) the step is an action of its own.               *)
(*                                                                         *)
(* A stack or a heap of coin is one token.  The five stores of a           *)
(* connection are three here: what is carried (inventory and wallet), what *)
(* is banked (the vault and the bank's coin) and the vault the account     *)
(* shares.  A linkdead body is still online: it is in the world.           *)
(***************************************************************************)
EXTENDS Integers, FiniteSets

CONSTANTS
  Chars,
  Accounts,
  AccountOf,   \* the account of a character
  Items,       \* tokens: stacks of items and heaps of coin
  NoRent,      \* the NO RENT ones
  CorpseIds,   \* bound: corpses
  Watched,     \* bound: the characters whose departures are recorded
  None

ASSUME AccountOfType == AccountOf \in [Chars -> Accounts]
ASSUME WatchedChars == Watched \subseteq Chars
ASSUME NoRentItems == NoRent \subseteq Items
ASSUME NoneIsNobody == None \notin Chars

VARIABLES
  up,       \* the world loop runs
  status,   \* offline; online: in connections; pending: in pending_saves
  mem,      \* the stores of a connection
  dirty,    \* the stores with their dirty flag set
  queue,    \* PerConnection::item_events, the net change of each token
  death,    \* no; dying: corpse_pending and not yet swept; owed: a sweep failed
  ground,   \* the bags of player drops
  lying,    \* the corpses in WorldState::corpses
  body,     \* what lies on each of them
  disk,     \* character_items, bank_items, account_bank_items, corpse_items
  tomb,     \* corpses: the owner of each row
  ledger,   \* item_events: the sum of delta, per account and token
  left      \* history: what a character left the world with, None if unsaved

memory == <<up, status, mem, dirty, queue, death, ground, lying, body>>
database == <<disk, tomb, ledger>>
vars == <<memory, database, left>>

-----------------------------------------------------------------------------
(* Where things are *)

Stores == {"carried", "bank", "vault"}

\* The row a store is saved in: the vault is the account's, not the character's.
Row(c, s) == IF s = "vault" THEN <<"vault", AccountOf[c]>> ELSE <<s, c>>

CharRows == {"carried", "bank"} \X Chars
VaultRows == {"vault"} \X Accounts
CorpseRows == {"corpse"} \X CorpseIds
Rows == CharRows \cup VaultRows \cup CorpseRows

Active(c) == status[c] # "offline"

NoStores == [s \in Stores |-> {}]
NoEvents == [x \in Items |-> 0]

\* A token that is nowhere, in memory or saved.
Unborn(x) ==
  /\ \A r \in Rows : x \notin disk[r]
  /\ \A c \in Chars, s \in Stores : x \notin mem[c][s]
  /\ x \notin ground
  /\ \A k \in CorpseIds : x \notin body[k]

TypeOK ==
  /\ up \in BOOLEAN
  /\ status \in [Chars -> {"offline", "online", "pending"}]
  /\ mem \in [Chars -> [Stores -> SUBSET Items]]
  /\ dirty \in [Chars -> SUBSET Stores]
  /\ queue \in [Chars -> [Items -> Int]]
  /\ death \in [Chars -> {"no", "dying", "owed"}]
  /\ ground \subseteq Items
  /\ lying \subseteq CorpseIds
  /\ body \in [CorpseIds -> SUBSET Items]
  /\ disk \in [Rows -> SUBSET Items]
  /\ tomb \in [CorpseIds -> Chars \cup {None}]
  /\ ledger \in [Accounts -> [Items -> Int]]
  /\ left \in [Chars -> [Stores -> SUBSET Items] \cup {None}]

Init ==
  /\ up = TRUE
  /\ status = [c \in Chars |-> "offline"]
  /\ mem = [c \in Chars |-> NoStores]
  /\ dirty = [c \in Chars |-> {}]
  /\ queue = [c \in Chars |-> NoEvents]
  /\ death = [c \in Chars |-> "no"]
  /\ ground = {}
  /\ lying = {}
  /\ body = [k \in CorpseIds |-> {}]
  /\ disk = [r \in Rows |-> {}]
  /\ tomb = [k \in CorpseIds |-> None]
  /\ ledger = [a \in Accounts |-> NoEvents]
  /\ left = [c \in Chars |-> None]

-----------------------------------------------------------------------------
(* The store flush *)

\* persist_dirty_stores of the connections of S, each in one transaction, when
\* their stores are m, the flags d and the queues q: every dirty store is
\* written whole, the queued ledger rows with it.
Writes(d, c, r) == r[1] \in d[c] /\ r = Row(c, r[1])

Written(S, m, d) == [r \in Rows |->
  IF \E c \in S : Writes(d, c, r)
  THEN m[CHOOSE c \in S : Writes(d, c, r)][r[1]]
  ELSE disk[r]]

Posted(S, q) == [a \in Accounts |-> [x \in Items |->
  IF \E c \in S : AccountOf[c] = a
  THEN ledger[a][x] + q[CHOOSE c \in S : AccountOf[c] = a][x]
  ELSE ledger[a][x]]]

\* Fault: the queue is not drained.
CleanedFlags(S, flags) ==
  /\ dirty' = [c \in Chars |-> IF c \in S THEN flags ELSE dirty[c]]
  /\ queue' = queue

\* The commit clears the queue and the flags, but for those that stay.
Cleaned(S, flags) ==
  /\ dirty' = [c \in Chars |-> IF c \in S THEN flags ELSE dirty[c]]
  /\ queue' = [c \in Chars |-> IF c \in S THEN NoEvents ELSE queue[c]]

\* A flush, after which the stores of flags are flagged again: what was done to
\* them and undone leaves the flag behind.
FlushBut(S, flags) ==
  /\ disk' = Written(S, mem, dirty)
  /\ ledger' = Posted(S, queue)
  /\ Cleaned(S, flags)

Flush(S) == FlushBut(S, {})

-----------------------------------------------------------------------------
(* What a handler does in memory *)

\* The tokens X of c go from one store to another; "out" is no store.  What
\* enters or leaves the holdings is a ledger row.
Moved(c, X, from, to) == [mem EXCEPT ![c] = [s \in Stores |->
  IF s = from THEN mem[c][s] \ X ELSE IF s = to THEN mem[c][s] \cup X ELSE mem[c][s]]]

\* Fault: the store something went to is not flagged.
TouchedSource(c, from, to) == [dirty EXCEPT ![c] = dirty[c] \cup ({from} \cap Stores)]

\* Fault: the other end of a move is flagged even where it is no store.
TouchedBoth(c, from, to) == [dirty EXCEPT ![c] = dirty[c] \cup {from, to}]

Touched(c, from, to) == [dirty EXCEPT ![c] = dirty[c] \cup ({from, to} \cap Stores)]

Queued(c, X, from, to) == [queue EXCEPT ![c] = [x \in Items |->
  queue[c][x] + (IF x \in X /\ from = "out" THEN 1 ELSE 0)
              - (IF x \in X /\ to = "out" THEN 1 ELSE 0)]]

\* Left for the checkpoint.
Stir(c, X, from, to) ==
  /\ mem' = Moved(c, X, from, to)
  /\ dirty' = Touched(c, from, to)
  /\ queue' = Queued(c, X, from, to)
  /\ UNCHANGED <<disk, ledger>>

\* Saved at once.
StirAndFlush(c, X, from, to) ==
  /\ mem' = Moved(c, X, from, to)
  /\ disk' = Written({c}, Moved(c, X, from, to), Touched(c, from, to))
  /\ ledger' = Posted({c}, Queued(c, X, from, to))
  /\ Cleaned({c}, {})

Online(c) == up /\ status[c] = "online"

-----------------------------------------------------------------------------
(* Coming and going *)

\* Fault: a save that is still being retried does not keep its account out.
AccountIdle(c) ==
  \A d \in Chars : AccountOf[d] = AccountOf[c] => status[d] # "online"

\* No connection and no pending save of the account.
AccountFree(c) == \A d \in Chars : AccountOf[d] = AccountOf[c] => ~ Active(d)

\* ClientConnected: the stores are loaded; away long enough, the NO RENT items
\* are gone.  A failed load refuses the login.
Login(c, away) ==
  LET loaded == [s \in Stores |-> disk[Row(c, s)]]
      gone == IF away THEN {x \in NoRent : \E s \in Stores : x \in loaded[s]} ELSE {}
  IN  /\ up /\ AccountFree(c)
      /\ status' = [status EXCEPT ![c] = "online"]
      /\ mem' = [mem EXCEPT ![c] = [s \in Stores |-> loaded[s] \ gone]]
      /\ dirty' = [dirty EXCEPT ![c] = IF gone = {} THEN {} ELSE Stores]
      /\ queue' = [queue EXCEPT ![c] = [x \in Items |-> IF x \in gone THEN -1 ELSE 0]]
      /\ left' = [left EXCEPT ![c] = None]
      /\ UNCHANGED <<up, death, ground, lying, body, database>>

\* The connection is dropped: what is unsaved of it is lost.
Gone(c) ==
  /\ status' = [status EXCEPT ![c] = "offline"]
  /\ mem' = [mem EXCEPT ![c] = NoStores]
  /\ death' = [death EXCEPT ![c] = "no"]

\* The logout save: flush_connection, whose stores and whose other parts
\* (position, resources, skills, factions, quests) may fail each.  A save that
\* did not fully land waits in pending_saves.  The session steps come before
\* the tick's deaths.
Reap(c, stores, others) ==
  /\ Online(c) /\ death[c] # "dying"
  /\ left' = [left EXCEPT ![c] = IF c \in Watched THEN mem[c] ELSE None]
  /\ IF stores /\ others
     THEN Flush({c}) /\ Gone(c)
     ELSE /\ status' = [status EXCEPT ![c] = "pending"]
          /\ IF stores THEN Flush({c}) ELSE UNCHANGED <<disk, ledger, dirty, queue>>
          /\ UNCHANGED <<mem, death>>
  /\ UNCHANGED <<up, ground, lying, body, tomb>>

\* The retry; one that fails past PENDING_SAVE_GIVE_UP is given up.
Retry(c, stores, others, due) ==
  /\ up /\ status[c] = "pending"
  /\ IF stores THEN Flush({c})
     ELSE /\ UNCHANGED <<disk, ledger>>
          /\ dirty' = [dirty EXCEPT ![c] = IF due THEN {} ELSE @]
          /\ queue' = [queue EXCEPT ![c] = IF due THEN NoEvents ELSE @]
  /\ left' = [left EXCEPT ![c] = IF stores THEN @ ELSE IF due THEN None ELSE @]
  /\ IF (stores /\ others) \/ due THEN Gone(c) ELSE UNCHANGED <<status, mem, death>>
  /\ UNCHANGED <<up, ground, lying, body, tomb>>

\* The end of the process: a crash (S = {}), or a stop that saved the
\* connections of S, the pending ones among them, within its budget.
Stop(S) ==
  /\ up
  /\ S # {} => \A c \in Chars : death[c] # "dying"
  /\ up' = FALSE
  /\ disk' = Written(S, mem, dirty)
  /\ ledger' = Posted(S, queue)
  /\ status' = [c \in Chars |-> "offline"]
  /\ mem' = [c \in Chars |-> NoStores]
  /\ dirty' = [c \in Chars |-> {}]
  /\ queue' = [c \in Chars |-> NoEvents]
  /\ death' = [c \in Chars |-> "no"]
  /\ ground' = {}
  /\ lying' = {}
  /\ body' = [k \in CorpseIds |-> {}]
  /\ left' = [c \in Chars |-> None]
  /\ UNCHANGED tomb

\* load_corpses, before the loop; if it fails the world has no corpses.
Boot(loaded) ==
  /\ ~ up /\ up' = TRUE
  /\ IF loaded
     THEN /\ lying' = {k \in CorpseIds : tomb[k] # None}
          /\ body' = [k \in CorpseIds |-> disk[<<"corpse", k>>]]
     ELSE UNCHANGED <<lying, body>>
  /\ UNCHANGED <<status, mem, dirty, queue, death, ground, database, left>>

-----------------------------------------------------------------------------
(* One connection *)

\* The 60 s checkpoint, and every save that only flushes (a quest reward).
Checkpoint(c) ==
  /\ Online(c)
  /\ Flush({c})
  /\ UNCHANGED <<up, status, mem, death, ground, lying, body, tomb, left>>

\* A creature's loot, a purchase, a reward: a new token.
Gain(c, x) ==
  /\ Online(c) /\ Unborn(x)
  /\ Stir(c, {x}, "out", "carried")
  /\ UNCHANGED <<up, status, death, ground, lying, body, tomb, left>>

\* Destroyed, eaten, sold, spent.
Lose(c, x) ==
  /\ Online(c) /\ x \in mem[c]["carried"]
  /\ Stir(c, {x}, "carried", "out")
  /\ UNCHANGED <<up, status, death, ground, lying, body, tomb, left>>

\* A deposit or a withdrawal at the bank.
Bank(c, x, from, to) ==
  /\ Online(c) /\ x \in mem[c][from]
  /\ from # to /\ "carried" \in {from, to}
  /\ Stir(c, {x}, from, to)
  /\ UNCHANGED <<up, status, death, ground, lying, body, tomb, left>>

-----------------------------------------------------------------------------
(* From one holder to another *)

\* Fault: the drop is left for the checkpoint.
DropUnsaved(c, x) ==
  /\ Online(c) /\ x \in mem[c]["carried"]
  /\ Stir(c, {x}, "carried", "out")
  /\ ground' = ground \cup {x}
  /\ UNCHANGED <<up, status, death, lying, body, tomb, left>>

\* apply_drops: saved before the bag is on the ground; a failed save undoes
\* the drop, flags and queue with it.
DropItem(c, x) ==
  /\ Online(c) /\ x \in mem[c]["carried"]
  /\ StirAndFlush(c, {x}, "carried", "out")
  /\ ground' = ground \cup {x}
  /\ UNCHANGED <<up, status, death, lying, body, tomb, left>>

\* A bag's stack into the bags or the hand, then the looter's save, which may
\* fail and is then the checkpoint's.
PickUp(c, x, saved) ==
  /\ Online(c) /\ x \in ground
  /\ ground' = ground \ {x}
  /\ IF saved THEN StirAndFlush(c, {x}, "out", "carried")
              ELSE Stir(c, {x}, "out", "carried")
  /\ UNCHANGED <<up, status, death, lying, body, tomb, left>>

BagExpires(x) ==
  /\ up /\ x \in ground
  /\ ground' = ground \ {x}
  /\ UNCHANGED <<up, status, mem, dirty, queue, death, lying, body, database, left>>

\* The trade commit: both flushed, then commit_trade writes both; the
\* inventories stay flagged.
Trade(a, b, given, got) ==
  LET swapped(c, out, in) == (mem[c]["carried"] \ out) \cup in
      settled(c, out, in) == [x \in Items |->
        Posted({a, b}, queue)[AccountOf[c]][x]
          - (IF x \in out THEN 1 ELSE 0) + (IF x \in in THEN 1 ELSE 0)]
  IN  /\ Online(a) /\ Online(b) /\ a # b
      /\ given \subseteq mem[a]["carried"] /\ got \subseteq mem[b]["carried"]
      /\ mem' = [mem EXCEPT ![a]["carried"] = swapped(a, given, got),
                            ![b]["carried"] = swapped(b, got, given)]
      /\ disk' = [Written({a, b}, mem, dirty) EXCEPT
                    ![Row(a, "carried")] = swapped(a, given, got),
                    ![Row(b, "carried")] = swapped(b, got, given)]
      /\ ledger' = [Posted({a, b}, queue) EXCEPT
                    ![AccountOf[a]] = settled(a, given, got),
                    ![AccountOf[b]] = settled(b, got, given)]
      /\ Cleaned({a, b}, {"carried"})
      /\ UNCHANGED <<up, status, death, ground, lying, body, tomb, left>>

\* The second flush before it fails, or commit_trade does and both sides are
\* reverted.
TradeFails(a, b, reverted) ==
  /\ Online(a) /\ Online(b) /\ a # b
  /\ IF reverted THEN FlushBut({a, b}, {"carried"}) ELSE Flush({a})
  /\ UNCHANGED <<up, status, mem, death, ground, lying, body, tomb, left>>

-----------------------------------------------------------------------------
(* Corpses *)

\* kill_player: the corpse is still to be made, by the sweep of this tick.
Die(c) ==
  /\ Online(c) /\ death[c] = "no"
  /\ death' = [death EXCEPT ![c] = "dying"]
  /\ UNCHANGED <<up, status, mem, dirty, queue, ground, lying, body, database, left>>

\* The death sweep: the stores flushed, then the corpse made and the owner
\* stripped in one transaction.  A failure is retried at the next sweep.
MakeCorpse(c, k) ==
  LET all == mem[c]["carried"]
      a == AccountOf[c]
  IN  /\ Online(c) /\ death[c] # "no"
      /\ tomb[k] = None /\ k \notin lying
      /\ disk' = [Written({c}, mem, dirty) EXCEPT
                    ![Row(c, "carried")] = {}, ![<<"corpse", k>>] = all]
      /\ ledger' = [Posted({c}, queue) EXCEPT ![a] = [x \in Items |->
                      Posted({c}, queue)[a][x] - (IF x \in all THEN 1 ELSE 0)]]
      /\ tomb' = [tomb EXCEPT ![k] = c]
      /\ mem' = [mem EXCEPT ![c]["carried"] = {}]
      /\ Cleaned({c}, {})
      /\ death' = [death EXCEPT ![c] = "no"]
      /\ lying' = lying \cup {k}
      /\ body' = [body EXCEPT ![k] = all]
      /\ UNCHANGED <<up, status, ground, left>>

\* The flush before it fails, or the corpse's own transaction after it.
CorpseFails(c, flushed) ==
  /\ Online(c) /\ death[c] # "no"
  /\ death' = [death EXCEPT ![c] = "owed"]
  /\ IF flushed THEN Flush({c}) ELSE UNCHANGED <<disk, ledger, dirty, queue>>
  /\ UNCHANGED <<up, status, mem, ground, lying, body, tomb, left>>

\* The owner takes X, all of it or what fits: flushed first, then the stores
\* and the corpse are written in one transaction; emptied, the corpse goes.
LootCorpse(c, k, X) ==
  LET a == AccountOf[c]
      rest == body[k] \ X
  IN  /\ Online(c) /\ k \in lying /\ tomb[k] = c
      /\ X # {} /\ X \subseteq body[k]
      /\ mem' = [mem EXCEPT ![c]["carried"] = @ \cup X]
      /\ disk' = [Written({c}, mem, dirty) EXCEPT
                    ![Row(c, "carried")] = mem[c]["carried"] \cup X,
                    ![<<"corpse", k>>] = rest]
      /\ ledger' = [Posted({c}, queue) EXCEPT ![a] = [x \in Items |->
                      Posted({c}, queue)[a][x] + (IF x \in X THEN 1 ELSE 0)]]
      /\ Cleaned({c}, {})
      /\ body' = [body EXCEPT ![k] = rest]
      /\ IF rest = {}
         THEN lying' = lying \ {k} /\ tomb' = [tomb EXCEPT ![k] = None]
         ELSE UNCHANGED <<lying, tomb>>
      /\ UNCHANGED <<up, status, death, ground, left>>

\* apply_corpse_loot fails after the flush, and the loot is undone.
LootFails(c, k) ==
  /\ Online(c) /\ k \in lying /\ tomb[k] = c /\ body[k] # {}
  /\ FlushBut({c}, {"carried"})
  /\ UNCHANGED <<up, status, mem, death, ground, lying, body, tomb, left>>

\* Decay: gone from the world even where the rows could not be deleted.
Decay(k, deleted) ==
  /\ up /\ k \in lying
  /\ lying' = lying \ {k}
  /\ body' = [body EXCEPT ![k] = {}]
  /\ IF deleted
     THEN /\ tomb' = [tomb EXCEPT ![k] = None]
          /\ disk' = [disk EXCEPT ![<<"corpse", k>>] = {}]
     ELSE UNCHANGED <<tomb, disk>>
  /\ UNCHANGED <<up, status, mem, dirty, queue, death, ground, ledger, left>>

Next ==
  \/ \E c \in Chars, away \in BOOLEAN : Login(c, away)
  \/ \E c \in Chars, stores, others \in BOOLEAN : Reap(c, stores, others)
  \/ \E c \in Chars, stores, others, due \in BOOLEAN : Retry(c, stores, others, due)
  \/ \E S \in SUBSET {c \in Chars : Active(c)} : Stop(S)
  \/ \E loaded \in BOOLEAN : Boot(loaded)
  \/ \E c \in Chars : Checkpoint(c) \/ Die(c)
  \/ \E c \in Chars, flushed \in BOOLEAN : CorpseFails(c, flushed)
  \/ \E c \in Chars, x \in Items : Gain(c, x) \/ Lose(c, x) \/ DropItem(c, x)
  \/ \E c \in Chars, x \in Items, from, to \in Stores : Bank(c, x, from, to)
  \/ \E c \in Chars, x \in Items, saved \in BOOLEAN : PickUp(c, x, saved)
  \/ \E x \in Items : BagExpires(x)
  \/ \E a, b \in Chars, given, got \in SUBSET Items : Trade(a, b, given, got)
  \/ \E a, b \in Chars, reverted \in BOOLEAN : TradeFails(a, b, reverted)
  \/ \E c \in Chars, k \in CorpseIds : MakeCorpse(c, k) \/ LootFails(c, k)
  \/ \E c \in Chars, k \in CorpseIds, X \in SUBSET Items : LootCorpse(c, k, X)
  \/ \E k \in CorpseIds, deleted \in BOOLEAN : Decay(k, deleted)

Spec == Init /\ [][Next]_vars

-----------------------------------------------------------------------------
(* Safety *)

\* Nothing is saved twice: a crash at any point restores each stack and each
\* heap of coin in at most one place, whatever was dirty, pending or given up
\* (persistence.rs, session.rs PENDING_SAVE_GIVE_UP: "giving up loses progress
\* but cannot duplicate anything").
NoSavedCopy ==
  \A r1, r2 \in Rows : r1 # r2 => disk[r1] \cap disk[r2] = {}

\* The places of the world as players see it: the stores of the connections,
\* the ground, the corpses, and the rows of the characters, accounts and
\* corpses that are not in memory, which a login or a boot will load.
InUse(r) ==
  \/ \E c \in Chars, s \in Stores : Active(c) /\ r = Row(c, s)
  \/ \E k \in lying : r = <<"corpse", k>>

\* Nothing is in play twice: no two holders, the ones still to be loaded
\* included, ever have one stack.
NoCopyInPlay ==
  /\ \A c, d \in Chars, s, t \in Stores :
       <<c, s>> # <<d, t>> => mem[c][s] \cap mem[d][t] = {}
  /\ \A c \in Chars, s \in Stores :
       mem[c][s] \cap ground = {} /\ \A k \in CorpseIds : mem[c][s] \cap body[k] = {}
  /\ \A k \in CorpseIds : body[k] \cap ground = {}
  /\ \A k, l \in CorpseIds : k # l => body[k] \cap body[l] = {}
  /\ \A r \in Rows : ~ InUse(r) =>
       /\ disk[r] \cap ground = {}
       /\ \A k \in CorpseIds : disk[r] \cap body[k] = {}
       /\ \A c \in Chars, s \in Stores : disk[r] \cap mem[c][s] = {}

\* "The table and the stores agree at every commit" (ledger.rs:12): the ledger
\* of an account sums to what its rows hold, for every token, after every
\* crash, failed save and rollback; a corpse is nobody's holding.
BooksBalance ==
  \A a \in Accounts, x \in Items :
    ledger[a][x] = Cardinality({r \in CharRows \cup VaultRows :
      x \in disk[r] /\ a = IF r \in VaultRows THEN r[2] ELSE AccountOf[r[2]]})

\* A store that differs from its row is flagged, and no flag of an offline
\* character stays, so the next save of any kind writes all there is to write.
FlagsCover ==
  \A c \in Chars, s \in Stores :
    IF Active(c) THEN mem[c][s] = disk[Row(c, s)] \/ s \in dirty[c]
                 ELSE dirty[c] = {} /\ queue[c] = NoEvents

\* A player who left comes back with what they left with, less the NO RENT
\* items, unless the save was given up or the process ended before it landed;
\* no login meets the older state while a save is still being retried.  (The
\* account's vault may be changed by its other characters.)
LoginRestores ==
  [][\A c \in Chars, s \in {"carried", "bank"} :
       status[c] # "online" /\ status'[c] = "online" /\ left[c] # None
         => left[c][s] \ NoRent \subseteq mem'[c][s] /\ mem'[c][s] \subseteq left[c][s]
    ]_vars

\* "A passing database error cannot let a death skip its corpse"
\* (death_sweep.rs:115): a corpse that is owed is made while the world runs.
DeathLeavesCorpse ==
  [][\A c \in Chars : up' /\ death[c] = "owed" /\ death'[c] = "no"
       => \E k \in CorpseIds : tomb[k] = None /\ tomb'[k] = c]_vars

=============================================================================
