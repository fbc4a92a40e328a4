# A TLA+ model of the Project Dawn server

Project Dawn's server is one process: an authentication listener (a WebSocket,
`auth/mod.rs`), a world loop that runs at 20 Hz on one thread (`world/tick/mod.rs`)
and a SQLite database that both use (`db/mod.rs`). This directory models the parts
of it where a mistake would cost players their items, coin, experience or account,
checks the models with TLC, and proves the most important results with TLAPS.

Paths below are relative to `src/crates/projectdawn-server/src/`.

## 1. The system

### How it runs

The world loop owns everything that is not in the database. A tick is a fixed
sequence: shutdown check, transport, connects and disconnects
(`handle_transport_events`), the message drain, panicked connections, the audit
flush, timeouts (`reap_timed_out`, `reap_linkdead`), spawns, casts and attacks,
groups, movement of items (moves, trades, the trade sweep, splits, drops, equips,
destroys, consumables), vendors, bank, creatures, resurrection, quests, loot, expiry,
movement, buffs, camp, the death sweep, regeneration, positions, upkeep (checkpoint,
pending saves, ban sweep) and sending. Messages only validate and queue intents; the
steps apply them. So a handler is never interrupted by another one, and the hard part
is elsewhere: in which order the intents of several players come, what happens
between two intents that belong together (an invitation and its accept, an offer and
the commit), which of a handler's database writes fail, and where a crash falls
between them. The loop awaits the database inside a step, and nothing else runs on
its state meanwhile; only the ban query and the ledger's sweep have tasks of their own.

### The components

| Component | State | Operations | Hard because | Right when |
|---|---|---|---|---|
| Groups (`groups.rs`, `tick/grouping.rs`) | group table, reverse index, pending invitations, loot pointer | invite, accept, leave, kick, lead, loot mode | an invitation is accepted after anything; departures are silent | table and index agree; leaders are members; turns go round |
| Loot (`loot.rs`, `tick/looting.rs`) | bags with an owner, a claimed looter and coin | claim, take, split the coin, pick up, expire | rights are read live, the claim is fixed; shares and rests | a member is not passed over; no copper is made or lost |
| Inventory (`inventory.rs`, `tick/inventory_ops.rs`) | slots, worn slots, the hand, bag contents by slot, two vaults | eight kinds of move, split, equip, place, destroy, park, save, load | contents are kept apart from the bag that holds them | nothing vanishes or is made; bags never nest; what is saved loads back |
| Trading (`trade.rs`, `tick/trading.rs`) | sessions, offers by reference, accepts | request, offer, retrieve, coin, accept, cancel, sweep | an offer is a reference, not an escrow | both get exactly what they were shown, or nothing happens |
| Persistence (`persistence.rs`, `db/mod.rs`) | dirty flags and queued ledger rows in memory; rows | flush, checkpoint, logout save, retry, stop; transactions between holders | five stores that become dirty on their own; failures; crashes | nothing is saved twice or in play twice; the ledger sums up |
| Sessions (`tick/session.rs`, `tick/intake.rs`, `tick/upkeep.rs`) | connections, linkdead bodies, pending saves, bans in flight | connect, refuse, linger, reap, panic, ban, stop | a link and a body share an id and live apart | accounts come free again; the banned leave; no body is kept lying |
| Item ledger (`ledger.rs`) | `item_events` rows | queue, commit with a store, roll back, fold | one row per change of a holding, in the transaction of the change | the sum per account and item is what the rows hold |
| Corpses (`corpses.rs`, `tick/death_sweep.rs`) | corpses in memory and in rows | make, loot, decay, resurrect | made in a later step than the death, and retried | the gear is on the body or on the owner |
| Coin (`protocol/src/world.rs`, `tick/vendors.rs`, `tick/banking.rs`) | wallets and balances in four tiers | buy, sell, deposit, withdraw, exchange, split | change and rests over tiers | what is paid is what is owed; the ledger agrees |
| Creatures (`entity.rs`, `tick/enemy_ai.rs`, `tick/spawning.rs`, `tick/pet_life.rs`, `tick/kills.rs`) | spawn points, creatures and pets with targets, threat and stance | spawn, attack, chase, leash, charm, command, die, clean up | ids that outlive bodies, a creature that changes hands, an AI pass that decides on a snapshot and strikes later | no camp is lost or doubled, no pet outlives its owner's stay, the dead are left alone |
| Casting and buffs (`tick/casting.rs`, `cast_gate.rs`, `buffs.rs`, `tick/buff_tick.rs`) | the bar, the request, active buffs, applied deltas, offers | begin, ask, land, refuse, interrupt, tick, expire, dispel, die, raise | the bar is judged in a later pass than the request | a spell lands once for an unbroken bar; what a buff added it takes back |
| Progress (`progression.rs`, `quests.rs`, `tick/quest_steps.rs`, `tick/kills.rs`) | level and experience, the journal, completions | kill, accept, turn in, abandon, die, be raised, checkpoint | four transactions write the same numbers, a crash may fall between them | experience is never more than was earned; a quest pays once |
| Authentication (`auth/mod.rs`) | accounts, session tokens, the attempt limiter | register, login, redeem, ban, reset | | not modelled |

How they meet: sessions create and remove the connections every other component
works on; a departure calls the group manager and the flush; the death sweep and the
loot read the group and write inventory, wallet, corpse and ledger in one
transaction; a trade reads two inventories and writes both; the placer
(`add_item_locating`) is called by loot, purchases, rewards, trades and the bank and
takes no notice of a trade's locks.

## 2. The modules

| Module | Models | Run by |
|---|---|---|
| `Groups` | the group manager, its intents, the claims of bags | `MC_Groups` |
| `Groups_proofs` | the proofs about `Groups` | TLAPS |
| `InventoryOps` | every operation of `PlayerInventory` and `ItemVault`, as operators on an inventory value | (used) |
| `Inventory` | one player's inventory and vaults under every intent, with the ledger | `MC_Inventory` |
| `Inventory_proofs` | the proofs about `InventoryOps`, `Inventory` and `Trade` | TLAPS |
| `TradeContract` | what trading promises: a swap two players agreed to | (refined) |
| `Trade` | the trade manager, its intents, the commit, over two `InventoryOps` inventories | `MC_Trade` |
| `Durability` | memory, flags, queue and rows of every holder; failures, crashes, restarts | `MC_Durability` |
| `Durability_proofs` | the proofs about `Durability` | TLAPS |
| `Sessions` | links, bodies, waits, bans, stamps | `MC_Sessions` |
| `Sessions_proofs` | the proofs about `Sessions` | TLAPS |
| `Creatures` | spawn points, creatures, pets, charm, the AI pass and its blows | `MC_Creatures` |
| `Creatures_proofs` | the proofs about `Creatures` | TLAPS |
| `Casting` | bars, requests, landings, buffs, death and resurrection, in the order of a tick | `MC_Casting` |
| `Casting_proofs` | the proofs about `Casting` | TLAPS |
| `Progress` | experience, quests, corpses' refunds, and the rows they are kept in | `MC_Progress` |
| `Progress_proofs` | the proofs about `Progress` | TLAPS |
| `Economy` | purses of tiers, merchants, bank, splits, corpses, grants | `MC_Economy` |
| `Economy_proofs` | the proofs about `Economy` | TLAPS |

The definitions carry the names of the code where there is one; PROJECT.json maps
each to its lines. Definitions commented as a *fault* are not part of a
specification: they are a definition as a plausible mistake would have it, and each
property is known to fail with one of them.

**Groups.** `groups`, `memberGroup` and `invites` are the three maps of
`GroupManager`; `bags` the owner and the claimed looter of `loot_bags`. `Leave` is
`GroupManager::leave`, used by a leave, a kick and a departure. `passed`
and `unfair` are history for the property of the rotation. Abstracted:
names, roster messages, the distance (a parameter `near`).

**InventoryOps, Inventory.** A slot is `<<kind, host, cell>>`; the contents of bags
are in the same function, and `inv.bags` says which contents vectors exist, because
`ensure_bag_init` makes and drops them by what sits in the host slot. The eight
move functions of the code are one operator `Move` over the kinds of its two ends,
with the refusals in `CanMove`; the places where the functions differ (which swaps
are refused, which bags travel with their contents) are conjuncts there. `Inventory`
adds the intents, the two vaults, a corpse, and a ledger that is the sum of the rows
the code queues. Item identities are a bag, a piece of armour and something that
stacks.

**Trade.** A session is kept as in the code: two sides with offers that are a slot
and the stack shown. `AcceptSecond` is split by outcome, in the order the commit
checks: apart, coins not covered, offers changed, no room, save failed, done. Around
it, players move, lose and gain items, spend, die, are stripped, respawn, leave and
return. `TradeContract` knows only holdings and agreements; `ImplementsContract`
maps holdings to totals per item and coin, and an agreement to what a player was
shown when they accepted. Its names differ from those of `Inventory` (`TradeInit`,
`TradeSpec`, `invs`) so that one module can reason about both.

**Durability.** A stack or heap of coin is a token, the five stores are three (what
is carried, what is banked, what the account shares). A handler whose writes can
fail in the middle is several actions, one for each prefix that can be left behind:
`Trade`, `TradeFails`; `MakeCorpse`, `CorpseFails`; `LootCorpse`, `LootFails`;
`Reap` and `Retry` with the outcome of each part. The flags that stay set after a
trade and after an undone loot are modelled, they are where the code leaves them.
`left` is history. The corpse transaction names `Written` of the flush before it,
since both commit in one step when nothing fails in between.

**Sessions.** `link` is the transport's view, `body` the world's. `Connect`,
`Refuse` and `TurnAway` are the outcomes of `ClientConnected`; `Disconnected` is the
one handler for an orderly quit, a lost link and a stray event. Waits are counters
that `Tick` steps. `stamp`, `absent`, `unstamped` relate `logged_out_at` to how long
a character was really away; `relaid` marks the one way a linger starts over, a refused
link's message that panics. A message otherwise changes nothing here, and a batch
whose handler panics is put back as it was (`handle_batch`), which is one step.

**Creatures.** A tick is three passes: the leavers, joiners and `run_spawning`
(`open`); attacks, spells and commands (`act`); the AI pass, which lets every
creature decide on what it saw at its start (`Together`) and then lands the blows one
by one (`blows`). `Outcomes` is `tick_dots` and `tick_ai` of one creature as the set of
what it may become and whom it hits; the states of the AI are one operator each, named
after the code's. Dice, distances and timers are open choices. `last` is
`last_attacked_enemy`. A creature that changes hands by charm gets a new id and keeps
its spawn point, as in the code.

**Casting.** A tick is five passes. Six spells stand for the shapes the code
knows: a nuke with a DoT, an instant dispel, a heal with a stat buff, a toggled song,
a spell paid in hp, and a resurrection. `begun` remembers which bars may still land,
which the code has no variable for, and `unearned` who landed a spell without one.
`applied` counts how often the deltas of a stat buff sit in the stats.

**Progress.** A character (`conn`), one whose logout save has not landed (`pending`),
and its rows (`row`). The rows carry their history: what was earned to reach the
experience they hold, and which quests paid into it. Each of the four transactions
that write experience (checkpoint, completion, corpse, resurrection) is an operator
on the row, and any part of a save may fail. `Reference` is what `resolve` is for:
the level as a position on one line of experience.

**Economy.** A purse is a function from tiers to coins; the operators are those of
`Coins`, tier by tier. Everything that creates, moves or destroys coin in the world is
an action, and `issued` adds up what came in and went out. Trades move whole
amounts and are in `Trade`, rows in `Durability`.

## 3. The runs

Passing runs:

| Run | Distinct states | Shows |
|---|---|---|
| `Groups.cfg` | 168,472 | table, index, leaders, members and invitations agree; Round Robin passes nobody over while the group keeps its members |
| `Inventory.cfg` | 93,382 | bags are sound and stacks within their caps, rows load back, the placer fills room, the ledger balances |
| `Trade.cfg` | 121,241 | accepts stand for what was shown, wallets cover what is offered, locks hold around bags, and the contract is implemented |
| `Durability.cfg` | 389,388 | nothing is saved or in play twice, flags cover every difference, the ledger sums to the rows, a login restores what was left with, less what NO RENT may take |
| `Sessions.cfg` | 36,680 | no body outlives its linger, the NO RENT purge is decided by the real absence and an older stamp spares nobody, accounts come free, the banned leave |
| `Creatures.cfg` | 1,580,033 | a spawn point has one creature or one wait, the dead are forgotten and pay no DoT, pets have owners in the world and none but a returned warder lies by a linkdead one, what walks home is unhurt |
| `Casting.cfg` | 1,298,770 | a timed spell lands once for an unbroken bar, the dead lie still, a corpse refunds once, stats carry what the buffs say |
| `Progress.cfg` | 1,108,360 | no experience that was not earned or refunded twice, a quest pays once, journal and rows keep together |
| `Economy.cfg` | 149,796 | no copper is made or lost and the ledger agrees; a purse pays exactly and is disturbed as little as can be |

Runs that find something, each quoted in PROJECT.json:

| Run | What the code does | What is said of it |
|---|---|---|
| `Inventory_split.cfg` | splitting one bag off a slot whose bag has contents drops them | "Rearrangements inside the holdings … write nothing" and the books balance (`ledger.rs`) |
| `Durability_death.cfg` | a departure drops a corpse that is still owed | "so a passing database error cannot let a death skip its corpse" (`death_sweep.rs`) |
| `Casting_stats.cfg` | a death empties the buffs and leaves their points in the stats until the next login | "Adds the listed deltas … on apply, subtracts on expire" (`buffs.rs`) |

### Disagreements without a run

Places where the code and what is written about it part, seen while modelling:

* A departure keeps the pointer of the rotation, so a member who left before it shifts
  it and the last taker can be named again, while `groups.rs` (212-214) says that the
  next claimed corpse goes to someone else; `TurnsRotate` therefore begins its account
  anew at each departure.
* A bag claimed for a member who then leaves the group has no taker until it expires
  (`tick/looting.rs` 452): the leaver has lost the right, the owner is refused. "Group
  rights are resolved live" (`loot.rs` 110-112).
* After a crash an older `logged_out_at` decides the NO RENT purge (`tick/session.rs`
  604), while "A crash writes nothing, which only ever spares the items" (192-193). So
  `NoRentJudged` asks for the exact absence only of stamped departures; of the others
  it states the half that holds: an older stamp spares nobody who was away, and may
  take items early.
* A link refused because the same character's body lies linkdead speaks for that body
  (`tick/intake.rs` 21): messages are matched by client id, though "its messages are
  ignored" (`tick/session.rs` 429-431).
* A charm that runs out on a body that is dead gives back a living stray of no hp at
  the point (`tick/spawning.rs` 255 asks no `is_alive`); the AI pass kills it again.
* One pet per owner is a rule of `summon_pet_for_owner` that `PET_CHARM` does not
  ask for (`tick/casting.rs` 1577); nor does a linkdead owner's warder's return.
* A pet's target that is gone from the map is kept (`entity.rs` 1185), so a Guard pet
  stays with nobody to fight until it is ordered or struck.
* A heal over time lifts who has fallen to 0 hp in the same tick, before the death
  sweep sees them (`tick/buff_tick.rs` 75); `HotTick` has it so.
* `spend` is said to leave "A deliberate copper hoard … intact by unrelated purchases"
  (`protocol/src/world.rs` 358-360); it spends the lowest tiers first. `SpendSound`
  states what it does: no tier above the lowest that suffices is touched.
* The coin of a bag is said to go to the looter alone "if the group is Free-for-all"
  (`tick/looting.rs` 500-501); the code asks for autosplit only. `LootCoin` follows it.
* "so the record and the XP can never come apart" (`db/mod.rs` 1124-1131): they do
  when a corpse cannot be saved and a checkpoint or a logout comes before the retry.
  The loss is then kept and the refund is not; `XpEarned` holds, since that is never
  in the player's favour.
* `docs/server_design.md` (775) says that inventory "is never lost since every mutation
  is its own transaction", while loot, purchases and bank moves wait for the checkpoint.

### Bounds

* Groups: three players are the fewest for a group that survives a departure and for
  a third party to a pair's invitations; with two ids a dissolved group is followed
  by another with an old invitation pending. One bag at a time suffices for the
  rotation, whose state is the pointer.
* Inventory: two base slots, one bag cell, one worn slot, the hand, a vault slot in
  each vault; two pouches (one can try to enter the other), one helmet, three snacks
  in stacks of two (a full stack, a rest, a merge). Each branch of a move is reached.
  `SplitsFullBags = FALSE` leaves the split of a stacked or full bag out of the
  passing run, since `Inventory_split` shows what it does.
* Trade: two players and a session, in three scenes that the constraint `Scenes` admits:
  one with a coin, a snack and players who come and go, die and return; one with a
  pouch, a second window slot and at most one snack, where both stay; one where a
  player full of snacks may have no room for the other's pouch. What the locks
  need a bag for does not depend on coin, nor on departures, which end a session.
* Durability: a copy or a loss concerns one token, so the constraint `Scenes` has one
  at a time for TLC, which NO RENT may take or may not (`LoginRestores` tells them
  apart), among three characters, two of them of one account; the NO RENT token is
  followed while one of those two stays out. The proofs hold for any number. One
  corpse at a time.
* Sessions: the waits are one to four steps, so that each can end before, with and
  after the others. One character: an account's others only matter to a login, by
  being in the world or being saved, which `Durability` covers (`NoCopyInPlay`).
  `Bannable` restricts who may be banned.
* Creatures: one camp, one player who is a Beast Master (so summoned pets, a warder and
  charmed creatures occur), three ids, two living bodies at a time (`FewAlive`), one
  hit point. A camp and a game master's creature can meet, and a pet each of them;
  what tells hp 1 from more is only whether a blow kills, and every blow may or may not.
* Casting: one caster and one target, who is also a swinger and a corpse's owner; two
  hit points (below full, and none); two buffs or DoTs at a time (`FewBuffs`). A
  behaviour stops where a death leaked points into the stats (`NoLeaks`), which no
  guard reads and `Casting_stats` shows.
* Progress: two players, of whom one takes quests and dies and the other shares the
  kills; three levels of one, two and three points with the floor at the second, so
  that one kill may climb two levels and a death may sink one or be floored; a last
  kill may pass `MaxEarned`. A quest pays one point, a kill two.
* Economy: three tiers, each worth three of the one below, so that change passes
  through a middle tier; a price that is a whole coin and one that is not; ten copper
  in the world. `SpendSound` tries every cost on every purse that is reached.

### Fairness

Only `Sessions.cfg` assumes any. `LoopRuns` says that the loop keeps ticking, that
time passes, and that each of its handlers runs when it is due: the reap of a body
whose linger is over, the disconnect event the transport has queued, the retry of a
pending save, the ban query and its answer, the kick. All of these are polled by every
tick (`tick/mod.rs`), or spawned by one. Nothing is assumed of players or of the
transport delivering anything. Of the database one thing is: a ban query that is
asked for ever is answered now and then (strong fairness of `BanQuery(TRUE)`), since a
ban that can never be read cannot be acted on. No save need ever succeed: `Retry` is
fair in its *failing* form, so that the account is freed by the give-up.

## 4. The proofs

`Durability_proofs.tla` proves, for every set of characters, accounts, tokens and
corpses:

* `TypeCorrect`: `Spec => []TypeOK`
* `SavedOnce`: `Spec => []NoSavedCopy`
* `InPlayOnce`: `Spec => []NoCopyInPlay`
* `FlagsTell`: `Spec => []FlagsCover`
* `LedgerIsRows`: `Spec => []BooksBalance`
* `ReturnsWhole`: `Spec => LoginRestores`, an action property

Assumed of the constants: `AccountOf` gives each character an account, `None` is no
character, `NoRent` is a set of tokens, `Watched` a set of characters.

None of the properties is inductive. That the rows are disjoint says nothing of what
the next flush writes over them, so the invariant `IInv` relates memory to rows:

* `DiskOnce`, `MemOnce`: rows are disjoint, stores are disjoint.
* `MemOwn`: a token in a connection's stores is saved, if at all, in a row of the
  *same* connection. This is the heart of it: a flush writes all dirty stores of a
  connection in one transaction, so its own rows may be stale among themselves but
  are rewritten together, and a crash at any time leaves older rows that no other
  row or player shares. It is why a drop must be saved before the bag is on the
  ground, and why looting, trading and dying flush first.
* `GroundAlone`: what lies on the ground is saved nowhere.
* `CorpseAgrees`: a corpse in memory is what its rows say, and rows of no corpse are
  empty.
* `OneConnection`: one active character per account, so that the shared vault has one
  copy in memory.
* `Flags`: an unflagged store equals its row, an offline character has neither
  stores nor flags. `Flushed` needs it: a flush that skips unflagged stores still
  leaves every row as memory has it.
* `Down`: a stopped world has nothing in memory.

`BooksBalance` is about saved state only, but what a flush posts was queued by handlers
long before, so `BInv` adds `Tallied`: token by token, the queue of a connection is what
its memory has less what its *own rows* have. `Booked` says the ledger of an account is
1 for a token some row of it holds and 0 otherwise, which is the sum the property counts
because the rows are disjoint. A step is then judged by the connections whose rows it
writes (`BooksStep`): each is credited what its rows gained or lost and is left with an
empty queue, the rest of the account's rows are not touched (`HoldingsSplit`), and no
second connection shares them (`OneConnection`). A trade, a corpse and a loot write on
top of a flush (`WrittenBooks`): the rows they add to the ledger must be exactly what
the memory changes in the same step.

`LoginRestores` needs `Remembered`: while a save is pending the memory kept is what the
player left with, and once they are gone their personal rows are, which no other
connection's flush and no corpse writes (`PersonalRows`).

The lemmas come in three layers: rows (`RowFacts`, `MineOnce`), what a rewrite of the
rows of some connections keeps (`Flushed`, `RewriteSound`, `PutSound`, `LessSound`),
and one lemma per action, several of them through `SavedOrGone` (flushed or dropped),
`SavedInv` (flushed and staying), `StirAndFlushInv` and `WrittenInv` (written
together with a corpse or a partner).

`Groups_proofs.tla`, for every set of players and bags and any number of groups:

* `TypeCorrect`: `Spec => []TypeOK`
* `RostersAreSound`: `Spec => []RosterSound`
* `TurnsGoRound`: `Spec => []TurnsRotate`

`RosterSound` is inductive with the types: it says of the index and the lists that
they agree in both directions, which is what a departure needs to take the player out
of both. The lemmas are about the code's two edits of a list (`AppendFacts`,
`WithoutFacts`), the scan of the rotation (`ScanEnds`, which needs that a set of
naturals has a least element) and a step that leaves the list alone (`SameRoster`).

`TurnsRotate` needs to know what the pointer means. `Rotated` says it: from the pointer
on, everybody who was passed over since a member's last turn comes before that member
(`Ahead`), and while anybody is owed a turn the pointer is a position of the list. A turn
puts its taker behind all others (`TurnRotates`); nobody near can come before the one the
scan ends at (`ScanFirst`), so the taker was owed nothing by those near. A newcomer joins
at the end and shifts no position; a departure does, which is why the history forgets the
turns of the group then: the code keeps the pointer and may pass one member over.

`Casting_proofs.tla`, for every set of players, casters and corpses and any `Full`:

* `TypeCorrect`: `Spec => []TypeOK`
* `LandedEarned`: `Spec => []CastEarned`
* `DeadStayDead`: `Spec => []DeadAreStill`
* `RefundsOnce`: `Spec => []RefundedOnce`
* `StatsAreAccounted`: `Spec => StatsAccounted`, an action property

The invariant adds what the code relies on and nowhere writes down: a stat buff that
is on has its deltas in the stats (`DeltasIn`, so that undoing them never goes below
zero), a bar that runs was begun and a request that may still land was asked with it
(`BarsBegun`), no request outlives the casts of its tick (`AskedInTime`, so the list
of who was struck may be emptied), and a corpse was refunded iff it is raised
(`RefundsTold`).

`Progress_proofs.tla`, for every finite set of players and corpses, every set of quests
and every table of levels and rewards:

* `TypesHold`: `Spec => []TypeOK`
* `PaidOnceAlways`: `Spec => []QuestPaidOnce`
* `JournalKept`: `Spec => []JournalSaved`
* `ExperienceIsEarned`: `Spec => []XpEarned`

The two about quests follow from one relation between a character and its row
(`Sound`): they agree on which quests were completed and paid at *every* step
(`Agrees`), so whatever copy a checkpoint, a corpse, a resurrection or a late logout
writes is the right one; and a character is in the world or waits for its last save,
never both.

`XpEarned` has two halves. That `resolve` lands where `Reference` says
(`ResolveRefers`) is a statement about two loops: a loop is followed turn by turn
(`ClimbTurn`, `SinkTurn`) to an end that exists and is the only one (`ClimbIs`,
`SinkIs`), which is the total held within its bounds. The other half is carried by `XInv`: what
resurrections may still give back is counted on the corpses' *rows*, which is what a
crash returns to, together with the corpse a death has still to make (`Falling`), and
the character in the world, the one that waits for its last save and the row are each
covered by what they earned. A death takes at least what it may give back
(`PenalizedType`); that is where `LossesType` is needed: a resurrection gives back at
most the whole loss (the spells in `spells.toml`: 75 of 100) and a death takes no more
than the band below is long (5 of 100 of a band that grows with the cube of the level),
so that nobody sinks two levels at once and is refunded both.

`Sessions_proofs.tla`, for every set of characters and accounts and any waits:

* `TypeCorrect`: `Spec => []TypeOK`
* `LingersKept`: `Spec => []LingerKept`
* `RentIsJudged`: `Spec => NoRentJudged`, an action property

`StampsTell` is the strengthening: the age of a stamp is the absence it tells of from
the step that writes it, or more if it is an older one, and nobody with a body is absent. The run's specification is
`Spec` with fairness, so the theorems hold of it too.

`Creatures_proofs.tla`, for every set of players, masters and spawn points, any finite
set of bodies and any `Full`:

* `TypesHold`: `Spec => []TypeOK`
* `EveryPointAccounted`: `Spec => []PointsAccounted`
* `TheDeadAreForgotten`: `Spec => []DeadForgotten`
* `PetsAreOwned`: `Spec => []PetsHaveOwners`
* `NoEvaderIsHurt`: `Spec => EvadersUnhurt`, an action property

All of them hold in every pass of a tick. The invariant adds who holds a camp's point
when a pet goes (`Tied`), whom a body is bound to, its owner and the casters of its DoTs
(`Bound`), and what a blow that is queued may still assume of both its ends when it lands
(`Queued`). The parts are
predicates of the table of creatures, so a lemma per way of editing it (a body added,
taken out, reshaped in place, all of a player's pets given back) serves every action
that edits it so. A pass moves every creature *together*, which the model writes as a
fold over the bodies; that a fold is defined and what it yields (`FoldExists`,
`TogetherDoes`) is shown by smallest counterexample: a set of naturals has a least
element, so a property of folds that failed would fail first at some set, all of whose
subsets obey it.

`Inventory_proofs.tla`, for every set of slots, cells, vaults and items, every table of
stack sizes and wearable items and any bound on what is granted:

* `TypesHold`: `Spec => []TypeOK`
* `StoresKeepShape`: `Spec => []StoresSound`
* `SaveLosesNothing`: `Spec => []SavedWhole`
* `PlacerWastesNothing`: `Spec => []PlacerFillsRoom`
* `LedgerIsHoldings`: `Spec => []BooksBalance`, assuming `SplitsFullBags = FALSE`

The inductive invariant is `Stocked`: the inventory is `Sound` (every stack within its
cap, a bag's contents only where a bag is, no bag in a bag, what is worn fits), each
stack of a vault or a corpse is within its cap, and the corpse's rows are typed and
finite. The caps are part of `StoresSound`, not of the types.
`SavedWhole` and `PlacerFillsRoom` follow from it in any one state; `BooksBalance` is
carried along with it. Its theorem assumes that clients do not ask to split a bag that
holds something: that is the case in which the code does lose items, and the run
`inventory_split` shows it. The other constants need no more than their `ASSUME`s;
`GoneAreNoBags` is what `items.toml` has: the one bag there is neither NO RENT nor
eaten.

An inventory is counted by a sum over its cells and filled by folds over its slots, so
these proofs first derive, from the definitions of the folds, what they yield. The
library's induction theorems cannot be used (they take an operator), but its least
element of a set of naturals can: a statement about all finite sets that failed would
fail at a smallest one, all of whose subsets obey it. From that come `FoldExists`, the
sum of one cell more, of two disjoint parts and of a permuted table, and runs over a
list (`RunKeeps`), once each. The rest has one lemma per edit of the table: a slot
replaced (`PutSound`, `TotalPut`), two replaced (`PairSound`, `TotalTwo`), the bags
made to follow (`EnsureSound`), the contents of two hosts exchanged; a lemma per
operation of `InventoryOps`, and one per action of `Inventory` for the shape and one
for the count. The placer's lemma says that after a pass over all usable slots either
nothing is left over or no slot has room (`TopUpStep`, `ClaimStep`).

The second half of `Inventory_proofs.tla` is about `Trade`, for any finite set of players
and session ids (half as many as players suffice, `FreeId`), any window and any amounts
of coin:

* `TradeTypes`: `TradeSpec => []TradeTypeOK`
* `TradesAreSound`: `TradeSpec => []SessionsSound`
* `OffersStayPut`: `TradeSpec => LockHolds`, an action property
* `TradeImplementsContract`: `TradeSpec => ImplementsContract`

The inductive invariant `TradeSound` is that every inventory is `Sound` and every window
agrees with the index and with what was shown (`WindowsSound`). It adds to
`SessionsSound` what the commit needs: an offer names a stack, in a slot that can be
offered at all. A step of the windows either takes both accepts back (`Reset`), closes
the session, opens one, or accepts (`AcceptRedraws`); each has one lemma for the
invariant and one for the agreements (`RedrawnDeals`, `CloseDeals`).

The escrow rests on two facts about the operations of `InventoryOps`: a move or a
removal leaves every cell alone that is neither at its ends nor in a bag on one of them
(`MoveElsewhere`, `DestroyElsewhere`), which is exactly what the three cases of
`is_locked` keep apart (`UnlockedApart`), and the placer only adds (`Grown`).

That the commit is the swap is a statement about two loops. While the stacks given are
taken off one by one, those still to go are where they were (`TakenAllSound`, which
needs that no slot is offered twice and that an offered bag is empty); while the stacks
got are placed, the totals grow by each of them as long as nothing was left over
(`GrantedAllSound`). The sums of a side's first `k` offers (`PartSums`) join the two,
and the accept that stands says that what was shown is what the sides hold
(`CommitSwaps`). Each other step maps to one party's own business, to an agreement, to
agreements that end, or to nothing (`StepAdvances`).

`Economy_proofs.tla`, for every number of characters and bags, every table of tiers of
which each is worth so many whole coins of the one below, and every price and amount:

* `CoinBalances`: `Spec => []BooksBalance`
* `TypeCorrect`: `Spec => []TypeOK`
* `SpendsExactly`: `Spec => []SpendSound`
* `PaysAnyCost`: every purse pays every cost exactly or not at all, with the change of
  at most one broken coin, whether the game reaches that purse or not

The run tries `Spend` on the purses it reaches; the proof walks its loop. `Paying` is
what holds when the tiers up to `i` have paid: what is owed is the cost less what those
tiers were worth, the purse is worth less by what was paid, nothing above `i` was
touched, the tiers below hold nothing while something is owed, and once nothing is, one
tier paid the last of it and below it lies less than one of its coins. A tier that gives
all it has and one that breaks a coin (`TierGives`, `TierBreaks`) keep it, so of a cost
the purse is worth nothing is owed at the end: the code's last resort, changing the
whole purse into the fewest coins, is never reached. That the fewest coins of an amount
are worth it (`FromCopper`) telescopes over the tiers, and that an exchange loses
nothing (`RestWhole`) is where the tiers must divide each other.

The books then are one lemma per action: what it does to one character's purses, rows
and corpse, or to one bag, against what it issues (`OnlyAtInv`, `BagInv`). Only a split
changes many characters at once; there the shares must add up to the pot
(`SharesAre`). That no row total and no issue falls below naught is no action's doing:
it follows from the books, so the invariant has them as integers.

Assumed of the constants of these modules is what their `ASSUME`s say: `None` is none
of the values it stands beside, subsets are subsets, the sets that are summed over are
finite, waits, `Full` and `MaxGroups` are naturals, and the slots of a trade window are
numbers, which gives the code's loop over them its order. TLC evaluates each of them in
the runs. Every invariant, action property and refinement a passing run checks is the
property of a theorem.

Model-checked only: liveness (`AccountFrees`, `BannedLeave`), which with fairness is
beyond this prover, and, as their violations, the claims of the three runs that fail.

## 5. Not modelled, and why

* Authentication (`auth/mod.rs`): login, tokens, the attempt limiter and character
  creation stand before the world. What the world relies on are guards of `Login` and
  `Connect`.
* The random and numeric parts of combat, loot tables, terrain, movement, the
  visibility grid and regeneration: formulas over floats, tested where they are. Where
  a model needs their outcome it takes any.
* Skills, hunger, factions, alignment and encumbrance: arithmetic on one character's
  numbers.
* Of casting: mana, gems, cooldowns and ranges (they only refuse), summoned items,
  binds, and the flags of buffs other than stats, heals and damage. A game master's
  commands on himself; his `DeathBroadcast` kills without clearing song or hate and is
  not modelled.
* Of the economy: who a merchant serves, and saturation at the limits of an `i64`.
* The daily fold of the ledger's rows (`ledger.rs`).
* Wire formats, the client binding and the command line tools: no behaviour of their
  own. Message validation in `handlers.rs` beyond the gates other components rely on.
* A database that loses a committed transaction, or two server processes on one
  database: the code guards against neither and nothing in it relies on either.

## 6. Plan

What a continuation would take up, in this order:

1. `Auth`: login, session tokens, the attempt limiter, ban and password reset,
   with a session that outlives a ban.
2. `LedgerFold`: the daily fold against the mismatch report.
3. `Interest`: the visibility grid against a reference definition.
