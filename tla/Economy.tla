------------------------------- MODULE Economy -------------------------------
(***************************************************************************)
(* Coin: the purse of protocol/src/world.rs (Coins) and what creates,      *)
(* moves and destroys coin in the world: tick/vendors.rs, the coin half of *)
(* tick/banking.rs, the coin of kills and bags (tick/kills.rs, loot.rs,    *)
(* tick/looting.rs), of corpses (tick/death_sweep.rs) and of a game master *)
(* (handlers.rs).  Trades are in Trade, rows and crashes in Durability.    *)
(*                                                                         *)
(* A purse holds so many coins of each tier, lowest first; amounts are in  *)
(* copper.  There is one kind of goods.  Reach, factions and what may not  *)
(* be sold are left out: they only refuse.  Amounts stay far below the     *)
(* limits of an i64, where the code saturates.                             *)
(***************************************************************************)
EXTENDS Integers, FiniteSets, Sequences, FiniteSetsExt, Functions

CONSTANTS
  Players,
  Bankers, Mortals,    \* bound: who uses the bank, who dies
  BagIds,              \* bound: the bags with coin at a time
  TIER_VALUE,          \* copper in a coin of each tier
  VendorPrice,
  Room,                \* the goods there is room for
  MaxAsk,              \* bound: the goods asked for at a time
  Pots,                \* roll_coin_for_mob: what a kill may drop
  Amounts,             \* bound: what is asked of the bank
  Grants,              \* bound: what a game master adds or takes
  MaxIssued            \* bound: the coin in the world, in copper

Tiers == DOMAIN TIER_VALUE

ASSUME BoundsType ==
  /\ IsFiniteSet(Players) /\ IsFiniteSet(BagIds) /\ MaxIssued \in Nat
  /\ Bankers \subseteq Players /\ Mortals \subseteq Players
ASSUME ValuesType ==
  /\ TIER_VALUE \in Seq(Nat \ {0}) /\ TIER_VALUE # <<>> /\ TIER_VALUE[1] = 1
  /\ \A i \in Tiers : i + 1 \in Tiers =>
       TIER_VALUE[i] < TIER_VALUE[i + 1] /\ TIER_VALUE[i + 1] % TIER_VALUE[i] = 0
ASSUME PricesType == VendorPrice \in Nat \ {0} /\ Room \in Nat /\ Pots \subseteq Nat \ {0}
ASSUME AmountsType == \A w \in Amounts : w \in [Tiers -> Nat] /\ \E i \in Tiers : w[i] > 0
ASSUME GrantsType == \A g \in Grants : g \in [Tiers -> Int]

VARIABLES
  coins,       \* the wallets
  bank_coins,  \* the bank balances
  goods,       \* how many of the goods a character carries
  autosplit,   \* whether a looter's coin is split with the near group
  bags,        \* the coin in the bags of the world, in copper
  corpse,      \* the coin on a character's corpse
  ledger,      \* the copper of a character's ledger rows, added up
  issued       \* the copper that came into the world less what left it

vars == <<coins, bank_coins, goods, autosplit, bags, corpse, ledger, issued>>

-----------------------------------------------------------------------------
(* Purses *)

Purse == [Tiers -> Nat]
ZERO == [i \in Tiers |-> 0]

\* What the lowest tiers, up to i, are worth.
Upto(w, i) ==
  LET sum[j \in 0 .. Len(TIER_VALUE)] ==
        IF j = 0 THEN 0 ELSE sum[j - 1] + w[j] * TIER_VALUE[j]
  IN sum[i]

\* total_copper
Worth(w) == Upto(w, Len(TIER_VALUE))

\* The coins of tier i in the fewest coins worth n.
Fewest(n, i) ==
  IF i + 1 \in Tiers THEN (n % TIER_VALUE[i + 1]) \div TIER_VALUE[i] ELSE n \div TIER_VALUE[i]

from_copper(n) == [i \in Tiers |-> Fewest(n, i)]

add_each(v, w) == [i \in Tiers |-> v[i] + w[i]]
add_payout(w, n) == add_each(w, from_copper(n))

\* A tier pays whole coins towards what is owed; when that leaves less than a
\* coin of it and there is one more, it is broken and the change goes down.
PayFrom(paying, i) ==
  LET coin == paying.owed \div TIER_VALUE[i]
      whole == IF coin < paying.purse[i] THEN coin ELSE paying.purse[i]
      owed == paying.owed - whole * TIER_VALUE[i]
      held == paying.purse[i] - whole
      change == TIER_VALUE[i] - owed
  IN IF owed > 0 /\ owed < TIER_VALUE[i] /\ held > 0
     THEN [owed |-> 0,
           purse |-> [j \in Tiers |-> IF j = i THEN held - 1
                                      ELSE IF j < i THEN paying.purse[j] + Fewest(change, j)
                                      ELSE paying.purse[j]]]
     ELSE [owed |-> owed, purse |-> [paying.purse EXCEPT ![i] = held]]

\* Fault: the whole purse is changed into the fewest coins.
SpendReduced(w, cost) ==
  IF cost > Worth(w) THEN [paid |-> FALSE, purse |-> w]
  ELSE [paid |-> TRUE, purse |-> from_copper(Worth(w) - cost)]

\* spend: the low tiers first.
Spend(w, cost) ==
  IF cost > Worth(w) THEN [paid |-> FALSE, purse |-> w]
  ELSE LET pay[i \in 0 .. Len(TIER_VALUE)] ==
             IF i = 0 THEN [owed |-> cost, purse |-> w] ELSE PayFrom(pay[i - 1], i)
           end == pay[Len(TIER_VALUE)]
       IN [paid |-> TRUE,
           purse |-> IF end.owed > 0 THEN from_copper(Worth(w) - cost) ELSE end.purse]

\* Fault: what does not make a coin of the other tier is lost.
ExchangedAll(w, from, to, n) ==
  LET made == (n * TIER_VALUE[from]) \div TIER_VALUE[to]
  IN [w EXCEPT ![from] = @ - n, ![to] = @ + made]

\* exchange, once it is granted: what does not make a coin stays.
Exchanged(w, from, to, n) ==
  LET value == n * TIER_VALUE[from]
      made == value \div TIER_VALUE[to]
      rest == (value % TIER_VALUE[to]) \div TIER_VALUE[from]
  IN [w EXCEPT ![from] = @ - (n - rest), ![to] = @ + made]

-----------------------------------------------------------------------------
(* State *)

TypeOK ==
  /\ coins \in [Players -> Purse] /\ bank_coins \in [Players -> Purse]
  /\ goods \in [Players -> 0 .. Room]
  /\ autosplit \in [Players -> BOOLEAN]
  /\ bags \in [BagIds -> Nat]
  /\ corpse \in [Players -> Purse]
  /\ ledger \in [Players -> Nat] /\ issued \in 0 .. MaxIssued

\* Characters come into the world with what their rows held; here with none.
Init ==
  /\ coins = [p \in Players |-> ZERO] /\ bank_coins = [p \in Players |-> ZERO]
  /\ goods = [p \in Players |-> 0]
  /\ autosplit = [p \in Players |-> TRUE]
  /\ bags = [b \in BagIds |-> 0] /\ corpse = [p \in Players |-> ZERO]
  /\ ledger = [p \in Players |-> 0] /\ issued = 0

-----------------------------------------------------------------------------
(* Merchants *)

\* All that was asked for must be affordable; what there is room for is given
\* and charged.
Buy(p) ==
  \E qty \in 1 .. MaxAsk :
    LET placed == Min({qty, Room - goods[p]})
        cost == VendorPrice * placed
    IN /\ VendorPrice * qty <= Worth(coins[p])
       /\ placed > 0
       /\ goods' = [goods EXCEPT ![p] = @ + placed]
       /\ coins' = [coins EXCEPT ![p] = Spend(@, cost).purse]
       /\ ledger' = [ledger EXCEPT ![p] = @ - cost]
       /\ issued' = issued - cost
       /\ UNCHANGED <<bank_coins, autosplit, bags, corpse>>

\* At half the price, as many as there are.
Sell(p) ==
  \E qty \in 1 .. MaxAsk :
    LET sold == Min({qty, goods[p]})
        credit == (VendorPrice \div 2) * sold
    IN /\ VendorPrice \div 2 > 0 /\ sold > 0
       /\ issued + credit <= MaxIssued
       /\ goods' = [goods EXCEPT ![p] = @ - sold]
       /\ coins' = [coins EXCEPT ![p] = add_payout(@, credit)]
       /\ ledger' = [ledger EXCEPT ![p] = @ + credit]
       /\ issued' = issued + credit
       /\ UNCHANGED <<bank_coins, autosplit, bags, corpse>>

\* Goods found in the world.
Find(p) ==
  /\ goods[p] < Room
  /\ goods' = [goods EXCEPT ![p] = @ + 1]
  /\ UNCHANGED <<coins, bank_coins, autosplit, bags, corpse, ledger, issued>>

-----------------------------------------------------------------------------
(* The bank: an amount is named in coins and paid by its value. *)

Deposit(p) ==
  /\ p \in Bankers
  /\ \E want \in Amounts :
       LET paid == Spend(coins[p], Worth(want)) IN
       /\ paid.paid
       /\ coins' = [coins EXCEPT ![p] = paid.purse]
       /\ bank_coins' = [bank_coins EXCEPT ![p] = add_each(@, want)]
  /\ UNCHANGED <<goods, autosplit, bags, corpse, ledger, issued>>

Withdraw(p) ==
  /\ p \in Bankers
  /\ \E want \in Amounts :
       LET paid == Spend(bank_coins[p], Worth(want)) IN
       /\ paid.paid
       /\ bank_coins' = [bank_coins EXCEPT ![p] = paid.purse]
       /\ coins' = [coins EXCEPT ![p] = add_each(@, want)]
  /\ UNCHANGED <<goods, autosplit, bags, corpse, ledger, issued>>

\* Refused when it would not make one coin.
Exchange(p) ==
  /\ p \in Bankers
  /\ \E from, to \in Tiers :
       /\ from # to
       /\ \E qty \in 1 .. coins[p][from] :
            /\ qty * TIER_VALUE[from] >= TIER_VALUE[to]
            /\ coins' = [coins EXCEPT ![p] = Exchanged(@, from, to, qty)]
  /\ UNCHANGED <<bank_coins, goods, autosplit, bags, corpse, ledger, issued>>

-----------------------------------------------------------------------------
(* Coin in the world *)

SetAutosplit(p) ==
  /\ autosplit' = [autosplit EXCEPT ![p] = ~@]
  /\ UNCHANGED <<coins, bank_coins, goods, bags, corpse, ledger, issued>>

\* A creature dies and leaves a bag.
Drop(b) ==
  /\ bags[b] = 0
  /\ \E pot \in Pots :
       /\ issued + pot <= MaxIssued
       /\ bags' = [bags EXCEPT ![b] = pot] /\ issued' = issued + pot
  /\ UNCHANGED <<coins, bank_coins, goods, autosplit, corpse, ledger>>

\* Each of the near group has a share, the looter the rest as well.
Share(pot, sharers, looter, m) ==
  LET base == pot \div Cardinality(sharers) IN
  IF m \notin sharers THEN 0
  ELSE IF m = looter THEN pot - base * (Cardinality(sharers) - 1) ELSE base

\* The first click of one who may loot (Groups) pays the coin out: to the
\* looter, or with autosplit to the group's members near the bag, the looter
\* among them.
LootCoin(p, b) ==
  /\ bags[b] > 0
  /\ \E sharers \in SUBSET Players :
       /\ p \in sharers /\ (~autosplit[p] => sharers = {p})
       /\ LET due(m) == Share(bags[b], sharers, p, m) IN
          /\ coins' = [m \in Players |-> add_payout(coins[m], due(m))]
          /\ ledger' = [m \in Players |-> ledger[m] + due(m)]
  /\ bags' = [bags EXCEPT ![b] = 0]
  /\ UNCHANGED <<bank_coins, goods, autosplit, corpse, issued>>

ExpireBag(b) ==
  /\ bags[b] > 0
  /\ bags' = [bags EXCEPT ![b] = 0] /\ issued' = issued - bags[b]
  /\ UNCHANGED <<coins, bank_coins, goods, autosplit, corpse, ledger>>

\* A corpse takes the wallet, tier by tier, and gives it back so.  A character
\* may leave several; here they lie on one heap.
MakeCorpse(p) ==
  /\ p \in Mortals
  /\ corpse' = [corpse EXCEPT ![p] = add_each(@, coins[p])]
  /\ coins' = [coins EXCEPT ![p] = ZERO]
  /\ ledger' = [ledger EXCEPT ![p] = @ - Worth(coins[p])]
  /\ UNCHANGED <<bank_coins, goods, autosplit, bags, issued>>

LootCorpse(p) ==
  /\ corpse[p] # ZERO
  /\ coins' = [coins EXCEPT ![p] = add_each(@, corpse[p])]
  /\ corpse' = [corpse EXCEPT ![p] = ZERO]
  /\ ledger' = [ledger EXCEPT ![p] = @ + Worth(corpse[p])]
  /\ UNCHANGED <<bank_coins, goods, autosplit, bags, issued>>

DecayCorpse(p) ==
  /\ corpse[p] # ZERO
  /\ corpse' = [corpse EXCEPT ![p] = ZERO] /\ issued' = issued - Worth(corpse[p])
  /\ UNCHANGED <<coins, bank_coins, goods, autosplit, bags, ledger>>

\* Fault: a tier goes below none.
GrantedOwing(w, g) == add_each(w, g)

Granted(w, g) == [i \in Tiers |-> Max({0, w[i] + g[i]})]

\* Tier by tier, not below none; the ledger has what it came to.
GiveCoins(p) ==
  \E g \in Grants :
    LET after == Granted(coins[p], g)
        gained == Worth(after) - Worth(coins[p])
    IN /\ issued + gained <= MaxIssued
       /\ coins' = [coins EXCEPT ![p] = after]
       /\ ledger' = [ledger EXCEPT ![p] = @ + gained]
       /\ issued' = issued + gained
       /\ UNCHANGED <<bank_coins, goods, autosplit, bags, corpse>>

-----------------------------------------------------------------------------
Next ==
  \/ \E p \in Players :
       \/ Buy(p) \/ Sell(p) \/ Find(p)
       \/ Deposit(p) \/ Withdraw(p) \/ Exchange(p)
       \/ SetAutosplit(p) \/ GiveCoins(p)
       \/ MakeCorpse(p) \/ LootCorpse(p) \/ DecayCorpse(p)
  \/ \E b \in BagIds : Drop(b) \/ ExpireBag(b)
  \/ \E p \in Players, b \in BagIds : LootCoin(p, b)

Spec == Init /\ [][Next]_vars

-----------------------------------------------------------------------------
(* Properties *)

\* No coin is made or lost by breaking, changing, splitting or moving it: what
\* a character owns is what its ledger rows add up to, and all that is in the
\* world is what merchants, creatures and game masters put into it.
BooksBalance ==
  /\ \A p \in Players : Worth(coins[p]) + Worth(bank_coins[p]) = ledger[p]
  /\ SumFunction([p \in Players |-> ledger[p] + Worth(corpse[p])]) + SumFunction(bags) = issued

\* A purse pays exactly what is asked or nothing, disturbed as little as it can
\* be: the tiers above the lowest that suffice are untouched, and of those
\* below only the change of one broken coin is left.
PaysExactly(w, cost) ==
  LET after == Spend(w, cost)
      enough == {i \in Tiers : Upto(w, i) >= cost}
  IN IF enough = {} THEN ~after.paid /\ after.purse = w
     ELSE LET k == Min(enough) IN
       /\ after.paid /\ after.purse \in Purse
       /\ Worth(after.purse) = Worth(w) - cost
       /\ \A i \in Tiers : i > k => after.purse[i] = w[i]
       /\ cost > 0 => Upto(after.purse, k - 1) < TIER_VALUE[k]

SpendSound ==
  \A p \in Players : \A w \in {coins[p], bank_coins[p]} :
    \A cost \in 0 .. MaxIssued + 1 : PaysExactly(w, cost)

=============================================================================
