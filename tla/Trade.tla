-------------------------------- MODULE Trade --------------------------------
(***************************************************************************)
(* Player trading: world/trade.rs (TradeManager) and the trade intents,    *)
(* the commit and the sweep of world/tick/trading.rs, beside everything    *)
(* else that may happen to the two inventories while a trade is open.      *)
(*                                                                         *)
(* An offer is a reference into the owner's inventory with the stack the   *)
(* partner was shown; nothing leaves the inventory until the commit.  The  *)
(* owner's own intents respect the lock of an offered slot; the placer     *)
(* (loot, purchases, grants), death and a relogin do not.                  *)
(*                                                                         *)
(* One coin tier stands for the four, which the code treats alike.         *)
(***************************************************************************)
EXTENDS InventoryOps

CONSTANTS
  Players,
  None,
  Window,       \* the slots of a trade window, TRADE_SLOTS of them
  SessionIds,   \* enough ids for every session that can be open at once
  MaxCoins,     \* coin in the world at the start, per player
  MaxInWorld,   \* bound: how many of an item are in the world
  Mortals       \* bound: the players who walk, die, leave and come back

ASSUME NoneIsNothing == None \notin Players /\ None \notin SessionIds
ASSUME MaxCoinsNat == MaxCoins \in Nat
ASSUME MortalsArePlayers == Mortals \subseteq Players
ASSUME EnoughIds ==
  /\ IsFiniteSet(Players) /\ IsFiniteSet(SessionIds)
  /\ 2 * Cardinality(SessionIds) >= Cardinality(Players)
ASSUME WindowSlots == Window \subseteq Nat /\ IsFiniteSet(Window)

VARIABLES
  invs,       \* PerConnection::inventory of each player
  coins,      \* PerConnection::coins
  life,       \* alive; dying: hp 0 and not yet swept; dead; gone
  near,       \* players at the meeting place, within TRADE_RANGE there
  sessions,   \* TradeManager::sessions, None for an unused id
  byCid,      \* TradeManager::by_cid
  seen        \* history: what a player was shown when they accepted

windowVars == <<sessions, byCid, seen>>
tradeVars == <<invs, coins, life, near, windowVars>>

-----------------------------------------------------------------------------
Offers == [slot : Slots, stack : Stacks]
Side == [cid : Players, offers : [Window -> Offers \cup {None}],
         coins : Nat, accepted : BOOLEAN]
Session == [a : Side, b : Side]

ASSUME NoneIsNoRecord == None \notin Offers /\ None \notin Session

NewSide(p) == [cid |-> p, offers |-> [w \in Window |-> None],
               coins |-> 0, accepted |-> FALSE]

InSession(p) == byCid[p] # None
SessionOf(p) == sessions[byCid[p]]
Own(p) == IF SessionOf(p).a.cid = p THEN "a" ELSE "b"
Other(p) == IF SessionOf(p).a.cid = p THEN "b" ELSE "a"
SideOf(p) == SessionOf(p)[Own(p)]
Partner(p) == SessionOf(p)[Other(p)].cid

\* What the partner is shown of a side (trade_side_payload): the stacks in
\* the window and the coin.
Payload(side) ==
  [stacks |-> [w \in Window |-> IF side.offers[w] = None THEN Empty
                                ELSE side.offers[w].stack],
   coins |-> side.coins]

OfferedSlots(p) ==
  {SideOf(p).offers[w].slot : w \in {v \in Window : SideOf(p).offers[v] # None}}

TradeTypeOK ==
  /\ invs \in [Players -> [cells : [Slots -> Stacks], bags : SUBSET Keys]]
  /\ coins \in [Players -> Nat]
  /\ life \in [Players -> {"alive", "dying", "dead", "gone"}]
  /\ near \subseteq Players
  /\ sessions \in [SessionIds -> Session \cup {None}]
  /\ byCid \in [Players -> SessionIds \cup {None}]

TradeInit ==
  /\ invs = [p \in Players |-> NoInventory]
  /\ \E n \in {0, MaxCoins} : coins = [p \in Players |-> n]
  /\ life = [p \in Players |-> "alive"]
  /\ near = Players
  /\ sessions = [id \in SessionIds |-> None]
  /\ byCid = [p \in Players |-> None]
  /\ seen = [p \in Players |-> None]

-----------------------------------------------------------------------------
(* The trade manager *)

\* Fault: only the slot itself is locked, not the bag around it or in it.
LockedSlot(p, slot) == InSession(p) /\ slot \in OfferedSlots(p)

\* is_locked: the offered slot itself, the base slot of the bag an offered
\* cell is in, and the cells of an offered bag.
Locked(p, slot) ==
  /\ InSession(p)
  /\ \E o \in OfferedSlots(p) :
       \/ o = slot
       \/ Kind(slot) = "base" /\ Kind(o) = "bag" /\ o[2] = slot[2]
       \/ Kind(slot) = "bag" /\ Kind(o) = "base" /\ o[2] = slot[2]

\* Fault: the accepts stand.
ChangeSideOnly(p, side) ==
  /\ sessions' = [sessions EXCEPT ![byCid[p]] = [@ EXCEPT ![Own(p)] = side]]
  /\ UNCHANGED seen

\* A change of p's side takes back both accepts.
ChangeSide(p, side) ==
  /\ sessions' = [sessions EXCEPT ![byCid[p]] =
       [[@ EXCEPT ![Own(p)] = side] EXCEPT !.a.accepted = FALSE, !.b.accepted = FALSE]]
  /\ seen' = [seen EXCEPT ![p] = None, ![Partner(p)] = None]

\* close: both parties leave the index with the session.
Close(p) ==
  /\ sessions' = [sessions EXCEPT ![byCid[p]] = None]
  /\ byCid' = [byCid EXCEPT ![p] = None, ![Partner(p)] = None]
  /\ seen' = [seen EXCEPT ![p] = None, ![Partner(p)] = None]

\* clear_accepts_of
ClearAccepts(p) ==
  /\ sessions' = [sessions EXCEPT ![byCid[p]].a.accepted = FALSE,
                                  ![byCid[p]].b.accepted = FALSE]
  /\ seen' = [seen EXCEPT ![p] = None, ![Partner(p)] = None]

\* Both connected, in the world, not dead, within reach.
Together(p, q) == life[p] = "alive" /\ life[q] = "alive" /\ {p, q} \subseteq near

\* Messages of the dead are refused at the drain, which is before this
\* tick's combat: a player at 0 hp may still act.
Acts(p) == life[p] \in {"alive", "dying"}

-----------------------------------------------------------------------------
(* The intents of apply_trade_intents *)

Request(p, q) ==
  /\ Acts(p) /\ life[q] = "alive"
  /\ {p, q} \subseteq near
  /\ p # q /\ ~ InSession(p) /\ ~ InSession(q)
  /\ LET id == CHOOSE i \in SessionIds : sessions[i] = None
     IN  /\ sessions' = [sessions EXCEPT ![id] = [a |-> NewSide(p), b |-> NewSide(q)]]
         /\ byCid' = [byCid EXCEPT ![p] = id, ![q] = id]
  /\ UNCHANGED <<invs, coins, life, near, seen>>

\* An offer is refused for a bag with something in it, a slot that is offered
\* already, and a window slot that is taken.
Refused(p, w, parked, slot) ==
  \/ Kind(slot) = "base" /\ BagNonempty(parked, slot[2])
  \/ slot \in OfferedSlots(p)
  \/ SideOf(p).offers[w] # None

\* A held stack is parked first and stays parked if the offer is then refused.
OfferItem(p, w, from) ==
  /\ Acts(p) /\ InSession(p)
  /\ from \in Reachable /\ Exists(invs[p], from)
  /\ Peek(invs[p], from) # Empty /\ Peek(invs[p], from).item \notin NoDrop
  /\ from = Cursor => CanPark(invs[p])
  /\ LET slot == IF from = Cursor THEN ParkSlot(invs[p]) ELSE from
         parked == IF from = Cursor THEN Park(invs[p]) ELSE invs[p]
         offer == [slot |-> slot, stack |-> Peek(parked, slot)]
     IN  /\ invs' = [invs EXCEPT ![p] = parked]
         /\ IF Refused(p, w, parked, slot)
            THEN UNCHANGED <<sessions, seen>>
            ELSE ChangeSide(p, [SideOf(p) EXCEPT !.offers[w] = offer])
  /\ UNCHANGED <<coins, life, near, byCid>>

RetrieveItem(p, w) ==
  /\ Acts(p) /\ InSession(p) /\ SideOf(p).offers[w] # None
  /\ ChangeSide(p, [SideOf(p) EXCEPT !.offers[w] = None])
  /\ UNCHANGED <<invs, coins, life, near, byCid>>

OfferCoins(p, n) ==
  /\ Acts(p) /\ InSession(p) /\ n <= coins[p]
  /\ ChangeSide(p, [SideOf(p) EXCEPT !.coins = n])
  /\ UNCHANGED <<invs, coins, life, near, byCid>>

Cancel(p) ==
  /\ Acts(p) /\ InSession(p)
  /\ Close(p)
  /\ UNCHANGED <<invs, coins, life, near>>

\* The first of the two accepts only stands.
AcceptFirst(p) ==
  /\ Acts(p) /\ InSession(p) /\ ~ SideOf(Partner(p)).accepted
  /\ sessions' = [sessions EXCEPT ![byCid[p]] = [@ EXCEPT ![Own(p)].accepted = TRUE]]
  /\ seen' = [seen EXCEPT ![p] = Payload(SideOf(Partner(p)))]
  /\ UNCHANGED <<invs, coins, life, near, byCid>>

-----------------------------------------------------------------------------
(* The second accept: the commit, or the first check that fails *)

AcceptSecond(p) == Acts(p) /\ InSession(p) /\ SideOf(Partner(p)).accepted

CoinsCovered(p) == SideOf(p).coins <= coins[p]

\* Fault: a stack that grew since it was shown passes.
ChangedItem(p, w) ==
  LET o == SideOf(p).offers[w]
  IN  o # None /\ Peek(invs[p], o.slot).item # o.stack.item

\* An offer whose slot no longer holds the stack the partner was shown, or
\* whose bag is no longer empty.
Changed(p, w) ==
  LET o == SideOf(p).offers[w]
  IN  /\ o # None
      /\ \/ Peek(invs[p], o.slot) # o.stack
         \/ Kind(o.slot) = "base" /\ BagNonempty(invs[p], o.slot[2])

ChangedOffers(p) == {w \in Window : Changed(p, w)}

GivesOf(p) ==
  LET full == {w \in Window : SideOf(p).offers[w] # None}
      order == InOrder(full, <)
  IN  [i \in DOMAIN order |-> SideOf(p).offers[order[i]]]

\* destroy_at of every stack p gives, then the placer for every stack p gets.
Given(p) == FoldLeft(LAMBDA acc, o : DestroyAt(acc, o.slot, 0), invs[p], GivesOf(p))

Received(p) ==
  LET gets == GivesOf(Partner(p))
  IN  AddAll(Given(p), [i \in DOMAIN gets |-> gets[i].stack])

Fits(p) == Received(p).left = 0

FailApart(p) ==
  /\ AcceptSecond(p)
  /\ ~ Together(p, Partner(p))
  /\ Close(p)
  /\ UNCHANGED <<invs, coins, life, near>>

FailCoins(p) ==
  LET q == Partner(p)
  IN  /\ AcceptSecond(p) /\ Together(p, q)
      /\ ~ (CoinsCovered(p) /\ CoinsCovered(q))
      /\ ClearAccepts(p)
      /\ UNCHANGED <<invs, coins, life, near, byCid>>

\* The offers that changed leave the window.
FailChanged(p) ==
  LET q == Partner(p)
      kept(side, x) == [side EXCEPT
        !.offers = [w \in Window |-> IF w \in ChangedOffers(x) THEN None ELSE @[w]],
        !.accepted = FALSE]
  IN  /\ AcceptSecond(p) /\ Together(p, q)
      /\ CoinsCovered(p) /\ CoinsCovered(q)
      /\ ChangedOffers(p) \cup ChangedOffers(q) # {}
      /\ sessions' = [sessions EXCEPT ![byCid[p]] =
           [a |-> kept(@.a, @.a.cid), b |-> kept(@.b, @.b.cid)]]
      /\ seen' = [seen EXCEPT ![p] = None, ![q] = None]
      /\ UNCHANGED <<invs, coins, life, near, byCid>>

\* Everything the commit checks before it looks at room.
Valid(p) ==
  LET q == Partner(p)
  IN  /\ AcceptSecond(p) /\ Together(p, q)
      /\ CoinsCovered(p) /\ CoinsCovered(q)
      /\ ChangedOffers(p) \cup ChangedOffers(q) = {}

FailFull(p) ==
  /\ Valid(p) /\ ~ (Fits(p) /\ Fits(Partner(p)))
  /\ ClearAccepts(p)
  /\ UNCHANGED <<invs, coins, life, near, byCid>>

\* A flush of the other stores or the trade transaction fails: reverted.
FailSave(p) ==
  /\ Valid(p) /\ Fits(p) /\ Fits(Partner(p))
  /\ Close(p)
  /\ UNCHANGED <<invs, coins, life, near>>

Commit(p) ==
  LET q == Partner(p)
  IN  /\ Valid(p) /\ Fits(p) /\ Fits(q)
      /\ invs' = [invs EXCEPT ![p] = Received(p).inv, ![q] = Received(q).inv]
      /\ coins' = [coins EXCEPT ![p] = @ - SideOf(p).coins + SideOf(q).coins,
                                ![q] = @ - SideOf(q).coins + SideOf(p).coins]
      /\ Close(p)
      /\ UNCHANGED <<life, near>>

\* sweep_trades: a session whose parties are no longer together is closed.
Sweep(p) ==
  /\ InSession(p) /\ ~ Together(p, Partner(p))
  /\ Close(p)
  /\ UNCHANGED <<invs, coins, life, near>>

-----------------------------------------------------------------------------
(* Everything else that touches the inventories, locks respected *)

Owned(item) == FoldSet(LAMBDA p, sum : sum + Total(invs[p], item), 0, Players)

Rearrange(p, src, dst) ==
  /\ Acts(p) /\ ~ Locked(p, src) /\ ~ Locked(p, dst)
  /\ CanMove(invs[p], src, dst)
  /\ invs' = [invs EXCEPT ![p] = Move(@, src, dst)]
  /\ UNCHANGED <<coins, life, near, windowVars>>

\* A drop, a destroy, a sale (all of a stack or one), a bank deposit.
TakeOut(p, slot, n) ==
  /\ Acts(p) /\ ~ Locked(p, slot) /\ CanDestroy(invs[p], slot)
  /\ invs' = [invs EXCEPT ![p] = DestroyAt(@, slot, n)]
  /\ UNCHANGED <<coins, life, near, windowVars>>

\* Loot, a purchase, a withdrawal: the placer asks no lock.
PutIn(p, item) ==
  /\ life[p] # "gone" /\ Owned(item) < MaxInWorld[item]
  /\ AddItem(invs[p], item, 1).left = 0
  /\ invs' = [invs EXCEPT ![p] = AddItem(@, item, 1).inv]
  /\ UNCHANGED <<coins, life, near, windowVars>>

Spend(p) ==
  /\ Acts(p) /\ coins[p] > 0
  /\ coins' = [coins EXCEPT ![p] = @ - 1]
  /\ UNCHANGED <<invs, life, near, windowVars>>

\* 0 hp; the death sweep later in the tick strips the body; the respawn.
Fall(p) ==
  /\ life[p] = "alive"
  /\ life' = [life EXCEPT ![p] = "dying"]
  /\ UNCHANGED <<invs, coins, near, windowVars>>

Strip(p) ==
  /\ life[p] = "dying"
  /\ life' = [life EXCEPT ![p] = "dead"]
  /\ invs' = [invs EXCEPT ![p] = ClearAll]
  /\ coins' = [coins EXCEPT ![p] = 0]
  /\ UNCHANGED <<near, windowVars>>

Respawn(p) ==
  /\ life[p] = "dead"
  /\ life' = [life EXCEPT ![p] = "alive"]
  /\ UNCHANGED <<invs, coins, near, windowVars>>

\* The connection is reaped; the same character may be back before a sweep.
Depart(p) ==
  /\ life[p] = "alive"
  /\ life' = [life EXCEPT ![p] = "gone"]
  /\ UNCHANGED <<invs, coins, near, windowVars>>

Return(p) ==
  /\ life[p] = "gone"
  /\ life' = [life EXCEPT ![p] = "alive"]
  /\ invs' = [invs EXCEPT ![p] = FromRows(ToRows(@))]
  /\ UNCHANGED <<coins, near, windowVars>>

Walk(p) ==
  /\ life[p] = "alive"
  /\ near' = IF p \in near THEN near \ {p} ELSE near \cup {p}
  /\ UNCHANGED <<invs, coins, life, windowVars>>

TradeNext ==
  \/ \E p, q \in Players : Request(p, q)
  \/ \E p \in Players, w \in Window, from \in Slots : OfferItem(p, w, from)
  \/ \E p \in Players, w \in Window : RetrieveItem(p, w)
  \/ \E p \in Players, n \in 0 .. MaxCoins : OfferCoins(p, n)
  \/ \E p \in Players :
       Cancel(p) \/ AcceptFirst(p) \/ FailApart(p) \/ FailCoins(p) \/ FailChanged(p)
       \/ FailFull(p) \/ FailSave(p) \/ Commit(p) \/ Sweep(p)
  \/ \E p \in Players, src, dst \in Slots : Rearrange(p, src, dst)
  \/ \E p \in Players, slot \in Slots, n \in {0, 1} : TakeOut(p, slot, n)
  \/ \E p \in Players, item \in Items : PutIn(p, item)
  \/ \E p \in Players : Spend(p)
  \/ \E p \in Mortals :
       Fall(p) \/ Strip(p) \/ Respawn(p) \/ Depart(p) \/ Return(p) \/ Walk(p)

TradeSpec == TradeInit /\ [][TradeNext]_tradeVars

-----------------------------------------------------------------------------
(* Safety *)

\* The index and the sessions agree: a player is in at most one session, the
\* one by_cid names, and both parties of a session are indexed to it, so no
\* lock outlives its session and nobody is busy with a session that is gone.
IndexAgrees ==
  /\ \A p \in Players : InSession(p) =>
       sessions[byCid[p]] # None /\ p \in {SessionOf(p).a.cid, SessionOf(p).b.cid}
  /\ \A id \in SessionIds : sessions[id] # None =>
       /\ sessions[id].a.cid # sessions[id].b.cid
       /\ byCid[sessions[id].a.cid] = id /\ byCid[sessions[id].b.cid] = id

\* Two trades of a stack never overlap: no two window slots of a player refer
\* to one inventory slot, so a commit cannot give one stack twice.
OffersDistinct(p) ==
  \A v, w \in Window :
    SideOf(p).offers[v] # None /\ SideOf(p).offers[w] # None
      /\ SideOf(p).offers[v].slot = SideOf(p).offers[w].slot => v = w

\* An accept that stands is an accept of what the partner's side of the window
\* holds now: any change of either side took it back.  And the two accepts of a
\* session never stand together, the second one resolves the trade.
AcceptStands(p) ==
  SideOf(p).accepted =>
    /\ seen[p] = Payload(SideOf(Partner(p)))
    /\ ~ SideOf(Partner(p)).accepted

\* What a session promises its parties, in whichever order their intents, the
\* sweep, a death and a return arrive.
SessionsSound ==
  /\ IndexAgrees
  /\ \A p \in Players : InSession(p) => OffersDistinct(p) /\ AcceptStands(p)

\* The escrow: while an offer stays in the window, its stack is not moved,
\* taken from or replaced by anything but the owner's death; the placer may
\* only top it up.  Nor does a bag around it go.
LockHolds ==
  [][\A p \in Players, w \in Window :
       LET o == SideOf(p).offers[w]
       IN  /\ InSession(p) /\ o # None
           /\ byCid'[p] = byCid[p] /\ SideOf(p)'.offers[w] = o
           /\ life'[p] # "dead" /\ Peek(invs[p], o.slot) # Empty
           => /\ Peek(invs'[p], o.slot).item = Peek(invs[p], o.slot).item
              /\ Peek(invs'[p], o.slot).count >= Peek(invs[p], o.slot).count
    ]_tradeVars

-----------------------------------------------------------------------------
(* The contract *)

Goods == Items \cup {"coin"}
Deals == [with : Players, gives : [Goods -> Nat], gets : [Goods -> Nat]]

ASSUME CoinIsNoItem == "coin" \notin Items
ASSUME NoneIsNoDeal == None \notin Deals

Shown(payload) ==
  [g \in Goods |-> IF g = "coin" THEN payload.coins ELSE CountIn(payload.stacks, g)]

Hold == [p \in Players |-> [g \in Goods |->
  IF g = "coin" THEN coins[p] ELSE Total(invs[p], g)]]

Deal == [p \in Players |->
  IF InSession(p) /\ SideOf(p).accepted
  THEN [with |-> Partner(p), gives |-> Shown(Payload(SideOf(p))), gets |-> Shown(seen[p])]
  ELSE None]

Contract == INSTANCE TradeContract WITH hold <- Hold, deal <- Deal

\* The trade window implements the contract: two players' holdings change in
\* one step only by the swap that both accepted, stack for stack and coin for
\* coin as shown, through top-ups, deaths, relogins and failed saves.
ImplementsContract == Contract!Spec

=============================================================================
