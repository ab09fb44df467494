-------------------------------- MODULE Trade --------------------------------
(***************************************************************************)
(* The trade window: two players lay items, gold and a spell into their    *)
(* TradeData, press accept, and the second accept exchanges everything.    *)
(* All trade opcodes run on the world thread, so a handler is one step;    *)
(* between two of them the bags and the purse change in every other way    *)
(* (a stack is used up, an item is sold, mailed or bought back, gold is    *)
(* spent), and a player flies off or logs out.  TradeData holds GUIDs: an  *)
(* item counts as offered as long as GetItemByGuid finds it.               *)
(*                                                                         *)
(* CanStoreItems tests all incoming items against the bags without the     *)
(* outgoing ones, but the limit an item template sets (MaxCount) for each  *)
(* item by itself; moveItems then stores slot by slot.                     *)
(***************************************************************************)
EXTENDS Integers, FiniteSets

CONSTANTS
  Players, Items,
  FirstOwner,        \* whose bags an item is in at the start
  Stack,             \* its stack count at the start
  Limited, MaxCount, \* items of one limited template, and how many one may carry
  Capacity,          \* bag slots of each player
  NonTraded,         \* TRADE_SLOT_NONTRADED; the slots below it are traded
  Purse,             \* gold each player starts with
  MaxMoney,          \* MAX_MONEY_AMOUNT
  Elsewhere,         \* sold, mailed, auctioned
  Nowhere,           \* taken out of one player's bags and not in the other's
  NoItem, NoTrade, NoView

ASSUME TradeAssumption ==
  /\ FirstOwner \in [Items -> Players]
  /\ Stack \in [Items -> Nat \ {0}]
  /\ Limited \subseteq Items /\ MaxCount \in Nat
  /\ Capacity \in [Players -> Nat]
  /\ NonTraded \in Nat \ {0}
  /\ MaxMoney \in Nat \ {0} /\ Purse \in [Players -> 0..(MaxMoney - 1)]
  /\ IsFiniteSet(Items)

VARIABLES
  online,  \* players ObjectAccessor::FindPlayer returns
  loc,     \* whose inventory each item is in
  count,   \* ITEM_FIELD_STACK_COUNT
  gold,    \* Player::GetMoney
  trade,   \* Player::m_trade
  clones   \* bag slots of each player taken by items StoreItem cloned

vars == <<online, loc, count, gold, trade, clones>>

Slots == 0..NonTraded
Traded == 0..(NonTraded - 1)
Views == [items : SUBSET (Items \X Nat), money : Nat, spell : BOOLEAN]
Trades ==
  [trader : Players, accepted : BOOLEAN, money : Nat, spell : BOOLEAN,
   items : [Slots -> Items \cup {NoItem}], shown : Views, agreed : Views \cup {NoView}]

\* The null pointers, and the places outside of the bags, are nothing else.
ASSUME NullAssumption ==
  /\ NoItem \notin Items /\ NoTrade \notin Trades /\ NoView \notin Views
  /\ Players \cap {Elsewhere, Nowhere} = {}

TypeOK ==
  /\ online \subseteq Players
  /\ loc \in [Items -> Players \cup {Elsewhere, Nowhere}]
  /\ count \in [Items -> Nat \ {0}]
  /\ gold \in [Players -> 0..(MaxMoney - 1)]
  /\ clones \in [Players -> Nat]
  /\ trade \in [Players -> Trades \cup {NoTrade}]

Bag(l, p) == {i \in Items : l[i] = p}

Init ==
  /\ online = Players
  /\ loc = FirstOwner
  /\ count = Stack
  /\ gold = Purse
  /\ trade = [p \in Players |-> NoTrade]
  /\ clones = [p \in Players |-> 0]

-----------------------------------------------------------------------------
(* TradeData.  t is the function trade, c the stack counts.                 *)

\* GetItem: what lies in the slot, if it is still in the owner's inventory.
GetItem(t, p, s) == LET i == t[p].items[s] IN IF i # NoItem /\ loc[i] = p THEN i ELSE NoItem

Offered(t, p) == {GetItem(t, p, s) : s \in Traded} \ {NoItem}

\* What SendUpdateTrade writes of p's side into p's partner's window.
ViewOf(t, p, c) ==
  [items |-> {<<i, c[i]>> : i \in Offered(t, p)}, money |-> t[p].money, spell |-> t[p].spell]

\* Two history fields: shown is what the player's window shows of the partner's
\* offer, agreed what it showed when he pressed accept.
NewTradeData(trader) ==
  [trader |-> trader, accepted |-> FALSE, money |-> 0, spell |-> FALSE,
   items |-> [s \in Slots |-> NoItem],
   shown |-> [items |-> {}, money |-> 0, spell |-> FALSE], agreed |-> NoView]

SetAccepted(t, p, state) ==
  [t EXCEPT ![p].accepted = state, ![p].agreed = IF state THEN t[p].shown ELSE NoView]

\* Mutant: only the player who changes the offer goes back to trade.
BackToTradeOne(t, p) == SetAccepted(t, p, FALSE)

\* SetAccepted(false) on both sides, as every change of an offer does.
BackToTrade(t, p) == SetAccepted(SetAccepted(t, p, FALSE), t[p].trader, FALSE)

Update(t, p, c) == [t EXCEPT ![t[p].trader].shown = ViewOf(t, p, c)]

SetSpell(t, p, spell, c) ==
  IF t[p].spell = spell THEN t
  ELSE Update(BackToTrade([t EXCEPT ![p].spell = spell], p), p, c)

\* update is set by Item::SetCount, for an item that stays in its slot.
SetItem(t, p, s, i, update, c) ==
  IF t[p].items[s] = i /\ ~update THEN t
  ELSE LET changed == Update(BackToTrade([t EXCEPT ![p].items[s] = i], p), p, c)
           other == IF s = NonTraded THEN SetSpell(changed, t[p].trader, FALSE, c) ELSE changed
       IN  SetSpell(other, p, FALSE, c)

SetMoney(t, p, money, c) ==
  IF t[p].money = money \/ gold[p] < money THEN t
  ELSE Update(BackToTrade([t EXCEPT ![p].money = money], p), p, c)

\* Mutant: the partner's TradeData survives.
TradeCancelOne(t, p) == [t EXCEPT ![p] = NoTrade]

TradeCancel(t, p) ==
  IF t[p] = NoTrade THEN t
  ELSE [t EXCEPT ![p] = NoTrade, ![t[p].trader] = NoTrade]

-----------------------------------------------------------------------------
(* The opcodes that lay out an offer                                        *)

\* The other refusals of HandleInitiateTradeOpcode change nothing.
HandleInitiateTrade(p, q) ==
  /\ p # q /\ {p, q} \subseteq online
  /\ trade[p] = NoTrade /\ trade[q] = NoTrade
  /\ trade' = [trade EXCEPT ![p] = NewTradeData(q), ![q] = NewTradeData(p)]
  /\ UNCHANGED <<online, loc, count, gold, clones>>

HandleSetTradeItem(p, s, i) ==
  /\ trade[p] # NoTrade
  /\ loc[i] = p
  /\ \A x \in Slots : trade[p].items[x] # i
  /\ trade' = SetItem(trade, p, s, i, FALSE, count)
  /\ UNCHANGED <<online, loc, count, gold, clones>>

HandleClearTradeItem(p, s) ==
  /\ trade[p] # NoTrade
  /\ trade' = SetItem(trade, p, s, NoItem, FALSE, count)
  /\ UNCHANGED <<online, loc, count, gold, clones>>

HandleSetTradeGold(p, money) ==
  /\ trade[p] # NoTrade
  /\ trade' = SetMoney(trade, p, money, count)
  /\ UNCHANGED <<online, loc, count, gold, clones>>

\* Spell::cast on the item in the partner's non-traded slot.
CastInTrade(p) ==
  /\ trade[p] # NoTrade
  /\ GetItem(trade, trade[p].trader, NonTraded) # NoItem
  /\ ~trade[p].spell
  /\ trade' = SetSpell(trade, p, TRUE, count)
  /\ UNCHANGED <<online, loc, count, gold, clones>>

HandleUnacceptTrade(p) ==
  /\ trade[p] # NoTrade
  /\ trade' = SetAccepted(trade, p, FALSE)
  /\ UNCHANGED <<online, loc, count, gold, clones>>

\* HandleCancelTradeOpcode, and ActivateTaxiPathTo when a flight starts.
HandleCancelTrade(p) ==
  /\ trade[p] # NoTrade
  /\ trade' = TradeCancel(trade, p)
  /\ UNCHANGED <<online, loc, count, gold, clones>>

-----------------------------------------------------------------------------
(* HandleAcceptTradeOpcode, one action for each way it can end              *)

Accepting(p, q) ==
  /\ trade[p] # NoTrade
  /\ trade[p].trader = q
  /\ trade[q] # NoTrade

\* Mutant: the partner's purse is not looked at again.
ShortOfGoldMine(t, p, q) ==
  IF gold[p] < t[p].money THEN {p} ELSE {}

\* Whose accepted flag the checks of the gold take back, if any.
ShortOfGold(t, p, q) ==
  IF gold[p] < t[p].money THEN {p}
  ELSE IF gold[q] < t[q].money THEN {q}
  ELSE IF gold[p] >= MaxMoney - t[q].money THEN {p}
  ELSE IF gold[q] >= MaxMoney - t[p].money THEN {q}
  ELSE {}

Unchecked(p, q) == ShortOfGold(trade, p, q) = {}

AcceptTooFar(p, q) ==
  /\ Accepting(p, q)
  /\ trade' = SetAccepted(trade, p, FALSE)
  /\ UNCHANGED <<online, loc, count, gold, clones>>

AcceptShortOfGold(p, q) ==
  /\ Accepting(p, q)
  /\ \E x \in ShortOfGold(trade, p, q) :
       trade' = SetAccepted(SetAccepted(trade, p, TRUE), x, FALSE)
  /\ UNCHANGED <<online, loc, count, gold, clones>>

\* CanBeTraded or IsBindedNotWith fails now: the handler returns and p's own
\* flag stays set.  Without that, the first to accept ends the same way.
AcceptWaits(p, q) ==
  /\ Accepting(p, q)
  /\ Unchecked(p, q)
  /\ \/ Offered(trade, p) \cup Offered(trade, q) # {}
     \/ ~trade[q].accepted
  /\ trade' = SetAccepted(trade, p, TRUE)
  /\ UNCHANGED <<online, loc, count, gold, clones>>

\* CheckCast may refuse a spell, and does without an item to cast it on.
AcceptSpellFails(p, q) ==
  /\ Accepting(p, q)
  /\ Unchecked(p, q)
  /\ trade[q].accepted
  /\ \E x \in {p, q} :
       /\ trade[x].spell
       /\ x = q /\ trade[p].spell => GetItem(trade, q, NonTraded) # NoItem
       /\ trade' = SetSpell(SetAccepted(trade, p, TRUE), x, FALSE, count)
  /\ UNCHANGED <<online, loc, count, gold, clones>>

SpellsCastable(p, q) ==
  /\ trade[p].spell => GetItem(trade, q, NonTraded) # NoItem
  /\ trade[q].spell => GetItem(trade, p, NonTraded) # NoItem

Free(l, c, p) == Capacity[p] - Cardinality(Bag(l, p)) - c[p]

MayCarry(l, p, i) == i \in Limited => Cardinality((Bag(l, p) \cap Limited) \ {i}) < MaxCount

\* CanStoreItems with the outgoing items marked as in trade: the slots are added
\* up, the limit is looked at for each item alone.
CanStoreItems(p, incoming, outgoing) ==
  /\ Free(loc, clones, p) + Cardinality(outgoing) >= Cardinality(incoming)
  /\ \A i \in incoming : MayCarry(loc, p, i)

BothCanStore(p, q) ==
  /\ CanStoreItems(q, Offered(trade, p), Offered(trade, q))
  /\ CanStoreItems(p, Offered(trade, q), Offered(trade, p))

AcceptNoSpace(p, q) ==
  /\ Accepting(p, q)
  /\ Unchecked(p, q)
  /\ trade[q].accepted
  /\ SpellsCastable(p, q)
  /\ ~BothCanStore(p, q)
  /\ trade' = BackToTrade(trade, p)
  /\ UNCHANGED <<online, loc, count, gold, clones>>

-----------------------------------------------------------------------------
(* The exchange.  b is [loc, clones] while moveItems is under way.          *)

\* CanStoreItem, with "reserved" positions already in its destination vector.
CanStoreItem(b, p, i, reserved) ==
  Free(b.loc, b.clones, p) > reserved /\ MayCarry(b.loc, p, i)

\* MoveItemToInventory: every position but the last receives a clone.
Store(b, p, i, reserved) ==
  IF i = NoItem THEN b
  ELSE [loc |-> [b.loc EXCEPT ![i] = p], clones |-> [b.clones EXCEPT ![p] = @ + reserved]]

TakeBack(b, p, i, reserved) ==
  IF i # NoItem /\ CanStoreItem(b, p, i, reserved) THEN Store(b, p, i, reserved) ELSE b

\* One slot of moveItems.  The destination found for the partner's item is
\* still in the vector when an item is taken back.
MoveSlot(b, p, q, mine, his) ==
  LET traderCanTrade == mine = NoItem \/ CanStoreItem(b, q, mine, 0)
      playerCanTrade == his = NoItem \/ CanStoreItem(b, p, his, 0)
  IN  IF traderCanTrade /\ playerCanTrade
        THEN Store(Store(b, q, mine, 0), p, his, 0)
        ELSE TakeBack(TakeBack(b, p, mine, IF playerCanTrade /\ his # NoItem THEN 1 ELSE 0),
                      q, his, IF traderCanTrade /\ mine # NoItem THEN 1 ELSE 0)

moveItems(p, q) ==
  LET removed == [i \in Items |-> IF i \in Offered(trade, p) \cup Offered(trade, q)
                                    THEN Nowhere ELSE loc[i]]
      moved[s \in 0..NonTraded] ==
        IF s = 0 THEN [loc |-> removed, clones |-> clones]
        ELSE MoveSlot(moved[s - 1], p, q, GetItem(trade, p, s - 1), GetItem(trade, q, s - 1))
  IN  moved[NonTraded]

ModifyMoney(g, amount) ==
  IF amount < 0 THEN (IF g > -amount THEN g + amount ELSE 0)
  ELSE IF g < MaxMoney - amount THEN g + amount ELSE g

Pay(g, given, received) == ModifyMoney(ModifyMoney(g, -given), received)

Exchange(p, q) ==
  /\ Accepting(p, q)
  /\ Unchecked(p, q)
  /\ trade[q].accepted
  /\ SpellsCastable(p, q)
  /\ BothCanStore(p, q)
  /\ loc' = moveItems(p, q).loc
  /\ clones' = moveItems(p, q).clones
  /\ gold' = [gold EXCEPT ![p] = Pay(@, trade[p].money, trade[q].money),
                          ![q] = Pay(@, trade[q].money, trade[p].money)]
  /\ trade' = TradeCancel(trade, p)
  /\ UNCHANGED <<online, count>>

-----------------------------------------------------------------------------
(* Everything else that happens to the bags, the purse and the player       *)

\* What a window showed of an item does not bind once the item has left the bags.
Without(view, i) ==
  IF view = NoView THEN NoView ELSE [view EXCEPT !.items = {pair \in @ : pair[1] # i}]

Forget(t, i) ==
  [p \in Players |->
    IF t[p] = NoTrade THEN NoTrade
    ELSE [t[p] EXCEPT !.shown = Without(@, i), !.agreed = Without(@, i)]]

\* DestroyItem, SellItem, a mail or an auction takes the item out of the bags;
\* none of them looks at the trade (Forget only touches the history).
ItemLeaves(i) ==
  /\ loc[i] \in Players
  /\ loc' = [loc EXCEPT ![i] = Elsewhere]
  /\ trade' = Forget(trade, i)
  /\ UNCHANGED <<online, count, gold, clones>>

\* It is bought back, or taken from a mail.
ItemComes(p, i) ==
  /\ p \in online
  /\ loc[i] = Elsewhere
  /\ CanStoreItem([loc |-> loc, clones |-> clones], p, i, 0)
  /\ loc' = [loc EXCEPT ![i] = p]
  /\ UNCHANGED <<online, count, gold, trade, clones>>

\* Item::SetCount, when part of a stack is used up.
SetCount(i, n) ==
  /\ loc[i] \in Players
  /\ count' = [count EXCEPT ![i] = n]
  /\ LET p == loc[i]
         slot == IF trade[p] = NoTrade THEN {} ELSE {s \in Slots : trade[p].items[s] = i}
     IN  \/ slot = {} /\ UNCHANGED trade
         \/ \E s \in slot : trade' = SetItem(trade, p, s, i, TRUE, count')
  /\ UNCHANGED <<online, loc, gold, clones>>

\* Buying, repairing, looting: ModifyMoney outside of the trade.
GoldChanges(p, amount) ==
  /\ p \in online
  /\ gold' = [gold EXCEPT ![p] = ModifyMoney(@, amount)]
  /\ UNCHANGED <<online, loc, count, trade, clones>>

\* LogoutPlayer reaches CleanupsBeforeDelete.
Logout(p) ==
  /\ p \in online
  /\ online' = online \ {p}
  /\ trade' = TradeCancel(trade, p)
  /\ UNCHANGED <<loc, count, gold, clones>>

Login(p) ==
  /\ p \notin online
  /\ online' = online \cup {p}
  /\ UNCHANGED <<loc, count, gold, trade, clones>>

-----------------------------------------------------------------------------

Offers(p) ==
  \/ \E s \in Slots : HandleClearTradeItem(p, s) \/ \E i \in Items : HandleSetTradeItem(p, s, i)
  \/ \E money \in 0..MaxMoney : HandleSetTradeGold(p, money)
  \/ CastInTrade(p) \/ HandleUnacceptTrade(p) \/ HandleCancelTrade(p)

Accepts(p, q) ==
  \/ AcceptTooFar(p, q) \/ AcceptShortOfGold(p, q) \/ AcceptWaits(p, q)
  \/ AcceptSpellFails(p, q) \/ AcceptNoSpace(p, q) \/ Exchange(p, q)

Elses ==
  \/ \E i \in Items : ItemLeaves(i) \/ \E n \in 1..(count[i] - 1) : SetCount(i, n)
  \/ \E p \in Players :
       \/ \E i \in Items : ItemComes(p, i)
       \/ GoldChanges(p, 1) \/ GoldChanges(p, -1)
       \/ Logout(p) \/ Login(p)

Next ==
  \/ \E p, q \in Players : HandleInitiateTrade(p, q) \/ Accepts(p, q)
  \/ \E p \in Players : Offers(p)
  \/ Elses

Spec == Init /\ [][Next]_vars

-----------------------------------------------------------------------------
(* Properties                                                               *)

\* m_trade comes and goes in pairs: a trader's partner is online, trades with
\* him and with nobody else, so that GetTrader() and GetTraderData() are never
\* stale, over logouts, flights and cancellations in the middle of a trade.
TradesPaired ==
  /\ TypeOK
  /\ \A p \in Players : trade[p] # NoTrade =>
       LET q == trade[p].trader IN
         /\ p # q /\ {p, q} \subseteq online
         /\ trade[q] # NoTrade /\ trade[q].trader = p

\* p's accept completes the trade in this step.
Completes(p) == trade[p] # NoTrade /\ trade'[p] = NoTrade /\ Exchange(p, trade[p].trader)

\* The exchange loses and mints nothing: every item in the two traders' bags is
\* in one of them afterwards, none is cloned, and the gold adds up although
\* both amounts come near MAX_MONEY_AMOUNT.
ExchangeConserves ==
  [][\A p \in Players : Completes(p) =>
       LET q == trade[p].trader IN
         /\ Bag(loc, p) \cup Bag(loc, q) = Bag(loc', p) \cup Bag(loc', q)
         /\ UNCHANGED clones
         /\ gold'[p] + gold'[q] = gold[p] + gold[q]]_vars

\* Each trader receives what his window showed when he pressed accept: the gold
\* and the spell, and every item with its stack count that has not left the
\* partner's bags since; p presses accept in this step, the partner did so earlier.
ExchangeAsAgreed ==
  [][\A p \in Players : Completes(p) =>
       \A x \in {p, trade[p].trader} :
         LET y == trade[x].trader
             agreed == IF x = p THEN trade[x].shown ELSE trade[x].agreed
         IN  /\ gold'[x] = gold[x] - trade[x].money + agreed.money
             /\ trade[y].spell = agreed.spell
             /\ \A pair \in agreed.items : loc'[pair[1]] = x /\ count[pair[1]] = pair[2]]_vars
=============================================================================
