------------------------------ MODULE TradeProofs ------------------------------
(***************************************************************************)
(* Proofs about Trade, for any players, items, stacks, bags and purses.    *)
(***************************************************************************)
EXTENDS Trade, FiniteSetTheorems, WellFoundedInduction, TLAPS

TradesOK(t) == t \in [Players -> Trades \cup {NoTrade}]

\* Trades come in pairs.
PairedIn(t) ==
  \A p \in Players : t[p] # NoTrade =>
    /\ t[p].trader # p
    /\ t[t[p].trader] # NoTrade
    /\ t[t[p].trader].trader = p

\* An item lies in one slot only.
SlotsDistinct(t) ==
  \A p \in Players : t[p] # NoTrade =>
    \A r, s \in Slots : t[p].items[r] = t[p].items[s] => r = s \/ t[p].items[r] = NoItem

\* The window of p shows the partner's gold and spell as they are, and only items
\* that lie in the partner's slots and bags, with the stack count they have.
ShownTo(t, l, c, p) ==
  t[p] # NoTrade =>
    /\ t[p].shown.money = t[t[p].trader].money
    /\ t[p].shown.spell = t[t[p].trader].spell
    /\ \A pair \in t[p].shown.items :
         /\ l[pair[1]] = t[p].trader
         /\ c[pair[1]] = pair[2]
         /\ \E s \in Traded : t[t[p].trader].items[s] = pair[1]

\* Who has accepted has agreed to what his window shows now.
AgreedBy(t, p) == t[p] # NoTrade /\ t[p].accepted => t[p].agreed = t[p].shown

Sound(t, l, c) ==
  /\ TradesOK(t)
  /\ PairedIn(t)
  /\ SlotsDistinct(t)
  /\ \A p \in Players : ShownTo(t, l, c, p) /\ AgreedBy(t, p)

BagsOK ==
  /\ online \subseteq Players
  /\ loc \in [Items -> Players \cup {Elsewhere, Nowhere}]
  /\ count \in [Items -> Nat \ {0}]
  /\ gold \in [Players -> 0..(MaxMoney - 1)]
  /\ clones \in [Players -> Nat]

TradersOnline == \A p \in Players : trade[p] # NoTrade => p \in online

IInv == BagsOK /\ TradersOnline /\ Sound(trade, loc, count)

-----------------------------------------------------------------------------
(* TradeData: what each operation does to the fields                        *)

\* The fields of a TradeData.
LEMMA TradeFields ==
  ASSUME NEW r \in Trades
  PROVE  /\ r # NoTrade /\ r.trader \in Players /\ r.accepted \in BOOLEAN /\ r.money \in Nat
         /\ r.spell \in BOOLEAN /\ r.items \in [Slots -> Items \cup {NoItem}]
         /\ r.shown \in Views /\ r.agreed \in Views \cup {NoView}
BY NullAssumption DEF Trades

\* SetAccepted(true) sets the flag and remembers what the window shows.
LEMMA AcceptFields ==
  ASSUME NEW t, TradesOK(t), NEW p \in Players, t[p] # NoTrade
  PROVE  LET u == SetAccepted(t, p, TRUE) IN
         /\ TradesOK(u) /\ \A x \in Players \ {p} : u[x] = t[x]
         /\ u[p] \in Trades /\ u[p].trader = t[p].trader /\ u[p].items = t[p].items
         /\ u[p].money = t[p].money /\ u[p].spell = t[p].spell /\ u[p].shown = t[p].shown
         /\ u[p].agreed = t[p].shown
<1> DEFINE r == [t[p] EXCEPT !.accepted = TRUE, !.agreed = t[p].shown]
<1>1. t[p] \in Trades
  BY DEF TradesOK
<1>2. /\ r \in Trades /\ r.trader = t[p].trader /\ r.items = t[p].items /\ r.money = t[p].money
      /\ r.spell = t[p].spell /\ r.shown = t[p].shown /\ r.agreed = t[p].shown
  BY <1>1 DEF Trades
<1>3. SetAccepted(t, p, TRUE) = [t EXCEPT ![p] = r]
  BY DEF SetAccepted, TradesOK
<1> HIDE DEF r
<1>4. /\ [t EXCEPT ![p] = r] \in [Players -> Trades \cup {NoTrade}]
      /\ [t EXCEPT ![p] = r][p] = r
      /\ \A x \in Players \ {p} : [t EXCEPT ![p] = r][x] = t[x]
  BY <1>2 DEF TradesOK
<1> QED
  BY <1>2, <1>3, <1>4 DEF TradesOK

\* SetAccepted(false) takes the flag back.
LEMMA UnacceptFields ==
  ASSUME NEW t, TradesOK(t), NEW p \in Players, t[p] # NoTrade
  PROVE  LET u == SetAccepted(t, p, FALSE) IN
         /\ TradesOK(u) /\ \A x \in Players \ {p} : u[x] = t[x]
         /\ u[p] \in Trades /\ u[p].trader = t[p].trader /\ u[p].items = t[p].items
         /\ u[p].money = t[p].money /\ u[p].spell = t[p].spell /\ u[p].shown = t[p].shown
         /\ ~u[p].accepted
<1> DEFINE r == [t[p] EXCEPT !.accepted = FALSE, !.agreed = NoView]
<1>1. t[p] \in Trades
  BY DEF TradesOK
<1>2. /\ r \in Trades /\ r.trader = t[p].trader /\ r.items = t[p].items /\ r.money = t[p].money
      /\ r.spell = t[p].spell /\ r.shown = t[p].shown /\ ~r.accepted
  BY <1>1 DEF Trades
<1>3. SetAccepted(t, p, FALSE) = [t EXCEPT ![p] = r]
  BY DEF SetAccepted, TradesOK
<1> HIDE DEF r
<1>4. /\ [t EXCEPT ![p] = r] \in [Players -> Trades \cup {NoTrade}]
      /\ [t EXCEPT ![p] = r][p] = r
      /\ \A x \in Players \ {p} : [t EXCEPT ![p] = r][x] = t[x]
  BY <1>2 DEF TradesOK
<1> QED
  BY <1>2, <1>3, <1>4 DEF TradesOK

\* The offers are the same, whatever the flags and the windows are.
SameOffers(t, u) ==
  /\ TradesOK(u)
  /\ \A x \in Players :
       /\ u[x] = NoTrade <=> t[x] = NoTrade
       /\ t[x] # NoTrade =>
            /\ u[x].trader = t[x].trader /\ u[x].items = t[x].items
            /\ u[x].money = t[x].money /\ u[x].spell = t[x].spell

\* What the window of the partner is sent is a list of the player's own items.
LEMMA ViewFacts ==
  ASSUME NEW t, TradesOK(t), NEW p \in Players, t[p] # NoTrade, NEW c \in [Items -> Nat \ {0}]
  PROVE  /\ ViewOf(t, p, c) \in Views
         /\ ViewOf(t, p, c).money = t[p].money
         /\ ViewOf(t, p, c).spell = t[p].spell
         /\ \A pair \in ViewOf(t, p, c).items :
              /\ loc[pair[1]] = p /\ c[pair[1]] = pair[2]
              /\ \E s \in Traded : t[p].items[s] = pair[1]
<1>1. t[p] \in Trades
  BY DEF TradesOK
<1>2. Traded \subseteq Slots
  BY TradeAssumption DEF Traded, Slots
<1>3. \A i \in Offered(t, p) : i \in Items /\ loc[i] = p /\ \E s \in Traded : t[p].items[s] = i
  <2> SUFFICES ASSUME NEW i \in Offered(t, p)
               PROVE  i \in Items /\ loc[i] = p /\ \E s \in Traded : t[p].items[s] = i
    OBVIOUS
  <2>1. PICK s \in Traded : i = GetItem(t, p, s) /\ i # NoItem
    BY DEF Offered
  <2>2. i = t[p].items[s] /\ loc[i] = p
    BY <2>1 DEF GetItem
  <2>3. t[p].items[s] \in Items \cup {NoItem}
    BY <1>1, <1>2, TradeFields
  <2> QED
    BY <2>1, <2>2, <2>3
<1> DEFINE shown == {<<i, c[i]>> : i \in Offered(t, p)}
<1>4. shown \in SUBSET (Items \X Nat)
  BY <1>3
<1>5. \A pair \in shown : pair[1] \in Offered(t, p) /\ c[pair[1]] = pair[2]
  OBVIOUS
<1>6. ViewOf(t, p, c) = [items |-> shown, money |-> t[p].money, spell |-> t[p].spell]
  BY DEF ViewOf
<1>7. t[p].money \in Nat /\ t[p].spell \in BOOLEAN
  BY <1>1, TradeFields
<1> HIDE DEF shown
<1>8. ViewOf(t, p, c) \in Views
  BY <1>4, <1>6, <1>7 DEF Views
<1> QED
  BY <1>3, <1>5, <1>6, <1>8

\* SetAccepted(false) on both sides takes both flags back and nothing else.
LEMMA BackFields ==
  ASSUME NEW t, TradesOK(t), PairedIn(t), NEW p \in Players, t[p] # NoTrade
  PROVE  LET u == BackToTrade(t, p)
             q == t[p].trader
         IN  /\ SameOffers(t, u)
             /\ \A x \in Players : t[x] # NoTrade => u[x].shown = t[x].shown
             /\ \A x \in Players \ {p, q} : u[x] = t[x]
             /\ ~u[p].accepted /\ ~u[q].accepted
<1> DEFINE q == t[p].trader
           v == SetAccepted(t, p, FALSE)
           u == SetAccepted(v, q, FALSE)
<1>1. t[p] \in Trades /\ q \in Players /\ q # p /\ t[q] # NoTrade /\ t[q] \in Trades
  BY TradeFields DEF TradesOK, PairedIn
<1>2. /\ TradesOK(v) /\ \A x \in Players \ {p} : v[x] = t[x]
      /\ v[p] \in Trades /\ v[p].trader = t[p].trader /\ v[p].items = t[p].items
      /\ v[p].money = t[p].money /\ v[p].spell = t[p].spell /\ v[p].shown = t[p].shown
      /\ ~v[p].accepted
  BY UnacceptFields
<1> HIDE DEF v
<1>3. v[q] = t[q] /\ v[q] # NoTrade
  BY <1>1, <1>2
<1>4. /\ TradesOK(u) /\ \A x \in Players \ {q} : u[x] = v[x]
      /\ u[q] \in Trades /\ u[q].trader = v[q].trader /\ u[q].items = v[q].items
      /\ u[q].money = v[q].money /\ u[q].spell = v[q].spell /\ u[q].shown = v[q].shown
      /\ ~u[q].accepted
  BY <1>1, <1>2, <1>3, UnacceptFields
<1>5. BackToTrade(t, p) = u
  BY DEF BackToTrade, v
<1> HIDE DEF u
<1>6. v[p] # NoTrade /\ u[q] # NoTrade
  BY <1>2, <1>4, TradeFields
<1>7. SameOffers(t, u)
  BY <1>1, <1>2, <1>3, <1>4, <1>6 DEF SameOffers
<1>8. \A x \in Players : t[x] # NoTrade => u[x].shown = t[x].shown
  BY <1>1, <1>2, <1>3, <1>4
<1>9. /\ \A x \in Players \ {p, q} : u[x] = t[x]
      /\ ~u[p].accepted /\ ~u[q].accepted
  BY <1>1, <1>2, <1>4
<1> QED
  BY <1>5, <1>7, <1>8, <1>9

\* SendUpdateTrade writes the window of the partner and nothing else.
LEMMA UpdateFields ==
  ASSUME NEW t, TradesOK(t), PairedIn(t), NEW p \in Players, t[p] # NoTrade,
         NEW c \in [Items -> Nat \ {0}]
  PROVE  LET u == Update(t, p, c)
             q == t[p].trader
         IN  /\ SameOffers(t, u)
             /\ \A x \in Players \ {q} : u[x] = t[x]
             /\ u[q].shown = ViewOf(t, p, c) /\ u[q].accepted = t[q].accepted
<1> DEFINE q == t[p].trader
           view == ViewOf(t, p, c)
           r == [t[q] EXCEPT !.shown = view]
<1>1. t[p] \in Trades /\ q \in Players /\ q # p /\ t[q] # NoTrade /\ t[q] \in Trades
  BY TradeFields DEF TradesOK, PairedIn
<1>2. view \in Views
  BY ViewFacts
<1>3. Update(t, p, c) = [t EXCEPT ![q] = r]
  BY DEF Update, TradesOK
<1> HIDE DEF view
<1>4. /\ r \in Trades /\ r.trader = t[q].trader /\ r.items = t[q].items /\ r.money = t[q].money
      /\ r.spell = t[q].spell /\ r.shown = view /\ r.accepted = t[q].accepted
  BY <1>1, <1>2 DEF Trades
<1> HIDE DEF r, q
<1>5. /\ [t EXCEPT ![q] = r] \in [Players -> Trades \cup {NoTrade}]
      /\ [t EXCEPT ![q] = r][q] = r
      /\ \A x \in Players \ {q} : [t EXCEPT ![q] = r][x] = t[x]
  BY <1>1, <1>4 DEF TradesOK
<1>6. r # NoTrade
  BY <1>4, TradeFields
<1>7. SameOffers(t, Update(t, p, c))
  BY <1>1, <1>3, <1>4, <1>5, <1>6 DEF SameOffers, TradesOK
<1> QED
  BY <1>3, <1>4, <1>5, <1>7 DEF q, view

\* A change of one's offer that is shown to the partner, and takes both accepts
\* back, leaves sound trades: only the partner's window may have been stale.
LEMMA Refreshed ==
  ASSUME NEW t, NEW c \in [Items -> Nat \ {0}], NEW p \in Players, t[p] # NoTrade,
         TradesOK(t), PairedIn(t), SlotsDistinct(t),
         \A x \in Players : x # t[p].trader => ShownTo(t, loc, c, x),
         \A x \in Players : x \notin {p, t[p].trader} => AgreedBy(t, x)
  PROVE  /\ Sound(Update(BackToTrade(t, p), p, c), loc, c)
         /\ SameOffers(t, Update(BackToTrade(t, p), p, c))
<1> DEFINE q == t[p].trader
           v == BackToTrade(t, p)
           u == Update(v, p, c)
<1>1. t[p] \in Trades /\ q \in Players /\ q # p /\ t[q] # NoTrade /\ t[q].trader = p
  BY TradeFields DEF TradesOK, PairedIn
<1>2. /\ SameOffers(t, v) /\ \A x \in Players : t[x] # NoTrade => v[x].shown = t[x].shown
      /\ \A x \in Players \ {p, q} : v[x] = t[x]
      /\ ~v[p].accepted /\ ~v[q].accepted
  BY BackFields
<1> HIDE DEF v
<1>3. TradesOK(v) /\ PairedIn(v) /\ v[p] # NoTrade /\ v[p].trader = q
  <2>1. \A x \in Players : t[x] # NoTrade => t[x].trader \in Players
    BY TradeFields DEF TradesOK
  <2> QED
    BY <1>2, <2>1 DEF SameOffers, PairedIn
<1>4. /\ SameOffers(v, u)
      /\ \A x \in Players \ {q} : u[x] = v[x]
      /\ u[q].shown = ViewOf(v, p, c) /\ u[q].accepted = v[q].accepted
  BY <1>3, UpdateFields
<1> HIDE DEF u
<1>5. /\ TradesOK(u)
      /\ \A x \in Players :
           /\ u[x] = NoTrade <=> t[x] = NoTrade
           /\ t[x] # NoTrade =>
                /\ u[x].trader = t[x].trader /\ u[x].items = t[x].items
                /\ u[x].money = t[x].money /\ u[x].spell = t[x].spell
                /\ t[x].trader \in Players
  <2>1. \A x \in Players : t[x] # NoTrade => t[x].trader \in Players
    BY TradeFields DEF TradesOK
  <2> QED
    BY <1>2, <1>4, <2>1 DEF SameOffers
<1>6. SameOffers(t, u)
  BY <1>5 DEF SameOffers
<1>7. PairedIn(u)
  BY <1>5 DEF PairedIn
<1>8. SlotsDistinct(u)
  BY <1>5 DEF SlotsDistinct
<1>9. ASSUME NEW x \in Players PROVE ShownTo(u, loc, c, x)
  <2> SUFFICES ASSUME u[x] # NoTrade PROVE ShownTo(u, loc, c, x)
    BY DEF ShownTo
  <2>1. CASE x = q
    <3>1. /\ u[q].shown.money = v[p].money /\ u[q].shown.spell = v[p].spell
          /\ \A pair \in u[q].shown.items :
               /\ loc[pair[1]] = p /\ c[pair[1]] = pair[2]
               /\ \E s \in Traded : v[p].items[s] = pair[1]
      BY <1>3, <1>4, ViewFacts
    <3>2. u[q].trader = p /\ u[p] = v[p]
      BY <1>1, <1>4, <1>5
    <3> QED
      BY <2>1, <3>1, <3>2 DEF ShownTo
  <2>2. CASE x # q
    <3>1. t[x] # NoTrade /\ u[x].shown = t[x].shown
      BY <1>2, <1>4, <1>5, <2>2
    <3>2. t[t[x].trader] # NoTrade /\ t[x].trader \in Players
      BY <1>5, <3>1 DEF PairedIn
    <3>3. /\ t[x].shown.money = t[t[x].trader].money /\ t[x].shown.spell = t[t[x].trader].spell
          /\ \A pair \in t[x].shown.items :
               /\ loc[pair[1]] = t[x].trader /\ c[pair[1]] = pair[2]
               /\ \E s \in Traded : t[t[x].trader].items[s] = pair[1]
      BY <2>2, <3>1 DEF ShownTo
    <3>4. /\ u[x].trader = t[x].trader
          /\ u[t[x].trader].money = t[t[x].trader].money
          /\ u[t[x].trader].spell = t[t[x].trader].spell
          /\ u[t[x].trader].items = t[t[x].trader].items
      BY <1>5, <3>1, <3>2
    <3> QED
      BY <3>1, <3>3, <3>4 DEF ShownTo
  <2> QED
    BY <2>1, <2>2
<1>10. ASSUME NEW x \in Players PROVE AgreedBy(u, x)
  BY <1>1, <1>2, <1>4 DEF AgreedBy
<1> QED
  BY <1>5, <1>6, <1>7, <1>8, <1>9, <1>10 DEF Sound, u, v

\* The same players trade with each other.
SamePairs(t, u) ==
  \A x \in Players :
    /\ u[x] = NoTrade <=> t[x] = NoTrade
    /\ t[x] # NoTrade => u[x].trader = t[x].trader

\* A player changes his own offer in r, the partner's window is refreshed.
LEMMA OfferChanged ==
  ASSUME NEW t, NEW c \in [Items -> Nat \ {0}], NEW p \in Players, t[p] # NoTrade,
         TradesOK(t), PairedIn(t), SlotsDistinct(t),
         \A x \in Players : x # t[p].trader => ShownTo(t, loc, c, x),
         \A x \in Players : AgreedBy(t, x),
         NEW r \in Trades, r.trader = t[p].trader, r.shown = t[p].shown,
         \A j, k \in Slots : r.items[j] = r.items[k] => j = k \/ r.items[j] = NoItem
  PROVE  /\ Sound(Update(BackToTrade([t EXCEPT ![p] = r], p), p, c), loc, c)
         /\ SamePairs(t, Update(BackToTrade([t EXCEPT ![p] = r], p), p, c))
<1> DEFINE u == [t EXCEPT ![p] = r]
           w == Update(BackToTrade(u, p), p, c)
<1>1. /\ u \in [Players -> Trades \cup {NoTrade}]
      /\ u[p] = r
      /\ \A x \in Players \ {p} : u[x] = t[x]
  BY DEF TradesOK
<1> HIDE DEF u
<1>2. r # NoTrade /\ TradesOK(u)
  BY <1>1, TradeFields DEF TradesOK
<1>3. \A x \in Players : t[x] # NoTrade => t[x].trader \in Players
  BY TradeFields DEF TradesOK
<1>4. SamePairs(t, u)
  BY <1>1, <1>2 DEF SamePairs
<1>5. PairedIn(u)
  BY <1>3, <1>4 DEF SamePairs, PairedIn
<1>6. SlotsDistinct(u)
  BY <1>1 DEF SlotsDistinct
<1>7. ASSUME NEW x \in Players, x # t[p].trader PROVE ShownTo(u, loc, c, x)
  <2> SUFFICES ASSUME t[x] # NoTrade PROVE ShownTo(u, loc, c, x)
    BY <1>4 DEF SamePairs, ShownTo
  <2>1. t[x].trader # p /\ t[x].trader \in Players
    BY <1>3, <1>7 DEF PairedIn
  <2>2. u[t[x].trader] = t[t[x].trader] /\ u[x].trader = t[x].trader /\ u[x].shown = t[x].shown
    BY <1>1, <2>1
  <2>3. /\ t[x].shown.money = t[t[x].trader].money
        /\ t[x].shown.spell = t[t[x].trader].spell
        /\ \A pair \in t[x].shown.items :
             /\ loc[pair[1]] = t[x].trader
             /\ c[pair[1]] = pair[2]
             /\ \E s \in Traded : t[t[x].trader].items[s] = pair[1]
    BY <1>7 DEF ShownTo
  <2> QED
    BY <2>2, <2>3 DEF ShownTo
<1>8. \A x \in Players : x # p => AgreedBy(u, x)
  BY <1>1 DEF AgreedBy
<1>9. u[p].trader = t[p].trader
  BY <1>1
<1>10. Sound(w, loc, c) /\ SameOffers(u, w)
  BY <1>1, <1>2, <1>5, <1>6, <1>7, <1>8, <1>9, Refreshed
<1>11. SamePairs(t, w)
  BY <1>4, <1>10 DEF SamePairs, SameOffers
<1> QED
  BY <1>10, <1>11 DEF u

\* The trader of a player is a player, who trades with him.
LEMMA PartnerFacts ==
  ASSUME NEW t, TradesOK(t), PairedIn(t), NEW p \in Players, t[p] # NoTrade
  PROVE  /\ t[p] \in Trades
         /\ t[p].trader \in Players /\ t[p].trader # p
         /\ t[t[p].trader] # NoTrade /\ t[t[p].trader] \in Trades
         /\ t[t[p].trader].trader = p
BY TradeFields DEF TradesOK, PairedIn

\* TradeData::SetSpell.
LEMMA SetSpellSound ==
  ASSUME NEW t, NEW c \in [Items -> Nat \ {0}], Sound(t, loc, c),
         NEW p \in Players, t[p] # NoTrade, NEW spell \in BOOLEAN
  PROVE  /\ Sound(SetSpell(t, p, spell, c), loc, c)
         /\ SamePairs(t, SetSpell(t, p, spell, c))
<1> DEFINE r == [t[p] EXCEPT !.spell = spell]
<1>1. t[p] \in Trades
  BY DEF Sound, TradesOK
<1>2. r \in Trades /\ r.trader = t[p].trader /\ r.shown = t[p].shown /\ r.items = t[p].items
  BY <1>1 DEF Trades
<1>3. [t EXCEPT ![p].spell = spell] = [t EXCEPT ![p] = r]
  BY DEF Sound, TradesOK
<1> HIDE DEF r
<1>4. CASE t[p].spell = spell
  BY <1>4 DEF SetSpell, SamePairs
<1>5. CASE t[p].spell # spell
  <2>1. SetSpell(t, p, spell, c) = Update(BackToTrade([t EXCEPT ![p] = r], p), p, c)
    BY <1>3, <1>5 DEF SetSpell
  <2>2. \A j, k \in Slots : r.items[j] = r.items[k] => j = k \/ r.items[j] = NoItem
    BY <1>2 DEF Sound, SlotsDistinct
  <2>3. /\ TradesOK(t) /\ PairedIn(t) /\ SlotsDistinct(t)
        /\ \A x \in Players : ShownTo(t, loc, c, x) /\ AgreedBy(t, x)
    BY DEF Sound
  <2> QED
    BY <1>2, <2>1, <2>2, <2>3, OfferChanged
<1> QED
  BY <1>4, <1>5

\* TradeData::SetMoney.
LEMMA SetMoneySound ==
  ASSUME NEW t, NEW c \in [Items -> Nat \ {0}], Sound(t, loc, c),
         NEW p \in Players, t[p] # NoTrade, NEW money \in Nat
  PROVE  /\ Sound(SetMoney(t, p, money, c), loc, c)
         /\ SamePairs(t, SetMoney(t, p, money, c))
<1> DEFINE r == [t[p] EXCEPT !.money = money]
<1>1. t[p] \in Trades
  BY DEF Sound, TradesOK
<1>2. r \in Trades /\ r.trader = t[p].trader /\ r.shown = t[p].shown /\ r.items = t[p].items
  BY <1>1 DEF Trades
<1>3. [t EXCEPT ![p].money = money] = [t EXCEPT ![p] = r]
  BY DEF Sound, TradesOK
<1> HIDE DEF r
<1>4. CASE SetMoney(t, p, money, c) = t
  BY <1>4 DEF SamePairs
<1>5. CASE SetMoney(t, p, money, c) # t
  <2>1. SetMoney(t, p, money, c) = Update(BackToTrade([t EXCEPT ![p] = r], p), p, c)
    BY <1>3, <1>5 DEF SetMoney
  <2>2. \A j, k \in Slots : r.items[j] = r.items[k] => j = k \/ r.items[j] = NoItem
    BY <1>2 DEF Sound, SlotsDistinct
  <2>3. /\ TradesOK(t) /\ PairedIn(t) /\ SlotsDistinct(t)
        /\ \A x \in Players : ShownTo(t, loc, c, x) /\ AgreedBy(t, x)
    BY DEF Sound
  <2> QED
    BY <1>2, <2>1, <2>2, <2>3, OfferChanged
<1> QED
  BY <1>4, <1>5

\* TradeData::SetItem, and the spells it takes back.  The partner's window may
\* be stale when it is called with update: Item::SetCount has just been.
LEMMA SetItemSound ==
  ASSUME NEW t, NEW c \in [Items -> Nat \ {0}], NEW p \in Players, t[p] # NoTrade,
         TradesOK(t), PairedIn(t), SlotsDistinct(t),
         \A x \in Players : ShownTo(t, loc, c, x) \/ x = t[p].trader,
         \A x \in Players : AgreedBy(t, x),
         NEW s \in Slots, NEW i \in Items \cup {NoItem}, NEW update \in BOOLEAN,
         ~update => ShownTo(t, loc, c, t[p].trader),
         \A x \in Slots : t[p].items[x] = i => x = s \/ i = NoItem
  PROVE  /\ Sound(SetItem(t, p, s, i, update, c), loc, c)
         /\ SamePairs(t, SetItem(t, p, s, i, update, c))
<1> DEFINE r == [t[p] EXCEPT !.items[s] = i]
           changed == Update(BackToTrade([t EXCEPT ![p] = r], p), p, c)
           other == IF s = NonTraded THEN SetSpell(changed, t[p].trader, FALSE, c) ELSE changed
<1>1. t[p] \in Trades /\ t[p].items \in [Slots -> Items \cup {NoItem}] /\ t[p].trader \in Players
      /\ t[t[p].trader] # NoTrade
  BY TradeFields DEF TradesOK, PairedIn
<1>2. r \in Trades /\ r.trader = t[p].trader /\ r.shown = t[p].shown /\ r.items = [t[p].items EXCEPT ![s] = i]
  BY <1>1 DEF Trades
<1>3. [t EXCEPT ![p].items[s] = i] = [t EXCEPT ![p] = r]
  BY DEF TradesOK
<1> HIDE DEF r
<1>4. CASE t[p].items[s] = i /\ ~update
  <2>1. SetItem(t, p, s, i, update, c) = t
    BY <1>4 DEF SetItem
  <2>2. \A x \in Players : ShownTo(t, loc, c, x)
    BY <1>4
  <2> QED
    BY <2>1, <2>2 DEF SamePairs, Sound
<1>5. CASE ~(t[p].items[s] = i /\ ~update)
  <2>1. SetItem(t, p, s, i, update, c) = SetSpell(other, p, FALSE, c)
    BY <1>3, <1>5 DEF SetItem
  <2>2. \A j, k \in Slots : r.items[j] = r.items[k] => j = k \/ r.items[j] = NoItem
    BY <1>1, <1>2 DEF SlotsDistinct
  <2>3. Sound(changed, loc, c) /\ SamePairs(t, changed)
    BY <1>2, <2>2, OfferChanged
  <2> HIDE DEF changed
  <2>4. changed[t[p].trader] # NoTrade /\ changed[p] # NoTrade
    BY <1>1, <2>3 DEF SamePairs
  <2>5. Sound(other, loc, c) /\ SamePairs(changed, other)
    <3>1. CASE s = NonTraded
      BY <1>1, <2>3, <2>4, <3>1, SetSpellSound
    <3>2. CASE s # NonTraded
      BY <2>3, <3>2 DEF SamePairs
    <3> QED
      BY <3>1, <3>2
  <2> HIDE DEF other
  <2>6. other[p] # NoTrade
    BY <2>4, <2>5 DEF SamePairs
  <2>7. /\ Sound(SetSpell(other, p, FALSE, c), loc, c)
        /\ SamePairs(other, SetSpell(other, p, FALSE, c))
    BY <2>5, <2>6, SetSpellSound
  <2> QED
    BY <2>1, <2>3, <2>5, <2>7 DEF SamePairs
<1> QED
  BY <1>4, <1>5

\* TradeData::SetAccepted.
LEMMA SetAcceptedSound ==
  ASSUME NEW t, NEW l, NEW c, Sound(t, l, c), NEW p \in Players, t[p] # NoTrade,
         NEW u, u = SetAccepted(t, p, TRUE) \/ u = SetAccepted(t, p, FALSE)
  PROVE  Sound(u, l, c) /\ SamePairs(t, u)
<1>0. TradesOK(t)
  BY DEF Sound
<1>1. /\ TradesOK(u) /\ \A x \in Players \ {p} : u[x] = t[x]
      /\ u[p] \in Trades /\ u[p].trader = t[p].trader /\ u[p].items = t[p].items
      /\ u[p].money = t[p].money /\ u[p].spell = t[p].spell /\ u[p].shown = t[p].shown
  <2>1. CASE u = SetAccepted(t, p, TRUE)
    BY <1>0, <2>1, AcceptFields
  <2>2. CASE u = SetAccepted(t, p, FALSE)
    BY <1>0, <2>2, UnacceptFields
  <2> QED
    BY <2>1, <2>2
<1>2. ~u[p].accepted \/ u[p].agreed = t[p].shown
  <2>1. CASE u = SetAccepted(t, p, TRUE)
    BY <1>0, <2>1, AcceptFields
  <2>2. CASE u = SetAccepted(t, p, FALSE)
    BY <1>0, <2>2, UnacceptFields
  <2> QED
    BY <2>1, <2>2
<1>3. u[p] # NoTrade
  BY <1>1, TradeFields
<1>4. SamePairs(t, u)
  BY <1>1, <1>3 DEF SamePairs
<1>5. \A x \in Players : t[x] # NoTrade => t[x].trader \in Players
  BY TradeFields DEF Sound, TradesOK
<1>6. \A x \in Players : t[x] # NoTrade =>
        /\ u[x].items = t[x].items /\ u[x].money = t[x].money
        /\ u[x].spell = t[x].spell /\ u[x].shown = t[x].shown
  BY <1>1
<1>7. PairedIn(u)
  BY <1>4, <1>5 DEF Sound, SamePairs, PairedIn
<1>8. SlotsDistinct(u)
  BY <1>4, <1>6 DEF Sound, SamePairs, SlotsDistinct
<1>9. ASSUME NEW x \in Players PROVE ShownTo(u, l, c, x)
  <2> SUFFICES ASSUME t[x] # NoTrade PROVE ShownTo(u, l, c, x)
    BY <1>4 DEF SamePairs, ShownTo
  <2>1. t[x].trader \in Players /\ t[t[x].trader] # NoTrade /\ u[x].trader = t[x].trader
    BY <1>4, <1>5 DEF Sound, PairedIn, SamePairs
  <2> QED
    BY <1>6, <2>1 DEF Sound, ShownTo
<1>10. \A x \in Players : AgreedBy(u, x)
  BY <1>1, <1>2 DEF Sound, AgreedBy
<1> QED
  BY <1>1, <1>4, <1>7, <1>8, <1>9, <1>10 DEF Sound

\* SetAccepted(false) on both sides.
LEMMA BackSound ==
  ASSUME NEW t, NEW l, NEW c, Sound(t, l, c), NEW p \in Players, t[p] # NoTrade
  PROVE  Sound(BackToTrade(t, p), l, c) /\ SamePairs(t, BackToTrade(t, p))
<1> DEFINE v == SetAccepted(t, p, FALSE)
           u == SetAccepted(v, t[p].trader, FALSE)
<1>1. Sound(v, l, c) /\ SamePairs(t, v)
  BY SetAcceptedSound
<1> HIDE DEF v
<1>2. t[p].trader \in Players /\ t[t[p].trader] # NoTrade
  BY PartnerFacts DEF Sound
<1>3. v[t[p].trader] # NoTrade
  BY <1>1, <1>2 DEF SamePairs
<1>4. Sound(u, l, c) /\ SamePairs(v, u)
  BY <1>1, <1>2, <1>3, SetAcceptedSound
<1>5. BackToTrade(t, p) = u
  BY DEF BackToTrade, v
<1> HIDE DEF u
<1> QED
  BY <1>1, <1>4, <1>5 DEF SamePairs

\* TradeCancel takes both TradeDatas away; the windows of the others stay true.
LEMMA CancelSound ==
  ASSUME NEW t, NEW l, NEW c, TradesOK(t), PairedIn(t), SlotsDistinct(t),
         NEW p \in Players, t[p] # NoTrade,
         \A x \in Players \ {p, t[p].trader} : ShownTo(t, l, c, x) /\ AgreedBy(t, x)
  PROVE  /\ Sound(TradeCancel(t, p), l, c)
         /\ TradeCancel(t, p)[p] = NoTrade
         /\ \A x \in Players : TradeCancel(t, p)[x] # NoTrade => t[x] # NoTrade
<1> DEFINE q == t[p].trader
           u == [t EXCEPT ![p] = NoTrade, ![q] = NoTrade]
<1>1. q \in Players /\ q # p /\ t[q] # NoTrade /\ t[q].trader = p
  BY PartnerFacts
<1>2. TradeCancel(t, p) = u
  BY DEF TradeCancel
<1> HIDE DEF q
<1>3. /\ u \in [Players -> Trades \cup {NoTrade}]
      /\ u[p] = NoTrade /\ u[q] = NoTrade
      /\ \A x \in Players \ {p, q} : u[x] = t[x]
  BY <1>1 DEF TradesOK
<1> HIDE DEF u
<1>4. ASSUME NEW x \in Players, u[x] # NoTrade
      PROVE  /\ x \notin {p, q} /\ u[x] = t[x] /\ t[x].trader \in Players \ {p, q}
             /\ u[t[x].trader] = t[t[x].trader]
  <2>1. x \notin {p, q} /\ u[x] = t[x] /\ t[x] # NoTrade
    BY <1>3, <1>4
  <2>2. t[x].trader \in Players \ {p, q}
    BY <1>1, <2>1, PartnerFacts DEF q
  <2> QED
    BY <1>3, <2>1, <2>2
<1>5. PairedIn(u)
  BY <1>4 DEF PairedIn
<1>6. SlotsDistinct(u)
  BY <1>4 DEF SlotsDistinct
<1>7. ASSUME NEW x \in Players PROVE ShownTo(u, l, c, x) /\ AgreedBy(u, x)
  <2> SUFFICES ASSUME u[x] # NoTrade PROVE ShownTo(u, l, c, x) /\ AgreedBy(u, x)
    BY DEF ShownTo, AgreedBy
  <2> QED
    BY <1>4 DEF ShownTo, AgreedBy, q
<1> QED
  BY <1>2, <1>3, <1>4, <1>5, <1>6, <1>7 DEF Sound, TradesOK

\* An item leaves the bags: what the windows still claim does not speak of it.
LEMMA ForgetSound ==
  ASSUME NEW t, NEW l \in [Items -> Players \cup {Elsewhere, Nowhere}], NEW c, Sound(t, l, c),
         NEW i \in Items
  PROVE  /\ Sound(Forget(t, i), [l EXCEPT ![i] = Elsewhere], c)
         /\ SamePairs(t, Forget(t, i))
<1> DEFINE u == Forget(t, i)
           k == [l EXCEPT ![i] = Elsewhere]
<1>1. ASSUME NEW view \in Views
      PROVE  /\ Without(view, i) \in Views
             /\ Without(view, i).money = view.money /\ Without(view, i).spell = view.spell
             /\ Without(view, i).items = {pair \in view.items : pair[1] # i}
  <2>1. Without(view, i) = [view EXCEPT !.items = {pair \in view.items : pair[1] # i}]
    BY NullAssumption DEF Without
  <2> QED
    BY <2>1 DEF Views
<1>2. Without(NoView, i) = NoView
  BY DEF Without
<1>3. ASSUME NEW x \in Players, t[x] # NoTrade
      PROVE  /\ u[x] \in Trades /\ u[x].trader = t[x].trader /\ u[x].items = t[x].items
             /\ u[x].money = t[x].money /\ u[x].spell = t[x].spell
             /\ (u[x].accepted <=> t[x].accepted)
             /\ u[x].shown = Without(t[x].shown, i) /\ u[x].agreed = Without(t[x].agreed, i)
  <2>1. t[x] \in Trades /\ t[x].shown \in Views /\ t[x].agreed \in Views \cup {NoView}
    BY <1>3, TradeFields DEF Sound, TradesOK
  <2>2. Without(t[x].shown, i) \in Views /\ Without(t[x].agreed, i) \in Views \cup {NoView}
    BY <1>1, <1>2, <2>1
  <2>3. u[x] = [t[x] EXCEPT !.shown = Without(t[x].shown, i), !.agreed = Without(t[x].agreed, i)]
    BY <1>3 DEF Forget
  <2> QED
    BY <2>1, <2>2, <2>3 DEF Trades
<1>4. \A x \in Players : t[x] = NoTrade => u[x] = NoTrade
  BY DEF Forget
<1>5. u \in [Players -> Trades \cup {NoTrade}]
  <2>1. \A x \in Players : u[x] \in Trades \cup {NoTrade}
    BY <1>3, <1>4
  <2>2. u = [x \in Players |-> u[x]]
    BY DEF Forget
  <2> HIDE DEF u
  <2> QED
    BY <2>1, <2>2
<1> HIDE DEF u
<1>6. SamePairs(t, u)
  BY <1>3, <1>4, TradeFields DEF SamePairs
<1>7. \A x \in Players : t[x] # NoTrade => t[x].trader \in Players
  BY TradeFields DEF Sound, TradesOK
<1>8. PairedIn(u)
  BY <1>6, <1>7 DEF Sound, SamePairs, PairedIn
<1>9. SlotsDistinct(u)
  BY <1>3, <1>6 DEF Sound, SamePairs, SlotsDistinct
<1>10. ASSUME NEW x \in Players PROVE ShownTo(u, k, c, x)
  <2> SUFFICES ASSUME t[x] # NoTrade PROVE ShownTo(u, k, c, x)
    BY <1>6 DEF SamePairs, ShownTo
  <2>1. t[x].trader \in Players /\ t[t[x].trader] # NoTrade /\ t[x].shown \in Views
    BY <1>7, TradeFields DEF Sound, TradesOK, PairedIn
  <2>2. /\ u[x].shown.money = t[x].shown.money /\ u[x].shown.spell = t[x].shown.spell
        /\ u[x].shown.items = {pair \in t[x].shown.items : pair[1] # i}
    BY <1>1, <1>3, <2>1
  <2>3. /\ t[x].shown.money = t[t[x].trader].money
        /\ t[x].shown.spell = t[t[x].trader].spell
        /\ \A pair \in t[x].shown.items :
             /\ l[pair[1]] = t[x].trader
             /\ c[pair[1]] = pair[2]
             /\ \E s \in Traded : t[t[x].trader].items[s] = pair[1]
    BY DEF Sound, ShownTo
  <2>4. \A pair \in t[x].shown.items : pair[1] \in Items
    BY <2>1 DEF Views
  <2>5. \A pair \in u[x].shown.items : k[pair[1]] = l[pair[1]] /\ pair \in t[x].shown.items
    BY <2>2, <2>4
  <2> HIDE DEF k
  <2> QED
    BY <1>3, <2>1, <2>2, <2>3, <2>5 DEF ShownTo
<1>11. \A x \in Players : AgreedBy(u, x)
  BY <1>3, <1>4 DEF Sound, AgreedBy
<1> QED
  BY <1>5, <1>6, <1>8, <1>9, <1>10, <1>11 DEF Sound, TradesOK, u

\* HandleInitiateTradeOpcode gives both players an empty TradeData.
LEMMA InitiateSound ==
  ASSUME NEW t, NEW l, NEW c, Sound(t, l, c), NEW p \in Players, NEW q \in Players,
         p # q, t[p] = NoTrade, t[q] = NoTrade
  PROVE  LET u == [t EXCEPT ![p] = NewTradeData(q), ![q] = NewTradeData(p)] IN
         /\ Sound(u, l, c)
         /\ \A x \in Players : u[x] # NoTrade => t[x] # NoTrade \/ x \in {p, q}
<1> DEFINE u == [t EXCEPT ![p] = NewTradeData(q), ![q] = NewTradeData(p)]
<1>1. ASSUME NEW x \in Players
      PROVE  /\ NewTradeData(x) \in Trades /\ NewTradeData(x).trader = x
             /\ NewTradeData(x).money = 0 /\ NewTradeData(x).spell = FALSE
             /\ ~NewTradeData(x).accepted
             /\ \A s \in Slots : NewTradeData(x).items[s] = NoItem
             /\ NewTradeData(x).shown.items = {}
             /\ NewTradeData(x).shown.money = 0 /\ NewTradeData(x).shown.spell = FALSE
  <2>1. [items |-> {}, money |-> 0, spell |-> FALSE] \in Views
    BY DEF Views
  <2> QED
    BY <2>1 DEF NewTradeData, Trades
<1>2. /\ u \in [Players -> Trades \cup {NoTrade}]
      /\ u[p] = NewTradeData(q) /\ u[q] = NewTradeData(p)
      /\ \A x \in Players \ {p, q} : u[x] = t[x]
  <2>1. NewTradeData(p) \in Trades /\ NewTradeData(q) \in Trades
    BY <1>1
  <2> QED
    BY <2>1 DEF Sound, TradesOK
<1> HIDE DEF u
<1>3. NewTradeData(p) # NoTrade /\ NewTradeData(q) # NoTrade
  BY <1>1, TradeFields
<1>4. ASSUME NEW x \in Players \ {p, q}, t[x] # NoTrade
      PROVE  u[x] = t[x] /\ t[x].trader \in Players /\ u[t[x].trader] = t[t[x].trader]
  <2>1. t[x].trader \in Players /\ t[t[x].trader] # NoTrade
    BY <1>4, PartnerFacts DEF Sound
  <2> QED
    BY <1>2, <2>1
<1>a. ASSUME NEW x \in {p, q}
      PROVE  /\ u[x] # NoTrade /\ ~u[x].accepted /\ \A s \in Slots : u[x].items[s] = NoItem
             /\ u[x].money = 0 /\ u[x].shown.items = {} /\ u[x].shown.money = 0
  <2>1. PICK y \in {p, q} : u[x] = NewTradeData(y)
    BY <1>2
  <2>2. y \in Players
    OBVIOUS
  <2>3. NewTradeData(y) # NoTrade
    BY <1>3
  <2>4. ~NewTradeData(y).accepted
    BY <1>1, <2>2, Zenon
  <2>5. /\ \A s \in Slots : NewTradeData(y).items[s] = NoItem
        /\ NewTradeData(y).money = 0 /\ NewTradeData(y).shown.items = {}
        /\ NewTradeData(y).shown.money = 0
    BY <1>1, <2>2, Zenon
  <2> QED
    BY <2>1, <2>3, <2>4, <2>5
<1>b. u[p].trader = q /\ u[q].trader = p
  BY <1>1, <1>2
<1>c. u[p].shown.spell = u[q].spell /\ u[q].shown.spell = u[p].spell
  <2>1. \A x, y \in Players : NewTradeData(x).shown.spell = NewTradeData(y).spell
    BY <1>1, Zenon
  <2> QED
    BY <1>2, <2>1
<1>5. PairedIn(u)
  <2> SUFFICES ASSUME NEW x \in Players, u[x] # NoTrade
               PROVE  u[x].trader # x /\ u[u[x].trader] # NoTrade /\ u[u[x].trader].trader = x
    BY DEF PairedIn
  <2>1. CASE x \in {p, q}
    BY <1>a, <1>b, <2>1
  <2>2. CASE x \notin {p, q}
    BY <1>2, <1>4, <2>2 DEF Sound, PairedIn
  <2> QED
    BY <2>1, <2>2
<1>6. SlotsDistinct(u)
  <2> SUFFICES ASSUME NEW x \in Players, u[x] # NoTrade, NEW r \in Slots, NEW s \in Slots,
                      u[x].items[r] = u[x].items[s]
               PROVE  r = s \/ u[x].items[r] = NoItem
    BY DEF SlotsDistinct
  <2>1. CASE x \in {p, q}
    BY <1>a, <2>1
  <2>2. CASE x \notin {p, q}
    BY <1>2, <2>2 DEF Sound, SlotsDistinct
  <2> QED
    BY <2>1, <2>2
<1>7. ASSUME NEW x \in Players PROVE ShownTo(u, l, c, x)
  <2>1. CASE x \in {p, q}
    <3>1. u[x].trader \in {p, q} /\ u[x].trader # x
      BY <1>b, <2>1
    <3>2. u[x].shown.items = {} /\ u[x].shown.money = u[u[x].trader].money
      BY <1>a, <2>1, <3>1
    <3>3. u[x].shown.spell = u[u[x].trader].spell
      BY <1>b, <1>c, <2>1
    <3> QED
      BY <3>2, <3>3 DEF ShownTo
  <2>2. CASE x \notin {p, q}
    BY <1>2, <1>4, <2>2 DEF Sound, ShownTo
  <2> QED
    BY <2>1, <2>2
<1>8. ASSUME NEW x \in Players PROVE AgreedBy(u, x)
  <2>1. CASE x \in {p, q}
    BY <1>a, <2>1 DEF AgreedBy
  <2>2. CASE x \notin {p, q}
    BY <1>2, <2>2 DEF Sound, AgreedBy
  <2> QED
    BY <2>1, <2>2
<1> QED
  BY <1>2, <1>5, <1>6, <1>7, <1>8 DEF Sound, TradesOK, u

\* Items move or change where no window speaks of them.
LEMMA UnseenSound ==
  ASSUME NEW t, NEW l, NEW c, NEW k, NEW d, Sound(t, l, c),
         \A x \in Players : t[x] # NoTrade =>
           \A pair \in t[x].shown.items : k[pair[1]] = l[pair[1]] /\ d[pair[1]] = c[pair[1]]
  PROVE  Sound(t, k, d)
<1>1. ASSUME NEW x \in Players PROVE ShownTo(t, k, d, x)
  BY DEF Sound, ShownTo
<1> QED
  BY <1>1 DEF Sound

\* Item::SetCount shows the new count to the partner if the item is offered.
LEMMA SetCountSound ==
  ASSUME IInv, NEW i \in Items, NEW n \in 1..(count[i] - 1), SetCount(i, n)
  PROVE  Sound(trade', loc, count') /\ SamePairs(trade, trade') /\ count' \in [Items -> Nat \ {0}]
<1> DEFINE p == loc[i]
<1>1. p \in Players /\ count' = [count EXCEPT ![i] = n]
  BY DEF SetCount
<1>2. count[i] \in Nat \ {0}
  BY DEF IInv, BagsOK
<1>3. n \in Nat \ {0}
  BY <1>2
<1>4. count' \in [Items -> Nat \ {0}] /\ \A j \in Items \ {i} : count'[j] = count[j]
  BY <1>1, <1>3 DEF IInv, BagsOK
<1>5. Sound(trade, loc, count)
  BY DEF IInv
<1>6. \A x \in Players : trade[x] # NoTrade =>
        /\ trade[x].trader \in Players /\ trade[trade[x].trader] # NoTrade
        /\ trade[trade[x].trader].trader = x
  BY <1>5, PartnerFacts DEF Sound
<1>7. ASSUME NEW x \in Players, trade[x] # NoTrade, NEW pair \in trade[x].shown.items,
             pair[1] = i
      PROVE  trade[x].trader = p /\ \E s \in Traded : trade[p].items[s] = i
  BY <1>5, <1>7 DEF Sound, ShownTo
<1>8. ASSUME NEW x \in Players, trade[x] # NoTrade, NEW pair \in trade[x].shown.items
      PROVE  pair[1] \in Items
  <2>1. trade[x].shown \in Views
    BY <1>5, <1>8, TradeFields DEF Sound, TradesOK
  <2> QED
    BY <2>1 DEF Views
<1> DEFINE slot == IF trade[p] = NoTrade THEN {} ELSE {s \in Slots : trade[p].items[s] = i}
<1>9. CASE slot = {} /\ trade' = trade
  <2>1. ASSUME NEW x \in Players, trade[x] # NoTrade, NEW pair \in trade[x].shown.items
        PROVE  loc[pair[1]] = loc[pair[1]] /\ count'[pair[1]] = count[pair[1]]
    <3>1. Traded \subseteq Slots
      BY TradeAssumption DEF Traded, Slots
    <3>2. pair[1] # i
      BY <1>6, <1>7, <1>9, <2>1, <3>1
    <3> QED
      BY <1>4, <1>8, <2>1, <3>2
  <2>2. Sound(trade, loc, count')
    BY <1>5, <2>1, UnseenSound
  <2> QED
    BY <1>4, <1>9, <2>2 DEF SamePairs
<1>10. CASE \E s \in slot : trade' = SetItem(trade, p, s, i, TRUE, count')
  <2>1. PICK s \in slot : trade' = SetItem(trade, p, s, i, TRUE, count')
    BY <1>10
  <2>2. trade[p] # NoTrade /\ s \in Slots /\ trade[p].items[s] = i
    BY <2>1
  <2>3. i # NoItem
    BY NullAssumption
  <2>4. \A x \in Slots : trade[p].items[x] = i => x = s
    BY <1>1, <1>5, <2>2, <2>3 DEF Sound, SlotsDistinct
  <2>5. ASSUME NEW x \in Players, x # trade[p].trader
        PROVE  ShownTo(trade, loc, count', x)
    <3> SUFFICES ASSUME trade[x] # NoTrade PROVE ShownTo(trade, loc, count', x)
      BY DEF ShownTo
    <3>1. trade[x].trader # p
      BY <1>6, <2>5
    <3>2. \A pair \in trade[x].shown.items : count'[pair[1]] = count[pair[1]]
      BY <1>4, <1>7, <1>8, <3>1
    <3> QED
      BY <1>5, <3>2 DEF Sound, ShownTo
  <2>6. /\ TradesOK(trade) /\ PairedIn(trade) /\ SlotsDistinct(trade)
        /\ \A x \in Players : AgreedBy(trade, x)
    BY <1>5 DEF Sound
  <2> HIDE DEF slot, p
  <2>7. /\ Sound(SetItem(trade, p, s, i, TRUE, count'), loc, count')
        /\ SamePairs(trade, SetItem(trade, p, s, i, TRUE, count'))
    BY <1>1, <1>4, <2>2, <2>4, <2>5, <2>6, SetItemSound
  <2> QED
    BY <1>4, <2>1, <2>7
<1> QED
  BY <1>9, <1>10 DEF SetCount

-----------------------------------------------------------------------------
(* moveItems                                                                *)

Places == Players \cup {Elsewhere, Nowhere}
Boards == [loc : [Items -> Places], clones : [Players -> Nat]]

\* A set of naturals has a least element.
LEMMA LeastNatural ==
  ASSUME NEW T \in SUBSET Nat, T # {}
  PROVE  \E x \in T : \A y \in T : x <= y
<1> DEFINE R == {ss \in Nat \X Nat : ss[1] < ss[2]}
<1>1. IsWellFoundedOn(R, Nat)
  BY NatLessThanWellFounded DEF OpToRel
<1>2. \A x, y \in Nat : y < x => <<y, x>> \in R
  OBVIOUS
<1> HIDE DEF R
<1>3. PICK x \in T : \A y \in T : <<y, x>> \notin R
  BY <1>1, WFMin
<1>4. \A y \in T : y \in Nat /\ x \in Nat /\ ~(y < x)
  BY <1>2, <1>3
<1>5. \A y \in T : x <= y
  BY <1>4
<1> QED
  BY <1>5

\* Induction over the slots, with the set of those that have been reached.
LEMMA SlotInduction ==
  ASSUME NEW n \in Nat, NEW S, 0 \in S, \A k \in 0..(n - 1) : k \in S => k + 1 \in S
  PROVE  \A k \in 0..n : k \in S
<1> DEFINE T == {k \in 0..n : k \notin S}
<1>1. SUFFICES ASSUME T # {} PROVE FALSE
  OBVIOUS
<1>2. T \in SUBSET Nat
  OBVIOUS
<1>3. PICK x \in T : \A y \in T : x <= y
  <2> HIDE DEF T
  <2> QED
    BY <1>1, <1>2, LeastNatural
<1>4. x # 0 /\ x - 1 \in 0..(n - 1) /\ x - 1 \in 0..n /\ ~(x <= x - 1)
  BY <1>3
<1>5. x - 1 \in S /\ (x - 1) + 1 = x
  BY <1>3, <1>4
<1> QED
  BY <1>3, <1>4, <1>5

\* One slot of moveItems, from the board b.
SlotMoved(b, p, q, s) == MoveSlot(b, p, q, GetItem(trade, p, s - 1), GetItem(trade, q, s - 1))

Removed(p, q) ==
  [loc |-> [i \in Items |-> IF i \in Offered(trade, p) \cup Offered(trade, q) THEN Nowhere ELSE loc[i]],
   clones |-> clones]

\* The boards after each slot, as moveItems computes them.
Moved(p, q) ==
  CHOOSE f : f = [s \in 0..NonTraded |-> IF s = 0 THEN Removed(p, q) ELSE SlotMoved(f[s - 1], p, q, s)]

\* moveItems is the board after the last slot.
LEMMA MovedIsMoveItems ==
  ASSUME NEW p, NEW q
  PROVE  moveItems(p, q) = Moved(p, q)[NonTraded]
BY DEF moveItems, Moved, Removed, SlotMoved

\* The loop of moveItems computes what each of its slots does to the board
\* before it.
LEMMA MovedSlots ==
  ASSUME NEW p, NEW q
  PROVE  /\ Moved(p, q)[0] = Removed(p, q)
         /\ \A s \in 1..NonTraded : Moved(p, q)[s] = SlotMoved(Moved(p, q)[s - 1], p, q, s)
<1> DEFINE Upto(n, g) == g = [s \in 0..n |-> IF s = 0 THEN Removed(p, q) ELSE SlotMoved(g[s - 1], p, q, s)]
           S == {n \in Nat : \E g : Upto(n, g)}
<1>0. NonTraded \in Nat /\ NonTraded \in 0..NonTraded
  BY TradeAssumption
<1>1. 0 \in S
  <2> DEFINE g == [s \in 0..0 |-> Removed(p, q)]
  <2>1. Upto(0, g)
    OBVIOUS
  <2> QED
    BY <2>1
<1>2. ASSUME NEW n \in 0..(NonTraded - 1), n \in S PROVE n + 1 \in S
  <2>1. PICK g : Upto(n, g)
    BY <1>2
  <2> DEFINE h == [s \in 0..(n + 1) |-> IF s = n + 1 THEN SlotMoved(g[n], p, q, s) ELSE g[s]]
  <2>2. ASSUME NEW s \in 0..(n + 1)
        PROVE  h[s] = IF s = 0 THEN Removed(p, q) ELSE SlotMoved(h[s - 1], p, q, s)
    <3>1. CASE s = n + 1
      <4>1. s # 0 /\ s - 1 = n /\ n \in 0..(n + 1) /\ n # n + 1
        BY <1>0, <3>1
      <4>2. h[n] = g[n]
        BY <4>1
      <4> QED
        BY <3>1, <4>1, <4>2
    <3>2. CASE s # n + 1
      <4>1. s \in 0..n
        BY <1>0, <3>2
      <4>2. g[s] = IF s = 0 THEN Removed(p, q) ELSE SlotMoved(g[s - 1], p, q, s)
        BY <2>1, <4>1, Zenon
      <4>3. h[s] = g[s]
        BY <3>2
      <4>4. s # 0 => s - 1 \in 0..(n + 1) /\ s - 1 # n + 1
        BY <1>0, <4>1
      <4>5. s # 0 => h[s - 1] = g[s - 1]
        BY <4>4
      <4> QED
        BY <4>2, <4>3, <4>5
    <3> QED
      BY <3>1, <3>2
  <2>3. Upto(n + 1, h)
    BY <2>2, Zenon
  <2>4. n + 1 \in Nat
    BY <1>0
  <2> HIDE DEF Upto, h
  <2> QED
    BY <2>3, <2>4
<1>3. NonTraded \in S
  <2> HIDE DEF S
  <2> QED
    BY <1>0, <1>1, <1>2, SlotInduction
<1>4. Upto(NonTraded, Moved(p, q))
  <2>1. \E g : Upto(NonTraded, g)
    BY <1>3
  <2> QED
    BY <2>1, Zenon DEF Moved
<1>5. \A s \in 0..NonTraded :
        Moved(p, q)[s] = IF s = 0 THEN Removed(p, q) ELSE SlotMoved(Moved(p, q)[s - 1], p, q, s)
  BY <1>4, Zenon
<1>6. 0 \in 0..NonTraded /\ \A s \in 1..NonTraded : s \in 0..NonTraded /\ s # 0
  BY <1>0
<1> QED
  BY <1>5, <1>6

\* A board stays a board when an item is stored, with or without clones, and
\* nothing else moves.
LEMMA StoreFacts ==
  ASSUME NEW b \in Boards, NEW p \in Players, NEW i \in Items \cup {NoItem}, NEW reserved \in Nat
  PROVE  /\ Store(b, p, i, reserved) \in Boards
         /\ \A j \in Items : j # i => Store(b, p, i, reserved).loc[j] = b.loc[j]
<1>1. b.loc \in [Items -> Places] /\ b.clones \in [Players -> Nat]
  BY DEF Boards
<1>2. CASE i = NoItem
  BY <1>2 DEF Store
<1>3. CASE i # NoItem
  <2> DEFINE l == [b.loc EXCEPT ![i] = p]
             n == [b.clones EXCEPT ![p] = @ + reserved]
  <2>1. l \in [Items -> Places] /\ \A j \in Items : j # i => l[j] = b.loc[j]
    BY <1>1 DEF Places
  <2>2. n \in [Players -> Nat]
    BY <1>1
  <2>3. Store(b, p, i, reserved) = [loc |-> l, clones |-> n]
    BY <1>3 DEF Store
  <2> HIDE DEF l, n
  <2> QED
    BY <2>1, <2>2, <2>3 DEF Boards
<1> QED
  BY <1>2, <1>3

\* One slot of moveItems moves the two items of the slot and nothing else.
LEMMA MoveSlotFacts ==
  ASSUME NEW b \in Boards, NEW p \in Players, NEW q \in Players,
         NEW mine \in Items \cup {NoItem}, NEW his \in Items \cup {NoItem}
  PROVE  /\ MoveSlot(b, p, q, mine, his) \in Boards
         /\ \A j \in Items \ {mine, his} : MoveSlot(b, p, q, mine, his).loc[j] = b.loc[j]
<1>1. ASSUME NEW a \in Boards, NEW x \in Players, NEW i \in Items \cup {NoItem}, NEW r \in {0, 1}
      PROVE  /\ TakeBack(a, x, i, r) \in Boards
             /\ \A j \in Items : j # i => TakeBack(a, x, i, r).loc[j] = a.loc[j]
  <2>1. r \in Nat
    OBVIOUS
  <2> QED
    BY <2>1, StoreFacts DEF TakeBack
<1>2. Store(b, q, mine, 0) \in Boards /\ \A j \in Items : j # mine => Store(b, q, mine, 0).loc[j] = b.loc[j]
  BY StoreFacts
<1>3. /\ Store(Store(b, q, mine, 0), p, his, 0) \in Boards
      /\ \A j \in Items \ {mine, his} : Store(Store(b, q, mine, 0), p, his, 0).loc[j] = b.loc[j]
  BY <1>2, StoreFacts
<1>4. ASSUME NEW r1 \in {0, 1}, NEW r2 \in {0, 1}
      PROVE  /\ TakeBack(TakeBack(b, p, mine, r1), q, his, r2) \in Boards
             /\ \A j \in Items \ {mine, his} :
                  TakeBack(TakeBack(b, p, mine, r1), q, his, r2).loc[j] = b.loc[j]
  <2> DEFINE a == TakeBack(b, p, mine, r1)
  <2>1. a \in Boards /\ \A j \in Items : j # mine => a.loc[j] = b.loc[j]
    BY <1>1
  <2> HIDE DEF a
  <2>2. /\ TakeBack(a, q, his, r2) \in Boards
        /\ \A j \in Items : j # his => TakeBack(a, q, his, r2).loc[j] = a.loc[j]
    BY <1>1, <2>1
  <2> QED
    BY <2>1, <2>2 DEF a
<1>5. \/ MoveSlot(b, p, q, mine, his) = Store(Store(b, q, mine, 0), p, his, 0)
      \/ \E r1, r2 \in {0, 1} :
           MoveSlot(b, p, q, mine, his) = TakeBack(TakeBack(b, p, mine, r1), q, his, r2)
  <2> DEFINE good == /\ mine = NoItem \/ CanStoreItem(b, q, mine, 0)
                     /\ his = NoItem \/ CanStoreItem(b, p, his, 0)
             r1 == IF (his = NoItem \/ CanStoreItem(b, p, his, 0)) /\ his # NoItem THEN 1 ELSE 0
             r2 == IF (mine = NoItem \/ CanStoreItem(b, q, mine, 0)) /\ mine # NoItem THEN 1 ELSE 0
  <2>1. r1 \in {0, 1} /\ r2 \in {0, 1}
    OBVIOUS
  <2>2. good => MoveSlot(b, p, q, mine, his) = Store(Store(b, q, mine, 0), p, his, 0)
    BY DEF MoveSlot
  <2>3. ~good => MoveSlot(b, p, q, mine, his) = TakeBack(TakeBack(b, p, mine, r1), q, his, r2)
    BY Zenon DEF MoveSlot
  <2> HIDE DEF good, r1, r2
  <2> QED
    BY <2>1, <2>2, <2>3
<1> QED
  BY <1>3, <1>4, <1>5

\* What lies in a traded slot is an item in the owner's bags, or nothing.
LEMMA GetItemFacts ==
  ASSUME TradesOK(trade), NEW p \in Players, trade[p] # NoTrade, NEW s \in Traded
  PROVE  /\ GetItem(trade, p, s) \in Items \cup {NoItem}
         /\ GetItem(trade, p, s) # NoItem =>
              /\ loc[GetItem(trade, p, s)] = p
              /\ GetItem(trade, p, s) = trade[p].items[s]
              /\ GetItem(trade, p, s) \in Offered(trade, p)
<1>1. trade[p].items \in [Slots -> Items \cup {NoItem}]
  BY TradeFields DEF TradesOK
<1>2. s \in Slots
  BY TradeAssumption DEF Traded, Slots
<1>3. trade[p].items[s] \in Items \cup {NoItem}
  BY <1>1, <1>2
<1>4. GetItem(trade, p, s) # NoItem => GetItem(trade, p, s) \in Offered(trade, p)
  BY DEF Offered
<1>5. GetItem(trade, p, s) = NoItem \/ (GetItem(trade, p, s) = trade[p].items[s] /\ loc[trade[p].items[s]] = p)
  BY DEF GetItem
<1> QED
  BY <1>3, <1>4, <1>5

\* moveItems moves items of the two traders only, wherever they end.
LEMMA MoveItemsFacts ==
  ASSUME IInv, NEW p \in Players, NEW q \in Players, trade[p] # NoTrade, trade[q] # NoTrade
  PROVE  /\ moveItems(p, q) \in Boards
         /\ \A j \in Items : loc[j] \notin {p, q} => moveItems(p, q).loc[j] = loc[j]
<1> DEFINE Near(b) == /\ b \in Boards
                      /\ \A j \in Items : loc[j] \notin {p, q} => b.loc[j] = loc[j]
           S == {n \in 0..NonTraded : Near(Moved(p, q)[n])}
<1>0. NonTraded \in Nat /\ NonTraded \in 0..NonTraded /\ TradesOK(trade)
  BY TradeAssumption DEF IInv, Sound
<1>1. Near(Removed(p, q))
  <2> DEFINE l == [i \in Items |-> IF i \in Offered(trade, p) \cup Offered(trade, q) THEN Nowhere ELSE loc[i]]
  <2>1. \A i \in Offered(trade, p) \cup Offered(trade, q) : loc[i] \in {p, q}
    BY DEF Offered, GetItem
  <2>2. loc \in [Items -> Places] /\ clones \in [Players -> Nat]
    BY DEF IInv, BagsOK, Places
  <2>3. l \in [Items -> Places]
    BY <2>2 DEF Places
  <2>4. \A j \in Items : loc[j] \notin {p, q} => l[j] = loc[j]
    BY <2>1
  <2>5. Removed(p, q) = [loc |-> l, clones |-> clones]
    BY DEF Removed
  <2> HIDE DEF l
  <2> QED
    BY <2>2, <2>3, <2>4, <2>5 DEF Boards
<1>2. ASSUME NEW b, Near(b), NEW s \in 1..NonTraded PROVE Near(SlotMoved(b, p, q, s))
  <2>1. s - 1 \in Traded
    BY <1>0 DEF Traded
  <2> DEFINE mine == GetItem(trade, p, s - 1)
             his == GetItem(trade, q, s - 1)
  <2>2. mine \in Items \cup {NoItem} /\ his \in Items \cup {NoItem}
    BY <1>0, <2>1, GetItemFacts
  <2>3. \A j \in Items : loc[j] \notin {p, q} => j \notin {mine, his}
    <3>1. mine # NoItem => loc[mine] = p
      BY <1>0, <2>1, GetItemFacts
    <3>2. his # NoItem => loc[his] = q
      BY <1>0, <2>1, GetItemFacts
    <3> QED
      BY <3>1, <3>2, NullAssumption
  <2>4. SlotMoved(b, p, q, s) = MoveSlot(b, p, q, mine, his)
    BY DEF SlotMoved
  <2> HIDE DEF mine, his
  <2>5. /\ MoveSlot(b, p, q, mine, his) \in Boards
        /\ \A j \in Items \ {mine, his} : MoveSlot(b, p, q, mine, his).loc[j] = b.loc[j]
    BY <1>2, <2>2, MoveSlotFacts
  <2> QED
    BY <1>2, <2>3, <2>4, <2>5
<1> HIDE DEF Near
<1>3. 0 \in S
  BY <1>0, <1>1, MovedSlots
<1>4. ASSUME NEW n \in 0..(NonTraded - 1), n \in S PROVE n + 1 \in S
  <2>1. n + 1 \in 1..NonTraded /\ (n + 1) - 1 = n /\ n + 1 \in 0..NonTraded
    BY <1>0
  <2>2. Moved(p, q)[n + 1] = SlotMoved(Moved(p, q)[n], p, q, n + 1)
    BY <2>1, MovedSlots
  <2>3. Near(Moved(p, q)[n])
    BY <1>4
  <2> QED
    BY <1>2, <2>1, <2>2, <2>3
<1>5. NonTraded \in S
  <2> HIDE DEF S
  <2> QED
    BY <1>0, <1>3, <1>4, SlotInduction
<1> QED
  BY <1>5, MovedIsMoveItems DEF Near

-----------------------------------------------------------------------------
(* The purse                                                                *)

\* ModifyMoney keeps a purse below MAX_MONEY_AMOUNT, whatever the amount.
LEMMA ModifyMoneyType ==
  ASSUME NEW g \in 0..(MaxMoney - 1), NEW amount \in Int
  PROVE  ModifyMoney(g, amount) \in 0..(MaxMoney - 1)
<1>1. MaxMoney \in Nat \ {0} /\ g \in Nat /\ g < MaxMoney
  BY TradeAssumption
<1>2. CASE amount < 0
  BY <1>1, <1>2 DEF ModifyMoney
<1>3. CASE ~(amount < 0)
  BY <1>1, <1>3 DEF ModifyMoney
<1> QED
  BY <1>2, <1>3

\* Where the purse holds what is given and has room for what is received,
\* ModifyMoney neither floors nor drops anything.
LEMMA PayExact ==
  ASSUME NEW g \in Nat, NEW given \in Nat, NEW received \in Nat,
         given <= g, g < MaxMoney - received
  PROVE  Pay(g, given, received) = g - given + received
<1>1. MaxMoney \in Nat
  BY TradeAssumption
<1>2. ModifyMoney(g, -given) = g - given
  <2>1. CASE given = 0
    BY <1>1, <2>1 DEF ModifyMoney
  <2>2. CASE given # 0
    BY <1>1, <2>2 DEF ModifyMoney
  <2> QED
    BY <2>1, <2>2
<1>3. ModifyMoney(g - given, received) = g - given + received
  BY <1>1 DEF ModifyMoney
<1> QED
  BY <1>2, <1>3 DEF Pay

\* What the four checks of the gold rule out.
LEMMA UncheckedFacts ==
  ASSUME NEW p, NEW q, Unchecked(p, q)
  PROVE  /\ ~(gold[p] < trade[p].money) /\ ~(gold[q] < trade[q].money)
         /\ ~(gold[p] >= MaxMoney - trade[q].money) /\ ~(gold[q] >= MaxMoney - trade[p].money)
BY Zenon DEF Unchecked, ShortOfGold

-----------------------------------------------------------------------------
(* The invariant                                                            *)

\* No trade is open and everybody is online at the start.
LEMMA InitIInv == Init => IInv
<1> SUFFICES ASSUME Init PROVE IInv
  OBVIOUS
<1>1. BagsOK
  BY TradeAssumption DEF Init, BagsOK
<1>2. \A p \in Players : trade[p] = NoTrade
  BY DEF Init
<1>3. TradesOK(trade)
  BY DEF Init, TradesOK
<1>4. Sound(trade, loc, count)
  BY <1>2, <1>3 DEF Sound, PairedIn, SlotsDistinct, ShownTo, AgreedBy
<1> QED
  BY <1>1, <1>2, <1>4 DEF IInv, TradersOnline

\* A step of the trade alone, among the same pairs.
LEMMA TradeStep ==
  ASSUME IInv, Sound(trade', loc, count), SamePairs(trade, trade'),
         UNCHANGED <<online, loc, count, gold, clones>>
  PROVE  IInv'
BY DEF IInv, BagsOK, TradersOnline, SamePairs

\* HandleInitiateTradeOpcode asks for a partner who is online and free.
LEMMA InitiateIInv ==
  ASSUME IInv, NEW p \in Players, NEW q \in Players, HandleInitiateTrade(p, q)
  PROVE  IInv'
<1>1. /\ p # q /\ p \in online /\ q \in online /\ trade[p] = NoTrade /\ trade[q] = NoTrade
      /\ trade' = [trade EXCEPT ![p] = NewTradeData(q), ![q] = NewTradeData(p)]
      /\ online' = online /\ loc' = loc /\ count' = count /\ gold' = gold /\ clones' = clones
  BY DEF HandleInitiateTrade
<1>2. Sound(trade, loc, count)
  BY DEF IInv
<1>3. /\ Sound(trade', loc, count)
      /\ \A x \in Players : trade'[x] # NoTrade => trade[x] # NoTrade \/ x \in {p, q}
  BY <1>1, <1>2, InitiateSound
<1> QED
  BY <1>1, <1>3 DEF IInv, BagsOK, TradersOnline

\* The opcodes that change an offer, an accept or a trade of p.
LEMMA OffersIInv ==
  ASSUME IInv, NEW p \in Players, Offers(p)
  PROVE  IInv'
<1>0. /\ Sound(trade, loc, count) /\ TradesOK(trade) /\ PairedIn(trade) /\ SlotsDistinct(trade)
      /\ \A x \in Players : ShownTo(trade, loc, count, x) /\ AgreedBy(trade, x)
      /\ count \in [Items -> Nat \ {0}]
  BY DEF IInv, Sound, BagsOK
<1>1. ASSUME NEW s \in Slots, HandleClearTradeItem(p, s) PROVE IInv'
  <2>1. /\ trade[p] # NoTrade /\ trade' = SetItem(trade, p, s, NoItem, FALSE, count)
        /\ UNCHANGED <<online, loc, count, gold, clones>>
    BY <1>1 DEF HandleClearTradeItem
  <2>2. trade[p].trader \in Players
    BY <1>0, <2>1, PartnerFacts
  <2>3. Sound(trade', loc, count) /\ SamePairs(trade, trade')
    BY <1>0, <2>1, <2>2, SetItemSound
  <2> QED
    BY <2>1, <2>3, TradeStep
<1>2. ASSUME NEW s \in Slots, NEW i \in Items, HandleSetTradeItem(p, s, i) PROVE IInv'
  <2>1. /\ trade[p] # NoTrade /\ \A x \in Slots : trade[p].items[x] # i
        /\ trade' = SetItem(trade, p, s, i, FALSE, count)
        /\ UNCHANGED <<online, loc, count, gold, clones>>
    BY <1>2 DEF HandleSetTradeItem
  <2>2. trade[p].trader \in Players
    BY <1>0, <2>1, PartnerFacts
  <2>3. Sound(trade', loc, count) /\ SamePairs(trade, trade')
    BY <1>0, <2>1, <2>2, SetItemSound
  <2> QED
    BY <2>1, <2>3, TradeStep
<1>3. ASSUME NEW money \in 0..MaxMoney, HandleSetTradeGold(p, money) PROVE IInv'
  <2>1. /\ trade[p] # NoTrade /\ trade' = SetMoney(trade, p, money, count)
        /\ UNCHANGED <<online, loc, count, gold, clones>>
    BY <1>3 DEF HandleSetTradeGold
  <2>2. money \in Nat
    OBVIOUS
  <2>3. Sound(trade', loc, count) /\ SamePairs(trade, trade')
    BY <1>0, <2>1, <2>2, SetMoneySound
  <2> QED
    BY <2>1, <2>3, TradeStep
<1>4. CASE CastInTrade(p)
  <2>1. /\ trade[p] # NoTrade /\ trade' = SetSpell(trade, p, TRUE, count)
        /\ UNCHANGED <<online, loc, count, gold, clones>>
    BY <1>4 DEF CastInTrade
  <2>2. Sound(trade', loc, count) /\ SamePairs(trade, trade')
    BY <1>0, <2>1, SetSpellSound
  <2> QED
    BY <2>1, <2>2, TradeStep
<1>5. CASE HandleUnacceptTrade(p)
  <2>1. /\ trade[p] # NoTrade /\ trade' = SetAccepted(trade, p, FALSE)
        /\ UNCHANGED <<online, loc, count, gold, clones>>
    BY <1>5 DEF HandleUnacceptTrade
  <2>2. Sound(trade', loc, count) /\ SamePairs(trade, trade')
    BY <1>0, <2>1, SetAcceptedSound
  <2> QED
    BY <2>1, <2>2, TradeStep
<1>6. CASE HandleCancelTrade(p)
  <2>1. /\ trade[p] # NoTrade /\ trade' = TradeCancel(trade, p)
        /\ online' = online /\ loc' = loc /\ count' = count /\ gold' = gold /\ clones' = clones
    BY <1>6 DEF HandleCancelTrade
  <2>2. /\ Sound(trade', loc, count)
        /\ \A x \in Players : trade'[x] # NoTrade => trade[x] # NoTrade
    BY <1>0, <2>1, CancelSound
  <2> QED
    BY <2>1, <2>2 DEF IInv, BagsOK, TradersOnline
<1> QED
  BY <1>1, <1>2, <1>3, <1>4, <1>5, <1>6 DEF Offers

\* An accept that does not complete the trade.
LEMMA AcceptsIInv ==
  ASSUME IInv, NEW p \in Players, NEW q \in Players,
         \/ AcceptTooFar(p, q) \/ AcceptShortOfGold(p, q) \/ AcceptWaits(p, q)
         \/ AcceptSpellFails(p, q) \/ AcceptNoSpace(p, q)
  PROVE  IInv'
<1>0. Sound(trade, loc, count) /\ count \in [Items -> Nat \ {0}]
  BY DEF IInv, BagsOK
<1>1. trade[p] # NoTrade /\ trade[q] # NoTrade /\ UNCHANGED <<online, loc, count, gold, clones>>
  BY DEF Accepting, AcceptTooFar, AcceptShortOfGold, AcceptWaits, AcceptSpellFails, AcceptNoSpace
<1> DEFINE t == SetAccepted(trade, p, TRUE)
<1>2. Sound(t, loc, count) /\ SamePairs(trade, t)
  BY <1>0, <1>1, SetAcceptedSound
<1> HIDE DEF t
<1>3. t[p] # NoTrade /\ t[q] # NoTrade
  BY <1>1, <1>2 DEF SamePairs
<1>4. CASE AcceptTooFar(p, q)
  <2>1. Sound(trade', loc, count) /\ SamePairs(trade, trade')
    BY <1>0, <1>1, <1>4, SetAcceptedSound DEF AcceptTooFar
  <2> QED
    BY <1>1, <2>1, TradeStep
<1>5. CASE AcceptShortOfGold(p, q)
  <2>1. PICK x \in ShortOfGold(trade, p, q) : trade' = SetAccepted(t, x, FALSE)
    BY <1>5 DEF AcceptShortOfGold, t
  <2>2. x \in {p, q}
    BY Zenon DEF ShortOfGold
  <2>3. x \in Players /\ t[x] # NoTrade
    BY <1>3, <2>2
  <2>4. Sound(trade', loc, count) /\ SamePairs(t, trade')
    BY <1>2, <2>1, <2>3, SetAcceptedSound
  <2>5. SamePairs(trade, trade')
    BY <1>2, <2>4 DEF SamePairs
  <2> QED
    BY <1>1, <2>4, <2>5, TradeStep
<1>6. CASE AcceptWaits(p, q)
  <2>1. trade' = t
    BY <1>6 DEF AcceptWaits, t
  <2> QED
    BY <1>1, <1>2, <2>1, TradeStep
<1>7. CASE AcceptSpellFails(p, q)
  <2>1. PICK x \in {p, q} : trade' = SetSpell(t, x, FALSE, count)
    BY <1>7 DEF AcceptSpellFails, t
  <2>2. x \in Players /\ t[x] # NoTrade
    BY <1>3
  <2>3. Sound(trade', loc, count) /\ SamePairs(t, trade')
    BY <1>0, <1>2, <2>1, <2>2, SetSpellSound
  <2>4. SamePairs(trade, trade')
    BY <1>2, <2>3 DEF SamePairs
  <2> QED
    BY <1>1, <2>3, <2>4, TradeStep
<1>8. CASE AcceptNoSpace(p, q)
  <2>1. Sound(trade', loc, count) /\ SamePairs(trade, trade')
    BY <1>0, <1>1, <1>8, BackSound DEF AcceptNoSpace
  <2> QED
    BY <1>1, <2>1, TradeStep
<1> QED
  BY <1>4, <1>5, <1>6, <1>7, <1>8

\* The exchange moves the items of the two traders, whose windows close.
LEMMA ExchangeIInv ==
  ASSUME IInv, NEW p \in Players, NEW q \in Players, Exchange(p, q)
  PROVE  IInv'
<1>0. /\ Sound(trade, loc, count) /\ TradesOK(trade) /\ PairedIn(trade) /\ SlotsDistinct(trade)
      /\ \A x \in Players : ShownTo(trade, loc, count, x) /\ AgreedBy(trade, x)
  BY DEF IInv, Sound
<1>1. /\ trade[p] # NoTrade /\ trade[p].trader = q /\ trade[q] # NoTrade
      /\ loc' = moveItems(p, q).loc /\ clones' = moveItems(p, q).clones
      /\ trade' = TradeCancel(trade, p) /\ online' = online /\ count' = count
      /\ gold' = [gold EXCEPT ![p] = Pay(@, trade[p].money, trade[q].money),
                              ![q] = Pay(@, trade[q].money, trade[p].money)]
  BY DEF Exchange, Accepting
<1>2. /\ moveItems(p, q) \in Boards
      /\ \A j \in Items : loc[j] \notin {p, q} => moveItems(p, q).loc[j] = loc[j]
  BY <1>1, MoveItemsFacts
<1>3. /\ loc' \in [Items -> Players \cup {Elsewhere, Nowhere}] /\ clones' \in [Players -> Nat]
      /\ \A j \in Items : loc[j] \notin {p, q} => loc'[j] = loc[j]
  BY <1>1, <1>2 DEF Boards, Places
<1>4. gold' \in [Players -> 0..(MaxMoney - 1)]
  <2>1. trade[p].money \in Nat /\ trade[q].money \in Nat
    BY <1>0, <1>1, TradeFields DEF TradesOK
  <2>2. ASSUME NEW g \in 0..(MaxMoney - 1), NEW m \in Nat, NEW n \in Nat
        PROVE  Pay(g, m, n) \in 0..(MaxMoney - 1)
    <3>1. -m \in Int /\ n \in Int
      OBVIOUS
    <3> QED
      BY <3>1, ModifyMoneyType DEF Pay
  <2>3. gold \in [Players -> 0..(MaxMoney - 1)]
    BY DEF IInv, BagsOK
  <2>4. p # q
    BY <1>0, <1>1, PartnerFacts
  <2>5. /\ Pay(gold[p], trade[p].money, trade[q].money) \in 0..(MaxMoney - 1)
        /\ Pay(gold[q], trade[q].money, trade[p].money) \in 0..(MaxMoney - 1)
    BY <2>1, <2>2, <2>3
  <2> QED
    BY <1>1, <2>3, <2>4, <2>5
<1>5. ASSUME NEW x \in Players \ {p, q} PROVE ShownTo(trade, loc', count, x) /\ AgreedBy(trade, x)
  <2> SUFFICES ASSUME trade[x] # NoTrade PROVE ShownTo(trade, loc', count, x)
    BY <1>0 DEF ShownTo
  <2>1. trade[x].trader \in Players \ {p, q} /\ trade[x].shown \in Views
    <3>1. trade[x].trader \in Players /\ trade[trade[x].trader].trader = x
      BY <1>0, PartnerFacts
    <3>2. trade[p].trader = q /\ trade[q].trader = p
      BY <1>0, <1>1, PartnerFacts
    <3> QED
      BY <1>0, <3>1, <3>2, TradeFields DEF TradesOK
  <2>2. \A pair \in trade[x].shown.items : pair[1] \in Items /\ loc[pair[1]] = trade[x].trader
    BY <1>0, <2>1 DEF ShownTo, Views
  <2>3. \A pair \in trade[x].shown.items : loc'[pair[1]] = loc[pair[1]]
    BY <1>3, <2>1, <2>2
  <2> QED
    BY <1>0, <2>3 DEF ShownTo
<1>6. /\ Sound(trade', loc', count)
      /\ \A x \in Players : trade'[x] # NoTrade => trade[x] # NoTrade
  BY <1>0, <1>1, <1>5, CancelSound
<1> QED
  BY <1>1, <1>3, <1>4, <1>6 DEF IInv, BagsOK, TradersOnline

\* Items that come and go, purses that change, players who log in and out.
LEMMA ElsesIInv ==
  ASSUME IInv, Elses
  PROVE  IInv'
<1>0. /\ Sound(trade, loc, count) /\ TradesOK(trade) /\ PairedIn(trade) /\ SlotsDistinct(trade)
      /\ \A x \in Players : ShownTo(trade, loc, count, x) /\ AgreedBy(trade, x)
      /\ loc \in [Items -> Players \cup {Elsewhere, Nowhere}]
  BY DEF IInv, Sound, BagsOK
<1>1. ASSUME NEW i \in Items, ItemLeaves(i) PROVE IInv'
  <2>1. /\ loc' = [loc EXCEPT ![i] = Elsewhere] /\ trade' = Forget(trade, i)
        /\ online' = online /\ count' = count /\ gold' = gold /\ clones' = clones
    BY <1>1 DEF ItemLeaves
  <2>2. Sound(trade', loc', count) /\ SamePairs(trade, trade')
    BY <1>0, <2>1, ForgetSound
  <2>3. loc' \in [Items -> Players \cup {Elsewhere, Nowhere}]
    BY <1>0, <2>1
  <2> QED
    BY <2>1, <2>2, <2>3 DEF IInv, BagsOK, TradersOnline, SamePairs
<1>2. ASSUME NEW i \in Items, NEW n \in 1..(count[i] - 1), SetCount(i, n) PROVE IInv'
  <2>1. Sound(trade', loc, count') /\ SamePairs(trade, trade') /\ count' \in [Items -> Nat \ {0}]
    BY <1>2, SetCountSound
  <2>2. online' = online /\ loc' = loc /\ gold' = gold /\ clones' = clones
    BY <1>2 DEF SetCount
  <2> QED
    BY <2>1, <2>2 DEF IInv, BagsOK, TradersOnline, SamePairs
<1>3. ASSUME NEW p \in Players, NEW i \in Items, ItemComes(p, i) PROVE IInv'
  <2>1. /\ loc[i] = Elsewhere /\ loc' = [loc EXCEPT ![i] = p]
        /\ online' = online /\ count' = count /\ gold' = gold /\ clones' = clones /\ trade' = trade
    BY <1>3 DEF ItemComes
  <2>2. loc' \in [Items -> Players \cup {Elsewhere, Nowhere}] /\ \A j \in Items \ {i} : loc'[j] = loc[j]
    BY <1>0, <2>1
  <2>3. ASSUME NEW x \in Players, trade[x] # NoTrade, NEW pair \in trade[x].shown.items
        PROVE  loc'[pair[1]] = loc[pair[1]] /\ count[pair[1]] = count[pair[1]]
    <3>1. trade[x].trader \in Players /\ trade[x].shown \in Views
      BY <1>0, <2>3, TradeFields DEF TradesOK
    <3>2. pair[1] \in Items /\ loc[pair[1]] = trade[x].trader
      BY <1>0, <2>3, <3>1 DEF ShownTo, Views
    <3>3. Elsewhere \notin Players
      BY NullAssumption
    <3> QED
      BY <2>1, <2>2, <3>1, <3>2, <3>3
  <2>4. Sound(trade, loc', count)
    BY <1>0, <2>3, UnseenSound
  <2> QED
    BY <2>1, <2>2, <2>4 DEF IInv, BagsOK, TradersOnline
<1>4. ASSUME NEW p \in Players, NEW amount \in Int, GoldChanges(p, amount) PROVE IInv'
  <2>1. /\ gold' = [gold EXCEPT ![p] = ModifyMoney(@, amount)]
        /\ online' = online /\ loc' = loc /\ count' = count /\ trade' = trade /\ clones' = clones
    BY <1>4 DEF GoldChanges
  <2>2. gold \in [Players -> 0..(MaxMoney - 1)]
    BY DEF IInv, BagsOK
  <2>3. ModifyMoney(gold[p], amount) \in 0..(MaxMoney - 1)
    BY <2>2, ModifyMoneyType
  <2>4. gold' \in [Players -> 0..(MaxMoney - 1)]
    BY <2>1, <2>2, <2>3
  <2> QED
    BY <2>1, <2>4 DEF IInv, BagsOK, TradersOnline
<1>5. ASSUME NEW p \in Players, Logout(p) PROVE IInv'
  <2>1. /\ online' = online \ {p} /\ trade' = TradeCancel(trade, p)
        /\ loc' = loc /\ count' = count /\ gold' = gold /\ clones' = clones
    BY <1>5 DEF Logout
  <2>2. /\ Sound(trade', loc, count) /\ trade'[p] = NoTrade
        /\ \A x \in Players : trade'[x] # NoTrade => trade[x] # NoTrade
    <3>1. CASE trade[p] = NoTrade
      <4>1. trade' = trade
        BY <2>1, <3>1 DEF TradeCancel
      <4> QED
        BY <1>0, <3>1, <4>1
    <3>2. CASE trade[p] # NoTrade
      BY <1>0, <2>1, <3>2, CancelSound
    <3> QED
      BY <3>1, <3>2
  <2> QED
    BY <2>1, <2>2 DEF IInv, BagsOK, TradersOnline
<1>6. ASSUME NEW p \in Players, Login(p) PROVE IInv'
  <2>1. /\ online' = online \cup {p} /\ trade' = trade
        /\ loc' = loc /\ count' = count /\ gold' = gold /\ clones' = clones
    BY <1>6 DEF Login
  <2> QED
    BY <2>1 DEF IInv, BagsOK, TradersOnline
<1>7. 1 \in Int /\ -1 \in Int
  OBVIOUS
<1> QED
  BY <1>1, <1>2, <1>3, <1>4, <1>5, <1>6, <1>7 DEF Elses

\* Every step keeps the invariant.
LEMMA NextIInv == IInv /\ [Next]_vars => IInv'
<1> SUFFICES ASSUME IInv, [Next]_vars PROVE IInv'
  OBVIOUS
<1>1. ASSUME NEW p \in Players, NEW q \in Players, HandleInitiateTrade(p, q) PROVE IInv'
  BY <1>1, InitiateIInv
<1>2. ASSUME NEW p \in Players, NEW q \in Players, Accepts(p, q) PROVE IInv'
  BY <1>2, AcceptsIInv, ExchangeIInv DEF Accepts
<1>3. ASSUME NEW p \in Players, Offers(p) PROVE IInv'
  BY <1>3, OffersIInv
<1>4. CASE Elses
  BY <1>4, ElsesIInv
<1>5. CASE UNCHANGED vars
  BY <1>5 DEF vars, IInv, BagsOK, TradersOnline
<1> QED
  BY <1>1, <1>2, <1>3, <1>4, <1>5 DEF Next

\* Over every interleaving of the opcodes, of what happens to bags and purses,
\* and of logins and logouts, open trades come in pairs of online players, and a
\* trade window shows no item, gold or spell that the partner does not offer.
THEOREM Invariance == Spec => []IInv
<1>1. Init => IInv
  BY InitIInv
<1>2. IInv /\ [Next]_vars => IInv'
  BY NextIInv
<1> QED
  BY <1>1, <1>2, PTL DEF Spec

\* m_trade comes and goes in pairs: GetTrader() and GetTraderData() are never
\* stale, and nobody keeps trading with a player who has logged out.
THEOREM PartnersExact == Spec => []TradesPaired
<1>1. IInv => TradesPaired
  <2> SUFFICES ASSUME IInv PROVE TradesPaired
    OBVIOUS
  <2>1. TradesOK(trade) /\ PairedIn(trade)
    BY DEF IInv, Sound
  <2>2. TypeOK
    BY <2>1 DEF IInv, BagsOK, TypeOK, TradesOK
  <2>3. ASSUME NEW p \in Players, trade[p] # NoTrade
        PROVE  LET q == trade[p].trader IN
               /\ p # q /\ {p, q} \subseteq online
               /\ trade[q] # NoTrade /\ trade[q].trader = p
    <3>1. trade[p].trader \in Players
      BY <2>1, <2>3, PartnerFacts
    <3> QED
      BY <2>1, <2>3, <3>1 DEF PairedIn, IInv, TradersOnline
  <2> QED
    BY <2>2, <2>3 DEF TradesPaired
<1> QED
  BY <1>1, Invariance, PTL

-----------------------------------------------------------------------------
(* The exchange of items without a limit.  TradeLimit's run shows what      *)
(* becomes of it when both offer items of a limited template.               *)

\* What p has handed over when moveItems has done the slots below n.
Given(p, n) == {GetItem(trade, p, s) : s \in 0..(n - 1)} \ {NoItem}

\* The board after these slots, if every item found its place.
Exchanged(p, q, n) ==
  [loc |-> [i \in Items |->
     IF i \in Given(p, n) THEN q
     ELSE IF i \in Given(q, n) THEN p
     ELSE IF i \in Offered(trade, p) \cup Offered(trade, q) THEN Nowhere
     ELSE loc[i]],
   clones |-> clones]

\* An item is handed over in the one slot it lies in.
LEMMA GivenFacts ==
  ASSUME TradesOK(trade), SlotsDistinct(trade), NEW p \in Players, trade[p] # NoTrade
  PROVE  /\ Given(p, 0) = {} /\ Given(p, NonTraded) = Offered(trade, p)
         /\ \A n \in Traded :
              /\ Given(p, n + 1) = Given(p, n) \cup ({GetItem(trade, p, n)} \ {NoItem})
              /\ Given(p, n) \subseteq Offered(trade, p)
              /\ GetItem(trade, p, n) \notin Given(p, n)
<1>0. NonTraded \in Nat /\ Traded = 0..(NonTraded - 1)
  BY TradeAssumption DEF Traded
<1>1. Given(p, 0) = {}
  BY DEF Given
<1>2. Given(p, NonTraded) = Offered(trade, p)
  BY <1>0 DEF Given, Offered
<1>3. ASSUME NEW n \in Traded
      PROVE  /\ Given(p, n + 1) = Given(p, n) \cup ({GetItem(trade, p, n)} \ {NoItem})
             /\ Given(p, n) \subseteq Offered(trade, p)
             /\ GetItem(trade, p, n) \notin Given(p, n)
  <2>0. n \in Nat /\ n < NonTraded
    BY <1>0
  <2>1. 0..((n + 1) - 1) = 0..(n - 1) \cup {n}
    BY <2>0
  <2>2. Given(p, n + 1) = Given(p, n) \cup ({GetItem(trade, p, n)} \ {NoItem})
    BY <2>1 DEF Given
  <2>3. \A s \in 0..(n - 1) : s \in Traded /\ s # n /\ s \in Slots /\ n \in Slots
    BY <1>0, <2>0 DEF Slots
  <2>4. Given(p, n) \subseteq Offered(trade, p)
    BY <2>3 DEF Given, Offered
  <2>5. GetItem(trade, p, n) \notin Given(p, n)
    <3> SUFFICES ASSUME GetItem(trade, p, n) \in Given(p, n) PROVE FALSE
      OBVIOUS
    <3>1. PICK s \in 0..(n - 1) : GetItem(trade, p, n) = GetItem(trade, p, s) /\ GetItem(trade, p, n) # NoItem
      BY DEF Given
    <3>2. s \in Traded /\ s # n /\ s \in Slots /\ n \in Slots
      BY <2>3
    <3>3. GetItem(trade, p, n) = trade[p].items[n] /\ GetItem(trade, p, s) = trade[p].items[s]
      BY <3>1, <3>2, GetItemFacts
    <3> QED
      BY <3>1, <3>2, <3>3 DEF SlotsDistinct
  <2> QED
    BY <2>2, <2>4, <2>5
<1> QED
  BY <1>1, <1>2, <1>3

\* What is offered lies in the bags of the one who offers it.
LEMMA OfferedFacts ==
  ASSUME TradesOK(trade), NEW p \in Players, trade[p] # NoTrade
  PROVE  Offered(trade, p) \subseteq Bag(loc, p) /\ Offered(trade, p) \subseteq Items
<1>1. ASSUME NEW i \in Offered(trade, p) PROVE i \in Items /\ loc[i] = p
  <2>1. PICK s \in Traded : i = GetItem(trade, p, s) /\ i # NoItem
    BY DEF Offered
  <2> QED
    BY <2>1, GetItemFacts
<1> QED
  BY <1>1 DEF Bag

\* While moveItems hands an item over there is room for it: CanStoreItems has
\* counted a place for each, the leaving items' places included.
LEMMA RoomForNext ==
  ASSUME IInv, NEW x \in Players, NEW y \in Players, trade[x] # NoTrade, trade[y] # NoTrade,
         CanStoreItems(y, Offered(trade, x), Offered(trade, y)),
         Offered(trade, x) \cap Limited = {},
         NEW n \in Traded, NEW b, b.clones = clones,
         Bag(b.loc, y) = (Bag(loc, y) \ Offered(trade, y)) \cup Given(x, n)
  PROVE  GetItem(trade, x, n) = NoItem \/ CanStoreItem(b, y, GetItem(trade, x, n), 0)
<1> DEFINE i == GetItem(trade, x, n)
           stay == Bag(loc, y) \ Offered(trade, y)
<1> SUFFICES ASSUME i # NoItem PROVE CanStoreItem(b, y, i, 0)
  OBVIOUS
<1>0. TradesOK(trade) /\ SlotsDistinct(trade) /\ IsFiniteSet(Items)
  BY TradeAssumption DEF IInv, Sound
<1>1. i \in Offered(trade, x)
  BY <1>0, GetItemFacts
<1>2. MayCarry(b.loc, y, i)
  BY <1>1 DEF MayCarry
<1>3. /\ Offered(trade, x) \subseteq Items /\ Offered(trade, y) \subseteq Bag(loc, y)
      /\ Bag(loc, y) \subseteq Items
  BY <1>0, OfferedFacts DEF Bag
<1>4. IsFiniteSet(Offered(trade, x)) /\ IsFiniteSet(Bag(loc, y)) /\ IsFiniteSet(Offered(trade, y))
  BY <1>0, <1>3, FS_Subset
<1>5. Given(x, n) \subseteq Offered(trade, x) /\ i \notin Given(x, n)
  BY <1>0, GivenFacts
<1>6. IsFiniteSet(Given(x, n)) /\ Cardinality(Given(x, n)) < Cardinality(Offered(trade, x))
  <2>1. Given(x, n) # Offered(trade, x)
    BY <1>1, <1>5
  <2> HIDE DEF i
  <2>2. IsFiniteSet(Given(x, n)) /\ Cardinality(Given(x, n)) <= Cardinality(Offered(trade, x))
    BY <1>4, <1>5, FS_Subset
  <2>3. Cardinality(Given(x, n)) # Cardinality(Offered(trade, x))
    BY <1>4, <1>5, <2>1, FS_Subset
  <2>4. Cardinality(Given(x, n)) \in Nat /\ Cardinality(Offered(trade, x)) \in Nat
    BY <1>4, <2>2, FS_CardinalityType
  <2> QED
    BY <2>2, <2>3, <2>4
<1>7. IsFiniteSet(stay) /\ Cardinality(stay) = Cardinality(Bag(loc, y)) - Cardinality(Offered(trade, y))
  <2>1. /\ IsFiniteSet(stay)
        /\ Cardinality(stay) = Cardinality(Bag(loc, y)) - Cardinality(Bag(loc, y) \cap Offered(trade, y))
    BY <1>4, FS_Difference
  <2>2. Bag(loc, y) \cap Offered(trade, y) = Offered(trade, y)
    BY <1>3
  <2> QED
    BY <2>1, <2>2
<1>8. Cardinality(Bag(b.loc, y)) <= Cardinality(stay) + Cardinality(Given(x, n))
  <2>1. /\ Cardinality(stay \cup Given(x, n)) = Cardinality(stay) + Cardinality(Given(x, n)) - Cardinality(stay \cap Given(x, n))
    BY <1>6, <1>7, FS_Union
  <2>2. IsFiniteSet(stay \cap Given(x, n))
    BY <1>6, <1>7, FS_Intersection
  <2>3. Cardinality(stay \cap Given(x, n)) \in Nat
    BY <2>2, FS_CardinalityType
  <2>4. Cardinality(stay) \in Nat /\ Cardinality(Given(x, n)) \in Nat
    BY <1>6, <1>7, FS_CardinalityType
  <2> HIDE DEF stay
  <2>5. Bag(b.loc, y) = stay \cup Given(x, n)
    BY DEF stay
  <2>6. \A k, m, e, z \in Nat : z = k + m - e => z <= k + m
    OBVIOUS
  <2>7. Cardinality(stay \cup Given(x, n)) \in Nat
    BY <1>6, <1>7, FS_Union, FS_CardinalityType
  <2>8. Cardinality(stay \cup Given(x, n)) <= Cardinality(stay) + Cardinality(Given(x, n))
    BY <2>1, <2>3, <2>4, <2>6, <2>7
  <2> QED
    BY <2>5, <2>8
<1>9. Capacity[y] - Cardinality(Bag(loc, y)) - clones[y] + Cardinality(Offered(trade, y)) >= Cardinality(Offered(trade, x))
  BY DEF CanStoreItems, Free
<1>10. /\ Capacity[y] \in Nat /\ clones[y] \in Nat
       /\ Cardinality(Bag(loc, y)) \in Nat /\ Cardinality(Offered(trade, y)) \in Nat
       /\ Cardinality(Offered(trade, x)) \in Nat /\ Cardinality(Given(x, n)) \in Nat
       /\ Cardinality(Bag(b.loc, y)) \in Nat
  <2>1. Capacity[y] \in Nat /\ clones[y] \in Nat
    BY TradeAssumption DEF IInv, BagsOK
  <2>2. IsFiniteSet(Bag(b.loc, y))
    BY <1>6, <1>7, FS_Union
  <2> QED
    BY <1>4, <1>6, <2>1, <2>2, FS_CardinalityType
<1>11. Capacity[y] - Cardinality(Bag(b.loc, y)) - clones[y] > 0
  <2> HIDE DEF stay, i
  <2> QED
    BY <1>6, <1>7, <1>8, <1>9, <1>10
<1> QED
  BY <1>2, <1>11 DEF CanStoreItem, Free

\* Two traders offer different items: each offers what is in his own bags.
LEMMA OffersApart ==
  ASSUME IInv, NEW p \in Players, NEW q \in Players, p # q, trade[p] # NoTrade, trade[q] # NoTrade
  PROVE  Offered(trade, p) \cap Offered(trade, q) = {}
<1>1. TradesOK(trade)
  BY DEF IInv, Sound
<1>2. Offered(trade, p) \subseteq Bag(loc, p) /\ Offered(trade, q) \subseteq Bag(loc, q)
  BY <1>1, OfferedFacts
<1> QED
  BY <1>2 DEF Bag

\* What the two bags hold between two slots of moveItems.
LEMMA ExchangedBags ==
  ASSUME IInv, NEW p \in Players, NEW q \in Players, p # q, trade[p] # NoTrade, trade[q] # NoTrade,
         NEW n \in Traded
  PROVE  /\ Bag(Exchanged(p, q, n).loc, q) = (Bag(loc, q) \ Offered(trade, q)) \cup Given(p, n)
         /\ Bag(Exchanged(p, q, n).loc, p) = (Bag(loc, p) \ Offered(trade, p)) \cup Given(q, n)
<1>0. TradesOK(trade) /\ SlotsDistinct(trade)
  BY DEF IInv, Sound
<1>1. Given(p, n) \subseteq Offered(trade, p) /\ Given(q, n) \subseteq Offered(trade, q)
  BY <1>0, GivenFacts
<1>2. /\ Offered(trade, p) \subseteq Bag(loc, p) /\ Offered(trade, q) \subseteq Bag(loc, q)
      /\ Offered(trade, p) \subseteq Items /\ Offered(trade, q) \subseteq Items
  BY <1>0, OfferedFacts
<1>3. Offered(trade, p) \cap Offered(trade, q) = {} /\ Nowhere \notin {p, q}
  BY NullAssumption, OffersApart
<1> DEFINE l == Exchanged(p, q, n).loc
<1>4. \A i \in Items :
        l[i] = IF i \in Given(p, n) THEN q
               ELSE IF i \in Given(q, n) THEN p
               ELSE IF i \in Offered(trade, p) \cup Offered(trade, q) THEN Nowhere
               ELSE loc[i]
  BY DEF Exchanged
<1> HIDE DEF l
<1>5. \A i \in Items : i \in Bag(l, q) <=> i \in (Bag(loc, q) \ Offered(trade, q)) \cup Given(p, n)
  BY <1>1, <1>2, <1>3, <1>4 DEF Bag
<1>6. \A i \in Items : i \in Bag(l, p) <=> i \in (Bag(loc, p) \ Offered(trade, p)) \cup Given(q, n)
  BY <1>1, <1>2, <1>3, <1>4 DEF Bag
<1>7. /\ Bag(l, q) \subseteq Items /\ Bag(l, p) \subseteq Items
      /\ (Bag(loc, q) \ Offered(trade, q)) \cup Given(p, n) \subseteq Items
      /\ (Bag(loc, p) \ Offered(trade, p)) \cup Given(q, n) \subseteq Items
  BY <1>1, <1>2 DEF Bag
<1> QED
  BY <1>5, <1>6, <1>7 DEF l

\* Two items handed over at once: what the board is afterwards.
LEMMA StoreBoth ==
  ASSUME IInv, NEW p \in Players, NEW q \in Players, p # q, trade[p] # NoTrade, trade[q] # NoTrade,
         NEW n \in Traded
  PROVE  Store(Store(Exchanged(p, q, n), q, GetItem(trade, p, n), 0), p, GetItem(trade, q, n), 0)
           = Exchanged(p, q, n + 1)
<1> DEFINE mine == GetItem(trade, p, n)
           his == GetItem(trade, q, n)
           b == Exchanged(p, q, n)
           a == Store(b, q, mine, 0)
           z == Store(a, p, his, 0)
<1>0. TradesOK(trade) /\ SlotsDistinct(trade) /\ clones \in [Players -> Nat]
  BY DEF IInv, Sound, BagsOK
<1>1. /\ Given(p, n + 1) = Given(p, n) \cup ({mine} \ {NoItem})
      /\ Given(q, n + 1) = Given(q, n) \cup ({his} \ {NoItem})
      /\ Given(p, n) \subseteq Offered(trade, p) /\ Given(q, n) \subseteq Offered(trade, q)
      /\ mine \notin Given(p, n) /\ his \notin Given(q, n)
  BY <1>0, GivenFacts
<1>2. /\ mine = NoItem \/ (mine \in Offered(trade, p) /\ mine \in Items)
      /\ his = NoItem \/ (his \in Offered(trade, q) /\ his \in Items)
  BY <1>0, GetItemFacts
<1>3. Offered(trade, p) \cap Offered(trade, q) = {} /\ NoItem \notin Items
  BY NullAssumption, OffersApart
<1> HIDE DEF mine, his
<1>4. ASSUME NEW c, NEW x \in Players, NEW i, c.clones = clones,
             c = [loc |-> c.loc, clones |-> c.clones], c.loc = [j \in Items |-> c.loc[j]]
      PROVE  /\ Store(c, x, i, 0).clones = clones
             /\ Store(c, x, i, 0).loc = [j \in Items |-> IF j = i /\ i # NoItem THEN x ELSE c.loc[j]]
             /\ Store(c, x, i, 0) = [loc |-> Store(c, x, i, 0).loc, clones |-> Store(c, x, i, 0).clones]
  <2>1. CASE i = NoItem
    BY <1>4, <2>1 DEF Store
  <2>2. CASE i # NoItem
    <3>1. Store(c, x, i, 0) = [loc |-> [c.loc EXCEPT ![i] = x], clones |-> [c.clones EXCEPT ![x] = @ + 0]]
      BY <2>2 DEF Store
    <3>2. [c.clones EXCEPT ![x] = @ + 0] = clones
      BY <1>0, <1>4
    <3>3. [c.loc EXCEPT ![i] = x] = [j \in Items |-> IF j = i THEN x ELSE c.loc[j]]
      BY <1>4
    <3> QED
      BY <2>2, <3>1, <3>2, <3>3
  <2> QED
    BY <2>1, <2>2
<1>5. b.clones = clones /\ b = [loc |-> b.loc, clones |-> b.clones] /\ b.loc = [j \in Items |-> b.loc[j]]
  BY DEF Exchanged
<1>6. \A j \in Items : b.loc[j] = IF j \in Given(p, n) THEN q
                                  ELSE IF j \in Given(q, n) THEN p
                                  ELSE IF j \in Offered(trade, p) \cup Offered(trade, q) THEN Nowhere
                                  ELSE loc[j]
  BY DEF Exchanged
<1> HIDE DEF b
<1>7. /\ a.clones = clones /\ a = [loc |-> a.loc, clones |-> a.clones]
      /\ a.loc = [j \in Items |-> IF j = mine /\ mine # NoItem THEN q ELSE b.loc[j]]
  BY <1>4, <1>5
<1> HIDE DEF a
<1>8. a.loc = [j \in Items |-> a.loc[j]]
  BY <1>7
<1>9. /\ z.clones = clones /\ z = [loc |-> z.loc, clones |-> z.clones]
      /\ z.loc = [j \in Items |-> IF j = his /\ his # NoItem THEN p ELSE a.loc[j]]
  BY <1>4, <1>7, <1>8
<1> HIDE DEF z
<1> DEFINE l == [j \in Items |-> IF j \in Given(p, n + 1) THEN q
                                 ELSE IF j \in Given(q, n + 1) THEN p
                                 ELSE IF j \in Offered(trade, p) \cup Offered(trade, q) THEN Nowhere
                                 ELSE loc[j]]
<1>10. \A j \in Items : z.loc[j] = l[j]
  <2> SUFFICES ASSUME NEW j \in Items PROVE z.loc[j] = l[j]
    OBVIOUS
  <2>1. z.loc[j] = IF j = his THEN p ELSE IF j = mine THEN q ELSE b.loc[j]
    BY <1>3, <1>7, <1>9
  <2>2. j \in Given(p, n + 1) <=> j \in Given(p, n) \/ j = mine
    BY <1>1, <1>3
  <2>3. j \in Given(q, n + 1) <=> j \in Given(q, n) \/ j = his
    BY <1>1, <1>3
  <2>4. ~(j = his /\ (j = mine \/ j \in Given(p, n))) /\ ~(j = mine /\ j \in Given(q, n))
    BY <1>1, <1>2, <1>3
  <2>5. ~(j = mine /\ j \in Given(p, n)) /\ ~(j = his /\ j \in Given(q, n))
    BY <1>1
  <2> QED
    BY <1>6, <2>1, <2>2, <2>3, <2>4, <2>5
<1>11. z.loc = l
  <2>1. z.loc = [j \in Items |-> z.loc[j]]
    BY <1>9
  <2> HIDE DEF l
  <2>2. l = [j \in Items |-> l[j]]
    BY DEF l
  <2> QED
    BY <1>10, <2>1, <2>2
<1>12. Exchanged(p, q, n + 1) = [loc |-> l, clones |-> clones]
  BY DEF Exchanged
<1> HIDE DEF l
<1>13. z = Exchanged(p, q, n + 1)
  BY <1>9, <1>11, <1>12
<1> QED
  BY <1>13 DEF z, a, b, mine, his

\* moveItems hands every offered item to the other trader and clones none.
LEMMA MoveItemsExact ==
  ASSUME IInv, NEW p \in Players, NEW q \in Players, p # q, trade[p] # NoTrade, trade[q] # NoTrade,
         BothCanStore(p, q), (Offered(trade, p) \cup Offered(trade, q)) \cap Limited = {}
  PROVE  moveItems(p, q) = Exchanged(p, q, NonTraded)
<1> DEFINE S == {n \in 0..NonTraded : Moved(p, q)[n] = Exchanged(p, q, n)}
<1>0. /\ NonTraded \in Nat /\ NonTraded \in 0..NonTraded /\ 0 \in 0..NonTraded
      /\ TradesOK(trade) /\ SlotsDistinct(trade)
  BY TradeAssumption DEF IInv, Sound
<1>1. 0 \in S
  <2>1. Given(p, 0) = {} /\ Given(q, 0) = {}
    BY <1>0, GivenFacts
  <2>2. Exchanged(p, q, 0) = Removed(p, q)
    BY <2>1 DEF Exchanged, Removed
  <2> QED
    BY <1>0, <2>2, MovedSlots
<1>2. ASSUME NEW n \in 0..(NonTraded - 1), n \in S PROVE n + 1 \in S
  <2>1. n \in Traded /\ n + 1 \in 1..NonTraded /\ (n + 1) - 1 = n /\ n + 1 \in 0..NonTraded
    BY <1>0 DEF Traded
  <2> DEFINE b == Exchanged(p, q, n)
             mine == GetItem(trade, p, n)
             his == GetItem(trade, q, n)
  <2>2. Moved(p, q)[n + 1] = MoveSlot(b, p, q, mine, his)
    <3>1. Moved(p, q)[n + 1] = SlotMoved(Moved(p, q)[n], p, q, n + 1)
      BY <2>1, MovedSlots
    <3>2. Moved(p, q)[n] = b
      BY <1>2
    <3> HIDE DEF b
    <3> QED
      BY <2>1, <3>1, <3>2 DEF SlotMoved
  <2>3. b.clones = clones
    BY DEF Exchanged
  <2>4. /\ Bag(b.loc, q) = (Bag(loc, q) \ Offered(trade, q)) \cup Given(p, n)
        /\ Bag(b.loc, p) = (Bag(loc, p) \ Offered(trade, p)) \cup Given(q, n)
    BY <2>1, ExchangedBags
  <2>5. Store(Store(b, q, mine, 0), p, his, 0) = Exchanged(p, q, n + 1)
    BY <2>1, StoreBoth
  <2> HIDE DEF b
  <2>6. mine = NoItem \/ CanStoreItem(b, q, mine, 0)
    <3>1. /\ CanStoreItems(q, Offered(trade, p), Offered(trade, q))
          /\ Offered(trade, p) \cap Limited = {}
      BY DEF BothCanStore
    <3> QED
      BY <2>1, <2>3, <2>4, <3>1, RoomForNext
  <2>7. his = NoItem \/ CanStoreItem(b, p, his, 0)
    <3>1. /\ CanStoreItems(p, Offered(trade, q), Offered(trade, p))
          /\ Offered(trade, q) \cap Limited = {}
      BY DEF BothCanStore
    <3> QED
      BY <2>1, <2>3, <2>4, <3>1, RoomForNext
  <2> HIDE DEF mine, his
  <2>8. MoveSlot(b, p, q, mine, his) = Store(Store(b, q, mine, 0), p, his, 0)
    BY <2>6, <2>7, Zenon DEF MoveSlot
  <2> QED
    BY <2>1, <2>2, <2>5, <2>8
<1>3. NonTraded \in S
  <2> HIDE DEF S
  <2> QED
    BY <1>0, <1>1, <1>2, SlotInduction
<1> QED
  BY <1>3, MovedIsMoveItems

\* What an exchange leaves behind: each offered item with the other trader, each
\* purse with exactly the two amounts booked, nothing cloned.
LEMMA ExchangeExact ==
  ASSUME IInv, NEW p \in Players, NEW q \in Players, Exchange(p, q),
         (Offered(trade, p) \cup Offered(trade, q)) \cap Limited = {}
  PROVE  /\ p # q /\ trade[p] # NoTrade /\ trade[p].trader = q
         /\ trade[q] # NoTrade /\ trade[q].trader = p /\ trade[q].accepted
         /\ clones' = clones
         /\ \A i \in Items :
              loc'[i] = IF i \in Offered(trade, p) THEN q
                        ELSE IF i \in Offered(trade, q) THEN p ELSE loc[i]
         /\ gold'[p] = gold[p] - trade[p].money + trade[q].money
         /\ gold'[q] = gold[q] - trade[q].money + trade[p].money
<1>0. TradesOK(trade) /\ PairedIn(trade) /\ SlotsDistinct(trade) /\ gold \in [Players -> 0..(MaxMoney - 1)]
  BY DEF IInv, Sound, BagsOK
<1>1. /\ trade[p] # NoTrade /\ trade[p].trader = q /\ trade[q] # NoTrade /\ trade[q].accepted
      /\ Unchecked(p, q) /\ BothCanStore(p, q)
      /\ loc' = moveItems(p, q).loc /\ clones' = moveItems(p, q).clones
      /\ gold' = [gold EXCEPT ![p] = Pay(@, trade[p].money, trade[q].money),
                              ![q] = Pay(@, trade[q].money, trade[p].money)]
  BY DEF Exchange, Accepting
<1>2. p # q /\ trade[q].trader = p
  BY <1>0, <1>1, PartnerFacts
<1>3. moveItems(p, q) = Exchanged(p, q, NonTraded)
  BY <1>1, <1>2, MoveItemsExact
<1>4. Given(p, NonTraded) = Offered(trade, p) /\ Given(q, NonTraded) = Offered(trade, q)
  BY <1>0, <1>1, GivenFacts
<1>5. clones' = clones
  BY <1>1, <1>3 DEF Exchanged
<1>6. \A i \in Items :
        loc'[i] = IF i \in Offered(trade, p) THEN q
                  ELSE IF i \in Offered(trade, q) THEN p ELSE loc[i]
  BY <1>1, <1>3, <1>4 DEF Exchanged
<1>7. /\ gold'[p] = Pay(gold[p], trade[p].money, trade[q].money)
      /\ gold'[q] = Pay(gold[q], trade[q].money, trade[p].money)
  BY <1>0, <1>1, <1>2
<1>8. /\ trade[p].money \in Nat /\ trade[q].money \in Nat /\ gold[p] \in Nat /\ gold[q] \in Nat
      /\ MaxMoney \in Nat
  BY <1>0, <1>1, TradeFields, TradeAssumption DEF TradesOK
<1>9. /\ ~(gold[p] < trade[p].money) /\ ~(gold[q] < trade[q].money)
      /\ ~(gold[p] >= MaxMoney - trade[q].money) /\ ~(gold[q] >= MaxMoney - trade[p].money)
  BY <1>1, UncheckedFacts
<1>10. /\ trade[p].money <= gold[p] /\ gold[p] < MaxMoney - trade[q].money
       /\ trade[q].money <= gold[q] /\ gold[q] < MaxMoney - trade[p].money
  BY <1>8, <1>9
<1>11. /\ Pay(gold[p], trade[p].money, trade[q].money) = gold[p] - trade[p].money + trade[q].money
       /\ Pay(gold[q], trade[q].money, trade[p].money) = gold[q] - trade[q].money + trade[p].money
  BY <1>8, <1>10, PayExact
<1> QED
  BY <1>1, <1>2, <1>5, <1>6, <1>7, <1>11

\* An exchange without limited items loses and mints no item, no stack and no
\* gold, however the two offers, the two purses and the room in the two bags stand.
\* TradeLimit's run refutes it when the template of the items has a limit.
THEOREM NothingLostOrMinted ==
  ASSUME Limited = {}
  PROVE  Spec => ExchangeConserves
<1>1. ASSUME IInv, NEW p \in Players, Completes(p)
      PROVE  LET q == trade[p].trader IN
             /\ Bag(loc, p) \cup Bag(loc, q) = Bag(loc', p) \cup Bag(loc', q)
             /\ UNCHANGED clones
             /\ gold'[p] + gold'[q] = gold[p] + gold[q]
  <2> DEFINE q == trade[p].trader
  <2>0. TradesOK(trade) /\ PairedIn(trade) /\ gold \in [Players -> 0..(MaxMoney - 1)]
    BY <1>1 DEF IInv, Sound, BagsOK
  <2>1. trade[p] # NoTrade /\ Exchange(p, q)
    BY <1>1 DEF Completes
  <2>2. q \in Players
    BY <2>0, <2>1, PartnerFacts
  <2>3. (Offered(trade, p) \cup Offered(trade, q)) \cap Limited = {}
    OBVIOUS
  <2> HIDE DEF q
  <2>4. /\ p # q /\ trade[p] # NoTrade /\ trade[q] # NoTrade /\ clones' = clones
        /\ \A i \in Items :
              loc'[i] = IF i \in Offered(trade, p) THEN q
                        ELSE IF i \in Offered(trade, q) THEN p ELSE loc[i]
        /\ gold'[p] = gold[p] - trade[p].money + trade[q].money
        /\ gold'[q] = gold[q] - trade[q].money + trade[p].money
    BY <1>1, <2>1, <2>2, <2>3, ExchangeExact
  <2>5. Offered(trade, p) \subseteq Bag(loc, p) /\ Offered(trade, q) \subseteq Bag(loc, q)
    BY <2>0, <2>2, <2>4, OfferedFacts
  <2>6. \A i \in Items : loc'[i] \in {p, q} <=> loc[i] \in {p, q}
    BY <2>4, <2>5 DEF Bag
  <2>7. Bag(loc, p) \cup Bag(loc, q) = Bag(loc', p) \cup Bag(loc', q)
    BY <2>6 DEF Bag
  <2>8. gold'[p] + gold'[q] = gold[p] + gold[q]
    <3>1. trade[p].money \in Nat /\ trade[q].money \in Nat /\ gold[p] \in Nat /\ gold[q] \in Nat
      BY <2>0, <2>2, <2>4, TradeFields, TradeAssumption DEF TradesOK
    <3>2. \A a, b, m, n \in Nat : (a - m + n) + (b - n + m) = a + b
      OBVIOUS
    <3> QED
      BY <2>4, <3>1, <3>2
  <2> QED
    BY <2>4, <2>7, <2>8 DEF q
<1>2. IInv => \A p \in Players : Completes(p) =>
        LET q == trade[p].trader IN
          /\ Bag(loc, p) \cup Bag(loc, q) = Bag(loc', p) \cup Bag(loc', q)
          /\ UNCHANGED clones
          /\ gold'[p] + gold'[q] = gold[p] + gold[q]
  BY <1>1
<1> QED
  BY <1>2, Invariance, PTL DEF ExchangeConserves

\* Each trader receives what his window showed when he pressed accept: no change
\* of an offer, in whatever order the opcodes of the two come in and whatever
\* happens to their bags and purses, slips in between his accept and the
\* exchange.
THEOREM AcceptedIsReceived ==
  ASSUME Limited = {}
  PROVE  Spec => ExchangeAsAgreed
<1> DEFINE Receives(x, agreed) ==
      /\ gold'[x] = gold[x] - trade[x].money + agreed.money
      /\ trade[trade[x].trader].spell = agreed.spell
      /\ \A pair \in agreed.items : loc'[pair[1]] = x /\ count[pair[1]] = pair[2]
<1>1. ASSUME IInv, NEW p \in Players, Completes(p)
      PROVE  \A x \in {p, trade[p].trader} :
               Receives(x, IF x = p THEN trade[x].shown ELSE trade[x].agreed)
  <2> DEFINE q == trade[p].trader
  <2>0. /\ TradesOK(trade) /\ PairedIn(trade)
        /\ \A x \in Players : ShownTo(trade, loc, count, x) /\ AgreedBy(trade, x)
    BY <1>1 DEF IInv, Sound
  <2>1. trade[p] # NoTrade /\ Exchange(p, q)
    BY <1>1 DEF Completes
  <2>2. q \in Players
    BY <2>0, <2>1, PartnerFacts
  <2>3. (Offered(trade, p) \cup Offered(trade, q)) \cap Limited = {}
    OBVIOUS
  <2>a. q = trade[p].trader
    OBVIOUS
  <2> HIDE DEF q
  <2>4. /\ p # q /\ trade[q] # NoTrade /\ trade[q].trader = p /\ trade[q].accepted
        /\ \A i \in Items :
              loc'[i] = IF i \in Offered(trade, p) THEN q
                        ELSE IF i \in Offered(trade, q) THEN p ELSE loc[i]
        /\ gold'[p] = gold[p] - trade[p].money + trade[q].money
        /\ gold'[q] = gold[q] - trade[q].money + trade[p].money
    BY <1>1, <2>1, <2>2, <2>3, ExchangeExact
  <2>5. ASSUME NEW x \in {p, q}, NEW y \in {p, q}, trade[x].trader = y, x # y
        PROVE  /\ trade[x].shown.money = trade[y].money /\ trade[y].spell = trade[x].shown.spell
               /\ \A pair \in trade[x].shown.items : loc'[pair[1]] = x /\ count[pair[1]] = pair[2]
    <3>1. x \in Players /\ y \in Players /\ trade[x] # NoTrade /\ trade[y] # NoTrade
      BY <2>1, <2>2, <2>4
    <3>2. /\ trade[x].shown.money = trade[y].money /\ trade[x].shown.spell = trade[y].spell
          /\ \A pair \in trade[x].shown.items :
               /\ loc[pair[1]] = y /\ count[pair[1]] = pair[2]
               /\ \E s \in Traded : trade[y].items[s] = pair[1]
      BY <2>0, <2>5, <3>1 DEF ShownTo
    <3>3. ASSUME NEW pair \in trade[x].shown.items PROVE loc'[pair[1]] = x
      <4>1. pair[1] \in Items /\ pair[1] # NoItem
        BY <2>0, <3>1, <3>3, TradeFields, NullAssumption DEF TradesOK, Views
      <4>2. PICK s \in Traded : trade[y].items[s] = pair[1] /\ loc[pair[1]] = y
        BY <3>2, <3>3
      <4>3. pair[1] = GetItem(trade, y, s)
        BY <4>1, <4>2 DEF GetItem
      <4>4. pair[1] \in Offered(trade, y)
        BY <4>1, <4>3 DEF Offered
      <4>5. Offered(trade, p) \cap Offered(trade, q) = {}
        BY <1>1, <2>1, <2>2, <2>4, OffersApart
      <4>6. (y = p /\ x = q) \/ (y = q /\ x = p)
        BY <2>5
      <4> QED
        BY <2>4, <4>1, <4>4, <4>5, <4>6
    <3> QED
      BY <3>2, <3>3
  <2>6. trade[q].agreed = trade[q].shown
    BY <2>0, <2>2, <2>4 DEF AgreedBy
  <2>7. Receives(p, trade[p].shown)
    BY <2>4, <2>5, <2>a
  <2>8. Receives(q, trade[q].agreed)
    BY <2>4, <2>5, <2>6
  <2> HIDE DEF Receives
  <2> QED
    BY <2>4, <2>7, <2>8, <2>a
<1>2. IInv => \A p \in Players : Completes(p) =>
       \A x \in {p, trade[p].trader} :
         LET y == trade[x].trader
             agreed == IF x = p THEN trade[x].shown ELSE trade[x].agreed
         IN  /\ gold'[x] = gold[x] - trade[x].money + agreed.money
             /\ trade[y].spell = agreed.spell
             /\ \A pair \in agreed.items : loc'[pair[1]] = x /\ count[pair[1]] = pair[2]
  BY <1>1, Zenon
<1> QED
  BY <1>2, Invariance, PTL DEF ExchangeAsAgreed
=============================================================================
