CONSTANTS
  alice = alice
  bob = bob
  cloth = cloth
  sword = sword
  gem = gem
  ring = ring
  amulet = amulet
  Players = {alice, bob}
  Items = {cloth, sword}
  FirstOwner <- MCFirstOwner
  Stack <- MCStack
  Limited = {}
  MaxCount = 1
  Capacity <- MCCapacity
  NonTraded = 1
  Purse <- MCPurse
  MaxMoney = 3
  Elsewhere = Elsewhere
  Nowhere = Nowhere
  NoItem = NoItem
  NoTrade = NoTrade
  NoView = NoView
SPECIFICATION Spec
INVARIANTS TradesPaired
PROPERTIES
  ExchangeConserves
  ExchangeAsAgreed
