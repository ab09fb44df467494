CONSTANTS
  alice = alice
  bob = bob
  cloth = cloth
  sword = sword
  gem = gem
  ring = ring
  amulet = amulet
  Players = {alice, bob}
  Items = {gem, ring, amulet, sword}
  FirstOwner <- MCLimitFirstOwner
  Stack <- MCLimitStack
  Limited = {gem, ring, amulet}
  MaxCount = 2
  Capacity <- MCLimitCapacity
  NonTraded = 2
  Purse <- MCLimitPurse
  MaxMoney = 1
  Elsewhere = Elsewhere
  Nowhere = Nowhere
  NoItem = NoItem
  NoTrade = NoTrade
  NoView = NoView
SPECIFICATION Spec
PROPERTIES
  ExchangeConserves
