CONSTANTS
  Packets = {k1, k2}
  None = None
  MaxLogins = 2
SPECIFICATION FairSpec
INVARIANTS
  PacketsOwned
  NoPacketTwicePerUpdate
  RightCharacter
PROPERTIES
  OvertakesOnlyDelayed
  PacketsConsumed
