CONSTANTS
  Senders = {t1, t2}
  MaxPackets = 2
SPECIFICATION FairLifeSpec
INVARIANTS
  NoDeletedSessionUsed
  RefsExact
  NoDeletedSocketUsed
PROPERTIES
  ClosedSocketGoes
