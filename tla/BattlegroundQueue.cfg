CONSTANTS
  a1 = a1
  a2 = a2
  h1 = h1
  h2 = h2
  Players = {a1, a2, h1, h2}
  Team <- TeamOf
  Soloists = {a1, a2}
  Parties <- BothParties
  MaxInstance = 1
  MinPlayersPerTeam = 1
  MaxPlayersPerTeam = 2
  CounterSize = 8
  MaxJoins = 3
  MaxAway = 1
SPECIFICATION Spec
ACTION_CONSTRAINT StaysSmall
SYMMETRY Symmetric
INVARIANTS QueueConsistent InvitedCovers OfflineQueueSound FreeSlotsListed
