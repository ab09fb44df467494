CONSTANTS
  continent = continent
  outland = outland
  dungeon = dungeon
  i1 = i1
  i2 = i2
  InstancedMaps = {dungeon}
  Parent <- MCParent
  BaseMaps = {continent, outland, dungeon}
  Instances = {i1, i2}
  Workers = {t1, t2}
  HighWater = 2
SPECIFICATION FairSpec
INVARIANTS
  PendingExact
  NoDanglingRequest
  OneRequestPerMap
  WorldThreadAlone
PROPERTIES
  ImplementsTick
