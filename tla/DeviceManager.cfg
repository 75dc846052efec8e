CONSTANTS
  d1 = d1
  d2 = d2
  d3 = d3
  Device = {d1, d2, d3}
  Thread = {t1, t2}
  Nobody = Nobody
  DepGraphs <- TestGraphs
  OpGets <- TestOpGets
  MaxCommands = 2
SPECIFICATION DMSpec
INVARIANTS
  CircularExact
  ConstructedOnceInOrder
PROPERTIES
  NullOnlyDuringStores
  CommandsReturn
