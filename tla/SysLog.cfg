CONSTANTS
  w1 = w1
  w2 = w2
  p1 = p1
  Session = {w1, w2, p1}
  Websock = {w1, w2}
  Slow = {w1, p1}
  Order <- MixedOrder
  Thread = {t1, t2}
  MaxDepth = 4
  MaxPrints = 1
SPECIFICATION SLSpec
INVARIANTS
  DepthBounded
PROPERTIES
  PrintReturns
