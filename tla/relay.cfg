SPECIFICATION Safety
CONSTANTS
  c1 = c1
  c2 = c2
  c3 = c3
  r1 = r1
  t1 = t1
  t2 = t2
  Arrivals <- SmallArrivals
  Conns = {c1, c2, c3}
  Rooms = {r1}
  Tokens = {t1, t2}
  None = None
  NoRoom = NoRoom
  MaxForwards = 2
INVARIANT RegistryAgrees
INVARIANT EvictedIsToldToClose
INVARIANT FramesMakeSense
CHECK_DEADLOCK FALSE
SYMMETRY LatePeers
