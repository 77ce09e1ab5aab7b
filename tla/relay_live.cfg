SPECIFICATION Spec
CONSTANTS
  c1 = c1
  c2 = c2
  c3 = c3
  r1 = r1
  t1 = t1
  t2 = t2
  Arrivals <- LiveArrivals
  Conns = {c1, c2}
  Rooms = {r1}
  Tokens = {t1, t2}
  None = None
  NoRoom = NoRoom
  MaxForwards = 2
PROPERTY LostConnectionsEnd
CHECK_DEADLOCK FALSE
