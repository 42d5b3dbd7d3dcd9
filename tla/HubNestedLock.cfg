SPECIFICATION HubFairSpec
PROPERTY ZombiesAreRemoved
CHECK_DEADLOCK FALSE
CONSTANTS
  c1 = c1
  c2 = c2
  r1 = r1
  m1 = m1
  Peers = {c1, c2}
  Rooms = {r1}
  Makers = {m1}
  NoClient = NoClient
