SPECIFICATION FairSpec
PROPERTY LostHostResolved
PROPERTY LostViewerResolved
CHECK_DEADLOCK FALSE
CONSTANTS
  host = host
  h1 = h1
  h2 = h2
  t1 = t1
  t2 = t2
  Users = {host}
  Publishers = {host}
  Admins = {host}
  HttpHosts = {host, OriginHost}
  Clients = {h1, h2}
  UserOf <- MCUserOf
  Timers = {t1, t2}
  MaxRooms = 1
  EmptyTimeout = TRUE
  OriginHost = OriginHost
  NoUser = NoUser
  NoClient = NoClient
  NoTimer = NoTimer
