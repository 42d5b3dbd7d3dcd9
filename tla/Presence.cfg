SPECIFICATION Spec
CONSTANTS
    host = host
    ann = ann
    s1 = s1
    s2 = s2
    s3 = s3
    Users = {host, ann}
    Host = host
    Sockets = {s1, s2, s3}
    Owner <- Owners
    Admins = {s2}
    Timer = timer
    None = None
    MaxViewers = 1
INVARIANTS BanHolds TablesAgree LimitHolds PresenceShown
PROPERTIES PresenceReachesAll
