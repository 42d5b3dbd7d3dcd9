SPECIFICATION Spec
CONSTANTS
    a = a
    b = b
    bob = bob
    s1 = s1
    s2 = s2
    Nodes = {a, b}
    Edges = {b}
    Sockets = {s1, s2}
    NodeOf <- Placed
    Users = {bob}
    UserOf <- Owners
    None = None
    Hosts <- HostsOf
    MaxEvents = 2
INVARIANTS EventsOnceInOrder EventsOnTheirWay RegistryNamesOpenRooms OffersAnsweredOnce
SYMMETRY SocketSymmetry
CHECK_DEADLOCK FALSE
