SPECIFICATION Spec
CONSTANTS
    h = h
    v = v
    Clients <- MCClients
    Publishers <- MCPublishers
    Askers <- MCAskers
    Host = h
    None = None
    Cap = 1
INVARIANTS OneOfferAtATime
PROPERTIES HandlersReturn RoomServes BrokenClientsLeave
CHECK_DEADLOCK FALSE
