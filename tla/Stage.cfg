SPECIFICATION Spec
CONSTANTS
    host = host
    ann = ann
    bob = bob
    s1 = s1
    s2 = s2
    s3 = s3
    Users = {host, ann, bob}
    Host = host
    Sockets = {s1, s2, s3}
    Owner <- Owners
    Timer = timer
    Batcher = batcher
    None = None
    MaxSeats = 2
INVARIANTS SavedAfterChange
PROPERTIES SeatsKept
